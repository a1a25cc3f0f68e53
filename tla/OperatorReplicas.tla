-------------------------- MODULE OperatorReplicas --------------------------
(***************************************************************************)
(* The life of the operator's replicas, from their start to their end:     *)
(* cmd/operator/main.go, with the registration of the admission webhook    *)
(* (pkg/admission/tls.go, register.go), the registration of the custom     *)
(* resource definition (pkg/crds/register.go), and pkg/signals.  Replicas  *)
(* share the objects they register, and a lock that decides which of them  *)
(* runs the controller.                                                    *)
(*                                                                         *)
(* A call is one action.  Every error on the way up is fatal, so a call    *)
(* that fails, with or without effect, is a replica that ends before or    *)
(* after the call.                                                         *)
(***************************************************************************)
EXTENDS Naturals

CONSTANTS
  Replicas,
  Certs,          \* certificates that may be generated, or exist already
  LeaseDuration,  \* how long a lock counts that is not seen to be renewed
  RenewDeadline,  \* how long a leader tries to renew its lock
  RetryPeriod,    \* how often it does
  MaxFaults,      \* replicas that end abruptly, or are cut off
  MaxSignals,     \* signals sent
  Former,         \* a replica that has ended, as the holder of the lock
  None

\* A leader gives up before anybody may take the lock from it.
ASSUME ReplicasAssumption ==
  /\ {LeaseDuration, RenewDeadline, RetryPeriod, MaxFaults, MaxSignals} \subseteq Nat
  /\ RetryPeriod + RenewDeadline < LeaseDuration
  /\ None \notin Replicas /\ Former \notin Replicas /\ None # Former
  /\ None \notin Certs \cup Nat

VARIABLES
  tls,      \* the certificate in the secret the replicas share
  config,   \* the MutatingWebhookConfiguration
  crd,      \* the CustomResourceDefinition
  holder,   \* the replica that the lock's record names
  age,      \* age[r]: time since r has renewed the lock or has first seen it
            \* as it is; None if r is to look at it, or has nothing to do with it
  rep,      \* rep[r]: the replica r
  used      \* how much of each bound is used

vars == <<tls, config, crd, holder, age, rep, used>>

\* "former": written by an earlier version of the operator.
Config == [ca : Certs, former : BOOLEAN]
CRD == [former : BOOLEAN, established : BOOLEAN]

ASSUME ObjectsAssumption == None \notin Config /\ None \notin CRD

\* The main goroutine, the goroutine that runs while the replica is the
\* leader, and the server of the admission webhook.
Main == {"CreateSecret", "GetSecret", "CreateConfig", "GetConfig",
         "UpdateConfig", "Acquire", "Renew", "Exited"}
Run == {"off", "CreateCRD", "GetCRD", "UpdateCRD", "WaitCRD", "Control", "Wait"}
Server == {"off", "up", "down"}

\* "cert": the certificate to serve; "seen": the object as it was read;
\* "cut": the lock cannot be renewed for now.
Replica ==
  [main : Main, run : Run, server : Server, cert : Certs \cup {None},
   seen : Config \cup CRD \cup {None}, signals : 0 .. 2, cut : BOOLEAN]

Ended == [main |-> "Exited", run |-> "off", server |-> "off", cert |-> None,
          seen |-> None, signals |-> 0, cut |-> FALSE]

\* The operator is installed for the first time, over the remains of an
\* earlier installation, or as a new version.
Init ==
  /\ tls \in Certs \cup {None}
  /\ config \in {None} \cup (IF tls = None THEN Config ELSE [ca : {tls}, former : {TRUE}])
  /\ crd \in {None, [former |-> TRUE, established |-> TRUE]}
  /\ holder \in {None, Former}
  /\ age = [r \in Replicas |-> None]
  /\ rep = [r \in Replicas |-> Ended]
  /\ used = [faults |-> 0, signals |-> 0]

At(r, pc) == rep[r].main = pc
In(r, pc) == rep[r].run = pc
Stopping(r) == rep[r].signals > 0

\* The process of r ends; nobody gives the lock back.
End(r) ==
  /\ rep' = [rep EXCEPT ![r] = Ended]
  /\ age' = [age EXCEPT ![r] = None]
  /\ holder' = IF holder = r THEN Former ELSE holder
-----------------------------------------------------------------------------
(* The way up.                                                             *)

\* Kubernetes starts the container (again).
Start(r) ==
  /\ At(r, "Exited")
  /\ rep' = [rep EXCEPT ![r].main = "CreateSecret"]
  /\ UNCHANGED <<tls, config, crd, holder, age, used>>

\* Mutant of CreateSecret: the certificate that was generated is served even
\* if there is another one.
CreateSecretAndServe(r) ==
  /\ At(r, "CreateSecret")
  /\ \E c \in Certs \ {tls} :
       /\ tls' = IF tls = None THEN c ELSE tls
       /\ rep' = [rep EXCEPT ![r].main = "CreateConfig", ![r].cert = c]
  /\ UNCHANGED <<config, crd, holder, age, used>>

\* Mutant of CreateSecret: any error is taken to mean that there is a secret.
CreateSecretOrGet(r) ==
  /\ At(r, "CreateSecret")
  /\ rep' = [rep EXCEPT ![r].main = "GetSecret"]
  /\ UNCHANGED <<tls, config, crd, holder, age, used>>

\* ensureTLSSecret: a new certificate is generated, and used only if there is
\* no secret yet.
CreateSecret(r) ==
  /\ At(r, "CreateSecret")
  /\ \/ /\ tls = None
        /\ \E c \in Certs :
             /\ tls' = c
             /\ rep' = [rep EXCEPT ![r].main = "CreateConfig", ![r].cert = c]
     \/ /\ tls # None
        /\ rep' = [rep EXCEPT ![r].main = "GetSecret"]
        /\ UNCHANGED tls
  /\ UNCHANGED <<config, crd, holder, age, used>>

GetSecret(r) ==
  /\ At(r, "GetSecret")
  /\ rep' = [rep EXCEPT ![r].main = "CreateConfig", ![r].cert = tls]
  /\ UNCHANGED <<tls, config, crd, holder, age, used>>

Desired(r) == [ca |-> rep[r].cert, former |-> FALSE]

\* The webhook is registered: main starts its server and goes for the lock.
Registered(r) ==
  rep' = [rep EXCEPT ![r].main = "Acquire", ![r].server = "up", ![r].seen = None]

CreateConfig(r) ==
  /\ At(r, "CreateConfig")
  /\ \/ config = None /\ config' = Desired(r) /\ Registered(r)
     \/ /\ config # None /\ UNCHANGED config
        /\ rep' = [rep EXCEPT ![r].main = "GetConfig"]
  /\ UNCHANGED <<tls, crd, holder, age, used>>

\* What the API server fills in may make a configuration that is as desired
\* look different.
GetConfig(r) ==
  /\ At(r, "GetConfig")
  /\ \/ config = Desired(r) /\ Registered(r)
     \/ rep' = [rep EXCEPT ![r].main = "UpdateConfig", ![r].seen = config]
  /\ UNCHANGED <<tls, config, crd, holder, age, used>>

\* Mutant of UpdateConfig: an update that is refused is sent again.
UpdateConfigAgain(r) ==
  /\ At(r, "UpdateConfig")
  /\ config = rep[r].seen
  /\ config' = Desired(r)
  /\ Registered(r)
  /\ UNCHANGED <<tls, crd, holder, age, used>>

\* The update is refused if the configuration is not the one that was read.
UpdateConfig(r) ==
  /\ At(r, "UpdateConfig")
  /\ \/ /\ config = rep[r].seen
        /\ config' = Desired(r)
        /\ Registered(r)
        /\ UNCHANGED <<holder, age>>
     \/ /\ config # rep[r].seen
        /\ End(r)
        /\ UNCHANGED config
  /\ UNCHANGED <<tls, crd, used>>
-----------------------------------------------------------------------------
(* Leader election (client-go).  A replica looks at the lock's record from *)
(* time to time, and takes it when it has not seen it change for as long   *)
(* as LeaseDuration.  The leader writes to the record; when it cannot for  *)
(* as long as RenewDeadline, main ends the process.                        *)

\* The record changes: every other replica has to look at it anew.
Touched(r, t) == [q \in Replicas |-> IF q = r THEN t ELSE None]

Observe(r) ==
  /\ At(r, "Acquire")
  /\ holder # None /\ age[r] = None
  /\ age' = [age EXCEPT ![r] = 0]
  /\ UNCHANGED <<tls, config, crd, holder, rep, used>>

\* Mutant of Expired: the lease is over as soon as a renewal is overdue.
ExpiredEarly(r) == age[r] # None /\ age[r] >= RenewDeadline

\* The record has not changed for so long that its holder has given up.
Expired(r) == age[r] # None /\ age[r] >= LeaseDuration

\* Mutant of Acquire: only a lock that is given back is taken.
AcquireAbsent(r) ==
  /\ At(r, "Acquire")
  /\ holder = None
  /\ holder' = r
  /\ age' = Touched(r, 0)
  /\ rep' = [rep EXCEPT ![r].main = "Renew", ![r].run = "CreateCRD"]
  /\ UNCHANGED <<tls, config, crd, used>>

Acquire(r) ==
  /\ At(r, "Acquire")
  /\ holder = None \/ Expired(r)
  /\ holder' = r
  /\ age' = Touched(r, 0)
  /\ rep' = [rep EXCEPT ![r].main = "Renew", ![r].run = "CreateCRD"]
  /\ UNCHANGED <<tls, config, crd, used>>

Renew(r) ==
  /\ At(r, "Renew") /\ holder = r
  /\ age' = Touched(r, 0)
  /\ rep' = [rep EXCEPT ![r].cut = FALSE]
  /\ UNCHANGED <<tls, config, crd, holder, used>>

\* The API server does not answer the leader any more ...
Cut(r) ==
  /\ At(r, "Renew") /\ ~rep[r].cut
  /\ used.faults < MaxFaults
  /\ used' = [used EXCEPT !.faults = @ + 1]
  /\ rep' = [rep EXCEPT ![r].cut = TRUE]
  /\ UNCHANGED <<tls, config, crd, holder, age>>

\* ... although what it sends may arrive.
RenewUnanswered(r) ==
  /\ At(r, "Renew") /\ holder = r /\ rep[r].cut
  /\ age' = Touched(r, age[r])
  /\ UNCHANGED <<tls, config, crd, holder, rep, used>>

\* OnStoppedLeading.
GiveUp(r) ==
  /\ At(r, "Renew") /\ rep[r].cut
  /\ age[r] >= RenewDeadline
  /\ End(r)
  /\ UNCHANGED <<tls, config, crd, used>>

\* By when a leader has renewed its lock, or has ended.
Deadline(r) == IF rep[r].cut THEN RetryPeriod + RenewDeadline ELSE RetryPeriod

Tick ==
  /\ \A r \in Replicas : At(r, "Renew") => age[r] < Deadline(r)
  /\ age' = [r \in Replicas |-> IF age[r] \in 0 .. LeaseDuration - 1 THEN age[r] + 1
                                 ELSE age[r]]
  /\ UNCHANGED <<tls, config, crd, holder, rep, used>>
-----------------------------------------------------------------------------
(* run: what the leader does.                                              *)

Goto(r, pc) == rep' = [rep EXCEPT ![r].run = pc]

CreateCRD(r) ==
  /\ In(r, "CreateCRD")
  /\ \/ /\ crd = None /\ Goto(r, "WaitCRD")
        /\ crd' = [former |-> FALSE, established |-> FALSE]
     \/ crd # None /\ Goto(r, "GetCRD") /\ UNCHANGED crd
  /\ UNCHANGED <<tls, config, holder, age, used>>

\* Mutant of GetCRD: a definition that exists is good enough.
GetCRDAndTrust(r) ==
  /\ In(r, "GetCRD")
  /\ Goto(r, "WaitCRD")
  /\ UNCHANGED <<tls, config, crd, holder, age, used>>

\* As for the configuration, what the server filled in may look different.
GetCRD(r) ==
  /\ In(r, "GetCRD")
  /\ \/ ~crd.former /\ Goto(r, "WaitCRD")
     \/ rep' = [rep EXCEPT ![r].run = "UpdateCRD", ![r].seen = crd]
  /\ UNCHANGED <<tls, config, crd, holder, age, used>>

UpdateCRD(r) ==
  /\ In(r, "UpdateCRD")
  /\ \/ /\ crd = rep[r].seen
        /\ crd' = [crd EXCEPT !.former = FALSE]
        /\ rep' = [rep EXCEPT ![r].run = "WaitCRD", ![r].seen = None]
        /\ UNCHANGED <<holder, age>>
     \/ /\ crd # rep[r].seen
        /\ End(r)
        /\ UNCHANGED crd
  /\ UNCHANGED <<tls, config, used>>

\* The API server has started to serve the resource.
Establish ==
  /\ crd # None /\ ~crd.established
  /\ crd' = [crd EXCEPT !.established = TRUE]
  /\ UNCHANGED <<tls, config, holder, age, rep, used>>

WaitCRD(r) ==
  /\ In(r, "WaitCRD")
  /\ crd.established
  /\ Goto(r, "Control")
  /\ UNCHANGED <<tls, config, crd, holder, age, used>>
-----------------------------------------------------------------------------
(* The end.                                                                *)

\* SetupSignalHandler: the first signal closes the stop channel, the second
\* one ends the process.
Signal(r) ==
  /\ ~At(r, "Exited")
  /\ used.signals < MaxSignals
  /\ used' = [used EXCEPT !.signals = @ + 1]
  /\ \/ /\ ~Stopping(r)
        /\ rep' = [rep EXCEPT ![r].signals = 1]
        /\ UNCHANGED <<holder, age>>
     \/ Stopping(r) /\ End(r)
  /\ UNCHANGED <<tls, config, crd>>

\* The stop channel is closed: the server of the webhook shuts down ...
StopServer(r) ==
  /\ Stopping(r) /\ rep[r].server = "up"
  /\ rep' = [rep EXCEPT ![r].server = "down"]
  /\ UNCHANGED <<tls, config, crd, holder, age, used>>

\* Mutant of StopController: it takes a second signal.
StopControllerLate(r) ==
  /\ rep[r].signals > 1 /\ In(r, "Control")
  /\ Goto(r, "Wait")
  /\ UNCHANGED <<tls, config, crd, holder, age, used>>

\* ... and so does the controller, if it runs.
StopController(r) ==
  /\ Stopping(r) /\ In(r, "Control")
  /\ Goto(r, "Wait")
  /\ UNCHANGED <<tls, config, crd, holder, age, used>>

\* All goroutines of the wait group have ended.
Exit(r) ==
  /\ In(r, "Wait") /\ rep[r].server = "down"
  /\ End(r)
  /\ UNCHANGED <<tls, config, crd, used>>

\* A crash, or log.Fatalf after a call that failed (or took too long, as the
\* custom resource definition may).
Fatal(r) ==
  /\ ~At(r, "Exited")
  /\ used.faults < MaxFaults
  /\ used' = [used EXCEPT !.faults = @ + 1]
  /\ End(r)
  /\ UNCHANGED <<tls, config, crd>>
-----------------------------------------------------------------------------
\* What a replica does of its own accord.
Proceed(r) ==
  \/ CreateSecret(r) \/ GetSecret(r)
  \/ CreateConfig(r) \/ GetConfig(r) \/ UpdateConfig(r)
  \/ StopServer(r)

Elect(r) == Observe(r) \/ Acquire(r)

Lead(r) ==
  \/ CreateCRD(r) \/ GetCRD(r) \/ UpdateCRD(r) \/ WaitCRD(r)
  \/ StopController(r) \/ Exit(r)

Next ==
  \/ \E r \in Replicas :
       \/ Start(r) \/ Proceed(r) \/ Elect(r) \/ Lead(r)
       \/ Renew(r) \/ RenewUnanswered(r) \/ GiveUp(r)
       \/ Cut(r) \/ Signal(r) \/ Fatal(r)
  \/ Tick \/ Establish

Spec == Init /\ [][Next]_vars

\* The Go scheduler runs the goroutines, time passes, Kubernetes starts
\* containers that have ended, and serves a resource that is defined.  No
\* signal and no failure is owed.
FairSpec ==
  /\ Spec
  /\ WF_vars(Tick) /\ WF_vars(Establish)
  /\ \A r \in Replicas : /\ WF_vars(Start(r)) /\ WF_vars(Proceed(r))
                         /\ WF_vars(Elect(r)) /\ WF_vars(Renew(r))
                         /\ WF_vars(Lead(r))
-----------------------------------------------------------------------------
\* The variables stay within their types; a replica that reads an object has
\* seen that it exists, and one that goes on has a certificate.
TypeOK ==
  /\ tls \in Certs \cup {None}
  /\ config \in Config \cup {None}
  /\ crd \in CRD \cup {None}
  /\ holder \in Replicas \cup {None, Former}
  /\ age \in [Replicas -> 0 .. LeaseDuration \cup {None}]
  /\ rep \in [Replicas -> Replica]
  /\ used \in [faults : 0 .. MaxFaults, signals : 0 .. MaxSignals]
  /\ \A r \in Replicas :
       /\ At(r, "GetSecret") => tls # None
       /\ rep[r].main \notin {"Exited", "CreateSecret", "GetSecret"}
            => rep[r].cert # None
       /\ rep[r].main \in {"GetConfig", "UpdateConfig"} => config # None
       /\ rep[r].run \in {"GetCRD", "UpdateCRD", "WaitCRD", "Control"} => crd # None

Active(r) == ~In(r, "off")

\* cmd/operator/main.go:165: "at most a single instance of the application is
\* active at any given moment", although nobody gives the lock back, renewals
\* get lost, and a leader that is cut off stays active for a while.
AtMostOneActive == \A q, r \in Replicas : Active(q) /\ Active(r) => q = r

\* Whichever replica the API server calls, it is one that serves the
\* certificate that the registered configuration trusts, even if replicas
\* that start together all generate one and all write the configuration.
TrustedCertificate ==
  \A r \in Replicas :
    rep[r].server = "up" => config # None /\ config.ca = rep[r].cert

\* The controller runs only when the resource is served as this version of
\* the operator defines it, whoever created or updated the definition.
DefinedFirst ==
  \A r \in Replicas :
    In(r, "Control") => crd = [former |-> FALSE, established |-> TRUE]

\* Some replica runs the controller over and over again: no lock that a
\* replica took to its grave, and no race on the way up, ends the operator.
SomeoneLeads == []<>(\E r \in Replicas : In(r, "Control"))

\* Every replica that is not told to stop gets to serve the webhook, although
\* losing a race for the configuration ends it.
EveryReplicaServes ==
  \A r \in Replicas : []<>(rep[r].server = "up" \/ Stopping(r))

\* A leader that is told to stop ends, and so does a replica that is told to
\* stop while it waits for the lock, once it has got it: waiting, it does not
\* look at the signal.
LeaderStops == \A r \in Replicas : [](Stopping(r) /\ Active(r) => <>At(r, "Exited"))
=============================================================================
