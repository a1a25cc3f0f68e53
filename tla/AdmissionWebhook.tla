-------------------------- MODULE AdmissionWebhook --------------------------
(***************************************************************************)
(* The admission webhook beside the controller: what it does for pods that *)
(* ask for access to a CSQLP instance (pkg/admission/pod.go), and how it   *)
(* guards the deletion of PostgresqlInstance resources                     *)
(* (pkg/admission/webhook.go, postgresqlinstance.go).  Each call made to   *)
(* the Kubernetes API during the admission of a pod is one action, so pods *)
(* interleave with each other and with the syncs of the controller.        *)
(***************************************************************************)
EXTENDS ControllerProperties

CONSTANTS
  Namespaces,
  Pods,
  Target      \* Target[p]: the namespace of p, and the object it asks for

ASSUME WebhookAssumption ==
  /\ Target \in [Pods -> Namespaces \X Keys]
  /\ None \notin Uid

VARIABLES
  allow,     \* allow[k]: "allow-deletion" is "true" on the stored object k
  deleting,  \* keys for which a DELETE request has been admitted
  local,     \* local[ns, k]: the secret in the namespace ns for k
  pod,       \* pod[p]: the admission of p
  history    \* read by no action

admission == <<allow, deleting, local, pod, history>>

\* "uid" is that of the owner.
LocalSecret == [uid : Uid, pw : Passwords \cup {None}]

AdmissionSteps == {"none", "GetObject", "GetSecret", "CreateLocal", "GetLocal",
                   "PatchLocal", "admitted"}

\* The variables of mutatePod: the object's uid, whether it reports the
\* connection name, and the password that was read.
Admission ==
  [pc : AdmissionSteps, uid : Uid \cup {None}, conn : BOOLEAN,
   pw : Passwords \cup {None}]

NoPod == [pc |-> "none", uid |-> None, conn |-> FALSE, pw |-> None]

\*   first[k] - the first object ever created under the name k;
\*   waived   - objects that allowed their deletion at some time, or were
\*              created when the deletion of their name had been admitted.
History == [first : [Keys -> Uid \cup {None}], waived : SUBSET Uid]

WebhookInit ==
  /\ Init
  /\ allow = [k \in Keys |-> FALSE]
  /\ deleting = {}
  /\ local = [at \in Namespaces \X Keys |-> None]
  /\ pod = [p \in Pods |-> NoPod]
  /\ history = [first |-> [k \in Keys |-> None], waived |-> {}]
-----------------------------------------------------------------------------
(* PostgresqlInstance resources.                                           *)

Waive(k, uid) == history' = [history EXCEPT !.waived = @ \cup {uid}]

\* mutatePostgresqlInstanceMetadataAnnotations: deletion is not allowed
\* unless the user says so.
CreateObject(k) ==
  /\ UserCreate(k)
  /\ LET uid == used.uids + 1
     IN \E a \in BOOLEAN :
          /\ allow' = [allow EXCEPT ![k] = a]
          /\ history' = [first |-> [history.first EXCEPT ![k] = IF @ = None THEN uid ELSE @],
                         waived |-> history.waived \cup
                           (IF a \/ k \in deleting THEN {uid} ELSE {})]
  /\ UNCHANGED <<deleting, local, pod>>

AnnotateObject(k) ==
  /\ UserAnnotate(k)
  /\ allow' = [allow EXCEPT ![k] = ~@]
  /\ IF allow[k] THEN UNCHANGED history ELSE Waive(k, Live(k).uid)
  /\ UNCHANGED <<deleting, local, pod>>

\* Mutant of Deletable: the annotation only has to be there, as it always is.
DeletableIfAnnotated(k) == TRUE

\* A deletion is admitted if there is nothing (any more) to be deleted, or if
\* the object allows it.
Deletable(k) == Live(k) = None \/ allow[k]

\* The object is read from the Kubernetes API, not taken from the request.
AdmitDeletion(k) ==
  /\ k \notin deleting /\ Deletable(k)
  /\ deleting' = deleting \cup {k}
  /\ UNCHANGED <<vars, allow, local, pod, history>>

\* The API server deletes what has the name by now.
DeleteObject(k) ==
  /\ k \in deleting
  /\ \/ UserDelete(k)
     \/ (Live(k) # None => Live(k).del) /\ UNCHANGED vars
  /\ deleting' = deleting \ {k}
  /\ UNCHANGED <<allow, local, pod, history>>
-----------------------------------------------------------------------------
(* Pods: mutatePod.                                                        *)

KeyOf(p) == Target[p][2]
InPod(p, pc) == pod[p].pc = pc
GotoPod(p, pc) == pod' = [pod EXCEPT ![p].pc = pc]

\* The pod is created, with the sidecar and the secret.
Admit(p) == pod' = [pod EXCEPT ![p] = [NoPod EXCEPT !.pc = "admitted", !.uid = pod[p].uid]]

\* An error, or no answer in time: there is no pod with access to the
\* instance, and whoever wants one asks again.
Refuse(p) == pod' = [pod EXCEPT ![p] = NoPod]

\* Somebody creates a pod with the annotation that asks for access.
RequestPod(p) ==
  /\ InPod(p, "none")
  /\ GotoPod(p, "GetObject")
  /\ UNCHANGED <<vars, allow, deleting, local, history>>

GetObject(p) ==
  /\ InPod(p, "GetObject")
  /\ LET live == Live(KeyOf(p))
     IN \E o \in Outcomes(IF live = None THEN NotFound ELSE Ok) :
          /\ Spend(o)
          /\ IF o.code # Ok THEN Refuse(p)
             ELSE pod' = [pod EXCEPT ![p] = [NoPod EXCEPT !.pc = "GetSecret",
                                               !.uid = live.uid, !.conn = live.conn]]
  /\ UNCHANGED <<cloud, log, secret, pending, w, allow, deleting, local, history>>

\* Mutant of Presentable: whether the instance is ready is not looked at.
PresentableAnyway(p) == TRUE

\* The connection name has been reported.
Presentable(p) == pod[p].conn

GetInstanceSecret(p) ==
  /\ InPod(p, "GetSecret")
  /\ LET s == secret[KeyOf(p)]
     IN \E o \in Outcomes(IF s = None THEN NotFound ELSE Ok) :
          /\ Spend(o)
          /\ IF o.code # Ok \/ ~Presentable(p) THEN Refuse(p)
             ELSE pod' = [pod EXCEPT ![p] = [@ EXCEPT !.pc = "CreateLocal", !.conn = FALSE,
                                               !.pw = s.pw]]
  /\ UNCHANGED <<cloud, log, secret, pending, w, allow, deleting, local, history>>

\* Mutant of LocalSecretOf: the secret is not owned by the object.
LocalSecretOfNobody(p) == [uid |-> None, pw |-> pod[p].pw]

\* buildLocalPostgresqlInstanceSecret.
LocalSecretOf(p) == [uid |-> pod[p].uid, pw |-> pod[p].pw]

\* Mutant of CreateLocal: a secret that exists already is an error.
CreateLocalOnce(p) ==
  /\ InPod(p, "CreateLocal")
  /\ IF local[Target[p]] = None
       THEN /\ local' = [local EXCEPT ![Target[p]] = LocalSecretOf(p)]
            /\ Admit(p)
       ELSE Refuse(p) /\ UNCHANGED local
  /\ UNCHANGED <<vars, allow, deleting, history>>

CreateLocal(p) ==
  /\ InPod(p, "CreateLocal")
  /\ \E o \in Outcomes(IF local[Target[p]] = None THEN Ok ELSE Conflict) :
       /\ Spend(o)
       /\ local' = IF o.applied THEN [local EXCEPT ![Target[p]] = LocalSecretOf(p)]
                                ELSE local
       /\ \/ o.code = Ok /\ Admit(p)
          \/ o.code = Conflict /\ GotoPod(p, "GetLocal")
          \/ o.code = ServerError /\ Refuse(p)
  /\ UNCHANGED <<cloud, log, secret, pending, w, allow, deleting, history>>

LocalReply(p) == IF local[Target[p]] = None THEN NotFound ELSE Ok

GetLocal(p) ==
  /\ InPod(p, "GetLocal")
  /\ \E o \in Outcomes(LocalReply(p)) :
       /\ Spend(o)
       /\ IF o.code = Ok THEN GotoPod(p, "PatchLocal") ELSE Refuse(p)
  /\ UNCHANGED <<cloud, log, secret, pending, w, allow, deleting, local, history>>

\* The patch carries the data and nothing else: not the owner, and not the
\* resource version.
PatchLocal(p) ==
  /\ InPod(p, "PatchLocal")
  /\ \E o \in Outcomes(LocalReply(p)) :
       /\ Spend(o)
       /\ local' = IF o.applied THEN [local EXCEPT ![Target[p]].pw = pod[p].pw] ELSE local
       /\ IF o.code = Ok THEN Admit(p) ELSE Refuse(p)
  /\ UNCHANGED <<cloud, log, secret, pending, w, allow, deleting, history>>

DeletePod(p) ==
  /\ InPod(p, "admitted")
  /\ Refuse(p)
  /\ UNCHANGED <<vars, allow, deleting, local, history>>

\* The secret is owned by an object that no longer exists.
CollectLocal(at) ==
  /\ local[at] # None /\ local[at].uid # None
  /\ ~(Live(at[2]) # None /\ Live(at[2]).uid = local[at].uid)
  /\ local' = [local EXCEPT ![at] = None]
  /\ UNCHANGED <<vars, allow, deleting, pod, history>>
-----------------------------------------------------------------------------
AdmitPod(p) == \/ GetObject(p) \/ GetInstanceSecret(p)
               \/ CreateLocal(p) \/ GetLocal(p) \/ PatchLocal(p)

\* What the controller, the cloud and the informer do, and crashes.
Unadmitted ==
  \/ Continue \/ Crash
  \/ \E k \in Keys : \/ StartSync(k) \/ Deliver(k) \/ Resync(k)
                     \/ CollectSecret(k) \/ UserEdit(k)
  \/ \E n \in Names : \/ CloudFinish(n) \/ CloudRelease(n)
                      \/ CloudFail(n) \/ CloudDrift(n)

WebhookNext ==
  \/ Unadmitted /\ UNCHANGED admission
  \/ \E k \in Keys : \/ CreateObject(k) \/ AnnotateObject(k)
                     \/ AdmitDeletion(k) \/ DeleteObject(k)
  \/ \E p \in Pods : RequestPod(p) \/ AdmitPod(p) \/ DeletePod(p)
  \/ \E at \in Namespaces \X Keys : CollectLocal(at)

WebhookSpec == WebhookInit /\ [][WebhookNext]_<<vars, admission>>

\* In addition to what the controller assumes: the webhook answers, whoever
\* wants a pod asks until there is one, and the garbage collector runs.
WebhookFairness ==
  /\ Fairness
  /\ \A p \in Pods : /\ WF_<<vars, admission>>(RequestPod(p))
                     /\ WF_<<vars, admission>>(AdmitPod(p))
  /\ \A at \in Namespaces \X Keys : WF_<<vars, admission>>(CollectLocal(at))

FairWebhookSpec == WebhookSpec /\ WebhookFairness
-----------------------------------------------------------------------------
\* The variables stay within their types, and whoever writes the secret of a
\* namespace knows the object it is for.
WebhookTypeOK ==
  /\ allow \in [Keys -> BOOLEAN]
  /\ deleting \subseteq Keys
  /\ local \in [Namespaces \X Keys -> LocalSecret \cup {None}]
  /\ pod \in [Pods -> Admission]
  /\ history \in History
  /\ \A p \in Pods : pod[p].pc \notin {"none", "GetObject"} => pod[p].uid # None

\* A pod that was given access to an instance can use it: the secret it mounts
\* is there, belongs to the object, and holds the password that is set on the
\* instance, although the webhook copies what the controller writes in two
\* places, and other pods write the same copy.  Of an object that replaces
\* another one of its name this does not hold (see the README).
CredentialsAgree ==
  \A p \in Pods :
    LET o == Live(KeyOf(p))
        s == local[Target[p]]
    IN InPod(p, "admitted") /\ o # None /\ o.uid = pod[p].uid
       /\ history.first[KeyOf(p)] = o.uid
       => /\ s # None /\ s.uid = o.uid /\ s.pw # None
          /\ MadeFor(o.name, KeyOf(p), o) => s.pw = cloud[o.name].pw

\* docs/design/00-overview.adoc:88: "in order to prevent accidental deletion",
\* no instance is deleted unless the object it was made for has allowed it.
\* What can come between is an object created after the deletion of its name
\* was admitted, when there was none.
NoAccidentalDeletion ==
  \A n \in Names : cloud[n].by # None /\ cloud[n].asked
                     => cloud[n].by[2] \in history.waived

\* docs/design/00-overview.adoc:87: deleting an object deletes "all secrets
\* (across all namespaces)" too, also those of pods whose admission began
\* before and ends after.
SecretsGoAway ==
  \A k \in Keys :
    <>[](Live(k) = None)
      => <>[](secret[k] = None /\ \A ns \in Namespaces : local[ns, k] = None)

\* Every pod gets access to an instance that can be reconciled, in the end.
PodsAreAdmitted ==
  \A p \in Pods : <>[]Reconcilable(KeyOf(p)) => []<>InPod(p, "admitted")
=============================================================================
