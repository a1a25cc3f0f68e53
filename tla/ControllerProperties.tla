------------------------ MODULE ControllerProperties ------------------------
(***************************************************************************)
(* What the reconciliation of PostgresqlInstance resources promises, and   *)
(* what the repository says of it that does not hold.                      *)
(***************************************************************************)
EXTENDS PostgresqlInstanceController

\* The variables stay within their types, and a sync under way has read an
\* object from the cache.
TypeOK ==
  /\ cloud \in [Names -> Instance(Keys \X Uid)]
  /\ log \in [Keys -> Seq(Object \cup {None})]
  /\ \A k \in Keys : log[k] # <<>>
  /\ secret \in [Keys -> Secret \cup {None}]
  /\ pending \subseteq Keys
  /\ w \in Worker
  /\ w.pc \notin {"Idle", "Panic"}
       => w.key \in Keys /\ w.i \in Object /\ w.p \in Object
  /\ used \in [faults : 0 .. MaxFaults, edits : 0 .. MaxEdits,
               drift : 0 .. MaxDrift, uids : 0 .. MaxUid]
-----------------------------------------------------------------------------
(* Safety.                                                                 *)

\* The instance n was inserted for version o of the object k.
MadeFor(n, k, o) ==
  /\ o # None
  /\ cloud[n].by = <<k, o.uid>>
  /\ o.name = n

\* Orphan mitigation: an instance the operator created, and whose deletion it
\* has not got accepted, belongs to an object that is still stored and that
\* the finalizer still protects, whatever crashes, lost replies and stale
\* reads happen between the calls of processQueueItem.
NoOrphan ==
  \A n \in Names, k \in Keys :
    cloud[n].by # None /\ cloud[n].by[1] = k /\ ~cloud[n].asked
      => MadeFor(n, k, Live(k)) /\ Live(k).fin

\* An instance is deleted only for the object it was created for, and only
\* when a user has deleted that object: the cached deletion timestamp that
\* processQueueItem acts on is never out of date, and the successor of a
\* deleted object never loses its instance.
CondemnedOnly ==
  [][\A n \in Names :
       ~cloud[n].asked /\ cloud'[n].asked /\ cloud[n].by # None
         => /\ cloud[n].by[1] = w.key
            /\ MadeFor(n, w.key, Live(w.key))
            /\ Live(w.key).del]_vars

\* setInstancePassword writes in two places that cannot be written together:
\* a password found in the secret is the one last set on the instance, if one
\* was set since the instance was created.
PasswordAgreement ==
  \A n \in Names, k \in Keys :
    /\ secret[k] # None /\ MadeFor(n, k, Live(k))
    /\ secret[k].uid = Live(k).uid
    /\ secret[k].pw # None /\ cloud[n].pw # None
    => secret[k].pw = cloud[n].pw
-----------------------------------------------------------------------------
(* The controller implements InstanceLifecycle.                            *)

ObjectState(k) ==
  IF Live(k) = None THEN "absent"
  ELSE IF ~Live(k).fin THEN "plain"
  ELSE IF Live(k).del THEN "condemned" ELSE "protected"

InstanceState(k) ==
  IF \E n \in Names : cloud[n].by # None /\ cloud[n].by[1] = k /\ ~cloud[n].asked
    THEN "made"
  ELSE IF Live(k) # None /\ MadeFor(Live(k).name, k, Live(k))
    THEN "doomed" ELSE "none"

Lifecycle == INSTANCE InstanceLifecycle
  WITH object <- [k \in Keys |-> ObjectState(k)],
       instance <- [k \in Keys |-> InstanceState(k)]

\* Every step of the controller, the users and the cloud is a step of the
\* lifecycle, or none: in particular the finalizer is there before the
\* instance, and goes only after the deletion of the instance is accepted.
ImplementsLifecycle == Lifecycle!Spec
-----------------------------------------------------------------------------
(* Liveness.  Fairness is that of the Go scheduler, of client-go's work    *)
(* queue and informer (which resyncs forever), of the garbage collector,   *)
(* and of the operations that Cloud SQL has accepted.  Users, failures and *)
(* the release of a name owe nothing.                                      *)

Fairness ==
  /\ WF_vars(Continue)
  /\ \A k \in Keys : /\ WF_vars(StartSync(k))
                     /\ WF_vars(Deliver(k))
                     /\ WF_vars(Resync(k))
                     /\ WF_vars(CollectSecret(k))
  /\ \A n \in Names : WF_vars(CloudFinish(n))

FairSpec == Spec /\ Fairness

\* Deletion completes: the finalizer of an object that users have deleted is
\* removed eventually, even if calls fail and the operator restarts.
DeletionCompletes ==
  \A k \in Keys : [](Live(k) # None /\ Live(k).del => <>(Live(k) = None))

\* What must keep still, and be right, for an object to be reconciled: users
\* leave it alone, Cloud SQL accepts its settings and has its name, nobody
\* stopped the instance, and its last operation did not fail.
Reconcilable(k) ==
  /\ Live(k) # None /\ ~Live(k).del /\ ~Live(k).paused
  /\ Live(k).s \notin Invalid
  /\ LET c == cloud[Live(k).name]
     IN /\ c.st \notin {"Reserved", "Stopped"}
        /\ c.op # "Failed"
        /\ <<c.s, Live(k).s>> \notin Rejected

Reconciled(k) ==
  /\ cloud[Live(k).name].st = "Runnable"
  /\ cloud[Live(k).name].s = Live(k).s
  /\ Live(k).conn
  /\ Live(k).conds.ready = "InstanceReady"
  /\ Live(k).conds.upToDate = "InstanceUpToDate"
  /\ secret[k] # None /\ secret[k].pw # None

\* Reconciliation converges: from then on, the instance is as specified, and
\* the status and the secret say how to use it.
Converges ==
  \A k \in Keys : <>[]Reconcilable(k) => <>[](Live(k) # None /\ Reconciled(k))
-----------------------------------------------------------------------------
(* What the repository says, and the code does not do.                     *)

\* pkg/controllers/postgresqlinstance.go:381: a conflict reported by an
\* update is logged, "waiting until the next iteration of the controller to
\* actually perform the update"; the worker does not go down with it.
ConflictIsSurvived == ~At("Panic")

\* docs/usage/01-managing-csqlp-instances.adoc:143: "The Created condition is
\* set to True to indicate that creation of the CSQLP instance is
\* terminated": an instance that is reported as ready has been created.
ReadyImpliesCreated ==
  \A k \in Keys :
    Live(k) # None /\ Live(k).conds.ready = "InstanceReady"
      => Live(k).conds.created = "InstanceCreated"

\* docs/design/00-overview.adoc:437: an object "is only permanently deleted
\* from the Kubernetes API when the associated Cloud SQL Admin API resource
\* has been cleaned up"; here, at least, when it is still being cleaned up.
GoneOnlyWhenCleanedUp ==
  \A n \in Names, k \in Keys, u \in 1 .. MaxUid :
    cloud[n].by = <<k, u>> /\ cloud[n].st # "Deleting"
      => Live(k) # None /\ Live(k).uid = u

\* docs/design/00-overview.adoc:74: "When a CSQLP instance is created,
\* cloudsql-postgres-operator generates a random password for the postgres
\* user": an instance that is reported as up to date has been given one.
PasswordGenerated ==
  \A k \in Keys :
    /\ Live(k) # None /\ Live(k).conds.upToDate = "InstanceUpToDate"
    /\ MadeFor(Live(k).name, k, Live(k))
    => cloud[Live(k).name].pw # None
=============================================================================
