-------------------------- MODULE GenericController --------------------------
(***************************************************************************)
(* The part of a controller that does not depend on the kind of resource:  *)
(* pkg/controllers/generic.go, with the client-go work queue it is built   *)
(* on, and its place in the life of the process (cmd/operator/main.go).    *)
(***************************************************************************)
EXTENDS Naturals, Sequences, FiniteSets

CONSTANTS
  Keys,     \* keys of objects
  Workers,  \* the worker goroutines ("threadiness" of them)
  None

ASSUME GenericAssumption == None \notin Keys /\ IsFiniteSet(Workers)

VARIABLES
  queue,       \* keys that can be taken, in order
  dirty,       \* keys that need processing
  processing,  \* keys that have been taken and not marked as done
  waiting,     \* keys that are added after a back-off
  job,         \* job[w]: what worker w is doing
  phase,       \* where Run is
  due          \* history: keys for which an event or a failed sync has not
               \* been followed by the start of another sync

queueVars == <<queue, dirty, processing, waiting>>
vars == <<queueVars, job, phase, due>>

\* "Syncing": waiting for the informers' caches.  "Cancelled": the context is.
\* "Returned": Run has returned, so the queue is shut down.  "Exited": the
\* process has ended.
Phases == {"Syncing", "Running", "Cancelled", "Returned", "Exited"}

\* "get": at workqueue.Get; "sync": in syncHandler; "done": at workqueue.Done.
Job == [at : {"get", "sync", "done", "stopped"}, key : Keys \cup {None}]

ShuttingDown == phase \in {"Returned", "Exited"}

Init ==
  /\ queue = <<>> /\ dirty = {} /\ processing = {} /\ waiting = {}
  /\ job = [w \in Workers |-> [at |-> "stopped", key |-> None]]
  /\ phase = "Syncing"
  /\ due = {}
-----------------------------------------------------------------------------
(* The work queue.                                                         *)

Add(k) ==
  IF ShuttingDown \/ k \in dirty THEN UNCHANGED <<queue, dirty>>
  ELSE /\ dirty' = dirty \cup {k}
       /\ queue' = IF k \in processing THEN queue ELSE Append(queue, k)

\* The key is added when its back-off is over.
AddRateLimited(k) == waiting' = IF ShuttingDown THEN waiting ELSE waiting \cup {k}

Ripe(k) ==
  /\ k \in waiting /\ ~ShuttingDown
  /\ waiting' = waiting \ {k}
  /\ Add(k)
  /\ UNCHANGED <<processing, job, phase, due>>
-----------------------------------------------------------------------------
(* The controller.                                                         *)

\* An event handler of the informer calls enqueue.
Enqueue(k) ==
  /\ phase # "Exited"
  /\ Add(k)
  /\ due' = IF ShuttingDown THEN due ELSE due \cup {k}
  /\ UNCHANGED <<processing, waiting, job, phase>>

\* Mutant of Get: the call of Done is not deferred.
GetAndDone(w) ==
  /\ job[w].at = "get" /\ queue # <<>>
  /\ dirty' = dirty \ {Head(queue)}
  /\ job' = [job EXCEPT ![w] = [at |-> "sync", key |-> Head(queue)]]
  /\ due' = due \ {Head(queue)}
  /\ queue' = Tail(queue)
  /\ UNCHANGED <<processing, waiting, phase>>

\* processNextWorkItem, up to the call of syncHandler.
Get(w) ==
  /\ job[w].at = "get" /\ queue # <<>>
  /\ LET k == Head(queue)
     IN /\ processing' = processing \cup {k}
        /\ dirty' = dirty \ {k}
        /\ job' = [job EXCEPT ![w] = [at |-> "sync", key |-> k]]
        /\ due' = due \ {k}
  /\ queue' = Tail(queue)
  /\ UNCHANGED <<waiting, phase>>

\* Workers empty the queue before they stop.
StopWorker(w) ==
  /\ job[w].at = "get" /\ queue = <<>> /\ ShuttingDown
  /\ job' = [job EXCEPT ![w].at = "stopped"]
  /\ UNCHANGED <<queueVars, phase, due>>

\* Mutant of SyncHandler: a failed sync is forgotten.
SyncHandlerWithoutRetry(w) ==
  /\ job[w].at = "sync"
  /\ due' \in {due, due \cup {job[w].key}}
  /\ job' = [job EXCEPT ![w].at = "done"]
  /\ UNCHANGED <<queueVars, phase>>

\* syncHandler returns; after an error the key is added again later.
SyncHandler(w) ==
  /\ job[w].at = "sync"
  /\ LET k == job[w].key
     IN \/ UNCHANGED <<waiting, due>>
        \/ /\ AddRateLimited(k)
           /\ due' = IF ShuttingDown THEN due ELSE due \cup {k}
  /\ job' = [job EXCEPT ![w].at = "done"]
  /\ UNCHANGED <<queue, dirty, processing, phase>>

\* Mutants of Done: events that came during the sync are left aside; the key
\* is never marked as done.
DoneWithoutQueueing(w) ==
  /\ job[w].at = "done"
  /\ processing' = processing \ {job[w].key}
  /\ job' = [job EXCEPT ![w] = [at |-> "get", key |-> None]]
  /\ UNCHANGED <<queue, dirty, waiting, phase, due>>

DoneForgotten(w) ==
  /\ job[w].at = "done"
  /\ job' = [job EXCEPT ![w] = [at |-> "get", key |-> None]]
  /\ UNCHANGED <<queueVars, phase, due>>

\* The deferred call of workqueue.Done.
Done(w) ==
  /\ job[w].at = "done"
  /\ LET k == job[w].key
     IN /\ processing' = processing \ {k}
        /\ queue' = IF k \in dirty THEN Append(queue, k) ELSE queue
  /\ job' = [job EXCEPT ![w] = [at |-> "get", key |-> None]]
  /\ UNCHANGED <<dirty, waiting, phase, due>>
-----------------------------------------------------------------------------
(* Run, and the end of the process.                                        *)

\* The caches are synced: the workers start.
StartWorkers ==
  /\ phase = "Syncing"
  /\ phase' = "Running"
  /\ job' = [w \in Workers |-> [at |-> "get", key |-> None]]
  /\ UNCHANGED <<queueVars, due>>

\* A signal, or the loss of the leader election, cancels the context.  If the
\* caches are not synced by then Run returns at once.
Cancel ==
  /\ \/ phase = "Syncing" /\ phase' = "Returned"
     \/ phase = "Running" /\ phase' = "Cancelled"
  /\ UNCHANGED <<queueVars, job, due>>

\* Run returns and shuts the queue down; it does not wait for the workers.
Return ==
  /\ phase = "Cancelled"
  /\ phase' = "Returned"
  /\ UNCHANGED <<queueVars, job, due>>

\* main calls os.Exit once Run has returned.
Exit ==
  /\ phase = "Returned"
  /\ phase' = "Exited"
  /\ job' = [w \in Workers |-> [at |-> "stopped", key |-> None]]
  /\ queue' = <<>> /\ dirty' = {} /\ processing' = {} /\ waiting' = {} /\ due' = {}
-----------------------------------------------------------------------------
Work(w) == Get(w) \/ SyncHandler(w) \/ Done(w) \/ StopWorker(w)

Next ==
  \/ \E k \in Keys : Enqueue(k) \/ Ripe(k)
  \/ \E w \in Workers : Work(w)
  \/ StartWorkers \/ Cancel \/ Return \/ Exit

Spec == Init /\ [][Next]_vars
-----------------------------------------------------------------------------
\* The variables stay within their types; what is queued is what needs
\* processing and is not being processed, once each.
TypeOK ==
  /\ queue \in Seq(Keys)
  /\ \A i, j \in DOMAIN queue : queue[i] = queue[j] => i = j
  /\ {queue[i] : i \in DOMAIN queue} = dirty \ processing
  /\ dirty \subseteq Keys /\ processing \subseteq Keys /\ waiting \subseteq Keys
  /\ job \in [Workers -> Job]
  /\ phase \in Phases
  /\ due \subseteq Keys

\* generic.go:51: two workers never process the same key at the same time,
\* whatever events arrive while it is being processed.
NeverTwice ==
  \A v, w \in Workers :
    job[v].at \in {"sync", "done"} /\ job[w].at \in {"sync", "done"} /\ v # w
      => job[v].key # job[w].key

\* An event that arrives during a sync, and a failed sync, are not forgotten:
\* another sync is queued, or will be.
NothingForgotten == ~ShuttingDown => due \subseteq dirty \cup waiting

\* The work queue and the workers implement KeyDispatch, which is what
\* PostgresqlInstanceController assumes of them.
Dispatch == INSTANCE KeyDispatch
  WITH Threads <- Cardinality(Workers),
       pending <- dirty \cup waiting,
       busy <- processing,
       open <- ~ShuttingDown

ImplementsDispatch == Dispatch!Spec

\* Fairness: the Go scheduler runs the workers, back-offs end, and caches get
\* synced.  Handlers that return are assumed: every call has a timeout.
FairSpec ==
  /\ Spec
  /\ WF_vars(StartWorkers)
  /\ \A k \in Keys : WF_vars(Ripe(k))
  /\ \A w \in Workers : WF_vars(Work(w))

\* Every event, and every failed sync, is followed by another sync, even if
\* other keys keep failing and events keep arriving, unless the controller is
\* told to stop.
EveryKeyHandled ==
  \A k \in Keys : [](k \in due => <>(k \notin due \/ phase \notin {"Syncing", "Running"}))
=============================================================================
