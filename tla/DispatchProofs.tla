--------------------------- MODULE DispatchProofs ---------------------------
(***************************************************************************)
(* Proofs about the generic controller, for any number of keys and of      *)
(* workers: no key is handled by two workers at once, no event and no      *)
(* failed sync is forgotten, and the controller implements KeyDispatch.    *)
(***************************************************************************)
EXTENDS GenericController, FiniteSetTheorems, TLAPS

Busy(x) == job[x].at \in {"sync", "done"}

\* The keys being processed are those that workers hold, one each; before the
\* caches are synced there are none.
DispatchInv ==
  /\ TypeOK
  /\ NeverTwice
  /\ NothingForgotten
  /\ \A x \in Workers : Busy(x) => job[x].key \in processing
  /\ \A k \in processing : \E x \in Workers : Busy(x) /\ job[x].key = k
  /\ phase = "Syncing" => \A x \in Workers : job[x].at = "stopped"
-----------------------------------------------------------------------------
(* The work queue.                                                         *)

Distinct(q) == \A i, j \in DOMAIN q : q[i] = q[j] => i = j
Members(q) == {q[i] : i \in DOMAIN q}

LEMMA AppendMembers ==
  ASSUME NEW q \in Seq(Keys), NEW k \in Keys, Distinct(q)
  PROVE  /\ Append(q, k) \in Seq(Keys)
         /\ Members(Append(q, k)) = Members(q) \cup {k}
         /\ k \notin Members(q) => Distinct(Append(q, k))
<1> DEFINE a == Append(q, k)
<1>1. /\ a \in Seq(Keys) /\ Len(q) \in Nat
      /\ DOMAIN q = 1 .. Len(q) /\ DOMAIN a = 1 .. Len(q) + 1
      /\ \A i \in 1 .. Len(q) : a[i] = q[i]
      /\ a[Len(q) + 1] = k
  OBVIOUS
<1> HIDE DEF a
<1>2. Members(a) \subseteq Members(q) \cup {k}
  BY <1>1 DEF Members
<1>3. Members(q) \subseteq Members(a)
  BY <1>1 DEF Members
<1>4. k \in Members(a)
  BY <1>1 DEF Members
<1>5. k \notin Members(q) => Distinct(a)
  BY <1>1 DEF Distinct, Members
<1> QED BY <1>1, <1>2, <1>3, <1>4, <1>5 DEF a

LEMMA TailMembers ==
  ASSUME NEW q \in Seq(Keys), q # <<>>, Distinct(q)
  PROVE  /\ Head(q) \in Keys /\ Tail(q) \in Seq(Keys)
         /\ Head(q) \in Members(q)
         /\ Members(Tail(q)) = Members(q) \ {Head(q)}
         /\ Distinct(Tail(q))
<1>1. /\ Head(q) \in Keys /\ Tail(q) \in Seq(Keys) /\ Len(q) \in Nat \ {0}
      /\ DOMAIN q = 1 .. Len(q) /\ DOMAIN Tail(q) = 1 .. Len(q) - 1
      /\ \A i \in 1 .. Len(q) - 1 : Tail(q)[i] = q[i + 1]
      /\ Head(q) = q[1]
  OBVIOUS
<1>2. Members(Tail(q)) \subseteq Members(q) \ {Head(q)}
  BY <1>1 DEF Members, Distinct
<1>3. ASSUME NEW k \in Members(q), k # Head(q) PROVE k \in Members(Tail(q))
  <2>1. PICK i \in 1 .. Len(q) : q[i] = k
    BY <1>1 DEF Members
  <2>2. i # 1
    BY <1>1, <1>3, <2>1
  <2>3. i - 1 \in 1 .. Len(q) - 1 /\ (i - 1) + 1 = i
    BY <1>1, <2>1, <2>2
  <2>4. Tail(q)[i - 1] = k
    BY <1>1, <2>1, <2>3
  <2> QED BY <1>1, <2>3, <2>4 DEF Members
<1>4. Distinct(Tail(q))
  BY <1>1 DEF Distinct
<1>5. Head(q) \in Members(q)
  BY <1>1 DEF Members
<1> QED BY <1>1, <1>2, <1>3, <1>4, <1>5

\* What TypeOK says of the queue.
QueueOK ==
  /\ queue \in Seq(Keys) /\ Distinct(queue)
  /\ Members(queue) = dirty \ processing
  /\ dirty \subseteq Keys /\ processing \subseteq Keys /\ waiting \subseteq Keys

LEMMA QueueType == TypeOK <=> /\ QueueOK
                              /\ job \in [Workers -> Job] /\ phase \in Phases
                              /\ due \subseteq Keys
BY DEF TypeOK, QueueOK, Distinct, Members

LEMMA AddQueue ==
  ASSUME QueueOK, NEW k \in Keys, Add(k), UNCHANGED processing,
         waiting' \subseteq Keys
  PROVE  /\ QueueOK'
         /\ dirty \subseteq dirty' /\ dirty' \subseteq dirty \cup {k}
         /\ ~ShuttingDown => k \in dirty'
<1>1. CASE ShuttingDown \/ k \in dirty
  BY <1>1 DEF Add, QueueOK
<1>2. CASE ~ShuttingDown /\ k \notin dirty
  <2>1. /\ Append(queue, k) \in Seq(Keys) /\ Members(Append(queue, k)) = Members(queue) \cup {k}
        /\ Distinct(Append(queue, k))
    BY <1>2, AppendMembers DEF QueueOK
  <2>2. dirty' = dirty \cup {k} /\ queue' = IF k \in processing THEN queue ELSE Append(queue, k)
    BY <1>2 DEF Add
  <2> QED BY <2>1, <2>2 DEF QueueOK
<1> QED BY <1>1, <1>2
-----------------------------------------------------------------------------
(* Every action preserves the invariant.                                   *)

LEMMA InitInv == Init => DispatchInv
<1> SUFFICES ASSUME Init PROVE DispatchInv
  OBVIOUS
<1>1. QueueOK
  BY DEF Init, QueueOK, Distinct, Members
<1>2. job \in [Workers -> Job] /\ \A x \in Workers : ~Busy(x)
  BY DEF Init, Job, Busy
<1> QED BY <1>1, <1>2, QueueType
     DEF Init, DispatchInv, NeverTwice, NothingForgotten, Phases, Busy

LEMMA KeyActionInv ==
  ASSUME DispatchInv, NEW k \in Keys, Enqueue(k) \/ Ripe(k)
  PROVE  DispatchInv'
<1>0. QueueOK /\ job \in [Workers -> Job] /\ phase \in Phases /\ due \subseteq Keys
  BY QueueType DEF DispatchInv
<1>1. CASE Enqueue(k)
  <2>1. /\ QueueOK' /\ dirty \subseteq dirty' /\ dirty' \subseteq dirty \cup {k}
        /\ ~ShuttingDown => k \in dirty'
    BY <1>0, <1>1, AddQueue DEF Enqueue, QueueOK
  <2>2. TypeOK'
    BY <1>0, <1>1, <2>1, QueueType DEF Enqueue, TypeOK, QueueOK, Distinct, Members
  <2> QED BY <1>1, <2>1, <2>2
       DEF Enqueue, DispatchInv, NeverTwice, NothingForgotten, ShuttingDown, Busy
<1>2. CASE Ripe(k)
  <2>1. QueueOK' /\ dirty \subseteq dirty' /\ k \in dirty'
    BY <1>0, <1>2, AddQueue DEF Ripe, QueueOK
  <2>2. TypeOK'
    BY <1>0, <1>2, <2>1, QueueType DEF Ripe, TypeOK, QueueOK, Distinct, Members
  <2> QED BY <1>2, <2>1, <2>2
       DEF Ripe, DispatchInv, NeverTwice, NothingForgotten, ShuttingDown, Busy
<1> QED BY <1>1, <1>2

LEMMA GetInv ==
  ASSUME DispatchInv, NEW x \in Workers, Get(x)
  PROVE  DispatchInv'
<1> DEFINE k == Head(queue)
<1>0. QueueOK /\ job \in [Workers -> Job] /\ phase \in Phases /\ due \subseteq Keys
  BY QueueType DEF DispatchInv
<1>1. /\ k \in Keys /\ Tail(queue) \in Seq(Keys) /\ k \in Members(queue)
      /\ Members(Tail(queue)) = Members(queue) \ {k} /\ Distinct(Tail(queue))
  BY <1>0, TailMembers DEF Get, QueueOK
<1>2. /\ processing' = processing \cup {k} /\ dirty' = dirty \ {k}
      /\ job' = [job EXCEPT ![x] = [at |-> "sync", key |-> k]]
      /\ due' = due \ {k} /\ queue' = Tail(queue) /\ waiting' = waiting
      /\ phase' = phase /\ job[x].at = "get"
  BY DEF Get
<1> HIDE DEF k
<1>3. k \notin processing
  BY <1>0, <1>1 DEF QueueOK
<1>4. QueueOK'
  BY <1>0, <1>1, <1>2, <1>3 DEF QueueOK
<1>5. job' \in [Workers -> Job]
  BY <1>0, <1>1, <1>2 DEF Job
<1>6. TypeOK'
  BY <1>0, <1>2, <1>4, <1>5 DEF TypeOK, QueueOK, Distinct, Members
<1>7. \A y \in Workers : job'[y] = IF y = x THEN [at |-> "sync", key |-> k] ELSE job[y]
  BY <1>0, <1>2
<1>8. NeverTwice'
  BY <1>3, <1>7 DEF DispatchInv, NeverTwice, Busy
<1>9. \A y \in Workers : Busy(y)' => job'[y].key \in processing'
  BY <1>2, <1>7 DEF DispatchInv, Busy
<1>10. \A j \in processing' : \E y \in Workers : Busy(y)' /\ job'[y].key = j
  <2> SUFFICES ASSUME NEW j \in processing' PROVE \E y \in Workers : Busy(y)' /\ job'[y].key = j
    OBVIOUS
  <2>1. CASE j = k
    BY <1>7, <2>1 DEF Busy
  <2>2. CASE j # k
    <3>1. PICK y \in Workers : Busy(y) /\ job[y].key = j
      BY <1>2, <2>2 DEF DispatchInv
    <3>2. y # x
      BY <1>2, <3>1 DEF Busy
    <3> QED BY <1>7, <3>1, <3>2 DEF Busy
  <2> QED BY <2>1, <2>2
<1>11. NothingForgotten'
  BY <1>2 DEF DispatchInv, NothingForgotten, ShuttingDown
<1>12. phase' # "Syncing"
  BY <1>2 DEF DispatchInv
<1> QED BY <1>6, <1>8, <1>9, <1>10, <1>11, <1>12 DEF DispatchInv

LEMMA SyncHandlerInv ==
  ASSUME DispatchInv, NEW x \in Workers, SyncHandler(x)
  PROVE  DispatchInv'
<1> DEFINE k == job[x].key
<1>0. job \in [Workers -> Job] /\ k \in processing /\ k \in Keys
  BY DEF DispatchInv, TypeOK, SyncHandler, Busy
<1>1. /\ waiting' \subseteq waiting \cup {k} /\ waiting \subseteq waiting'
      /\ due' \subseteq due \cup {k}
      /\ ~ShuttingDown /\ k \in due' => k \in due \/ k \in waiting'
  BY DEF SyncHandler, AddRateLimited
<1>2. /\ job[x].at = "sync" /\ job' = [job EXCEPT ![x].at = "done"]
      /\ UNCHANGED <<queue, dirty, processing, phase>>
  BY DEF SyncHandler
<1>3. \A y \in Workers : /\ job'[y].at = IF y = x THEN "done" ELSE job[y].at
                         /\ job'[y].key = job[y].key
  BY <1>0, <1>2 DEF Job
<1>4. job' \in [Workers -> Job]
  BY <1>0, <1>2 DEF Job
<1>5. TypeOK'
  BY <1>0, <1>1, <1>2, <1>4 DEF DispatchInv, TypeOK
<1>6. \A y \in Workers : Busy(y)' <=> Busy(y)
  BY <1>2, <1>3 DEF Busy
<1>7. NeverTwice'
  BY <1>3, <1>6 DEF DispatchInv, NeverTwice, Busy
<1>8. NothingForgotten'
  BY <1>0, <1>1, <1>2 DEF DispatchInv, NothingForgotten, ShuttingDown
<1>9. phase' # "Syncing"
  BY <1>2 DEF DispatchInv
<1> HIDE DEF k
<1> QED BY <1>2, <1>3, <1>5, <1>6, <1>7, <1>8, <1>9 DEF DispatchInv

LEMMA DoneInv ==
  ASSUME DispatchInv, NEW x \in Workers, Done(x)
  PROVE  DispatchInv'
<1> DEFINE k == job[x].key
<1>0. /\ QueueOK /\ job \in [Workers -> Job] /\ phase \in Phases /\ due \subseteq Keys
      /\ k \in processing /\ k \in Keys
  BY QueueType DEF DispatchInv, QueueOK, Done, Busy
<1>1. /\ processing' = processing \ {k}
      /\ queue' = IF k \in dirty THEN Append(queue, k) ELSE queue
      /\ job' = [job EXCEPT ![x] = [at |-> "get", key |-> None]] /\ job[x].at = "done"
      /\ UNCHANGED <<dirty, waiting, phase, due>>
  BY DEF Done
<1>2. \A y \in Workers : job'[y] = IF y = x THEN [at |-> "get", key |-> None] ELSE job[y]
  BY <1>0, <1>1
<1>3. \A y \in Workers : Busy(y)' => y # x /\ Busy(y) /\ job'[y].key = job[y].key
  BY <1>2 DEF Busy
<1>4. \A y \in Workers : Busy(y) /\ y # x => Busy(y)' /\ job'[y].key = job[y].key
  BY <1>2 DEF Busy
<1>5. \A y \in Workers : Busy(y) /\ y # x => job[y].key # k
  BY <1>1 DEF DispatchInv, NeverTwice, Busy
<1>6. job' \in [Workers -> Job]
  BY <1>0, <1>1 DEF Job
<1> HIDE DEF k
<1>7. QueueOK'
  <2>1. k \notin Members(queue)
    BY <1>0 DEF QueueOK
  <2>2. /\ Append(queue, k) \in Seq(Keys) /\ Members(Append(queue, k)) = Members(queue) \cup {k}
        /\ Distinct(Append(queue, k))
    BY <1>0, <2>1, AppendMembers DEF QueueOK
  <2> QED BY <1>0, <1>1, <2>2 DEF QueueOK
<1>8. TypeOK'
  BY <1>0, <1>1, <1>6, <1>7 DEF TypeOK, QueueOK, Distinct, Members
<1>9. NeverTwice'
  BY <1>3 DEF DispatchInv, NeverTwice, Busy
<1>10. \A y \in Workers : Busy(y)' => job'[y].key \in processing'
  BY <1>1, <1>3, <1>5 DEF DispatchInv
<1>11. \A j \in processing' : \E y \in Workers : Busy(y)' /\ job'[y].key = j
  <2> SUFFICES ASSUME NEW j \in processing' PROVE \E y \in Workers : Busy(y)' /\ job'[y].key = j
    OBVIOUS
  <2>1. PICK y \in Workers : Busy(y) /\ job[y].key = j
    BY <1>1 DEF DispatchInv
  <2>2. y # x
    BY <1>1, <2>1 DEF k
  <2> QED BY <1>4, <2>1, <2>2
<1>12. NothingForgotten'
  BY <1>1 DEF DispatchInv, NothingForgotten, ShuttingDown
<1>13. phase' # "Syncing"
  BY <1>1 DEF DispatchInv
<1> QED BY <1>8, <1>9, <1>10, <1>11, <1>12, <1>13 DEF DispatchInv

LEMMA StopWorkerInv ==
  ASSUME DispatchInv, NEW x \in Workers, StopWorker(x)
  PROVE  DispatchInv'
<1>1. job \in [Workers -> Job] /\ job[x].at = "get" /\ job' = [job EXCEPT ![x].at = "stopped"]
  BY DEF DispatchInv, TypeOK, StopWorker
<1>2. job' \in [Workers -> Job]
  BY <1>1 DEF Job
<1>3. \A y \in Workers : (Busy(y)' <=> Busy(y)) /\ job'[y].key = job[y].key
  BY <1>1 DEF Busy, Job
<1>4. TypeOK'
  BY <1>2 DEF DispatchInv, TypeOK, StopWorker, queueVars
<1>5. NeverTwice'
  BY <1>3 DEF DispatchInv, NeverTwice, Busy
<1> QED BY <1>1, <1>3, <1>4, <1>5
     DEF DispatchInv, NothingForgotten, ShuttingDown, StopWorker, queueVars

LEMMA RunInv ==
  ASSUME DispatchInv, StartWorkers \/ Cancel \/ Return \/ Exit \/ UNCHANGED vars
  PROVE  DispatchInv'
<1>1. CASE StartWorkers
  <2>1. /\ \A x \in Workers : job[x].at = "stopped" /\ job'[x].at = "get"
        /\ job' \in [Workers -> Job]
    BY <1>1 DEF StartWorkers, DispatchInv, Job
  <2>2. processing = {}
    BY <2>1 DEF DispatchInv, Busy
  <2>3. TypeOK'
    BY <1>1, <2>1 DEF StartWorkers, DispatchInv, TypeOK, queueVars, Phases
  <2>4. \A x \in Workers : ~Busy(x)'
    BY <2>1 DEF Busy
  <2> QED BY <1>1, <2>2, <2>3, <2>4
       DEF StartWorkers, DispatchInv, NeverTwice, NothingForgotten, ShuttingDown, queueVars,
           Busy
<1>2. CASE Cancel \/ Return \/ UNCHANGED vars
  <2>1. UNCHANGED <<queue, dirty, processing, waiting, job, due>>
    BY <1>2 DEF Cancel, Return, vars, queueVars
  <2>2. /\ phase' \in Phases /\ (phase' = "Syncing" => phase = "Syncing")
        /\ ShuttingDown => ShuttingDown'
    BY <1>2 DEF Cancel, Return, vars, Phases, ShuttingDown, DispatchInv, TypeOK
  <2>3. TypeOK' /\ NeverTwice' /\ (\A x \in Workers : Busy(x)' <=> Busy(x))
    BY <2>1, <2>2 DEF DispatchInv, TypeOK, NeverTwice, Busy
  <2>4. NothingForgotten'
    BY <2>1, <2>2 DEF DispatchInv, NothingForgotten
  <2> QED BY <2>1, <2>2, <2>3, <2>4 DEF DispatchInv
<1>3. CASE Exit
  <2>1. /\ \A x \in Workers : job'[x].at = "stopped"
        /\ job' \in [Workers -> Job]
    BY <1>3 DEF Exit, Job
  <2>2. TypeOK'
    BY <1>3, <2>1 DEF Exit, TypeOK, Phases
  <2> QED BY <1>3, <2>1, <2>2
       DEF Exit, DispatchInv, NeverTwice, NothingForgotten, ShuttingDown, Busy
<1> QED BY <1>1, <1>2, <1>3

LEMMA NextInv == DispatchInv /\ [Next]_vars => DispatchInv'
BY KeyActionInv, GetInv, SyncHandlerInv, DoneInv, StopWorkerInv, RunInv DEF Next, Work

\* The queue holds what needs processing and is not being processed, once
\* each; the other variables stay within their types.
THEOREM DispatchTypeCorrect == Spec => []TypeOK
<1>1. DispatchInv => TypeOK
  BY DEF DispatchInv
<1> QED BY <1>1, InitInv, NextInv, PTL DEF Spec

\* Two workers never hold the same key, whatever events arrive, syncs fail,
\* and back-offs end, and whenever the operator stops.
THEOREM NoKeyTwice == Spec => []NeverTwice
<1>1. DispatchInv => NeverTwice
  BY DEF DispatchInv
<1> QED BY <1>1, InitInv, NextInv, PTL DEF Spec

\* An event that no sync has followed, or a failed sync, has its key in the
\* queue or waiting for the end of its back-off.
THEOREM NoEventForgotten == Spec => []NothingForgotten
<1>1. DispatchInv => NothingForgotten
  BY DEF DispatchInv
<1> QED BY <1>1, InitInv, NextInv, PTL DEF Spec
-----------------------------------------------------------------------------
(* The controller implements KeyDispatch.                                  *)

\* There is a free worker to take a key, so fewer keys are being processed
\* than there are workers.
LEMMA FreeWorker ==
  ASSUME DispatchInv, NEW x \in Workers, ~Busy(x)
  PROVE  Cardinality(processing) < Cardinality(Workers)
<1> DEFINE Holders == {y \in Workers : Busy(y)}
           held == [y \in Holders |-> job[y].key]
<1>1. /\ IsFiniteSet(Workers) /\ IsFiniteSet(Workers \ {x})
      /\ Cardinality(Workers \ {x}) = Cardinality(Workers) - 1
  BY GenericAssumption, FS_RemoveElement
<1>2. Holders \subseteq Workers \ {x}
  OBVIOUS
<1>3. /\ IsFiniteSet(Holders)
      /\ Cardinality(Holders) <= Cardinality(Workers \ {x})
  BY <1>1, <1>2, FS_Subset
<1>4. held \in Surjection(Holders, processing)
  BY DEF DispatchInv, Surjection
<1> HIDE DEF held, Holders
<1>5. /\ IsFiniteSet(processing)
      /\ Cardinality(processing) <= Cardinality(Holders)
  BY <1>3, <1>4, FS_Surjection
<1>6. /\ Cardinality(Workers) \in Nat /\ Cardinality(processing) \in Nat
      /\ Cardinality(Workers \ {x}) \in Nat /\ Cardinality(Holders) \in Nat
  BY <1>1, <1>3, <1>5, FS_CardinalityType
<1> QED BY <1>1, <1>3, <1>5, <1>6

LEMMA InitDispatch == Init => Dispatch!Init
BY DEF Init, Dispatch!Init, ShuttingDown

LEMMA KeyActionDispatch ==
  ASSUME DispatchInv, NEW k \in Keys, Enqueue(k) \/ Ripe(k)
  PROVE  Dispatch!Notify(k) \/ UNCHANGED Dispatch!vars
BY DEF Enqueue, Ripe, Add, Dispatch!Notify, Dispatch!vars, ShuttingDown, DispatchInv, TypeOK

LEMMA GetDispatch ==
  ASSUME DispatchInv, NEW x \in Workers, Get(x)
  PROVE  \E k \in Keys : Dispatch!Start(k)
<1> DEFINE k == Head(queue)
<1>0. QueueOK
  BY QueueType DEF DispatchInv
<1>1. k \in Keys /\ k \in dirty /\ k \notin processing
  BY <1>0, TailMembers DEF Get, QueueOK
<1>2. Cardinality(processing) < Cardinality(Workers)
  BY FreeWorker DEF Get, Busy
<1>3. /\ processing' = processing \cup {k} /\ dirty' = dirty \ {k}
      /\ waiting' = waiting /\ phase' = phase
  BY DEF Get
<1> HIDE DEF k
<1>4. (dirty \cup waiting)' \in {dirty \cup waiting, (dirty \cup waiting) \ {k}}
  <2>1. CASE k \in waiting
    BY <1>1, <1>3, <2>1
  <2>2. CASE k \notin waiting
    BY <1>1, <1>3, <2>2
  <2> QED BY <2>1, <2>2
<1>5. Dispatch!Cardinality(processing) = Cardinality(processing)
  BY Zenon DEF Dispatch!Cardinality, Cardinality
<1>6. Dispatch!Start(k)
  BY <1>1, <1>2, <1>3, <1>4, <1>5 DEF Dispatch!Start, ShuttingDown
<1> QED BY <1>1, <1>6

LEMMA WorkDispatch ==
  ASSUME DispatchInv, NEW x \in Workers, Work(x)
  PROVE  Dispatch!Next \/ UNCHANGED Dispatch!vars
<1>1. CASE Get(x)
  BY <1>1, GetDispatch DEF Dispatch!Next
<1>2. CASE SyncHandler(x)
  <2>1. job[x].key \in Keys
    BY <1>2 DEF SyncHandler, DispatchInv, TypeOK, Busy
  <2>2. Dispatch!Notify(job[x].key) \/ UNCHANGED Dispatch!vars
    BY <1>2 DEF SyncHandler, AddRateLimited, Dispatch!Notify, Dispatch!vars, ShuttingDown
  <2> QED BY <2>1, <2>2 DEF Dispatch!Next
<1>3. CASE Done(x)
  <2>1. job[x].key \in processing /\ job[x].key \in Keys
    BY <1>3 DEF Done, DispatchInv, TypeOK, Busy
  <2>2. Dispatch!Finish(job[x].key)
    BY <1>3, <2>1 DEF Done, Dispatch!Finish, ShuttingDown
  <2> QED BY <2>1, <2>2 DEF Dispatch!Next
<1>4. CASE StopWorker(x)
  BY <1>4 DEF StopWorker, queueVars, Dispatch!vars, ShuttingDown
<1> QED BY <1>1, <1>2, <1>3, <1>4 DEF Work

LEMMA RunDispatch ==
  ASSUME StartWorkers \/ Cancel \/ Return \/ Exit \/ UNCHANGED vars
  PROVE  Dispatch!Close \/ Dispatch!End \/ UNCHANGED Dispatch!vars
<1>1. CASE StartWorkers \/ UNCHANGED vars
  BY <1>1 DEF StartWorkers, vars, queueVars, Dispatch!vars, ShuttingDown
<1>2. CASE Cancel \/ Return
  BY <1>2 DEF Cancel, Return, queueVars, Dispatch!Close, Dispatch!vars, ShuttingDown
<1>3. CASE Exit
  BY <1>3 DEF Exit, Dispatch!End, ShuttingDown
<1> QED BY <1>1, <1>2, <1>3

LEMMA NextDispatch ==
  DispatchInv /\ [Next]_vars => [Dispatch!Next]_(Dispatch!vars)
BY KeyActionDispatch, WorkDispatch, RunDispatch DEF Next, Dispatch!Next

\* The work queue and the workers keep what KeyDispatch promises, and what
\* PostgresqlInstanceController takes for granted: a key stays pending until a
\* sync that has seen what happened starts, and no more syncs run at once than
\* there are workers.
THEOREM DispatchRefinement == Spec => ImplementsDispatch
<1> QED BY InitInv, NextInv, InitDispatch, NextDispatch, PTL
     DEF Spec, ImplementsDispatch, Dispatch!Spec
=============================================================================
