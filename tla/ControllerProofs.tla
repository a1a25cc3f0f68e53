-------------------------- MODULE ControllerProofs --------------------------
(***************************************************************************)
(* Proofs about the reconciliation of PostgresqlInstance resources, for    *)
(* every value of the constants.                                           *)
(***************************************************************************)
EXTENDS ControllerProperties, SequenceTheorems, TLAPS

\* What the outcome of a call says of the server's answer.
LEMMA OutcomeFacts ==
  ASSUME NEW reply, NEW o \in Outcomes(reply)
  PROVE  /\ o.applied \in BOOLEAN /\ o.lost \in BOOLEAN
         /\ o.applied => reply = Ok
         /\ o.code = Ok => reply = Ok /\ o.applied /\ ~o.lost
         /\ ~o.lost => o.code = reply /\ (reply = Ok => o.applied)
         /\ o.lost => used.faults < MaxFaults /\ o.code = ServerError
BY DEF Outcomes, Ok, ServerError

LEMMA BoundsType ==
  MaxFaults \in Nat /\ MaxEdits \in Nat /\ MaxDrift \in Nat /\ MaxUid \in Nat
BY ControllerAssumption

\* The budget stays within its bounds.
LEMMA UseType ==
  ASSUME TypeOK,
         \/ used' = used
         \/ used.faults < MaxFaults /\ used' = [used EXCEPT !.faults = @ + 1]
         \/ used.edits < MaxEdits /\ used' = [used EXCEPT !.edits = @ + 1]
         \/ used.drift < MaxDrift /\ used' = [used EXCEPT !.drift = @ + 1]
         \/ used.uids < MaxUid /\ used' = [used EXCEPT !.uids = @ + 1]
  PROVE  used' \in [faults : 0 .. MaxFaults, edits : 0 .. MaxEdits,
                    drift : 0 .. MaxDrift, uids : 0 .. MaxUid]
<1> DEFINE U == [faults : 0 .. MaxFaults, edits : 0 .. MaxEdits,
                 drift : 0 .. MaxDrift, uids : 0 .. MaxUid]
<1>1. used \in U
  BY DEF TypeOK
<1>2. ASSUME used.faults < MaxFaults PROVE [used EXCEPT !.faults = @ + 1] \in U
  BY <1>1, <1>2, BoundsType
<1>3. ASSUME used.edits < MaxEdits PROVE [used EXCEPT !.edits = @ + 1] \in U
  BY <1>1, <1>3, BoundsType
<1>4. ASSUME used.drift < MaxDrift PROVE [used EXCEPT !.drift = @ + 1] \in U
  BY <1>1, <1>4, BoundsType
<1>5. ASSUME used.uids < MaxUid PROVE [used EXCEPT !.uids = @ + 1] \in U
  BY <1>1, <1>5, BoundsType
<1> HIDE DEF U
<1>6. used' \in U
  BY <1>1, <1>2, <1>3, <1>4, <1>5
<1> QED BY <1>6 DEF U

LEMMA SpendType ==
  ASSUME TypeOK, NEW reply, NEW o \in Outcomes(reply), Spend(o)
  PROVE  used' \in [faults : 0 .. MaxFaults, edits : 0 .. MaxEdits,
                    drift : 0 .. MaxDrift, uids : 0 .. MaxUid]
BY OutcomeFacts, UseType DEF Spend

-----------------------------------------------------------------------------
(* Type correctness.                                                       *)

LogOK(l) == l \in [Keys -> Seq(Object \cup {None})] /\ \A k \in Keys : l[k] # <<>>

\* The versions of an object that can be read are objects, or none.
LEMMA LiveType ==
  ASSUME TypeOK, NEW k \in Keys
  PROVE  /\ Live(k) \in Object \cup {None}
         /\ Cached(k) \in Object \cup {None}
         /\ Len(log[k]) \in Nat \ {0}
<1>1. log[k] \in Seq(Object \cup {None}) /\ log[k] # <<>>
  BY DEF TypeOK
<1>2. Len(log[k]) \in Nat /\ Len(log[k]) # 0
  BY <1>1
<1>3. 1 \in 1 .. Len(log[k]) /\ Len(log[k]) \in 1 .. Len(log[k])
  BY <1>2
<1> QED BY <1>1, <1>2, <1>3 DEF Live, Cached

\* Neither adding a version, nor forgetting old ones, leaves the type.
LEMMA AppendType ==
  ASSUME TypeOK, NEW k \in Keys, NEW o \in Object \cup {None},
         log' = [log EXCEPT ![k] = Append(@, o)]
  PROVE  LogOK(log')
<1>1. LogOK(log)
  BY DEF TypeOK, LogOK
<1>2. Append(log[k], o) \in Seq(Object \cup {None}) /\ Append(log[k], o) # <<>>
  BY <1>1 DEF LogOK
<1> QED BY <1>1, <1>2 DEF LogOK

LEMMA StoreType ==
  ASSUME TypeOK, NEW k \in Keys, NEW o \in Object \cup {None}, Store(k, o)
  PROVE  LogOK(log')
<1>1. CASE o = Live(k)
  BY <1>1 DEF Store, TypeOK, LogOK
<1>2. CASE o # Live(k)
  BY <1>2, AppendType DEF Store
<1> QED BY <1>1, <1>2

LEMMA RestartType ==
  ASSUME TypeOK, log' = [k \in Keys |-> <<Live(k)>>]
  PROVE  LogOK(log')
BY LiveType DEF LogOK

LEMMA DeliverType ==
  ASSUME TypeOK, NEW k \in Keys, Deliver(k)
  PROVE  LogOK(log')
<1>1. LogOK(log) /\ Len(log[k]) > 1
  BY DEF TypeOK, LogOK, Deliver
<1>2. PICK t \in Seq(Object \cup {None}) :
         t = Tail(log[k]) /\ Len(t) = Len(log[k]) - 1
  BY <1>1, HeadTailProperties DEF LogOK
<1>3. t # <<>>
  <2>1. Len(t) # 0
    BY <1>1, <1>2, LiveType
  <2> QED BY <2>1
<1>4. <<Live(k)>> \in Seq(Object \cup {None}) /\ <<Live(k)>> # <<>>
  BY LiveType
<1>5. PICK rest \in {Tail(log[k]), <<Live(k)>>} : log' = [log EXCEPT ![k] = rest]
  BY DEF Deliver
<1>6. rest \in Seq(Object \cup {None}) /\ rest # <<>>
  BY <1>2, <1>3, <1>4
<1> QED BY <1>1, <1>5, <1>6 DEF LogOK

LEMMA IdleType == Idle \in Worker
BY DEF Idle, Worker, Steps

LEMMA InitType == Init => TypeOK
BY IdleType, ControllerAssumption
   DEF Init, TypeOK, Gone, Instance, States, Operations, Idle

\* A sync that returns leaves an idle worker.
LEMMA ReturnType ==
  ASSUME TypeOK, w.key \in Keys, NEW err \in BOOLEAN, Return(err)
  PROVE  w' = Idle /\ pending' \subseteq Keys
BY DEF Return, TypeOK

\* The first step of a sync.
LEMMA StartSyncType ==
  ASSUME TypeOK, NEW k \in Keys, StartSync(k)
  PROVE  TypeOK'
<1>1. pending' \subseteq Keys
  BY DEF StartSync, TypeOK
<1>2. Cached(k) = None => w' = Idle
  BY DEF StartSync, FirstStep
<1>3. Cached(k) \in Object \cup {None}
  BY LiveType
<1>4. ASSUME Cached(k) \in Object
      PROVE  /\ w' \in Worker
             /\ w'.pc \notin {"Idle", "Panic"}
                  => w'.key \in Keys /\ w'.i \in Object /\ w'.p \in Object
  BY <1>4, IdleType DEF StartSync, FirstStep, Worker, Steps, Idle
<1>5. w'.pc \notin {"Idle", "Panic"}
        => w'.key \in Keys /\ w'.i \in Object /\ w'.p \in Object
  BY <1>2, <1>3, <1>4 DEF Idle
<1>6. w' \in Worker
  BY <1>2, <1>3, <1>4, IdleType
<1> QED BY <1>1, <1>5, <1>6 DEF StartSync, TypeOK

\* A worker in the middle of a sync holds a key and two objects.
Busy(v) == v \in Worker /\ v.key \in Keys /\ v.i \in Object /\ v.p \in Object

LEMMA BusyType ==
  ASSUME TypeOK, w.pc \notin {"Idle", "Panic"}
  PROVE  Busy(w) /\ Name \in Names
BY DEF TypeOK, Busy, Name, Object

\* Type correctness from its parts.
LEMMA PartsType ==
  ASSUME cloud' \in [Names -> Instance(Keys \X Uid)], LogOK(log'),
         secret' \in [Keys -> Secret \cup {None}], pending' \subseteq Keys,
         w' = Idle \/ Busy(w'),
         used' \in [faults : 0 .. MaxFaults, edits : 0 .. MaxEdits,
                    drift : 0 .. MaxDrift, uids : 0 .. MaxUid]
  PROVE  TypeOK'
<1>1. w' \in Worker
  BY IdleType DEF Busy
<1>2. w'.pc \notin {"Idle", "Panic"}
        => w'.key \in Keys /\ w'.i \in Object /\ w'.p \in Object
  BY DEF Busy, Idle
<1> QED BY <1>1, <1>2 DEF TypeOK, LogOK

\* Edits of objects and of the worker's variables keep their types.
LEMMA ObjectEdit ==
  ASSUME NEW o \in Object
  PROVE  /\ [o EXCEPT !.fin = TRUE] \in Object
         /\ [o EXCEPT !.fin = FALSE] \in Object
         /\ [o EXCEPT !.del = TRUE] \in Object
         /\ [o EXCEPT !.paused = ~@] \in Object
         /\ \A s \in Settings : [o EXCEPT !.s = s] \in Object
BY DEF Object

LEMMA LeaveBusy ==
  ASSUME NEW v, Busy(v), NEW err \in BOOLEAN
  PROVE  Busy(Leave(v, err))
BY DEF Busy, Leave, Worker, Steps

LEMMA GotoBusy ==
  ASSUME NEW v, Busy(v), NEW pc \in Steps
  PROVE  Busy(Goto(v, pc))
BY DEF Busy, Goto, Worker

\* Setting a condition.
LEMMA CondBusy ==
  ASSUME NEW v, Busy(v)
  PROVE  /\ \A r \in {"InstanceCreated", "NameUnavailable", "InvalidSpec",
                      "UnexpectedError"} :
              Busy([v EXCEPT !.p.conds.created = r])
         /\ \A r \in {"InstanceReady", "OperationInProgress", "InstanceNotReady",
                      "UnexpectedError"} :
              Busy([v EXCEPT !.p.conds.ready = r])
         /\ \A r \in {"InstanceUpToDate", "InstanceUpdated", "Conflict",
                      "InvalidSpec", "UnexpectedError"} :
              Busy([v EXCEPT !.p.conds.upToDate = r])
<1>1. ASSUME NEW o \in Object PROVE Busy([v EXCEPT !.p = o])
  BY DEF Busy, Worker
<1>2. ASSUME NEW c \in Conditions PROVE [v.p EXCEPT !.conds = c] \in Object
  BY DEF Busy, Object
<1>3. v.p.conds \in Conditions
  BY DEF Busy, Object
<1>4. \A r \in {"InstanceCreated", "NameUnavailable", "InvalidSpec", "UnexpectedError"} :
        [v.p.conds EXCEPT !.created = r] \in Conditions
  BY <1>3 DEF Conditions
<1>5. \A r \in {"InstanceReady", "OperationInProgress", "InstanceNotReady",
                "UnexpectedError"} :
        [v.p.conds EXCEPT !.ready = r] \in Conditions
  BY <1>3 DEF Conditions
<1>6. \A r \in {"InstanceUpToDate", "InstanceUpdated", "Conflict", "InvalidSpec",
                "UnexpectedError"} :
        [v.p.conds EXCEPT !.upToDate = r] \in Conditions
  BY <1>3 DEF Conditions
<1>7. \A r \in {"InstanceCreated", "NameUnavailable", "InvalidSpec", "UnexpectedError"} :
        Busy([v EXCEPT !.p.conds.created = r])
  BY <1>1, <1>2, <1>4
<1>8. \A r \in {"InstanceReady", "OperationInProgress", "InstanceNotReady",
                "UnexpectedError"} :
        Busy([v EXCEPT !.p.conds.ready = r])
  BY <1>1, <1>2, <1>5
<1>9. \A r \in {"InstanceUpToDate", "InstanceUpdated", "Conflict", "InvalidSpec",
                "UnexpectedError"} :
        Busy([v EXCEPT !.p.conds.upToDate = r])
  BY <1>1, <1>2, <1>6
<1> QED BY <1>7, <1>8, <1>9

\* The sync that goes on with the instance as it is now.
LEMMA FoundBusy ==
  ASSUME TypeOK, Busy(w)
  PROVE  Busy(Found)
<1>1. Name \in Names
  BY DEF Busy, Object, Name
<1>2. Read(Name) \in Snapshot
  BY <1>1 DEF Read, Snapshot, TypeOK, Instance
<1> QED BY <1>2 DEF Found, Busy, Worker, Steps

LEMMA AddFinalizerType ==
  ASSUME TypeOK, AddFinalizer
  PROVE  TypeOK'
<1>1. Busy(w) /\ w.key \in Keys
  BY BusyType DEF AddFinalizer, At, Busy
<1> DEFINE live == Live(w.key)
           reply == IF live = None THEN NotFound ELSE Ok
           kept == [live EXCEPT !.fin = TRUE]
<1>2. PICK o \in Outcomes(reply) :
        /\ Spend(o)
        /\ IF o.applied THEN Store(w.key, kept) ELSE UNCHANGED log
        /\ IF o.code # Ok \/ live.paused
             THEN Return(o.code # Ok)
             ELSE /\ w' = [w EXCEPT !.pc = "Get", !.rv = "current", !.p = kept]
                  /\ UNCHANGED pending
  BY DEF AddFinalizer
<1>3. ASSUME reply = Ok PROVE kept \in Object
  <2>1. live \in Object
    BY <1>1, <1>3, LiveType DEF NotFound, Ok
  <2> QED BY <2>1, ObjectEdit
<1>4. LogOK(log')
  <2>1. CASE o.applied
    BY <1>1, <1>2, <1>3, <2>1, StoreType, OutcomeFacts
  <2>2. CASE ~o.applied
    BY <1>2, <2>2 DEF TypeOK, LogOK
  <2> QED BY <2>1, <2>2
<1>5. (w' = Idle \/ Busy(w')) /\ pending' \subseteq Keys
  <2>1. CASE o.code # Ok \/ live.paused
    BY <1>1, <1>2, <2>1, ReturnType
  <2>2. CASE ~(o.code # Ok \/ live.paused)
    <3>1. kept \in Object
      BY <1>3, <2>2, OutcomeFacts
    <3>2. w' = [w EXCEPT !.pc = "Get", !.rv = "current", !.p = kept]
      BY <1>2, <2>2
    <3> HIDE DEF kept
    <3>3. Busy(w')
      BY <1>1, <3>1, <3>2 DEF Busy, Worker, Steps
    <3> QED BY <1>2, <2>2, <3>3 DEF TypeOK
  <2> QED BY <2>1, <2>2
<1> QED BY <1>2, <1>4, <1>5, SpendType, PartsType DEF TypeOK, AddFinalizer

LEMMA GetInstanceType ==
  ASSUME TypeOK, GetInstance
  PROVE  TypeOK'
<1>1. Busy(w) /\ Name \in Names
  BY BusyType DEF GetInstance, At
<1>2. PICK o \in Outcomes(GetReply(Name)) :
        /\ Spend(o)
        /\ \/ o.code = Ok /\ w' = Found
           \/ o.code = NotFound /\ w' = Goto(w, "Insert")
           \/ o.code = ServerError /\ w' = Leave(w, TRUE)
  BY DEF GetInstance
<1>3. Busy(w')
  BY <1>1, <1>2, FoundBusy, GotoBusy, LeaveBusy DEF Steps
<1> QED BY <1>2, <1>3, SpendType, PartsType DEF TypeOK, LogOK, GetInstance

\* Replacing what the cloud holds under a name.
LEMMA CloudType ==
  ASSUME TypeOK, NEW n \in Names, NEW c \in Instance(Keys \X Uid)
  PROVE  [cloud EXCEPT ![n] = c] \in [Names -> Instance(Keys \X Uid)]
BY DEF TypeOK

LEMMA InsertedType ==
  ASSUME TypeOK, NEW n \in Names, NEW s \in Settings, NEW k \in Keys, NEW u \in Uid
  PROVE  Inserted(n, s, <<k, u>>) \in [Names -> Instance(Keys \X Uid)]
BY DEF TypeOK, Inserted, Instance, States, Operations

LEMMA UpdatedType ==
  ASSUME TypeOK, NEW n \in Names, NEW s \in Settings
  PROVE  Updated(n, s) \in [Names -> Instance(Keys \X Uid)]
<1> DEFINE c == [cloud[n] EXCEPT !.s = s, !.st = "Runnable", !.op = "Running"]
<1>1. c \in Instance(Keys \X Uid)
  <2>1. cloud[n] \in Instance(Keys \X Uid)
    BY DEF TypeOK
  <2> QED BY <2>1 DEF Instance, Operations, States
<1>2. Updated(n, s) = [cloud EXCEPT ![n] = c]
  BY DEF TypeOK, Updated
<1> HIDE DEF c
<1> QED BY <1>1, <1>2, CloudType

LEMMA UserUpdatedType ==
  ASSUME TypeOK, NEW n \in Names, NEW pw \in Passwords, NEW op \in {"Running", "Done"}
  PROVE  UserUpdated(n, pw, op) \in [Names -> Instance(Keys \X Uid)]
<1> DEFINE c == [cloud[n] EXCEPT !.pw = pw, !.op = op]
<1>1. c \in Instance(Keys \X Uid)
  <2>1. cloud[n] \in Instance(Keys \X Uid)
    BY DEF TypeOK
  <2> QED BY <2>1 DEF Instance, Operations
<1>2. UserUpdated(n, pw, op) = [cloud EXCEPT ![n] = c]
  BY DEF TypeOK, UserUpdated
<1> HIDE DEF c
<1> QED BY <1>1, <1>2, CloudType

LEMMA InsertInstanceType ==
  ASSUME TypeOK, InsertInstance
  PROVE  TypeOK'
<1>1. Busy(w) /\ Name \in Names
  BY BusyType DEF InsertInstance, At
<1> DEFINE created(reason) == [w EXCEPT !.p.conds.created = reason]
<1>2. PICK o \in Outcomes(InsertReply(Name, w.p.s)) :
        /\ Spend(o)
        /\ cloud' = IF o.applied
                      THEN Inserted(Name, w.p.s, <<w.key, w.p.uid>>) ELSE cloud
        /\ \/ o.code = Ok /\ w' = Goto(created("InstanceCreated"), "GetNew")
           \/ o.code = Conflict /\ w' = Leave(created("NameUnavailable"), FALSE)
           \/ o.code = BadRequest /\ w' = Leave(created("InvalidSpec"), FALSE)
           \/ o.code = ServerError /\ w' = Leave(created("UnexpectedError"), TRUE)
  BY DEF InsertInstance
<1>3. cloud' \in [Names -> Instance(Keys \X Uid)]
  <2>1. w.key \in Keys /\ w.p.uid \in Uid /\ w.p.s \in Settings
    BY <1>1 DEF Busy, Object
  <2> QED BY <1>1, <1>2, <2>1, InsertedType DEF TypeOK
<1>4. /\ Busy(created("InstanceCreated")) /\ Busy(created("NameUnavailable"))
      /\ Busy(created("InvalidSpec")) /\ Busy(created("UnexpectedError"))
  BY <1>1, CondBusy
<1>5. Busy(w')
  <2> HIDE DEF created
  <2> QED BY <1>2, <1>4, GotoBusy, LeaveBusy DEF Steps
<1> QED BY <1>2, <1>3, <1>5, SpendType, PartsType DEF TypeOK, LogOK, InsertInstance

LEMMA GetNewInstanceType ==
  ASSUME TypeOK, GetNewInstance
  PROVE  TypeOK'
<1>1. Busy(w) /\ Name \in Names
  BY BusyType DEF GetNewInstance, At
<1>2. PICK o \in Outcomes(GetReply(Name)) :
        /\ Spend(o)
        /\ w' = IF o.code = Ok THEN Found ELSE Leave(w, TRUE)
  BY DEF GetNewInstance
<1>3. Busy(w')
  BY <1>1, <1>2, FoundBusy, LeaveBusy
<1> QED BY <1>2, <1>3, SpendType, PartsType DEF TypeOK, LogOK, GetNewInstance

LEMMA ListOperationsType ==
  ASSUME TypeOK, ListOperations
  PROVE  TypeOK'
<1>1. Busy(w)
  BY BusyType DEF ListOperations, At
<1> DEFINE ready(reason) == [w EXCEPT !.p.conds.ready = reason]
<1>2. PICK o \in Outcomes(Ok) :
        /\ Spend(o)
        /\ \/ w' = Leave(ready("UnexpectedError"), TRUE)
           \/ w' = Leave(ready("OperationInProgress"), FALSE)
           \/ w' = Leave(ready("UnexpectedError"), FALSE)
           \/ w' = Leave(ready("InstanceNotReady"), FALSE)
           \/ w' = Goto(ready("InstanceReady"), "GetSecret")
  BY DEF ListOperations
<1>3. /\ Busy(ready("UnexpectedError")) /\ Busy(ready("OperationInProgress"))
      /\ Busy(ready("InstanceNotReady")) /\ Busy(ready("InstanceReady"))
  BY <1>1, CondBusy
<1>4. Busy(w')
  <2> HIDE DEF ready
  <2> QED BY <1>2, <1>3, GotoBusy, LeaveBusy DEF Steps
<1> QED BY <1>2, <1>4, SpendType, PartsType DEF TypeOK, LogOK, ListOperations

LEMMA GetSecretType ==
  ASSUME TypeOK, GetSecret
  PROVE  TypeOK'
<1>1. Busy(w)
  BY BusyType DEF GetSecret, At
<1>2. PICK o \in Outcomes(Ok) :
        /\ Spend(o)
        /\ \/ w' = Leave(w, TRUE)
           \/ \E pc \in {"CreateSecret", "SetPassword", "MaybeUpdate"} : w' = Goto(w, pc)
  BY DEF GetSecret
<1>3. Busy(w')
  BY <1>1, <1>2, GotoBusy, LeaveBusy DEF Steps
<1> QED BY <1>2, <1>3, SpendType, PartsType DEF TypeOK, LogOK, GetSecret

LEMMA CreateSecretType ==
  ASSUME TypeOK, CreateSecret
  PROVE  TypeOK'
<1>1. Busy(w)
  BY BusyType DEF CreateSecret, At
<1> DEFINE reply == IF secret[w.key] = None THEN Ok ELSE Conflict
<1>2. PICK o \in Outcomes(reply) :
        /\ Spend(o)
        /\ secret' = IF o.applied
                       THEN [secret EXCEPT ![w.key] = [uid |-> w.p.uid, pw |-> None]]
                       ELSE secret
        /\ \/ w' = Goto(w, "SetPassword")
           \/ w' = Leave(w, TRUE)
  BY DEF CreateSecret
<1>3. Busy(w')
  BY <1>1, <1>2, GotoBusy, LeaveBusy DEF Steps
<1>4. secret' \in [Keys -> Secret \cup {None}]
  BY <1>1, <1>2 DEF TypeOK, Busy, Object, Secret
<1> QED BY <1>2, <1>3, <1>4, SpendType, PartsType DEF TypeOK, LogOK, CreateSecret

LEMMA SetPasswordType ==
  ASSUME TypeOK, SetPassword
  PROVE  TypeOK'
<1>1. Busy(w) /\ Name \in Names
  BY BusyType DEF SetPassword, At
<1>2. PICK pw \in Passwords, o \in Outcomes(UserReply(Name)), op \in {"Running", "Done"} :
        /\ Spend(o)
        /\ cloud' = IF o.applied THEN UserUpdated(Name, pw, op) ELSE cloud
        /\ \/ w' = [w EXCEPT !.pc = "PutSecret", !.pw = pw]
           \/ w' = Leave(w, TRUE)
  BY DEF SetPassword
<1>3. Busy([w EXCEPT !.pc = "PutSecret", !.pw = pw])
  BY <1>1 DEF Busy, Worker, Steps
<1>4. Busy(w')
  BY <1>1, <1>2, <1>3, LeaveBusy
<1>5. cloud' \in [Names -> Instance(Keys \X Uid)]
  BY <1>1, <1>2, UserUpdatedType DEF TypeOK
<1> QED BY <1>2, <1>4, <1>5, SpendType, PartsType DEF TypeOK, LogOK, SetPassword

LEMMA PutSecretType ==
  ASSUME TypeOK, PutSecret
  PROVE  TypeOK'
<1>1. Busy(w)
  BY BusyType DEF PutSecret, At
<1> DEFINE reply == IF secret[w.key] = None THEN NotFound ELSE Ok
<1>2. PICK o \in Outcomes(reply) :
        /\ Spend(o)
        /\ secret' = IF o.applied THEN [secret EXCEPT ![w.key].pw = w.pw] ELSE secret
        /\ \/ w' = [w EXCEPT !.pc = "MaybeUpdate", !.pw = None]
           \/ w' = [Leave(w, TRUE) EXCEPT !.pw = None]
  BY DEF PutSecret
<1>3. Busy(w')
  <2>1. \A v : Busy(v) => Busy([v EXCEPT !.pw = None])
    BY DEF Busy, Worker
  <2>2. Busy([w EXCEPT !.pc = "MaybeUpdate", !.pw = None])
    BY <1>1 DEF Busy, Worker, Steps
  <2> QED BY <1>1, <1>2, <2>1, <2>2, LeaveBusy
<1>4. secret' \in [Keys -> Secret \cup {None}]
  <2>1. CASE o.applied
    <3>1. secret[w.key] \in Secret /\ w.pw \in Passwords \cup {None} /\ w.key \in Keys
      BY <1>1, <2>1, OutcomeFacts DEF TypeOK, Busy, Worker, NotFound, Ok
    <3>2. [secret[w.key] EXCEPT !.pw = w.pw] \in Secret
      BY <3>1 DEF Secret
    <3> QED BY <1>2, <2>1, <3>1, <3>2 DEF TypeOK
  <2>2. CASE ~o.applied
    BY <1>2, <2>2 DEF TypeOK
  <2> QED BY <2>1, <2>2
<1> QED BY <1>2, <1>3, <1>4, SpendType, PartsType DEF TypeOK, LogOK, PutSecret

\* A sync that ends with the connection name in the status.
LEMMA ConnBusy ==
  ASSUME NEW v, Busy(v)
  PROVE  Busy([v EXCEPT !.p.conn = TRUE])
<1>1. [v.p EXCEPT !.conn = TRUE] \in Object
  BY DEF Busy, Object
<1> QED BY <1>1 DEF Busy, Worker

LEMMA SkipUpdateType ==
  ASSUME TypeOK, SkipUpdate
  PROVE  TypeOK'
<1>1. Busy(w)
  BY BusyType DEF SkipUpdate, At
<1> DEFINE v == [Leave(w, FALSE) EXCEPT !.p.conds.upToDate = "InstanceUpToDate"]
<1>2. Busy(v)
  BY <1>1, LeaveBusy, CondBusy
<1>3. w' = [v EXCEPT !.p.conn = TRUE]
  BY DEF SkipUpdate
<1>4. Busy(w')
  <2> HIDE DEF v
  <2> QED BY <1>2, <1>3, ConnBusy
<1> QED BY <1>4, PartsType DEF TypeOK, LogOK, SkipUpdate

LEMMA UpdateInstanceType ==
  ASSUME TypeOK, UpdateInstance
  PROVE  TypeOK'
<1>1. Busy(w) /\ Name \in Names
  BY BusyType DEF UpdateInstance, At
<1> DEFINE upToDate(reason) == [w EXCEPT !.p.conds.upToDate = reason]
           nil(v) == [Leave(v, FALSE) EXCEPT !.nil = TRUE]
<1>2. PICK o \in Outcomes(UpdateReply(Name, w.inst.s, w.p.s)) :
        /\ Spend(o)
        /\ cloud' = IF o.applied THEN Updated(Name, w.p.s) ELSE cloud
        /\ \/ w' = Goto(upToDate("InstanceUpdated"), "GetUpdated")
           \/ w' = nil(upToDate("Conflict"))
           \/ w' = nil(upToDate("InvalidSpec"))
           \/ w' = Leave(upToDate("UnexpectedError"), TRUE)
  BY DEF UpdateInstance
<1>3. /\ Busy(upToDate("InstanceUpdated")) /\ Busy(upToDate("Conflict"))
      /\ Busy(upToDate("InvalidSpec")) /\ Busy(upToDate("UnexpectedError"))
  BY <1>1, CondBusy
<1>4. ASSUME NEW v, Busy(v) PROVE Busy(nil(v))
  BY <1>4 DEF Busy, Worker, Leave, Steps
<1>5. Busy(w')
  <2> HIDE DEF upToDate, nil
  <2> QED BY <1>2, <1>3, <1>4, GotoBusy, LeaveBusy DEF Steps
<1>6. cloud' \in [Names -> Instance(Keys \X Uid)]
  <2>1. w.p.s \in Settings
    BY <1>1 DEF Busy, Object
  <2> QED BY <1>1, <1>2, <2>1, UpdatedType DEF TypeOK
<1> QED BY <1>2, <1>5, <1>6, SpendType, PartsType DEF TypeOK, LogOK, UpdateInstance

LEMMA GetUpdatedInstanceType ==
  ASSUME TypeOK, GetUpdatedInstance
  PROVE  TypeOK'
<1>1. Busy(w)
  BY BusyType DEF GetUpdatedInstance, At
<1>2. PICK o \in Outcomes(GetReply(Name)) :
        /\ Spend(o)
        /\ \/ w' = [Leave(w, FALSE) EXCEPT !.p.conn = TRUE]
           \/ w' = Leave(w, TRUE)
  BY DEF GetUpdatedInstance
<1>3. Busy(w')
  BY <1>1, <1>2, LeaveBusy, ConnBusy
<1> QED BY <1>2, <1>3, SpendType, PartsType DEF TypeOK, LogOK, GetUpdatedInstance

LEMMA IdlePanicType == [Idle EXCEPT !.pc = "Panic"] \in Worker
BY DEF Idle, Worker, Steps

LEMMA PatchStatusType ==
  ASSUME TypeOK, PatchStatus
  PROVE  TypeOK'
<1>1. Busy(w) /\ w.key \in Keys /\ w.err \in BOOLEAN
  BY BusyType DEF PatchStatus, At, Busy, Worker
<1>2. ASSUME NEW err \in BOOLEAN, AfterPatch(err)
      PROVE  /\ w' \in Worker /\ w'.pc \in {"Idle", "Panic"}
             /\ pending' \subseteq Keys
  <2>1. CASE w.nil
    BY <1>2, <2>1, IdlePanicType DEF AfterPatch, TypeOK, Idle
  <2>2. CASE ~w.nil
    <3>1. w' = Idle /\ pending' \subseteq Keys
      BY <1>1, <1>2, <2>2, ReturnType DEF AfterPatch
    <3> QED BY <3>1, IdleType DEF Idle
  <2> QED BY <2>1, <2>2
<1>3. /\ LogOK(log')
      /\ used' \in [faults : 0 .. MaxFaults, edits : 0 .. MaxEdits,
                    drift : 0 .. MaxDrift, uids : 0 .. MaxUid]
      /\ \E err \in BOOLEAN : AfterPatch(err)
  <2> DEFINE live == Live(w.key)
             reply == IF live = None THEN NotFound
                      ELSE IF w.rv = "outdated" THEN Conflict ELSE Ok
  <2>1. PICK list \in BOOLEAN :
          \/ AfterPatch(w.err) /\ UNCHANGED <<log, used>>
          \/ \E o \in Outcomes(reply) :
               /\ Spend(o)
               /\ IF o.applied THEN Store(w.key, Patched(live, list)) ELSE UNCHANGED log
               /\ AfterPatch(w.err \/ o.code # Ok)
    BY DEF PatchStatus, ListSent
  <2>2. CASE AfterPatch(w.err) /\ UNCHANGED <<log, used>>
    BY <1>1, <2>2 DEF TypeOK, LogOK
  <2>3. CASE \E o \in Outcomes(reply) :
               /\ Spend(o)
               /\ IF o.applied THEN Store(w.key, Patched(live, list)) ELSE UNCHANGED log
               /\ AfterPatch(w.err \/ o.code # Ok)
    <3>1. PICK o \in Outcomes(reply) :
            /\ Spend(o)
            /\ IF o.applied THEN Store(w.key, Patched(live, list)) ELSE UNCHANGED log
            /\ AfterPatch(w.err \/ o.code # Ok)
      BY <2>3
    <3>2. LogOK(log')
      <4>1. CASE o.applied
        <5>1. live \in Object
          BY <1>1, <4>1, LiveType, OutcomeFacts DEF NotFound, Conflict, Ok
        <5>2. w.p \in Object
          BY <1>1 DEF Busy
        <5> HIDE DEF live
        <5>3. Patched(live, list) \in Object
          BY <5>1, <5>2 DEF Patched, Object
        <5> QED BY <1>1, <3>1, <4>1, <5>3, StoreType
      <4>2. CASE ~o.applied
        BY <3>1, <4>2 DEF TypeOK, LogOK
      <4> QED BY <4>1, <4>2
    <3> QED BY <1>1, <3>1, <3>2, SpendType
  <2> QED BY <2>1, <2>2, <2>3
<1>4. w' \in Worker /\ w'.pc \in {"Idle", "Panic"} /\ pending' \subseteq Keys
  BY <1>2, <1>3
<1> QED BY <1>3, <1>4 DEF TypeOK, LogOK, PatchStatus

LEMMA DeleteGetType ==
  ASSUME TypeOK, DeleteGet
  PROVE  TypeOK'
<1>1. Busy(w) /\ w.key \in Keys
  BY BusyType DEF DeleteGet, At, Busy
<1>2. PICK o \in Outcomes(GetReply(Name)) :
        /\ Spend(o)
        /\ \/ Return(TRUE)
           \/ w' = Goto(w, "Delete") /\ UNCHANGED pending
           \/ w' = Goto(w, "RemoveFinalizer") /\ UNCHANGED pending
  BY DEF DeleteGet
<1>3. (w' = Idle \/ Busy(w')) /\ pending' \subseteq Keys
  BY <1>1, <1>2, ReturnType, GotoBusy DEF Steps, TypeOK
<1> QED BY <1>2, <1>3, SpendType, PartsType DEF TypeOK, LogOK, DeleteGet

LEMMA DeletedType ==
  ASSUME TypeOK, NEW n \in Names
  PROVE  Deleted(n) \in [Names -> Instance(Keys \X Uid)]
<1> DEFINE c == [cloud[n] EXCEPT !.st = "Deleting", !.op = "Running", !.asked = TRUE]
<1>1. c \in Instance(Keys \X Uid)
  <2>1. cloud[n] \in Instance(Keys \X Uid)
    BY DEF TypeOK
  <2> QED BY <2>1 DEF Instance, Operations, States
<1>2. Deleted(n) = [cloud EXCEPT ![n] = c]
  BY DEF TypeOK, Deleted
<1> QED BY <1>1, <1>2, CloudType

LEMMA DeleteInstanceType ==
  ASSUME TypeOK, DeleteInstance
  PROVE  TypeOK'
<1>1. Busy(w) /\ w.key \in Keys /\ Name \in Names
  BY BusyType DEF DeleteInstance, At, Busy
<1>2. PICK o \in Outcomes(DeleteReply(Name)) :
        /\ Spend(o)
        /\ cloud' = IF o.applied THEN Deleted(Name) ELSE cloud
        /\ \/ Return(TRUE)
           \/ w' = Goto(w, "RemoveFinalizer") /\ UNCHANGED pending
  BY DEF DeleteInstance
<1>3. (w' = Idle \/ Busy(w')) /\ pending' \subseteq Keys
  BY <1>1, <1>2, ReturnType, GotoBusy DEF Steps, TypeOK
<1>4. cloud' \in [Names -> Instance(Keys \X Uid)]
  BY <1>1, <1>2, DeletedType DEF TypeOK
<1> QED BY <1>2, <1>3, <1>4, SpendType, PartsType DEF TypeOK, LogOK, DeleteInstance

LEMMA RemoveFinalizerType ==
  ASSUME TypeOK, RemoveFinalizer
  PROVE  TypeOK'
<1>1. Busy(w) /\ w.key \in Keys
  BY BusyType DEF RemoveFinalizer, At, Busy
<1> DEFINE live == Live(w.key)
           reply == IF live = None THEN NotFound ELSE Ok
<1>2. PICK o \in Outcomes(reply) :
        /\ Spend(o)
        /\ IF o.applied THEN Store(w.key, Released(live)) ELSE UNCHANGED log
        /\ Return(o.code # Ok)
  BY DEF RemoveFinalizer
<1>3. w' = Idle /\ pending' \subseteq Keys
  BY <1>1, <1>2, ReturnType
<1>4. LogOK(log')
  <2>1. CASE o.applied
    <3>1. live \in Object
      BY <1>1, <2>1, LiveType, OutcomeFacts DEF NotFound, Ok
    <3>2. Released(live) \in Object \cup {None}
      BY <3>1, ObjectEdit DEF Released
    <3> QED BY <1>1, <1>2, <2>1, <3>2, StoreType
  <2>2. CASE ~o.applied
    BY <1>2, <2>2 DEF TypeOK, LogOK
  <2> QED BY <2>1, <2>2
<1> QED BY <1>2, <1>3, <1>4, SpendType, PartsType DEF TypeOK, LogOK, RemoveFinalizer

\* A crash or a panic, and the restart.
LEMMA CrashType ==
  ASSUME TypeOK, Crash \/ Panic
  PROVE  TypeOK'
<1>1. used' \in [faults : 0 .. MaxFaults, edits : 0 .. MaxEdits,
                 drift : 0 .. MaxDrift, uids : 0 .. MaxUid]
  BY UseType DEF Crash, Panic
<1>2. Restart
  BY DEF Crash, Panic
<1>3. LogOK(log')
  BY <1>2, RestartType DEF Restart
<1> QED BY <1>1, <1>2, <1>3, PartsType DEF TypeOK, Restart

\* The informer's steps leave the worker alone.
LEMMA InformerType ==
  ASSUME TypeOK, NEW k \in Keys, Deliver(k) \/ Resync(k)
  PROVE  TypeOK'
<1>1. LogOK(log')
  BY DeliverType DEF Resync, TypeOK, LogOK
<1> QED BY <1>1 DEF TypeOK, LogOK, Deliver, Resync

\* A user's write, and what it does to the worker's resource version.
LEMMA UserWriteType ==
  ASSUME TypeOK, NEW k \in Keys, NEW o \in Object \cup {None}, UserWrite(k, o),
         used' \in [faults : 0 .. MaxFaults, edits : 0 .. MaxEdits,
                    drift : 0 .. MaxDrift, uids : 0 .. MaxUid]
  PROVE  TypeOK'
<1>1. LogOK(log')
  BY AppendType DEF UserWrite
<1>2. w' = w \/ w' = [w EXCEPT !.rv = "outdated"]
  BY DEF UserWrite, Outdate
<1>3. /\ w' \in Worker
      /\ w'.pc \notin {"Idle", "Panic"}
           => w'.key \in Keys /\ w'.i \in Object /\ w'.p \in Object
  <2>1. w \in Worker
    BY DEF TypeOK
  <2>2. [w EXCEPT !.rv = "outdated"] \in Worker
    BY <2>1 DEF Worker
  <2>3. w'.pc = w.pc /\ w'.key = w.key /\ w'.i = w.i /\ w'.p = w.p
    BY <1>2, <2>1 DEF Worker
  <2> QED BY <1>2, <2>1, <2>2, <2>3 DEF TypeOK
<1> QED BY <1>1, <1>3 DEF TypeOK, LogOK, UserWrite

LEMMA UserCreateType ==
  ASSUME TypeOK, NEW k \in Keys, UserCreate(k)
  PROVE  TypeOK'
<1>1. used' \in [faults : 0 .. MaxFaults, edits : 0 .. MaxEdits,
                 drift : 0 .. MaxDrift, uids : 0 .. MaxUid]
  BY UseType DEF UserCreate
<1> DEFINE blank(n, s) ==
      [uid |-> used.uids + 1, name |-> n, s |-> s, paused |-> FALSE,
       del |-> FALSE, fin |-> FALSE, conn |-> FALSE,
       conds |-> [created |-> "", ready |-> "", upToDate |-> ""]]
<1>2. PICK n \in Names, s \in Settings : UserWrite(k, blank(n, s))
  BY DEF UserCreate
<1>3. used.uids + 1 \in Uid
  BY BoundsType DEF TypeOK, Uid
<1>4. blank(n, s) \in Object
  BY <1>3 DEF Object, Conditions
<1> HIDE DEF blank
<1> QED BY <1>1, <1>2, <1>4, UserWriteType

LEMMA UserEditType ==
  ASSUME TypeOK, NEW k \in Keys, UserEdit(k)
  PROVE  TypeOK'
<1>1. used' \in [faults : 0 .. MaxFaults, edits : 0 .. MaxEdits,
                 drift : 0 .. MaxDrift, uids : 0 .. MaxUid]
  BY UseType DEF UserEdit
<1>2. Live(k) \in Object
  BY LiveType DEF UserEdit
<1>3. PICK o \in Object : UserWrite(k, o)
  <2>1. CASE \E s \in Settings \ {Live(k).s} : UserWrite(k, [Live(k) EXCEPT !.s = s])
    BY <1>2, <2>1, ObjectEdit
  <2>2. CASE UserWrite(k, [Live(k) EXCEPT !.paused = ~@])
    BY <1>2, <2>2, ObjectEdit
  <2> QED BY <2>1, <2>2 DEF UserEdit
<1> QED BY <1>1, <1>3, UserWriteType

LEMMA UserAnnotateType ==
  ASSUME TypeOK, NEW k \in Keys, UserAnnotate(k)
  PROVE  TypeOK'
<1>1. used' \in [faults : 0 .. MaxFaults, edits : 0 .. MaxEdits,
                 drift : 0 .. MaxDrift, uids : 0 .. MaxUid]
  BY UseType DEF UserAnnotate
<1>2. Live(k) \in Object
  BY LiveType DEF UserAnnotate
<1> QED BY <1>1, <1>2, UserWriteType DEF UserAnnotate

LEMMA UserDeleteType ==
  ASSUME TypeOK, NEW k \in Keys, UserDelete(k)
  PROVE  TypeOK'
<1>1. used' \in [faults : 0 .. MaxFaults, edits : 0 .. MaxEdits,
                 drift : 0 .. MaxDrift, uids : 0 .. MaxUid]
  BY DEF TypeOK, UserDelete
<1>2. Live(k) \in Object
  BY LiveType DEF UserDelete
<1>3. [Live(k) EXCEPT !.del = TRUE] \in Object
  BY <1>2, ObjectEdit
<1> QED BY <1>1, <1>3, UserWriteType DEF UserDelete

LEMMA CollectSecretType ==
  ASSUME TypeOK, NEW k \in Keys, CollectSecret(k)
  PROVE  TypeOK'
BY DEF TypeOK, CollectSecret

LEMMA GoneType ==
  ASSUME NEW st \in States
  PROVE  Gone(st) \in Instance(Keys \X Uid)
BY DEF Gone, Instance, Operations

\* What the cloud does by itself, or what others do to it.
LEMMA CloudStepType ==
  ASSUME TypeOK, NEW n \in Names, Finish(n) \/ Fail(n) \/ Release(n) \/ OutOfBand(n)
  PROVE  cloud' \in [Names -> Instance(Keys \X Uid)]
<1>1. cloud[n] \in Instance(Keys \X Uid)
  BY DEF TypeOK
<1>2. PICK c \in Instance(Keys \X Uid) : cloud' = [cloud EXCEPT ![n] = c]
  <2>1. CASE Finish(n)
    <3> DEFINE done == [cloud[n] EXCEPT !.op = "Done",
                          !.st = IF @ = "Pending" THEN "Runnable" ELSE @]
    <3>1. done \in Instance(Keys \X Uid)
      BY <1>1 DEF Instance, States, Operations
    <3>2. cloud' = [cloud EXCEPT ![n] = Gone("Reserved")]
            \/ cloud' = [cloud EXCEPT ![n] = done]
      BY <2>1 DEF Finish, TypeOK
    <3> QED BY <3>1, <3>2, GoneType DEF States
  <2>2. CASE Fail(n)
    <3> DEFINE failed == [cloud[n] EXCEPT !.op = "Failed",
                            !.st = IF @ = "Deleting" THEN "Runnable" ELSE @]
    <3>1. failed \in Instance(Keys \X Uid)
      BY <1>1 DEF Instance, States, Operations
    <3>2. cloud' = [cloud EXCEPT ![n] = failed]
      BY <2>2 DEF Fail, TypeOK
    <3> QED BY <3>1, <3>2
  <2>3. CASE Release(n)
    BY <2>3, GoneType DEF Release, States
  <2>4. CASE OutOfBand(n)
    <3>1. \A s \in Settings : [cloud[n] EXCEPT !.s = s] \in Instance(Keys \X Uid)
      BY <1>1 DEF Instance
    <3>2. \A st \in States :
            [cloud[n] EXCEPT !.st = st, !.op = "Done"] \in Instance(Keys \X Uid)
      BY <1>1 DEF Instance, Operations
    <3>3. \A s \in Settings : [Gone("Runnable") EXCEPT !.s = s] \in Instance(Keys \X Uid)
      BY DEF Gone, Instance, States, Operations
    <3>4. \/ \E s \in Settings : cloud' = [cloud EXCEPT ![n].s = s]
          \/ \E st \in States : cloud' = [cloud EXCEPT ![n].st = st, ![n].op = "Done"]
          \/ cloud' = [cloud EXCEPT ![n] = Gone("Reserved")]
          \/ \E s \in Settings :
               cloud' = [cloud EXCEPT ![n] = [Gone("Runnable") EXCEPT !.s = s]]
      BY <2>4 DEF OutOfBand, States
    <3>5. CASE \E s \in Settings : cloud' = [cloud EXCEPT ![n].s = s]
      BY <3>1, <3>5
    <3>6. CASE \E st \in States : cloud' = [cloud EXCEPT ![n].st = st, ![n].op = "Done"]
      <4>1. PICK st \in States : cloud' = [cloud EXCEPT ![n].st = st, ![n].op = "Done"]
        BY <3>6
      <4>2. cloud' = [cloud EXCEPT ![n] = [cloud[n] EXCEPT !.st = st, !.op = "Done"]]
        BY <4>1 DEF TypeOK
      <4> QED BY <3>2, <4>2
    <3>7. CASE cloud' = [cloud EXCEPT ![n] = Gone("Reserved")]
      BY <3>7, GoneType DEF States
    <3>8. CASE \E s \in Settings :
                 cloud' = [cloud EXCEPT ![n] = [Gone("Runnable") EXCEPT !.s = s]]
      BY <3>3, <3>8
    <3> QED BY <3>4, <3>5, <3>6, <3>7, <3>8
  <2> QED BY <2>1, <2>2, <2>3, <2>4
<1> QED BY <1>2, CloudType

LEMMA CloudActionType ==
  ASSUME TypeOK, NEW n \in Names,
         CloudFinish(n) \/ CloudRelease(n) \/ CloudFail(n) \/ CloudDrift(n)
  PROVE  TypeOK'
<1>1. cloud' \in [Names -> Instance(Keys \X Uid)]
  BY CloudStepType DEF CloudFinish, CloudRelease, CloudFail, CloudDrift
<1>2. used' \in [faults : 0 .. MaxFaults, edits : 0 .. MaxEdits,
                 drift : 0 .. MaxDrift, uids : 0 .. MaxUid]
  BY UseType DEF CloudFinish, CloudRelease, CloudFail, CloudDrift
<1> QED BY <1>1, <1>2 DEF TypeOK, CloudFinish, CloudRelease, CloudFail, CloudDrift

\* Every step keeps the types.
LEMMA NextType == TypeOK /\ [Next]_vars => TypeOK'
<1> SUFFICES ASSUME TypeOK, [Next]_vars PROVE TypeOK'
  OBVIOUS
<1>1. ASSUME NEW k \in Keys, StartSync(k) PROVE TypeOK'
  BY <1>1, StartSyncType
<1>2. CASE Continue
  BY <1>2, AddFinalizerType, GetInstanceType, InsertInstanceType,
     GetNewInstanceType, ListOperationsType, GetSecretType, CreateSecretType,
     SetPasswordType, PutSecretType, SkipUpdateType, UpdateInstanceType,
     GetUpdatedInstanceType, PatchStatusType, DeleteGetType,
     DeleteInstanceType, RemoveFinalizerType, CrashType DEF Continue
<1>3. CASE Environment
  BY <1>3, CrashType, InformerType, CollectSecretType, UserCreateType,
     UserEditType, UserAnnotateType, UserDeleteType, CloudActionType DEF Environment
<1>4. CASE UNCHANGED vars
  BY <1>4 DEF vars, TypeOK
<1> QED BY <1>1, <1>2, <1>3, <1>4 DEF Next

\* The variables stay within their types, however many objects, names,
\* settings, faults and edits there are, and however far behind the cache is.
THEOREM TypeCorrect == Spec => []TypeOK
<1>1. Init => TypeOK
  BY InitType
<1>2. TypeOK /\ [Next]_vars => TypeOK'
  BY NextType
<1> QED BY <1>1, <1>2, PTL DEF Spec
=============================================================================
