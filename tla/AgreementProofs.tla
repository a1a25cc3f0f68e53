--------------------------- MODULE AgreementProofs ---------------------------
(***************************************************************************)
(* Proofs that the password in the secret is the one that is set on the    *)
(* instance, and that an instance is deleted only for the object it was    *)
(* created for, when no two objects ask for the same name.                 *)
(***************************************************************************)
EXTENDS OrphanProofs

\* No two objects ask for instances of the same name.
NoSharedName == \A r, q \in Requests : r[2] = q[2] => r[1] = q[1]

\* Every version s of k asks for a name that k may ask for.
Named(k, s) == \A j \in 1 .. Len(s) : s[j] # None => <<k, s[j].name>> \in Requests

\* The sync goes for the object that is stored until the password is written.
Holding == w.pc \in Setting => Protected(Live(w.key)) /\ Same(Live(w.key), w.p)

\* A password is set only when the secret holds none ...
Blank ==
  w.pc \in {"SetPassword", "PutSecret"} /\ secret[w.key] # None
    => secret[w.key].pw = None

\* ... and is still the one on the instance when it is about to be written.
Fresh == At("PutSecret") => cloud[Name].pw \in {None, w.pw}

\* What is about to be deleted has the name that the object asked for.
Deserved == w.pc \in {"DeleteGet", "Delete"} => <<w.key, Name>> \in Requests

\* What is not there has no password.
Unset == \A n \in Names : ~Exists(n) => cloud[n].pw = None

AgreementInv ==
  /\ OrphanInv
  /\ \A k \in Keys : Named(k, log[k])
  /\ Unset
  /\ Holding
  /\ Blank
  /\ Fresh
  /\ Deserved
  /\ PasswordAgreement
-----------------------------------------------------------------------------
(* How the versions of objects change.                                     *)

\* What a new version e of k has to do with the last one: it is of the same
\* object, or there was none and the webhook has admitted it; and only the
\* controller removes the finalizer.
Follows(k, e) ==
  /\ e # None /\ Live(k) # None => Same(Live(k), e)
  /\ e # None /\ Live(k) = None
       => <<k, e.name>> \in Requests /\ e.name \in Names /\ ~Exists(e.name) /\ UNCHANGED cloud
  /\ Protected(Live(k)) => Protected(e) \/ At("RemoveFinalizer")

LogMove(k) ==
  \/ log'[k] = log[k]
  \/ log'[k] = <<Live(k)>>
  \/ Len(log[k]) > 1 /\ log'[k] = Tail(log[k])
  \/ \E e \in Object \cup {None} : log'[k] = Append(log[k], e) /\ Follows(k, e)

LEMMA AppendMove ==
  ASSUME TypeOK, NEW k \in Keys, NEW e \in Object \cup {None}, Follows(k, e),
         log' = [log EXCEPT ![k] = Append(@, e)]
  PROVE  \A j \in Keys : LogMove(j)
BY DEF TypeOK, LogMove

LEMMA StoreMove ==
  ASSUME TypeOK, NEW k \in Keys, NEW e \in Object \cup {None}, Follows(k, e),
         Store(k, e)
  PROVE  \A j \in Keys : LogMove(j)
<1>1. CASE e = Live(k)
  BY <1>1 DEF Store, LogMove, TypeOK
<1>2. CASE e # Live(k)
  BY <1>2, AppendMove DEF Store
<1> QED BY <1>1, <1>2

LEMMA UserMove ==
  ASSUME TypeOK, NEW k \in Keys,
         UserCreate(k) \/ UserEdit(k) \/ UserAnnotate(k) \/ UserDelete(k)
  PROVE  \A j \in Keys : LogMove(j)
<1>1. PICK e \in Object \cup {None} : Follows(k, e) /\ UserWrite(k, e)
  <2>1. CASE UserCreate(k)
    <3> DEFINE blank(n, s) ==
          [uid |-> used.uids + 1, name |-> n, s |-> s, paused |-> FALSE,
           del |-> FALSE, fin |-> FALSE, conn |-> FALSE,
           conds |-> [created |-> "", ready |-> "", upToDate |-> ""]]
    <3>1. PICK n \in Names, s \in Settings :
            <<k, n>> \in Requests /\ GetReply(n) = NotFound /\ UserWrite(k, blank(n, s))
      BY <2>1 DEF UserCreate
    <3>2. used.uids + 1 \in Uid
      <4>1. used.uids \in 0 .. MaxUid
        BY DEF TypeOK
      <4> QED BY <4>1, BoundsType DEF Uid
    <3>3. blank(n, s) \in Object
      BY <3>2 DEF Object, Conditions
    <3>4. ~Exists(n)
      <4>1. 200 # 404
        OBVIOUS
      <4> QED BY <3>1, <4>1, Zenon DEF GetReply, Ok, NotFound
    <3>5. Live(k) = None /\ UNCHANGED cloud
      BY <2>1, <3>1 DEF UserCreate, UserWrite
    <3>6. blank(n, s).name = n
      OBVIOUS
    <3> HIDE DEF blank
    <3>7. Follows(k, blank(n, s))
      BY <3>1, <3>4, <3>5, <3>6 DEF Follows, Protected
    <3> QED BY <3>1, <3>3, <3>7
  <2>2. CASE UserEdit(k)
    <3>1. Live(k) \in Object /\ Live(k) # None
      BY <2>2, LiveType DEF UserEdit
    <3>2. /\ \A s \in Settings : /\ [Live(k) EXCEPT !.s = s] \in Object
                                 /\ [Live(k) EXCEPT !.s = s].fin = Live(k).fin
                                 /\ Same(Live(k), [Live(k) EXCEPT !.s = s])
          /\ [Live(k) EXCEPT !.paused = ~@] \in Object
          /\ [Live(k) EXCEPT !.paused = ~@].fin = Live(k).fin
          /\ Same(Live(k), [Live(k) EXCEPT !.paused = ~@])
      BY <3>1 DEF Object, Same
    <3>3. PICK e \in Object : UserWrite(k, e) /\ e.fin = Live(k).fin /\ Same(Live(k), e)
      BY <2>2, <3>2 DEF UserEdit
    <3> QED BY <3>1, <3>3, ObjectAssumption DEF Follows, Protected
  <2>3. CASE UserAnnotate(k)
    <3>1. Live(k) \in Object /\ Live(k) # None /\ UserWrite(k, Live(k))
      BY <2>3, LiveType DEF UserAnnotate
    <3> QED BY <3>1 DEF Follows, Protected, Same
  <2>4. CASE UserDelete(k)
    <3> DEFINE e == [Live(k) EXCEPT !.del = TRUE]
    <3>1. Live(k) \in Object /\ Live(k) # None
      BY <2>4, LiveType DEF UserDelete
    <3>2. e \in Object /\ e.fin = Live(k).fin /\ Same(Live(k), e)
      BY <3>1 DEF Object, Same
    <3>3. \/ Live(k).fin /\ UserWrite(k, e)
          \/ ~Live(k).fin /\ UserWrite(k, None)
      BY <2>4 DEF UserDelete
    <3> HIDE DEF e
    <3> QED BY <3>1, <3>2, <3>3, ObjectAssumption DEF Follows, Protected
  <2> QED BY <2>1, <2>2, <2>3, <2>4
<1> QED BY <1>1, AppendMove DEF UserWrite

\* The controller's own writes.
LEMMA ControllerMove ==
  ASSUME TypeOK, AddFinalizer \/ PatchStatus \/ RemoveFinalizer
  PROVE  \A j \in Keys : LogMove(j)
<1>1. Busy(w) /\ w.key \in Keys
  BY BusyType DEF AddFinalizer, PatchStatus, RemoveFinalizer, At, Busy
<1> DEFINE live == Live(w.key)
<1>2. live \in Object \cup {None}
  BY <1>1, LiveType
<1>3. \/ UNCHANGED log
      \/ \E e \in Object \cup {None} : Follows(w.key, e) /\ Store(w.key, e)
  <2>1. CASE AddFinalizer
    <3>1. UNCHANGED log \/ (live # None /\ Store(w.key, [live EXCEPT !.fin = TRUE]))
      <4>1. PICK o \in Outcomes(IF live = None THEN NotFound ELSE Ok) :
              IF o.applied THEN Store(w.key, [live EXCEPT !.fin = TRUE]) ELSE UNCHANGED log
        BY <2>1 DEF AddFinalizer
      <4> QED BY <4>1, OutcomeFacts DEF NotFound, Ok
    <3>2. live \in Object => /\ [live EXCEPT !.fin = TRUE] \in Object
                             /\ [live EXCEPT !.fin = TRUE].fin
                             /\ Same(live, [live EXCEPT !.fin = TRUE])
      BY DEF Object, Same
    <3> QED BY <1>2, <3>1, <3>2, ObjectAssumption DEF Follows, Protected
  <2>2. CASE PatchStatus
    <3>1. PICK list \in BOOLEAN : UNCHANGED log \/ (live # None /\ Store(w.key, Patched(live, list)))
      <4> DEFINE reply == IF live = None THEN NotFound
                          ELSE IF w.rv = "outdated" THEN Conflict ELSE Ok
      <4>1. PICK list \in BOOLEAN :
              \/ UNCHANGED log
              \/ \E o \in Outcomes(reply) :
                   IF o.applied THEN Store(w.key, Patched(live, list)) ELSE UNCHANGED log
        BY <2>2 DEF PatchStatus, ListSent
      <4> QED BY <4>1, OutcomeFacts DEF NotFound, Ok
    <3>2. w.p \in Object
      BY <1>1 DEF Busy
    <3>3. live \in Object => /\ Patched(live, list) \in Object
                             /\ Patched(live, list).fin = live.fin
                             /\ Same(live, Patched(live, list))
      BY <3>2 DEF Patched, Object, Same
    <3> QED BY <1>2, <3>1, <3>3, ObjectAssumption DEF Follows, Protected
  <2>3. CASE RemoveFinalizer
    <3>1. UNCHANGED log \/ (live # None /\ Store(w.key, Released(live)))
      <4>1. PICK o \in Outcomes(IF live = None THEN NotFound ELSE Ok) :
              IF o.applied THEN Store(w.key, Released(live)) ELSE UNCHANGED log
        BY <2>3 DEF RemoveFinalizer
      <4> QED BY <4>1, OutcomeFacts DEF NotFound, Ok
    <3>2. live \in Object => \/ Released(live) = None
                             \/ Released(live) \in Object /\ Same(live, Released(live))
      BY DEF Object, Same, Released
    <3> QED BY <1>2, <2>3, <3>1, <3>2 DEF Follows, RemoveFinalizer
  <2> QED BY <2>1, <2>2, <2>3
<1> QED BY <1>1, <1>3, StoreMove DEF LogMove

LEMMA Moves ==
  ASSUME TypeOK, [Next]_vars
  PROVE  \A j \in Keys : LogMove(j)
<1>1. CASE UNCHANGED log
  BY <1>1 DEF LogMove
<1>2. CASE Restart
  BY <1>2 DEF Restart, LogMove
<1>3. ASSUME NEW k \in Keys, Deliver(k) PROVE \A j \in Keys : LogMove(j)
  BY <1>3 DEF Deliver, LogMove, TypeOK
<1>4. CASE Continue
  BY <1>1, <1>2, <1>4, ControllerMove
     DEF Continue, GetInstance, InsertInstance, GetNewInstance, ListOperations, GetSecret,
         CreateSecret, SetPassword, PutSecret, SkipUpdate, UpdateInstance,
         GetUpdatedInstance, DeleteGet, DeleteInstance, Panic
<1>5. CASE Environment
  BY <1>1, <1>2, <1>3, <1>5, UserMove
     DEF Environment, Crash, Resync, CollectSecret, CloudFinish, CloudRelease, CloudFail,
         CloudDrift
<1>6. ASSUME NEW k \in Keys, StartSync(k) PROVE UNCHANGED log
  BY <1>6 DEF StartSync
<1> QED BY <1>1, <1>4, <1>5, <1>6 DEF Next, vars

LEMMA LiveFollows ==
  ASSUME TypeOK, NEW k \in Keys, LogMove(k)
  PROVE  Follows(k, Live(k)')
<1>1. log[k] \in Seq(Object \cup {None}) /\ log[k] # <<>>
  BY LogType
<1>2. CASE Live(k)' = Live(k)
  BY <1>2 DEF Follows, Same
<1>3. CASE log'[k] = log[k] \/ log'[k] = <<Live(k)>>
  BY <1>2, <1>3 DEF Live
<1>4. CASE Len(log[k]) > 1 /\ log'[k] = Tail(log[k])
  BY <1>1, <1>2, <1>4 DEF Live
<1>5. ASSUME NEW e \in Object \cup {None}, log'[k] = Append(log[k], e), Follows(k, e)
      PROVE  Follows(k, Live(k)')
  BY <1>1, <1>5, AppendFacts DEF Live
<1> QED BY <1>3, <1>4, <1>5 DEF LogMove

LEMMA NamedMove ==
  ASSUME TypeOK, NEW k \in Keys, LogMove(k), Named(k, log[k])
  PROVE  Named(k, log'[k])
<1>1. /\ log[k] \in Seq(Object \cup {None}) /\ log[k] # <<>>
      /\ Len(log[k]) \in Nat \ {0} /\ Len(log[k]) \in 1 .. Len(log[k])
  BY LogType
<1>2. Live(k) # None => <<k, Live(k).name>> \in Requests
  BY <1>1 DEF Live, Named
<1>3. CASE log'[k] = log[k]
  BY <1>3
<1>4. CASE log'[k] = <<Live(k)>>
  BY <1>2, <1>4 DEF Named
<1>5. CASE Len(log[k]) > 1 /\ log'[k] = Tail(log[k])
  BY <1>1, <1>5 DEF Named
<1>6. ASSUME NEW e \in Object \cup {None}, log'[k] = Append(log[k], e), Follows(k, e)
      PROVE  Named(k, log'[k])
  <2>1. e # None => <<k, e.name>> \in Requests
    BY <1>2, <1>6 DEF Follows, Same
  <2>2. /\ Len(log'[k]) = Len(log[k]) + 1
        /\ \A j \in 1 .. Len(log[k]) : log'[k][j] = log[k][j]
        /\ log'[k][Len(log[k]) + 1] = e
    BY <1>1, <1>6, AppendFacts
  <2>3. ASSUME NEW j \in 1 .. Len(log'[k]), log'[k][j] # None
        PROVE  <<k, log'[k][j].name>> \in Requests
    <3>1. CASE j \in 1 .. Len(log[k])
      BY <2>2, <2>3, <3>1 DEF Named
    <3>2. CASE j = Len(log[k]) + 1
      BY <2>1, <2>2, <2>3, <3>2
    <3> QED BY <1>1, <2>2, <2>3, <3>1, <3>2
  <2> QED BY <2>3 DEF Named
<1> QED BY <1>3, <1>4, <1>5, <1>6 DEF LogMove
-----------------------------------------------------------------------------
(* Passwords on instances.                                                 *)

\* No password is set, and what is not there has none.
PasswordKept(n) ==
  /\ cloud'[n].pw \in {cloud[n].pw, None}
  /\ cloud'[n].pw # None => cloud'[n].by = cloud[n].by
  /\ ~Exists(n)' => cloud'[n].pw = None

CloudKeeps == \A n \in Names : PasswordKept(n)

LEMMA KeepsSame ==
  ASSUME Unset, UNCHANGED cloud
  PROVE  CloudKeeps
BY DEF Unset, CloudKeeps, PasswordKept, Exists

LEMMA KeepsChange ==
  ASSUME TypeOK, Unset, NEW n \in Names, NEW c, cloud' = [cloud EXCEPT ![n] = c],
         \/ c.pw = None
         \/ /\ c.pw = cloud[n].pw /\ c.by = cloud[n].by
            /\ c.st \in {"Absent", "Reserved"} => ~Exists(n)
  PROVE  CloudKeeps
<1>1. cloud'[n] = c /\ \A m \in Names \ {n} : cloud'[m] = cloud[m]
  BY DEF TypeOK
<1> QED BY <1>1 DEF Unset, CloudKeeps, PasswordKept, Exists

LEMMA CloudStepKeeps ==
  ASSUME TypeOK, Unset, NEW n \in Names,
         Finish(n) \/ Fail(n) \/ Release(n) \/ OutOfBand(n)
  PROVE  CloudKeeps
<1>1. cloud[n] \in Instance(Keys \X Uid)
  BY DEF TypeOK
<1>2. \A st : Gone(st).pw = None
  BY DEF Gone
<1>3. CASE Finish(n)
  <2> DEFINE c == [cloud[n] EXCEPT !.op = "Done", !.st = IF @ = "Pending" THEN "Runnable" ELSE @]
  <2>1. \/ cloud' = [cloud EXCEPT ![n] = Gone("Reserved")]
        \/ cloud' = [cloud EXCEPT ![n] = c]
    BY <1>3 DEF Finish, TypeOK
  <2>2. /\ c.pw = cloud[n].pw /\ c.by = cloud[n].by
        /\ c.st \in {"Absent", "Reserved"} => ~Exists(n)
    BY <1>1 DEF Instance, Exists
  <2> HIDE DEF c
  <2> QED BY <1>2, <2>1, <2>2, KeepsChange
<1>4. CASE Fail(n)
  <2> DEFINE c == [cloud[n] EXCEPT !.op = "Failed", !.st = IF @ = "Deleting" THEN "Runnable" ELSE @]
  <2>1. cloud' = [cloud EXCEPT ![n] = c]
    BY <1>4 DEF Fail, TypeOK
  <2>2. /\ c.pw = cloud[n].pw /\ c.by = cloud[n].by
        /\ c.st \in {"Absent", "Reserved"} => ~Exists(n)
    BY <1>1 DEF Instance, Exists
  <2> HIDE DEF c
  <2> QED BY <2>1, <2>2, KeepsChange
<1>5. CASE Release(n)
  BY <1>2, <1>5, KeepsChange DEF Release
<1>6. CASE OutOfBand(n)
  <2>1. CASE \E s \in Settings : cloud' = [cloud EXCEPT ![n].s = s]
    <3>1. PICK s \in Settings : cloud' = [cloud EXCEPT ![n].s = s]
      BY <2>1
    <3> DEFINE c == [cloud[n] EXCEPT !.s = s]
    <3>2. cloud' = [cloud EXCEPT ![n] = c]
      BY <3>1 DEF TypeOK
    <3>3. c.pw = cloud[n].pw /\ c.by = cloud[n].by /\ c.st = cloud[n].st
      BY <1>1 DEF Instance
    <3> HIDE DEF c
    <3> QED BY <3>2, <3>3, KeepsChange DEF Exists
  <2>2. CASE \E st \in {"Runnable", "Stopped"} :
               cloud' = [cloud EXCEPT ![n].st = st, ![n].op = "Done"]
    <3>1. PICK st \in {"Runnable", "Stopped"} :
            cloud' = [cloud EXCEPT ![n].st = st, ![n].op = "Done"]
      BY <2>2
    <3> DEFINE c == [cloud[n] EXCEPT !.st = st, !.op = "Done"]
    <3>2. cloud' = [cloud EXCEPT ![n] = c]
      BY <3>1 DEF TypeOK
    <3>3. c.pw = cloud[n].pw /\ c.by = cloud[n].by /\ c.st = st
      BY <1>1 DEF Instance
    <3> HIDE DEF c
    <3> QED BY <3>2, <3>3, KeepsChange
  <2>3. CASE cloud' = [cloud EXCEPT ![n] = Gone("Reserved")]
    BY <1>2, <2>3, KeepsChange
  <2>4. CASE \E s \in Settings :
               cloud' = [cloud EXCEPT ![n] = [Gone("Runnable") EXCEPT !.s = s]]
    <3>1. PICK s \in Settings :
            cloud' = [cloud EXCEPT ![n] = [Gone("Runnable") EXCEPT !.s = s]]
      BY <2>4
    <3>2. [Gone("Runnable") EXCEPT !.s = s].pw = None
      BY DEF Gone
    <3> QED BY <3>1, <3>2, KeepsChange
  <2> QED BY <1>6, <2>1, <2>2, <2>3, <2>4 DEF OutOfBand
<1> QED BY <1>3, <1>4, <1>5, <1>6

LEMMA RequestKeeps ==
  ASSUME TypeOK, Unset, InsertInstance \/ UpdateInstance \/ DeleteInstance
  PROVE  CloudKeeps
<1>1. Busy(w) /\ Name \in Names
  BY BusyType DEF InsertInstance, UpdateInstance, DeleteInstance, At
<1>2. cloud[Name] \in Instance(Keys \X Uid)
  BY <1>1 DEF TypeOK
<1>3. CASE InsertInstance
  <2> DEFINE c == [st |-> "Pending", s |-> w.p.s, op |-> "Running",
                   pw |-> None, by |-> <<w.key, w.p.uid>>, asked |-> FALSE]
  <2>1. UNCHANGED cloud \/ cloud' = [cloud EXCEPT ![Name] = c]
    BY <1>3 DEF InsertInstance, Inserted
  <2>2. c.pw = None
    OBVIOUS
  <2> HIDE DEF c
  <2> QED BY <1>1, <2>1, <2>2, KeepsSame, KeepsChange
<1>4. CASE UpdateInstance
  <2> DEFINE c == [cloud[Name] EXCEPT !.s = w.p.s, !.st = "Runnable", !.op = "Running"]
  <2>1. UNCHANGED cloud \/ cloud' = [cloud EXCEPT ![Name] = c]
    BY <1>1, <1>4 DEF UpdateInstance, Updated, TypeOK
  <2>2. c.pw = cloud[Name].pw /\ c.by = cloud[Name].by /\ c.st = "Runnable"
    BY <1>2 DEF Instance
  <2> HIDE DEF c
  <2> QED BY <1>1, <2>1, <2>2, KeepsSame, KeepsChange
<1>5. CASE DeleteInstance
  <2> DEFINE c == [cloud[Name] EXCEPT !.st = "Deleting", !.op = "Running", !.asked = TRUE]
  <2>1. UNCHANGED cloud \/ cloud' = [cloud EXCEPT ![Name] = c]
    BY <1>1, <1>5 DEF DeleteInstance, Deleted, TypeOK
  <2>2. c.pw = cloud[Name].pw /\ c.by = cloud[Name].by /\ c.st = "Deleting"
    BY <1>2 DEF Instance
  <2> HIDE DEF c
  <2> QED BY <1>1, <2>1, <2>2, KeepsSame, KeepsChange
<1> QED BY <1>3, <1>4, <1>5

\* Only setInstancePassword sets a password.
LEMMA Keeps ==
  ASSUME TypeOK, Unset, [Next]_vars, ~SetPassword
  PROVE  CloudKeeps
<1>1. \/ UNCHANGED cloud
      \/ InsertInstance \/ UpdateInstance \/ DeleteInstance
      \/ \E n \in Names : Finish(n) \/ Fail(n) \/ Release(n) \/ OutOfBand(n)
  <2>1. CASE Continue
    BY <2>1 DEF Continue, AddFinalizer, GetInstance, GetNewInstance, ListOperations, GetSecret,
         CreateSecret, PutSecret, SkipUpdate, GetUpdatedInstance, PatchStatus, DeleteGet,
         RemoveFinalizer, Panic, Restart
  <2>2. CASE Environment
    BY <2>2 DEF Environment, Crash, Restart, Deliver, Resync, CollectSecret, UserCreate,
         UserEdit, UserAnnotate, UserDelete, UserWrite, CloudFinish, CloudRelease, CloudFail,
         CloudDrift
  <2>3. ASSUME NEW k \in Keys, StartSync(k) PROVE UNCHANGED cloud
    BY <2>3 DEF StartSync
  <2> QED BY <2>1, <2>2, <2>3 DEF Next, vars
<1> QED BY <1>1, KeepsSame, RequestKeeps, CloudStepKeeps
-----------------------------------------------------------------------------
(* The worker.                                                             *)

Intent == w'.key = w.key /\ w'.p.uid = w.p.uid /\ w'.p.name = w.p.name

\* After these there is nothing left that could set a password, or delete.
After == {"Idle", "Panic", "MaybeUpdate", "GetUpdated", "PatchStatus", "RemoveFinalizer"}

LEMMA LeaveAfter ==
  ASSUME NEW v, Busy(v)
  PROVE  /\ \A err \in BOOLEAN :
              /\ Leave(v, err).pc \in After
              /\ [Leave(v, err) EXCEPT !.nil = TRUE].pc \in After
              /\ [Leave(v, err) EXCEPT !.pw = None].pc \in After
              /\ [Leave(v, err) EXCEPT !.p.conn = TRUE].pc \in After
              /\ [Leave(v, err) EXCEPT !.p.conds.upToDate = "InstanceUpToDate",
                                       !.p.conn = TRUE].pc \in After
         /\ \A pc \in After : Goto(v, pc).pc \in After
         /\ [v EXCEPT !.pc = "MaybeUpdate", !.pw = None].pc \in After
BY DEF Busy, Worker, Leave, Goto, After

LEMMA IdleAfter == Idle.pc \in After /\ [Idle EXCEPT !.pc = "Panic"].pc \in After
BY DEF Idle, After

LEMMA EndAfter ==
  ASSUME TypeOK,
         PutSecret \/ SkipUpdate \/ UpdateInstance \/ GetUpdatedInstance
           \/ PatchStatus \/ DeleteInstance \/ RemoveFinalizer \/ Restart
  PROVE  w'.pc \in After
<1>1. CASE Restart
  BY <1>1, IdleAfter DEF Restart
<1>2. CASE PatchStatus \/ RemoveFinalizer
  <2>1. w' = Idle \/ w' = [Idle EXCEPT !.pc = "Panic"]
    BY <1>2 DEF PatchStatus, RemoveFinalizer, AfterPatch, Return
  <2> QED BY <2>1, IdleAfter
<1>3. CASE PutSecret \/ SkipUpdate \/ UpdateInstance \/ GetUpdatedInstance \/ DeleteInstance
  <2>1. Busy(w)
    BY <1>3, BusyType DEF PutSecret, SkipUpdate, UpdateInstance, GetUpdatedInstance,
         DeleteInstance, At
  <2>2. /\ "MaybeUpdate" \in After /\ "GetUpdated" \in After /\ "RemoveFinalizer" \in After
        /\ TRUE \in BOOLEAN /\ FALSE \in BOOLEAN
    BY DEF After
  <2>3. CASE PutSecret
    BY <2>1, <2>2, <2>3, LeaveAfter DEF PutSecret
  <2>4. CASE SkipUpdate
    BY <2>1, <2>2, <2>4, LeaveAfter DEF SkipUpdate
  <2>5. CASE UpdateInstance
    <3> DEFINE upToDate(reason) == [w EXCEPT !.p.conds.upToDate = reason]
    <3>1. /\ Busy(upToDate("InstanceUpdated")) /\ Busy(upToDate("Conflict"))
          /\ Busy(upToDate("InvalidSpec")) /\ Busy(upToDate("UnexpectedError"))
      BY <2>1, CondBusy
    <3>2. \/ w' = Goto(upToDate("InstanceUpdated"), "GetUpdated")
          \/ w' = [Leave(upToDate("Conflict"), FALSE) EXCEPT !.nil = TRUE]
          \/ w' = [Leave(upToDate("InvalidSpec"), FALSE) EXCEPT !.nil = TRUE]
          \/ w' = Leave(upToDate("UnexpectedError"), TRUE)
      BY <2>5 DEF UpdateInstance
    <3> HIDE DEF upToDate
    <3> QED BY <2>2, <3>1, <3>2, LeaveAfter
  <2>6. CASE GetUpdatedInstance
    BY <2>1, <2>2, <2>6, LeaveAfter DEF GetUpdatedInstance
  <2>7. CASE DeleteInstance
    BY <2>1, <2>2, <2>7, LeaveAfter, IdleAfter DEF DeleteInstance, Return
  <2> QED BY <1>3, <2>3, <2>4, <2>5, <2>6, <2>7
<1> QED BY <1>1, <1>2, <1>3

\* The calls on the way to the password are about the same object.
LEMMA CallTarget ==
  ASSUME TypeOK, NEW v, Busy(v)
  PROVE  /\ \A pc \in Steps :
              Goto(v, pc).pc = pc /\ Goto(v, pc).key = v.key /\ Goto(v, pc).p = v.p
         /\ \A r : LET c == [v EXCEPT !.p.conds.created = r]
                       d == [v EXCEPT !.p.conds.ready = r]
                   IN /\ c.key = v.key /\ c.p.uid = v.p.uid /\ c.p.name = v.p.name
                      /\ d.key = v.key /\ d.p.uid = v.p.uid /\ d.p.name = v.p.name
BY DEF Busy, Worker, Goto, Object

LEMMA CallMove ==
  ASSUME TypeOK, GetInstance \/ InsertInstance \/ GetNewInstance \/ ListOperations
                   \/ GetSecret \/ CreateSecret \/ SetPassword
  PROVE  \/ w'.pc \in After
         \/ Intent /\ w'.pc \in {"Insert", "ListOps", "GetNew"}
         \/ Intent /\ w'.pc = "GetSecret"
         \/ Intent /\ w'.pc \in {"CreateSecret", "SetPassword"} /\ (GetSecret \/ CreateSecret)
         \/ Intent /\ w'.pc = "PutSecret" /\ SetPassword
<1>1. Busy(w) /\ w \in Worker /\ w.p \in Object
  BY BusyType DEF GetInstance, InsertInstance, GetNewInstance, ListOperations, GetSecret,
       CreateSecret, SetPassword, At, Busy
<1>2. /\ TRUE \in BOOLEAN /\ FALSE \in BOOLEAN /\ "MaybeUpdate" \in After
      /\ {"Insert", "GetNew", "GetSecret", "CreateSecret", "SetPassword", "MaybeUpdate"}
           \subseteq Steps
  BY DEF After, Steps
<1>3. Found.pc = "ListOps" /\ Found.key = w.key /\ Found.p = w.p
  BY <1>1 DEF Found, Worker
<1>4. CASE GetInstance
  <2>1. w' = Found \/ w' = Goto(w, "Insert") \/ w' = Leave(w, TRUE)
    BY <1>4 DEF GetInstance
  <2>2. Leave(w, TRUE).pc \in After
    BY <1>1, <1>2, LeaveAfter
  <2>3. Goto(w, "Insert").pc = "Insert" /\ Goto(w, "Insert").key = w.key /\ Goto(w, "Insert").p = w.p
    BY <1>1, <1>2, CallTarget
  <2> QED BY <1>3, <2>1, <2>2, <2>3 DEF Intent
<1>5. CASE InsertInstance
  <2> DEFINE created(reason) == [w EXCEPT !.p.conds.created = reason]
  <2>1. /\ Busy(created("InstanceCreated")) /\ Busy(created("NameUnavailable"))
        /\ Busy(created("InvalidSpec")) /\ Busy(created("UnexpectedError"))
    BY <1>1, CondBusy
  <2>2. /\ created("InstanceCreated").key = w.key
        /\ created("InstanceCreated").p.uid = w.p.uid
        /\ created("InstanceCreated").p.name = w.p.name
    BY <1>1, CallTarget
  <2>3. \/ w' = Goto(created("InstanceCreated"), "GetNew")
        \/ w' = Leave(created("NameUnavailable"), FALSE)
        \/ w' = Leave(created("InvalidSpec"), FALSE)
        \/ w' = Leave(created("UnexpectedError"), TRUE)
    BY <1>5 DEF InsertInstance
  <2> HIDE DEF created
  <2>4. /\ Leave(created("NameUnavailable"), FALSE).pc \in After
        /\ Leave(created("InvalidSpec"), FALSE).pc \in After
        /\ Leave(created("UnexpectedError"), TRUE).pc \in After
    BY <1>2, <2>1, LeaveAfter
  <2>5. LET v == Goto(created("InstanceCreated"), "GetNew")
        IN v.pc = "GetNew" /\ v.key = w.key /\ v.p = created("InstanceCreated").p
    BY <1>2, <2>1, <2>2, CallTarget
  <2> QED BY <2>2, <2>3, <2>4, <2>5 DEF Intent
<1>6. CASE GetNewInstance
  <2>1. w' = Found \/ w' = Leave(w, TRUE)
    BY <1>6 DEF GetNewInstance
  <2>2. Leave(w, TRUE).pc \in After
    BY <1>1, <1>2, LeaveAfter
  <2> QED BY <1>3, <2>1, <2>2 DEF Intent
<1>7. CASE ListOperations
  <2> DEFINE ready(reason) == [w EXCEPT !.p.conds.ready = reason]
  <2>1. /\ Busy(ready("UnexpectedError")) /\ Busy(ready("OperationInProgress"))
        /\ Busy(ready("InstanceNotReady")) /\ Busy(ready("InstanceReady"))
    BY <1>1, CondBusy
  <2>2. /\ ready("InstanceReady").key = w.key
        /\ ready("InstanceReady").p.uid = w.p.uid
        /\ ready("InstanceReady").p.name = w.p.name
    BY <1>1, CallTarget
  <2>3. \/ w' = Leave(ready("UnexpectedError"), TRUE)
        \/ w' = Leave(ready("OperationInProgress"), FALSE)
        \/ w' = Leave(ready("UnexpectedError"), FALSE)
        \/ w' = Leave(ready("InstanceNotReady"), FALSE)
        \/ w' = Goto(ready("InstanceReady"), "GetSecret")
    BY <1>7 DEF ListOperations
  <2> HIDE DEF ready
  <2>4. /\ Leave(ready("UnexpectedError"), TRUE).pc \in After
        /\ Leave(ready("UnexpectedError"), FALSE).pc \in After
        /\ Leave(ready("OperationInProgress"), FALSE).pc \in After
        /\ Leave(ready("InstanceNotReady"), FALSE).pc \in After
    BY <1>2, <2>1, LeaveAfter
  <2>5. LET v == Goto(ready("InstanceReady"), "GetSecret")
        IN v.pc = "GetSecret" /\ v.key = w.key /\ v.p = ready("InstanceReady").p
    BY <1>2, <2>1, <2>2, CallTarget
  <2> QED BY <2>2, <2>3, <2>4, <2>5 DEF Intent
<1>8. CASE GetSecret
  <2>1. \/ w' = Leave(w, TRUE) \/ w' = Goto(w, "CreateSecret")
        \/ w' = Goto(w, "SetPassword") \/ w' = Goto(w, "MaybeUpdate")
    BY <1>8 DEF GetSecret
  <2>2. Leave(w, TRUE).pc \in After /\ Goto(w, "MaybeUpdate").pc \in After
    BY <1>1, <1>2, LeaveAfter
  <2>3. /\ Goto(w, "CreateSecret").pc = "CreateSecret" /\ Goto(w, "CreateSecret").key = w.key
        /\ Goto(w, "CreateSecret").p = w.p
        /\ Goto(w, "SetPassword").pc = "SetPassword" /\ Goto(w, "SetPassword").key = w.key
        /\ Goto(w, "SetPassword").p = w.p
    BY <1>1, <1>2, CallTarget
  <2> QED BY <1>8, <2>1, <2>2, <2>3 DEF Intent
<1>9. CASE CreateSecret
  <2>1. w' = Leave(w, TRUE) \/ w' = Goto(w, "SetPassword")
    BY <1>9 DEF CreateSecret
  <2>2. Leave(w, TRUE).pc \in After
    BY <1>1, <1>2, LeaveAfter
  <2>3. /\ Goto(w, "SetPassword").pc = "SetPassword" /\ Goto(w, "SetPassword").key = w.key
        /\ Goto(w, "SetPassword").p = w.p
    BY <1>1, <1>2, CallTarget
  <2> QED BY <1>9, <2>1, <2>2, <2>3 DEF Intent
<1>10. CASE SetPassword
  <2>1. w' = Leave(w, TRUE) \/ \E pw : w' = [w EXCEPT !.pc = "PutSecret", !.pw = pw]
    BY <1>10 DEF SetPassword
  <2>2. \A pw : LET v == [w EXCEPT !.pc = "PutSecret", !.pw = pw]
                IN v.pc = "PutSecret" /\ v.key = w.key /\ v.p = w.p
    BY <1>1 DEF Worker
  <2>3. Leave(w, TRUE).pc \in After
    BY <1>1, <1>2, LeaveAfter
  <2> QED BY <1>10, <2>1, <2>2, <2>3 DEF Intent
<1> QED BY <1>4, <1>5, <1>6, <1>7, <1>8, <1>9, <1>10

\* The ways the worker gets on: nothing is left to set or delete, or the sync
\* has just come to "Get" or "AddFinalizer"; a sync that deletes begins, or
\* goes on; a call on the way to the password; or somebody else's step.
Settled == w'.pc \in After \cup {"AddFinalizer", "Get"}
Begins  == \E k \in Keys :
             w'.pc = "DeleteGet" /\ w'.key = k /\ Cached(k) # None /\ w'.p = Cached(k)
Deletes == w.pc = "DeleteGet" /\ w'.pc = "Delete" /\ w'.key = w.key /\ w'.p = w.p
Calls ==
  /\ w.pc \in Setting /\ Intent
  /\ \/ w'.pc \in {"Insert", "ListOps", "GetNew", "GetSecret"}
     \/ w'.pc \in {"CreateSecret", "SetPassword"} /\ (GetSecret \/ CreateSecret)
     \/ w'.pc = "PutSecret" /\ SetPassword
Rests == w'.pc = w.pc /\ w'.key = w.key /\ w'.p = w.p /\ w'.pw = w.pw

LEMMA WorkMove ==
  ASSUME TypeOK, [Next]_vars
  PROVE  Settled \/ Begins \/ Deletes \/ Calls \/ Rests
<1>1. CASE UNCHANGED w
  BY <1>1 DEF Rests
<1>2. CASE Restart
  BY <1>2, EndAfter DEF Settled
<1>3. ASSUME NEW k \in Keys, StartSync(k) PROVE Settled \/ Begins
  <2> DEFINE i == Cached(k)
             pc == FirstStep(i)
             v == [Idle EXCEPT !.pc = pc, !.key = k, !.i = i, !.p = i]
  <2>1. pc \in {"Idle", "AddFinalizer", "Get", "DeleteGet"} /\ (pc # "Idle" => i # None)
    BY DEF FirstStep
  <2>2. w' = IF pc = "Idle" THEN Idle ELSE v
    BY <1>3 DEF StartSync
  <2>3. v.pc = pc /\ v.key = k /\ v.p = i
    BY DEF Idle
  <2> HIDE DEF i, pc, v
  <2>4. CASE pc = "Idle"
    BY <2>2, <2>4, IdleAfter DEF Settled
  <2>5. CASE pc # "Idle"
    <3>1. w'.pc = pc /\ w'.key = k /\ w'.p = i
      BY <2>2, <2>3, <2>5
    <3>2. i = Cached(k)
      BY DEF i
    <3> QED BY <2>1, <2>5, <3>1, <3>2 DEF Settled, Begins
  <2> QED BY <2>4, <2>5
<1>4. CASE AddFinalizer
  <2>1. Busy(w)
    BY <1>4, BusyType DEF AddFinalizer, At
  <2>2. \/ w' = Idle
        \/ \E o : w' = [w EXCEPT !.pc = "Get", !.rv = "current", !.p = o]
    BY <1>4 DEF AddFinalizer, Return
  <2>3. \A o : [w EXCEPT !.pc = "Get", !.rv = "current", !.p = o].pc = "Get"
    BY <2>1 DEF Busy, Worker
  <2> QED BY <2>2, <2>3, IdleAfter DEF Settled
<1>5. CASE DeleteGet
  <2>1. Busy(w) /\ w.pc = "DeleteGet"
    BY <1>5, BusyType DEF DeleteGet, At
  <2>2. w' = Idle \/ w' = Goto(w, "Delete") \/ w' = Goto(w, "RemoveFinalizer")
    BY <1>5 DEF DeleteGet, Return
  <2>3. /\ Goto(w, "Delete").pc = "Delete" /\ Goto(w, "Delete").key = w.key
        /\ Goto(w, "Delete").p = w.p
    BY <2>1, CallTarget DEF Steps
  <2>4. Goto(w, "RemoveFinalizer").pc \in After
    BY <2>1, LeaveAfter DEF After
  <2> QED BY <2>1, <2>2, <2>3, <2>4, IdleAfter DEF Settled, Deletes
<1>6. CASE GetInstance \/ InsertInstance \/ GetNewInstance \/ ListOperations
             \/ GetSecret \/ CreateSecret \/ SetPassword
  <2>1. w.pc \in Setting
    BY <1>6 DEF GetInstance, InsertInstance, GetNewInstance, ListOperations, GetSecret,
         CreateSecret, SetPassword, At, Setting
  <2> QED BY <1>6, <2>1, CallMove DEF Settled, Calls
<1>7. CASE Continue
  BY <1>2, <1>4, <1>5, <1>6, <1>7, EndAfter DEF Continue, Panic, Settled
<1>8. ASSUME NEW k \in Keys, UserCreate(k) \/ UserEdit(k) \/ UserAnnotate(k) \/ UserDelete(k)
      PROVE  Rests
  <2>1. w' = w \/ w' = [w EXCEPT !.rv = "outdated"]
    BY <1>8 DEF UserCreate, UserEdit, UserAnnotate, UserDelete, UserWrite, Outdate
  <2>2. w \in Worker
    BY DEF TypeOK
  <2> QED BY <2>1, <2>2 DEF Worker, Rests
<1>9. CASE Environment
  BY <1>1, <1>2, <1>8, <1>9
     DEF Environment, Crash, Deliver, Resync, CollectSecret, CloudFinish, CloudRelease,
         CloudFail, CloudDrift
<1> QED BY <1>1, <1>3, <1>7, <1>9 DEF Next, vars
-----------------------------------------------------------------------------
(* Passwords in secrets.                                                   *)

SecretKeeps ==
  \A k \in Keys : secret'[k] # None /\ secret'[k].pw # None => secret'[k] = secret[k]

LEMMA Secrets ==
  ASSUME TypeOK, [Next]_vars, ~PutSecret
  PROVE  SecretKeeps
<1>1. CASE UNCHANGED secret
  BY <1>1 DEF SecretKeeps
<1>2. CASE CreateSecret
  <2>1. CASE \E u : secret' = [secret EXCEPT ![w.key] = [uid |-> u, pw |-> None]]
    BY <2>1 DEF TypeOK, SecretKeeps
  <2> QED BY <1>1, <1>2, <2>1 DEF CreateSecret
<1>3. ASSUME NEW k \in Keys, CollectSecret(k) PROVE SecretKeeps
  BY <1>3 DEF CollectSecret, TypeOK, SecretKeeps
<1>4. CASE Continue
  BY <1>1, <1>2, <1>4
     DEF Continue, AddFinalizer, GetInstance, InsertInstance, GetNewInstance, ListOperations,
         GetSecret, SetPassword, SkipUpdate, UpdateInstance, GetUpdatedInstance, PatchStatus,
         DeleteGet, DeleteInstance, RemoveFinalizer, Panic, Restart
<1>5. CASE Environment
  BY <1>1, <1>3, <1>5
     DEF Environment, Crash, Restart, Deliver, Resync, UserCreate, UserEdit, UserAnnotate,
         UserDelete, UserWrite, CloudFinish, CloudRelease, CloudFail, CloudDrift
<1>6. ASSUME NEW k \in Keys, StartSync(k) PROVE UNCHANGED secret
  BY <1>6 DEF StartSync
<1> QED BY <1>1, <1>4, <1>5, <1>6 DEF Next, vars
-----------------------------------------------------------------------------
(* The steps preserve the invariant.                                       *)

\* What the lemmas above say of a step.
Step ==
  /\ OrphanInv /\ OrphanInv'
  /\ \A k \in Keys : Follows(k, Live(k)')
  /\ Settled \/ Begins \/ Deletes \/ Calls \/ Rests
  /\ SetPassword \/ CloudKeeps
  /\ PutSecret \/ SecretKeeps

LEMMA StepFacts ==
  ASSUME AgreementInv, [Next]_vars
  PROVE  Step /\ (\A k \in Keys : Named(k, log'[k]))
<1>1. TypeOK /\ OrphanInv /\ OrphanInv' /\ Unset
  BY NextInv DEF AgreementInv, OrphanInv
<1>2. \A k \in Keys : Follows(k, Live(k)') /\ Named(k, log'[k])
  BY <1>1, Moves, LiveFollows, NamedMove DEF AgreementInv
<1>3. Settled \/ Begins \/ Deletes \/ Calls \/ Rests
  BY <1>1, WorkMove
<1>4. SetPassword \/ CloudKeeps
  BY <1>1, Keeps
<1>5. PutSecret \/ SecretKeeps
  BY <1>1, Secrets
<1> QED BY <1>1, <1>2, <1>3, <1>4, <1>5 DEF Step

LEMMA HoldingNext ==
  ASSUME Holding, Step
  PROVE  Holding'
<1> SUFFICES ASSUME w'.pc \in Setting
             PROVE  Protected(Live(w.key))' /\ Same(Live(w.key)', w'.p)
  BY DEF Holding
<1>1. CASE w'.pc \in {"Get", "Insert"}
  BY <1>1 DEF Step, OrphanInv, Creating
<1>2. CASE w'.pc \notin {"Get", "Insert"}
  <2>1. Calls \/ Rests
    BY <1>2 DEF Step, Settled, Begins, Deletes, Setting, After
  <2>2. w.pc \in Setting /\ w'.key = w.key /\ w'.p.uid = w.p.uid /\ w'.p.name = w.p.name
    BY <2>1 DEF Calls, Intent, Rests
  <2>3. w.key \in Keys
    BY <2>2 DEF Step, OrphanInv, TypeOK, Setting
  <2>4. PICK k \in Keys : k = w.key
    BY <2>3
  <2>5. Protected(Live(k)) /\ Same(Live(k), w.p)
    BY <2>2, <2>4 DEF Holding
  <2>6. Protected(Live(k)') /\ Same(Live(k), Live(k)')
    BY <2>2, <2>5 DEF Step, Follows, Protected, At, Setting
  <2>7. Live(w.key)' = Live(k)'
    BY <2>2, <2>4
  <2> QED BY <2>2, <2>5, <2>6, <2>7 DEF Same, Protected
<1> QED BY <1>1, <1>2

LEMMA DeservedNext ==
  ASSUME Deserved, Step, \A k \in Keys : Named(k, log[k])
  PROVE  Deserved'
<1> SUFFICES ASSUME w'.pc \in {"DeleteGet", "Delete"}
             PROVE  <<w'.key, w'.p.name>> \in Requests
  BY DEF Deserved, Name
<1>1. Begins \/ Deletes \/ Rests
  BY DEF Step, Settled, Calls, After
<1>2. CASE Begins
  <2>1. PICK k \in Keys : w'.key = k /\ Cached(k) # None /\ w'.p = Cached(k)
    BY <1>2 DEF Begins
  <2>2. 1 \in 1 .. Len(log[k])
    BY LogType DEF Step, OrphanInv
  <2> QED BY <2>1, <2>2 DEF Named, Cached
<1>3. CASE Deletes \/ Rests
  BY <1>3 DEF Deletes, Rests, Deserved, Name
<1> QED BY <1>1, <1>2, <1>3

\* When a password is set, the secret holds none.
LEMMA SecretBlank ==
  ASSUME TypeOK, GetSecret \/ CreateSecret, w'.pc = "SetPassword"
  PROVE  \/ GetSecret /\ (secret[w.key] # None => secret[w.key].pw = None)
         \/ secret'[w.key].pw = None
<1>1. Busy(w)
  BY BusyType DEF GetSecret, CreateSecret, At
<1>2. Leave(w, TRUE).pc # "SetPassword" /\ Goto(w, "MaybeUpdate").pc # "SetPassword"
      /\ Goto(w, "CreateSecret").pc # "SetPassword"
  BY <1>1, LeaveAfter, CallTarget DEF After, Steps
<1>3. CASE GetSecret
  BY <1>2, <1>3 DEF GetSecret
<1>4. CASE CreateSecret
  <2>1. PICK o \in Outcomes(IF secret[w.key] = None THEN Ok ELSE Conflict) :
          /\ secret' = IF o.applied
                         THEN [secret EXCEPT ![w.key] = [uid |-> w.p.uid, pw |-> None]]
                         ELSE secret
          /\ o.code = Ok
    BY <1>2, <1>4 DEF CreateSecret
  <2>2. o.applied
    BY <2>1, OutcomeFacts DEF Ok, Conflict
  <2>3. w.key \in Keys
    BY <1>1 DEF Busy
  <2> QED BY <2>1, <2>2, <2>3 DEF TypeOK
<1> QED BY <1>3, <1>4

LEMMA BlankNext ==
  ASSUME Blank, Step
  PROVE  Blank'
<1> SUFFICES ASSUME w'.pc \in {"SetPassword", "PutSecret"},
                    secret'[w'.key] # None, secret'[w'.key].pw # None
             PROVE  FALSE
  BY DEF Blank
<1>1. Calls \/ Rests
  BY DEF Step, Settled, Begins, Deletes, After
<1>2. TypeOK
  BY DEF Step, OrphanInv
<1>3. w'.key = w.key /\ ~PutSecret
  <2>1. ~PutSecret
    BY <1>2, EndAfter DEF After
  <2> QED BY <1>1, <2>1 DEF Calls, Intent, Rests
<1>4. w.key \in Keys
  BY <1>1, <1>2 DEF Calls, Rests, Setting, TypeOK
<1>5. secret'[w.key] = secret[w.key]
  BY <1>3, <1>4 DEF Step, SecretKeeps
<1>6. w.pc \notin {"SetPassword", "PutSecret"}
  BY <1>3, <1>5 DEF Blank
<1>7. w'.pc = "SetPassword" /\ (GetSecret \/ CreateSecret)
  BY <1>1, <1>6 DEF Calls, Rests, SetPassword, At
<1> QED BY <1>2, <1>3, <1>5, <1>7, SecretBlank

\* The password that is set is the one that is going to be written.
LEMMA PasswordSet ==
  ASSUME TypeOK, SetPassword
  PROVE  /\ \A n \in Names :
              \/ cloud'[n] = cloud[n]
              \/ n = Name /\ Exists(n)' /\ cloud'[n].by = cloud[n].by
         /\ w'.pc = "PutSecret" => w'.pw = cloud'[Name].pw
<1>1. Busy(w) /\ Name \in Names
  BY BusyType DEF SetPassword, At
<1>2. PICK pw \in Passwords, o \in Outcomes(UserReply(Name)), op \in {"Running", "Done"} :
        /\ cloud' = IF o.applied THEN UserUpdated(Name, pw, op) ELSE cloud
        /\ w' = IF o.code = Ok THEN [w EXCEPT !.pc = "PutSecret", !.pw = pw]
                               ELSE Leave(w, TRUE)
  BY DEF SetPassword
<1> DEFINE c == [cloud[Name] EXCEPT !.pw = pw, !.op = op]
<1>3. UserUpdated(Name, pw, op) = [cloud EXCEPT ![Name] = c]
  BY <1>1 DEF UserUpdated, TypeOK
<1>4. c.pw = pw /\ c.by = cloud[Name].by /\ c.st = cloud[Name].st
  BY <1>1 DEF TypeOK, Instance
<1> HIDE DEF c
<1>5. o.applied => Exists(Name)
  BY OutcomeFacts DEF UserReply, Ok, NotFound
<1>6. o.code = Ok => o.applied
  BY OutcomeFacts DEF UserReply, Ok, NotFound, Conflict
<1>7. pw # None
  BY CloudAssumption
<1>8. cloud \in [Names -> Instance(Keys \X Uid)]
  BY DEF TypeOK
<1>9. /\ Leave(w, TRUE).pc # "PutSecret"
      /\ [w EXCEPT !.pc = "PutSecret", !.pw = pw].pw = pw
  <2>1. Leave(w, TRUE).pc # "PutSecret"
    BY <1>1, LeaveAfter DEF After
  <2> QED BY <1>1, <2>1 DEF Busy, Worker
<1>10. CASE o.applied
  <2>1. cloud'[Name] = c /\ \A n \in Names \ {Name} : cloud'[n] = cloud[n]
    BY <1>1, <1>2, <1>3, <1>8, <1>10
  <2>2. c.st \notin {"Absent", "Reserved"}
    BY <1>4, <1>5, <1>10 DEF Exists
  <2>3. \A n \in Names : n = Name => Exists(n)'
    BY <2>1, <2>2 DEF Exists
  <2>4. w'.pc = "PutSecret" => w'.pw = pw
    BY <1>2, <1>9
  <2> QED BY <1>4, <2>1, <2>3, <2>4
<1>11. CASE ~o.applied
  BY <1>2, <1>6, <1>9, <1>11
<1> QED BY <1>10, <1>11

LEMMA UnsetNext ==
  ASSUME Unset, Step
  PROVE  Unset'
<1>1. CASE SetPassword
  BY <1>1, PasswordSet DEF Step, OrphanInv, Unset, Exists
<1>2. CASE CloudKeeps
  BY <1>2 DEF CloudKeeps, PasswordKept, Unset
<1> QED BY <1>1, <1>2 DEF Step

LEMMA FreshNext ==
  ASSUME Fresh, Step
  PROVE  Fresh'
<1> SUFFICES ASSUME w'.pc = "PutSecret"
             PROVE  cloud'[w'.p.name].pw \in {None, w'.pw}
  BY DEF Fresh, At, Name
<1>1. TypeOK
  BY DEF Step, OrphanInv
<1>2. Calls \/ Rests
  BY DEF Step, Settled, Begins, Deletes, After
<1>3. w'.p.name = Name
  BY <1>2 DEF Calls, Intent, Rests, Name
<1>4. CASE SetPassword
  BY <1>1, <1>3, <1>4, PasswordSet
<1>5. CASE ~SetPassword
  <2>1. Rests /\ CloudKeeps
    BY <1>2, <1>5 DEF Calls, Step
  <2>2. Name \in Names /\ cloud[Name].pw \in {None, w.pw}
    BY <1>1, <2>1, BusyType DEF Rests, Fresh, At
  <2> QED BY <1>3, <2>1, <2>2 DEF CloudKeeps, PasswordKept, Rests
<1> QED BY <1>4, <1>5

\* The object that is stored has a name that it may ask for ...
LEMMA AsksFor ==
  ASSUME TypeOK, NEW k \in Keys, Named(k, log[k]), Live(k) # None
  PROVE  <<k, Live(k).name>> \in Requests
<1>1. Len(log[k]) \in 1 .. Len(log[k])
  BY LogType
<1> QED BY <1>1 DEF Named, Live

\* ... and no other object may.
LEMMA SharedName ==
  ASSUME NoSharedName, NEW k, NEW j, NEW n, <<k, n>> \in Requests, <<j, n>> \in Requests
  PROVE  k = j
BY DEF NoSharedName

LEMMA AgreementNext ==
  ASSUME AgreementInv, Step, NoSharedName
  PROVE  PasswordAgreement'
<1> SUFFICES ASSUME NEW n \in Names, NEW k \in Keys,
                    secret'[k] # None, MadeFor(n, k, Live(k))',
                    secret'[k].uid = Live(k)'.uid,
                    secret'[k].pw # None, cloud'[n].pw # None
             PROVE  secret'[k].pw = cloud'[n].pw
  BY DEF PasswordAgreement
<1>1. TypeOK
  BY DEF Step, OrphanInv
<1>2. /\ Live(k)' # None /\ Live(k)'.name = n
      /\ cloud'[n].by = <<k, Live(k)'.uid>>
  BY DEF MadeFor
\* The object is the one that was stored before, and the instance too.
<1>3. cloud'[n].by = cloud[n].by /\ (~SetPassword => cloud'[n].pw = cloud[n].pw)
  <2>1. CASE SetPassword
    BY <1>1, <2>1, PasswordSet
  <2>2. CASE ~SetPassword
    BY <2>2 DEF Step, CloudKeeps, PasswordKept
  <2> QED BY <2>1, <2>2
<1>4. Live(k) # None
  BY <1>2 DEF Step, Follows, AgreementInv, Unset
<1>5. Live(k).uid = Live(k)'.uid /\ Live(k).name = n
  BY <1>2, <1>4 DEF Step, Follows, Same
<1>6. MadeFor(n, k, Live(k))
  BY <1>2, <1>3, <1>4, <1>5 DEF MadeFor
<1>7. CASE PutSecret
  <2>1. Busy(w) /\ w.pc = "PutSecret" /\ ~SetPassword
    BY <1>1, <1>7, BusyType DEF PutSecret, SetPassword, At
  <2>2. cloud'[n].pw = cloud[n].pw
    BY <1>3, <2>1
  <2>3. \/ secret' = secret
        \/ secret' = [secret EXCEPT ![w.key].pw = w.pw] /\ secret[w.key] # None
    <3>1. PICK o \in Outcomes(IF secret[w.key] = None THEN NotFound ELSE Ok) :
            secret' = IF o.applied THEN [secret EXCEPT ![w.key].pw = w.pw] ELSE secret
      BY <1>7 DEF PutSecret
    <3> QED BY <3>1, OutcomeFacts DEF NotFound, Ok
  <2>4. CASE secret'[k] = secret[k]
    BY <1>5, <1>6, <2>2, <2>4 DEF AgreementInv, PasswordAgreement
  <2>5. CASE secret'[k] # secret[k]
    <3>1. k = w.key /\ secret[k] # None /\ secret'[k] = [secret[k] EXCEPT !.pw = w.pw]
      BY <1>1, <2>3, <2>5 DEF TypeOK
    <3>2. secret'[k].pw = w.pw
      BY <1>1, <3>1 DEF TypeOK, Secret
    <3>3. Name = n
      BY <1>5, <2>1, <3>1 DEF AgreementInv, Holding, Setting, Same, Name
    <3>4. cloud[n].pw \in {None, w.pw}
      BY <2>1, <3>3 DEF AgreementInv, Fresh, At
    <3> QED BY <2>2, <3>2, <3>4
  <2> QED BY <2>4, <2>5
<1>8. CASE SetPassword
  <2>1. Busy(w) /\ w.pc = "SetPassword" /\ ~PutSecret
    BY <1>1, <1>8, BusyType DEF PutSecret, SetPassword, At
  <2>2. secret'[k] = secret[k]
    BY <2>1 DEF Step, SecretKeeps
  <2>3. CASE cloud'[n] = cloud[n]
    BY <1>5, <1>6, <2>2, <2>3 DEF AgreementInv, PasswordAgreement
  <2>4. CASE cloud'[n] # cloud[n]
    <3>1. n = Name
      BY <1>1, <1>8, <2>4, PasswordSet
    <3>2. <<k, n>> \in Requests
      BY <1>1, <1>4, <1>5, AsksFor DEF AgreementInv
    <3>3. w.key \in Keys /\ Live(w.key) # None /\ Live(w.key).name = Name
      BY <2>1 DEF AgreementInv, Holding, Setting, Protected, Same, Name, Busy
    <3>4. <<w.key, n>> \in Requests
      BY <1>1, <3>1, <3>3, AsksFor DEF AgreementInv
    <3>5. k = w.key
      BY <3>2, <3>4, SharedName
    <3> QED BY <2>1, <2>2, <3>5 DEF AgreementInv, Blank
  <2> QED BY <2>3, <2>4
<1>9. CASE ~PutSecret /\ ~SetPassword
  <2>1. secret'[k] = secret[k] /\ cloud'[n].pw = cloud[n].pw
    BY <1>3, <1>9 DEF Step, SecretKeeps
  <2> QED BY <1>5, <1>6, <2>1 DEF AgreementInv, PasswordAgreement
<1> QED BY <1>7, <1>8, <1>9

LEMMA AgreementStep ==
  ASSUME NoSharedName, AgreementInv, [Next]_vars
  PROVE  AgreementInv'
<1>1. Step /\ \A k \in Keys : Named(k, log'[k])
  BY StepFacts
<1>2. OrphanInv'
  BY <1>1 DEF Step
<1>3. Unset' /\ Holding' /\ Blank' /\ Fresh' /\ Deserved'
  BY <1>1, UnsetNext, HoldingNext, BlankNext, FreshNext, DeservedNext DEF AgreementInv
<1>4. PasswordAgreement'
  BY <1>1, AgreementNext
<1> QED BY <1>1, <1>2, <1>3, <1>4 DEF AgreementInv, Named

LEMMA AgreementInit ==
  ASSUME Init
  PROVE  AgreementInv
<1>1. OrphanInv
  BY InitInv
<1>2. \A k \in Keys : Named(k, log[k])
  BY DEF Init, Named
<1>3. Unset
  BY DEF Init, Unset, Gone
<1>4. Holding /\ Blank /\ Fresh /\ Deserved
  BY DEF Init, Idle, Holding, Setting, Blank, Fresh, Deserved, At
<1>5. PasswordAgreement
  BY DEF Init, PasswordAgreement
<1> QED BY <1>1, <1>2, <1>3, <1>4, <1>5 DEF AgreementInv

\* What the phases of a sync rely on about passwords holds.
LEMMA AgreementInvariance ==
  ASSUME NoSharedName
  PROVE  Spec => []AgreementInv
<1>1. Init => AgreementInv
  BY AgreementInit
<1>2. AgreementInv /\ [Next]_vars => AgreementInv'
  BY AgreementStep
<1> QED BY <1>1, <1>2, PTL DEF Spec
-----------------------------------------------------------------------------
(* The theorems.                                                           *)

\* setInstancePassword writes the instance and then the secret, with crashes,
\* lost replies, collected secrets and recreated instances in between; and
\* yet a password in the secret of an object is the one on its instance.
THEOREM PasswordsAgree ==
  ASSUME NoSharedName
  PROVE  Spec => []PasswordAgreement
<1>1. AgreementInv => PasswordAgreement
  BY DEF AgreementInv
<1> QED BY <1>1, AgreementInvariance, PTL

\* Only the deletion of an instance asks for one.
LEMMA AskMove ==
  ASSUME TypeOK, [Next]_vars, NEW n \in Names, ~cloud[n].asked, cloud'[n].asked
  PROVE  DeleteInstance /\ n = Name
<1>1. CASE DeleteInstance
  <2>1. cloud' = Deleted(Name) \/ cloud' = cloud
    BY <1>1 DEF DeleteInstance
  <2>2. n # Name => cloud'[n] = cloud[n]
    BY <2>1 DEF Deleted, TypeOK
  <2> QED BY <1>1, <2>2
<1>2. CASE \E m \in Names : Finish(m) \/ Fail(m) \/ Release(m) \/ OutOfBand(m)
  <2>1. PICK m \in Names : Finish(m) \/ Fail(m) \/ Release(m) \/ OutOfBand(m)
    BY <1>2
  <2>2. m # n => cloud'[n] = cloud[n]
    BY <2>1 DEF TypeOK, Finish, Fail, Release, OutOfBand
  <2>3. CASE m = n
    <3>1. cloud[n] \in Instance(Keys \X Uid) /\ cloud \in [Names -> Instance(Keys \X Uid)]
      BY DEF TypeOK
    <3>2. \A st : Gone(st).asked = FALSE /\ \A s : [Gone(st) EXCEPT !.s = s].asked = FALSE
      BY DEF Gone
    <3>3. CASE Finish(n)
      BY <3>1, <3>2, <3>3 DEF Instance, Finish
    <3>4. CASE Fail(n)
      BY <3>1, <3>4 DEF Instance, Fail
    <3>5. CASE Release(n)
      BY <3>1, <3>2, <3>5 DEF Release
    <3>6. CASE OutOfBand(n)
      <4>1. CASE \E s \in Settings : cloud' = [cloud EXCEPT ![n].s = s]
        BY <3>1, <4>1 DEF Instance
      <4>2. CASE \E st \in {"Runnable", "Stopped"} :
                   cloud' = [cloud EXCEPT ![n].st = st, ![n].op = "Done"]
        BY <3>1, <4>2 DEF Instance
      <4>3. CASE \E st, s : \/ cloud' = [cloud EXCEPT ![n] = Gone(st)]
                            \/ cloud' = [cloud EXCEPT ![n] = [Gone(st) EXCEPT !.s = s]]
        <5>1. cloud'[n].asked = FALSE
          BY <3>1, <3>2, <4>3
        <5> QED BY <5>1
      <4> QED BY <3>6, <4>1, <4>2, <4>3 DEF OutOfBand
    <3> QED BY <2>1, <2>3, <3>3, <3>4, <3>5, <3>6
  <2> QED BY <2>2, <2>3
<1>3. CASE InsertInstance \/ UpdateInstance \/ SetPassword
  <2>1. Busy(w) /\ Name \in Names
    BY <1>3, BusyType DEF InsertInstance, UpdateInstance, SetPassword, At
  <2>2. cloud'[n].asked \in {FALSE, cloud[n].asked}
    <3>1. CASE InsertInstance
      BY <2>1, <3>1 DEF InsertInstance, Inserted, TypeOK
    <3>2. CASE UpdateInstance
      BY <2>1, <3>2 DEF UpdateInstance, Updated, TypeOK, Instance
    <3>3. CASE SetPassword
      BY <2>1, <3>3 DEF SetPassword, UserUpdated, TypeOK, Instance
    <3> QED BY <1>3, <3>1, <3>2, <3>3
  <2> QED BY <2>2
<1>4. CASE UNCHANGED cloud
  BY <1>4
<1>5. CASE Continue
  BY <1>1, <1>3, <1>4, <1>5
     DEF Continue, AddFinalizer, GetInstance, GetNewInstance, ListOperations, GetSecret,
         CreateSecret, PutSecret, SkipUpdate, GetUpdatedInstance, PatchStatus, DeleteGet,
         RemoveFinalizer, Panic, Restart
<1>6. CASE Environment
  BY <1>2, <1>4, <1>6
     DEF Environment, Crash, Restart, Deliver, Resync, CollectSecret, UserCreate, UserEdit,
         UserAnnotate, UserDelete, UserWrite, CloudFinish, CloudRelease, CloudFail, CloudDrift
<1>7. ASSUME NEW k \in Keys, StartSync(k) PROVE UNCHANGED cloud
  BY <1>7 DEF StartSync
<1> QED BY <1>4, <1>5, <1>6, <1>7 DEF Next, vars

LEMMA CondemnedStep ==
  ASSUME NoSharedName, AgreementInv, [Next]_vars, NEW n \in Names,
         ~cloud[n].asked, cloud'[n].asked, cloud[n].by # None
  PROVE  /\ cloud[n].by[1] = w.key
         /\ MadeFor(n, w.key, Live(w.key))
         /\ Live(w.key).del
<1>1. OrphanInv /\ TypeOK /\ NoOrphan
  BY DEF AgreementInv, OrphanInv
<1>2. DeleteInstance /\ n = Name
  BY <1>1, AskMove
<1>3. w.pc = "Delete" /\ w.key \in Keys
  BY <1>1, <1>2, CriticalKey DEF DeleteInstance, At, Critical
<1>4. PICK k \in Keys : cloud[n].by[1] = k
  BY <1>1 DEF TypeOK, Instance
<1>5. MadeFor(n, k, Live(k)) /\ Live(k).fin
  BY <1>1, <1>4 DEF NoOrphan
<1>6. <<k, n>> \in Requests
  BY <1>1, <1>5, AsksFor DEF AgreementInv, MadeFor
<1>7. <<w.key, n>> \in Requests
  BY <1>2, <1>3 DEF AgreementInv, Deserved
<1>8. k = w.key
  BY <1>6, <1>7, SharedName
<1>9. Doomed(log[k], w.i)
  BY <1>1, <1>3, <1>8 DEF OrphanInv, Deleting
<1>10. Len(log[k]) \in 1 .. Len(log[k]) /\ Protected(log[k][Len(log[k])])
  BY <1>1, <1>5, LogType DEF Live, MadeFor, Protected
<1>11. Live(k).del
  BY <1>9, <1>10, LogType, <1>1 DEF Doomed, Condemned, Live
<1> QED BY <1>4, <1>5, <1>8, <1>11

\* The finalizer's deletion is never acted upon from a version of the object
\* that is out of date: an instance is deleted for the object it was created
\* for, and that object is being deleted.
THEOREM OnlyCondemned ==
  ASSUME NoSharedName
  PROVE  Spec => CondemnedOnly
<1>1. AgreementInv /\ [Next]_vars
        => [\A n \in Names :
              ~cloud[n].asked /\ cloud'[n].asked /\ cloud[n].by # None
                => /\ cloud[n].by[1] = w.key
                   /\ MadeFor(n, w.key, Live(w.key))
                   /\ Live(w.key).del]_vars
  BY CondemnedStep
<1> QED BY <1>1, AgreementInvariance, PTL DEF Spec, CondemnedOnly
=============================================================================
