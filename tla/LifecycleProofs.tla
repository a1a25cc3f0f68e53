--------------------------- MODULE LifecycleProofs ---------------------------
(***************************************************************************)
(* Proof that the controller, with the users, the cloud, the informer and  *)
(* the crashes around it, implements InstanceLifecycle, when no two        *)
(* objects ask for the same name.                                          *)
(***************************************************************************)
EXTENDS AgreementProofs

\* An object that is being deleted is still protected.
Tidy == \A k \in Keys : Live(k) # None /\ Live(k).del => Live(k).fin

\* No instance was ever made for an object that has not been protected.
Unmade ==
  \A k \in Keys : Live(k) # None /\ ~Live(k).fin => ~MadeFor(Live(k).name, k, Live(k))

LifecycleInv == AgreementInv /\ Tidy /\ Unmade

\* The state of the instance of k, told from the object that is stored.
Fate(k) ==
  IF Live(k) = None \/ ~MadeFor(Live(k).name, k, Live(k)) THEN "none"
  ELSE IF cloud[Live(k).name].asked THEN "doomed" ELSE "made"

LEMMA FateOfInstance ==
  ASSUME OrphanInv, NEW k \in Keys
  PROVE  InstanceState(k) = Fate(k)
<1>1. TypeOK /\ NoOrphan
  BY DEF OrphanInv
<1>2. Live(k) # None => Live(k).name \in Names
  BY <1>1, LiveType DEF Object
<1>3. ASSUME NEW n \in Names, cloud[n].by # None, cloud[n].by[1] = k, ~cloud[n].asked
      PROVE  MadeFor(n, k, Live(k)) /\ Live(k) # None /\ Live(k).name = n
  BY <1>1, <1>3 DEF NoOrphan, MadeFor
<1>4. CASE Live(k) = None
  BY <1>3, <1>4 DEF InstanceState, Fate
<1>5. CASE Live(k) # None
  <2>1. MadeFor(Live(k).name, k, Live(k))
          => cloud[Live(k).name].by # None /\ cloud[Live(k).name].by[1] = k
    <3>1. <<k, Live(k).uid>> \in Keys \X Uid
      BY <1>1, <1>5, LiveType DEF Object
    <3> QED BY <3>1, OwnerAssumption DEF MadeFor
  <2> QED BY <1>2, <1>3, <1>5, <2>1 DEF InstanceState, Fate
<1> QED BY <1>4, <1>5
-----------------------------------------------------------------------------
(* The steps of the lifecycle, seen from one object.                       *)

Still(k) == ObjectState(k)' = ObjectState(k) /\ InstanceState(k)' = InstanceState(k)

Lives(k) ==
  \/ Still(k)
  \/ /\ InstanceState(k)' = InstanceState(k)
     /\ <<ObjectState(k), ObjectState(k)'>> \in
          {<<"absent", "plain">>, <<"plain", "protected">>, <<"plain", "absent">>,
           <<"protected", "condemned">>}
  \/ /\ ObjectState(k)' = ObjectState(k)
     /\ \/ ObjectState(k) \in {"protected", "condemned"} /\ InstanceState(k)' = "made"
        \/ /\ ObjectState(k) = "condemned"
           /\ InstanceState(k) = "made" /\ InstanceState(k)' = "doomed"
        \/ InstanceState(k) # "none" /\ InstanceState(k)' = "none"
  \/ /\ ObjectState(k) = "condemned" /\ ObjectState(k)' = "absent"
     /\ InstanceState(k) # "made" /\ InstanceState(k)' = "none"

Objects   == [k \in Keys |-> ObjectState(k)]
Instances == [k \in Keys |-> InstanceState(k)]

\* A step that is one of the lifecycle for one object, and none for the others.
LEMMA OneLife ==
  ASSUME NEW k \in Keys, Lives(k), \A j \in Keys \ {k} : Still(j)
  PROVE  [Lifecycle!Next]_(Lifecycle!vars)
<1>1. /\ Objects' = [Objects EXCEPT ![k] = ObjectState(k)']
      /\ Instances' = [Instances EXCEPT ![k] = InstanceState(k)']
      /\ Objects[k] = ObjectState(k) /\ Instances[k] = InstanceState(k)
  BY DEF Objects, Instances, Still
<1>2. /\ ObjectState(k)' = ObjectState(k) => Objects' = Objects
      /\ InstanceState(k)' = InstanceState(k) => Instances' = Instances
  BY <1>1 DEF Objects, Instances
<1>3. CASE Still(k)
  BY <1>2, <1>3 DEF Still, Lifecycle!vars, Objects, Instances
<1> QED BY <1>1, <1>2, <1>3
     DEF Lives, Objects, Instances, Lifecycle!Next, Lifecycle!Create, Lifecycle!Protect,
         Lifecycle!Make, Lifecycle!Condemn, Lifecycle!Doom, Lifecycle!Lose,
         Lifecycle!Release, Lifecycle!Become
-----------------------------------------------------------------------------
(* How the object that is stored changes.                                  *)

\* The object e takes the place of the one that is stored for k.
Puts(k, e) == Live(k)' = e /\ \A j \in Keys \ {k} : Live(j)' = Live(j)

LEMMA AppendPuts ==
  ASSUME TypeOK, NEW k \in Keys, NEW e \in Object \cup {None},
         log' = [log EXCEPT ![k] = Append(@, e)]
  PROVE  Puts(k, e)
<1>1. log[k] \in Seq(Object \cup {None}) /\ log[k] # <<>>
  BY LogType
<1>2. log'[k] = Append(log[k], e) /\ \A j \in Keys \ {k} : log'[j] = log[j]
  BY DEF TypeOK
<1>3. Live(k)' = e
  BY <1>1, <1>2, AppendFacts DEF Live
<1> QED BY <1>2, <1>3 DEF Puts, Live

LEMMA StorePuts ==
  ASSUME TypeOK, NEW k \in Keys, NEW e \in Object \cup {None}, Store(k, e)
  PROVE  Puts(k, e)
<1>1. CASE e = Live(k)
  BY <1>1 DEF Store, TypeOK, Puts, Live
<1>2. CASE e # Live(k)
  BY <1>2, AppendPuts DEF Store
<1> QED BY <1>1, <1>2

\* What e has to do with the object it replaces.  A user creates it, or
\* deletes the one that is stored, whether it is protected or not ...
Created(k, e) ==
  /\ Live(k) = None /\ e # None /\ ~e.fin /\ ~e.del /\ e.name \in Names /\ ~Exists(e.name)
Sentenced(k, e) ==
  /\ Live(k) # None /\ e # None /\ Same(Live(k), e) /\ Live(k).fin /\ e.fin /\ e.del
Dropped(k, e) == Live(k) # None /\ ~Live(k).fin /\ e = None

\* ... or it is edited, maybe protected, or goes when the controller lets go
\* of it.
Edited(k, e) ==
  /\ Live(k) # None /\ e # None /\ Same(Live(k), e)
  /\ e.fin = Live(k).fin \/ (e.fin /\ ~Live(k).fin)
  /\ e.del = Live(k).del
LetGo(k, e) ==
  /\ At("RemoveFinalizer") /\ k = w.key
  /\ Live(k) # None /\ Live(k).fin /\ Live(k).del /\ e = None

Revises(k, e) == e = Live(k) \/ Edited(k, e) \/ LetGo(k, e)
Replaces(k, e) == Revises(k, e) \/ Created(k, e) \/ Sentenced(k, e) \/ Dropped(k, e)

\* What the log does in a step.
RevisionStep ==
  \/ \A k \in Keys : Live(k)' = Live(k)
  \/ \E k \in Keys, e \in Object \cup {None} : Revises(k, e) /\ Puts(k, e)
LogStep ==
  \/ \A k \in Keys : Live(k)' = Live(k)
  \/ \E k \in Keys, e \in Object \cup {None} : Replaces(k, e) /\ Puts(k, e)

LEMMA UserStep ==
  ASSUME TypeOK, NEW k \in Keys, UserCreate(k) \/ UserDelete(k)
  PROVE  LogStep
<1>1. PICK e \in Object \cup {None} : Replaces(k, e) /\ UserWrite(k, e)
  <2>1. CASE UserCreate(k)
    <3> DEFINE blank(n, s) ==
          [uid |-> used.uids + 1, name |-> n, s |-> s, paused |-> FALSE,
           del |-> FALSE, fin |-> FALSE, conn |-> FALSE,
           conds |-> [created |-> "", ready |-> "", upToDate |-> ""]]
    <3>1. PICK n \in Names, s \in Settings :
            GetReply(n) = NotFound /\ UserWrite(k, blank(n, s))
      BY <2>1 DEF UserCreate
    <3>2. used.uids + 1 \in Uid
      <4>1. used.uids \in 0 .. MaxUid
        BY DEF TypeOK
      <4> QED BY <4>1, BoundsType DEF Uid
    <3>3. blank(n, s) \in Object
      BY <3>2 DEF Object, Conditions
    <3>4. ~Exists(n)
      <4>1. 200 # 404
        OBVIOUS
      <4> QED BY <3>1, <4>1, Zenon DEF GetReply, Ok, NotFound
    <3>5. Live(k) = None
      BY <2>1 DEF UserCreate
    <3>6. ~blank(n, s).fin /\ ~blank(n, s).del /\ blank(n, s).name = n
      OBVIOUS
    <3> HIDE DEF blank
    <3>7. blank(n, s) # None
      BY <3>3, ObjectAssumption
    <3>8. Created(k, blank(n, s))
      BY <3>4, <3>5, <3>6, <3>7 DEF Created
    <3> QED BY <3>1, <3>3, <3>8 DEF Replaces
  <2>2. CASE UserDelete(k)
    <3> DEFINE e == [Live(k) EXCEPT !.del = TRUE]
    <3>1. Live(k) \in Object /\ Live(k) # None
      BY <2>2, LiveType DEF UserDelete
    <3>2. e \in Object /\ e.fin = Live(k).fin /\ e.del /\ Same(Live(k), e)
      BY <3>1 DEF Object, Same
    <3>3. \/ Live(k).fin /\ UserWrite(k, e)
          \/ ~Live(k).fin /\ UserWrite(k, None)
      BY <2>2 DEF UserDelete
    <3> HIDE DEF e
    <3>4. Live(k).fin => Sentenced(k, e)
      BY <3>1, <3>2, ObjectAssumption DEF Sentenced
    <3>5. ~Live(k).fin => Dropped(k, None)
      BY <3>1 DEF Dropped
    <3> QED BY <3>2, <3>3, <3>4, <3>5 DEF Replaces
  <2> QED BY <2>1, <2>2
<1> QED BY <1>1, AppendPuts DEF UserWrite, LogStep

LEMMA EditStep ==
  ASSUME TypeOK, NEW k \in Keys, UserEdit(k) \/ UserAnnotate(k)
  PROVE  RevisionStep
<1>1. PICK e \in Object \cup {None} : Revises(k, e) /\ UserWrite(k, e)
  <2>1. CASE UserEdit(k)
    <3>1. Live(k) \in Object /\ Live(k) # None
      BY <2>1, LiveType DEF UserEdit
    <3>2. /\ \A s \in Settings : /\ [Live(k) EXCEPT !.s = s] \in Object
                                 /\ [Live(k) EXCEPT !.s = s].fin = Live(k).fin
                                 /\ [Live(k) EXCEPT !.s = s].del = Live(k).del
                                 /\ Same(Live(k), [Live(k) EXCEPT !.s = s])
          /\ [Live(k) EXCEPT !.paused = ~@] \in Object
          /\ [Live(k) EXCEPT !.paused = ~@].fin = Live(k).fin
          /\ [Live(k) EXCEPT !.paused = ~@].del = Live(k).del
          /\ Same(Live(k), [Live(k) EXCEPT !.paused = ~@])
      BY <3>1 DEF Object, Same
    <3>3. PICK e \in Object : /\ UserWrite(k, e) /\ Same(Live(k), e)
                              /\ e.fin = Live(k).fin /\ e.del = Live(k).del
      BY <2>1, <3>2 DEF UserEdit
    <3> QED BY <3>1, <3>3, ObjectAssumption DEF Revises, Edited
  <2>2. CASE UserAnnotate(k)
    <3>1. Live(k) \in Object /\ UserWrite(k, Live(k))
      BY <2>2, LiveType DEF UserAnnotate
    <3> QED BY <3>1 DEF Revises
  <2> QED BY <2>1, <2>2
<1> QED BY <1>1, AppendPuts DEF UserWrite, RevisionStep

\* The finalizer is removed only from an object that is being deleted.
LEMMA LettingGo ==
  ASSUME OrphanInv, Tidy, At("RemoveFinalizer"), Live(w.key) # None
  PROVE  IF Live(w.key).del THEN Live(w.key).fin ELSE ~Live(w.key).fin
<1>1. PICK k \in Keys : k = w.key
  BY CriticalKey DEF OrphanInv, Critical, At
<1>2. Live(k).del => Live(k).fin
  BY <1>1 DEF Tidy
<1>3. Doomed(log[k], w.i)
  BY <1>1 DEF OrphanInv, Deleting, At
<1>4. Len(log[k]) \in 1 .. Len(log[k])
  BY LogType DEF OrphanInv
<1>5. Live(k).fin => Live(k).del
  <2>1. ASSUME Live(k).fin PROVE Condemned(Live(k))
    <3>1. Protected(log[k][Len(log[k])])
      BY <1>1, <2>1 DEF Protected, Live
    <3>2. Len(log[k]) <= Len(log[k])
      BY <1>4
    <3> QED BY <1>3, <1>4, <3>1, <3>2 DEF Doomed, Live
  <2> QED BY <2>1 DEF Condemned
<1> QED BY <1>1, <1>2, <1>5

LEMMA ControllerStep ==
  ASSUME OrphanInv, Tidy, AddFinalizer \/ PatchStatus \/ RemoveFinalizer
  PROVE  RevisionStep
<1>0. TypeOK
  BY DEF OrphanInv
<1>1. Busy(w) /\ w.key \in Keys
  BY <1>0, BusyType DEF AddFinalizer, PatchStatus, RemoveFinalizer, At, Busy
<1> DEFINE live == Live(w.key)
<1>2. live \in Object \cup {None}
  BY <1>0, <1>1, LiveType
<1>3. \/ UNCHANGED log
      \/ \E e \in Object \cup {None} : Revises(w.key, e) /\ Store(w.key, e)
  <2>1. CASE AddFinalizer
    <3>1. UNCHANGED log \/ (live # None /\ Store(w.key, [live EXCEPT !.fin = TRUE]))
      <4>1. PICK o \in Outcomes(IF live = None THEN NotFound ELSE Ok) :
              IF o.applied THEN Store(w.key, [live EXCEPT !.fin = TRUE]) ELSE UNCHANGED log
        BY <2>1 DEF AddFinalizer
      <4> QED BY <4>1, OutcomeFacts DEF NotFound, Ok
    <3> DEFINE e == [live EXCEPT !.fin = TRUE]
    <3>2. live \in Object => /\ e \in Object /\ e.fin /\ e.del = live.del
                             /\ Same(live, e) /\ live.fin \in BOOLEAN
      BY DEF Object, Same
    <3> HIDE DEF e
    <3>3. live # None => Edited(w.key, e)
      BY <1>2, <3>2, ObjectAssumption DEF Edited
    <3>4. live # None => e \in Object
      BY <1>2, <3>2
    <3>5. UNCHANGED log \/ (live # None /\ Store(w.key, e))
      BY <3>1 DEF e
    <3> QED BY <3>3, <3>4, <3>5 DEF Revises
  <2>2. CASE PatchStatus
    <3>1. PICK list \in BOOLEAN :
            UNCHANGED log \/ (live # None /\ Store(w.key, Patched(live, list)))
      <4> DEFINE reply == IF live = None THEN NotFound
                          ELSE IF w.rv = "outdated" THEN Conflict ELSE Ok
      <4>1. PICK list \in BOOLEAN :
              \/ UNCHANGED log
              \/ \E o \in Outcomes(reply) :
                   IF o.applied THEN Store(w.key, Patched(live, list)) ELSE UNCHANGED log
        BY <2>2 DEF PatchStatus, ListSent
      <4> QED BY <4>1, OutcomeFacts DEF NotFound, Ok
    <3>2. w.p \in Object
      BY <1>1 DEF Busy
    <3> DEFINE e == Patched(live, list)
    <3>3. live \in Object => /\ e \in Object /\ e.fin = live.fin /\ e.del = live.del
                             /\ Same(live, e)
      BY <3>2 DEF Patched, Object, Same
    <3> HIDE DEF e
    <3>4. live # None => e \in Object /\ Edited(w.key, e)
      BY <1>2, <3>3, ObjectAssumption DEF Edited
    <3>5. UNCHANGED log \/ (live # None /\ Store(w.key, e))
      BY <3>1 DEF e
    <3> QED BY <3>4, <3>5 DEF Revises
  <2>3. CASE RemoveFinalizer
    <3>1. UNCHANGED log \/ (live # None /\ Store(w.key, Released(live)))
      <4>1. PICK o \in Outcomes(IF live = None THEN NotFound ELSE Ok) :
              IF o.applied THEN Store(w.key, Released(live)) ELSE UNCHANGED log
        BY <2>3 DEF RemoveFinalizer
      <4> QED BY <4>1, OutcomeFacts DEF NotFound, Ok
    <3>2. At("RemoveFinalizer")
      BY <2>3 DEF RemoveFinalizer
    <3>3. ASSUME live # None, live.del PROVE Revises(w.key, Released(live)) /\ Released(live) = None
      <4>1. live.fin
        BY <3>2, <3>3, LettingGo
      <4>2. Released(live) = None
        BY <3>3 DEF Released
      <4>3. LetGo(w.key, None)
        BY <3>2, <3>3, <4>1 DEF LetGo
      <4> QED BY <4>2, <4>3 DEF Revises
    <3>4. ASSUME live # None, ~live.del
          PROVE  Revises(w.key, Released(live)) /\ Released(live) \in Object
      <4> DEFINE e == Released(live)
      <4>1. ~live.fin
        BY <3>2, <3>4, LettingGo
      <4>2. e \in Object /\ e.fin = FALSE /\ e.del = live.del /\ Same(live, e) /\ live.fin \in BOOLEAN
        BY <1>2, <3>4 DEF Released, Object, Same
      <4> HIDE DEF e
      <4>3. Edited(w.key, e)
        BY <3>4, <4>1, <4>2, ObjectAssumption DEF Edited
      <4>4. e = Released(live)
        BY DEF e
      <4> QED BY <4>2, <4>3, <4>4 DEF Revises
    <3> QED BY <3>1, <3>3, <3>4
  <2> QED BY <2>1, <2>2, <2>3
<1>4. CASE UNCHANGED log
  BY <1>4 DEF RevisionStep, Live
<1>5. ASSUME NEW e \in Object \cup {None}, Revises(w.key, e), Store(w.key, e)
      PROVE  RevisionStep
  BY <1>0, <1>1, <1>5, StorePuts DEF RevisionStep
<1> QED BY <1>3, <1>4, <1>5

\* What is done to objects by anybody but the users who create or delete them.
Unbidden ==
  \/ Continue \/ Crash
  \/ \E k \in Keys : \/ StartSync(k) \/ Deliver(k) \/ Resync(k)
                     \/ CollectSecret(k) \/ UserEdit(k) \/ UserAnnotate(k)
  \/ \E n \in Names : \/ CloudFinish(n) \/ CloudRelease(n)
                      \/ CloudFail(n) \/ CloudDrift(n)

LEMMA RevisionSteps ==
  ASSUME OrphanInv, Tidy, Unbidden \/ UNCHANGED vars
  PROVE  RevisionStep
<1>0. TypeOK
  BY DEF OrphanInv
<1>1. CASE UNCHANGED log
  BY <1>1 DEF RevisionStep, Live
<1>2. CASE Restart
  BY <1>2 DEF Restart, RevisionStep, Live
<1>3. ASSUME NEW k \in Keys, Deliver(k) PROVE RevisionStep
  <2>1. Live(k)' = Live(k)
    <3>1. log'[k] = Tail(log[k]) \/ log'[k] = <<Live(k)>>
      BY <1>0, <1>3 DEF Deliver, TypeOK
    <3>2. log[k] \in Seq(Object \cup {None}) /\ log[k] # <<>>
      BY <1>0, LogType
    <3>3. CASE log'[k] = <<Live(k)>>
      BY <3>3 DEF Live
    <3>4. CASE log'[k] = Tail(log[k])
      <4>1. Len(log[k]) > 1
        BY <1>3 DEF Deliver
      <4> QED BY <3>2, <3>4, <4>1 DEF Live
    <3> QED BY <3>1, <3>3, <3>4
  <2>2. \A j \in Keys \ {k} : log'[j] = log[j]
    BY <1>0, <1>3 DEF Deliver, TypeOK
  <2> QED BY <2>1, <2>2 DEF RevisionStep, Live
<1>4. CASE Continue
  BY <1>1, <1>2, <1>4, ControllerStep
     DEF Continue, GetInstance, InsertInstance, GetNewInstance, ListOperations, GetSecret,
         CreateSecret, SetPassword, PutSecret, SkipUpdate, UpdateInstance,
         GetUpdatedInstance, DeleteGet, DeleteInstance, Panic
<1>5. ASSUME NEW k \in Keys, StartSync(k) \/ Resync(k) \/ CollectSecret(k) PROVE UNCHANGED log
  BY <1>5 DEF StartSync, Resync, CollectSecret
<1>6. ASSUME NEW n \in Names,
             CloudFinish(n) \/ CloudRelease(n) \/ CloudFail(n) \/ CloudDrift(n)
      PROVE  UNCHANGED log
  BY <1>6 DEF CloudFinish, CloudRelease, CloudFail, CloudDrift
<1> QED BY <1>0, <1>1, <1>2, <1>3, <1>4, <1>5, <1>6, EditStep DEF Unbidden, Crash, vars

LEMMA LogSteps ==
  ASSUME OrphanInv, Tidy, [Next]_vars
  PROVE  LogStep
<1>1. CASE Unbidden \/ UNCHANGED vars
  BY <1>1, RevisionSteps DEF RevisionStep, LogStep, Replaces
<1>2. CASE \E k \in Keys : UserCreate(k) \/ UserDelete(k)
  BY <1>2, UserStep DEF OrphanInv
<1> QED BY <1>1, <1>2 DEF Next, Environment, Unbidden
-----------------------------------------------------------------------------
(* How instances change.                                                   *)

\* What happens to an instance: it keeps its owner, or has none any more; the
\* operator's request to delete it is accepted; or it is created.
Owned(n) == cloud'[n].by = cloud[n].by /\ cloud'[n].asked = cloud[n].asked
Freed(n) == cloud'[n].by = None
Asked(n) == DeleteInstance /\ cloud'[n].by = cloud[n].by /\ cloud'[n].asked
MadeNow(n) ==
  /\ At("Insert") /\ n = Name /\ cloud[n].by = None
  /\ cloud'[n].by = <<w.key, w.p.uid>> /\ ~cloud'[n].asked

CloudStep ==
  \/ UNCHANGED cloud
  \/ /\ UNCHANGED log
     /\ \E n \in Names : /\ \A m \in Names \ {n} : cloud'[m] = cloud[m]
                         /\ Owned(n) \/ Freed(n) \/ Asked(n) \/ MadeNow(n)

\* One instance changes, and becomes c.
LEMMA OneChange ==
  ASSUME TypeOK, NEW n \in Names, NEW c, cloud' = [cloud EXCEPT ![n] = c], UNCHANGED log,
         \/ c.by = None
         \/ c.by = cloud[n].by /\ (c.asked = cloud[n].asked \/ (DeleteInstance /\ c.asked))
         \/ /\ At("Insert") /\ n = Name /\ cloud[n].by = None
            /\ c.by = <<w.key, w.p.uid>> /\ ~c.asked
  PROVE  CloudStep
<1>1. cloud'[n] = c /\ \A m \in Names \ {n} : cloud'[m] = cloud[m]
  BY DEF TypeOK
<1>2. Owned(n) \/ Freed(n) \/ Asked(n) \/ MadeNow(n)
  BY <1>1 DEF Owned, Freed, Asked, MadeNow
<1> QED BY <1>1, <1>2 DEF CloudStep

LEMMA CloudSteps ==
  ASSUME OrphanInv, [Next]_vars
  PROVE  CloudStep
<1>0. TypeOK /\ Vacant
  BY DEF OrphanInv
<1>1. CASE UNCHANGED cloud
  BY <1>1 DEF CloudStep
<1>2. \A st : Gone(st).by = None
  BY DEF Gone
<1>3. ASSUME NEW n \in Names, Finish(n) \/ Fail(n) \/ Release(n) \/ OutOfBand(n), UNCHANGED log
      PROVE  CloudStep
  <2>1. cloud[n] \in Instance(Keys \X Uid)
    BY <1>0 DEF TypeOK
  <2>2. CASE Finish(n)
    <3> DEFINE c == [cloud[n] EXCEPT !.op = "Done", !.st = IF @ = "Pending" THEN "Runnable" ELSE @]
    <3>1. \/ cloud' = [cloud EXCEPT ![n] = Gone("Reserved")]
          \/ cloud' = [cloud EXCEPT ![n] = c]
      BY <1>0, <2>2 DEF Finish, TypeOK
    <3>2. c.by = cloud[n].by /\ c.asked = cloud[n].asked
      BY <2>1 DEF Instance
    <3> HIDE DEF c
    <3> QED BY <1>0, <1>2, <1>3, <3>1, <3>2, OneChange
  <2>3. CASE Fail(n)
    <3> DEFINE c == [cloud[n] EXCEPT !.op = "Failed", !.st = IF @ = "Deleting" THEN "Runnable" ELSE @]
    <3>1. cloud' = [cloud EXCEPT ![n] = c]
      BY <1>0, <2>3 DEF Fail, TypeOK
    <3>2. c.by = cloud[n].by /\ c.asked = cloud[n].asked
      BY <2>1 DEF Instance
    <3> HIDE DEF c
    <3> QED BY <1>0, <1>3, <3>1, <3>2, OneChange
  <2>4. CASE Release(n)
    BY <1>0, <1>2, <1>3, <2>4, OneChange DEF Release
  <2>5. CASE OutOfBand(n)
    <3>1. CASE \E s \in Settings : cloud' = [cloud EXCEPT ![n].s = s]
      <4>1. PICK s \in Settings : cloud' = [cloud EXCEPT ![n].s = s]
        BY <3>1
      <4> DEFINE c == [cloud[n] EXCEPT !.s = s]
      <4>2. cloud' = [cloud EXCEPT ![n] = c]
        BY <1>0, <4>1 DEF TypeOK
      <4>3. c.by = cloud[n].by /\ c.asked = cloud[n].asked
        BY <2>1 DEF Instance
      <4> HIDE DEF c
      <4> QED BY <1>0, <1>3, <4>2, <4>3, OneChange
    <3>2. CASE \E st \in {"Runnable", "Stopped"} :
                 cloud' = [cloud EXCEPT ![n].st = st, ![n].op = "Done"]
      <4>1. PICK st \in {"Runnable", "Stopped"} :
              cloud' = [cloud EXCEPT ![n].st = st, ![n].op = "Done"]
        BY <3>2
      <4> DEFINE c == [cloud[n] EXCEPT !.st = st, !.op = "Done"]
      <4>2. cloud' = [cloud EXCEPT ![n] = c]
        BY <1>0, <4>1 DEF TypeOK
      <4>3. c.by = cloud[n].by /\ c.asked = cloud[n].asked
        BY <2>1 DEF Instance
      <4> HIDE DEF c
      <4> QED BY <1>0, <1>3, <4>2, <4>3, OneChange
    <3>3. CASE cloud' = [cloud EXCEPT ![n] = Gone("Reserved")]
      BY <1>0, <1>2, <1>3, <3>3, OneChange
    <3>4. CASE \E s \in Settings :
                 cloud' = [cloud EXCEPT ![n] = [Gone("Runnable") EXCEPT !.s = s]]
      <4>1. PICK s \in Settings :
              cloud' = [cloud EXCEPT ![n] = [Gone("Runnable") EXCEPT !.s = s]]
        BY <3>4
      <4>2. [Gone("Runnable") EXCEPT !.s = s].by = None
        BY DEF Gone
      <4> QED BY <1>0, <1>3, <4>1, <4>2, OneChange
    <3> QED BY <2>5, <3>1, <3>2, <3>3, <3>4 DEF OutOfBand
  <2> QED BY <1>3, <2>2, <2>3, <2>4, <2>5
<1>4. CASE InsertInstance \/ UpdateInstance \/ SetPassword \/ DeleteInstance
  <2>1. Name \in Names /\ UNCHANGED log
    BY <1>0, <1>4, BusyType
       DEF InsertInstance, UpdateInstance, SetPassword, DeleteInstance, At
  <2>2. cloud[Name] \in Instance(Keys \X Uid)
    BY <1>0, <2>1 DEF TypeOK
  <2>3. CASE InsertInstance
    <3> DEFINE c == [st |-> "Pending", s |-> w.p.s, op |-> "Running",
                     pw |-> None, by |-> <<w.key, w.p.uid>>, asked |-> FALSE]
    <3>1. PICK o \in Outcomes(InsertReply(Name, w.p.s)) :
            cloud' = IF o.applied THEN [cloud EXCEPT ![Name] = c] ELSE cloud
      BY <2>3 DEF InsertInstance, Inserted
    <3>2. c.by = <<w.key, w.p.uid>> /\ ~c.asked
      OBVIOUS
    <3> HIDE DEF c
    <3>3. o.applied => cloud[Name].by = None
      <4>1. o.applied => cloud[Name].st = "Absent"
        BY OutcomeFacts DEF InsertReply, Ok, BadRequest, Conflict
      <4> QED BY <1>0, <2>1, <4>1 DEF Vacant, Exists
    <3>4. At("Insert")
      BY <2>3 DEF InsertInstance
    <3> QED BY <1>0, <1>1, <2>1, <3>1, <3>2, <3>3, <3>4, OneChange
  <2>4. CASE UpdateInstance
    <3> DEFINE c == [cloud[Name] EXCEPT !.s = w.p.s, !.st = "Runnable", !.op = "Running"]
    <3>1. UNCHANGED cloud \/ cloud' = [cloud EXCEPT ![Name] = c]
      BY <1>0, <2>1, <2>4 DEF UpdateInstance, Updated, TypeOK
    <3>2. c.by = cloud[Name].by /\ c.asked = cloud[Name].asked
      BY <2>2 DEF Instance
    <3> HIDE DEF c
    <3> QED BY <1>0, <1>1, <2>1, <3>1, <3>2, OneChange
  <2>5. CASE SetPassword
    <3>1. PICK pw \in Passwords, op \in {"Running", "Done"} :
            UNCHANGED cloud \/ cloud' = UserUpdated(Name, pw, op)
      BY <2>5 DEF SetPassword
    <3> DEFINE c == [cloud[Name] EXCEPT !.pw = pw, !.op = op]
    <3>2. UNCHANGED cloud \/ cloud' = [cloud EXCEPT ![Name] = c]
      BY <1>0, <2>1, <3>1 DEF UserUpdated, TypeOK
    <3>3. c.by = cloud[Name].by /\ c.asked = cloud[Name].asked
      BY <2>2 DEF Instance
    <3> HIDE DEF c
    <3> QED BY <1>0, <1>1, <2>1, <3>2, <3>3, OneChange
  <2>6. CASE DeleteInstance
    <3> DEFINE c == [cloud[Name] EXCEPT !.st = "Deleting", !.op = "Running", !.asked = TRUE]
    <3>1. UNCHANGED cloud \/ cloud' = [cloud EXCEPT ![Name] = c]
      BY <1>0, <2>1, <2>6 DEF DeleteInstance, Deleted, TypeOK
    <3>2. c.by = cloud[Name].by /\ c.asked
      BY <2>2 DEF Instance
    <3> HIDE DEF c
    <3> QED BY <1>0, <1>1, <2>1, <2>6, <3>1, <3>2, OneChange
  <2> QED BY <1>4, <2>3, <2>4, <2>5, <2>6
<1>5. CASE Continue
  BY <1>1, <1>4, <1>5
     DEF Continue, AddFinalizer, GetInstance, GetNewInstance, ListOperations, GetSecret,
         CreateSecret, PutSecret, SkipUpdate, GetUpdatedInstance, PatchStatus, DeleteGet,
         RemoveFinalizer, Panic, Restart
<1>6. CASE Environment
  BY <1>1, <1>3, <1>6
     DEF Environment, Crash, Restart, Deliver, Resync, CollectSecret, UserCreate, UserEdit,
         UserAnnotate, UserDelete, UserWrite, CloudFinish, CloudRelease, CloudFail, CloudDrift
<1>7. ASSUME NEW k \in Keys, StartSync(k) PROVE UNCHANGED cloud
  BY <1>7 DEF StartSync
<1> QED BY <1>1, <1>5, <1>6, <1>7 DEF Next, vars
-----------------------------------------------------------------------------
(* The invariant.                                                          *)

LEMMA OwnerFact == \A k \in Keys : \A u \in Uid : <<k, u>> # None
BY OwnerAssumption

LEMMA LiveUid ==
  ASSUME TypeOK, NEW k \in Keys, Live(k) # None
  PROVE  Live(k) \in Object /\ Live(k).uid \in Uid /\ Live(k).name \in Names
BY LiveType DEF Object

LEMMA TidyNext ==
  ASSUME Tidy, LogStep
  PROVE  Tidy'
<1>1. CASE \A k \in Keys : Live(k)' = Live(k)
  BY <1>1 DEF Tidy
<1>2. ASSUME NEW k \in Keys, NEW e, Replaces(k, e), Puts(k, e) PROVE Tidy'
  <2>1. e # None /\ e.del => e.fin
    BY <1>2 DEF Replaces, Revises, Created, Sentenced, Edited, Dropped, LetGo, Tidy
  <2> QED BY <1>2, <2>1 DEF Puts, Tidy
<1> QED BY <1>1, <1>2 DEF LogStep

LEMMA UnmadeNext ==
  ASSUME OrphanInv, Unmade, LogStep, CloudStep
  PROVE  Unmade'
<1>0. TypeOK /\ Vacant
  BY DEF OrphanInv
<1> SUFFICES ASSUME NEW k \in Keys, Live(k)' # None, ~Live(k)'.fin,
                    cloud'[Live(k)'.name].by = <<k, Live(k)'.uid>>
             PROVE  FALSE
  BY DEF Unmade, MadeFor
<1>1. CASE Live(k)' = Live(k)
  <2>1. cloud[Live(k).name].by # <<k, Live(k).uid>> /\ ~Protected(Live(k))
    BY <1>1 DEF Unmade, MadeFor, Protected
  <2>2. cloud # cloud'
    BY <1>1, <2>1
  <2>3. PICK n \in Names : /\ \A m \in Names \ {n} : cloud'[m] = cloud[m]
                           /\ Owned(n) \/ Freed(n) \/ Asked(n) \/ MadeNow(n)
    BY <2>2 DEF CloudStep
  <2>4. Live(k).uid \in Uid /\ Live(k).name \in Names
    BY <1>0, <1>1, LiveUid
  <2>5. n = Live(k).name
    BY <1>1, <2>1, <2>3, <2>4
  <2>6. ~Freed(n)
    BY <1>1, <2>4, <2>5, OwnerFact DEF Freed
  <2>7. MadeNow(n)
    BY <1>1, <2>1, <2>3, <2>5, <2>6 DEF Owned, Asked
  <2>8. k = w.key
    BY <1>1, <2>5, <2>7 DEF MadeNow
  <2> QED BY <2>1, <2>7, <2>8 DEF MadeNow, At, OrphanInv, Creating
<1>2. CASE Live(k)' # Live(k)
  <2>1. UNCHANGED cloud
    BY <1>2 DEF CloudStep, Live
  <2>2. PICK e \in Object \cup {None} : Replaces(k, e) /\ Live(k)' = e
    BY <1>2 DEF LogStep, Puts
  <2>3. CASE Created(k, e)
    <3>1. cloud[e.name].by = None
      BY <1>0, <2>3 DEF Created, Vacant
    <3>2. e \in Object
      BY <2>2, <2>3 DEF Created
    <3> QED BY <2>1, <2>2, <3>1, <3>2, OwnerFact DEF Object
  <2>4. CASE Edited(k, e)
    BY <2>1, <2>2, <2>4 DEF Edited, Same, Unmade, MadeFor
  <2> QED BY <1>2, <2>2, <2>3, <2>4 DEF Replaces, Revises, Sentenced, Dropped, LetGo
<1> QED BY <1>1, <1>2
-----------------------------------------------------------------------------
(* Every step is one of the lifecycle.                                     *)

LEMMA Fates == OrphanInv => \A k \in Keys : InstanceState(k) = Fate(k)
BY FateOfInstance

LEMMA FatesNext == OrphanInv' => \A k \in Keys : InstanceState(k)' = Fate(k)'
<1>1. OrphanInv' => (\A k \in Keys : InstanceState(k) = Fate(k))'
  BY Fates, PTL
<1> QED BY <1>1

\* What the other objects do when only the object of k changes.
LEMMA LogOthers ==
  ASSUME UNCHANGED cloud, NEW j, Live(j)' = Live(j)
  PROVE  ObjectState(j)' = ObjectState(j) /\ Fate(j)' = Fate(j)
BY DEF ObjectState, Fate, MadeFor

LEMMA LogLife ==
  ASSUME LifecycleInv, OrphanInv', UNCHANGED cloud, LogStep
  PROVE  [Lifecycle!Next]_(Lifecycle!vars)
<1>0. OrphanInv /\ TypeOK /\ Vacant /\ Tidy /\ Unmade
  BY DEF LifecycleInv, AgreementInv, OrphanInv
<1>1. \A k \in Keys : InstanceState(k) = Fate(k) /\ InstanceState(k)' = Fate(k)'
  BY <1>0, Fates, FatesNext
<1>2. CASE \A k \in Keys : Live(k)' = Live(k)
  <2>1. \A k \in Keys : Still(k)
    BY <1>1, <1>2, LogOthers DEF Still
  <2>2. Objects' = Objects /\ Instances' = Instances
    BY <2>1 DEF Still, Objects, Instances
  <2> QED BY <2>2 DEF Objects, Instances, Lifecycle!vars
<1>3. ASSUME NEW k \in Keys, NEW e \in Object \cup {None}, Replaces(k, e), Puts(k, e)
      PROVE  [Lifecycle!Next]_(Lifecycle!vars)
  <2>1. \A j \in Keys \ {k} : Still(j)
    BY <1>1, <1>3, LogOthers DEF Puts, Still
  <2>2. Live(k)' = e
    BY <1>3 DEF Puts
  <2>3. CASE e = Live(k)
    <3>1. Still(k)
      BY <1>1, <2>2, <2>3, LogOthers DEF Still
    <3> QED BY <2>1, <3>1, OneLife DEF Lives
  <2>4. CASE Created(k, e)
    <3>1. cloud[e.name].by = None /\ <<k, e.uid>> # None
      BY <1>0, <2>4, OwnerFact DEF Created, Vacant, Object
    <3>2. Fate(k) = "none" /\ Fate(k)' = "none"
      BY <2>2, <2>4, <3>1 DEF Created, Fate, MadeFor
    <3>3. ObjectState(k) = "absent" /\ ObjectState(k)' = "plain"
      BY <2>2, <2>4 DEF Created, ObjectState
    <3> QED BY <1>1, <2>1, <3>2, <3>3, OneLife DEF Lives
  <2>5. CASE Edited(k, e)
    <3>1. Fate(k)' = Fate(k)
      BY <2>2, <2>5 DEF Edited, Same, Fate, MadeFor
    <3>2. \/ ObjectState(k)' = ObjectState(k)
          \/ ObjectState(k) = "plain" /\ ObjectState(k)' = "protected"
      BY <1>0, <2>2, <2>5 DEF Edited, ObjectState, Tidy
    <3> QED BY <1>1, <2>1, <3>1, <3>2, OneLife DEF Lives, Still
  <2>6. CASE Dropped(k, e)
    <3>1. Fate(k) = "none" /\ Fate(k)' = "none"
      BY <1>0, <2>2, <2>6 DEF Dropped, Fate, Unmade
    <3>2. ObjectState(k) = "plain" /\ ObjectState(k)' = "absent"
      BY <2>2, <2>6 DEF Dropped, ObjectState
    <3> QED BY <1>1, <2>1, <3>1, <3>2, OneLife DEF Lives
  <2>7. CASE LetGo(k, e)
    <3>1. Fate(k) # "made"
      <4>1. SUFFICES ASSUME MadeFor(Live(k).name, k, Live(k)), ~cloud[Live(k).name].asked
                     PROVE  FALSE
        BY DEF Fate
      <4>2. Live(k).name \in Names /\ cloud[Live(k).name].by = <<k, Live(k).uid>>
            /\ <<k, Live(k).uid>> # None
        BY <1>0, <2>7, <4>1, LiveUid, OwnerFact DEF LetGo, MadeFor
      <4> QED BY <1>0, <2>7, <4>1, <4>2 DEF OrphanInv, Cleared, LetGo
    <3>2. Fate(k)' = "none"
      BY <2>2, <2>7 DEF LetGo, Fate
    <3>3. ObjectState(k) = "condemned" /\ ObjectState(k)' = "absent"
      BY <2>2, <2>7 DEF LetGo, ObjectState
    <3> QED BY <1>1, <2>1, <3>1, <3>2, <3>3, OneLife DEF Lives
  <2>8. CASE Sentenced(k, e)
    <3>1. Fate(k)' = Fate(k)
      BY <2>2, <2>8 DEF Sentenced, Same, Fate, MadeFor
    <3>2. \/ ObjectState(k)' = ObjectState(k)
          \/ ObjectState(k) = "protected" /\ ObjectState(k)' = "condemned"
      BY <2>2, <2>8 DEF Sentenced, ObjectState
    <3> QED BY <1>1, <2>1, <3>1, <3>2, OneLife DEF Lives, Still
  <2> QED BY <1>3, <2>3, <2>4, <2>5, <2>6, <2>7, <2>8 DEF Replaces, Revises
<1> QED BY <1>2, <1>3 DEF LogStep

\* What an object does when its instance does not change.
LEMMA CloudOthers ==
  ASSUME NEW j, Live(j)' = Live(j), NEW n,
         \A m \in Names \ {n} : cloud'[m] = cloud[m],
         Live(j) # None => Live(j).name \in Names,
         Live(j) # None /\ <<j, Live(j).uid>> \in {cloud[n].by, cloud'[n].by} => Owned(n)
  PROVE  ObjectState(j)' = ObjectState(j) /\ Fate(j)' = Fate(j)
<1>1. ObjectState(j)' = ObjectState(j)
  BY DEF ObjectState
<1>2. CASE Live(j) = None
  <2>1. Fate(j) = "none" /\ Fate(j)' = "none"
    BY <1>2 DEF Fate
  <2> QED BY <1>1, <2>1
<1>3. CASE Live(j) # None /\ Live(j).name # n
  <2>1. cloud'[Live(j).name] = cloud[Live(j).name]
    BY <1>3
  <2>2. Fate(j)' = Fate(j)
    BY <2>1 DEF Fate, MadeFor
  <2> QED BY <1>1, <2>2
<1>4. CASE Live(j) # None /\ Live(j).name = n
  <2>1. CASE Owned(n)
    <3>1. Fate(j)' = Fate(j)
      BY <1>4, <2>1 DEF Fate, MadeFor, Owned
    <3> QED BY <1>1, <3>1
  <2>2. CASE ~Owned(n)
    <3>1. Fate(j) = "none" /\ Fate(j)' = "none"
      BY <1>4, <2>2 DEF Fate, MadeFor
    <3> QED BY <1>1, <3>1
  <2> QED BY <2>1, <2>2
<1> QED BY <1>1, <1>2, <1>3, <1>4

LEMMA CloudLife ==
  ASSUME NoSharedName, LifecycleInv, OrphanInv', [Next]_vars, UNCHANGED log, NEW n \in Names,
         \A m \in Names \ {n} : cloud'[m] = cloud[m],
         Owned(n) \/ Freed(n) \/ Asked(n) \/ MadeNow(n)
  PROVE  [Lifecycle!Next]_(Lifecycle!vars)
<1>0. AgreementInv /\ OrphanInv /\ TypeOK /\ NoOrphan
  BY DEF LifecycleInv, AgreementInv, OrphanInv
<1>1. \A k \in Keys : InstanceState(k) = Fate(k) /\ InstanceState(k)' = Fate(k)'
  BY <1>0, Fates, FatesNext
<1>2. \A k \in Keys : Live(k)' = Live(k)
  BY DEF Live
<1>3. \A k \in Keys : Live(k) # None => /\ Live(k).name \in Names /\ Live(k).uid \in Uid
                                       /\ <<k, Live(k).uid>> # None
  BY <1>0, LiveUid, OwnerFact
<1>4. \A k \in Keys : \A owner :
        Live(k) # None /\ owner = <<k, Live(k).uid>> => owner # None /\ owner[1] = k
  BY <1>3
\* It is enough to look at the object that has the instance, or gets it.
<1>5. ASSUME NEW k \in Keys, Lives(k),
             cloud[n].by = None \/ cloud[n].by[1] = k,
             cloud'[n].by = None \/ cloud'[n].by[1] = k
      PROVE  [Lifecycle!Next]_(Lifecycle!vars)
  <2>1. ASSUME NEW j \in Keys \ {k} PROVE Still(j)
    <3>1. Live(j) # None => <<j, Live(j).uid>> \notin {cloud[n].by, cloud'[n].by}
      BY <1>4, <1>5
    <3>2. ObjectState(j)' = ObjectState(j) /\ Fate(j)' = Fate(j)
      BY <1>2, <1>3, <3>1, CloudOthers
    <3> QED BY <1>1, <3>2 DEF Still
  <2> QED BY <1>5, <2>1, OneLife
<1>6. CASE Owned(n) \/ (cloud[n].by = None /\ cloud'[n].by = None)
  <2>1. ASSUME NEW j \in Keys PROVE Still(j)
    <3>1. Live(j) # None /\ <<j, Live(j).uid>> \in {cloud[n].by, cloud'[n].by} => Owned(n)
      BY <1>4, <1>6
    <3>2. ObjectState(j)' = ObjectState(j) /\ Fate(j)' = Fate(j)
      BY <1>2, <1>3, <3>1, CloudOthers
    <3> QED BY <1>1, <3>2 DEF Still
  <2>2. Objects' = Objects /\ Instances' = Instances
    BY <2>1 DEF Still, Objects, Instances
  <2> QED BY <2>2 DEF Objects, Instances, Lifecycle!vars
<1>7. CASE Freed(n) /\ cloud[n].by # None
  <2>1. PICK k \in Keys : cloud[n].by[1] = k
    BY <1>0, <1>7 DEF TypeOK, Instance
  <2>2. ObjectState(k)' = ObjectState(k)
    BY <1>2 DEF ObjectState
  <2>3. CASE MadeFor(n, k, Live(k))
    <3>1. Fate(k) # "none"
      BY <2>3 DEF Fate, MadeFor
    <3>2. Fate(k)' = "none"
      BY <1>2, <1>3, <1>7, <2>3 DEF Fate, MadeFor, Freed
    <3>3. Lives(k)
      BY <1>1, <2>2, <3>1, <3>2 DEF Lives
    <3> QED BY <1>5, <1>7, <2>1, <3>3 DEF Freed
  <2>4. CASE ~MadeFor(n, k, Live(k))
    <3>1. Live(k) # None /\ Live(k).name = n
            => <<k, Live(k).uid>> \notin {cloud[n].by, cloud'[n].by}
      BY <1>3, <1>7, <2>4 DEF Freed, MadeFor
    <3>2. Still(k)
      <4>1. CASE Live(k) # None /\ Live(k).name # n
        <5>1. Fate(k)' = Fate(k)
          BY <1>2, <1>3, <4>1 DEF Fate, MadeFor
        <5> QED BY <1>1, <2>2, <5>1 DEF Still
      <4>2. CASE ~(Live(k) # None /\ Live(k).name # n)
        <5>1. ObjectState(k)' = ObjectState(k) /\ Fate(k)' = Fate(k)
          BY <1>2, <1>3, <3>1, <4>2, CloudOthers
        <5> QED BY <1>1, <5>1 DEF Still
      <4> QED BY <4>1, <4>2
    <3> QED BY <1>5, <1>7, <2>1, <3>2 DEF Freed, Lives
  <2> QED BY <2>3, <2>4
<1>8. CASE Asked(n) /\ ~Owned(n) /\ cloud[n].by # None
  <2>1. ~cloud[n].asked /\ cloud'[n].asked /\ cloud'[n].by = cloud[n].by
    <3>1. cloud[n].asked \in BOOLEAN /\ cloud'[n].asked \in BOOLEAN
      BY <1>0 DEF TypeOK, Instance, OrphanInv
    <3> QED BY <1>8, <3>1 DEF Asked, Owned
  <2>2. /\ cloud[n].by[1] = w.key /\ MadeFor(n, w.key, Live(w.key)) /\ Live(w.key).del
    BY <1>0, <1>8, <2>1, CondemnedStep
  <2>3. PICK k \in Keys : cloud[n].by[1] = k /\ k = w.key
    BY <1>0, <1>8, <2>2 DEF TypeOK, Instance
  <2>4. MadeFor(n, k, Live(k)) /\ Live(k).del /\ Live(k).fin /\ Live(k) # None
    BY <1>0, <1>8, <2>1, <2>2, <2>3 DEF NoOrphan, MadeFor
  <2>5. ObjectState(k) = "condemned" /\ ObjectState(k)' = "condemned"
    BY <1>2, <2>4 DEF ObjectState
  <2>6. Fate(k) = "made" /\ Fate(k)' = "doomed"
    BY <1>2, <2>1, <2>4 DEF Fate, MadeFor
  <2>7. Lives(k)
    BY <1>1, <2>5, <2>6 DEF Lives
  <2> QED BY <1>5, <2>1, <2>3, <2>7
<1>9. CASE MadeNow(n)
  <2>1. PICK k \in Keys : k = w.key
    BY <1>0, <1>9, CriticalKey DEF MadeNow, At, Critical
  <2>2. Protected(Live(k)) /\ Same(Live(k), w.p)
    BY <1>0, <1>9, <2>1 DEF OrphanInv, Creating, MadeNow, At
  <2>3. cloud'[n].by = <<k, Live(k).uid>> /\ Live(k).name = n /\ ~cloud'[n].asked
    BY <1>9, <2>1, <2>2 DEF MadeNow, Same, Name
  <2>4. Fate(k)' = "made"
    BY <1>2, <2>2, <2>3 DEF Fate, MadeFor, Protected
  <2>5. ObjectState(k) \in {"protected", "condemned"} /\ ObjectState(k)' = ObjectState(k)
    BY <1>2, <2>2 DEF ObjectState, Protected
  <2>6. Lives(k)
    BY <1>1, <2>4, <2>5 DEF Lives
  <2> QED BY <1>5, <1>9, <2>3, <2>6 DEF MadeNow
<1>10. CASE Asked(n) /\ cloud[n].by = None
  BY <1>6, <1>10 DEF Asked
<1>11. CASE Freed(n) /\ cloud[n].by = None
  BY <1>6, <1>11 DEF Freed
<1> QED BY <1>6, <1>7, <1>8, <1>9, <1>10, <1>11
-----------------------------------------------------------------------------
(* The theorem.                                                            *)

LEMMA LifecycleInit ==
  ASSUME Init
  PROVE  LifecycleInv /\ Lifecycle!Init
<1>1. AgreementInv
  BY AgreementInit
<1>2. \A k \in Keys : Live(k) = None
  BY DEF Init, Live
<1>3. Tidy /\ Unmade
  BY <1>2 DEF Tidy, Unmade
<1>4. \A n \in Names : cloud[n].by = None
  BY DEF Init, Gone
<1>5. \A k \in Keys : ObjectState(k) = "absent" /\ InstanceState(k) = "none"
  BY <1>2, <1>4 DEF ObjectState, InstanceState
<1> QED BY <1>1, <1>3, <1>5 DEF LifecycleInv, Lifecycle!Init

LEMMA LifecycleStep ==
  ASSUME NoSharedName, LifecycleInv, [Next]_vars
  PROVE  LifecycleInv' /\ [Lifecycle!Next]_(Lifecycle!vars)
<1>1. AgreementInv /\ OrphanInv /\ Tidy /\ Unmade
  BY DEF LifecycleInv, AgreementInv
<1>2. AgreementInv'
  BY <1>1, AgreementStep
<1>3. OrphanInv'
  BY <1>2 DEF AgreementInv
<1>4. LogStep /\ CloudStep
  BY <1>1, LogSteps, CloudSteps
<1>5. Tidy' /\ Unmade'
  BY <1>1, <1>4, TidyNext, UnmadeNext
<1>6. [Lifecycle!Next]_(Lifecycle!vars)
  <2>1. CASE UNCHANGED cloud
    BY <1>3, <1>4, <2>1, LogLife
  <2>2. CASE ~UNCHANGED cloud
    <3>1. UNCHANGED log
      BY <1>4, <2>2 DEF CloudStep
    <3>2. PICK n \in Names : /\ \A m \in Names \ {n} : cloud'[m] = cloud[m]
                             /\ Owned(n) \/ Freed(n) \/ Asked(n) \/ MadeNow(n)
      BY <1>4, <2>2 DEF CloudStep
    <3> QED BY <1>3, <3>1, <3>2, CloudLife
  <2> QED BY <2>1, <2>2
<1> QED BY <1>2, <1>5, <1>6 DEF LifecycleInv

\* The controller implements InstanceLifecycle: whatever the cache shows and
\* whatever fails, an instance is made only for an object that the finalizer
\* protects, the operator deletes it only for an object that is condemned, and
\* such an object goes away only once the deletion is accepted.
THEOREM LifecycleRefinement ==
  ASSUME NoSharedName
  PROVE  Spec => ImplementsLifecycle
<1>1. Init => LifecycleInv /\ Lifecycle!Init
  BY LifecycleInit
<1>2. LifecycleInv /\ [Next]_vars => LifecycleInv' /\ [Lifecycle!Next]_(Lifecycle!vars)
  BY LifecycleStep
<1> QED BY <1>1, <1>2, PTL DEF Spec, ImplementsLifecycle, Lifecycle!Spec
=============================================================================
