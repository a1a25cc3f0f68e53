-------------------- MODULE PostgresqlInstanceController --------------------
(***************************************************************************)
(* The reconciliation of PostgresqlInstance resources, as implemented by   *)
(* pkg/controllers/postgresqlinstance.go.  One worker (threadiness is 1)   *)
(* takes a key from the work queue, reads the object from the informer's   *)
(* cache and makes a series of calls to the Kubernetes API and to the      *)
(* Cloud SQL Admin API.  Each call is one action, so users, the cloud, the *)
(* informer and crashes interleave with the calls of a sync.               *)
(***************************************************************************)
EXTENDS CloudSQLAdmin, Sequences

CONSTANTS
  Keys,          \* names of PostgresqlInstance resources
  Requests,      \* <<k, n>>: users may create k with ".spec.name" n
  Refused,       \* <<from, to>>: edits of a spec that the webhook refuses
  MaxLag,        \* versions the informer may be behind when a sync starts
  MaxFaults,     \* failed calls, failed operations and crashes
  MaxEdits,      \* edits of a spec by users
  MaxDrift,      \* out-of-band changes to instances
  MaxUid         \* objects created

ASSUME ControllerAssumption ==
  /\ Requests \subseteq Keys \X Names
  /\ Refused \subseteq Settings \X Settings
  /\ None \notin Keys
  /\ {MaxLag, MaxFaults, MaxEdits, MaxDrift, MaxUid} \subseteq Nat

VARIABLES
  log,      \* log[k]: the versions of k from the one in the informer's cache
            \* (the first) to the one in the Kubernetes API (the last)
  secret,   \* secret[k]: the secret of k in the operator's namespace
  pending,  \* keys that are queued, or that will be after a back-off
  w,        \* the worker
  used      \* how much of each bound has been used

vars == <<cloud, log, secret, pending, w, used>>

Uid == Nat

\* Conditions are represented by their reason; "" is a missing condition.
Conditions ==
  [created  : {"", "InstanceCreated", "NameUnavailable", "InvalidSpec",
               "UnexpectedError"},
   ready    : {"", "InstanceReady", "OperationInProgress", "InstanceNotReady",
               "UnexpectedError"},
   upToDate : {"", "InstanceUpToDate", "InstanceUpdated", "Conflict",
               "InvalidSpec", "UnexpectedError"}]

\* The reasons whose message depends on more than the reason.
Worded == {"OperationInProgress", "InstanceNotReady", "UnexpectedError",
           "NameUnavailable", "InvalidSpec", "Conflict"}

\* "fin": the cleanup finalizer is present; "del": there is a deletion
\* timestamp; "conn": the connection name and addresses are reported.
Object ==
  [uid : Uid, name : Names, s : Settings, paused : BOOLEAN, del : BOOLEAN,
   fin : BOOLEAN, conds : Conditions, conn : BOOLEAN]

ASSUME ObjectAssumption == None \notin Object

ASSUME OwnerAssumption == None \notin Keys \X Uid

Secret == [uid : Uid, pw : Passwords \cup {None}]

ASSUME SecretAssumption == None \notin Secret

Snapshot == [st : States, s : Settings \cup {None}]

Cached(k) == log[k][1]
Live(k)   == log[k][Len(log[k])]

Steps == {"Idle", "AddFinalizer", "Get", "Insert", "GetNew", "ListOps",
          "GetSecret", "CreateSecret", "SetPassword", "PutSecret",
          "MaybeUpdate", "GetUpdated", "PatchStatus", "Panic",
          "DeleteGet", "Delete", "RemoveFinalizer"}

\* The worker's local variables: i as read from the cache, p as it is being
\* built, the instance as last read, the generated password, whether an error
\* is being returned, whether a nil instance is about to be dereferenced, and
\* whether p carries a resource version ("absent" when it has that of i).
Worker ==
  [pc : Steps, key : Keys \cup {None}, i : Object \cup {None},
   p : Object \cup {None}, inst : Snapshot \cup {None},
   pw : Passwords \cup {None}, err : BOOLEAN, nil : BOOLEAN,
   rv : {"absent", "current", "outdated"}]

Idle == [pc |-> "Idle", key |-> None, i |-> None, p |-> None, inst |-> None,
         pw |-> None, err |-> FALSE, nil |-> FALSE, rv |-> "absent"]

Init ==
  /\ cloud = [n \in Names |-> Gone("Absent")]
  /\ log = [k \in Keys |-> <<None>>]
  /\ secret = [k \in Keys |-> None]
  /\ pending = {}
  /\ w = Idle
  /\ used = [faults |-> 0, edits |-> 0, drift |-> 0, uids |-> 0]
-----------------------------------------------------------------------------
(* Calls.  A call that the server answers with "reply" either gets that    *)
(* answer, or fails on the way back or forth; when it fails on the way     *)
(* back, its effect has nevertheless taken place.                          *)

Outcomes(reply) ==
  {o \in [code : {reply, ServerError}, applied : BOOLEAN, lost : BOOLEAN] :
     /\ o.applied => reply = Ok
     /\ IF o.lost THEN o.code = ServerError /\ used.faults < MaxFaults
                  ELSE o.code = reply /\ (reply = Ok => o.applied)}

Spend(o) == used' = IF o.lost THEN [used EXCEPT !.faults = @ + 1] ELSE used

\* The Kubernetes API stores o as the new version of k; a write that changes
\* nothing makes no version.
Store(k, o) ==
  log' = [log EXCEPT ![k] = IF o = Live(k) THEN @ ELSE Append(@, o)]

\* processQueueItem returns: after an error the key is queued again.
Return(err) ==
  /\ w' = Idle
  /\ pending' = IF err THEN pending \cup {w.key} ELSE pending

\* The deferred status patch runs last, whether or not there is an error.
Leave(v, err) == [v EXCEPT !.pc = "PatchStatus", !.err = err]
Goto(v, pc) == [v EXCEPT !.pc = pc]

At(pc) == w.pc = pc
Name == w.p.name
-----------------------------------------------------------------------------
(* The beginning of a sync: the object is read from the cache.             *)

\* Mutants of FirstStep: an object that is gone is processed; the finalizer is
\* not added; the deletion timestamp is not looked at; pausing comes first.
FirstStepOfNothing(i) == IF i = None THEN "Get" ELSE "Idle"

FirstStepUnprotected(i) ==
  IF i = None THEN "Idle"
  ELSE IF i.del THEN IF i.fin THEN "DeleteGet" ELSE "Idle"
  ELSE IF i.paused THEN "Idle" ELSE "Get"

FirstStepUncondemned(i) ==
  IF i = None THEN "Idle"
  ELSE IF i.fin THEN "DeleteGet"
  ELSE IF i.del THEN "Idle" ELSE "AddFinalizer"

FirstStepPausedFirst(i) ==
  IF i = None \/ i.paused THEN "Idle"
  ELSE IF i.del THEN IF i.fin THEN "DeleteGet" ELSE "Idle"
  ELSE IF ~i.fin THEN "AddFinalizer" ELSE "Get"

\* Nothing is left to do for an object that is gone, or that is being deleted
\* and lost its finalizer, or is paused.
FirstStep(i) ==
  IF i = None THEN "Idle"
  ELSE IF i.del THEN IF i.fin THEN "DeleteGet" ELSE "Idle"
  ELSE IF ~i.fin THEN "AddFinalizer"
  ELSE IF i.paused THEN "Idle" ELSE "Get"

StartSync(k) ==
  /\ At("Idle")
  /\ k \in pending
  /\ Len(log[k]) <= MaxLag
  /\ pending' = pending \ {k}
  /\ LET i == Cached(k)
         pc == FirstStep(i)
     IN w' = IF pc = "Idle" THEN Idle
             ELSE [Idle EXCEPT !.pc = pc, !.key = k, !.i = i, !.p = i]
  /\ UNCHANGED <<cloud, log, secret, used>>

\* The finalizer is added to whatever object the server holds, and the sync
\* goes on with the object the server returns.
AddFinalizer ==
  /\ At("AddFinalizer")
  /\ LET live == Live(w.key)
     IN \E o \in Outcomes(IF live = None THEN NotFound ELSE Ok) :
          /\ Spend(o)
          /\ IF o.applied THEN Store(w.key, [live EXCEPT !.fin = TRUE])
                          ELSE UNCHANGED log
          /\ IF o.code # Ok \/ live.paused
               THEN Return(o.code # Ok)
               ELSE /\ w' = [w EXCEPT !.pc = "Get", !.rv = "current",
                                      !.p = [live EXCEPT !.fin = TRUE]]
                    /\ UNCHANGED pending
  /\ UNCHANGED <<cloud, secret>>
-----------------------------------------------------------------------------
(* Making sure that the instance exists and is up.                         *)

Read(n) == [st |-> cloud[n].st, s |-> cloud[n].s]

\* The sync goes on with the instance as it is now.
Found == [w EXCEPT !.pc = "ListOps", !.inst = Read(Name)]

GetInstance ==
  /\ At("Get")
  /\ \E o \in Outcomes(GetReply(Name)) :
       /\ Spend(o)
       /\ \/ o.code = Ok /\ w' = Found
          \/ o.code = NotFound /\ w' = Goto(w, "Insert")
          \/ o.code = ServerError /\ w' = Leave(w, TRUE)
  /\ UNCHANGED <<cloud, log, secret, pending>>

\* createInstance: a conflict and an invalid specification end the sync
\* without an error.
InsertInstance ==
  /\ At("Insert")
  /\ \E o \in Outcomes(InsertReply(Name, w.p.s)) :
       /\ Spend(o)
       /\ cloud' = IF o.applied
                     THEN Inserted(Name, w.p.s, <<w.key, w.p.uid>>) ELSE cloud
       /\ LET created(reason) == [w EXCEPT !.p.conds.created = reason]
          IN \/ o.code = Ok /\ w' = Goto(created("InstanceCreated"), "GetNew")
             \/ o.code = Conflict /\ w' = Leave(created("NameUnavailable"), FALSE)
             \/ o.code = BadRequest /\ w' = Leave(created("InvalidSpec"), FALSE)
             \/ o.code = ServerError /\ w' = Leave(created("UnexpectedError"), TRUE)
  /\ UNCHANGED <<log, secret, pending>>

GetNewInstance ==
  /\ At("GetNew")
  /\ \E o \in Outcomes(GetReply(Name)) :
       /\ Spend(o)
       /\ w' = IF o.code = Ok THEN Found ELSE Leave(w, TRUE)
  /\ UNCHANGED <<cloud, log, secret, pending>>

\* isOperationInProgressOrFailed, and then the state of the instance as it
\* was read before the operations were listed.
ListOperations ==
  /\ At("ListOps")
  /\ \E o \in Outcomes(Ok) :
       /\ Spend(o)
       /\ LET op == cloud[Name].op
              ready(reason) == [w EXCEPT !.p.conds.ready = reason]
          IN \/ o.lost /\ w' = Leave(ready("UnexpectedError"), TRUE)
             \/ /\ ~o.lost /\ op = "Running"
                /\ w' = Leave(ready("OperationInProgress"), FALSE)
             \/ /\ ~o.lost /\ op = "Failed"
                /\ w' = Leave(ready("UnexpectedError"), FALSE)
             \/ /\ ~o.lost /\ op = "Done" /\ w.inst.st # "Runnable"
                /\ w' = Leave(ready("InstanceNotReady"), FALSE)
             \/ /\ ~o.lost /\ op = "Done" /\ w.inst.st = "Runnable"
                /\ w' = Goto(ready("InstanceReady"), "GetSecret")
  /\ UNCHANGED <<cloud, log, secret, pending>>
-----------------------------------------------------------------------------
(* The secret that holds the password of the "postgres" user.              *)

\* Mutants of GetSecret: the password is set whether or not there is one, or
\* only when the secret has just been created.
GetSecretAndReset ==
  /\ At("GetSecret")
  /\ w' = Goto(w, IF secret[w.key] = None THEN "CreateSecret" ELSE "SetPassword")
  /\ UNCHANGED <<cloud, log, secret, pending, used>>

GetSecretAndTrust ==
  /\ At("GetSecret")
  /\ w' = Goto(w, IF secret[w.key] = None THEN "CreateSecret" ELSE "MaybeUpdate")
  /\ UNCHANGED <<cloud, log, secret, pending, used>>

GetSecret ==
  /\ At("GetSecret")
  /\ LET s == secret[w.key]
     IN \E o \in Outcomes(Ok) :
          /\ Spend(o)
          /\ w' = IF o.lost THEN Leave(w, TRUE)
                  ELSE Goto(w, IF s = None THEN "CreateSecret"
                               ELSE IF s.pw = None THEN "SetPassword"
                               ELSE "MaybeUpdate")
  /\ UNCHANGED <<cloud, log, secret, pending>>

CreateSecret ==
  /\ At("CreateSecret")
  /\ \E o \in Outcomes(IF secret[w.key] = None THEN Ok ELSE Conflict) :
       /\ Spend(o)
       /\ secret' = IF o.applied
                      THEN [secret EXCEPT ![w.key] = [uid |-> w.p.uid, pw |-> None]]
                      ELSE secret
       /\ w' = IF o.code = Ok THEN Goto(w, "SetPassword") ELSE Leave(w, TRUE)
  /\ UNCHANGED <<cloud, log, pending>>

\* Passwords in use are not drawn again: they are random.
Drawn ==
  {cloud[n].pw : n \in Names} \cup {secret[k].pw : k \in {j \in Keys : secret[j] # None}}

\* setInstancePassword, first half: the password is set on the instance ...
SetPassword ==
  /\ At("SetPassword")
  /\ \E pw \in Passwords \ Drawn, o \in Outcomes(UserReply(Name)),
        op \in {"Running", "Done"} :
       /\ Spend(o)
       /\ cloud' = IF o.applied THEN UserUpdated(Name, pw, op) ELSE cloud
       /\ w' = IF o.code = Ok THEN [w EXCEPT !.pc = "PutSecret", !.pw = pw]
                              ELSE Leave(w, TRUE)
  /\ UNCHANGED <<log, secret, pending>>

\* ... second half: and then written to the secret that was read before.
PutSecret ==
  /\ At("PutSecret")
  /\ \E o \in Outcomes(IF secret[w.key] = None THEN NotFound ELSE Ok) :
       /\ Spend(o)
       /\ secret' = IF o.applied THEN [secret EXCEPT ![w.key].pw = w.pw] ELSE secret
       /\ w' = IF o.code = Ok THEN [w EXCEPT !.pc = "MaybeUpdate", !.pw = None]
                              ELSE [Leave(w, TRUE) EXCEPT !.pw = None]
  /\ UNCHANGED <<cloud, log, pending>>
-----------------------------------------------------------------------------
(* Settings.                                                               *)

\* updateDatabaseInstanceSettings: does the instance differ from the spec?
MustUpdate(p, inst) == inst.s # p.s

\* maybeUpdateInstance when there is nothing to update.
SkipUpdate ==
  /\ At("MaybeUpdate")
  /\ ~MustUpdate(w.p, w.inst)
  /\ w' = [Leave(w, FALSE) EXCEPT !.p.conds.upToDate = "InstanceUpToDate",
                                  !.p.conn = TRUE]
  /\ UNCHANGED <<cloud, log, secret, pending, used>>

\* maybeUpdateInstance otherwise.  A conflict and an invalid specification
\* return no instance and no error, and the caller dereferences the instance.
UpdateInstance ==
  /\ At("MaybeUpdate")
  /\ MustUpdate(w.p, w.inst)
  /\ \E o \in Outcomes(UpdateReply(Name, w.inst.s, w.p.s)) :
       /\ Spend(o)
       /\ cloud' = IF o.applied THEN Updated(Name, w.p.s) ELSE cloud
       /\ LET upToDate(reason) == [w EXCEPT !.p.conds.upToDate = reason]
              nil(v) == [Leave(v, FALSE) EXCEPT !.nil = TRUE]
          IN \/ o.code = Ok /\ w' = Goto(upToDate("InstanceUpdated"), "GetUpdated")
             \/ o.code = Conflict /\ w' = nil(upToDate("Conflict"))
             \/ o.code = BadRequest /\ w' = nil(upToDate("InvalidSpec"))
             \/ /\ o.code \notin {Ok, Conflict, BadRequest}
                /\ w' = Leave(upToDate("UnexpectedError"), TRUE)
  /\ UNCHANGED <<log, secret, pending>>

GetUpdatedInstance ==
  /\ At("GetUpdated")
  /\ \E o \in Outcomes(GetReply(Name)) :
       /\ Spend(o)
       /\ w' = IF o.code = Ok THEN [Leave(w, FALSE) EXCEPT !.p.conn = TRUE]
                              ELSE Leave(w, TRUE)
  /\ UNCHANGED <<cloud, log, secret, pending>>
-----------------------------------------------------------------------------
(* The status patch: the difference between i and p, as a JSON merge patch *)
(* on whatever object the server holds.  The list of conditions is part of *)
(* it as a whole or not at all.  When p came from the server its resource  *)
(* version is part of it too, and the server checks it.                    *)

\* Does the patch carry the list of conditions?  It does when one changed,
\* and may when only the wording of one did.
ListSent == IF w.p.conds # w.i.conds THEN {TRUE}
            ELSE IF {w.p.conds.created, w.p.conds.ready, w.p.conds.upToDate}
                      \cap Worded = {} THEN {FALSE}
            ELSE BOOLEAN

Patched(live, list) ==
  [live EXCEPT !.conds = IF list THEN w.p.conds ELSE @,
               !.conn  = IF w.p.conn # w.i.conn THEN w.p.conn ELSE @]

AfterPatch(err) ==
  IF w.nil THEN w' = [Idle EXCEPT !.pc = "Panic"] /\ UNCHANGED pending
           ELSE Return(err)

PatchStatus ==
  /\ At("PatchStatus")
  /\ \E list \in ListSent :
       \/ /\ w.rv = "absent" /\ w.p = w.i /\ ~list   \* no difference, no call
          /\ AfterPatch(w.err)
          /\ UNCHANGED <<log, used>>
       \/ /\ w.rv # "absent" \/ w.p # w.i \/ list
          /\ LET live == Live(w.key)
             IN \E o \in Outcomes(IF live = None THEN NotFound
                                  ELSE IF w.rv = "outdated" THEN Conflict ELSE Ok) :
                  /\ Spend(o)
                  /\ IF o.applied THEN Store(w.key, Patched(live, list))
                                  ELSE UNCHANGED log
                  /\ AfterPatch(w.err \/ o.code # Ok)
  /\ UNCHANGED <<cloud, secret>>
-----------------------------------------------------------------------------
(* Deletion: deleteInstance, then the finalizer is removed.                *)

\* Mutant of DeleteGet: any error means that the instance is gone.
DeleteGetAnyError ==
  /\ At("DeleteGet")
  /\ \E o \in Outcomes(GetReply(Name)) :
       /\ Spend(o)
       /\ w' = Goto(w, IF o.code = Ok THEN "Delete" ELSE "RemoveFinalizer")
  /\ UNCHANGED <<cloud, log, secret, pending>>

DeleteGet ==
  /\ At("DeleteGet")
  /\ \E o \in Outcomes(GetReply(Name)) :
       /\ Spend(o)
       /\ IF o.lost THEN Return(TRUE)
          ELSE /\ w' = Goto(w, IF o.code = Ok THEN "Delete" ELSE "RemoveFinalizer")
               /\ UNCHANGED pending
  /\ UNCHANGED <<cloud, log, secret>>

\* Mutant of DeleteInstance: an error is logged and otherwise ignored.
DeleteInstanceUnchecked ==
  /\ At("Delete")
  /\ \E o \in Outcomes(DeleteReply(Name)) :
       /\ Spend(o)
       /\ cloud' = IF o.applied THEN Deleted(Name) ELSE cloud
       /\ w' = Goto(w, "RemoveFinalizer")
  /\ UNCHANGED <<log, secret, pending>>

DeleteInstance ==
  /\ At("Delete")
  /\ \E o \in Outcomes(DeleteReply(Name)) :
       /\ Spend(o)
       /\ cloud' = IF o.applied THEN Deleted(Name) ELSE cloud
       /\ IF o.code # Ok THEN Return(TRUE)
          ELSE w' = Goto(w, "RemoveFinalizer") /\ UNCHANGED pending
  /\ UNCHANGED <<log, secret>>

\* What the server keeps once the finalizer is gone.
Released(live) == IF live.del THEN None ELSE [live EXCEPT !.fin = FALSE]

RemoveFinalizer ==
  /\ At("RemoveFinalizer")
  /\ LET live == Live(w.key)
     IN \E o \in Outcomes(IF live = None THEN NotFound ELSE Ok) :
          /\ Spend(o)
          /\ IF o.applied THEN Store(w.key, Released(live)) ELSE UNCHANGED log
          /\ Return(o.code # Ok)
  /\ UNCHANGED <<cloud, secret>>
-----------------------------------------------------------------------------
(* The operator stops at any point and starts again (or another replica    *)
(* takes over), with a fresh cache and every existing object queued.       *)

Restart ==
  /\ w' = Idle
  /\ log' = [k \in Keys |-> <<Live(k)>>]
  /\ pending' = {k \in Keys : Live(k) # None}
  /\ UNCHANGED <<cloud, secret>>

Crash ==
  /\ ~At("Panic")
  /\ used.faults < MaxFaults
  /\ used' = [used EXCEPT !.faults = @ + 1]
  /\ Restart

\* The nil dereference is not recovered from: the process ends.
Panic ==
  /\ At("Panic")
  /\ UNCHANGED used
  /\ Restart

\* The informer hands on the next version, or lists the objects anew; its
\* event handlers queue the key.
Deliver(k) ==
  /\ Len(log[k]) > 1
  /\ \E rest \in {Tail(log[k]), <<Live(k)>>} : log' = [log EXCEPT ![k] = rest]
  /\ pending' = pending \cup {k}
  /\ UNCHANGED <<cloud, secret, w, used>>

\* The informer's resync queues every object in the cache.
Resync(k) ==
  /\ Cached(k) # None
  /\ k \notin pending
  /\ pending' = pending \cup {k}
  /\ UNCHANGED <<cloud, log, secret, w, used>>
-----------------------------------------------------------------------------
(* Users and the Kubernetes garbage collector.                             *)

\* Somebody else's write outdates the resource version the worker holds.
Outdate(k) ==
  w' = IF w.key = k /\ w.rv = "current" THEN [w EXCEPT !.rv = "outdated"] ELSE w

UserWrite(k, o) ==
  /\ Len(log[k]) <= MaxLag
  /\ log' = [log EXCEPT ![k] = Append(@, o)]
  /\ Outdate(k)
  /\ UNCHANGED <<cloud, secret, pending>>

\* The webhook admits an object whose ".spec.name" no instance has.
UserCreate(k) ==
  /\ Live(k) = None
  /\ used.uids < MaxUid
  /\ used' = [used EXCEPT !.uids = @ + 1]
  /\ \E n \in Names, s \in Settings :
       /\ <<k, n>> \in Requests
       /\ GetReply(n) = NotFound
       /\ UserWrite(k, [uid |-> used.uids + 1, name |-> n, s |-> s, paused |-> FALSE,
                        del |-> FALSE, fin |-> FALSE, conn |-> FALSE,
                        conds |-> [created |-> "", ready |-> "", upToDate |-> ""]])

\* The webhook lets no update change ".spec.name", and refuses some other
\* changes (a smaller disk, another region, ...).
UserEdit(k) ==
  /\ Live(k) # None
  /\ used.edits < MaxEdits
  /\ used' = [used EXCEPT !.edits = @ + 1]
  /\ \/ \E s \in Settings \ {Live(k).s} :
          <<Live(k).s, s>> \notin Refused /\ UserWrite(k, [Live(k) EXCEPT !.s = s])
     \/ UserWrite(k, [Live(k) EXCEPT !.paused = ~@])

\* Annotations, which the controller does not read, make a new version too.
UserAnnotate(k) ==
  /\ Live(k) # None
  /\ used.edits < MaxEdits
  /\ used' = [used EXCEPT !.edits = @ + 1]
  /\ UserWrite(k, Live(k))

UserDelete(k) ==
  /\ Live(k) # None /\ ~Live(k).del
  /\ UserWrite(k, IF Live(k).fin THEN [Live(k) EXCEPT !.del = TRUE] ELSE None)
  /\ UNCHANGED used

\* The secret is owned by an object that no longer exists.
CollectSecret(k) ==
  /\ secret[k] # None
  /\ ~(Live(k) # None /\ Live(k).uid = secret[k].uid)
  /\ secret' = [secret EXCEPT ![k] = None]
  /\ UNCHANGED <<cloud, log, pending, w, used>>

CloudFinish(n) == Finish(n) /\ UNCHANGED <<log, secret, pending, w, used>>

CloudRelease(n) == Release(n) /\ UNCHANGED <<log, secret, pending, w, used>>

CloudFail(n) ==
  /\ used.faults < MaxFaults
  /\ used' = [used EXCEPT !.faults = @ + 1]
  /\ Fail(n)
  /\ UNCHANGED <<log, secret, pending, w>>

CloudDrift(n) ==
  /\ used.drift < MaxDrift
  /\ used' = [used EXCEPT !.drift = @ + 1]
  /\ OutOfBand(n)
  /\ UNCHANGED <<log, secret, pending, w>>
-----------------------------------------------------------------------------
\* The calls of a sync, after its beginning.
Continue ==
  \/ AddFinalizer
  \/ GetInstance \/ InsertInstance \/ GetNewInstance \/ ListOperations
  \/ GetSecret \/ CreateSecret \/ SetPassword \/ PutSecret
  \/ SkipUpdate \/ UpdateInstance \/ GetUpdatedInstance
  \/ PatchStatus
  \/ DeleteGet \/ DeleteInstance \/ RemoveFinalizer
  \/ Panic

Environment ==
  \/ Crash
  \/ \E k \in Keys : \/ Deliver(k) \/ Resync(k) \/ CollectSecret(k)
                     \/ UserCreate(k) \/ UserEdit(k) \/ UserAnnotate(k)
                     \/ UserDelete(k)
  \/ \E n \in Names : \/ CloudFinish(n) \/ CloudRelease(n)
                      \/ CloudFail(n) \/ CloudDrift(n)

Next ==
  \/ \E k \in Keys : StartSync(k)
  \/ Continue
  \/ Environment

Spec == Init /\ [][Next]_vars
=============================================================================
