---------------------------- MODULE WebhookProofs ----------------------------
(***************************************************************************)
(* Proofs that the guard of the admission webhook works, whatever the      *)
(* controller, pods, users and crashes do around it: no instance is        *)
(* deleted that its object has never allowed to be deleted; and that the   *)
(* credentials that pods are given are those that are set on the instance. *)
(***************************************************************************)
EXTENDS CredentialsInvariant, LifecycleProofs

\* An object that may be deleted, or is being deleted, has allowed it.
Waived ==
  \A k \in Keys :
    Live(k) # None /\ (allow[k] \/ k \in deleting \/ Live(k).del)
      => Live(k).uid \in history.waived

\* What the controller's own proofs say, and that holds beside the webhook.
ControllerInv == AgreementInv /\ Tidy

GuardInv == ControllerInv /\ WebhookTypeOK /\ Waived /\ NoAccidentalDeletion
-----------------------------------------------------------------------------
(* What the steps of the webhook are to the controller.                    *)

Use == [faults : 0 .. MaxFaults, edits : 0 .. MaxEdits, drift : 0 .. MaxDrift, uids : 0 .. MaxUid]

\* All that is left of a call of the webhook's is that it may have failed.
Aside == UNCHANGED <<cloud, log, secret, pending, w>> /\ used' \in Use

LEMMA AsideInv ==
  ASSUME ControllerInv, Aside
  PROVE  ControllerInv'
<1>1. TypeOK'
  BY DEF ControllerInv, AgreementInv, OrphanInv, Aside, TypeOK, Use
<1>2. OrphanInv'
  BY <1>1 DEF ControllerInv, AgreementInv, OrphanInv, Aside, Vacant, Exists, NoOrphan, MadeFor,
              Live, Adding, Creating, Deleting, Cleared, At
<1>3. Unset' /\ Holding' /\ Blank' /\ Fresh' /\ Deserved'
  BY DEF ControllerInv, AgreementInv, Aside, Unset, Exists, Holding, Live, Blank, Fresh, Deserved,
         At, Name
<1>4. PasswordAgreement'
  BY DEF ControllerInv, AgreementInv, Aside, PasswordAgreement, MadeFor, Live
<1>5. Tidy' /\ \A k \in Keys : Named(k, log'[k])
  BY DEF ControllerInv, AgreementInv, Aside, Tidy, Live
<1> QED BY <1>2, <1>3, <1>4, <1>5 DEF ControllerInv, AgreementInv, Named

LEMMA AdmitPodAside ==
  ASSUME TypeOK, NEW p \in Pods, AdmitPod(p)
  PROVE  Aside
<1>1. ASSUME NEW reply, NEW o \in Outcomes(reply), Spend(o) PROVE used' \in Use
  BY <1>1, SpendType DEF Use
<1>2. CASE GetObject(p)
  BY <1>1, <1>2 DEF GetObject, Aside
<1>3. CASE GetInstanceSecret(p)
  BY <1>1, <1>3 DEF GetInstanceSecret, Aside
<1>4. CASE CreateLocal(p)
  BY <1>1, <1>4 DEF CreateLocal, Aside
<1>5. CASE GetLocal(p)
  BY <1>1, <1>5 DEF GetLocal, Aside
<1>6. CASE PatchLocal(p)
  BY <1>1, <1>6 DEF PatchLocal, Aside
<1> QED BY <1>2, <1>3, <1>4, <1>5, <1>6 DEF AdmitPod

LEMMA ControllerSide ==
  ASSUME TypeOK, [WebhookNext]_<<vars, admission>>
  PROVE  [Next]_vars \/ Aside
<1>1. CASE Unadmitted
  BY <1>1 DEF Unadmitted, Next, Environment
<1>2. ASSUME NEW k \in Keys,
             CreateObject(k) \/ AnnotateObject(k) \/ AdmitDeletion(k) \/ DeleteObject(k)
      PROVE  [Next]_vars
  BY <1>2 DEF CreateObject, AnnotateObject, AdmitDeletion, DeleteObject, Next, Environment, vars
<1>3. ASSUME NEW p \in Pods, RequestPod(p) \/ DeletePod(p) PROVE UNCHANGED vars
  BY <1>3 DEF RequestPod, DeletePod
<1>4. ASSUME NEW at \in Namespaces \X Keys, CollectLocal(at) PROVE UNCHANGED vars
  BY <1>4 DEF CollectLocal
<1> QED BY <1>1, <1>2, <1>3, <1>4, AdmitPodAside DEF WebhookNext

LEMMA ControllerInvStep ==
  ASSUME NoSharedName, ControllerInv, [WebhookNext]_<<vars, admission>>
  PROVE  ControllerInv'
<1>1. OrphanInv /\ TypeOK
  BY DEF ControllerInv, AgreementInv, OrphanInv
<1>2. CASE [Next]_vars
  BY <1>1, <1>2, AgreementStep, LogSteps, TidyNext DEF ControllerInv
<1>3. CASE Aside
  BY <1>3, AsideInv
<1> QED BY <1>1, <1>2, <1>3, ControllerSide
-----------------------------------------------------------------------------
(* Types.                                                                  *)

LEMMA WebhookInitType ==
  ASSUME WebhookInit
  PROVE  WebhookTypeOK
BY DEF WebhookInit, WebhookTypeOK, Admission, AdmissionSteps, NoPod, History

\* A pod that is admitted goes on with what is known about its object.
PodType(x) ==
  x \in Admission /\ (x.pc \notin {"none", "GetObject"} => x.uid # None)

LEMMA PodTypeStep ==
  ASSUME TypeOK, WebhookTypeOK, NEW p \in Pods, RequestPod(p) \/ AdmitPod(p) \/ DeletePod(p)
  PROVE  \/ pod' = pod
         \/ \E x : pod' = [pod EXCEPT ![p] = x] /\ PodType(x)
<1>1. pod[p] \in Admission /\ PodType(pod[p])
  BY DEF WebhookTypeOK, PodType
<1>2. \A pc \in AdmissionSteps : [pod[p] EXCEPT !.pc = pc] \in Admission
  BY <1>1 DEF Admission
<1>3. \A pc \in AdmissionSteps :
        GotoPod(p, pc) => pod' = [pod EXCEPT ![p] = [pod[p] EXCEPT !.pc = pc]]
  BY DEF GotoPod, WebhookTypeOK
<1>4. PodType(NoPod)
  BY DEF PodType, NoPod, Admission, AdmissionSteps
<1>5. Refuse(p) => pod' = [pod EXCEPT ![p] = NoPod]
  BY DEF Refuse
<1> DEFINE Admitted == [NoPod EXCEPT !.pc = "admitted", !.uid = pod[p].uid]
<1>13. Admit(p) => pod' = [pod EXCEPT ![p] = Admitted]
  BY DEF Admit
<1>14. pod[p].uid # None => PodType(Admitted)
  BY <1>1 DEF PodType, NoPod, Admission, AdmissionSteps
<1> HIDE DEF Admitted
<1>6. CASE RequestPod(p)
  BY <1>1, <1>2, <1>3, <1>6 DEF RequestPod, InPod, PodType, Admission, AdmissionSteps
<1>7. CASE GetObject(p)
  <2> DEFINE found == [NoPod EXCEPT !.pc = "GetSecret", !.uid = Live(KeyOf(p)).uid,
                                    !.conn = Live(KeyOf(p)).conn]
             reply == IF Live(KeyOf(p)) = None THEN NotFound ELSE Ok
  <2>1. PICK o \in Outcomes(reply) :
          IF o.code # Ok THEN Refuse(p) ELSE pod' = [pod EXCEPT ![p] = found]
    BY <1>7 DEF GetObject
  <2>2. o.code = Ok => Live(KeyOf(p)) # None
    BY <2>1, OutcomeFacts DEF Ok, NotFound
  <2>3. Live(KeyOf(p)) # None => PodType(found)
    <3>1. KeyOf(p) \in Keys
      BY WebhookAssumption DEF KeyOf
    <3>2. Live(KeyOf(p)) # None => Live(KeyOf(p)) \in Object
      BY <3>1, LiveType
    <3> QED BY <3>2, WebhookAssumption DEF PodType, NoPod, Admission, AdmissionSteps, Object
  <2> QED BY <1>4, <1>5, <2>1, <2>2, <2>3
<1>8. CASE GetInstanceSecret(p)
  <2> DEFINE s == secret[KeyOf(p)]
             read == [pod[p] EXCEPT !.pc = "CreateLocal", !.conn = FALSE, !.pw = s.pw]
             reply == IF s = None THEN NotFound ELSE Ok
  <2>1. PICK o \in Outcomes(reply) :
          IF o.code # Ok \/ ~Presentable(p) THEN Refuse(p) ELSE pod' = [pod EXCEPT ![p] = read]
    BY <1>8 DEF GetInstanceSecret
  <2>2. o.code = Ok => s # None
    BY <2>1, OutcomeFacts DEF Ok, NotFound
  <2>3. s # None => PodType(read)
    <3>1. KeyOf(p) \in Keys
      BY WebhookAssumption DEF KeyOf
    <3>2. s # None => s.pw \in Passwords \cup {None}
      BY <3>1 DEF TypeOK, Secret
    <3>3. pod[p].uid # None
      BY <1>1, <1>8 DEF GetInstanceSecret, InPod, PodType
    <3> HIDE DEF s
    <3> QED BY <1>1, <3>2, <3>3 DEF PodType, Admission, AdmissionSteps
  <2> QED BY <1>4, <1>5, <2>1, <2>2, <2>3
<1>9. CASE CreateLocal(p)
  <2>1. pod[p].uid # None
    BY <1>1, <1>9 DEF CreateLocal, InPod, PodType
  <2>2. Admit(p) \/ GotoPod(p, "GetLocal") \/ Refuse(p)
    BY <1>9 DEF CreateLocal
  <2>3. PodType([pod[p] EXCEPT !.pc = "GetLocal"])
    BY <1>1, <2>1 DEF PodType, Admission, AdmissionSteps
  <2> QED BY <1>3, <1>4, <1>5, <1>13, <1>14, <2>1, <2>2, <2>3 DEF AdmissionSteps
<1>10. CASE GetLocal(p)
  BY <1>1, <1>2, <1>3, <1>4, <1>5, <1>10 DEF GetLocal, InPod, PodType, Admission, AdmissionSteps
<1>11. CASE PatchLocal(p)
  <2>1. pod[p].uid # None
    BY <1>1, <1>11 DEF PatchLocal, InPod, PodType
  <2>2. Admit(p) \/ Refuse(p)
    BY <1>11 DEF PatchLocal
  <2> QED BY <1>4, <1>5, <1>13, <1>14, <2>1, <2>2
<1>12. CASE DeletePod(p)
  BY <1>4, <1>5, <1>12 DEF DeletePod
<1> QED BY <1>6, <1>7, <1>8, <1>9, <1>10, <1>11, <1>12 DEF AdmitPod

LEMMA LocalTypeStep ==
  ASSUME TypeOK, WebhookTypeOK, NEW p \in Pods, RequestPod(p) \/ AdmitPod(p) \/ DeletePod(p)
  PROVE  local' \in [Namespaces \X Keys -> LocalSecret \cup {None}]
<1>1. Target[p] \in Namespaces \X Keys /\ local \in [Namespaces \X Keys -> LocalSecret \cup {None}]
  BY WebhookAssumption DEF WebhookTypeOK
<1>2. pod[p] \in Admission
  BY DEF WebhookTypeOK
<1>3. CASE CreateLocal(p)
  <2>1. LocalSecretOf(p) \in LocalSecret
    BY <1>2, <1>3 DEF CreateLocal, InPod, WebhookTypeOK, LocalSecretOf, LocalSecret, Admission
  <2>2. local' = local \/ local' = [local EXCEPT ![Target[p]] = LocalSecretOf(p)]
    BY <1>3 DEF CreateLocal
  <2> QED BY <1>1, <2>1, <2>2
<1>4. CASE PatchLocal(p)
  <2>1. PICK o \in Outcomes(LocalReply(p)) :
          local' = IF o.applied THEN [local EXCEPT ![Target[p]].pw = pod[p].pw] ELSE local
    BY <1>4 DEF PatchLocal
  <2>2. o.applied => local[Target[p]] \in LocalSecret
    <3>1. o.applied => LocalReply(p) = Ok
      BY <2>1, OutcomeFacts
    <3> QED BY <1>1, <3>1 DEF LocalReply, Ok, NotFound
  <2>3. o.applied => [local[Target[p]] EXCEPT !.pw = pod[p].pw] \in LocalSecret
    BY <1>2, <2>2 DEF LocalSecret, Admission
  <2> QED BY <1>1, <2>1, <2>3
<1>5. CASE RequestPod(p) \/ GetObject(p) \/ GetInstanceSecret(p) \/ GetLocal(p) \/ DeletePod(p)
  BY <1>1, <1>5 DEF RequestPod, GetObject, GetInstanceSecret, GetLocal, DeletePod
<1> QED BY <1>3, <1>4, <1>5 DEF AdmitPod

LEMMA WebhookTypeStep ==
  ASSUME TypeOK, WebhookTypeOK, [WebhookNext]_<<vars, admission>>
  PROVE  WebhookTypeOK'
<1>1. \A k \in Keys : Live(k) \in Object \cup {None}
  BY LiveType
<1> USE WebhookAssumption DEF WebhookTypeOK
<1>2. CASE UNCHANGED admission
  BY <1>2 DEF admission
<1>3. ASSUME NEW k \in Keys, CreateObject(k) PROVE WebhookTypeOK'
  <2>1. used.uids + 1 \in Uid
    <3>1. used.uids \in 0 .. MaxUid /\ used.uids < MaxUid
      BY <1>3 DEF TypeOK, CreateObject, UserCreate
    <3> QED BY <3>1, BoundsType DEF Uid
  <2> QED BY <1>3, <2>1 DEF CreateObject, History
<1>4. ASSUME NEW k \in Keys, AnnotateObject(k) PROVE WebhookTypeOK'
  <2>1. Live(k).uid \in Uid
    BY <1>1, <1>4 DEF AnnotateObject, UserAnnotate, Object
  <2> QED BY <1>4, <2>1 DEF AnnotateObject, Waive, History
<1>5. ASSUME NEW k \in Keys, AdmitDeletion(k) \/ DeleteObject(k) PROVE WebhookTypeOK'
  BY <1>5 DEF AdmitDeletion, DeleteObject
<1>6. ASSUME NEW p \in Pods, RequestPod(p) \/ AdmitPod(p) \/ DeletePod(p) PROVE WebhookTypeOK'
  <2>1. pod' \in [Pods -> Admission] /\ \A q \in Pods : PodType(pod'[q])
    BY <1>6, PodTypeStep DEF PodType
  <2>2. local' \in [Namespaces \X Keys -> LocalSecret \cup {None}]
    BY <1>6, LocalTypeStep
  <2>3. UNCHANGED <<allow, deleting, history>>
    BY <1>6 DEF RequestPod, AdmitPod, DeletePod, GetObject, GetInstanceSecret, CreateLocal,
                GetLocal, PatchLocal
  <2> QED BY <2>1, <2>2, <2>3 DEF PodType
<1>7. ASSUME NEW at \in Namespaces \X Keys, CollectLocal(at) PROVE WebhookTypeOK'
  BY <1>7 DEF CollectLocal
<1> QED BY <1>2, <1>3, <1>4, <1>5, <1>6, <1>7 DEF WebhookNext
-----------------------------------------------------------------------------
(* The guard.                                                              *)

LEMMA CreatePuts ==
  ASSUME TypeOK, NEW k \in Keys, UserCreate(k)
  PROVE  \E e \in Object : Puts(k, e) /\ e.uid = used.uids + 1 /\ ~e.del
<1>1. used.uids + 1 \in Uid
  <2>1. used.uids \in 0 .. MaxUid /\ used.uids < MaxUid
    BY DEF TypeOK, UserCreate
  <2> QED BY <2>1, BoundsType DEF Uid
<1> DEFINE blank(n, s) ==
      [uid |-> used.uids + 1, name |-> n, s |-> s, paused |-> FALSE,
       del |-> FALSE, fin |-> FALSE, conn |-> FALSE,
       conds |-> [created |-> "", ready |-> "", upToDate |-> ""]]
<1>2. PICK n \in Names, s \in Settings : UserWrite(k, blank(n, s))
  BY DEF UserCreate
<1>3. blank(n, s) \in Object /\ blank(n, s).uid = used.uids + 1 /\ ~blank(n, s).del
  BY <1>1 DEF Object, Conditions
<1> HIDE DEF blank
<1>4. Puts(k, blank(n, s))
  BY <1>2, <1>3, AppendPuts DEF UserWrite
<1> QED BY <1>3, <1>4

LEMMA DeletePuts ==
  ASSUME TypeOK, NEW k \in Keys, UserDelete(k)
  PROVE  \E e \in Object \cup {None} : Puts(k, e) /\ (e # None => e.uid = Live(k).uid)
<1>1. Live(k) \in Object /\ Live(k) # None
  BY LiveType DEF UserDelete
<1> DEFINE e == [Live(k) EXCEPT !.del = TRUE]
<1>2. e \in Object /\ e.uid = Live(k).uid
  BY <1>1 DEF Object
<1>3. UserWrite(k, e) \/ UserWrite(k, None)
  BY DEF UserDelete
<1> HIDE DEF e
<1> QED BY <1>2, <1>3, AppendPuts DEF UserWrite

LEMMA WaivedStep ==
  ASSUME ControllerInv, WebhookTypeOK, Waived, [WebhookNext]_<<vars, admission>>
  PROVE  Waived'
<1>0. TypeOK /\ OrphanInv /\ Tidy
  BY DEF ControllerInv, AgreementInv, OrphanInv
<1> USE DEF Waived, WebhookTypeOK
<1>1. CASE UNCHANGED <<log, admission>>
  BY <1>1 DEF admission, Live
<1>2. CASE Unadmitted /\ UNCHANGED admission
  <2>1. RevisionStep
    BY <1>0, <1>2, RevisionSteps DEF Unadmitted, Unbidden
  <2>2. UNCHANGED <<allow, deleting, history>>
    BY <1>2 DEF admission
  <2>3. CASE \A k \in Keys : Live(k)' = Live(k)
    BY <2>2, <2>3
  <2>4. ASSUME NEW k \in Keys, NEW e \in Object \cup {None}, Revises(k, e), Puts(k, e)
        PROVE  Waived'
    BY <2>2, <2>4 DEF Revises, Edited, LetGo, Same, Puts
  <2> QED BY <2>1, <2>3, <2>4 DEF RevisionStep
<1>3. ASSUME NEW k \in Keys, CreateObject(k) PROVE Waived'
  <2>1. PICK e \in Object : Puts(k, e) /\ e.uid = used.uids + 1 /\ ~e.del
    BY <1>0, <1>3, CreatePuts DEF CreateObject
  <2>2. /\ \A j \in Keys \ {k} : allow'[j] = allow[j]
        /\ deleting' = deleting /\ history.waived \subseteq history'.waived
        /\ allow'[k] \/ k \in deleting => used.uids + 1 \in history'.waived
    BY <1>3 DEF CreateObject, History
  <2> QED BY <2>1, <2>2 DEF Puts
<1>4. ASSUME NEW k \in Keys, AnnotateObject(k) PROVE Waived'
  <2>1. \A j \in Keys : Live(j)' = Live(j)
    <3>1. Live(k) \in Object \cup {None} /\ UserWrite(k, Live(k))
      BY <1>0, <1>4, LiveType DEF AnnotateObject, UserAnnotate
    <3>2. Puts(k, Live(k))
      BY <1>0, <3>1, AppendPuts DEF UserWrite
    <3> QED BY <3>2 DEF Puts
  <2>2. /\ \A j \in Keys \ {k} : allow'[j] = allow[j]
        /\ deleting' = deleting /\ history.waived \subseteq history'.waived
        /\ allow'[k] => Live(k).uid \in history'.waived
    BY <1>4 DEF AnnotateObject, Waive, History
  <2> QED BY <2>1, <2>2
<1>5. ASSUME NEW k \in Keys, AdmitDeletion(k) PROVE Waived'
  BY <1>5 DEF AdmitDeletion, Deletable, vars, Live
<1>6. ASSUME NEW k \in Keys, DeleteObject(k) PROVE Waived'
  <2>1. CASE UserDelete(k)
    <3>1. PICK e \in Object \cup {None} : Puts(k, e) /\ (e # None => e.uid = Live(k).uid)
      BY <1>0, <2>1, DeletePuts
    <3>2. Live(k) # None
      BY <2>1 DEF UserDelete
    <3> QED BY <1>6, <3>1, <3>2 DEF DeleteObject, Puts
  <2>2. CASE UNCHANGED vars
    BY <1>6, <2>2 DEF DeleteObject, vars, Live
  <2> QED BY <1>6, <2>1, <2>2 DEF DeleteObject
<1>7. ASSUME NEW p \in Pods, RequestPod(p) \/ AdmitPod(p) \/ DeletePod(p) PROVE Waived'
  <2>1. UNCHANGED <<log, allow, deleting, history>>
    BY <1>7 DEF RequestPod, AdmitPod, DeletePod, GetObject, GetInstanceSecret, CreateLocal,
                GetLocal, PatchLocal, vars
  <2> QED BY <2>1 DEF Live
<1>8. ASSUME NEW at \in Namespaces \X Keys, CollectLocal(at) PROVE Waived'
  BY <1>8 DEF CollectLocal, vars, Live
<1> QED BY <1>1, <1>2, <1>3, <1>4, <1>5, <1>6, <1>7, <1>8 DEF WebhookNext, vars

LEMMA WaivedGrows ==
  ASSUME WebhookTypeOK, [WebhookNext]_<<vars, admission>>
  PROVE  history.waived \subseteq history'.waived
<1>1. ASSUME NEW k \in Keys,
             CreateObject(k) \/ AnnotateObject(k) \/ AdmitDeletion(k) \/ DeleteObject(k)
      PROVE  history.waived \subseteq history'.waived
  BY <1>1 DEF CreateObject, AnnotateObject, AdmitDeletion, DeleteObject, Waive, WebhookTypeOK,
              History
<1>2. ASSUME NEW p \in Pods, RequestPod(p) \/ AdmitPod(p) \/ DeletePod(p)
      PROVE  UNCHANGED history
  BY <1>2 DEF RequestPod, AdmitPod, DeletePod, GetObject, GetInstanceSecret, CreateLocal,
              GetLocal, PatchLocal
<1>3. ASSUME NEW at \in Namespaces \X Keys, CollectLocal(at) PROVE UNCHANGED history
  BY <1>3 DEF CollectLocal
<1> QED BY <1>1, <1>2, <1>3 DEF WebhookNext, admission

LEMMA GuardStep ==
  ASSUME NoSharedName, ControllerInv, WebhookTypeOK, Waived, NoAccidentalDeletion,
         [WebhookNext]_<<vars, admission>>
  PROVE  NoAccidentalDeletion'
<1>0. TypeOK /\ OrphanInv /\ AgreementInv
  BY DEF ControllerInv, AgreementInv, OrphanInv
<1>1. history.waived \subseteq history'.waived
  BY WaivedGrows
<1>2. CASE UNCHANGED cloud
  BY <1>1, <1>2 DEF NoAccidentalDeletion
<1>3. CASE [Next]_vars /\ ~UNCHANGED cloud
  <2>1. PICK n \in Names : /\ \A m \in Names \ {n} : cloud'[m] = cloud[m]
                           /\ Owned(n) \/ Freed(n) \/ Asked(n) \/ MadeNow(n)
    BY <1>0, <1>3, CloudSteps DEF CloudStep
  <2>2. ASSUME cloud'[n].by # None, cloud'[n].asked
        PROVE  cloud'[n].by[2] \in history'.waived
    <3>1. CASE Owned(n)
      BY <1>1, <2>2, <3>1 DEF Owned, NoAccidentalDeletion
    <3>2. CASE Asked(n) /\ cloud[n].asked
      BY <1>1, <2>2, <3>2 DEF Asked, NoAccidentalDeletion
    <3>3. CASE Asked(n) /\ ~cloud[n].asked
      <4>1. /\ cloud[n].by = <<w.key, Live(w.key).uid>>
            /\ Live(w.key) # None /\ Live(w.key).del
        BY <1>0, <1>3, <2>2, <3>3, CondemnedStep DEF Asked, MadeFor
      <4>2. w.key \in Keys
        BY <1>0, <3>3, CriticalKey DEF Asked, DeleteInstance, At, Critical
      <4> QED BY <1>1, <3>3, <4>1, <4>2 DEF Asked, Waived
    <3> QED BY <2>1, <2>2, <3>1, <3>2, <3>3 DEF Freed, MadeNow
  <2> QED BY <1>1, <2>1, <2>2 DEF NoAccidentalDeletion
<1> QED BY <1>0, <1>2, <1>3, ControllerSide DEF Aside
-----------------------------------------------------------------------------
(* The theorems about types and the guard.                                 *)

LEMMA GuardInvariance ==
  ASSUME NoSharedName
  PROVE  WebhookSpec => []GuardInv
<1>1. ASSUME WebhookInit PROVE GuardInv
  <2>1. Init
    BY <1>1 DEF WebhookInit
  <2>2. \A k \in Keys : Live(k) = None
    BY <2>1 DEF Init, Live
  <2>3. Waived /\ Tidy
    BY <2>2 DEF Waived, Tidy
  <2>4. NoAccidentalDeletion
    BY <2>1 DEF Init, Gone, NoAccidentalDeletion
  <2> QED BY <1>1, <2>1, <2>3, <2>4, AgreementInit, WebhookInitType DEF GuardInv, ControllerInv
<1>2. ASSUME GuardInv, [WebhookNext]_<<vars, admission>> PROVE GuardInv'
  <2>1. TypeOK
    BY <1>2 DEF GuardInv, ControllerInv, AgreementInv, OrphanInv
  <2> QED BY <1>2, <2>1, ControllerInvStep, WebhookTypeStep, WaivedStep, GuardStep DEF GuardInv
<1> QED BY <1>1, <1>2, PTL DEF WebhookSpec

\* The webhook's variables stay within their types, and whoever writes the
\* secret of a namespace knows its object, for any number of pods.
THEOREM WebhookTypeCorrect ==
  ASSUME NoSharedName
  PROVE  WebhookSpec => []WebhookTypeOK
BY GuardInvariance, PTL DEF GuardInv

\* An instance is deleted only if its object has allowed that, or was created
\* when the deletion of its name had been admitted, whatever the cache shows,
\* whatever fails, and however often the annotation changes.
THEOREM DeletionIsGuarded ==
  ASSUME NoSharedName
  PROVE  WebhookSpec => []NoAccidentalDeletion
BY GuardInvariance, PTL DEF GuardInv
-----------------------------------------------------------------------------
(* The controller beside the webhook.                                      *)

LEMMA LifecycleBeside ==
  ASSUME NoSharedName, LifecycleInv, [WebhookNext]_<<vars, admission>>
  PROVE  LifecycleInv' /\ [Lifecycle!Next]_(Lifecycle!vars)
<1>1. CASE [Next]_vars
  BY <1>1, LifecycleStep
<1>2. CASE Aside
  <2>1. AgreementInv' /\ Tidy'
    BY <1>2, AsideInv DEF LifecycleInv, ControllerInv
  <2>2. UNCHANGED <<cloud, log>>
    BY <1>2 DEF Aside
  <2>3. Unmade'
    BY <2>2 DEF LifecycleInv, Unmade, MadeFor, Live
  <2>4. UNCHANGED (Lifecycle!vars)
    BY <2>2 DEF Lifecycle!vars, ObjectState, InstanceState, MadeFor, Live
  <2> QED BY <2>1, <2>3, <2>4 DEF LifecycleInv
<1>3. TypeOK
  BY DEF LifecycleInv, AgreementInv, OrphanInv
<1> QED BY <1>1, <1>2, <1>3, ControllerSide

\* An instance is deleted, beside the webhook too, only by the controller.
LEMMA CondemnedBeside ==
  ASSUME NoSharedName, AgreementInv, [WebhookNext]_<<vars, admission>>
  PROVE  [\A n \in Names :
            ~cloud[n].asked /\ cloud'[n].asked /\ cloud[n].by # None
              => /\ cloud[n].by[1] = w.key
                 /\ MadeFor(n, w.key, Live(w.key))
                 /\ Live(w.key).del]_vars
<1>1. TypeOK
  BY DEF AgreementInv, OrphanInv
<1>2. CASE [Next]_vars
  BY <1>2, CondemnedStep
<1>3. CASE Aside
  BY <1>3 DEF Aside
<1> QED BY <1>1, <1>2, <1>3, ControllerSide

\* What the controller promises on its own it keeps beside the webhook, whose
\* calls take their share of the failures and whose guard delays the deletion
\* of objects: nothing is orphaned, the two places of a password agree, only
\* what is condemned is deleted, and every step is one of the lifecycle.
THEOREM ControllerBesideWebhook ==
  ASSUME NoSharedName
  PROVE  WebhookSpec => /\ [](NoOrphan /\ PasswordAgreement)
                        /\ CondemnedOnly
                        /\ ImplementsLifecycle
<1>1. WebhookInit => LifecycleInv /\ Lifecycle!Init
  BY LifecycleInit DEF WebhookInit
<1>2. LifecycleInv /\ [WebhookNext]_<<vars, admission>>
        => LifecycleInv' /\ [Lifecycle!Next]_(Lifecycle!vars)
  BY LifecycleBeside
<1>3. LifecycleInv => NoOrphan /\ PasswordAgreement
  BY DEF LifecycleInv, AgreementInv, OrphanInv
<1>4. LifecycleInv /\ [WebhookNext]_<<vars, admission>>
        => [\A n \in Names :
              ~cloud[n].asked /\ cloud'[n].asked /\ cloud[n].by # None
                => /\ cloud[n].by[1] = w.key
                   /\ MadeFor(n, w.key, Live(w.key))
                   /\ Live(w.key).del]_vars
  BY CondemnedBeside DEF LifecycleInv
<1> QED BY <1>1, <1>2, <1>3, <1>4, PTL
        DEF WebhookSpec, CondemnedOnly, ImplementsLifecycle, Lifecycle!Spec
-----------------------------------------------------------------------------
(* What is in the log of versions, and what the worker knows of it.        *)

LEMMA LoggedFacts ==
  ASSUME TypeOK, NEW k \in Keys
  PROVE  /\ Live(k) \in Logged(k) /\ Cached(k) \in Logged(k)
         /\ Logged(k) \subseteq Object \cup {None}
<1>1. /\ log[k] \in Seq(Object \cup {None}) /\ log[k] # <<>>
      /\ Len(log[k]) \in Nat \ {0} /\ Len(log[k]) \in 1 .. Len(log[k])
  BY LogType
<1>2. 1 \in 1 .. Len(log[k])
  BY <1>1
<1>3. \A j \in 1 .. Len(log[k]) : log[k][j] \in Object \cup {None}
  BY <1>1
<1> QED BY <1>1, <1>2, <1>3 DEF Logged, Live, Cached

LEMMA LoggedMove ==
  ASSUME TypeOK, NEW k \in Keys, LogMove(k)
  PROVE  Logged(k)' \subseteq Logged(k) \cup {Live(k)'}
<1>1. /\ log[k] \in Seq(Object \cup {None}) /\ log[k] # <<>>
      /\ Len(log[k]) \in Nat \ {0} /\ Len(log[k]) \in 1 .. Len(log[k])
  BY LogType
<1>2. CASE log'[k] = log[k]
  BY <1>2 DEF Logged
<1>3. CASE log'[k] = <<Live(k)>>
  BY <1>3, LoggedFacts DEF Logged
<1>4. CASE Len(log[k]) > 1 /\ log'[k] = Tail(log[k])
  <2>1. \A j \in 1 .. Len(log'[k]) : j + 1 \in 1 .. Len(log[k]) /\ log'[k][j] = log[k][j + 1]
    BY <1>1, <1>4
  <2> QED BY <2>1 DEF Logged
<1>5. ASSUME NEW e \in Object \cup {None}, log'[k] = Append(log[k], e)
      PROVE  Logged(k)' \subseteq Logged(k) \cup {Live(k)'}
  <2>1. /\ Len(log'[k]) = Len(log[k]) + 1 /\ log'[k][Len(log[k]) + 1] = e
        /\ \A j \in 1 .. Len(log[k]) : log'[k][j] = log[k][j]
    BY <1>1, <1>5, AppendFacts
  <2>2. \A j \in 1 .. Len(log'[k]) : j \in 1 .. Len(log[k]) \/ j = Len(log[k]) + 1
    BY <1>1, <2>1
  <2>3. Live(k)' = e
    BY <2>1 DEF Live
  <2> QED BY <2>1, <2>2, <2>3 DEF Logged
<1> QED BY <1>2, <1>3, <1>4, <1>5 DEF LogMove
-----------------------------------------------------------------------------
(* What a step of the worker carries on.                                   *)

\* What the worker knows comes from what it knew, from the cache or from the server.
Carries ==
  /\ w'.key = w.key /\ w'.p.uid = w.p.uid
  /\ Tells(w'.p) => Tells(w.p) \/ w.pc \in {"MaybeUpdate", "GetUpdated"}
Picks == \E k \in Keys :
  /\ w'.key = k /\ Cached(k) # None /\ w'.p = Cached(k)
  /\ w'.pc \in {"DeleteGet", "AddFinalizer", "Get"}
  /\ w'.pc = "DeleteGet" => Condemned(Cached(k))
  /\ w'.pc # "DeleteGet" => ~Cached(k).del
Fetches ==
  /\ w.pc = "AddFinalizer" /\ w'.pc = "Get" /\ w'.key = w.key
  /\ Live(w.key) # None /\ w'.p.uid = Live(w.key).uid /\ (Tells(w'.p) <=> Tells(Live(w.key)))
Stops == w'.key = None /\ w'.pc \in {"Idle", "Panic"}

\* ... and how it gets from step to step.
Proceeds ==
  /\ w'.pc \in Setting \cup {"AddFinalizer"} => w.pc \in Setting \cup {"AddFinalizer"}
  /\ w'.pc \in Deletion => w.pc \in Deletion
  /\ w'.pc \in {"MaybeUpdate", "GetUpdated"}
       => w.pc \in {"MaybeUpdate", "GetUpdated"} \/ Known(w.key)'
  /\ w'.pc = "PutSecret" => w'.pw # None
  /\ w'.pc \in {"Idle", "Panic"} => w.pc \in {"Idle", "Panic"}

\* The worker goes on about the same object.
About(v) == v.key = w.key /\ v.p.uid = w.p.uid /\ (Tells(v.p) <=> Tells(w.p))

LEMMA LeaveAbout ==
  ASSUME NEW v, Busy(v), About(v), NEW err \in BOOLEAN
  PROVE  /\ About(Leave(v, err)) /\ Leave(v, err).pc = "PatchStatus"
         /\ \A pc \in Steps : About(Goto(v, pc)) /\ Goto(v, pc).pc = pc
BY DEF Busy, Worker, Leave, Goto, About

LEMMA CondSame ==
  ASSUME Busy(w), NEW r
  PROVE  /\ About([w EXCEPT !.p.conds.created = r])
         /\ About([w EXCEPT !.p.conds.ready = r])
         /\ LET x == [w EXCEPT !.p.conds.upToDate = r] IN x.key = w.key /\ x.p.uid = w.p.uid
BY DEF About, Tells, Busy, Worker, Object, Conditions

Source == (Carries /\ Proceeds) \/ Picks \/ Fetches \/ Stops

LEMMA AboutSource ==
  ASSUME About(w'), w'.pc = w.pc /\ w'.pw = w.pw, Chosen
  PROVE  Source
BY DEF About, Source, Carries, Proceeds, Chosen, At

LEMMA IdleStops == Idle.key = None /\ Idle.pc = "Idle"
                   /\ LET x == [Idle EXCEPT !.pc = "Panic"] IN x.key = None /\ x.pc = "Panic"
BY DEF Idle

LEMMA StartSource ==
  ASSUME TypeOK, NEW k \in Keys, StartSync(k)
  PROVE  Source
<1> DEFINE i == Cached(k)
           pc == FirstStep(i)
           v == [Idle EXCEPT !.pc = pc, !.key = k, !.i = i, !.p = i]
<1>1. w' = IF pc = "Idle" THEN Idle ELSE v
  BY DEF StartSync
<1>2. v.pc = pc /\ v.key = k /\ v.p = i
  BY DEF Idle
<1>3. CASE pc = "Idle"
  BY <1>1, <1>3, IdleStops DEF Source, Stops
<1>4. CASE pc # "Idle"
  <2>1. i # None /\ pc \in {"DeleteGet", "AddFinalizer", "Get"}
        /\ (pc = "DeleteGet" => Condemned(i)) /\ (pc # "DeleteGet" => ~i.del)
    BY <1>4 DEF FirstStep, Condemned, Protected
  <2> HIDE DEF v, pc
  <2>2. w'.pc = pc /\ w'.key = k /\ w'.p = i
    BY <1>1, <1>2, <1>4
  <2> QED BY <2>1, <2>2 DEF Source, Picks
<1> QED BY <1>3, <1>4

LEMMA EarlySource ==
  ASSUME TypeOK, GetInstance \/ InsertInstance \/ GetNewInstance \/ ListOperations
  PROVE  Source
<1>1. Busy(w) /\ w.pc \in Setting
  BY BusyType DEF GetInstance, InsertInstance, GetNewInstance, ListOperations, At, Setting
<1>2. TRUE \in BOOLEAN /\ FALSE \in BOOLEAN /\ {"Insert", "GetNew", "GetSecret"} \subseteq Steps
  BY DEF Steps
<1>3. Found.pc = "ListOps" /\ About(Found)
  BY <1>1 DEF Found, Busy, Worker, About
<1> SUFFICES About(w') /\ w'.pc \in {"ListOps", "Insert", "GetNew", "GetSecret", "PatchStatus"}
  BY <1>1 DEF About, Source, Carries, Proceeds, Setting, Deletion
<1>8. About(w)
  BY DEF About
<1>4. CASE GetInstance \/ GetNewInstance
  <2>1. w' = Found \/ w' = Goto(w, "Insert") \/ w' = Leave(w, TRUE)
    BY <1>4 DEF GetInstance, GetNewInstance
  <2>2. About(Leave(w, TRUE)) /\ Leave(w, TRUE).pc = "PatchStatus"
        /\ About(Goto(w, "Insert")) /\ Goto(w, "Insert").pc = "Insert"
    BY <1>1, <1>2, <1>8, LeaveAbout
  <2> QED BY <1>3, <2>1, <2>2
<1>5. CASE InsertInstance
  <2> DEFINE created(reason) == [w EXCEPT !.p.conds.created = reason]
  <2>1. PICK r \in {"InstanceCreated", "NameUnavailable", "InvalidSpec", "UnexpectedError"} :
          w' = Goto(created(r), "GetNew") \/ \E err \in BOOLEAN : w' = Leave(created(r), err)
    BY <1>5 DEF InsertInstance
  <2>2. Busy(created(r)) /\ About(created(r))
    BY <1>1, <2>1, CondBusy, CondSame
  <2> HIDE DEF created
  <2>3. /\ About(Goto(created(r), "GetNew")) /\ Goto(created(r), "GetNew").pc = "GetNew"
        /\ \A err \in BOOLEAN : /\ About(Leave(created(r), err))
                               /\ Leave(created(r), err).pc = "PatchStatus"
    BY <1>2, <2>2, LeaveAbout
  <2> QED BY <2>1, <2>3
<1>6. CASE ListOperations
  <2> DEFINE ready(reason) == [w EXCEPT !.p.conds.ready = reason]
  <2>1. PICK r \in {"UnexpectedError", "OperationInProgress", "InstanceNotReady", "InstanceReady"} :
          w' = Goto(ready(r), "GetSecret") \/ \E err \in BOOLEAN : w' = Leave(ready(r), err)
    BY <1>6 DEF ListOperations
  <2>2. Busy(ready(r)) /\ About(ready(r))
    BY <1>1, <2>1, CondBusy, CondSame
  <2> HIDE DEF ready
  <2>3. /\ About(Goto(ready(r), "GetSecret")) /\ Goto(ready(r), "GetSecret").pc = "GetSecret"
        /\ \A err \in BOOLEAN : /\ About(Leave(ready(r), err))
                               /\ Leave(ready(r), err).pc = "PatchStatus"
    BY <1>2, <2>2, LeaveAbout
  <2> QED BY <2>1, <2>3
<1> QED BY <1>4, <1>5, <1>6

LEMMA SecretSource ==
  ASSUME TypeOK, GetSecret \/ CreateSecret \/ SetPassword \/ PutSecret, Chosen
  PROVE  Source
<1>1. Busy(w) /\ w.pc \in Setting /\ w.key \in Keys
  BY BusyType DEF GetSecret, CreateSecret, SetPassword, PutSecret, At, Setting, Busy
<1>2. TRUE \in BOOLEAN /\ {"CreateSecret", "SetPassword", "MaybeUpdate"} \subseteq Steps
  BY DEF Steps
<1>3. /\ LET x == Leave(w, TRUE) IN About(x) /\ x.pc = "PatchStatus"
      /\ LET x == [Leave(w, TRUE) EXCEPT !.pw = None] IN About(x) /\ x.pc = "PatchStatus"
      /\ \A pc \in {"CreateSecret", "SetPassword", "MaybeUpdate"} :
           LET x == Goto(w, pc) IN About(x) /\ x.pc = pc
  <2>1. /\ LET x == Leave(w, TRUE) IN About(x) /\ x.pc = "PatchStatus"
        /\ \A pc \in {"CreateSecret", "SetPassword", "MaybeUpdate"} :
             LET x == Goto(w, pc) IN About(x) /\ x.pc = pc
    BY <1>1, <1>2, LeaveAbout DEF About
  <2>2. LET x == [Leave(w, TRUE) EXCEPT !.pw = None] IN About(x) /\ x.pc = "PatchStatus"
    BY <1>1 DEF Busy, Worker, Leave, About
  <2> QED BY <2>1, <2>2
<1> SUFFICES
      /\ About(w')
      /\ \/ w'.pc \in {"CreateSecret", "SetPassword", "PatchStatus"}
         \/ w'.pc = "MaybeUpdate" /\ Known(w.key)'
         \/ w'.pc = "PutSecret" /\ w'.pw # None
  BY <1>1 DEF About, Source, Carries, Proceeds, Setting, Deletion
<1>4. CASE GetSecret
  <2>1. \/ w' = Leave(w, TRUE) \/ w' = Goto(w, "CreateSecret") \/ w' = Goto(w, "SetPassword")
        \/ w' = Goto(w, "MaybeUpdate") /\ secret[w.key] # None /\ secret[w.key].pw # None
    BY <1>4 DEF GetSecret
  <2>2. secret' = secret
    BY <1>4 DEF GetSecret
  <2>3. w' = Goto(w, "MaybeUpdate") => w'.key = w.key
    BY <1>3 DEF About
  <2> QED BY <1>3, <2>1, <2>2, <2>3 DEF Known
<1>5. CASE CreateSecret
  BY <1>3, <1>5 DEF CreateSecret
<1>6. CASE SetPassword
  <2>1. w' = Leave(w, TRUE)
        \/ \E pw \in Passwords : w' = [w EXCEPT !.pc = "PutSecret", !.pw = pw]
    BY <1>6 DEF SetPassword
  <2>2. \A pw \in Passwords : LET x == [w EXCEPT !.pc = "PutSecret", !.pw = pw]
                             IN About(x) /\ x.pc = "PutSecret" /\ x.pw = pw
    BY <1>1 DEF Busy, Worker, About
  <2>3. CASE w' = Leave(w, TRUE)
    BY <1>3, <2>3
  <2>4. ASSUME NEW pw \in Passwords, w' = [w EXCEPT !.pc = "PutSecret", !.pw = pw]
        PROVE  About(w') /\ w'.pc = "PutSecret" /\ w'.pw # None
    BY <2>2, <2>4, CloudAssumption
  <2> QED BY <2>1, <2>3, <2>4
<1>7. CASE PutSecret
  <2>1. PICK o \in Outcomes(IF secret[w.key] = None THEN NotFound ELSE Ok) :
          /\ secret' = IF o.applied THEN [secret EXCEPT ![w.key].pw = w.pw] ELSE secret
          /\ w' = IF o.code = Ok THEN [w EXCEPT !.pc = "MaybeUpdate", !.pw = None]
                                 ELSE [Leave(w, TRUE) EXCEPT !.pw = None]
    BY <1>7 DEF PutSecret
  <2>2. LET x == [w EXCEPT !.pc = "MaybeUpdate", !.pw = None] IN About(x) /\ x.pc = "MaybeUpdate"
    BY <1>1 DEF Busy, Worker, About
  <2>3. o.code = Ok => o.applied /\ secret[w.key] # None
    BY <2>1, OutcomeFacts DEF Ok, NotFound
  <2>4. w.pw # None
    BY <1>7 DEF PutSecret, Chosen
  <2>5. o.code = Ok => Known(w.key)'
    <3>1. ASSUME o.code = Ok PROVE secret'[w.key] = [secret[w.key] EXCEPT !.pw = w.pw]
                                   /\ secret[w.key] \in Secret
      BY <1>1, <2>1, <2>3, <3>1 DEF TypeOK
    <3>2. ASSUME o.code = Ok PROVE secret'[w.key].pw = w.pw /\ secret'[w.key] # None
      BY <1>1, <3>1, <3>2, SecretAssumption DEF Secret, Busy, Worker
    <3>3. ASSUME o.code = Ok PROVE w'.key = w.key
      BY <2>1, <2>2, <3>3 DEF About
    <3> QED BY <2>4, <3>2, <3>3 DEF Known
  <2> QED BY <1>3, <2>1, <2>2, <2>5
<1> QED BY <1>4, <1>5, <1>6, <1>7

LEMMA LateSource ==
  ASSUME TypeOK, SkipUpdate \/ UpdateInstance \/ GetUpdatedInstance
  PROVE  Source
<1>1. Busy(w) /\ w.pc \in {"MaybeUpdate", "GetUpdated"}
  BY BusyType DEF SkipUpdate, UpdateInstance, GetUpdatedInstance, At
<1> SUFFICES /\ w'.key = w.key /\ w'.p.uid = w.p.uid
             /\ w'.pc \in {"GetUpdated", "PatchStatus"}
  BY <1>1 DEF Source, Carries, Proceeds, Setting, Deletion
<1>2. CASE SkipUpdate
  <2>1. LET x == [Leave(w, FALSE) EXCEPT !.p.conds.upToDate = "InstanceUpToDate", !.p.conn = TRUE]
        IN x.key = w.key /\ x.p.uid = w.p.uid /\ x.pc = "PatchStatus"
    BY <1>1 DEF Busy, Worker, Object, Leave
  <2> QED BY <1>2, <2>1 DEF SkipUpdate
<1>3. CASE UpdateInstance
  <2> DEFINE upToDate(reason) == [w EXCEPT !.p.conds.upToDate = reason]
  <2>1. PICK r \in {"InstanceUpdated", "Conflict", "InvalidSpec", "UnexpectedError"} :
          \/ w' = Goto(upToDate(r), "GetUpdated")
          \/ w' = [Leave(upToDate(r), FALSE) EXCEPT !.nil = TRUE]
          \/ w' = Leave(upToDate(r), TRUE)
    BY <1>3 DEF UpdateInstance
  <2>2. Busy(upToDate(r)) /\ upToDate(r).key = w.key /\ upToDate(r).p.uid = w.p.uid
    BY <1>1, <2>1, CondBusy, CondSame
  <2> HIDE DEF upToDate
  <2>3. /\ LET x == Goto(upToDate(r), "GetUpdated")
           IN x.key = w.key /\ x.p.uid = w.p.uid /\ x.pc = "GetUpdated"
        /\ LET x == [Leave(upToDate(r), FALSE) EXCEPT !.nil = TRUE]
           IN x.key = w.key /\ x.p.uid = w.p.uid /\ x.pc = "PatchStatus"
        /\ LET x == Leave(upToDate(r), TRUE)
           IN x.key = w.key /\ x.p.uid = w.p.uid /\ x.pc = "PatchStatus"
    BY <2>2 DEF Busy, Worker, Goto, Leave
  <2> QED BY <2>1, <2>3
<1>4. CASE GetUpdatedInstance
  <2>1. w' = [Leave(w, FALSE) EXCEPT !.p.conn = TRUE] \/ w' = Leave(w, TRUE)
    BY <1>4 DEF GetUpdatedInstance
  <2>2. LET x == [Leave(w, FALSE) EXCEPT !.p.conn = TRUE]
        IN x.key = w.key /\ x.p.uid = w.p.uid /\ x.pc = "PatchStatus"
    BY <1>1 DEF Busy, Worker, Object, Leave
  <2>3. LET x == Leave(w, TRUE) IN x.key = w.key /\ x.p.uid = w.p.uid /\ x.pc = "PatchStatus"
    BY <1>1 DEF Busy, Worker, Leave
  <2> QED BY <2>1, <2>2, <2>3
<1> QED BY <1>2, <1>3, <1>4

LEMMA DeleteSource ==
  ASSUME TypeOK, DeleteGet \/ DeleteInstance
  PROVE  Source
<1>1. Busy(w) /\ w.pc \in Deletion /\ About(w)
  BY BusyType DEF DeleteGet, DeleteInstance, At, Deletion, About
<1>2. w' = Idle \/ w' = Goto(w, "Delete") \/ w' = Goto(w, "RemoveFinalizer")
  BY DEF DeleteGet, DeleteInstance, Return
<1>3. \A pc \in {"Delete", "RemoveFinalizer"} : About(Goto(w, pc)) /\ Goto(w, pc).pc = pc
  BY <1>1, LeaveAbout DEF Steps
<1>4. CASE w' = Idle
  BY <1>4, IdleStops DEF Source, Stops
<1>5. ASSUME NEW pc \in {"Delete", "RemoveFinalizer"}, w' = Goto(w, pc) PROVE Source
  BY <1>1, <1>3, <1>5 DEF About, Source, Carries, Proceeds, Setting, Deletion
<1> QED BY <1>2, <1>4, <1>5

LEMMA EndSource ==
  ASSUME TypeOK, PatchStatus \/ RemoveFinalizer \/ Restart
  PROVE  Source
<1>1. w' = Idle \/ w' = [Idle EXCEPT !.pc = "Panic"]
  BY DEF PatchStatus, RemoveFinalizer, Restart, AfterPatch, Return
<1> QED BY <1>1, IdleStops DEF Source, Stops

LEMMA AddSource ==
  ASSUME TypeOK, AddFinalizer
  PROVE  Source
<1>1. Busy(w) /\ w.pc = "AddFinalizer" /\ Live(w.key) \in Object \cup {None}
  BY BusyType, LiveType DEF AddFinalizer, At, Busy
<1> DEFINE live == Live(w.key)
           e == [live EXCEPT !.fin = TRUE]
           v == [w EXCEPT !.pc = "Get", !.rv = "current", !.p = e]
<1>2. PICK o \in Outcomes(IF live = None THEN NotFound ELSE Ok) :
        IF o.code # Ok \/ live.paused THEN Return(o.code # Ok) ELSE w' = v
  BY DEF AddFinalizer
<1>3. o.code = Ok => live # None
  BY <1>2, OutcomeFacts DEF Ok, NotFound
<1>4. live \in Object => e.uid = live.uid /\ (Tells(e) <=> Tells(live))
  BY DEF Object, Tells
<1> HIDE DEF e
<1>5. v.pc = "Get" /\ v.key = w.key /\ v.p = e
  BY <1>1 DEF Busy, Worker
<1> HIDE DEF v
<1> QED BY <1>1, <1>2, <1>3, <1>4, <1>5, IdleStops DEF Return, Source, Stops, Fetches

LEMMA WorkSource ==
  ASSUME TypeOK, Chosen, [Next]_vars
  PROVE  Source
<1>1. CASE UNCHANGED w
  BY <1>1, AboutSource DEF About
<1>2. ASSUME NEW k \in Keys, UserCreate(k) \/ UserEdit(k) \/ UserAnnotate(k) \/ UserDelete(k)
      PROVE  Source
  <2>1. w' = w \/ w' = [w EXCEPT !.rv = "outdated"]
    BY <1>2 DEF UserCreate, UserEdit, UserAnnotate, UserDelete, UserWrite, Outdate
  <2>2. w \in Worker
    BY DEF TypeOK
  <2>3. About(w') /\ w'.pc = w.pc /\ w'.pw = w.pw
    BY <2>1, <2>2 DEF Worker, About
  <2> QED BY <2>3, AboutSource
<1>3. CASE Continue
  BY <1>3, EarlySource, SecretSource, LateSource, DeleteSource, EndSource, AddSource
     DEF Continue, Panic
<1>4. CASE Environment
  BY <1>1, <1>2, <1>4, EndSource
     DEF Environment, Crash, Deliver, Resync, CollectSecret, CloudFinish, CloudRelease,
         CloudFail, CloudDrift
<1> QED BY <1>1, <1>3, <1>4, StartSource DEF Next, vars
-----------------------------------------------------------------------------
(* What happens to the secret of an object.                                *)

\* The secret of k: it is kept, collected, created or given a password.
Collected(k) ==
  /\ secret'[k] = None
  /\ ~(Live(k) # None /\ Live(k).uid = secret[k].uid)
Begun(k) ==
  /\ w.key = k /\ secret[k] = None
  /\ secret'[k] # None /\ secret'[k].uid = w.p.uid /\ secret'[k].pw = None
Given(k) ==
  /\ PutSecret /\ w.key = k
  /\ secret[k] # None /\ secret[k].pw = None
  /\ secret'[k] # None /\ secret'[k].uid = secret[k].uid /\ secret'[k].pw = w.pw
SecretMove(k) == secret'[k] = secret[k] \/ Collected(k) \/ Begun(k) \/ Given(k)

LEMMA SecretMoves ==
  ASSUME TypeOK, Blank, [Next]_vars
  PROVE  \A k \in Keys : SecretMove(k)
<1>0. secret \in [Keys -> Secret \cup {None}]
  BY DEF TypeOK
<1>1. CASE UNCHANGED secret
  BY <1>1 DEF SecretMove
<1>2. CASE CreateSecret
  <2> DEFINE s == [uid |-> w.p.uid, pw |-> None]
  <2>1. Busy(w)
    BY <1>2, BusyType DEF CreateSecret, At
  <2>2. s \in Secret /\ s # None /\ s.uid = w.p.uid /\ s.pw = None
    BY <2>1, SecretAssumption DEF Secret, Busy, Object
  <2>3. PICK o \in Outcomes(IF secret[w.key] = None THEN Ok ELSE Conflict) :
          secret' = IF o.applied THEN [secret EXCEPT ![w.key] = s] ELSE secret
    BY <1>2 DEF CreateSecret
  <2>4. o.applied => secret[w.key] = None
    BY <2>3, OutcomeFacts DEF Ok, Conflict
  <2> HIDE DEF s
  <2>5. secret' = secret \/ (secret' = [secret EXCEPT ![w.key] = s] /\ secret[w.key] = None)
    BY <2>3, <2>4
  <2> QED BY <1>0, <1>1, <2>1, <2>2, <2>5 DEF SecretMove, Begun, Busy
<1>3. CASE PutSecret
  <2> DEFINE s == [secret[w.key] EXCEPT !.pw = w.pw]
  <2>1. Busy(w)
    BY <1>3, BusyType DEF PutSecret, At
  <2>2. PICK o \in Outcomes(IF secret[w.key] = None THEN NotFound ELSE Ok) :
          secret' = IF o.applied THEN [secret EXCEPT ![w.key] = s] ELSE secret
    BY <1>3 DEF PutSecret
  <2>3. o.applied => secret[w.key] # None
    BY <2>2, OutcomeFacts DEF Ok, NotFound
  <2>4. secret[w.key] # None => /\ s \in Secret /\ s # None
                                /\ s.uid = secret[w.key].uid /\ s.pw = w.pw
    BY <1>0, <2>1, SecretAssumption DEF Secret, Busy, Worker
  <2>5. secret[w.key] # None => secret[w.key].pw = None
    BY <1>3 DEF PutSecret, At, Blank
  <2> HIDE DEF s
  <2> QED BY <1>0, <1>1, <1>3, <2>1, <2>2, <2>3, <2>4, <2>5 DEF SecretMove, Given, Busy
<1>4. ASSUME NEW k \in Keys, CollectSecret(k) PROVE \A j \in Keys : SecretMove(j)
  BY <1>0, <1>4 DEF CollectSecret, SecretMove, Collected
<1>5. CASE Continue
  BY <1>1, <1>2, <1>3, <1>5
     DEF Continue, AddFinalizer, GetInstance, InsertInstance, GetNewInstance, ListOperations,
         GetSecret, SetPassword, SkipUpdate, UpdateInstance, GetUpdatedInstance, PatchStatus,
         DeleteGet, DeleteInstance, RemoveFinalizer, Panic, Restart
<1>6. CASE Environment
  BY <1>1, <1>4, <1>6
     DEF Environment, Crash, Restart, Deliver, Resync, UserCreate, UserEdit, UserAnnotate,
         UserDelete, UserWrite, CloudFinish, CloudRelease, CloudFail, CloudDrift
<1>7. ASSUME NEW k \in Keys, StartSync(k) PROVE UNCHANGED secret
  BY <1>7 DEF StartSync
<1> QED BY <1>1, <1>5, <1>6, <1>7 DEF Next, vars
-----------------------------------------------------------------------------
(* What a new version of an object says.                                   *)

\* A new version tells of the instance when the last one did, or when the worker
\* has something to tell.
Reports(k) ==
  Live(k)' # None /\ Tells(Live(k)')
    => (Live(k) # None /\ Tells(Live(k))) \/ (w.key = k /\ Tells(w.p))

LEMMA PutsReports ==
  ASSUME NEW k \in Keys, NEW e, Puts(k, e),
         e # None /\ Tells(e) => (Live(k) # None /\ Tells(Live(k))) \/ (w.key = k /\ Tells(w.p))
  PROVE  \A j \in Keys : Reports(j)
BY DEF Puts, Reports

LEMMA UserReports ==
  ASSUME TypeOK, NEW k \in Keys,
         UserCreate(k) \/ UserEdit(k) \/ UserAnnotate(k) \/ UserDelete(k)
  PROVE  \A j \in Keys : Reports(j)
<1>1. Live(k) \in Object \cup {None}
  BY LiveType
<1>2. ASSUME NEW e \in Object \cup {None}, UserWrite(k, e),
             e # None /\ Tells(e) => Live(k) # None /\ Tells(Live(k))
      PROVE  \A j \in Keys : Reports(j)
  BY <1>2, AppendPuts, PutsReports DEF UserWrite
<1>3. CASE UserCreate(k)
  <2> DEFINE blank(n, s) ==
        [uid |-> used.uids + 1, name |-> n, s |-> s, paused |-> FALSE,
         del |-> FALSE, fin |-> FALSE, conn |-> FALSE,
         conds |-> [created |-> "", ready |-> "", upToDate |-> ""]]
  <2>1. PICK n \in Names, s \in Settings : UserWrite(k, blank(n, s))
    BY <1>3 DEF UserCreate
  <2>2. used.uids + 1 \in Uid
    <3>1. used.uids \in 0 .. MaxUid
      BY DEF TypeOK
    <3> QED BY <3>1, BoundsType DEF Uid
  <2>3. blank(n, s) \in Object /\ ~Tells(blank(n, s))
    BY <2>2 DEF Object, Conditions, Tells
  <2> HIDE DEF blank
  <2> QED BY <1>2, <2>1, <2>3
<1>4. CASE UserEdit(k)
  <2>1. Live(k) \in Object
    BY <1>1, <1>4 DEF UserEdit
  <2> DEFINE e(s) == [Live(k) EXCEPT !.s = s]
             f == [Live(k) EXCEPT !.paused = ~@]
  <2>2. /\ \A s \in Settings : e(s) \in Object /\ (Tells(e(s)) <=> Tells(Live(k)))
        /\ f \in Object /\ (Tells(f) <=> Tells(Live(k)))
    BY <2>1 DEF Object, Tells
  <2>3. (\E s \in Settings : UserWrite(k, e(s))) \/ UserWrite(k, f)
    BY <1>4 DEF UserEdit
  <2>4. Live(k) # None
    BY <2>1, ObjectAssumption
  <2> HIDE DEF e, f
  <2> QED BY <1>2, <2>2, <2>3, <2>4
<1>5. CASE UserAnnotate(k)
  BY <1>1, <1>2, <1>5 DEF UserAnnotate
<1>6. CASE UserDelete(k)
  <2>1. Live(k) \in Object /\ Live(k) # None
    BY <1>1, <1>6 DEF UserDelete
  <2> DEFINE e == [Live(k) EXCEPT !.del = TRUE]
  <2>2. e \in Object /\ (Tells(e) <=> Tells(Live(k)))
    BY <2>1 DEF Object, Tells
  <2>3. UserWrite(k, e) \/ UserWrite(k, None)
    BY <1>6 DEF UserDelete
  <2> HIDE DEF e
  <2> QED BY <1>2, <2>1, <2>2, <2>3
<1> QED BY <1>3, <1>4, <1>5, <1>6

LEMMA WorkerReports ==
  ASSUME TypeOK, AddFinalizer \/ PatchStatus \/ RemoveFinalizer
  PROVE  \A j \in Keys : Reports(j)
<1> DEFINE live == Live(w.key)
<1>1. Busy(w) /\ w.key \in Keys /\ live \in Object \cup {None}
  BY BusyType, LiveType DEF AddFinalizer, PatchStatus, RemoveFinalizer, At, Busy
<1>2. ASSUME UNCHANGED log PROVE \A j \in Keys : Reports(j)
  BY <1>2 DEF Live, Reports
<1>3. ASSUME NEW e \in Object \cup {None}, Store(w.key, e),
             e # None /\ Tells(e) => (live # None /\ Tells(live)) \/ Tells(w.p)
      PROVE  \A j \in Keys : Reports(j)
  <2>1. Puts(w.key, e)
    BY <1>1, <1>3, StorePuts
  <2> QED BY <1>1, <1>3, <2>1, PutsReports
<1>4. CASE AddFinalizer
  <2> DEFINE e == [live EXCEPT !.fin = TRUE]
  <2>1. PICK o \in Outcomes(IF live = None THEN NotFound ELSE Ok) :
          IF o.applied THEN Store(w.key, e) ELSE UNCHANGED log
    BY <1>4 DEF AddFinalizer
  <2>2. o.applied => live # None
    BY <2>1, OutcomeFacts DEF Ok, NotFound
  <2>3. live # None => e \in Object /\ (Tells(e) <=> Tells(live))
    BY <1>1 DEF Object, Tells
  <2> HIDE DEF e, live
  <2> QED BY <1>2, <1>3, <2>1, <2>2, <2>3
<1>5. CASE PatchStatus
  <2> DEFINE reply == IF live = None THEN NotFound
                      ELSE IF w.rv = "outdated" THEN Conflict ELSE Ok
  <2>1. PICK list \in BOOLEAN :
          \/ UNCHANGED log
          \/ \E o \in Outcomes(reply) :
               IF o.applied THEN Store(w.key, Patched(live, list)) ELSE UNCHANGED log
    BY <1>5 DEF PatchStatus, ListSent
  <2>2. \A o \in Outcomes(reply) : o.applied => live # None
    BY OutcomeFacts DEF Ok, NotFound
  <2>3. live # None => /\ Patched(live, list) \in Object
                       /\ Tells(Patched(live, list)) => Tells(live) \/ Tells(w.p)
    BY <1>1, <2>1 DEF Object, Patched, Busy, Worker, Tells
  <2> HIDE DEF live
  <2> QED BY <1>2, <1>3, <2>1, <2>2, <2>3
<1>6. CASE RemoveFinalizer
  <2>1. PICK o \in Outcomes(IF live = None THEN NotFound ELSE Ok) :
          IF o.applied THEN Store(w.key, Released(live)) ELSE UNCHANGED log
    BY <1>6 DEF RemoveFinalizer
  <2>2. o.applied => live # None
    BY <2>1, OutcomeFacts DEF Ok, NotFound
  <2>3. live # None => /\ Released(live) \in Object \cup {None}
                       /\ Released(live) # None => (Tells(Released(live)) <=> Tells(live))
    BY <1>1 DEF Object, Released, Tells
  <2> HIDE DEF live
  <2> QED BY <1>2, <1>3, <2>1, <2>2, <2>3
<1> QED BY <1>4, <1>5, <1>6

LEMMA LogReports ==
  ASSUME TypeOK, [Next]_vars
  PROVE  \A j \in Keys : Reports(j)
<1>1. CASE UNCHANGED log
  BY <1>1 DEF Live, Reports
<1>2. ASSUME \A j \in Keys : Live(j)' = Live(j) PROVE \A j \in Keys : Reports(j)
  BY <1>2 DEF Reports
<1>3. CASE Restart
  BY <1>2, <1>3 DEF Restart, Live
<1>4. ASSUME NEW k \in Keys, Deliver(k) PROVE \A j \in Keys : Reports(j)
  <2>1. \A j \in Keys : Live(j)' = Live(j)
    <3>1. log[k] \in Seq(Object \cup {None}) /\ log \in [Keys -> Seq(Object \cup {None})]
      BY DEF TypeOK
    <3>2. /\ Len(log[k]) > 1
          /\ \E rest \in {Tail(log[k]), <<Live(k)>>} : log' = [log EXCEPT ![k] = rest]
      BY <1>4 DEF Deliver
    <3>3. Tail(log[k])[Len(Tail(log[k]))] = log[k][Len(log[k])]
      BY <3>1, <3>2
    <3>4. <<Live(k)>>[Len(<<Live(k)>>)] = Live(k)
      OBVIOUS
    <3> QED BY <3>1, <3>2, <3>3, <3>4 DEF Live
  <2> QED BY <1>2, <2>1
<1>5. CASE Continue
  BY <1>1, <1>3, <1>5, WorkerReports
     DEF Continue, GetInstance, InsertInstance, GetNewInstance, ListOperations, GetSecret,
         CreateSecret, SetPassword, PutSecret, SkipUpdate, UpdateInstance,
         GetUpdatedInstance, DeleteGet, DeleteInstance, Panic
<1>6. CASE Environment
  BY <1>1, <1>3, <1>4, <1>6, UserReports
     DEF Environment, Crash, Resync, CollectSecret, CloudFinish, CloudRelease, CloudFail,
         CloudDrift
<1>7. ASSUME NEW k \in Keys, StartSync(k) PROVE UNCHANGED log
  BY <1>7 DEF StartSync
<1> QED BY <1>1, <1>5, <1>6, <1>7 DEF Next, vars
-----------------------------------------------------------------------------
(* Identifiers.                                                            *)

\* Identifiers are not given twice.
Counts == used'.uids >= used.uids

LEMMA UsedType ==
  ASSUME TypeOK
  PROVE  used \in Use /\ used.uids \in Nat
BY BoundsType DEF TypeOK, Use

LEMMA SpendCounts ==
  ASSUME TypeOK, NEW reply, NEW o \in Outcomes(reply), Spend(o)
  PROVE  Counts
BY UsedType DEF Spend, Counts, Use

LEMMA SpendsCounts ==
  ASSUME TypeOK
  PROVE  \A reply : \A o \in Outcomes(reply) : Spend(o) => Counts
BY SpendCounts

LEMMA WorkCounts ==
  ASSUME TypeOK, Continue
  PROVE  Counts
<1>0. UNCHANGED used => Counts
  BY UsedType DEF Counts
<1>1. CASE AddFinalizer \/ GetInstance \/ InsertInstance \/ GetNewInstance \/ ListOperations
  BY <1>1, SpendsCounts
     DEF AddFinalizer, GetInstance, InsertInstance, GetNewInstance, ListOperations
<1>2. CASE GetSecret \/ CreateSecret \/ SetPassword \/ PutSecret
  BY <1>2, SpendsCounts DEF GetSecret, CreateSecret, SetPassword, PutSecret
<1>3. CASE SkipUpdate \/ UpdateInstance \/ GetUpdatedInstance
  BY <1>0, <1>3, SpendsCounts DEF SkipUpdate, UpdateInstance, GetUpdatedInstance
<1>4. CASE PatchStatus
  BY <1>0, <1>4, SpendsCounts DEF PatchStatus
<1>5. CASE DeleteGet \/ DeleteInstance \/ RemoveFinalizer \/ Panic
  BY <1>0, <1>5, SpendsCounts DEF DeleteGet, DeleteInstance, RemoveFinalizer, Panic
<1> QED BY <1>1, <1>2, <1>3, <1>4, <1>5 DEF Continue

LEMMA UserCounts ==
  ASSUME TypeOK, Environment
  PROVE  Counts
<1>0. UNCHANGED used => Counts
  BY UsedType DEF Counts
<1>1. used \in Use /\ used.uids \in Nat
  BY UsedType
<1>2. CASE Crash
  BY <1>1, <1>2 DEF Crash, Counts, Use
<1>3. ASSUME NEW k \in Keys, UserCreate(k) \/ UserEdit(k) \/ UserAnnotate(k) \/ UserDelete(k)
      PROVE  Counts
  <2>1. \/ used' = used \/ used' = [used EXCEPT !.uids = @ + 1]
        \/ used' = [used EXCEPT !.edits = @ + 1]
    BY <1>3 DEF UserCreate, UserEdit, UserAnnotate, UserDelete
  <2> QED BY <1>1, <2>1 DEF Counts, Use
<1>4. ASSUME NEW n \in Names, CloudFail(n) \/ CloudDrift(n)
      PROVE  Counts
  <2>1. used' = [used EXCEPT !.faults = @ + 1] \/ used' = [used EXCEPT !.drift = @ + 1]
    BY <1>4 DEF CloudFail, CloudDrift
  <2> QED BY <1>1, <2>1 DEF Counts, Use
<1> QED BY <1>0, <1>2, <1>3, <1>4
        DEF Environment, Deliver, Resync, CollectSecret, CloudFinish, CloudRelease

LEMMA PodCounts ==
  ASSUME TypeOK, NEW p \in Pods, AdmitPod(p)
  PROVE  Counts
BY SpendsCounts DEF AdmitPod, GetObject, GetInstanceSecret, CreateLocal, GetLocal, PatchLocal

LEMMA AllCount ==
  ASSUME TypeOK, [WebhookNext]_<<vars, admission>>
  PROVE  Counts
<1>0. UNCHANGED used => Counts
  BY UsedType DEF Counts
<1>1. CASE [Next]_vars
  BY <1>0, <1>1, WorkCounts, UserCounts DEF Next, StartSync, vars
<1>2. CASE ~[Next]_vars
  <2>1. PICK p \in Pods : AdmitPod(p)
    <3>1. Unadmitted => [Next]_vars
      BY DEF Unadmitted, Next, Environment
    <3>2. ASSUME NEW k \in Keys,
                 CreateObject(k) \/ AnnotateObject(k) \/ AdmitDeletion(k) \/ DeleteObject(k)
          PROVE  [Next]_vars
      BY <3>2 DEF CreateObject, AnnotateObject, AdmitDeletion, DeleteObject, Next, Environment,
                  vars
    <3> QED BY <1>2, <3>1, <3>2 DEF WebhookNext, RequestPod, DeletePod, CollectLocal
  <2> QED BY <2>1, PodCounts
<1> QED BY <1>1, <1>2
-----------------------------------------------------------------------------
(* Objects come and go.                                                    *)

\* An object lasts, goes away, or is created.
Lasts(k) ==
  /\ history'.first[k] = history.first[k]
  /\ Live(k)' # None =>
       /\ Live(k) # None /\ Same(Live(k), Live(k)')
       /\ Protected(Live(k)) => Protected(Live(k)')
       /\ Condemned(Live(k)) => Condemned(Live(k)')
Born(k) ==
  /\ Live(k) = None /\ Live(k)' # None
  /\ ~Tells(Live(k)') /\ Live(k)'.uid = used.uids + 1
  /\ used'.uids = used.uids + 1
  /\ history'.first[k] = IF history.first[k] = None THEN used.uids + 1 ELSE history.first[k]
  /\ UNCHANGED <<cloud, secret, local, pod>>
  /\ About(w') /\ w'.pc = w.pc

LEMMA PutsLasts ==
  ASSUME NEW k \in Keys, NEW e, Puts(k, e), UNCHANGED history,
         Revises(k, e) \/ Sentenced(k, e) \/ Dropped(k, e)
  PROVE  \A j \in Keys : Lasts(j)
BY DEF Puts, Revises, Edited, LetGo, Sentenced, Dropped, Lasts, Same, Protected, Condemned

LEMMA SameLasts ==
  ASSUME UNCHANGED history, \A k \in Keys : Live(k)' = Live(k)
  PROVE  \A j \in Keys : Lasts(j)
BY DEF Lasts, Same

LEMMA CreateBorn ==
  ASSUME TypeOK, WebhookTypeOK, NEW k \in Keys, CreateObject(k)
  PROVE  Born(k) /\ \A j \in Keys \ {k} : Lasts(j)
<1> DEFINE blank(n, s) ==
      [uid |-> used.uids + 1, name |-> n, s |-> s, paused |-> FALSE,
       del |-> FALSE, fin |-> FALSE, conn |-> FALSE,
       conds |-> [created |-> "", ready |-> "", upToDate |-> ""]]
<1>1. PICK n \in Names, s \in Settings : UserWrite(k, blank(n, s))
  BY DEF CreateObject, UserCreate
<1>2. used.uids + 1 \in Uid /\ used \in Use
  BY UsedType DEF Uid
<1>3. blank(n, s) \in Object /\ ~Tells(blank(n, s)) /\ blank(n, s).uid = used.uids + 1
  BY <1>2 DEF Object, Conditions, Tells
<1> HIDE DEF blank
<1>4. Puts(k, blank(n, s)) /\ blank(n, s) # None
  BY <1>1, <1>3, AppendPuts, ObjectAssumption DEF UserWrite
<1>5. used'.uids = used.uids + 1 /\ Live(k) = None
  BY <1>2 DEF CreateObject, UserCreate, Use
<1>6. history'.first = [history.first EXCEPT ![k] = IF @ = None THEN used.uids + 1 ELSE @]
  BY DEF CreateObject
<1>7. About(w') /\ w'.pc = w.pc
  <2>1. w' = w \/ w' = [w EXCEPT !.rv = "outdated"]
    BY <1>1 DEF UserWrite, Outdate
  <2>2. w \in Worker
    BY DEF TypeOK
  <2> QED BY <2>1, <2>2 DEF Worker, About
<1>8. UNCHANGED <<cloud, secret, local, pod>>
  BY <1>1 DEF CreateObject, UserWrite
<1>9. history.first \in [Keys -> Uid \cup {None}]
  BY DEF WebhookTypeOK, History
<1>10. Born(k)
  BY <1>3, <1>4, <1>5, <1>6, <1>7, <1>8, <1>9 DEF Born, Puts
<1> QED BY <1>4, <1>6, <1>9, <1>10 DEF Puts, Lasts, Same

LEMMA DeleteLasts ==
  ASSUME TypeOK, NEW k \in Keys, UserDelete(k), UNCHANGED history
  PROVE  \A j \in Keys : Lasts(j)
<1>1. Live(k) \in Object /\ Live(k) # None /\ ~Live(k).del
  BY LiveType DEF UserDelete
<1> DEFINE e == [Live(k) EXCEPT !.del = TRUE]
<1>2. e \in Object /\ Same(Live(k), e) /\ e.fin = Live(k).fin /\ e.del
  BY <1>1 DEF Object, Same
<1>3. (Live(k).fin /\ UserWrite(k, e)) \/ (~Live(k).fin /\ UserWrite(k, None))
  BY DEF UserDelete
<1> HIDE DEF e
<1>4. e # None
  BY <1>2, ObjectAssumption
<1>5. CASE Live(k).fin /\ UserWrite(k, e)
  <2>1. Puts(k, e) /\ Sentenced(k, e)
    BY <1>1, <1>2, <1>4, <1>5, AppendPuts DEF UserWrite, Sentenced
  <2> QED BY <2>1, PutsLasts
<1>6. CASE ~Live(k).fin /\ UserWrite(k, None)
  <2>1. Puts(k, None) /\ Dropped(k, None)
    BY <1>1, <1>6, AppendPuts DEF UserWrite, Dropped
  <2> QED BY <2>1, PutsLasts
<1> QED BY <1>3, <1>5, <1>6

LEMMA Ageing ==
  ASSUME OrphanInv, Tidy, WebhookTypeOK, [WebhookNext]_<<vars, admission>>
  PROVE  \A k \in Keys : Born(k) \/ Lasts(k)
<1>0. TypeOK
  BY DEF OrphanInv
<1>1. ASSUME RevisionStep, UNCHANGED history
      PROVE  \A k \in Keys : Lasts(k)
  BY <1>1, SameLasts, PutsLasts DEF RevisionStep
<1>2. CASE UNCHANGED <<vars, history>>
  BY <1>2, SameLasts DEF vars, Live
<1>3. CASE Unadmitted /\ UNCHANGED admission
  <2>1. RevisionStep
    BY <1>3, RevisionSteps DEF Unadmitted, Unbidden
  <2> QED BY <1>1, <1>3, <2>1 DEF admission
<1>4. ASSUME NEW k \in Keys, CreateObject(k) PROVE \A j \in Keys : Born(j) \/ Lasts(j)
  BY <1>0, <1>4, CreateBorn
<1>5. ASSUME NEW k \in Keys, AnnotateObject(k) PROVE \A j \in Keys : Lasts(j)
  <2>1. \A j \in Keys : Live(j)' = Live(j)
    <3>1. Live(k) \in Object \cup {None} /\ UserWrite(k, Live(k))
      BY <1>0, <1>5, LiveType DEF AnnotateObject, UserAnnotate
    <3>2. Puts(k, Live(k))
      BY <1>0, <3>1, AppendPuts DEF UserWrite
    <3> QED BY <3>2 DEF Puts
  <2>2. history'.first = history.first
    BY <1>5 DEF AnnotateObject, Waive, WebhookTypeOK, History
  <2> QED BY <2>1, <2>2 DEF Lasts, Same
<1>6. ASSUME NEW k \in Keys, DeleteObject(k) PROVE \A j \in Keys : Lasts(j)
  BY <1>0, <1>2, <1>6, DeleteLasts, SameLasts DEF DeleteObject, vars, Live
<1>7. ASSUME NEW k \in Keys, AdmitDeletion(k) PROVE UNCHANGED <<vars, history>>
  BY <1>7 DEF AdmitDeletion
<1>8. ASSUME NEW p \in Pods, RequestPod(p) \/ AdmitPod(p) \/ DeletePod(p)
      PROVE  UNCHANGED <<log, history>>
  BY <1>8 DEF RequestPod, AdmitPod, DeletePod, GetObject, GetInstanceSecret, CreateLocal,
              GetLocal, PatchLocal, vars
<1>9. ASSUME UNCHANGED <<log, history>> PROVE \A k \in Keys : Lasts(k)
  BY <1>9, SameLasts DEF Live
<1>10. ASSUME NEW at \in Namespaces \X Keys, CollectLocal(at) PROVE UNCHANGED <<vars, history>>
  BY <1>10 DEF CollectLocal
<1> QED BY <1>2, <1>3, <1>4, <1>5, <1>6, <1>7, <1>8, <1>9, <1>10 DEF WebhookNext, admission, vars
-----------------------------------------------------------------------------
(* Admissions.                                                             *)

\* What an admission learns, and what it writes.
PodMove(p) ==
  \/ pod'[p] = pod[p]
  \/ pod'[p].pc \in Unread
  \/ /\ pod'[p].pc = "GetSecret"
     /\ Live(KeyOf(p)) # None
     /\ pod'[p].uid = Live(KeyOf(p)).uid /\ pod'[p].conn = Live(KeyOf(p)).conn
  \/ /\ InPod(p, "GetSecret") /\ pod[p].conn
     /\ pod'[p].pc = "CreateLocal" /\ pod'[p].uid = pod[p].uid
     /\ secret[KeyOf(p)] # None /\ pod'[p].pw = secret[KeyOf(p)].pw
  \/ /\ pod[p].pc \in {"CreateLocal", "GetLocal"}
     /\ pod'[p].pc \in {"GetLocal", "PatchLocal"}
     /\ pod'[p].uid = pod[p].uid /\ pod'[p].pw = pod[p].pw
  \/ /\ pod[p].pc \in {"CreateLocal", "PatchLocal"}
     /\ pod'[p].pc = "admitted" /\ pod'[p].uid = pod[p].uid
     /\ local'[Target[p]] # None
Writes(p, at) ==
  /\ Target[p] = at
  /\ pod[p].pc \in {"CreateLocal", "PatchLocal"}
  /\ local'[at] # None /\ local'[at].pw = pod[p].pw
  /\ local'[at].uid = IF local[at] = None THEN pod[p].uid ELSE local[at].uid
LocalMove(at) ==
  \/ local'[at] = local[at]
  \/ local'[at] = None /\ ~(Live(at[2]) # None /\ Live(at[2]).uid = local[at].uid)
  \/ \E p \in Pods : Writes(p, at)

LEMMA OnePod ==
  ASSUME WebhookTypeOK, NEW p \in Pods, NEW x, pod' = [pod EXCEPT ![p] = x]
  PROVE  pod'[p] = x /\ \A q \in Pods \ {p} : PodMove(q)
BY DEF WebhookTypeOK, PodMove

LEMMA Refusal ==
  ASSUME WebhookTypeOK, NEW p \in Pods, Refuse(p)
  PROVE  \A q \in Pods : PodMove(q)
<1>1. pod'[p] = NoPod /\ \A q \in Pods \ {p} : PodMove(q)
  BY OnePod DEF Refuse
<1> QED BY <1>1 DEF PodMove, Unread, NoPod

LEMMA Reading ==
  ASSUME TypeOK, WebhookTypeOK, NEW p \in Pods,
         RequestPod(p) \/ GetObject(p) \/ GetInstanceSecret(p) \/ GetLocal(p) \/ DeletePod(p)
  PROVE  \A q \in Pods : PodMove(q)
<1>1. pod[p] \in Admission
  BY DEF WebhookTypeOK
<1>2. ASSUME NEW pc \in AdmissionSteps, GotoPod(p, pc)
      PROVE  /\ \A q \in Pods \ {p} : PodMove(q)
             /\ pod'[p].pc = pc /\ pod'[p].uid = pod[p].uid /\ pod'[p].pw = pod[p].pw
  <2> DEFINE x == [pod[p] EXCEPT !.pc = pc]
  <2>1. x.pc = pc /\ x.uid = pod[p].uid /\ x.pw = pod[p].pw
    BY <1>1 DEF Admission
  <2>2. pod' = [pod EXCEPT ![p] = x]
    BY <1>2 DEF GotoPod
  <2> HIDE DEF x
  <2> QED BY <2>1, <2>2, OnePod
<1>3. CASE RequestPod(p)
  <2>1. GotoPod(p, "GetObject") /\ "GetObject" \in AdmissionSteps
    BY <1>3 DEF RequestPod, AdmissionSteps
  <2> QED BY <1>2, <2>1 DEF PodMove, Unread
<1>4. CASE GetObject(p)
  <2> DEFINE live == Live(KeyOf(p))
             x == [NoPod EXCEPT !.pc = "GetSecret", !.uid = live.uid, !.conn = live.conn]
  <2>1. PICK o \in Outcomes(IF live = None THEN NotFound ELSE Ok) :
          IF o.code # Ok THEN Refuse(p) ELSE pod' = [pod EXCEPT ![p] = x]
    BY <1>4 DEF GetObject
  <2>2. o.code = Ok => live # None
    BY <2>1, OutcomeFacts DEF Ok, NotFound
  <2>3. x.pc = "GetSecret" /\ x.uid = live.uid /\ x.conn = live.conn
    BY DEF NoPod
  <2> HIDE DEF x
  <2>4. CASE o.code # Ok
    BY <2>1, <2>4, Refusal
  <2>5. CASE o.code = Ok
    <3>1. pod'[p] = x /\ \A q \in Pods \ {p} : PodMove(q)
      BY <2>1, <2>5, OnePod
    <3> QED BY <2>2, <2>3, <2>5, <3>1 DEF PodMove
  <2> QED BY <2>4, <2>5
<1>5. CASE GetInstanceSecret(p)
  <2> DEFINE s == secret[KeyOf(p)]
             x == [pod[p] EXCEPT !.pc = "CreateLocal", !.conn = FALSE, !.pw = s.pw]
  <2>1. PICK o \in Outcomes(IF s = None THEN NotFound ELSE Ok) :
          IF o.code # Ok \/ ~Presentable(p) THEN Refuse(p) ELSE pod' = [pod EXCEPT ![p] = x]
    BY <1>5 DEF GetInstanceSecret
  <2>2. o.code = Ok => s # None
    BY <2>1, OutcomeFacts DEF Ok, NotFound
  <2>3. x.pc = "CreateLocal" /\ x.uid = pod[p].uid /\ x.pw = s.pw
    BY <1>1 DEF Admission
  <2> HIDE DEF x
  <2>4. CASE o.code # Ok \/ ~Presentable(p)
    BY <2>1, <2>4, Refusal
  <2>5. CASE o.code = Ok /\ Presentable(p)
    <3>1. pod'[p] = x /\ \A q \in Pods \ {p} : PodMove(q)
      BY <2>1, <2>5, OnePod
    <3> QED BY <1>5, <2>2, <2>3, <2>5, <3>1 DEF PodMove, GetInstanceSecret, Presentable
  <2> QED BY <2>4, <2>5
<1>6. CASE GetLocal(p)
  <2>1. Refuse(p) \/ GotoPod(p, "PatchLocal")
    BY <1>6 DEF GetLocal
  <2>2. CASE GotoPod(p, "PatchLocal")
    <3>1. "PatchLocal" \in AdmissionSteps
      BY DEF AdmissionSteps
    <3> QED BY <1>2, <1>6, <2>2, <3>1 DEF PodMove, GetLocal, InPod
  <2> QED BY <2>1, <2>2, Refusal
<1> QED BY <1>3, <1>4, <1>5, <1>6, Refusal DEF DeletePod

LEMMA Admitting ==
  ASSUME WebhookTypeOK, NEW p \in Pods, Admit(p),
         pod[p].pc \in {"CreateLocal", "PatchLocal"}, local'[Target[p]] # None
  PROVE  \A q \in Pods : PodMove(q)
<1> DEFINE x == [NoPod EXCEPT !.pc = "admitted", !.uid = pod[p].uid]
<1>1. x.pc = "admitted" /\ x.uid = pod[p].uid /\ pod' = [pod EXCEPT ![p] = x]
  BY DEF NoPod, Admit
<1> HIDE DEF x
<1>2. pod'[p] = x /\ \A q \in Pods \ {p} : PodMove(q)
  BY <1>1, OnePod
<1> QED BY <1>1, <1>2 DEF PodMove

LEMMA CopyCreated ==
  ASSUME TypeOK, WebhookTypeOK, NEW p \in Pods, CreateLocal(p)
  PROVE  (\A q \in Pods : PodMove(q)) /\ (\A at \in Namespaces \X Keys : LocalMove(at))
<1> DEFINE at == Target[p]
           s == LocalSecretOf(p)
<1>1. /\ at \in Namespaces \X Keys /\ pod[p] \in Admission
      /\ local \in [Namespaces \X Keys -> LocalSecret \cup {None}]
  BY WebhookAssumption DEF WebhookTypeOK
<1>2. s \in LocalSecret /\ s # None /\ s.uid = pod[p].uid /\ s.pw = pod[p].pw
  BY <1>1, SecretAssumption
     DEF CreateLocal, InPod, WebhookTypeOK, LocalSecretOf, LocalSecret, Secret, Admission
<1> HIDE DEF s
<1>3. PICK o \in Outcomes(IF local[at] = None THEN Ok ELSE Conflict) :
        /\ local' = IF o.applied THEN [local EXCEPT ![at] = s] ELSE local
        /\ \/ o.code = Ok /\ Admit(p)
           \/ o.code = Conflict /\ GotoPod(p, "GetLocal")
           \/ o.code = ServerError /\ Refuse(p)
  BY DEF CreateLocal, s
<1>4. (o.applied => local[at] = None) /\ (o.code = Ok => o.applied)
  BY <1>3, OutcomeFacts DEF Ok, Conflict
<1>5. pod[p].pc = "CreateLocal"
  BY DEF CreateLocal, InPod
<1>6. \A a \in Namespaces \X Keys : LocalMove(a)
  BY <1>1, <1>2, <1>3, <1>4, <1>5 DEF LocalMove, Writes
<1>7. CASE o.code = Ok /\ Admit(p)
  <2>1. local'[at] # None
    BY <1>1, <1>2, <1>3, <1>4, <1>7
  <2> QED BY <1>5, <1>6, <1>7, <2>1, Admitting
<1>8. CASE GotoPod(p, "GetLocal")
  <2> DEFINE x == [pod[p] EXCEPT !.pc = "GetLocal"]
  <2>1. /\ x.pc = "GetLocal" /\ x.uid = pod[p].uid /\ x.pw = pod[p].pw
        /\ pod' = [pod EXCEPT ![p] = x]
    BY <1>1, <1>8 DEF Admission, GotoPod
  <2> HIDE DEF x
  <2>2. pod'[p] = x /\ \A q \in Pods \ {p} : PodMove(q)
    BY <2>1, OnePod
  <2> QED BY <1>5, <1>6, <2>1, <2>2 DEF PodMove
<1> QED BY <1>3, <1>6, <1>7, <1>8, Refusal

LEMMA CopyPatched ==
  ASSUME TypeOK, WebhookTypeOK, NEW p \in Pods, PatchLocal(p)
  PROVE  (\A q \in Pods : PodMove(q)) /\ (\A at \in Namespaces \X Keys : LocalMove(at))
<1> DEFINE at == Target[p]
           s == [local[at] EXCEPT !.pw = pod[p].pw]
<1>1. /\ at \in Namespaces \X Keys /\ pod[p] \in Admission
      /\ local \in [Namespaces \X Keys -> LocalSecret \cup {None}]
  BY WebhookAssumption DEF WebhookTypeOK
<1>2. local[at] # None => s \in LocalSecret /\ s.uid = local[at].uid /\ s.pw = pod[p].pw
  BY <1>1 DEF LocalSecret, Admission
<1>3. local[at] # None => s # None
  BY <1>2, SecretAssumption DEF LocalSecret, Secret
<1>4. PICK o \in Outcomes(LocalReply(p)) :
        /\ local' = IF o.applied THEN [local EXCEPT ![at] = s] ELSE local
        /\ IF o.code = Ok THEN Admit(p) ELSE Refuse(p)
  BY DEF PatchLocal
<1>5. (o.applied => local[at] # None) /\ (o.code = Ok => o.applied)
  BY <1>4, OutcomeFacts DEF LocalReply, Ok, NotFound
<1>6. pod[p].pc = "PatchLocal"
  BY DEF PatchLocal, InPod
<1> HIDE DEF s
<1>7. \A a \in Namespaces \X Keys : LocalMove(a)
  BY <1>1, <1>2, <1>3, <1>4, <1>5, <1>6 DEF LocalMove, Writes
<1>8. CASE o.code = Ok
  <2>1. local'[at] # None
    BY <1>1, <1>3, <1>4, <1>5, <1>8
  <2> QED BY <1>4, <1>6, <1>7, <1>8, <2>1, Admitting
<1> QED BY <1>4, <1>7, <1>8, Refusal

LEMMA AdmissionMoves ==
  ASSUME TypeOK, WebhookTypeOK, [WebhookNext]_<<vars, admission>>
  PROVE  (\A p \in Pods : PodMove(p)) /\ (\A at \in Namespaces \X Keys : LocalMove(at))
<1>1. UNCHANGED pod => \A p \in Pods : PodMove(p)
  BY DEF PodMove
<1>2. UNCHANGED local => \A at \in Namespaces \X Keys : LocalMove(at)
  BY DEF LocalMove
<1>3. ASSUME NEW k \in Keys,
             CreateObject(k) \/ AnnotateObject(k) \/ AdmitDeletion(k) \/ DeleteObject(k)
      PROVE  UNCHANGED <<pod, local>>
  BY <1>3 DEF CreateObject, AnnotateObject, AdmitDeletion, DeleteObject
<1>4. ASSUME NEW p \in Pods,
             RequestPod(p) \/ GetObject(p) \/ GetInstanceSecret(p) \/ GetLocal(p) \/ DeletePod(p)
      PROVE  UNCHANGED local /\ \A q \in Pods : PodMove(q)
  <2>1. UNCHANGED local
    BY <1>4 DEF RequestPod, GetObject, GetInstanceSecret, GetLocal, DeletePod
  <2> QED BY <1>4, <2>1, Reading
<1>5. ASSUME NEW a \in Namespaces \X Keys, CollectLocal(a)
      PROVE  UNCHANGED pod /\ \A at \in Namespaces \X Keys : LocalMove(at)
  BY <1>5 DEF CollectLocal, LocalMove, WebhookTypeOK
<1> QED BY <1>1, <1>2, <1>3, <1>4, <1>5, CopyCreated, CopyPatched
        DEF WebhookNext, AdmitPod, admission
-----------------------------------------------------------------------------
(* The copies.                                                             *)

\* What the lemmas above say of a step.
Flow ==
  /\ TypeOK /\ TypeOK' /\ WebhookTypeOK /\ WebhookTypeOK'
  /\ Source /\ Counts
  /\ \A k \in Keys : /\ Born(k) \/ Lasts(k)
                     /\ Logged(k)' \subseteq Logged(k) \cup {Live(k)'}
                     /\ Reports(k)
                     /\ SecretMove(k)
  /\ \A p \in Pods : PodMove(p)
  /\ \A at \in Namespaces \X Keys : LocalMove(at)

LEMMA FlowFacts ==
  ASSUME ControllerInv, WebhookTypeOK, Chosen, [WebhookNext]_<<vars, admission>>
  PROVE  Flow
<1>1. TypeOK /\ OrphanInv /\ Tidy /\ Blank
  BY DEF ControllerInv, AgreementInv, OrphanInv
<1>2. WebhookTypeOK' /\ Counts
  BY <1>1, WebhookTypeStep, AllCount
<1>3. \A k \in Keys : Born(k) \/ Lasts(k)
  BY <1>1, Ageing
<1>4. (\A p \in Pods : PodMove(p)) /\ (\A at \in Namespaces \X Keys : LocalMove(at))
  BY <1>1, AdmissionMoves
<1>5. CASE [Next]_vars
  <2>1. TypeOK' /\ Source
    BY <1>1, <1>5, NextType, WorkSource
  <2>2. \A k \in Keys : Reports(k) /\ SecretMove(k)
    BY <1>1, <1>5, LogReports, SecretMoves
  <2>3. \A k \in Keys : Logged(k)' \subseteq Logged(k) \cup {Live(k)'}
    BY <1>1, <1>5, Moves, LoggedMove
  <2> QED BY <1>1, <1>2, <1>3, <1>4, <2>1, <2>2, <2>3 DEF Flow
<1>6. CASE Aside
  <2>1. TypeOK'
    BY <1>6, AsideInv DEF ControllerInv, AgreementInv, OrphanInv
  <2>2. Source
    BY <1>6, AboutSource DEF Aside, About
  <2>3. \A k \in Keys : /\ Reports(k) /\ SecretMove(k)
                        /\ Logged(k)' \subseteq Logged(k) \cup {Live(k)'}
    BY <1>6 DEF Aside, Reports, Live, SecretMove, Logged
  <2> QED BY <1>1, <1>2, <1>3, <1>4, <2>1, <2>2, <2>3 DEF Flow
<1> QED BY <1>1, <1>5, <1>6, ControllerSide

\* The object that is the first one now was so before, or has just been created.
LEMMA SoleBefore ==
  ASSUME Flow, OnlyFirst, NEW k \in Keys, Sole(k)'
  PROVE  /\ Sole(k)
         /\ \/ Lasts(k) /\ (Original(k)' => Original(k))
            \/ Born(k) /\ history.first[k] = None
<1>1. CASE Lasts(k)
  BY <1>1 DEF Lasts, Sole, Original, Same
<1>2. CASE Born(k)
  <2>1. used.uids \in Nat /\ history.first[k] \in Nat \cup {None}
    BY UsedType DEF Flow, WebhookTypeOK, History, Uid
  <2>2. history.first[k] # None => history.first[k] <= used.uids
    BY DEF OnlyFirst
  <2>3. history.first[k] # None => Live(k)'.uid = history.first[k]
    BY <1>2 DEF Born, Sole, Original
  <2> QED BY <1>2, <2>1, <2>2, <2>3 DEF Born, Sole
<1> QED BY <1>1, <1>2 DEF Flow

\* Before it is created, nothing tells of it.
LEMMA Nothing ==
  ASSUME TypeOK, WebhookTypeOK, OnlyFirst, Chosen, NEW k \in Keys, history.first[k] = None
  PROVE  /\ \A o \in Logged(k) : o = None
         /\ secret[k] = None
         /\ w.key # k
         /\ \A ns \in Namespaces : local[ns, k] = None
         /\ \A p \in Pods : KeyOf(p) = k => pod[p].pc \in Unread
<1>1. Sole(k) /\ None \notin Nat
  BY WebhookAssumption DEF Sole, Uid
<1>2. \A o \in Logged(k) : o = None
  <2>1. \A o \in Logged(k) : o # None => o.uid \in Nat
    BY LoggedFacts DEF Object, Uid
  <2> QED BY <1>1, <2>1 DEF OnlyFirst
<1>3. secret[k] = None
  <2>1. secret[k] # None => secret[k].uid \in Nat
    BY DEF TypeOK, Secret, Uid
  <2> QED BY <1>1, <2>1 DEF OnlyFirst
<1>4. w.key # k
  <2>1. w.key = k => w.p.uid \in Nat
    <3>1. w.key = k => w.pc \notin {"Idle", "Panic"}
      BY ControllerAssumption DEF Chosen
    <3> QED BY <3>1 DEF TypeOK, Object, Uid
  <2> QED BY <1>1, <2>1 DEF OnlyFirst
<1>5. \A ns \in Namespaces : local[ns, k] = None
  <2>1. \A ns \in Namespaces : local[ns, k] # None => local[ns, k].uid \in Nat
    BY DEF WebhookTypeOK, LocalSecret, Uid
  <2> QED BY <1>1, <2>1 DEF OnlyFirst
<1>6. \A p \in Pods : KeyOf(p) = k => pod[p].pc \in Unread
  BY <1>1 DEF OnlyFirst, WebhookTypeOK, Unread
<1> QED BY <1>2, <1>3, <1>4, <1>5, <1>6

LEMMA JustBorn ==
  ASSUME Flow, OnlyFirst, Chosen, NEW k \in Keys, Born(k), history.first[k] = None
  PROVE  /\ Logged(k)' \subseteq {None, Live(k)'} /\ ~Tells(Live(k)')
         /\ Live(k)' # None /\ Live(k)'.uid = history'.first[k]
         /\ history'.first[k] = used'.uids
         /\ secret'[k] = None
         /\ w'.key # k
         /\ \A ns \in Namespaces : local'[ns, k] = None
         /\ \A p \in Pods : KeyOf(p) = k => pod'[p].pc \in Unread
<1>1. TypeOK /\ WebhookTypeOK /\ Logged(k)' \subseteq Logged(k) \cup {Live(k)'}
  BY DEF Flow
<1>2. /\ \A o \in Logged(k) : o = None
      /\ secret[k] = None /\ w.key # k
      /\ \A ns \in Namespaces : local[ns, k] = None
      /\ \A p \in Pods : KeyOf(p) = k => pod[p].pc \in Unread
  BY <1>1, Nothing
<1> QED BY <1>1, <1>2 DEF Born, About

LEMMA OnlyFirstNext ==
  ASSUME Flow, OnlyFirst, Chosen
  PROVE  OnlyFirst'
<1> SUFFICES ASSUME NEW k \in Keys
             PROVE  /\ history'.first[k] # None => history'.first[k] <= used'.uids
                    /\ Sole(k)' =>
                         /\ \A o \in Logged(k)' : o # None => o.uid = history'.first[k]
                         /\ secret'[k] # None => secret'[k].uid = history'.first[k]
                         /\ w'.key = k => w'.p.uid = history'.first[k]
                         /\ \A ns \in Namespaces : local'[ns, k] # None
                              => local'[ns, k].uid = history'.first[k]
                         /\ \A p \in Pods : KeyOf(p) = k /\ pod'[p].pc \notin Unread
                              => pod'[p].uid = history'.first[k]
  BY DEF OnlyFirst, KeyOf
<1> DEFINE f == history.first[k]
<1>1. TypeOK /\ Counts /\ Logged(k)' \subseteq Logged(k) \cup {Live(k)'} /\ Source
  BY DEF Flow
<1>2. history'.first[k] # None => history'.first[k] <= used'.uids
  <2>1. used.uids \in Nat /\ used'.uids \in Nat /\ f \in Nat \cup {None}
    <3>1. used' \in Use
      BY DEF Flow, TypeOK, Use
    <3> QED BY <3>1, UsedType, BoundsType DEF Flow, WebhookTypeOK, History, Uid, Use
  <2>2. f # None => f <= used.uids
    BY DEF OnlyFirst
  <2> QED BY <1>1, <2>1, <2>2 DEF Flow, Born, Lasts, Counts
<1> SUFFICES ASSUME Sole(k)'
             PROVE  /\ \A o \in Logged(k)' : o # None => o.uid = history'.first[k]
                    /\ secret'[k] # None => secret'[k].uid = history'.first[k]
                    /\ w'.key = k => w'.p.uid = history'.first[k]
                    /\ \A ns \in Namespaces : local'[ns, k] # None
                         => local'[ns, k].uid = history'.first[k]
                    /\ \A p \in Pods : KeyOf(p) = k /\ pod'[p].pc \notin Unread
                         => pod'[p].uid = history'.first[k]
  BY <1>2
<1>3. CASE Born(k) /\ f = None
  BY <1>3, JustBorn
<1>4. CASE Lasts(k)
  <2>1. history'.first[k] = f
    BY <1>4 DEF Lasts
  <2>2. /\ \A o \in Logged(k) : o # None => o.uid = f
        /\ secret[k] # None => secret[k].uid = f
        /\ w.key = k => w.p.uid = f
        /\ \A ns \in Namespaces : local[ns, k] # None => local[ns, k].uid = f
        /\ \A p \in Pods : KeyOf(p) = k /\ pod[p].pc \notin Unread => pod[p].uid = f
    BY SoleBefore DEF OnlyFirst
  <2>3. Live(k) \in Logged(k) /\ Cached(k) \in Logged(k)
    BY <1>1, LoggedFacts
  <2>4. \A o \in Logged(k)' : o # None => o.uid = f
    BY <1>1, <1>4, <2>2, <2>3 DEF Lasts, Same
  <2>5. secret'[k] # None => secret'[k].uid = f
    BY <2>2 DEF Flow, SecretMove, Collected, Begun, Given
  <2>6. w'.key = k => w'.p.uid = f
    <3>1. k # None
      BY ControllerAssumption
    <3> QED BY <1>1, <2>2, <2>3, <3>1 DEF Source, Carries, Picks, Fetches, Stops
  <2>7. ASSUME NEW ns \in Namespaces, local'[ns, k] # None
        PROVE  local'[ns, k].uid = f
    <3> DEFINE at == <<ns, k>>
    <3>1. LocalMove(at)
      BY DEF Flow
    <3>2. \A p \in Pods : Writes(p, at) => KeyOf(p) = k /\ pod[p].pc \notin Unread
      BY DEF Writes, KeyOf, Unread
    <3> QED BY <2>2, <2>7, <3>1, <3>2 DEF LocalMove, Writes
  <2>8. ASSUME NEW p \in Pods, KeyOf(p) = k, pod'[p].pc \notin Unread
        PROVE  pod'[p].uid = f
    BY <2>2, <2>3, <2>8 DEF Flow, PodMove, InPod, Unread
  <2> QED BY <2>1, <2>4, <2>5, <2>6, <2>7, <2>8
<1> QED BY <1>3, <1>4, SoleBefore

\* The password of the first object stays in the secret.
LEMMA KnownStays ==
  ASSUME Flow, OnlyFirst, NEW k \in Keys, Original(k), Known(k)
  PROVE  secret'[k] = secret[k] /\ Known(k)'
<1>1. secret[k].uid = Live(k).uid
  BY DEF OnlyFirst, Sole, Original, Known
<1> QED BY <1>1 DEF Flow, SecretMove, Collected, Begun, Given, Known, Original

LEMMA FirmNext ==
  ASSUME Flow, OnlyFirst, Chosen, Firm, \A k \in Keys : Coherent(log[k])
  PROVE  Firm'
<1> SUFFICES ASSUME NEW k \in Keys, Original(k)'
             PROVE  /\ \A o \in Logged(k)' : Protected(o) => Protected(Live(k)')
                    /\ w'.key = k /\ w'.pc \in Deletion => Condemned(Live(k)')
  BY DEF Firm
<1>1. TypeOK /\ Logged(k)' \subseteq Logged(k) \cup {Live(k)'} /\ Source /\ Sole(k)'
  BY DEF Flow, Sole
<1>2. CASE Born(k) /\ history.first[k] = None
  BY <1>2, JustBorn DEF Protected
<1>3. CASE Lasts(k) /\ Original(k)
  <2>1. /\ \A o \in Logged(k) : Protected(o) => Protected(Live(k))
        /\ w.key = k /\ w.pc \in Deletion => Condemned(Live(k))
    BY <1>3 DEF Firm
  <2>2. /\ Protected(Live(k)) => Protected(Live(k)')
        /\ Condemned(Live(k)) => Condemned(Live(k)')
    BY <1>3 DEF Lasts, Original
  <2>3. Condemned(Cached(k)) => Condemned(Live(k))
    <3>1. Condemned(Cached(k)) => Protected(Live(k))
      BY <1>1, <2>1, LoggedFacts DEF Condemned
    <3>2. 1 \in 1 .. Len(log[k]) /\ Len(log[k]) \in 1 .. Len(log[k]) /\ 1 <= Len(log[k])
      BY <1>1, LogType
    <3> QED BY <3>1, <3>2 DEF Coherent, Cached, Live
  <2>4. w'.key = k /\ w'.pc \in Deletion => Condemned(Live(k)')
    <3>1. k # None
      BY ControllerAssumption
    <3> QED BY <1>1, <2>1, <2>2, <2>3, <3>1
            DEF Source, Carries, Proceeds, Picks, Fetches, Stops, Deletion
  <2> QED BY <1>1, <2>1, <2>2, <2>4
<1> QED BY <1>1, <1>2, <1>3, SoleBefore

LEMMA AnnouncedNext ==
  ASSUME Flow, OnlyFirst, Chosen, Announced
  PROVE  Announced'
<1> SUFFICES ASSUME NEW k \in Keys, Original(k)'
             PROVE  /\ \A o \in Logged(k)' : o # None /\ Tells(o) => Known(k)'
                    /\ w'.key = k /\ (Tells(w'.p) \/ w'.pc \in {"MaybeUpdate", "GetUpdated"})
                         => Known(k)'
  BY DEF Announced
<1>1. /\ TypeOK /\ Logged(k)' \subseteq Logged(k) \cup {Live(k)'} /\ Source /\ Sole(k)'
      /\ Reports(k)
  BY DEF Flow, Sole
<1>2. CASE Born(k) /\ history.first[k] = None
  BY <1>2, JustBorn
<1>3. CASE Lasts(k) /\ Original(k)
  <2>1. /\ \A o \in Logged(k) : o # None /\ Tells(o) => Known(k)
        /\ w.key = k /\ (Tells(w.p) \/ w.pc \in {"MaybeUpdate", "GetUpdated"}) => Known(k)
    BY <1>3 DEF Announced
  <2>2. Known(k) => Known(k)'
    BY <1>3, KnownStays
  <2>3. Live(k) \in Logged(k) /\ Cached(k) \in Logged(k)
    BY <1>1, LoggedFacts
  <2>4. \A o \in Logged(k)' : o # None /\ Tells(o) => Known(k)'
    BY <1>1, <2>1, <2>2, <2>3 DEF Reports
  <2>5. ASSUME w'.key = k, Tells(w'.p) \/ w'.pc \in {"MaybeUpdate", "GetUpdated"}
        PROVE  Known(k)'
    <3>1. k # None
      BY ControllerAssumption
    <3>2. CASE Carries /\ Proceeds
      <4>1. Known(w.key)' => Known(k)'
        BY <2>5 DEF Known
      <4> QED BY <2>1, <2>2, <2>5, <3>2, <4>1 DEF Carries, Proceeds
    <3>3. CASE Picks \/ Fetches \/ Stops
      BY <2>1, <2>2, <2>3, <2>5, <3>1, <3>3 DEF Picks, Fetches, Stops
    <3> QED BY <1>1, <3>2, <3>3 DEF Source
  <2> QED BY <2>4, <2>5
<1> QED BY <1>1, <1>2, <1>3, SoleBefore

LEMMA CopiedNext ==
  ASSUME Flow, OnlyFirst, Chosen, Announced, Copied
  PROVE  Copied'
<1> SUFFICES ASSUME NEW k \in Keys, Original(k)'
             PROVE  /\ \A ns \in Namespaces : local'[ns, k] # None
                         => Known(k)' /\ local'[ns, k].pw = secret'[k].pw
                    /\ \A p \in Pods : KeyOf(p) = k =>
                         /\ pod'[p].pc = "GetSecret" /\ pod'[p].conn => Known(k)'
                         /\ pod'[p].pc \in {"CreateLocal", "GetLocal", "PatchLocal"}
                              => Known(k)' /\ pod'[p].pw = secret'[k].pw
                         /\ pod'[p].pc = "admitted" => local'[Target[p]] # None
  BY DEF Copied, KeyOf, InPod
<1>1. TypeOK /\ Sole(k)'
  BY DEF Flow, Sole
<1>2. CASE Born(k) /\ history.first[k] = None
  BY <1>2, JustBorn DEF Unread
<1>3. CASE Lasts(k) /\ Original(k)
  <2>1. /\ \A ns \in Namespaces :
             local[ns, k] # None => Known(k) /\ local[ns, k].pw = secret[k].pw
        /\ \A p \in Pods : KeyOf(p) = k =>
             /\ pod[p].pc = "GetSecret" /\ pod[p].conn => Known(k)
             /\ pod[p].pc \in {"CreateLocal", "GetLocal", "PatchLocal"}
                  => Known(k) /\ pod[p].pw = secret[k].pw
             /\ pod[p].pc = "admitted" => local[Target[p]] # None
    BY <1>3 DEF Copied, InPod
  <2>2. Known(k) => Known(k)' /\ secret'[k] = secret[k]
    BY <1>3, KnownStays
  <2>3. \A ns \in Namespaces : local[ns, k] # None => local[ns, k].uid = Live(k).uid
    BY <1>3 DEF OnlyFirst, Sole, Original
  <2>4. Live(k) # None /\ (Live(k).conn => Known(k))
    BY <1>1, <1>3, LoggedFacts DEF Announced, Original, Tells
  <2>5. ASSUME NEW ns \in Namespaces
        PROVE  /\ local[ns, k] # None => local'[ns, k] # None
               /\ local'[ns, k] # None => Known(k)' /\ local'[ns, k].pw = secret'[k].pw
    <3> DEFINE at == <<ns, k>>
    <3>1. LocalMove(at) /\ at[2] = k
      BY DEF Flow
    <3>2. \A p \in Pods : Writes(p, at)
            => /\ KeyOf(p) = k /\ local'[at] # None /\ local'[at].pw = pod[p].pw
               /\ pod[p].pc \in {"CreateLocal", "GetLocal", "PatchLocal"}
      BY DEF Writes, KeyOf
    <3>3. CASE local'[at] = local[at]
      BY <2>1, <2>2, <3>3
    <3>4. CASE local'[at] = None /\ ~(Live(k) # None /\ Live(k).uid = local[at].uid)
      BY <2>3, <2>4, <3>4
    <3>5. CASE \E p \in Pods : Writes(p, at)
      BY <2>1, <2>2, <3>2, <3>5
    <3> QED BY <3>1, <3>3, <3>4, <3>5 DEF LocalMove
  <2>6. ASSUME NEW p \in Pods, KeyOf(p) = k
        PROVE  /\ pod'[p].pc = "GetSecret" /\ pod'[p].conn => Known(k)'
               /\ pod'[p].pc \in {"CreateLocal", "GetLocal", "PatchLocal"}
                    => Known(k)' /\ pod'[p].pw = secret'[k].pw
               /\ pod'[p].pc = "admitted" => local'[Target[p]] # None
    <3>1. local[Target[p]] # None => local'[Target[p]] # None
      <4>1. PICK ns \in Namespaces : Target[p] = <<ns, k>>
        BY <2>6, WebhookAssumption DEF KeyOf
      <4> QED BY <2>5, <4>1
    <3>2. PodMove(p)
      BY DEF Flow
    <3> QED BY <2>1, <2>2, <2>4, <2>6, <3>1, <3>2 DEF PodMove, InPod, Unread
  <2> QED BY <2>5, <2>6
<1> QED BY <1>1, <1>2, <1>3, SoleBefore

LEMMA ChosenNext ==
  ASSUME Flow, Chosen
  PROVE  Chosen'
BY DEF Flow, Chosen, At, Source, Carries, Proceeds, Picks, Fetches, Stops

LEMMA CopiesStep ==
  ASSUME ControllerInv, WebhookTypeOK, CopiesInv, [WebhookNext]_<<vars, admission>>
  PROVE  CopiesInv' /\ Flow
<1>1. Flow
  BY FlowFacts DEF CopiesInv
<1>2. \A k \in Keys : Coherent(log[k])
  BY DEF ControllerInv, AgreementInv, OrphanInv
<1> QED BY <1>1, <1>2, OnlyFirstNext, FirmNext, AnnouncedNext, CopiedNext, ChosenNext
        DEF CopiesInv
-----------------------------------------------------------------------------
(* The instance.                                                           *)

\* An instance keeps its password and its owner as long as it is there.
InstanceKept ==
  \A n \in Names : Exists(n) /\ Exists(n)'
    => cloud'[n].pw = cloud[n].pw /\ cloud'[n].by = cloud[n].by

LEMMA KeptChange ==
  ASSUME TypeOK, NEW n \in Names, NEW c, cloud' = [cloud EXCEPT ![n] = c],
         \/ c.st \in {"Absent", "Reserved"}
         \/ ~Exists(n)
         \/ c.pw = cloud[n].pw /\ c.by = cloud[n].by
  PROVE  InstanceKept
<1>1. \A m \in Names : cloud'[m] = IF m = n THEN c ELSE cloud[m]
  BY DEF TypeOK
<1> QED BY <1>1 DEF InstanceKept, Exists

LEMMA CloudStepKept ==
  ASSUME TypeOK, NEW n \in Names, Finish(n) \/ Fail(n) \/ Release(n) \/ OutOfBand(n)
  PROVE  InstanceKept
<1>1. cloud[n] \in Instance(Keys \X Uid)
  BY DEF TypeOK
<1>2. ASSUME NEW c, c.pw = cloud[n].pw /\ c.by = cloud[n].by, cloud' = [cloud EXCEPT ![n] = c]
      PROVE  InstanceKept
  BY <1>2, KeptChange
<1>3. ASSUME NEW st \in {"Absent", "Reserved"}, cloud' = [cloud EXCEPT ![n] = Gone(st)]
      PROVE  InstanceKept
  <2>1. Gone(st).st = st
    BY DEF Gone
  <2> QED BY <1>3, <2>1, KeptChange
<1>4. CASE Finish(n)
  <2> DEFINE c == [cloud[n] EXCEPT !.op = "Done",
                                   !.st = IF @ = "Pending" THEN "Runnable" ELSE @]
  <2>1. cloud' = [cloud EXCEPT ![n] = Gone("Reserved")] \/ cloud' = [cloud EXCEPT ![n] = c]
    BY <1>4 DEF Finish
  <2>2. c.pw = cloud[n].pw /\ c.by = cloud[n].by
    BY <1>1 DEF Instance
  <2> HIDE DEF c
  <2> QED BY <1>2, <1>3, <2>1, <2>2
<1>5. CASE Fail(n)
  <2> DEFINE c == [cloud[n] EXCEPT !.op = "Failed",
                                   !.st = IF @ = "Deleting" THEN "Runnable" ELSE @]
  <2>1. cloud' = [cloud EXCEPT ![n] = c]
    BY <1>5 DEF Fail
  <2>2. c.pw = cloud[n].pw /\ c.by = cloud[n].by
    BY <1>1 DEF Instance
  <2> HIDE DEF c
  <2> QED BY <1>2, <2>1, <2>2
<1>6. CASE Release(n)
  BY <1>3, <1>6 DEF Release
<1>7. CASE OutOfBand(n)
  <2> DEFINE c(s)  == [cloud[n] EXCEPT !.s = s]
             d(st) == [cloud[n] EXCEPT !.st = st, !.op = "Done"]
             e(s)  == [Gone("Runnable") EXCEPT !.s = s]
  <2>1. \/ \E s \in Settings : cloud' = [cloud EXCEPT ![n] = c(s)]
        \/ \E st \in {"Runnable", "Stopped"} : cloud' = [cloud EXCEPT ![n] = d(st)]
        \/ cloud' = [cloud EXCEPT ![n] = Gone("Reserved")]
        \/ ~Exists(n) /\ \E s \in Settings : cloud' = [cloud EXCEPT ![n] = e(s)]
    BY <1>7 DEF OutOfBand, Exists
  <2>2. /\ \A s : c(s).pw = cloud[n].pw /\ c(s).by = cloud[n].by
        /\ \A st : d(st).pw = cloud[n].pw /\ d(st).by = cloud[n].by
    BY <1>1 DEF Instance
  <2> HIDE DEF c, d, e
  <2> QED BY <1>2, <1>3, <2>1, <2>2, KeptChange
<1> QED BY <1>4, <1>5, <1>6, <1>7

LEMMA RequestKept ==
  ASSUME TypeOK, InsertInstance \/ UpdateInstance \/ DeleteInstance
  PROVE  InstanceKept
<1>1. Busy(w) /\ Name \in Names /\ cloud[Name] \in Instance(Keys \X Uid)
  BY BusyType DEF InsertInstance, UpdateInstance, DeleteInstance, At, TypeOK
<1>2. UNCHANGED cloud => InstanceKept
  BY DEF InstanceKept
<1>3. CASE InsertInstance
  <2> DEFINE c == [st |-> "Pending", s |-> w.p.s, op |-> "Running",
                   pw |-> None, by |-> <<w.key, w.p.uid>>, asked |-> FALSE]
  <2>1. PICK o \in Outcomes(InsertReply(Name, w.p.s)) :
          cloud' = IF o.applied THEN [cloud EXCEPT ![Name] = c] ELSE cloud
    BY <1>3 DEF InsertInstance, Inserted
  <2>2. o.applied => ~Exists(Name)
    BY <2>1, OutcomeFacts DEF InsertReply, Exists, Ok, BadRequest, Conflict
  <2> HIDE DEF c
  <2> QED BY <1>1, <1>2, <2>1, <2>2, KeptChange
<1>4. CASE UpdateInstance
  <2> DEFINE c == [cloud[Name] EXCEPT !.s = w.p.s, !.st = "Runnable", !.op = "Running"]
  <2>1. cloud' = cloud \/ cloud' = [cloud EXCEPT ![Name] = c]
    BY <1>4 DEF UpdateInstance, Updated
  <2>2. c.pw = cloud[Name].pw /\ c.by = cloud[Name].by
    BY <1>1 DEF Instance
  <2> HIDE DEF c
  <2> QED BY <1>1, <1>2, <2>1, <2>2, KeptChange
<1>5. CASE DeleteInstance
  <2> DEFINE c == [cloud[Name] EXCEPT !.st = "Deleting", !.op = "Running", !.asked = TRUE]
  <2>1. cloud' = cloud \/ cloud' = [cloud EXCEPT ![Name] = c]
    BY <1>5 DEF DeleteInstance, Deleted
  <2>2. c.pw = cloud[Name].pw /\ c.by = cloud[Name].by
    BY <1>1 DEF Instance
  <2> HIDE DEF c
  <2> QED BY <1>1, <1>2, <2>1, <2>2, KeptChange
<1> QED BY <1>3, <1>4, <1>5

LEMMA InstancesKept ==
  ASSUME TypeOK, [Next]_vars, ~SetPassword
  PROVE  InstanceKept
<1>1. CASE UNCHANGED cloud
  BY <1>1 DEF InstanceKept
<1>2. CASE Continue
  BY <1>1, <1>2, RequestKept
     DEF Continue, AddFinalizer, GetInstance, GetNewInstance, ListOperations, GetSecret,
         CreateSecret, PutSecret, SkipUpdate, GetUpdatedInstance, PatchStatus, DeleteGet,
         RemoveFinalizer, Panic, Restart
<1>3. CASE Environment
  BY <1>1, <1>3, CloudStepKept
     DEF Environment, Crash, Restart, Deliver, Resync, CollectSecret, UserCreate, UserEdit,
         UserAnnotate, UserDelete, UserWrite, CloudFinish, CloudRelease, CloudFail, CloudDrift
<1>4. ASSUME NEW k \in Keys, StartSync(k) PROVE UNCHANGED cloud
  BY <1>4 DEF StartSync
<1> QED BY <1>1, <1>2, <1>3, <1>4 DEF Next, vars
-----------------------------------------------------------------------------
(* What is asked of the cloud.                                             *)

\* An object on its way out stays on its way out.
LEMMA EndingNext ==
  ASSUME Flow, NEW k \in Keys, Original(k), Ending(k), Sole(k)'
  PROVE  Original(k)' /\ Ending(k)' /\ Lasts(k)
<1>1. TypeOK /\ Logged(k)' \subseteq Logged(k) \cup {Live(k)'} /\ Source
  BY DEF Flow
<1>2. Lasts(k)
  BY DEF Flow, Born, Original
<1>3. Original(k)'
  <2>1. Live(k).uid \in Nat /\ None \notin Nat
    BY <1>1, LiveUid, WebhookAssumption DEF Original, Uid
  <2> QED BY <1>2, <2>1 DEF Lasts, Sole, Original
<1>4. Live(k) \in Logged(k) /\ Cached(k) \in Logged(k)
  BY <1>1, LoggedFacts
<1>5. \A o \in Logged(k)' : Condemned(o)
  <2>1. Condemned(Live(k)')
    BY <1>2, <1>3, <1>4 DEF Ending, Lasts, Original
  <2> QED BY <1>1, <2>1 DEF Ending
<1>6. w'.key = k => w'.pc \notin Setting \cup {"AddFinalizer"}
  <2>1. k # None
    BY ControllerAssumption
  <2>2. w.key = k => w.pc \notin Setting \cup {"AddFinalizer"}
    BY DEF Ending
  <2>3. Cached(k).del
    BY <1>4 DEF Ending, Condemned
  <2> QED BY <1>1, <2>1, <2>2, <2>3
          DEF Source, Carries, Proceeds, Picks, Fetches, Stops, Setting
<1> QED BY <1>2, <1>3, <1>5, <1>6 DEF Ending

\* A sync asks for a deletion when the object is on its way out.
LEMMA AskedEnding ==
  ASSUME TypeOK, WebhookTypeOK, OnlyFirst, Firm, Deleting, At("Delete"), NEW k \in Keys,
         w.key = k, Sole(k)
  PROVE  Original(k) /\ Ending(k)
<1>1. w.p \in Object /\ w.p.uid = history.first[k] /\ w.pc = "Delete"
  BY DEF TypeOK, OnlyFirst, At
<1>2. Original(k)
  BY <1>1, WebhookAssumption DEF Sole, Object
<1>3. Protected(Live(k))
  BY <1>1, <1>2 DEF Firm, Deletion, Condemned
<1>4. \A o \in Logged(k) : Condemned(o)
  <2>1. Doomed(log[k], w.i)
    BY <1>1 DEF Deleting
  <2>2. /\ Len(log[k]) \in 1 .. Len(log[k])
        /\ \A j \in 1 .. Len(log[k]) : j <= Len(log[k])
    BY LogType
  <2> QED BY <1>3, <2>1, <2>2 DEF Doomed, Logged, Live
<1> QED BY <1>1, <1>2, <1>4 DEF Ending, Setting

LEMMA SoughtNext ==
  ASSUME NoSharedName, ControllerInv, CopiesInv, Sought, Flow, [WebhookNext]_<<vars, admission>>
  PROVE  Sought'
<1>1. /\ TypeOK /\ WebhookTypeOK /\ OnlyFirst /\ Firm /\ Deleting /\ Deserved
  BY DEF ControllerInv, AgreementInv, OrphanInv, CopiesInv, Flow
<1> SUFFICES ASSUME NEW k \in Keys, NEW n \in Names,
                    Sole(k)', <<k, n>> \in Requests, cloud'[n].asked
             PROVE  Original(k)' /\ Ending(k)'
  BY DEF Sought
<1>2. Sole(k)
  BY <1>1, SoleBefore
<1>3. Original(k) /\ Ending(k)
  <2>1. CASE cloud[n].asked
    BY <1>2, <2>1 DEF Sought
  <2>2. CASE ~cloud[n].asked
    <3>1. [Next]_vars
      BY <1>1, <2>2, ControllerSide DEF Aside
    <3>2. DeleteInstance /\ n = Name
      BY <1>1, <2>2, <3>1, AskMove
    <3>3. w.pc = "Delete" /\ w.key \in Keys
      BY <1>1, <3>2, CriticalKey DEF DeleteInstance, At, Critical
    <3>4. w.key = k
      BY <1>1, <3>2, <3>3, SharedName DEF Deserved
    <3> QED BY <1>1, <1>2, <3>3, <3>4, AskedEnding DEF At
  <2> QED BY <2>1, <2>2
<1> QED BY <1>3, EndingNext
-----------------------------------------------------------------------------
(* The password that pods are given is the one on the instance.            *)

\* The first object's name is one that only it may ask for.
LEMMA Asking ==
  ASSUME ControllerInv, Sought, NEW k \in Keys, Original(k)
  PROVE  /\ Live(k).name \in Names /\ <<k, Live(k).name>> \in Requests
         /\ cloud[Live(k).name].asked => Ending(k)
<1>1. TypeOK /\ Named(k, log[k])
  BY DEF ControllerInv, AgreementInv, OrphanInv
<1>2. Live(k) # None /\ Sole(k)
  BY DEF Original, Sole
<1>3. Live(k).name \in Names /\ <<k, Live(k).name>> \in Requests
  BY <1>1, <1>2, LiveUid, AsksFor
<1> QED BY <1>2, <1>3 DEF Sought

\* A sync that is about to write the password is about the instance of k.
LEMMA Writing ==
  ASSUME ControllerInv, Sought, NEW k \in Keys, Original(k), w.key = k, w.pc \in Setting
  PROVE  Name = Live(k).name /\ ~cloud[Name].asked
<1>1. Name = Live(k).name
  BY DEF ControllerInv, AgreementInv, Holding, Same, Name
<1>2. ~Ending(k)
  BY DEF Ending
<1> QED BY <1>1, <1>2, Asking

\* When the worker is about to write the password, it has set it ...
LEMMA ToBeWritten ==
  ASSUME ControllerInv, ControllerInv', CopiesInv', Sought, Served, Stays,
         [WebhookNext]_<<vars, admission>>, NEW k \in Keys, Original(k),
         w'.pc = "PutSecret", w'.key = k, NEW n \in Names, w'.p.name = n
  PROVE  Exists(n)' /\ cloud'[n].pw = w'.pw
<1>1. TypeOK /\ Unset' /\ Chosen'
  BY DEF ControllerInv, AgreementInv, OrphanInv, CopiesInv
<1>2. CASE Calls /\ SetPassword
  <2>1. n = Name /\ w'.pw = cloud'[n].pw
    BY <1>1, <1>2, PasswordSet DEF Calls, Intent, Name
  <2>2. w'.pw # None
    BY <1>1 DEF Chosen, At
  <2>3. ~Exists(n)' => cloud'[n].pw = None
    BY <1>1 DEF Unset
  <2> QED BY <2>1, <2>2, <2>3
<1>3. CASE Rests /\ InstanceKept
  <2>1. w.key = k /\ w.pc = "PutSecret" /\ n = Name /\ w'.pw = w.pw
    BY <1>3 DEF Rests, Name
  <2>2. Exists(n) /\ cloud[n].pw = w.pw
    BY <2>1 DEF Served, At
  <2>3. ~cloud[n].asked
    BY <2>1, Writing DEF Setting
  <2>4. Exists(n)'
    BY <2>2, <2>3 DEF Stays
  <2> QED BY <1>3, <2>1, <2>2, <2>4 DEF InstanceKept
<1>4. Aside => Rests /\ InstanceKept
  BY DEF Aside, Rests, InstanceKept
<1>5. [Next]_vars => (Rests /\ InstanceKept) \/ (Calls /\ SetPassword)
  <2>1. [Next]_vars => Rests \/ (Calls /\ SetPassword)
    BY <1>1, WorkMove DEF Settled, After, Begins, Deletes, Calls
  <2>2. Rests => ~SetPassword
    BY DEF Rests, SetPassword, At
  <2> QED BY <1>1, <2>1, <2>2, InstancesKept
<1> QED BY <1>1, <1>2, <1>3, <1>4, <1>5, ControllerSide

\* ... and when it has been written, it is there as long as the object is.
LEMMA JustWritten ==
  ASSUME ControllerInv, Sought, Served, NEW k \in Keys, Original(k), Given(k)
  PROVE  LET n == Live(k).name
         IN Exists(n) /\ UNCHANGED cloud /\ cloud[n].pw = secret'[k].pw
<1>1. w.key = k /\ w.pc = "PutSecret"
  BY DEF Given, PutSecret, At
<1>2. Name = Live(k).name
  BY <1>1, Writing DEF Setting
<1>3. Exists(Name) /\ cloud[Name].pw = w.pw
  BY <1>1 DEF Served, At
<1> QED BY <1>2, <1>3 DEF Given, PutSecret

LEMMA StaysThere ==
  ASSUME ControllerInv, Sought, Stays, Flow, NEW k \in Keys, Original(k), Sole(k)',
         NEW n \in Names, n = Live(k).name, Exists(n) \/ Ending(k)
  PROVE  Exists(n)' \/ Ending(k)'
<1>1. cloud[n].asked => Ending(k)
  BY Asking
<1>2. Ending(k) => Ending(k)'
  BY EndingNext
<1> QED BY <1>1, <1>2 DEF Stays

\* The password on the instance changes only when it is not known.
LEMMA PasswordStays ==
  ASSUME NoSharedName, ControllerInv, ControllerInv', Sought, Served,
         [WebhookNext]_<<vars, admission>>, NEW k \in Keys, Original(k), Known(k),
         NEW n \in Names, n = Live(k).name,
         cloud'[n].by = <<k, Live(k).uid>>
  PROVE  cloud'[n].pw = secret[k].pw
<1>1. TypeOK /\ OrphanInv /\ Vacant /\ Vacant' /\ Blank
  BY DEF ControllerInv, AgreementInv, OrphanInv
<1>2. <<k, Live(k).uid>> # None /\ Live(k) # None
  BY <1>1, LiveUid, OwnerFact DEF Original
<1>3. Exists(n)'
  BY <1>1, <1>2 DEF Vacant
<1>4. Exists(n) \/ Ending(k)
  BY DEF Served
<1>5. ASSUME cloud[n].by = <<k, Live(k).uid>> PROVE cloud[n].pw = secret[k].pw
  BY <1>2, <1>5 DEF Served, MadeFor
<1>6. CASE UNCHANGED cloud
  BY <1>5, <1>6
<1>7. CASE [Next]_vars /\ SetPassword
  <2>1. ASSUME n = Name PROVE FALSE
    <3>1. w.pc = "SetPassword" /\ w.key \in Keys
      BY <1>1, <1>7, BusyType DEF SetPassword, At, Busy
    <3>2. Live(w.key) # None /\ Live(w.key).name = n
      BY <2>1, <3>1 DEF ControllerInv, AgreementInv, Holding, Setting, Protected, Same, Name
    <3>3. <<w.key, n>> \in Requests /\ <<k, n>> \in Requests
      BY <1>1, <3>1, <3>2, AsksFor, Asking DEF ControllerInv, AgreementInv
    <3>4. w.key = k
      BY <3>3, SharedName
    <3> QED BY <1>1, <3>1, <3>4 DEF Blank, Known
  <2> QED BY <1>1, <1>5, <1>7, <2>1, PasswordSet
<1>8. CASE [Next]_vars /\ ~SetPassword /\ Exists(n)
  BY <1>1, <1>3, <1>5, <1>8, InstancesKept DEF InstanceKept
<1>9. CASE [Next]_vars /\ ~UNCHANGED cloud /\ ~Exists(n)
  <2>1. cloud[n].by = None
    BY <1>1, <1>9 DEF Vacant
  <2>2. MadeNow(n)
    BY <1>1, <1>2, <1>9, <2>1, CloudSteps DEF CloudStep, Owned, Freed, Asked
  <2>3. w.pc = "Insert" /\ w.key = k
    BY <2>2 DEF MadeNow, At
  <2> QED BY <1>4, <1>9, <2>3 DEF Ending, Setting
<1> QED BY <1>1, <1>6, <1>7, <1>8, <1>9, ControllerSide DEF Aside

LEMMA ServedNext ==
  ASSUME NoSharedName, ControllerInv, ControllerInv', CopiesInv, CopiesInv', Sought, Served,
         Flow, Stays, [WebhookNext]_<<vars, admission>>
  PROVE  Served'
<1> SUFFICES ASSUME NEW k \in Keys, Original(k)'
             PROVE  /\ w'.pc = "PutSecret" /\ w'.key = k
                         => Exists(Name)' /\ cloud'[w'.p.name].pw = w'.pw
                    /\ Known(k)' =>
                         /\ Exists(Live(k).name)' \/ Ending(k)'
                         /\ MadeFor(Live(k).name, k, Live(k))'
                              => cloud'[Live(k)'.name].pw = secret'[k].pw
  BY DEF Served, At, Name
<1>1. TypeOK /\ TypeOK' /\ OnlyFirst /\ Chosen /\ Sole(k)'
  BY DEF Flow, CopiesInv, Sole
<1>2. CASE Born(k) /\ history.first[k] = None
  BY <1>1, <1>2, JustBorn DEF Known
<1>3. CASE Lasts(k) /\ Original(k)
  <2>1. Live(k)'.uid = Live(k).uid /\ Live(k)'.name = Live(k).name
    BY <1>3 DEF Lasts, Original, Same
  <2>2. PICK n \in Names : n = Live(k).name
    BY <1>3, Asking
  <2>3. ASSUME w'.pc = "PutSecret", w'.key = k
        PROVE  Exists(Name)' /\ cloud'[w'.p.name].pw = w'.pw
    <3>1. PICK m \in Names : m = w'.p.name
      BY <1>1, <2>3 DEF TypeOK, Object
    <3>2. Exists(m)' /\ cloud'[m].pw = w'.pw
      BY <1>3, <2>3, <3>1, ToBeWritten
    <3> QED BY <3>1, <3>2 DEF Exists, Name
  <2>4. ASSUME Known(k)'
        PROVE  /\ Exists(n)' \/ Ending(k)'
               /\ cloud'[n].by = <<k, Live(k).uid>> => cloud'[n].pw = secret'[k].pw
    <3>1. CASE Known(k)
      <4>1. Exists(n) \/ Ending(k)
        BY <1>3, <2>2, <3>1 DEF Served
      <4>2. secret'[k] = secret[k]
        BY <1>1, <1>3, <3>1, KnownStays
      <4> QED BY <1>1, <1>3, <2>2, <3>1, <4>1, <4>2, StaysThere, PasswordStays
    <3>2. CASE ~Known(k)
      <4>1. Given(k)
        BY <2>4, <3>2 DEF Flow, SecretMove, Collected, Begun, Known
      <4>2. Exists(n) /\ UNCHANGED cloud /\ cloud[n].pw = secret'[k].pw
        BY <1>3, <2>2, <4>1, JustWritten
      <4> QED BY <4>2 DEF Exists
    <3> QED BY <3>1, <3>2
  <2>5. (Exists(n)' <=> Exists(Live(k).name)') /\ cloud'[n] = cloud'[Live(k)'.name]
    BY <2>1, <2>2 DEF Exists
  <2>6. MadeFor(Live(k).name, k, Live(k))' => cloud'[n].by = <<k, Live(k).uid>>
    BY <2>1, <2>2 DEF MadeFor
  <2> QED BY <2>3, <2>4, <2>5, <2>6
<1> QED BY <1>1, <1>2, <1>3, SoleBefore
-----------------------------------------------------------------------------
(* When nobody changes instances behind the operator's back.               *)

OnRequest == DeletionAsked' /\ Stays

LEMMA RequestChange ==
  ASSUME TypeOK, DeletionAsked, NEW n \in Names, NEW c, cloud' = [cloud EXCEPT ![n] = c],
         c.st = "Deleting" => c.asked,
         c.st \in {"Absent", "Reserved"} => ~Exists(n) \/ cloud[n].asked
  PROVE  OnRequest
<1>1. \A m \in Names : cloud'[m] = IF m = n THEN c ELSE cloud[m]
  BY DEF TypeOK
<1> QED BY <1>1 DEF OnRequest, DeletionAsked, Stays, Exists

LEMMA CloudOnRequest ==
  ASSUME TypeOK, DeletionAsked, NEW n \in Names, Finish(n) \/ Fail(n) \/ Release(n)
  PROVE  OnRequest
<1>1. cloud[n] \in Instance(Keys \X Uid) /\ (cloud[n].st = "Deleting" => cloud[n].asked)
  BY DEF TypeOK, DeletionAsked
<1>2. \A st : Gone(st).st = st
  BY DEF Gone
<1>3. CASE Finish(n)
  <2> DEFINE c == [cloud[n] EXCEPT !.op = "Done",
                                   !.st = IF @ = "Pending" THEN "Runnable" ELSE @]
  <2>1. \/ cloud' = [cloud EXCEPT ![n] = Gone("Reserved")] /\ cloud[n].asked
        \/ cloud' = [cloud EXCEPT ![n] = c]
    BY <1>1, <1>3 DEF Finish
  <2>2. c.st \in {cloud[n].st, "Runnable"} /\ c.asked = cloud[n].asked
    BY <1>1 DEF Instance
  <2> HIDE DEF c
  <2> QED BY <1>1, <1>2, <2>1, <2>2, RequestChange DEF Exists
<1>4. CASE Fail(n)
  <2> DEFINE c == [cloud[n] EXCEPT !.op = "Failed",
                                   !.st = IF @ = "Deleting" THEN "Runnable" ELSE @]
  <2>1. cloud' = [cloud EXCEPT ![n] = c]
    BY <1>4 DEF Fail
  <2>2. c.st \in {cloud[n].st, "Runnable"} /\ c.asked = cloud[n].asked
    BY <1>1 DEF Instance
  <2> HIDE DEF c
  <2> QED BY <1>1, <2>1, <2>2, RequestChange DEF Exists
<1>5. CASE Release(n)
  BY <1>2, <1>5, RequestChange DEF Release, Exists
<1> QED BY <1>3, <1>4, <1>5

LEMMA CallOnRequest ==
  ASSUME TypeOK, DeletionAsked,
         InsertInstance \/ UpdateInstance \/ DeleteInstance \/ SetPassword
  PROVE  OnRequest
<1>1. Busy(w) /\ Name \in Names /\ cloud[Name] \in Instance(Keys \X Uid)
  BY BusyType DEF InsertInstance, UpdateInstance, DeleteInstance, SetPassword, At, TypeOK
<1>2. UNCHANGED cloud => OnRequest
  BY DEF OnRequest, DeletionAsked, Stays, Exists
<1>3. ASSUME NEW c, cloud' = [cloud EXCEPT ![Name] = c],
             \/ c.st \in {"Pending", "Runnable"} \/ (c.st = "Deleting" /\ c.asked)
             \/ c.st = cloud[Name].st /\ c.asked = cloud[Name].asked
      PROVE  OnRequest
  BY <1>1, <1>3, RequestChange DEF DeletionAsked, Exists
<1>4. CASE InsertInstance
  <2> DEFINE c == [st |-> "Pending", s |-> w.p.s, op |-> "Running",
                   pw |-> None, by |-> <<w.key, w.p.uid>>, asked |-> FALSE]
  <2>1. c.st = "Pending" /\ (cloud' = cloud \/ cloud' = [cloud EXCEPT ![Name] = c])
    BY <1>4 DEF InsertInstance, Inserted
  <2> HIDE DEF c
  <2> QED BY <1>2, <1>3, <2>1
<1>5. CASE UpdateInstance
  <2> DEFINE c == [cloud[Name] EXCEPT !.s = w.p.s, !.st = "Runnable", !.op = "Running"]
  <2>1. cloud' = cloud \/ cloud' = [cloud EXCEPT ![Name] = c]
    BY <1>5 DEF UpdateInstance, Updated
  <2>2. c.st = "Runnable"
    BY <1>1 DEF Instance
  <2> HIDE DEF c
  <2> QED BY <1>2, <1>3, <2>1, <2>2
<1>6. CASE DeleteInstance
  <2> DEFINE c == [cloud[Name] EXCEPT !.st = "Deleting", !.op = "Running", !.asked = TRUE]
  <2>1. cloud' = cloud \/ cloud' = [cloud EXCEPT ![Name] = c]
    BY <1>6 DEF DeleteInstance, Deleted
  <2>2. c.st = "Deleting" /\ c.asked
    BY <1>1 DEF Instance
  <2> HIDE DEF c
  <2> QED BY <1>2, <1>3, <2>1, <2>2
<1>7. CASE SetPassword
  <2> DEFINE c(pw, op) == [cloud[Name] EXCEPT !.pw = pw, !.op = op]
  <2>1. cloud' = cloud \/ \E pw, op : cloud' = [cloud EXCEPT ![Name] = c(pw, op)]
    BY <1>7 DEF SetPassword, UserUpdated
  <2>2. \A pw, op : c(pw, op).st = cloud[Name].st /\ c(pw, op).asked = cloud[Name].asked
    BY <1>1 DEF Instance
  <2> HIDE DEF c
  <2> QED BY <1>2, <1>3, <2>1, <2>2
<1> QED BY <1>4, <1>5, <1>6, <1>7

LEMMA NoDriftStays ==
  ASSUME TypeOK, DeletionAsked, MaxDrift = 0, [WebhookNext]_<<vars, admission>>
  PROVE  OnRequest
<1>1. CASE UNCHANGED cloud
  BY <1>1 DEF OnRequest, DeletionAsked, Stays, Exists
<1>2. CASE Continue
  BY <1>1, <1>2, CallOnRequest
     DEF Continue, AddFinalizer, GetInstance, GetNewInstance, ListOperations, GetSecret,
         CreateSecret, PutSecret, SkipUpdate, GetUpdatedInstance, PatchStatus, DeleteGet,
         RemoveFinalizer, Panic, Restart
<1>3. CASE Environment
  <2>1. \A n \in Names : ~CloudDrift(n)
    BY UsedType DEF CloudDrift, Use
  <2> QED BY <1>1, <1>3, <2>1, CloudOnRequest
          DEF Environment, Crash, Restart, Deliver, Resync, CollectSecret, UserCreate, UserEdit,
              UserAnnotate, UserDelete, UserWrite, CloudFinish, CloudRelease, CloudFail
<1>4. ASSUME NEW k \in Keys, StartSync(k) PROVE UNCHANGED cloud
  BY <1>4 DEF StartSync
<1> QED BY <1>1, <1>2, <1>3, <1>4, ControllerSide DEF Next, vars, Aside
-----------------------------------------------------------------------------
(* The theorems about credentials.                                         *)

LEMMA CredentialsInit ==
  ASSUME WebhookInit
  PROVE  CredentialsInv /\ DeletionAsked
<1>1. /\ \A k \in Keys : /\ history.first[k] = None /\ log[k] = <<None>> /\ secret[k] = None
                         /\ \A ns \in Namespaces : local[ns, k] = None
      /\ \A p \in Pods : pod[p].pc = "none"
      /\ \A n \in Names : cloud[n].st = "Absent" /\ ~cloud[n].asked
      /\ w.pc = "Idle" /\ w.key = None
  BY DEF WebhookInit, Init, NoPod, Idle, Gone
<1>2. \A k \in Keys : ~Original(k) /\ \A o \in Logged(k) : o = None
  <2>1. Len(<<None>>) = 1 /\ <<None>>[1] = None
    OBVIOUS
  <2>2. ASSUME NEW k \in Keys
        PROVE  Live(k) = None /\ \A j \in 1 .. Len(log[k]) : log[k][j] = None
    <3>1. log[k] = <<None>>
      BY <1>1
    <3> QED BY <2>1, <3>1 DEF Live
  <2> QED BY <2>2 DEF Original, Logged
<1>3. OnlyFirst
  BY <1>1, <1>2, ControllerAssumption DEF OnlyFirst, Unread
<1>4. Firm /\ Announced /\ Copied /\ Served
  BY <1>2 DEF Firm, Announced, Copied, Served
<1>5. Chosen /\ Sought /\ DeletionAsked
  BY <1>1 DEF Chosen, At, Sought, DeletionAsked
<1> QED BY <1>3, <1>4, <1>5 DEF CredentialsInv, CopiesInv

LEMMA CredentialsStep ==
  ASSUME NoSharedName, GuardInv, GuardInv', CredentialsInv, Stays,
         [WebhookNext]_<<vars, admission>>
  PROVE  CredentialsInv'
<1>1. ControllerInv /\ ControllerInv' /\ WebhookTypeOK /\ CopiesInv /\ Sought /\ Served
  BY DEF GuardInv, CredentialsInv
<1>2. CopiesInv' /\ Flow
  BY <1>1, CopiesStep
<1>3. Sought'
  BY <1>1, <1>2, SoughtNext
<1>4. Served'
  BY <1>1, <1>2, ServedNext
<1> QED BY <1>2, <1>3, <1>4 DEF CredentialsInv

\* The object a pod was admitted for, if it is the first of its name, has a
\* secret in the namespace of the pod.
LEMMA AdmittedCopy ==
  ASSUME WebhookTypeOK, OnlyFirst, Copied, NEW p \in Pods, InPod(p, "admitted"), Original(KeyOf(p))
  PROVE  LET s == local[Target[p]]
             k == KeyOf(p)
         IN /\ s # None /\ s.uid = Live(k).uid
            /\ Known(k) /\ s.pw = secret[k].pw /\ secret[k].uid = Live(k).uid
<1>1. PICK ns \in Namespaces, k \in Keys : Target[p] = <<ns, k>>
  BY WebhookAssumption
<1>2. KeyOf(p) = k /\ local[Target[p]] = local[ns, k]
  <2>1. <<ns, k>>[2] = k
    OBVIOUS
  <2> QED BY <1>1, <2>1 DEF KeyOf
<1>3. local[Target[p]] # None
  BY <1>2 DEF Copied
<1>4. Known(k) /\ local[ns, k].pw = secret[k].pw
  BY <1>2, <1>3 DEF Copied
<1>5. local[ns, k].uid = Live(k).uid /\ secret[k].uid = Live(k).uid
  BY <1>2, <1>3, <1>4 DEF OnlyFirst, Sole, Original, Known
<1> QED BY <1>2, <1>3, <1>4, <1>5

LEMMA CopiesSound ==
  ASSUME GuardInv, CopiesInv
  PROVE  CopiesAgree
<1>1. WebhookTypeOK /\ TypeOK /\ PasswordAgreement /\ OnlyFirst /\ Copied
  BY DEF GuardInv, ControllerInv, AgreementInv, OrphanInv, CopiesInv
<1> SUFFICES ASSUME NEW p \in Pods, InPod(p, "admitted"), Original(KeyOf(p))
             PROVE  LET k == KeyOf(p)
                        o == Live(k)
                        s == local[Target[p]]
                    IN /\ s # None /\ s.uid = o.uid /\ Known(k) /\ s.pw = secret[k].pw
                       /\ MadeFor(o.name, k, o) => cloud[o.name].pw \in {None, s.pw}
  BY DEF CopiesAgree
<1> DEFINE k == KeyOf(p)
           o == Live(k)
<1>2. k \in Keys
  BY WebhookAssumption DEF KeyOf
<1>3. o.name \in Names
  BY <1>1, <1>2, LiveUid DEF Original
<1>4. /\ local[Target[p]] # None /\ local[Target[p]].uid = o.uid
      /\ Known(k) /\ local[Target[p]].pw = secret[k].pw /\ secret[k].uid = o.uid
  BY <1>1, AdmittedCopy
<1> HIDE DEF k
<1>5. MadeFor(o.name, k, o) => cloud[o.name].pw \in {None, secret[k].pw}
  BY <1>1, <1>2, <1>3, <1>4 DEF PasswordAgreement, Known
<1> QED BY <1>4, <1>5 DEF k

LEMMA CredentialsSound ==
  ASSUME GuardInv, CredentialsInv
  PROVE  CredentialsAgree
<1>1. WebhookTypeOK /\ OnlyFirst /\ Copied /\ Served
  BY DEF GuardInv, CredentialsInv, CopiesInv
<1> SUFFICES ASSUME NEW p \in Pods, InPod(p, "admitted"), Original(KeyOf(p))
             PROVE  LET o == Live(KeyOf(p))
                        s == local[Target[p]]
                    IN /\ s # None /\ s.uid = o.uid /\ s.pw # None
                       /\ MadeFor(o.name, KeyOf(p), o) => s.pw = cloud[o.name].pw
  BY DEF CredentialsAgree, Original
<1>2. KeyOf(p) \in Keys
  BY WebhookAssumption DEF KeyOf
<1> QED BY <1>1, <1>2, AdmittedCopy DEF Served, Known

\* What each station of the password knows about the earlier ones.
LEMMA CopiesInvariance ==
  ASSUME NoSharedName
  PROVE  WebhookSpec => []CopiesInv
<1>1. WebhookInit => CopiesInv
  BY CredentialsInit DEF CredentialsInv
<1>2. GuardInv /\ CopiesInv /\ [WebhookNext]_<<vars, admission>> => CopiesInv'
  BY CopiesStep DEF GuardInv
<1> QED BY <1>1, <1>2, GuardInvariance, PTL DEF WebhookSpec

\* Whatever happens to instances, a pod that was given access mounts a secret
\* that belongs to its object and holds the password that the operator keeps.
THEOREM CopiesAreKept ==
  ASSUME NoSharedName
  PROVE  WebhookSpec => []CopiesAgree
<1>1. GuardInv /\ CopiesInv => CopiesAgree
  BY CopiesSound
<1> QED BY <1>1, CopiesInvariance, GuardInvariance, PTL

\* As long as nobody else deletes instances, each station of the password agrees
\* with the ones before it, at every step of a sync and of an admission.
THEOREM StationsAgree ==
  ASSUME NoSharedName
  PROVE  WebhookSpec /\ NothingLost => []CredentialsInv
<1>1. WebhookInit => CredentialsInv
  BY CredentialsInit
<1>2. UNCHANGED <<vars, admission>> => Stays
  BY DEF Stays, Exists, vars
<1>3. ASSUME GuardInv, GuardInv', CredentialsInv,
             [WebhookNext]_<<vars, admission>>, [Stays]_<<vars, admission>>
      PROVE  CredentialsInv'
  BY <1>2, <1>3, CredentialsStep
<1> QED BY <1>1, <1>3, GuardInvariance, PTL DEF WebhookSpec, NothingLost

\* So the password in the secret of a pod is the one that is set on the instance.
THEOREM CredentialsReachPods ==
  ASSUME NoSharedName
  PROVE  WebhookSpec /\ NothingLost => []CredentialsAgree
<1>1. GuardInv /\ CredentialsInv => CredentialsAgree
  BY CredentialsSound
<1> QED BY <1>1, StationsAgree, GuardInvariance, PTL

\* An instance that is reported as up to date has been given a password.
THEOREM PasswordsAreGenerated ==
  ASSUME NoSharedName
  PROVE  WebhookSpec /\ NothingLost => []PasswordGeneratedOnce
<1>1. ASSUME GuardInv, CredentialsInv PROVE PasswordGeneratedOnce
  <2> SUFFICES ASSUME NEW k \in Keys, Original(k), Live(k).conds.upToDate = "InstanceUpToDate",
                      MadeFor(Live(k).name, k, Live(k))
               PROVE  cloud[Live(k).name].pw # None
    BY DEF PasswordGeneratedOnce
  <2>1. Live(k) \in Logged(k) /\ Live(k) # None
    BY <1>1, LoggedFacts DEF GuardInv, ControllerInv, AgreementInv, OrphanInv, Original
  <2>2. Known(k)
    BY <1>1, <2>1 DEF CredentialsInv, CopiesInv, Announced, Tells
  <2> QED BY <1>1, <2>2 DEF CredentialsInv, Served, Known
<1> QED BY <1>1, StationsAgree, GuardInvariance, PTL

\* Nobody else does, when nobody changes instances behind the operator's back:
\* the operator asks for each deletion.
THEOREM CredentialsAreRight ==
  ASSUME NoSharedName, MaxDrift = 0
  PROVE  WebhookSpec => []CredentialsAgree
<1>1. WebhookInit => DeletionAsked
  BY CredentialsInit
<1>2. ASSUME GuardInv, DeletionAsked, [WebhookNext]_<<vars, admission>>
      PROVE  DeletionAsked' /\ [Stays]_<<vars, admission>>
  BY <1>2, NoDriftStays DEF GuardInv, ControllerInv, AgreementInv, OrphanInv, OnRequest
<1> QED BY <1>1, <1>2, GuardInvariance, CredentialsReachPods, PTL DEF WebhookSpec, NothingLost
=============================================================================
