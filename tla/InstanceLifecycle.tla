-------------------------- MODULE InstanceLifecycle --------------------------
(***************************************************************************)
(* What cloudsql-postgres-operator promises about the lives of objects and *)
(* of the instances it creates for them ("Lifecycle" and "Orphan           *)
(* mitigation" in docs/design/00-overview.adoc, in terms of the finalizer  *)
(* and of the requests it gets accepted): an instance is made only for an  *)
(* object that is protected by the finalizer, is deleted by the operator   *)
(* only for an object that is condemned, and such an object goes away only *)
(* when no instance made for it is left, but for one that is doomed.       *)
(***************************************************************************)
CONSTANT Keys

VARIABLES
  object,    \* object[k]: "absent", "plain", "protected" or "condemned"
  instance   \* instance[k]: "none", "made" or, once the operator's request
             \* to delete it has been accepted, "doomed"

vars == <<object, instance>>

Init ==
  /\ object = [k \in Keys |-> "absent"]
  /\ instance = [k \in Keys |-> "none"]

Become(k, from, to) == object[k] = from /\ object' = [object EXCEPT ![k] = to]

\* A user creates the object ...
Create(k) == Become(k, "absent", "plain") /\ UNCHANGED instance

\* ... the operator protects it ...
Protect(k) == Become(k, "plain", "protected") /\ UNCHANGED instance

\* ... and makes an instance for it, whether or not a user deletes it meanwhile.
Make(k) ==
  /\ object[k] \in {"protected", "condemned"}
  /\ instance' = [instance EXCEPT ![k] = "made"]
  /\ UNCHANGED object

\* A user deletes the object.
Condemn(k) ==
  /\ Become(k, "plain", "absent") \/ Become(k, "protected", "condemned")
  /\ UNCHANGED instance

\* The operator gets the deletion of the instance of a condemned object
\* accepted; the deletion itself may fail.
Doom(k) ==
  /\ object[k] = "condemned"
  /\ instance[k] = "made"
  /\ instance' = [instance EXCEPT ![k] = "doomed"]
  /\ UNCHANGED object

\* The instance is gone: the deletion completes, or somebody else deletes it.
Lose(k) ==
  /\ instance[k] # "none"
  /\ instance' = [instance EXCEPT ![k] = "none"]
  /\ UNCHANGED object

\* The operator lets go of a condemned object that has no instance left, or
\* one that is doomed.
Release(k) ==
  /\ instance[k] # "made"
  /\ Become(k, "condemned", "absent")
  /\ instance' = [instance EXCEPT ![k] = "none"]

Next ==
  \E k \in Keys : \/ Create(k) \/ Protect(k) \/ Make(k) \/ Condemn(k)
                  \/ Doom(k) \/ Lose(k) \/ Release(k)

Spec == Init /\ [][Next]_vars
=============================================================================
