----------------------------- MODULE KeyDispatch -----------------------------
(***************************************************************************)
(* What a controller promises about the keys of the objects it handles     *)
(* ("we only process a fixed amount of resources at a time, and ... are    *)
(* never processing the same resource simultaneously in two different      *)
(* worker goroutines", pkg/controllers/generic.go): a key is pending from  *)
(* the moment something happens to its object until a sync starts that     *)
(* sees what happened.                                                     *)
(***************************************************************************)
EXTENDS FiniteSets, Naturals

CONSTANTS Keys, Threads

VARIABLES
  pending,  \* keys for which a sync must start
  busy,     \* keys for which a sync is under way
  open      \* FALSE once the controller has stopped accepting work

vars == <<pending, busy, open>>

Init == pending = {} /\ busy = {} /\ open = TRUE

\* Something happens to the object, or a sync of it fails.
Notify(k) ==
  /\ open
  /\ pending' = pending \cup {k}
  /\ UNCHANGED <<busy, open>>

\* A sync starts; one that is to be retried later may still be.
Start(k) ==
  /\ k \in pending \ busy
  /\ Cardinality(busy) < Threads
  /\ pending' \in {pending, pending \ {k}}
  /\ busy' = busy \cup {k}
  /\ UNCHANGED open

Finish(k) == k \in busy /\ busy' = busy \ {k} /\ UNCHANGED <<pending, open>>

\* The controller is told to stop; work is dropped only when the process ends.
Close == open /\ open' = FALSE /\ UNCHANGED <<pending, busy>>
End == ~open /\ pending' = {} /\ busy' = {} /\ UNCHANGED open

Next == Close \/ End \/ \E k \in Keys : Notify(k) \/ Start(k) \/ Finish(k)

Spec == Init /\ [][Next]_vars
=============================================================================
