------------------------------ MODULE MCWebhook ------------------------------
(* Small instances of the admission webhook beside the controller for TLC. *)
EXTENDS CredentialsInvariant, TLC

CONSTANTS k1, n1, s1, p1, p2, ns1, pod1, pod2

\* One key may ask for one name.
OneRequest == {<<k1, n1>>}

\* Pods and passwords are only compared for equality.
Symmetry == Permutations(Pods) \cup Permutations(Passwords)

\* All pods ask for the same object in the same namespace.
SameTarget == [p \in Pods |-> <<ns1, k1>>]
=============================================================================
