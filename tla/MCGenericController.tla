------------------------- MODULE MCGenericController -------------------------
(* Small instances of the generic controller for TLC. *)
EXTENDS GenericController, TLC

CONSTANTS k1, k2, k3, w1, w2

Symmetry == Permutations(Keys) \cup Permutations(Workers)
=============================================================================
