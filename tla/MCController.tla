---------------------------- MODULE MCController ----------------------------
(* Small instances of the controller for TLC. *)
EXTENDS OrphanInvariant, TLC

CONSTANTS k1, n1, s1, s2, s3, p1, p2

\* Passwords are only compared for equality.
Symmetry == Permutations(Passwords)

\* One key may ask for one name.
OneRequest == {<<k1, n1>>}

\* Going from s2 back to s1 is refused, as shrinking a disk is.
NoShrink == {<<s2, s1>>}
=============================================================================
