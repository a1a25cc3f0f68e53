----------------------------- MODULE MCReplicas -----------------------------
(* Small instances of the operator's replicas for TLC. *)
EXTENDS OperatorReplicas

CONSTANTS r1, r2, c0, c1
=============================================================================
