--------------------------- MODULE MCSimulations ---------------------------
(* An instance of Simulations for TLC: one UE with an assessment.          *)
EXTENDS Simulations

CONSTANTS x1, u, n, e, t1, A, B, C

MCOwner == [k \in Ids |-> u]
=============================================================================
