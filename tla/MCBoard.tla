------------------------------ MODULE MCBoard ------------------------------
(* The board of three participants.                                        *)
EXTENDS Board

CONSTANTS p1, p2, p3

MCPosition == [p \in Participants |-> CASE p = p1 -> 1 [] p = p2 -> 2 [] p = p3 -> 3]
=============================================================================
