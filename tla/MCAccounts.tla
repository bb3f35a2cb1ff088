----------------------------- MODULE MCAccounts -----------------------------
(***************************************************************************)
(* The instance of Accounts for TLC.                                       *)
(***************************************************************************)
EXTENDS Accounts, TLC

CONSTANTS a1, a2, p1, p2, p3

MCRank == [a \in Accounts |-> IF a = a1 THEN 1 ELSE 2]
MCPosition == [p \in Participants |-> CASE p = p1 -> 1 [] p = p2 -> 2 [] p = p3 -> 3]
MCIntervals == <<1, 2>>
MCDelays == <<1, 2>>
\* The requests of Access and the logins are the same two values.
MCSymmetry == Permutations(Logins) \cup Permutations(Clients)
=============================================================================
