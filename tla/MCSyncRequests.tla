--------------------------- MODULE MCSyncRequests ---------------------------
(* Instances of SyncRequests for TLC. *)
EXTENDS SyncRequests, TLC

CONSTANTS a1, r1, r2, r3, w1, w2, c1

MCAccountOf == [r \in Requests |-> a1]

(* r1 is the owner's, r2 an automatic one, r3 an operator's command. *)
MCOrigin == [r \in Requests |-> CASE r = r1 -> "owner"
                                  [] r = r2 -> "automatic"
                                  [] OTHER  -> "system"]

(* Every request is the owner's. *)
MCOwnerOnly == [r \in Requests |-> "owner"]

MCBackoff == [n \in 1..MaxAttempts |-> 1]

MCWorkersSymmetry == Permutations(Workers)
=============================================================================
