---------------------------- MODULE MCPassGateway ----------------------------
(* Instances of PassGateway for TLC.  A unit of time is a quiet period.    *)
EXTENDS PassGateway, TLC

CONSTANTS c1, c2, t1, t2, o1, o2, o3

(* 15 * 2^n minutes, n up to 3, next to a Retry-After of 1 or 2 units. *)
MCInstabilityPause == [n \in 0..3 |-> IF n = 0 THEN 1 ELSE 2]

MCSymmetry == Permutations(Ops) \cup Permutations(Callers) \cup Permutations(Targets)
=============================================================================
