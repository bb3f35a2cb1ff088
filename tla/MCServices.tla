----------------------------- MODULE MCServices -----------------------------
(***************************************************************************)
(* The instance of Services for TLC.  The values x and the values y play   *)
(* the interchangeable parts of every component, so that one small         *)
(* symmetry serves all.                                                    *)
(***************************************************************************)
EXTENDS Services, TLC

CONSTANTS x1, x2, y1, y2, d1, d2, u, n, e, k3

(* OUTBOX_LEASE (2 min) is longer than the first retry delay (5 s). *)
MCBackoff == [i \in 1 .. MaxAttempts |-> 1]
\* The notes of two keys belong to one course, those of k3 to another.
MCUe == [k \in {y1, y2, k3} |-> IF k = k3 THEN u ELSE n]
\* One UE, with an assessment and what the owner invents.
MCOwner == [k \in {u, n, e} |-> u]
MCOrder == [a \in {d1, d2} |-> IF a = d1 THEN 1 ELSE 2]
MCSymmetry == Permutations({x1, x2}) \cup Permutations({y1, y2})
=============================================================================
