---------------------------- MODULE MCDurableJobs ----------------------------
(* Instances of DurableJobs for TLC. *)
EXTENDS DurableJobs, TLC

CONSTANTS j1, j2, w1, w2

(* An administrator's job and an automatic one: 20 and 100 in the code. *)
MCPriority == (j1 :> 20) @@ (j2 :> 100)

(* _retry_delay, min(300, 5 * 2^(n - 1)), in units of 5 s capped at 2. *)
MCBackoff == [n \in 1..MaxAttempts |-> IF n = 1 THEN 1 ELSE 2]
=============================================================================
