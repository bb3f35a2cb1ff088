---------------------------- MODULE JobLifecycle ----------------------------
(***************************************************************************)
(* What a durable queue of IMTegrale promises about each accepted key,     *)
(* whatever the workers, the leases and the crashes behind it: a key that  *)
(* is accepted stays open until it succeeds or until exactly MaxAttempts   *)
(* hand-overs failed, it is handed to one holder at a time, and a finished *)
(* key changes no more until retention forgets it.                         *)
(*                                                                         *)
(* Several keys may move in one step: claim_job recovers every expired     *)
(* lease in the transaction that hands out the next key.                   *)
(***************************************************************************)
EXTENDS Naturals

CONSTANTS Keys,         \* the idempotency keys
          MaxAttempts   \* hand-overs a key is granted

VARIABLES life          \* life[k]: the stage of key k and its hand-overs

Unknown == [stage |-> "unknown", tries |-> 0]
Stages  == {"unknown", "open", "held", "succeeded", "abandoned"}

TypeOK == life \in [Keys -> [stage: Stages, tries: 0..MaxAttempts]]

Init == life = [k \in Keys |-> Unknown]

-----------------------------------------------------------------------------
(* The steps of one key: from s to t. *)

Accept(s, t)  == /\ s = Unknown
                 /\ t = [stage |-> "open", tries |-> 0]

HandOver(s, t) == /\ s.stage = "open"
                  /\ s.tries < MaxAttempts
                  /\ t = [stage |-> "held", tries |-> s.tries + 1]

TakeBack(s, t) == /\ s.stage = "held"
                  /\ s.tries < MaxAttempts
                  /\ t = [s EXCEPT !.stage = "open"]

Succeed(s, t)  == /\ s.stage = "held"
                  /\ t = [s EXCEPT !.stage = "succeeded"]

Abandon(s, t)  == /\ s.stage = "held"
                  /\ s.tries = MaxAttempts
                  /\ t = [s EXCEPT !.stage = "abandoned"]

Forget(s, t)   == /\ s.stage \in {"succeeded", "abandoned"}
                  /\ t = Unknown

KeyStep(s, t) == \/ Accept(s, t)
                 \/ HandOver(s, t)
                 \/ TakeBack(s, t)
                 \/ Succeed(s, t)
                 \/ Abandon(s, t)
                 \/ Forget(s, t)

Next == /\ life' = [k \in Keys |-> life'[k]]
        /\ \A k \in Keys : life'[k] = life[k] \/ KeyStep(life[k], life'[k])

Spec == Init /\ [][Next]_life
=============================================================================
