---------------------------- MODULE Notifications ----------------------------
(***************************************************************************)
(* The Telegram outbox of jobs.py: the rows of notification_outbox that    *)
(* sync.py writes in the transaction of the new grades, and the worker     *)
(* that delivers them.  The rows, their leases, retries and retention are  *)
(* those of DurableJobs under other names (pending, sending, delivered,    *)
(* dead_letter; served by available_at alone; five attempts).  Telegram is *)
(* outside: it may take a message and its answer be lost.                  *)
(***************************************************************************)
EXTENDS Naturals, FiniteSets

CONSTANTS
  Messages,   \* one per request with new grades, the key of its row
  Workers,    \* outbox worker processes
  NoClaim, MaxAttempts, LeaseTime, Backoff,
  SucceededRetention,   \* DELIVERED_OUTBOX_RETENTION
  DeadRetention,        \* DEAD_OUTBOX_RETENTION
  MaxRows

VARIABLES
  wanted,     \* wanted[m]: the account, its Telegram settings and the notes
              \* of m are there
  withdrawn,  \* messages nobody wanted at some moment, a history
  sending,    \* sending[w]: what worker w is about to do with its claim
  arrived,    \* arrived[m]: messages Telegram took for m, a history
  job, claim  \* the rows and the claims

Queue == INSTANCE DurableJobs WITH Jobs <- Messages,
                                   Priority <- [m \in Messages |-> 0]

vars == <<wanted, withdrawn, sending, arrived, job, claim>>

(* idle; claimed: _deliver_outbox has not read the account; posting: it    *)
(* composed the message; delivered, refused: finish_outbox is next.        *)
Phases == {"idle", "claimed", "posting", "delivered", "refused"}

Init ==
  /\ wanted = [m \in Messages |-> TRUE]
  /\ withdrawn = {}
  /\ sending = [w \in Workers |-> "idle"]
  /\ arrived = [m \in Messages |-> 0]
  /\ Queue!Init

-----------------------------------------------------------------------------
(* enqueue_telegram_notification, in the commit of the request's success.  *)
EnqueueNotification(m) ==
  /\ wanted[m]
  /\ Queue!EnqueueJobs({m})
  /\ UNCHANGED <<wanted, withdrawn, sending, arrived>>

(* claim_outbox. *)
ClaimOutbox(w, m) ==
  /\ Queue!ClaimJob(w, m)
  /\ sending' = [sending EXCEPT ![w] = "claimed"]
  /\ UNCHANGED <<wanted, withdrawn, arrived>>

PollEmpty(w) ==
  /\ Queue!PollEmpty(w)
  /\ UNCHANGED <<wanted, withdrawn, sending, arrived>>

(* An operator whose comment opens with "Mutant:" is a slip the properties *)
(* below must notice; no definition of the specification uses it.          *)

(* Mutant: an account that cannot be read is taken for one to skip. *)
ComposeOrSkip(w) ==
  /\ sending[w] = "claimed"
  /\ \E next \in {"posting", "delivered"} : sending' = [sending EXCEPT ![w] = next]
  /\ UNCHANGED <<wanted, withdrawn, arrived, job, claim>>

(* _deliver_outbox up to the call: a message nobody wants counts as        *)
(* delivered; reading or composing may raise.                              *)
Compose(w) ==
  /\ sending[w] = "claimed"
  /\ \E next \in {IF wanted[claim[w].job] THEN "posting" ELSE "delivered", "refused"} :
       sending' = [sending EXCEPT ![w] = next]
  /\ UNCHANGED <<wanted, withdrawn, arrived, job, claim>>

(* send_telegram: Telegram takes the message or not, and the worker learns *)
(* it only if the answer comes back in time.                               *)
Post(w) ==
  /\ sending[w] = "posting"
  /\ \E taken, answered \in BOOLEAN :
       /\ arrived' = IF taken THEN [arrived EXCEPT ![claim[w].job] = @ + 1] ELSE arrived
       /\ sending' = [sending EXCEPT ![w] = IF taken /\ answered THEN "delivered"
                                                                 ELSE "refused"]
  /\ UNCHANGED <<wanted, withdrawn, job, claim>>

(* finish_outbox. *)
FinishOutbox(w) ==
  /\ sending[w] \in {"delivered", "refused"}
  /\ Queue!FinishJob(w, sending[w] = "delivered")
  /\ sending' = [sending EXCEPT ![w] = "idle"]
  /\ UNCHANGED <<wanted, withdrawn, arrived>>

Crash(w) ==
  /\ Queue!Crash(w)
  /\ sending' = [sending EXCEPT ![w] = "idle"]
  /\ UNCHANGED <<wanted, withdrawn, arrived>>

(* The settings and the routers of admin.py: Telegram is switched off and  *)
(* on again, the account disabled and enabled.                             *)
Toggle(m) ==
  /\ wanted' = [wanted EXCEPT ![m] = ~@]
  /\ withdrawn' = withdrawn \cup {m}
  /\ UNCHANGED <<sending, arrived, job, claim>>

Others == /\ Queue!CleanupJobs \/ Queue!Tick
          /\ UNCHANGED <<wanted, withdrawn, sending, arrived>>

Next ==
  \/ \E m \in Messages : EnqueueNotification(m) \/ Toggle(m)
  \/ \E w \in Workers, m \in Messages : ClaimOutbox(w, m)
  \/ \E w \in Workers :
       PollEmpty(w) \/ Compose(w) \/ Post(w) \/ FinishOutbox(w) \/ Crash(w)
  \/ Others

Spec == Init /\ [][Next]_vars

-----------------------------------------------------------------------------
(* Types; a worker is idle exactly when it holds no claim, so that every   *)
(* claim it takes it brings to finish_outbox or loses in a crash.          *)
TypeOK ==
  /\ wanted \in [Messages -> BOOLEAN]
  /\ withdrawn \subseteq Messages
  /\ sending \in [Workers -> Phases]
  /\ arrived \in [Messages -> Nat]
  /\ \A w \in Workers : (sending[w] = "idle") <=> (claim[w] = NoClaim)
  /\ Queue!TypeOK

(* At least once: a row is delivered only if Telegram took its message or  *)
(* its account was found not to want it, however claims were lost.         *)
DeliveredArrived ==
  \A m \in Messages :
    job[m].status = "succeeded" => arrived[m] > 0 \/ m \in withdrawn

(* A message is repeated at most once per attempt of its rows, whichever   *)
(* answers were lost and whichever leases expired under a slow worker.     *)
RepeatsBounded ==
  \A m \in Messages : arrived[m] <= job[m].id * MaxAttempts

(* The outbox keeps its word to the account and to Telegram: nothing is    *)
(* forgotten and nothing is repeated more often than it was attempted.     *)
OutboxHonest == DeliveredArrived /\ RepeatsBounded
=============================================================================
