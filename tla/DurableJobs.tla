----------------------------- MODULE DurableJobs -----------------------------
(***************************************************************************)
(* The PostgreSQL job queue of backend/app/services/jobs.py: the rows of   *)
(* durable_jobs of one kind and the workers that claim, run and finish     *)
(* them.                                                                   *)
(*                                                                         *)
(* Each handler is one transaction under row locks (FOR UPDATE SKIP        *)
(* LOCKED), hence one action.  A row a handler skips because another       *)
(* transaction holds it is handled as if that transaction came first, so   *)
(* SKIP LOCKED needs no action of its own.                                 *)
(*                                                                         *)
(* Every instant the code stores is kept as the time left until it:        *)
(* available_at of a queued row, lease_expires_at of a running row, the    *)
(* end of retention of a finished row.  Exactly one of them matters in     *)
(* each status, so a row has one timer; "<= now" is "timer = 0".           *)
(***************************************************************************)
EXTENDS Naturals, FiniteSets

CONSTANTS
  Jobs,                 \* idempotency keys of the kind
  Workers,              \* worker processes of the kind
  NoClaim,              \* a worker that holds no claim
  Priority,             \* priority of each key, lower is served first
  MaxAttempts,          \* max_attempts of a row
  LeaseTime,            \* JOB_LEASES[kind]
  Backoff,              \* _retry_delay: wait after the n-th attempt
  SucceededRetention,   \* SUCCEEDED_JOB_RETENTION
  DeadRetention,        \* DEAD_JOB_RETENTION
  MaxRows               \* bound: rows ever inserted for one key

ASSUME AttemptsAssumption  == MaxAttempts \in Nat \ {0}
ASSUME TimesAssumption     == /\ LeaseTime \in Nat \ {0}
                              /\ Backoff \in [1..MaxAttempts -> Nat \ {0}]
                              /\ SucceededRetention \in Nat
                              /\ DeadRetention \in Nat
ASSUME PriorityAssumption  == Priority \in [Jobs -> Nat]
ASSUME RowsAssumption      == MaxRows \in Nat

VARIABLES
  job,      \* job[j]: the row of key j
  claim     \* claim[w]: the JobClaim worker process w works on, in memory

jobVars == <<job, claim>>

NoWorker == 0    \* worker_id IS NULL

Statuses == {"absent", "queued", "running", "succeeded", "dead_letter"}
Terminal == {"succeeded", "dead_letter"}

(* A row: its primary key, its status, the attempts made, the worker_id    *)
(* that holds it and its timer.  worker_id is drawn afresh for every claim *)
(* (secrets.token_hex); the number of the attempt stands for it, which no  *)
(* two claims of one row share.                                            *)
Row   == [id: Nat, status: Statuses, attempts: Nat, worker: Nat, timer: Nat]
Claim == [job: Jobs, id: Nat, worker: Nat]

ASSUME NoClaimAssumption   == NoClaim \notin Claim

Init ==
  /\ job = [j \in Jobs |-> [id |-> 0, status |-> "absent", attempts |-> 0,
                            worker |-> NoWorker, timer |-> 0]]
  /\ claim = [w \in Workers |-> NoClaim]

-----------------------------------------------------------------------------
(* Rows the handlers write.  An operator whose comment opens with          *)
(* "Mutant:" is a slip the properties below must notice; no definition of  *)
(* the specification uses it.                                              *)

(* Mutant: one worker_id for the life of a process. *)
WorkerIdFixed(r) == 1

(* worker_id of the next claim. *)
WorkerId(r) == r.attempts + 1

Inserted(r)   == [id |-> r.id + 1, status |-> "queued", attempts |-> 0,
                  worker |-> NoWorker, timer |-> 0]
Deleted(r)    == [r EXCEPT !.status = "absent", !.attempts = 0, !.timer = 0]
Leased(r)     == [r EXCEPT !.status = "running", !.attempts = @ + 1,
                           !.worker = WorkerId(r), !.timer = LeaseTime]

Requeued(r)   == [r EXCEPT !.status = "queued", !.worker = NoWorker,
                           !.timer = Backoff[r.attempts]]
Succeeded(r)  == [r EXCEPT !.status = "succeeded", !.worker = NoWorker,
                           !.timer = SucceededRetention]
DeadLetter(r) == [r EXCEPT !.status = "dead_letter", !.worker = NoWorker,
                           !.timer = DeadRetention]

(* Mutant: one attempt too many. *)
FailedLate(r) == IF r.attempts > MaxAttempts THEN DeadLetter(r) ELSE Requeued(r)

Failed(r) == IF r.attempts >= MaxAttempts THEN DeadLetter(r) ELSE Requeued(r)

(* Mutant: a lease lost in the last attempt is not recovered. *)
ExpiredRetryable(r) == r.status = "running" /\ r.timer = 0 /\ r.attempts < MaxAttempts

Expired(r) == r.status = "running" /\ r.timer = 0

(* _recover_expired_jobs: every expired lease goes back to the queue or,   *)
(* with no attempt left, to the dead letters.                              *)
RecoverExpired == [j \in Jobs |-> IF Expired(job[j]) THEN Failed(job[j]) ELSE job[j]]

(* Mutant: available_at is not compared. *)
ClaimableEarly(rows) == {j \in Jobs : rows[j].status = "queued"}

Claimable(rows) == {j \in Jobs : rows[j].status = "queued" /\ rows[j].timer = 0}

(* ORDER BY priority; among equal priorities any row may be the oldest. *)
Foremost(S) == {j \in S : \A k \in S : Priority[j] <= Priority[k]}

(* Mutant: any attempt of the row may finish it. *)
HoldsAnyClaim(c) == job[c.job].id = c.id /\ job[c.job].status = "running"

(* finish_job acts only on the row, the attempt and the status it claimed. *)
HoldsClaim(c) == /\ job[c.job].id = c.id
                 /\ job[c.job].status = "running"
                 /\ job[c.job].worker = c.worker

-----------------------------------------------------------------------------
(* enqueue_job for the keys a transaction enqueues: insert unless the key  *)
(* has a row; for a key that has one the call is a no-op.                  *)
EnqueueJobs(S) ==
  /\ S # {}
  /\ \A j \in S : job[j].status = "absent" /\ job[j].id < MaxRows
  /\ job' = [j \in Jobs |-> IF j \in S THEN Inserted(job[j]) ELSE job[j]]
  /\ UNCHANGED claim

(* claim_job found nothing to do after the recovery. *)
PollEmpty(w) ==
  /\ claim[w] = NoClaim
  /\ Claimable(RecoverExpired) = {}
  /\ job' = RecoverExpired
  /\ UNCHANGED claim

(* claim_job: recover, then lease the foremost available row. *)
ClaimJob(w, j) ==
  /\ claim[w] = NoClaim
  /\ j \in Foremost(Claimable(RecoverExpired))
  /\ job' = [RecoverExpired EXCEPT ![j] = Leased(@)]
  /\ claim' = [claim EXCEPT ![w] = [job |-> j, id |-> job[j].id,
                                    worker |-> WorkerId(job[j])]]

(* finish_job, as process_one calls it: success, or a retryable failure. A *)
(* claim that lost its lease to another attempt changes nothing.           *)
FinishJob(w, success) ==
  /\ claim[w] # NoClaim
  /\ LET c == claim[w]
         finished == IF success THEN Succeeded(job[c.job]) ELSE Failed(job[c.job])
     IN  job' = IF HoldsClaim(c) THEN [job EXCEPT ![c.job] = finished] ELSE job
  /\ claim' = [claim EXCEPT ![w] = NoClaim]

(* The worker process dies with its claim in memory. *)
Crash(w) ==
  /\ claim[w] # NoClaim
  /\ claim' = [claim EXCEPT ![w] = NoClaim]
  /\ UNCHANGED job

(* cleanup_durable_state: finished rows past their retention go. *)
CleanupJobs ==
  LET old == {j \in Jobs : job[j].status \in Terminal /\ job[j].timer = 0}
  IN  /\ old # {}
      /\ job' = [j \in Jobs |-> IF j \in old THEN Deleted(job[j]) ELSE job[j]]
      /\ UNCHANGED claim

(* Mutant: an instant in the past keeps running. *)
ElapsedPast(r) == [r EXCEPT !.timer = @ - 1]

Elapsed(r) == IF r.timer > 0 THEN [r EXCEPT !.timer = @ - 1] ELSE r

(* One unit of time passes for every stored instant. *)
Tick ==
  /\ \E j \in Jobs : job[j].timer > 0
  /\ job' = [j \in Jobs |-> Elapsed(job[j])]
  /\ UNCHANGED claim

Next ==
  \/ \E S \in SUBSET Jobs : EnqueueJobs(S)
  \/ \E w \in Workers : PollEmpty(w)
  \/ \E w \in Workers, j \in Jobs : ClaimJob(w, j)
  \/ \E w \in Workers, success \in BOOLEAN : FinishJob(w, success)
  \/ \E w \in Workers : Crash(w)
  \/ CleanupJobs
  \/ Tick

Spec == Init /\ [][Next]_jobVars

(* systemd restarts a worker that died (Restart=on-failure), its loop      *)
(* polls again after every job, and time passes.  Enqueueing, crashes and  *)
(* handlers that succeed are not fair.                                     *)
FairSpec ==
  /\ Spec
  /\ WF_jobVars(Tick)
  /\ \A w \in Workers :
       /\ WF_jobVars(PollEmpty(w))
       /\ WF_jobVars(\E j \in Jobs : ClaimJob(w, j))
       /\ WF_jobVars(\E success \in BOOLEAN : FinishJob(w, success))

-----------------------------------------------------------------------------
(* Types: rows and claims are well formed, and a key is inserted at most   *)
(* MaxRows times.                                                          *)
TypeOK ==
  /\ job \in [Jobs -> Row]
  /\ claim \in [Workers -> Claim \cup {NoClaim}]

(* The random worker_id of claim_job keeps apart every two claims that are *)
(* in memory at once, even two attempts of the same row.                   *)
ClaimsDistinct ==
  \A v, w \in Workers : claim[v] # NoClaim /\ claim[v] = claim[w] => v = w

(* A running row belongs to its latest attempt, and no worker remembers a  *)
(* claim from the future of the row.                                       *)
ClaimsKnown ==
  /\ \A j \in Jobs : job[j].worker = IF job[j].status = "running"
                                     THEN job[j].attempts ELSE NoWorker
  /\ \A w \in Workers : claim[w] # NoClaim =>
       LET c == claim[w] IN
         /\ c.worker > 0
         /\ c.id <= job[c.job].id
         /\ c.id = job[c.job].id /\ job[c.job].status # "absent"
              => c.worker <= job[c.job].attempts

(* The fence of finish_job: a claim in memory stands for one attempt.      *)
ClaimsFenced == ClaimsDistinct /\ ClaimsKnown

(* max_attempts is exact: a job goes to the dead letters after its last    *)
(* attempt and never before, and a queued job has an attempt left.         *)
AttemptsBudget ==
  \A j \in Jobs :
    /\ job[j].status = "absent" => job[j].attempts = 0
    /\ job[j].status = "queued" => job[j].attempts < MaxAttempts
    /\ job[j].status = "running" => job[j].attempts \in 1..MaxAttempts
    /\ job[j].status = "succeeded" => job[j].attempts \in 1..MaxAttempts
    /\ job[j].status = "dead_letter" => job[j].attempts = MaxAttempts

(* Fencing: while the lease of a running job runs, only the worker that    *)
(* holds its current claim moves the job; a late worker whose lease was    *)
(* taken over, a recovery and a cleanup leave it alone.                    *)
LeaseRespected ==
  [][\A j \in Jobs :
       job[j].status = "running" /\ job[j].timer > 0 =>
         \/ job'[j] \in {job[j], Elapsed(job[j])}
         \/ \E w \in Workers : /\ claim[w] = [job |-> j, id |-> job[j].id,
                                             worker |-> job[j].worker]
                               /\ claim'[w] = NoClaim]_jobVars

(* The queue implements the promise of JobLifecycle. *)
StageOf(r) == CASE r.status = "absent"      -> "unknown"
                [] r.status = "queued"      -> "open"
                [] r.status = "running"     -> "held"
                [] r.status = "succeeded"   -> "succeeded"
                [] r.status = "dead_letter" -> "abandoned"

LifeOf(r) == [stage |-> StageOf(r), tries |-> r.attempts]

Life == [j \in Jobs |-> LifeOf(job[j])]

Lifecycle == INSTANCE JobLifecycle WITH Keys <- Jobs, life <- Life

ImplementsLifecycle == Lifecycle!Spec

(* Every accepted job ends, acknowledged or dead-lettered, however often   *)
(* its workers crash.                                                      *)
EveryJobEnds ==
  \A j \in Jobs : job[j].status = "queued" ~> job[j].status \in Terminal
=============================================================================
