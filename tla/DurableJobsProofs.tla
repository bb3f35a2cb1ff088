-------------------------- MODULE DurableJobsProofs --------------------------
(***************************************************************************)
(* What holds of DurableJobs for every number of keys and workers, every   *)
(* attempt limit and every lease, backoff and retention.                   *)
(***************************************************************************)
EXTENDS DurableJobs, TLAPS

(* A well-formed row: its type, its holder and its budget of attempts.     *)
RowOK(r) ==
  /\ r \in Row
  /\ r.worker = IF r.status = "running" THEN r.attempts ELSE NoWorker
  /\ r.status = "absent" => r.attempts = 0
  /\ r.status = "queued" => r.attempts < MaxAttempts
  /\ r.status = "running" => r.attempts \in 1..MaxAttempts
  /\ r.status = "succeeded" => r.attempts \in 1..MaxAttempts
  /\ r.status = "dead_letter" => r.attempts = MaxAttempts

(* A well-formed claim: it is no younger than the row it was taken from.   *)
ClaimOK(c) ==
  c # NoClaim => /\ c \in Claim
                 /\ c.worker > 0
                 /\ c.id <= job[c.job].id
                 /\ c.id = job[c.job].id /\ job[c.job].status # "absent"
                      => c.worker <= job[c.job].attempts

(* The inductive invariant.  ClaimsDistinct alone is not inductive: a new  *)
(* claim differs from the old ones because none of them is ahead of its    *)
(* row, and AttemptsBudget needs the holder of a running row.              *)
IInv ==
  /\ job \in [Jobs -> Row]
  /\ claim \in [Workers -> Claim \cup {NoClaim}]
  /\ \A j \in Jobs : RowOK(job[j])
  /\ \A w \in Workers : ClaimOK(claim[w])
  /\ ClaimsDistinct

USE DEF NoWorker, Statuses, Terminal, WorkerId

-----------------------------------------------------------------------------
(* What each write does to a well-formed row. *)

\* A row that is inserted is well formed and has the next identifier.
LEMMA InsertedRow ==
  ASSUME NEW r, RowOK(r)
  PROVE  RowOK(Inserted(r)) /\ Inserted(r).id = r.id + 1
BY AttemptsAssumption DEF RowOK, Row, Inserted

\* A row that is deleted keeps its identifier, so that no claim matches it.
LEMMA DeletedRow ==
  ASSUME NEW r, RowOK(r), r.status \in Terminal
  PROVE  /\ RowOK(Deleted(r))
         /\ Deleted(r).id = r.id
         /\ Deleted(r).status = "absent"
BY AttemptsAssumption DEF RowOK, Row, Deleted

\* A claim counts one attempt of the row it leases.
LEMMA LeasedRow ==
  ASSUME NEW r, RowOK(r), r.status = "queued"
  PROVE  /\ RowOK(Leased(r))
         /\ Leased(r).id = r.id
         /\ Leased(r).attempts = r.attempts + 1
<1>0. r.attempts \in Nat /\ r.attempts < MaxAttempts /\ MaxAttempts \in Nat
  BY AttemptsAssumption DEF RowOK, Row
<1>1. r.attempts + 1 \in Nat /\ r.attempts + 1 \in 1..MaxAttempts
  BY <1>0
<1>2. Leased(r) \in Row
  BY <1>1, TimesAssumption DEF RowOK, Row, Leased
<1>3. /\ Leased(r).id = r.id
      /\ Leased(r).status = "running"
      /\ Leased(r).attempts = r.attempts + 1
      /\ Leased(r).worker = r.attempts + 1
  BY DEF RowOK, Row, Leased
<1>4. QED
  BY <1>1, <1>2, <1>3 DEF RowOK

\* A success ends the attempt without counting another one.
LEMMA SucceededRow ==
  ASSUME NEW r, RowOK(r), r.status = "running"
  PROVE  /\ RowOK(Succeeded(r))
         /\ Succeeded(r).id = r.id
         /\ Succeeded(r).attempts = r.attempts
BY AttemptsAssumption, TimesAssumption DEF RowOK, Row, Succeeded

\* A failure queues the row again or ends it, and counts no attempt.
LEMMA FailedRow ==
  ASSUME NEW r, RowOK(r), r.status = "running"
  PROVE  /\ RowOK(Failed(r))
         /\ Failed(r).id = r.id
         /\ Failed(r).attempts = r.attempts
         /\ Failed(r).status \in {"queued", "dead_letter"}
<1>0. r \in Row /\ r.attempts \in 1..MaxAttempts
  BY DEF RowOK
<1>1. CASE r.attempts >= MaxAttempts
  <2>1. Failed(r) = DeadLetter(r) /\ r.attempts = MaxAttempts
    BY <1>0, <1>1, AttemptsAssumption DEF Failed
  <2>2. DeadLetter(r) \in Row
    BY <1>0, TimesAssumption DEF Row, DeadLetter
  <2>3. /\ DeadLetter(r).id = r.id
        /\ DeadLetter(r).status = "dead_letter"
        /\ DeadLetter(r).attempts = r.attempts
        /\ DeadLetter(r).worker = NoWorker
    BY <1>0 DEF Row, DeadLetter
  <2>4. QED
    BY <2>1, <2>2, <2>3 DEF RowOK
<1>2. CASE ~(r.attempts >= MaxAttempts)
  <2>1. Failed(r) = Requeued(r) /\ r.attempts < MaxAttempts
    BY <1>0, <1>2, AttemptsAssumption DEF Failed
  <2>2. Requeued(r) \in Row
    BY <1>0, TimesAssumption DEF Row, Requeued
  <2>3. /\ Requeued(r).id = r.id
        /\ Requeued(r).status = "queued"
        /\ Requeued(r).attempts = r.attempts
        /\ Requeued(r).worker = NoWorker
    BY <1>0 DEF Row, Requeued
  <2>4. QED
    BY <2>1, <2>2, <2>3 DEF RowOK
<1>3. QED
  BY <1>1, <1>2

\* Time runs for a row without moving its status or its attempts.
LEMMA ElapsedRow ==
  ASSUME NEW r, RowOK(r)
  PROVE  /\ RowOK(Elapsed(r))
         /\ Elapsed(r).id = r.id
         /\ Elapsed(r).attempts = r.attempts
         /\ Elapsed(r).status = r.status
BY DEF RowOK, Row, Elapsed

(* A recovery keeps every row well formed, with its id and its attempts. *)
LEMMA RecoveredRow ==
  ASSUME NEW j \in Jobs, RowOK(job[j])
  PROVE  /\ RowOK(RecoverExpired[j])
         /\ RecoverExpired[j].id = job[j].id
         /\ RecoverExpired[j].attempts = job[j].attempts
         /\ RecoverExpired[j].status = "absent" <=> job[j].status = "absent"
<1>1. CASE Expired(job[j])
  BY <1>1, FailedRow DEF RecoverExpired, Expired
<1>2. CASE ~Expired(job[j])
  BY <1>2 DEF RecoverExpired
<1>3. QED
  BY <1>1, <1>2

-----------------------------------------------------------------------------
(* A step that only moves rows, none of them losing its id or, while it    *)
(* exists, its attempts, keeps every claim well formed.                    *)
LEMMA ClaimsKept ==
  ASSUME NEW w \in Workers, ClaimOK(claim[w]), claim'[w] = claim[w],
         claim \in [Workers -> Claim \cup {NoClaim}],
         \A j \in Jobs : RowOK(job[j]) /\ RowOK(job'[j]),
         \A j \in Jobs : \/ /\ job'[j].id = job[j].id
                            /\ \/ job'[j].status = "absent"
                               \/ /\ job[j].status # "absent"
                                  /\ job'[j].attempts >= job[j].attempts
                         \/ job'[j].id > job[j].id
  PROVE  ClaimOK(claim[w])'
<1> DEFINE c == claim[w]
<1>1. CASE c = NoClaim
  BY <1>1 DEF ClaimOK
<1>2. CASE c # NoClaim
  <2>1. /\ c \in Claim /\ c.job \in Jobs
        /\ c.id \in Nat /\ c.worker \in Nat
        /\ c.worker > 0
        /\ c.id <= job[c.job].id
        /\ c.id = job[c.job].id /\ job[c.job].status # "absent"
             => c.worker <= job[c.job].attempts
    BY <1>2 DEF ClaimOK, Claim
  <2>2. /\ job[c.job].id \in Nat /\ job'[c.job].id \in Nat
        /\ job[c.job].attempts \in Nat /\ job'[c.job].attempts \in Nat
    BY <2>1 DEF RowOK, Row
  <2>3. /\ c.id <= job'[c.job].id
        /\ c.id = job'[c.job].id /\ job'[c.job].status # "absent"
             => c.worker <= job'[c.job].attempts
    BY <2>1, <2>2
  <2>4. QED
    BY <2>1, <2>3 DEF ClaimOK
<1>3. QED
  BY <1>1, <1>2

(* Dropping one claim keeps the others distinct. *)
LEMMA ClaimDropped ==
  ASSUME claim \in [Workers -> Claim \cup {NoClaim}], ClaimsDistinct,
         NEW w \in Workers, claim' = [claim EXCEPT ![w] = NoClaim]
  PROVE  /\ claim' \in [Workers -> Claim \cup {NoClaim}]
         /\ ClaimsDistinct'
BY DEF ClaimsDistinct

-----------------------------------------------------------------------------
\* The empty queue satisfies the inductive invariant.
LEMMA InitIInv == Init => IInv
BY AttemptsAssumption DEF Init, IInv, RowOK, Row, ClaimOK, ClaimsDistinct

\* Every step of the queue keeps the inductive invariant.
LEMMA StepIInv == IInv /\ [Next]_jobVars => IInv'
<1> SUFFICES ASSUME IInv, [Next]_jobVars
             PROVE  IInv'
  OBVIOUS
<1>0. /\ job \in [Jobs -> Row]
      /\ claim \in [Workers -> Claim \cup {NoClaim}]
      /\ \A j \in Jobs : RowOK(job[j])
      /\ \A w \in Workers : ClaimOK(claim[w])
      /\ ClaimsDistinct
  BY DEF IInv
<1>1. ASSUME NEW S \in SUBSET Jobs, EnqueueJobs(S)
      PROVE  IInv'
  <2>1. /\ job' = [k \in Jobs |-> IF k \in S THEN Inserted(job[k]) ELSE job[k]]
        /\ claim' = claim
    BY <1>1 DEF EnqueueJobs
  <2>2. \A k \in Jobs : /\ RowOK(job'[k])
                        /\ job'[k] = job[k] \/ job'[k].id = job[k].id + 1
                        /\ job[k].id \in Nat
                        /\ job[k].attempts \in Nat
    BY <2>1, <1>0, InsertedRow DEF RowOK, Row
  <2>3. job' \in [Jobs -> Row]
    BY <2>1, <2>2 DEF RowOK
  <2>4. \A k \in Jobs : job'[k] = job[k] \/ job'[k].id > job[k].id
    BY <2>2
  <2>5. \A w \in Workers : ClaimOK(claim[w])'
    BY <2>1, <2>2, <2>4, <1>0, ClaimsKept
  <2>6. QED
    BY <2>1, <2>2, <2>3, <2>5, <1>0 DEF IInv, ClaimsDistinct
<1>2. ASSUME NEW w \in Workers, PollEmpty(w)
      PROVE  IInv'
  <2>1. job' = RecoverExpired /\ claim' = claim
    BY <1>2 DEF PollEmpty
  <2>2. \A k \in Jobs : /\ RowOK(job'[k])
                        /\ job'[k].id = job[k].id
                        /\ job'[k].attempts = job[k].attempts
                        /\ job'[k].status = "absent" <=> job[k].status = "absent"
    BY <2>1, <1>0, RecoveredRow
  <2>3. job' \in [Jobs -> Row]
    BY <2>1, <2>2 DEF RowOK, RecoverExpired
  <2>4. \A v \in Workers : ClaimOK(claim[v])'
    <3>1. \A k \in Jobs : job[k].attempts \in Nat
      BY <1>0 DEF RowOK, Row
    <3>2. QED
      BY <2>1, <2>2, <3>1, <1>0, ClaimsKept
  <2>5. QED
    BY <2>1, <2>2, <2>3, <2>4, <1>0 DEF IInv, ClaimsDistinct
<1>3. ASSUME NEW w \in Workers, NEW j \in Jobs, ClaimJob(w, j)
      PROVE  IInv'
  <2> DEFINE new == [job |-> j, id |-> job[j].id, worker |-> job[j].attempts + 1]
  <2>1. /\ job' = [RecoverExpired EXCEPT ![j] = Leased(RecoverExpired[j])]
        /\ claim' = [claim EXCEPT ![w] = new]
        /\ claim[w] = NoClaim
        /\ RecoverExpired[j].status = "queued"
    BY <1>3 DEF ClaimJob, Foremost, Claimable
  <2>2. \A k \in Jobs : /\ RowOK(RecoverExpired[k])
                        /\ RecoverExpired[k].id = job[k].id
                        /\ RecoverExpired[k].attempts = job[k].attempts
                        /\ RecoverExpired[k].status = "absent" <=> job[k].status = "absent"
                        /\ job[k].attempts \in Nat
                        /\ job[k].id \in Nat
    BY <1>0, RecoveredRow DEF RowOK, Row
  <2>3. job'[j] = Leased(RecoverExpired[j])
    BY <2>1 DEF RecoverExpired
  <2>4. /\ RowOK(job'[j])
        /\ job'[j].id = job[j].id
        /\ job'[j].attempts = job[j].attempts + 1
    BY <2>1, <2>2, <2>3, LeasedRow
  <2>5. \A k \in Jobs \ {j} : job'[k] = RecoverExpired[k]
    BY <2>1 DEF RecoverExpired
  <2>6. \A k \in Jobs : /\ RowOK(job'[k])
                        /\ job'[k].id = job[k].id
                        /\ job'[k].attempts >= job[k].attempts
    BY <2>2, <2>4, <2>5
  <2>7. job' \in [Jobs -> Row]
    BY <2>1, <2>6 DEF RowOK, RecoverExpired
  <2>8. new \in Claim
    BY <2>2 DEF Claim
  <2>9. claim' \in [Workers -> Claim \cup {NoClaim}]
    BY <2>1, <2>8, <1>0
  <2>10. \A v \in Workers : ClaimOK(claim[v])'
    <3>1. ASSUME NEW v \in Workers, v # w
          PROVE  ClaimOK(claim[v])'
      <4>1. claim'[v] = claim[v]
        BY <2>1, <3>1, <1>0
      <4>2. job'[j].status = "absent" <=> job[j].status = "absent"
        BY <2>1, <2>2, <2>3 DEF Leased, RowOK, Row
      <4>3. \A k \in Jobs : job'[k].status = "absent" \/ job[k].status # "absent"
        BY <2>2, <2>5, <4>2
      <4>4. QED
        BY <1>0, <2>6, <4>1, <4>3, ClaimsKept
    <3>2. ClaimOK(claim[w])'
      <4>1. claim'[w] = new
        BY <2>1, <1>0
      <4>2. QED
        BY <4>1, <2>8, <2>4, <2>2 DEF ClaimOK
    <3>3. QED
      BY <3>1, <3>2
  <2>11. ClaimsDistinct'
    <3>1. ASSUME NEW v \in Workers, v # w
          PROVE  claim[v] # new
      <4>1. job[j].status # "absent"
        BY <2>1, <2>2
      <4>2. ClaimOK(claim[v])
        BY <1>0
      <4>3. new # NoClaim
        BY <2>8, NoClaimAssumption
      <4>4. QED
        BY <4>1, <4>2, <4>3, <2>2 DEF ClaimOK
    <3>2. QED
      BY <3>1, <2>1, <1>0 DEF ClaimsDistinct
  <2>12. QED
    BY <2>6, <2>7, <2>9, <2>10, <2>11 DEF IInv
<1>4. ASSUME NEW w \in Workers, NEW success \in BOOLEAN, FinishJob(w, success)
      PROVE  IInv'
  <2> DEFINE c == claim[w]
             finished == IF success THEN Succeeded(job[c.job]) ELSE Failed(job[c.job])
  <2>1. /\ c # NoClaim
        /\ job' = IF HoldsClaim(c) THEN [job EXCEPT ![c.job] = finished] ELSE job
        /\ claim' = [claim EXCEPT ![w] = NoClaim]
    BY <1>4 DEF FinishJob
  <2>2. c.job \in Jobs
    BY <1>0, <2>1 DEF Claim
  <2>3. \A k \in Jobs : /\ RowOK(job'[k])
                        /\ job'[k].id = job[k].id
                        /\ job'[k].attempts = job[k].attempts
                        /\ job'[k].status # "absent" => job[k].status # "absent"
    <3>1. CASE HoldsClaim(c)
      <4>1. /\ RowOK(finished) /\ finished.id = job[c.job].id
            /\ finished.attempts = job[c.job].attempts
            /\ job[c.job].status # "absent"
        BY <3>1, <1>0, <2>2, SucceededRow, FailedRow DEF HoldsClaim
      <4>2. QED
        BY <3>1, <4>1, <2>1, <2>2, <1>0
    <3>2. CASE ~HoldsClaim(c)
      BY <3>2, <2>1, <1>0
    <3>3. QED
      BY <3>1, <3>2
  <2>4. job' \in [Jobs -> Row]
    BY <2>1, <2>3, <1>0 DEF RowOK
  <2>5. claim' \in [Workers -> Claim \cup {NoClaim}] /\ ClaimsDistinct'
    BY <2>1, <1>0, ClaimDropped
  <2>6. \A v \in Workers : ClaimOK(claim[v])'
    <3>1. \A k \in Jobs : job[k].attempts \in Nat
      BY <1>0 DEF RowOK, Row
    <3>2. ASSUME NEW v \in Workers, v # w
          PROVE  ClaimOK(claim[v])'
      <4>1. claim'[v] = claim[v]
        BY <3>2, <2>1, <1>0
      <4>2. QED
        BY <4>1, <2>3, <3>1, <1>0, ClaimsKept
    <3>3. ClaimOK(claim[w])'
      BY <2>1, <1>0 DEF ClaimOK
    <3>4. QED
      BY <3>2, <3>3
  <2>7. QED
    BY <2>3, <2>4, <2>5, <2>6 DEF IInv
<1>5. ASSUME NEW w \in Workers, Crash(w)
      PROVE  IInv'
  <2>1. claim' = [claim EXCEPT ![w] = NoClaim] /\ job' = job
    BY <1>5 DEF Crash
  <2>2. claim' \in [Workers -> Claim \cup {NoClaim}] /\ ClaimsDistinct'
    BY <2>1, <1>0, ClaimDropped
  <2>3. QED
    BY <2>1, <2>2, <1>0 DEF IInv, ClaimOK
<1>6. CASE CleanupJobs
  <2>1. /\ claim' = claim
        /\ \A k \in Jobs : \/ job'[k] = job[k]
                           \/ job[k].status \in Terminal /\ job'[k] = Deleted(job[k])
        /\ job' \in [Jobs -> {job'[k] : k \in Jobs}]
    BY <1>6 DEF CleanupJobs
  <2>2. \A k \in Jobs : /\ RowOK(job'[k])
                        /\ job'[k].id = job[k].id
                        /\ job'[k] = job[k] \/ job'[k].status = "absent"
    BY <2>1, <1>0, DeletedRow
  <2>3. job' \in [Jobs -> Row]
    BY <2>1, <2>2 DEF RowOK
  <2>4. \A v \in Workers : ClaimOK(claim[v])'
    <3>1. \A k \in Jobs : job[k].attempts \in Nat
      BY <1>0 DEF RowOK, Row
    <3>2. QED
      BY <2>1, <2>2, <3>1, <1>0, ClaimsKept
  <2>5. QED
    BY <2>1, <2>2, <2>3, <2>4, <1>0 DEF IInv, ClaimsDistinct
<1>7. CASE Tick
  <2>1. /\ claim' = claim
        /\ job' = [k \in Jobs |-> Elapsed(job[k])]
    BY <1>7 DEF Tick
  <2>2. \A k \in Jobs : /\ RowOK(job'[k])
                        /\ job'[k].id = job[k].id
                        /\ job'[k].attempts = job[k].attempts
                        /\ job'[k].status = job[k].status
    BY <2>1, <1>0, ElapsedRow
  <2>3. job' \in [Jobs -> Row]
    BY <2>1, <2>2 DEF RowOK
  <2>4. \A v \in Workers : ClaimOK(claim[v])'
    <3>1. \A k \in Jobs : job[k].attempts \in Nat
      BY <1>0 DEF RowOK, Row
    <3>2. QED
      BY <2>1, <2>2, <3>1, <1>0, ClaimsKept
  <2>5. QED
    BY <2>1, <2>2, <2>3, <2>4, <1>0 DEF IInv, ClaimsDistinct
<1>8. CASE UNCHANGED jobVars
  BY <1>8, <1>0 DEF jobVars, IInv, ClaimOK, ClaimsDistinct
<1>9. QED
  BY <1>1, <1>2, <1>3, <1>4, <1>5, <1>6, <1>7, <1>8 DEF Next

(* The strengthened invariant holds in every reachable state. *)
THEOREM InductiveInvariant == Spec => []IInv
<1>1. QED
  BY InitIInv, StepIInv, PTL DEF Spec

(* Every row of the queue and every claim in a worker's memory is well     *)
(* typed, whatever the workers, crashes and retentions.                    *)
THEOREM TypesHold == Spec => []TypeOK
<1>1. IInv => TypeOK
  BY DEF IInv, TypeOK
<1>2. QED
  BY <1>1, InductiveInvariant, PTL

(* claim_job never hands out the claim some worker still has in memory.    *)
THEOREM ClaimsStayDistinct == Spec => []ClaimsDistinct
<1>1. IInv => ClaimsDistinct
  BY DEF IInv
<1>2. QED
  BY <1>1, InductiveInvariant, PTL

(* A running row belongs to its latest attempt; a worker's claim is never  *)
(* ahead of the row it was taken from.                                     *)
THEOREM ClaimsStayKnown == Spec => []ClaimsKnown
<1>1. IInv => ClaimsKnown
  BY DEF IInv, ClaimsKnown, RowOK, ClaimOK
<1>2. QED
  BY <1>1, InductiveInvariant, PTL

(* Both together, as the run checks them.                                  *)
THEOREM ClaimsStayFenced == Spec => []ClaimsFenced
<1>1. ClaimsDistinct /\ ClaimsKnown => ClaimsFenced
  BY DEF ClaimsFenced
<1>2. QED
  BY <1>1, ClaimsStayDistinct, ClaimsStayKnown, PTL

(* finish_job and the recovery dead-letter a row after exactly             *)
(* MaxAttempts attempts, for every MaxAttempts.                            *)
THEOREM BudgetExact == Spec => []AttemptsBudget
<1>1. IInv => AttemptsBudget
  BY DEF IInv, AttemptsBudget, RowOK
<1>2. QED
  BY <1>1, InductiveInvariant, PTL

-----------------------------------------------------------------------------
(* While the lease of row j runs, a step leaves the row alone, lets time   *)
(* pass or finishes the claim that holds it.                               *)
LeaseKept(j) ==
  job[j].status = "running" /\ job[j].timer > 0 =>
    \/ job'[j] \in {job[j], Elapsed(job[j])}
    \/ \E w \in Workers : /\ claim[w] = [job |-> j, id |-> job[j].id,
                                          worker |-> job[j].worker]
                          /\ claim'[w] = NoClaim

\* Every step respects the lease of every row.
LEMMA StepLeaseKept ==
  ASSUME IInv, [Next]_jobVars, NEW j \in Jobs
  PROVE  LeaseKept(j)
<1> SUFFICES ASSUME job[j].status = "running", job[j].timer > 0
             PROVE  \/ job'[j] \in {job[j], Elapsed(job[j])}
                    \/ \E w \in Workers : /\ claim[w] = [job |-> j, id |-> job[j].id,
                                                          worker |-> job[j].worker]
                                          /\ claim'[w] = NoClaim
  BY DEF LeaseKept
<1>0. /\ job \in [Jobs -> Row]
      /\ claim \in [Workers -> Claim \cup {NoClaim}]
      /\ RecoverExpired[j] = job[j]
  BY DEF IInv, RecoverExpired, Expired
<1>1. ASSUME NEW S \in SUBSET Jobs, EnqueueJobs(S)
      PROVE  job'[j] = job[j]
  BY <1>1, <1>0 DEF EnqueueJobs
<1>2. ASSUME NEW w \in Workers, PollEmpty(w)
      PROVE  job'[j] = job[j]
  BY <1>2, <1>0 DEF PollEmpty
<1>3. ASSUME NEW w \in Workers, NEW k \in Jobs, ClaimJob(w, k)
      PROVE  job'[j] = job[j]
  <2>1. RecoverExpired[k].status = "queued"
    BY <1>3 DEF ClaimJob, Foremost, Claimable
  <2>2. k # j
    BY <2>1, <1>0
  <2>3. QED
    BY <1>3, <1>0, <2>2 DEF ClaimJob, RecoverExpired
<1>4. ASSUME NEW w \in Workers, NEW success \in BOOLEAN, FinishJob(w, success)
      PROVE  \/ job'[j] = job[j]
             \/ /\ claim[w] = [job |-> j, id |-> job[j].id,
                                worker |-> job[j].worker]
                /\ claim'[w] = NoClaim
  <2>1. CASE HoldsClaim(claim[w]) /\ claim[w].job = j
    BY <1>4, <1>0, <2>1 DEF FinishJob, HoldsClaim, Claim
  <2>2. CASE ~(HoldsClaim(claim[w]) /\ claim[w].job = j)
    BY <1>4, <1>0, <2>2 DEF FinishJob
  <2>3. QED
    BY <2>1, <2>2
<1>5. ASSUME NEW w \in Workers, Crash(w)
      PROVE  job'[j] = job[j]
  BY <1>5 DEF Crash
<1>6. CASE CleanupJobs
  BY <1>6, <1>0 DEF CleanupJobs
<1>7. CASE Tick
  BY <1>7 DEF Tick
<1>8. CASE UNCHANGED jobVars
  BY <1>8 DEF jobVars
<1>9. QED
  BY <1>1, <1>2, <1>3, <1>4, <1>5, <1>6, <1>7, <1>8 DEF Next

(* Fencing, for every number of workers and every lease: a late worker, a  *)
(* recovery or a cleanup never moves a job whose lease still runs.         *)
THEOREM LeasesRespected == Spec => LeaseRespected
<1>1. IInv /\ [Next]_jobVars =>
        [\A j \in Jobs :
           job[j].status = "running" /\ job[j].timer > 0 =>
             \/ job'[j] \in {job[j], Elapsed(job[j])}
             \/ \E w \in Workers : /\ claim[w] = [job |-> j, id |-> job[j].id,
                                                   worker |-> job[j].worker]
                                   /\ claim'[w] = NoClaim]_jobVars
  BY StepLeaseKept DEF LeaseKept
<1>2. QED
  BY <1>1, InductiveInvariant, PTL DEF Spec, LeaseRespected
-----------------------------------------------------------------------------
(* The refinement: what each write to a row is in the life of its key.     *)

\* An insertion is the life cycle's acceptance of a key.
LEMMA AcceptStep ==
  ASSUME NEW r, RowOK(r), r.status = "absent"
  PROVE  Lifecycle!KeyStep(LifeOf(r), LifeOf(Inserted(r)))
<1>1. LifeOf(r) = Lifecycle!Unknown
  BY DEF RowOK, LifeOf, StageOf, Lifecycle!Unknown
<1>2. LifeOf(Inserted(r)) = [stage |-> "open", tries |-> 0]
  BY DEF Inserted, LifeOf, StageOf
<1>3. QED
  BY <1>1, <1>2 DEF Lifecycle!KeyStep, Lifecycle!Accept

\* The deletion of an ended row is the key forgotten.
LEMMA ForgetStep ==
  ASSUME NEW r, RowOK(r), r.status \in Terminal
  PROVE  Lifecycle!KeyStep(LifeOf(r), LifeOf(Deleted(r)))
<1>1. LifeOf(r).stage \in {"succeeded", "abandoned"}
  BY DEF LifeOf, StageOf
<1>2. LifeOf(Deleted(r)) = Lifecycle!Unknown
  BY DEF RowOK, Row, Deleted, LifeOf, StageOf, Lifecycle!Unknown
<1>3. QED
  BY <1>1, <1>2 DEF Lifecycle!KeyStep, Lifecycle!Forget

\* A claim is an attempt of the life cycle.
LEMMA HandOverStep ==
  ASSUME NEW r, RowOK(r), r.status = "queued"
  PROVE  Lifecycle!KeyStep(LifeOf(r), LifeOf(Leased(r)))
<1>1. LifeOf(r) = [stage |-> "open", tries |-> r.attempts]
  BY DEF LifeOf, StageOf
<1>2. LifeOf(Leased(r)) = [stage |-> "held", tries |-> r.attempts + 1]
  <2>1. Leased(r).status = "running" /\ Leased(r).attempts = r.attempts + 1
    BY DEF RowOK, Row, Leased
  <2>2. QED
    BY <2>1 DEF LifeOf, StageOf
<1>3. r.attempts < MaxAttempts
  BY DEF RowOK
<1>4. QED
  BY <1>1, <1>2, <1>3 DEF Lifecycle!KeyStep, Lifecycle!HandOver

\* A success is the life cycle's.
LEMMA SucceedStep ==
  ASSUME NEW r, RowOK(r), r.status = "running"
  PROVE  Lifecycle!KeyStep(LifeOf(r), LifeOf(Succeeded(r)))
<1>1. LifeOf(r) = [stage |-> "held", tries |-> r.attempts]
  BY DEF LifeOf, StageOf
<1>2. LifeOf(Succeeded(r)) = [stage |-> "succeeded", tries |-> r.attempts]
  <2>1. Succeeded(r).status = "succeeded" /\ Succeeded(r).attempts = r.attempts
    BY DEF RowOK, Row, Succeeded
  <2>2. QED
    BY <2>1 DEF LifeOf, StageOf
<1>3. QED
  BY <1>1, <1>2 DEF Lifecycle!KeyStep, Lifecycle!Succeed

\* A failure is a retry, or the death of the last attempt.
LEMMA FailStep ==
  ASSUME NEW r, RowOK(r), r.status = "running"
  PROVE  Lifecycle!KeyStep(LifeOf(r), LifeOf(Failed(r)))
<1>0. r.attempts \in 1..MaxAttempts /\ MaxAttempts \in Nat
  BY AttemptsAssumption DEF RowOK
<1>1. LifeOf(r) = [stage |-> "held", tries |-> r.attempts]
  BY DEF LifeOf, StageOf
<1>2. CASE r.attempts >= MaxAttempts
  <2>1. Failed(r).status = "dead_letter" /\ Failed(r).attempts = r.attempts
    BY <1>2 DEF RowOK, Row, Failed, DeadLetter
  <2>2. LifeOf(Failed(r)) = [stage |-> "abandoned", tries |-> r.attempts]
    BY <2>1 DEF LifeOf, StageOf
  <2>3. r.attempts = MaxAttempts
    BY <1>0, <1>2
  <2>4. QED
    BY <1>1, <2>2, <2>3 DEF Lifecycle!KeyStep, Lifecycle!Abandon
<1>3. CASE ~(r.attempts >= MaxAttempts)
  <2>1. Failed(r).status = "queued" /\ Failed(r).attempts = r.attempts
    BY <1>3 DEF RowOK, Row, Failed, Requeued
  <2>2. LifeOf(Failed(r)) = [stage |-> "open", tries |-> r.attempts]
    BY <2>1 DEF LifeOf, StageOf
  <2>3. r.attempts < MaxAttempts
    BY <1>0, <1>3
  <2>4. QED
    BY <1>1, <2>2, <2>3 DEF Lifecycle!KeyStep, Lifecycle!TakeBack
<1>4. QED
  BY <1>2, <1>3

\* The recovery of an expired lease leaves a row alone or is a failure.
LEMMA RecoverStep ==
  ASSUME IInv, NEW j \in Jobs
  PROVE  \/ RecoverExpired[j] = job[j]
         \/ Lifecycle!KeyStep(LifeOf(job[j]), LifeOf(RecoverExpired[j]))
<1>1. CASE Expired(job[j])
  BY <1>1, FailStep DEF IInv, RecoverExpired, Expired
<1>2. CASE ~Expired(job[j])
  BY <1>2 DEF RecoverExpired
<1>3. QED
  BY <1>1, <1>2

(* claim_job hands out a row that was available already: one recovered by  *)
(* the same transaction waits out its retry delay first.                   *)
LEMMA ClaimedWasQueued ==
  ASSUME IInv, NEW j \in Jobs, j \in Claimable(RecoverExpired)
  PROVE  RecoverExpired[j] = job[j] /\ job[j].status = "queued"
<1>1. RecoverExpired[j].status = "queued" /\ RecoverExpired[j].timer = 0
  BY DEF Claimable
<1>2. CASE Expired(job[j])
  <2>1. RowOK(job[j]) /\ job[j].status = "running"
    BY <1>2 DEF IInv, Expired
  <2>2. RecoverExpired[j] = Failed(job[j])
    BY <1>2 DEF RecoverExpired
  <2>3. Failed(job[j]).status = "queued" => Failed(job[j]).timer \in Nat \ {0}
    <3>1. job[j].attempts \in 1..MaxAttempts /\ job[j] \in Row
      BY <2>1 DEF RowOK
    <3>2. Backoff[job[j].attempts] \in Nat \ {0}
      BY <3>1, TimesAssumption
    <3>3. DeadLetter(job[j]).status = "dead_letter"
      BY <3>1 DEF Row, DeadLetter
    <3>4. Requeued(job[j]).timer = Backoff[job[j].attempts]
      BY <3>1 DEF Row, Requeued
    <3>5. QED
      BY <3>2, <3>3, <3>4 DEF Failed
  <2>4. QED
    BY <1>1, <2>2, <2>3
<1>3. CASE ~Expired(job[j])
  BY <1>1, <1>3 DEF RecoverExpired
<1>4. QED
  BY <1>2, <1>3

\* The empty queue is the life cycle before any key is accepted.
LEMMA InitRefines == Init => Lifecycle!Init
BY DEF Init, Lifecycle!Init, Lifecycle!Unknown, Life, LifeOf, StageOf

\* Every step of the queue is a step of the life cycle or a stutter.
LEMMA StepRefines == IInv /\ [Next]_jobVars => [Lifecycle!Next]_Life
<1> SUFFICES ASSUME IInv, [Next]_jobVars
             PROVE  [Lifecycle!Next]_Life
  OBVIOUS
<1>0. /\ job \in [Jobs -> Row]
      /\ claim \in [Workers -> Claim \cup {NoClaim}]
      /\ \A j \in Jobs : RowOK(job[j])
  BY DEF IInv
<1>1. SUFFICES ASSUME NEW j \in Jobs
               PROVE  \/ job'[j] = job[j]
                      \/ LifeOf(job'[j]) = LifeOf(job[j])
                      \/ Lifecycle!KeyStep(LifeOf(job[j]), LifeOf(job'[j]))
  BY DEF Lifecycle!Next, Life
<1>2. ASSUME NEW S \in SUBSET Jobs, EnqueueJobs(S)
      PROVE  \/ job'[j] = job[j]
             \/ Lifecycle!KeyStep(LifeOf(job[j]), LifeOf(job'[j]))
  BY <1>2, <1>0, AcceptStep DEF EnqueueJobs
<1>3. ASSUME NEW w \in Workers, PollEmpty(w)
      PROVE  \/ job'[j] = job[j]
             \/ Lifecycle!KeyStep(LifeOf(job[j]), LifeOf(job'[j]))
  BY <1>3, RecoverStep DEF PollEmpty
<1>4. ASSUME NEW w \in Workers, NEW k \in Jobs, ClaimJob(w, k)
      PROVE  \/ job'[j] = job[j]
             \/ Lifecycle!KeyStep(LifeOf(job[j]), LifeOf(job'[j]))
  <2>1. /\ k \in Claimable(RecoverExpired)
        /\ job' = [RecoverExpired EXCEPT ![k] = Leased(RecoverExpired[k])]
    BY <1>4 DEF ClaimJob, Foremost
  <2>2. CASE k = j
    <3>1. RecoverExpired[j] = job[j] /\ job[j].status = "queued"
      BY <2>1, <2>2, ClaimedWasQueued
    <3>2. job'[j] = Leased(job[j])
      BY <2>1, <2>2, <3>1 DEF RecoverExpired
    <3>3. QED
      BY <3>1, <3>2, <1>0, HandOverStep
  <2>3. CASE k # j
    <3>1. job'[j] = RecoverExpired[j]
      BY <2>1, <2>3 DEF RecoverExpired
    <3>2. QED
      BY <3>1, RecoverStep
  <2>4. QED
    BY <2>2, <2>3
<1>5. ASSUME NEW w \in Workers, NEW success \in BOOLEAN, FinishJob(w, success)
      PROVE  \/ job'[j] = job[j]
             \/ Lifecycle!KeyStep(LifeOf(job[j]), LifeOf(job'[j]))
  <2>1. \/ job'[j] = job[j]
        \/ /\ job[j].status = "running"
           /\ job'[j] \in {Succeeded(job[j]), Failed(job[j])}
    BY <1>5, <1>0 DEF FinishJob, HoldsClaim
  <2>2. QED
    BY <2>1, <1>0, SucceedStep, FailStep
<1>6. ASSUME NEW w \in Workers, Crash(w)
      PROVE  job'[j] = job[j]
  BY <1>6 DEF Crash
<1>7. CASE CleanupJobs
  BY <1>7, <1>0, ForgetStep DEF CleanupJobs
<1>8. CASE Tick
  <2>1. job'[j] = Elapsed(job[j])
    BY <1>8 DEF Tick
  <2>2. LifeOf(Elapsed(job[j])) = LifeOf(job[j])
    BY <1>0, ElapsedRow DEF LifeOf, StageOf
  <2>3. QED
    BY <2>1, <2>2
<1>9. CASE UNCHANGED jobVars
  BY <1>9 DEF jobVars
<1>10. QED
  BY <1>2, <1>3, <1>4, <1>5, <1>6, <1>7, <1>8, <1>9 DEF Next

(* The queue keeps the promise of JobLifecycle for every instance: every   *)
(* key is handed to one holder at a time, retried while it has attempts    *)
(* and abandoned after exactly MaxAttempts.                                *)
THEOREM Refinement == Spec => ImplementsLifecycle
<1>1. QED
  BY InitRefines, StepRefines, InductiveInvariant, PTL
     DEF Spec, ImplementsLifecycle, Lifecycle!Spec
=============================================================================
