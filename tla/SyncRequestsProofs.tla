------------------------- MODULE SyncRequestsProofs -------------------------
(***************************************************************************)
(* What holds of SyncRequests for every number of requests, accounts,      *)
(* workers and commands, whatever parts their checks from their writes:    *)
(* it uses the queue by its protocol, so that what DurableJobsProofs       *)
(* proves of the queue holds in it, and grades are committed once.  Where  *)
(* checks and writes are not parted, the three records of a request agree. *)
(***************************************************************************)
EXTENDS SyncRequests, TLAPS

QueueProofs == INSTANCE DurableJobsProofs WITH Jobs <- Requests, Priority <- PriorityOf

-----------------------------------------------------------------------------
(* The queue.                                                              *)

(* DurableJobsProofs instantiates the queue a second time: its operators   *)
(* are the same.                                                           *)
LEMMA SameInit == Queue!Init => QueueProofs!Init
BY DEF Queue!Init, QueueProofs!Init, Queue!NoWorker, QueueProofs!NoWorker

\* The two instances of the queue, the model's and the proofs', take the
\* same steps.
LEMMA SameNext == [Queue!Next]_Queue!jobVars => [QueueProofs!Next]_QueueProofs!jobVars
BY DEF Queue!Next, Queue!jobVars, Queue!EnqueueJobs, Queue!PollEmpty, Queue!ClaimJob,
       Queue!FinishJob, Queue!Crash, Queue!CleanupJobs, Queue!Tick, Queue!Elapsed,
       Queue!Inserted, Queue!Claimable, Queue!RecoverExpired, Queue!Expired, Queue!Failed,
       Queue!Requeued, Queue!DeadLetter, Queue!Succeeded, Queue!Leased, Queue!WorkerId,
       Queue!NoWorker, Queue!Foremost, Queue!HoldsClaim, Queue!Terminal, Queue!Deleted,
       QueueProofs!Next, QueueProofs!jobVars, QueueProofs!EnqueueJobs,
       QueueProofs!PollEmpty, QueueProofs!ClaimJob, QueueProofs!FinishJob,
       QueueProofs!Crash, QueueProofs!CleanupJobs, QueueProofs!Tick,
       QueueProofs!Elapsed, QueueProofs!Inserted, QueueProofs!Claimable,
       QueueProofs!RecoverExpired, QueueProofs!Expired, QueueProofs!Failed,
       QueueProofs!Requeued, QueueProofs!DeadLetter, QueueProofs!Succeeded,
       QueueProofs!Leased, QueueProofs!WorkerId, QueueProofs!NoWorker,
       QueueProofs!Foremost, QueueProofs!HoldsClaim, QueueProofs!Terminal,
       QueueProofs!Deleted

\* A step of the requests is a step of the queue or leaves it alone.
LEMMA QueueStep ==
  ASSUME job \in [Requests -> Queue!Row], [Next]_vars
  PROVE  [Queue!Next]_Queue!jobVars
<1>1. CASE UNCHANGED vars
  BY <1>1 DEF vars, Queue!jobVars
<1>2. ASSUME NEW r \in Requests, ReserveSync(r) \/ ReplayReservation(r)
      PROVE  [Queue!Next]_Queue!jobVars
  BY <1>2 DEF ReserveSync, ReplayReservation, Queue!jobVars, Queue!Next
<1>3. ASSUME NEW c \in Commands, NEW r \in Requests, RunCommand(c, r)
      PROVE  [Queue!Next]_Queue!jobVars
  BY <1>3 DEF RunCommand, Queue!jobVars
<1>4. CASE EnsureQueuedJobs
  BY <1>4 DEF EnsureQueuedJobs, Queue!Next
<1>5. ASSUME NEW w \in Workers, PollEmpty(w)
      PROVE  [Queue!Next]_Queue!jobVars
  BY <1>5 DEF PollEmpty, Queue!Next
<1>6. ASSUME NEW p \in Procs, Advance(p)
      PROVE  [Queue!Next]_Queue!jobVars
  BY <1>6 DEF Advance, CheckStart, StartExecution, StartRefused, SkipNotDue, CommitSync,
              FetchFails, CheckOutcome, RecordOutcome, Queue!jobVars
<1>7. ASSUME NEW w \in Workers, RenewLease(w)
      PROVE  [Queue!Next]_Queue!jobVars
  BY <1>7 DEF RenewLease, Queue!jobVars
<1>8. ASSUME NEW w \in Workers, RenewFails(w) \/ FinishSync(w)
      PROVE  [Queue!Next]_Queue!jobVars
  <2>1. PICK success \in BOOLEAN : Queue!FinishJob(w, success)
    BY <1>8 DEF RenewFails, FinishSync
  <2>2. QED
    BY <2>1 DEF Queue!Next
<1>9. ASSUME NEW w \in Workers, NEW r \in Requests, ClaimSync(w, r)
      PROVE  [Queue!Next]_Queue!jobVars
  BY <1>9 DEF ClaimSync, Queue!Next
<1>10. ASSUME NEW p \in Procs, Crash(p)
       PROVE  [Queue!Next]_Queue!jobVars
  BY <1>10 DEF Crash, Queue!Next, Queue!jobVars
<1>11. ASSUME NEW a \in Accounts, ToggleDisabled(a)
       PROVE  [Queue!Next]_Queue!jobVars
  BY <1>11 DEF ToggleDisabled, Queue!jobVars
<1>12. CASE CleanupJobs
  BY <1>12 DEF CleanupJobs, Queue!Next
<1>13. CASE Tick
  <2>1. CASE \E r \in Requests : job[r].timer > 0
    BY <1>13, <2>1 DEF Tick, Queue!Tick, Queue!Next
  <2>2. CASE ~\E r \in Requests : job[r].timer > 0
    <3>1. \A r \in Requests : Queue!Elapsed(job[r]) = job[r]
      BY <2>2 DEF Queue!Elapsed
    <3>2. job' = job /\ claim' = claim
      BY <1>13, <3>1 DEF Tick
    <3>3. QED
      BY <3>2 DEF Queue!jobVars
  <2>3. QED
    BY <2>1, <2>2
<1>14. QED
  BY <1>1, <1>2, <1>3, <1>4, <1>5, <1>6, <1>7, <1>8, <1>9, <1>10, <1>11, <1>12, <1>13
     DEF Next, WorkerStep, Procs

(* The inductive invariant of DurableJobsProofs holds here too: requests,  *)
(* workers and commands keep the rows and the claims well formed.          *)
LEMMA QueueInvariant == Spec => []QueueProofs!IInv
<1>1. PriorityOf \in [Requests -> Nat]
  BY DEF PriorityOf
<1>2. Init => QueueProofs!IInv
  BY <1>1, QueueAssumption, SameInit, QueueProofs!InitIInv DEF Init, QueueProofs!Claim
<1>3. QueueProofs!IInv /\ [Next]_vars => QueueProofs!IInv'
  <2> SUFFICES ASSUME QueueProofs!IInv, [Next]_vars
               PROVE  QueueProofs!IInv'
    OBVIOUS
  <2>1. job \in [Requests -> Queue!Row]
    BY DEF QueueProofs!IInv, QueueProofs!Row, Queue!Row, QueueProofs!Statuses, Queue!Statuses
  <2>2. [QueueProofs!Next]_QueueProofs!jobVars
    BY <2>1, QueueStep, SameNext
  <2>3. QED
    BY <1>1, <2>2, QueueAssumption, QueueProofs!StepIInv DEF QueueProofs!Claim
<1>4. QED
  BY <1>2, <1>3, PTL DEF Spec

(* Whatever requests, workers, commands and administrators do, the rows of *)
(* durable_jobs are written by jobs.py and by its protocol alone.          *)
THEOREM QueueUsed == Spec => UsesQueue
<1>1. QueueProofs!IInv /\ [Next]_vars => [Queue!Next]_Queue!jobVars
  BY QueueStep DEF QueueProofs!IInv, QueueProofs!Row, Queue!Row, QueueProofs!Statuses,
     Queue!Statuses
<1>2. Init => Queue!Init
  BY DEF Init
<1>3. QED
  BY QueueInvariant, <1>1, <1>2, PTL DEF Spec, UsesQueue, Queue!Spec

(* The fence of finish_job, proved of the queue alone, holds in the whole  *)
(* synchronisation: a claim in memory stands for one attempt of one row.   *)
THEOREM QueueFenced == Spec => [](Queue!TypeOK /\ Queue!ClaimsFenced)
<1>1. QueueProofs!IInv => Queue!TypeOK /\ Queue!ClaimsFenced
  BY DEF QueueProofs!IInv, QueueProofs!RowOK, QueueProofs!ClaimOK,
         QueueProofs!ClaimsDistinct, QueueProofs!Row, QueueProofs!Statuses,
         QueueProofs!Claim, QueueProofs!NoWorker, Queue!TypeOK, Queue!ClaimsFenced,
         Queue!ClaimsDistinct, Queue!ClaimsKnown, Queue!Row, Queue!Statuses,
         Queue!Claim, Queue!NoWorker
<1>2. QED
  BY QueueInvariant, <1>1, PTL

-----------------------------------------------------------------------------
(* Types, and grades committed at most once.                               *)

SyncTypes ==
  /\ request \in [Requests -> Request]
  /\ account \in [Accounts -> Account]
  /\ work \in [Procs -> Work]
  /\ applied \in [Requests -> Nat]

(* p holds the file lock of its request's account. *)
Holding(p) == work[p].pc \in {"starting", "running"}

(* The inductive invariant.  A request is fetched for under its account's  *)
(* file lock, by one process, and only before its grades were committed:   *)
(* the commit ends it, and the processes that look at it under the lock    *)
(* find it ended, whoever wrote its row meanwhile.                         *)
OnceInv ==
  /\ SyncTypes
  /\ \A p \in Procs : work[p].pc # "idle" => work[p].req \in Requests
  /\ \A p, q \in Procs :
       Holding(p) /\ Holding(q) /\ AccountOf[work[p].req] = AccountOf[work[q].req] => p = q
  /\ \A p \in Procs : Holding(p) => applied[work[p].req] = 0
  /\ \A r \in Requests : /\ applied[r] <= 1
                         /\ applied[r] = 1 => request[r].status \in TerminalStatuses

(* A step that commits no grades, takes no file lock and revives no ended  *)
(* request.                                                                *)
Quiet ==
  /\ request' \in [Requests -> Request]
  /\ account' \in [Accounts -> Account]
  /\ work' \in [Procs -> Work]
  /\ \A p \in Procs : work'[p].pc # "idle" => work'[p].req \in Requests
  /\ \A p \in Procs : work'[p].pc \in {"starting", "running"} =>
       Holding(p) /\ work'[p].req = work[p].req
  /\ \A r \in Requests :
       request[r].status \in TerminalStatuses => request'[r].status \in TerminalStatuses
  /\ applied' = applied

\* A step that touches neither outcomes nor locks keeps OnceInv.
LEMMA QuietStep == OnceInv /\ Quiet => OnceInv'
BY DEF OnceInv, Quiet, SyncTypes, Holding

(* The rows the handlers write are well formed. *)
LEMMA EndedRequest ==
  ASSUME NEW status \in TerminalStatuses \cup {"running"}
  PROVE  Ended(status) \in Request /\ Ended(status).status = status
BY QueueAssumption DEF Ended, Request, ActiveStatuses, TerminalStatuses

\* An account that is released is well formed.
LEMMA ReleasedAccount ==
  ASSUME NEW acct \in Account
  PROVE  Released(acct) \in Account
<1>1. 0 \in 0..LeaseTime
  BY QueueAssumption
<1>2. QED
  BY <1>1 DEF Released, Account

\* _finalize_running_requests ends active rows only, and keeps types.
LEMMA FinalizedRows ==
  ASSUME SyncTypes, NEW S \in SUBSET Requests, NEW status \in TerminalStatuses,
         Finalize(S, status)
  PROVE  /\ request' \in [Requests -> Request]
         /\ account' \in [Accounts -> Account]
         /\ \A r \in Requests : \/ request'[r] = request[r]
                                \/ Active(r) /\ request'[r] = Ended(status)
BY EndedRequest, ReleasedAccount DEF Finalize, SyncTypes

(* What a process does next to its own record. *)
LEMMA ToStep ==
  ASSUME SyncTypes, NEW p \in Procs, NEW phase \in Phases, To(p, phase)
  PROVE  /\ work' \in [Procs -> Work]
         /\ \A q \in Procs \ {p} : work'[q] = work[q]
         /\ work'[p].pc \in {phase, "idle"}
         /\ work'[p].pc = "idle" \/ work'[p].req = work[p].req
<1>1. Idle \in Work /\ Idle.pc = "idle"
  BY DEF Idle, Work, Phases
<1>2. work[p] \in Work
  BY DEF SyncTypes
<1>3. [[work[p] EXCEPT !.pc = phase] EXCEPT !.owned = FALSE] \in Work
  BY <1>2 DEF Work
<1>4. QED
  BY <1>1, <1>2, <1>3 DEF To, SyncTypes, Work

\* A process that takes up a request is well formed.
LEMMA TakenUp ==
  ASSUME NEW phase \in Phases, NEW r \in Requests
  PROVE  /\ [Idle EXCEPT !.pc = phase, !.req = r] \in Work
         /\ [Idle EXCEPT !.pc = phase, !.req = r].pc = phase
         /\ [Idle EXCEPT !.pc = phase, !.req = r].req = r
<1>1. Idle \in Work
  BY DEF Idle, Work, Phases
<1>2. QED
  BY <1>1 DEF Work

\* Every step of the requests keeps OnceInv.
LEMMA StepOnceInv == OnceInv /\ [Next]_vars => OnceInv'
<1> SUFFICES ASSUME OnceInv, [Next]_vars
             PROVE  OnceInv'
  OBVIOUS
<1> USE DEF Active
<1>t. SyncTypes
  BY DEF OnceInv
<1>u. /\ \A p \in Procs : work[p].pc # "idle" => work[p].req \in Requests
      /\ \A r \in Requests : AccountOf[r] \in Accounts
  BY RequestsAssumption DEF OnceInv
<1>v. \A r \in Requests : request[r].status \in ActiveStatuses =>
        request[r].status \notin TerminalStatuses
  BY DEF ActiveStatuses, TerminalStatuses
<1>l. LeaseTime \in 0..LeaseTime
  BY QueueAssumption
(* A row written by Finalize, and a process that writes its own record. *)
<1>f. ASSUME NEW S \in SUBSET Requests, NEW status \in TerminalStatuses, Finalize(S, status)
      PROVE  /\ request' \in [Requests -> Request]
             /\ account' \in [Accounts -> Account]
             /\ \A r \in Requests : request[r].status \in TerminalStatuses =>
                                    request'[r].status \in TerminalStatuses
  BY <1>t, <1>f, FinalizedRows, EndedRequest
<1>d. ASSUME FailDeadLetters
      PROVE  /\ request' \in [Requests -> Request]
             /\ account' \in [Accounts -> Account]
             /\ \A r \in Requests : request[r].status \in TerminalStatuses =>
                                    request'[r].status \in TerminalStatuses
  BY <1>f, <1>d DEF FailDeadLetters, TerminalStatuses
<1>w. ASSUME NEW p \in Procs, work[p].pc # "idle",
             NEW phase \in Phases \ {"starting", "running"}, To(p, phase)
      PROVE  /\ work' \in [Procs -> Work]
             /\ \A q \in Procs : work'[q].pc # "idle" => work'[q].req \in Requests
             /\ \A q \in Procs : work'[q].pc \in {"starting", "running"} =>
                  Holding(q) /\ work'[q].req = work[q].req
  BY <1>t, <1>u, <1>w, ToStep DEF Holding
<1>i. ASSUME NEW p \in Procs, NEW next \in Work, next.pc \notin {"starting", "running"},
             next.pc = "idle" \/ next.req \in Requests, work' = [work EXCEPT ![p] = next]
      PROVE  /\ work' \in [Procs -> Work]
             /\ \A q \in Procs : work'[q].pc # "idle" => work'[q].req \in Requests
             /\ \A q \in Procs : work'[q].pc \in {"starting", "running"} =>
                  Holding(q) /\ work'[q].req = work[q].req
  BY <1>t, <1>u, <1>i DEF Holding, SyncTypes
<1>q. ASSUME UNCHANGED work
      PROVE  /\ work' \in [Procs -> Work]
             /\ \A q \in Procs : work'[q].pc # "idle" => work'[q].req \in Requests
             /\ \A q \in Procs : work'[q].pc \in {"starting", "running"} =>
                  Holding(q) /\ work'[q].req = work[q].req
  BY <1>t, <1>u, <1>q DEF Holding, SyncTypes
<1>r. ASSUME UNCHANGED request
      PROVE  /\ request' \in [Requests -> Request]
             /\ \A r \in Requests : request[r].status \in TerminalStatuses =>
                                    request'[r].status \in TerminalStatuses
  BY <1>t, <1>r DEF SyncTypes
<1>s. ASSUME NEW r \in Requests, Reserve(r)
      PROVE  /\ request' \in [Requests -> Request]
             /\ account' \in [Accounts -> Account]
             /\ \A s \in Requests : request[s].status \in TerminalStatuses =>
                                    request'[s].status \in TerminalStatuses
  <2>1. [status |-> "queued", error |-> "none", lease |-> LeaseTime] \in Request
    BY QueueAssumption DEF Request, ActiveStatuses
  <2>2. \A s \in Requests : \/ request'[s] = request[s]
                            \/ request'[s] = Ended("failed")
                            \/ s = r /\ request'[s] = [status |-> "queued", error |-> "none",
                                                       lease |-> LeaseTime]
    BY <1>s DEF Reserve
  <2>3. request[r].status \notin TerminalStatuses
    BY <1>s DEF Reserve, Reservable, TerminalStatuses
  <2>4. \A s \in Requests : /\ request'[s] \in Request
                            /\ request[s].status \in TerminalStatuses =>
                               request'[s].status \in TerminalStatuses
    BY <1>t, <2>1, <2>2, <2>3, EndedRequest DEF SyncTypes, TerminalStatuses
  <2>5. request' \in [Requests -> Request]
    BY <1>s, <2>4 DEF Reserve
  <2>6. account' \in [Accounts -> Account]
    <3>1. LeaseTime \in 0..LeaseTime /\ Cooldown \in 0..Cooldown
      BY QueueAssumption, CooldownAssumption
    <3>2. account[AccountOf[r]] \in Account
      BY <1>t, <1>u DEF SyncTypes
    <3>3. [[[account[AccountOf[r]] EXCEPT !.active = r] EXCEPT !.until = LeaseTime]
             EXCEPT !.cooldown = Cooldown] \in Account
      BY <3>1, <3>2 DEF Account
    <3>4. QED
      BY <1>s, <1>t, <1>u, <3>3 DEF Reserve, SyncTypes
  <2>7. QED
    BY <2>4, <2>5, <2>6
<1>1. CASE UNCHANGED vars
  BY <1>1, <1>t, <1>q, <1>r, QuietStep DEF vars, syncVars, Quiet, SyncTypes
<1>2. ASSUME NEW r \in Requests, ReserveSync(r)
      PROVE  OnceInv'
  BY <1>2, <1>s, <1>q, QuietStep DEF ReserveSync, Quiet
<1>3. ASSUME NEW r \in Requests, ReplayReservation(r)
      PROVE  OnceInv'
  <2>1. Finalize({r}, "failed") /\ UNCHANGED <<work, applied>>
    BY <1>3 DEF ReplayReservation
  <2>2. QED
    BY <2>1, <1>f, <1>q, QuietStep DEF Quiet, TerminalStatuses
<1>4. ASSUME NEW c \in Commands, NEW r \in Requests, RunCommand(c, r)
      PROVE  OnceInv'
  <2> DEFINE next == [Idle EXCEPT !.pc = "ready", !.req = r]
  <2>1. work' = [work EXCEPT ![c] = next] /\ c \in Procs
    BY <1>4 DEF RunCommand, Procs
  <2>2. next \in Work /\ next.pc = "ready" /\ next.req = r
    <3>1. "ready" \in Phases
      BY DEF Phases
    <3>2. QED
      BY <3>1, TakenUp
  <2> HIDE DEF next
  <2>3. /\ work' \in [Procs -> Work]
        /\ \A q \in Procs : work'[q].pc # "idle" => work'[q].req \in Requests
        /\ \A q \in Procs : work'[q].pc \in {"starting", "running"} =>
             Holding(q) /\ work'[q].req = work[q].req
    BY <1>i, <2>1, <2>2
  <2>4. QED
    BY <1>4, <1>s, <2>3, QuietStep DEF RunCommand, Quiet
<1>5. CASE EnsureQueuedJobs \/ CleanupJobs
  BY <1>5, <1>t, <1>q, <1>r, QuietStep DEF EnsureQueuedJobs, CleanupJobs, syncVars, Quiet,
     SyncTypes
<1>6. ASSUME NEW w \in Workers, PollEmpty(w)
      PROVE  OnceInv'
  BY <1>6, <1>d, <1>q, QuietStep DEF PollEmpty, Quiet
<1>7. ASSUME NEW w \in Workers, NEW r \in Requests, ClaimSync(w, r)
      PROVE  OnceInv'
  <2> DEFINE next == [Idle EXCEPT !.pc = "claimed", !.req = r]
  <2>1. work' = [work EXCEPT ![w] = next] /\ w \in Procs
    BY <1>7 DEF ClaimSync, Procs
  <2>2. next \in Work /\ next.pc = "claimed" /\ next.req = r
    <3>1. "claimed" \in Phases
      BY DEF Phases
    <3>2. QED
      BY <3>1, TakenUp
  <2> HIDE DEF next
  <2>3. /\ work' \in [Procs -> Work]
        /\ \A q \in Procs : work'[q].pc # "idle" => work'[q].req \in Requests
        /\ \A q \in Procs : work'[q].pc \in {"starting", "running"} =>
             Holding(q) /\ work'[q].req = work[q].req
    BY <1>i, <2>1, <2>2
  <2>4. QED
    BY <1>7, <1>d, <2>3, QuietStep DEF ClaimSync, Quiet
<1>8. ASSUME NEW w \in Workers, RenewFails(w) \/ FinishSync(w)
      PROVE  OnceInv'
  <2>1. work' = [work EXCEPT ![w] = Idle]
    BY <1>8 DEF RenewFails, FinishSync
  <2>2. Idle \in Work /\ Idle.pc = "idle" /\ w \in Procs
    BY DEF Idle, Work, Phases, Procs
  <2>3. QED
    BY <1>8, <1>d, <1>i, <2>1, <2>2, QuietStep DEF RenewFails, FinishSync, Quiet
<1>9. ASSUME NEW p \in Procs, Crash(p)
      PROVE  OnceInv'
  <2>1. work' = [work EXCEPT ![p] = Idle]
    BY <1>9 DEF Crash
  <2>2. Idle \in Work /\ Idle.pc = "idle"
    BY DEF Idle, Work, Phases
  <2>3. QED
    BY <1>9, <1>t, <1>r, <1>i, <2>1, <2>2, QuietStep DEF Crash, Quiet, SyncTypes
<1>10. ASSUME NEW a \in Accounts, ToggleDisabled(a)
       PROVE  OnceInv'
  <2>1. [account[a] EXCEPT !.disabled = ~account[a].disabled] \in Account
    BY <1>t DEF SyncTypes, Account
  <2>2. account' \in [Accounts -> Account]
    BY <1>10, <1>t, <2>1 DEF ToggleDisabled, SyncTypes
  <2>3. QED
    BY <1>10, <1>r, <1>q, <2>2, QuietStep DEF ToggleDisabled, Quiet
<1>11. CASE Tick
  <2>1. \A n \in 0..LeaseTime : Less(n) \in 0..LeaseTime
    BY QueueAssumption DEF Less
  <2>2. \A n \in 0..Cooldown : Less(n) \in 0..Cooldown
    BY CooldownAssumption DEF Less
  <2>3. \A r \in Requests : /\ [request[r] EXCEPT !.lease = Less(request[r].lease)] \in Request
                            /\ [request[r] EXCEPT !.lease = Less(request[r].lease)].status
                                 = request[r].status
    BY <1>t, <2>1 DEF SyncTypes, Request
  <2>4. \A a \in Accounts : [[account[a] EXCEPT !.until = Less(account[a].until)]
                               EXCEPT !.cooldown = Less(account[a].cooldown)] \in Account
    BY <1>t, <2>1, <2>2 DEF SyncTypes, Account
  <2>5. QED
    BY <1>11, <1>q, <2>3, <2>4, QuietStep DEF Tick, Quiet
<1>12. ASSUME NEW w \in Workers, RenewLease(w)
       PROVE  OnceInv'
  <2>1. w \in Procs /\ work[w].pc = "claimed" /\ work[w].req \in Requests
    BY <1>12, <1>u DEF RenewLease, Procs
  <2>2. /\ request' \in [Requests -> Request]
        /\ \A r \in Requests : request[r].status \in TerminalStatuses =>
                               request'[r].status \in TerminalStatuses
    <3>1. [Ended("failed") EXCEPT !.error = "refused"] \in Request
      BY EndedRequest DEF Request, TerminalStatuses
    <3>2. [request[work[w].req] EXCEPT !.lease = LeaseTime] \in Request
      <4>1. LeaseTime \in 0..LeaseTime /\ request[work[w].req] \in Request
        BY <1>t, <2>1, QueueAssumption DEF SyncTypes
      <4>2. QED
        BY <4>1 DEF Request
    <3>3. QED
      BY <1>12, <1>t, <1>v, <2>1, <3>1, <3>2 DEF RenewLease, SyncTypes
  <2>3. account' \in [Accounts -> Account]
    <3>1. LeaseTime \in 0..LeaseTime
      BY QueueAssumption
    <3>2. account[AccountOf[work[w].req]] \in Account
      BY <1>t, <1>u, <2>1 DEF SyncTypes
    <3>3. [[account[AccountOf[work[w].req]] EXCEPT !.active = work[w].req]
             EXCEPT !.until = LeaseTime] \in Account
      BY <2>1, <3>1, <3>2 DEF Account
    <3>4. QED
      BY <1>12, <1>t, <1>u, <2>1, <3>3 DEF RenewLease, SyncTypes
  <2>4. To(w, "ready") /\ applied' = applied
    BY <1>12 DEF RenewLease
  <2>5. "ready" \in Phases \ {"starting", "running"} /\ work[w].pc # "idle"
    BY <2>1 DEF Phases
  <2>6. QED
    BY <1>w, <2>1, <2>2, <2>3, <2>4, <2>5, QuietStep DEF Quiet
<1>13. ASSUME NEW p \in Procs, Advance(p)
       PROVE  OnceInv'
  <2>1. work[p].pc # "idle" /\ work[p].req \in Requests
    BY <1>13, <1>u DEF Advance, CheckStart, StartExecution, StartRefused, SkipNotDue,
       CommitSync, FetchFails, CheckOutcome, RecordOutcome
  <2> DEFINE r == work[p].req
             a == AccountOf[work[p].req]
  <2>a. a \in Accounts /\ account[a] \in Account /\ request[r] \in Request
    BY <1>t, <1>u, <2>1 DEF SyncTypes
  <2>2. CASE CheckStart(p)
    <3>1. To(p, "starting") /\ MayStart(p) /\ UNCHANGED <<request, account, applied>>
      BY <2>2 DEF CheckStart
    <3>2. applied[r] = 0
      BY <1>v, <2>1, <3>1 DEF MayStart, OnceInv, SyncTypes
    <3>3. /\ work' \in [Procs -> Work]
          /\ \A q \in Procs \ {p} : work'[q] = work[q]
          /\ work'[p].pc \in {"starting", "idle"}
          /\ work'[p].pc = "idle" \/ work'[p].req = r
      BY <1>t, <3>1, ToStep DEF Phases
    <3>4. \A q \in Procs \ {p} : Holding(q) => AccountOf[work[q].req] # a
      BY <3>1 DEF MayStart, LockBusy, Holding
    <3>5. QED
      BY <1>t, <1>u, <2>1, <3>1, <3>2, <3>3, <3>4 DEF OnceInv, SyncTypes, Holding
  <2>3. CASE StartExecution(p)
    <3>1. /\ To(p, "running") /\ UNCHANGED applied
          /\ Holding(p) \/ MayStart(p)
          /\ request' = [request EXCEPT ![r] = [Ended("running") EXCEPT !.lease = LeaseTime]]
          /\ account' = [account EXCEPT ![a].until = LeaseTime]
      BY <2>3 DEF StartExecution, Holding
    <3>2. applied[r] = 0
      <4>1. CASE Holding(p)
        BY <4>1 DEF OnceInv
      <4>2. CASE MayStart(p)
        <5>1. request[r].status \notin TerminalStatuses
          BY <1>v, <2>1, <4>2 DEF MayStart
        <5>2. applied[r] \in Nat /\ applied[r] <= 1 /\ applied[r] # 1
          BY <1>t, <2>1, <5>1 DEF OnceInv, SyncTypes
        <5>3. QED
          BY <5>2
      <4>3. QED
        BY <3>1, <4>1, <4>2
    <3>3. /\ work' \in [Procs -> Work]
          /\ \A q \in Procs \ {p} : work'[q] = work[q]
          /\ work'[p].pc \in {"running", "idle"}
          /\ work'[p].pc = "idle" \/ work'[p].req = r
      BY <1>t, <3>1, ToStep DEF Phases
    <3>4. \A q \in Procs \ {p} : Holding(q) => AccountOf[work[q].req] # a
      BY <3>1 DEF MayStart, LockBusy, Holding, OnceInv
    <3>5. [Ended("running") EXCEPT !.lease = LeaseTime] \in Request
      <4>1. Ended("running") \in Request
        BY EndedRequest
      <4>2. QED
        BY <1>l, <4>1 DEF Request
    <3>6. [account[a] EXCEPT !.until = LeaseTime] \in Account
      BY <1>l, <2>a DEF Account
    <3>7. /\ request' \in [Requests -> Request]
          /\ account' \in [Accounts -> Account]
      <4>1. request \in [Requests -> Request] /\ account \in [Accounts -> Account]
        BY <1>t DEF SyncTypes
      <4>2. /\ request' = [request EXCEPT ![r] = [Ended("running") EXCEPT !.lease = LeaseTime]]
            /\ account' = [account EXCEPT ![a] = [account[a] EXCEPT !.until = LeaseTime]]
        BY <3>1
      <4>3. QED
        BY <3>5, <3>6, <4>1, <4>2
    <3>8. \A s \in Requests : applied[s] = 1 => request'[s] = request[s]
      BY <1>t, <3>1, <3>2 DEF SyncTypes
    <3>9. QED
      BY <1>t, <1>u, <2>1, <3>1, <3>2, <3>3, <3>4, <3>7, <3>8 DEF OnceInv, SyncTypes, Holding
  <2>4. CASE StartRefused(p)
    <3>1. \E phase \in {"done", "failing"} : To(p, phase)
      BY <2>4 DEF StartRefused
    <3>2. UNCHANGED <<request, account, applied>>
      BY <2>4 DEF StartRefused
    <3>3. QED
      BY <1>t, <1>w, <1>r, <2>1, <3>1, <3>2, QuietStep DEF Quiet, Phases, SyncTypes
  <2>5. CASE SkipNotDue(p)
    <3>1. /\ To(p, "done") /\ UNCHANGED applied
          /\ request' = [request EXCEPT ![r] = Ended("skipped")]
          /\ account' = [account EXCEPT ![a] = IF account[a].active = r
                                              THEN Released(account[a]) ELSE account[a]]
      BY <2>5 DEF SkipNotDue
    <3>2. /\ request' \in [Requests -> Request]
          /\ \A s \in Requests : request[s].status \in TerminalStatuses =>
                                 request'[s].status \in TerminalStatuses
      BY <1>t, <2>1, <3>1, EndedRequest DEF SyncTypes, TerminalStatuses
    <3>3. account' \in [Accounts -> Account]
      BY <1>t, <2>a, <3>1, ReleasedAccount DEF SyncTypes
    <3>4. QED
      BY <1>w, <2>1, <3>1, <3>2, <3>3, QuietStep DEF Quiet, Phases
  <2>6. CASE CommitSync(p)
    <3>1. /\ To(p, "done") /\ Holding(p)
          /\ request' = [request EXCEPT ![r] = Ended("succeeded")]
          /\ account' = [account EXCEPT ![a] = Released(account[a])]
          /\ applied' = [applied EXCEPT ![r] = applied[r] + 1]
      BY <2>6 DEF CommitSync, Holding
    <3>2. applied[r] = 0
      BY <3>1 DEF OnceInv
    <3>3. /\ work' \in [Procs -> Work]
          /\ \A q \in Procs \ {p} : work'[q] = work[q]
          /\ work'[p].pc \in {"done", "idle"}
          /\ work'[p].pc = "idle" \/ work'[p].req = r
      BY <1>t, <3>1, ToStep DEF Phases
    <3>4. \A q \in Procs \ {p} : Holding(q) => work[q].req # r
      BY <3>1 DEF OnceInv
    <3>5. /\ request' \in [Requests -> Request]
          /\ request'[r].status \in TerminalStatuses
          /\ \A s \in Requests \ {r} : request'[s] = request[s]
      BY <1>t, <2>1, <3>1, EndedRequest DEF SyncTypes, TerminalStatuses
    <3>6. account' \in [Accounts -> Account]
      BY <1>t, <2>a, <3>1, ReleasedAccount DEF SyncTypes
    <3>7. /\ applied' \in [Requests -> Nat] /\ applied'[r] = 1
          /\ \A s \in Requests \ {r} : applied'[s] = applied[s]
      BY <1>t, <2>1, <3>1, <3>2 DEF SyncTypes
    <3>8. QED
      BY <1>t, <1>u, <2>1, <3>2, <3>3, <3>4, <3>5, <3>6, <3>7 DEF OnceInv, SyncTypes, Holding
  <2>7. CASE FetchFails(p)
    <3>1. PICK phase \in {"failing", "deferring"} : To(p, phase)
      BY <2>7 DEF FetchFails
    <3>2. UNCHANGED <<request, account, applied>>
      BY <2>7 DEF FetchFails
    <3>3. QED
      BY <1>t, <1>w, <1>r, <2>1, <3>1, <3>2, QuietStep DEF Quiet, Phases, SyncTypes
  <2>8. CASE CheckOutcome(p)
    <3>1. UNCHANGED <<request, account, applied>>
      BY <2>8 DEF CheckOutcome
    <3>2. CASE Active(r)
      <4>1. work' = [work EXCEPT ![p] =
               [[work[p] EXCEPT !.pc = IF work[p].pc = "failing" THEN "failed" ELSE "deferred"]
                  EXCEPT !.owned = account[a].active = r]]
        BY <1>t, <2>8, <3>2 DEF CheckOutcome, SyncTypes
      <4> DEFINE next == [[work[p] EXCEPT !.pc = IF work[p].pc = "failing" THEN "failed" ELSE "deferred"]
                            EXCEPT !.owned = account[a].active = r]
      <4>2. next \in Work /\ next.pc \in {"failed", "deferred"} /\ next.req = r
        BY <1>t, <2>1 DEF SyncTypes, Work, Phases
      <4>3. work' = [work EXCEPT ![p] = next]
        BY <4>1
      <4> HIDE DEF next
      <4>4. /\ work' \in [Procs -> Work]
            /\ \A q \in Procs : work'[q].pc # "idle" => work'[q].req \in Requests
            /\ \A q \in Procs : work'[q].pc \in {"starting", "running"} =>
                 Holding(q) /\ work'[q].req = work[q].req
        BY <1>i, <2>1, <4>2, <4>3
      <4>5. QED
        BY <1>t, <1>r, <3>1, <4>4, QuietStep DEF Quiet, SyncTypes
    <3>3. CASE ~Active(r)
      <4>1. To(p, "done")
        BY <2>8, <3>3 DEF CheckOutcome
      <4>2. QED
        BY <1>t, <1>w, <1>r, <2>1, <3>1, <4>1, QuietStep DEF Quiet, Phases, SyncTypes
    <3>4. QED
      BY <3>2, <3>3
  <2>9. CASE RecordOutcome(p)
    <3>1. PICK status \in {"failed", "skipped"} :
             \/ Finalize({r}, status)
             \/ /\ request' = [request EXCEPT ![r] = Ended(status)]
                /\ account' = [account EXCEPT ![a] = IF work[p].owned THEN Released(account[a])
                                                    ELSE account[a]]
             \/ UNCHANGED <<request, account>>
      BY <2>9 DEF RecordOutcome
    <3>2. To(p, "done") /\ UNCHANGED applied
      BY <2>9 DEF RecordOutcome
    <3>3. /\ request' \in [Requests -> Request]
          /\ account' \in [Accounts -> Account]
          /\ \A s \in Requests : request[s].status \in TerminalStatuses =>
                                 request'[s].status \in TerminalStatuses
      <4>1. CASE Finalize({r}, status)
        BY <1>f, <2>1, <4>1 DEF TerminalStatuses
      <4>2. CASE /\ request' = [request EXCEPT ![r] = Ended(status)]
                 /\ account' = [account EXCEPT ![a] = IF work[p].owned THEN Released(account[a])
                                                     ELSE account[a]]
        BY <1>t, <2>1, <2>a, <4>2, EndedRequest, ReleasedAccount DEF SyncTypes, TerminalStatuses
      <4>3. CASE UNCHANGED <<request, account>>
        BY <1>t, <1>r, <4>3 DEF SyncTypes
      <4>4. QED
        BY <3>1, <4>1, <4>2, <4>3
    <3>4. QED
      BY <1>w, <2>1, <3>2, <3>3, QuietStep DEF Quiet, Phases
  <2>10. QED
    BY <1>13, <2>2, <2>3, <2>4, <2>5, <2>6, <2>7, <2>8, <2>9 DEF Advance
<1>14. QED
  BY <1>1, <1>2, <1>3, <1>4, <1>5, <1>6, <1>7, <1>8, <1>9, <1>10, <1>11, <1>12, <1>13
     DEF Next, WorkerStep, Procs

\* Nothing is committed before the first request.
LEMMA InitOnceInv == Init => OnceInv
<1> SUFFICES ASSUME Init
             PROVE  OnceInv
  OBVIOUS
<1>1. [status |-> "absent", error |-> "none", lease |-> 0] \in Request
  BY QueueAssumption DEF Request
<1>2. [active |-> NoRequest, until |-> 0, cooldown |-> 0, disabled |-> FALSE] \in Account
  BY QueueAssumption, CooldownAssumption DEF Account
<1>3. Idle \in Work /\ Idle.pc = "idle"
  BY DEF Idle, Work, Phases
<1>4. SyncTypes
  BY <1>1, <1>2, <1>3 DEF Init, SyncTypes
<1>5. QED
  BY <1>3, <1>4 DEF Init, OnceInv, Holding

\* OnceInv holds in every reachable state.
LEMMA OnceInvariant == Spec => []OnceInv
BY InitOnceInv, StepOnceInv, PTL DEF Spec

(* Every row, account and process keeps its type, for any constants. *)
THEOREM TypesHold == Spec => []TypeOK
<1>1. OnceInv /\ Queue!TypeOK /\ Queue!ClaimsFenced => TypeOK
  BY DEF OnceInv, SyncTypes, TypeOK
<1>2. QED
  BY OnceInvariant, QueueFenced, <1>1, PTL

(* However many workers and commands race for a request, however their     *)
(* unlocked checks and writes interleave, and whoever dies or loses its    *)
(* lease, the grades fetched for it are committed at most once.            *)
THEOREM GradesAppliedOnce == Spec => []AppliedOnce
<1>1. OnceInv => AppliedOnce
  BY DEF OnceInv, AppliedOnce
<1>2. QED
  BY OnceInvariant, <1>1, PTL

-----------------------------------------------------------------------------
(* The three records of a request, when no process has its unlocked checks *)
(* parted from its writes.                                                 *)

(* A worker's claim and its record of work are taken and dropped together. *)
ClaimWorked ==
  \A w \in Workers : /\ claim[w] = NoClaim <=> work[w].pc = "idle"
                     /\ claim[w] # NoClaim => claim[w].job = work[w].req

(* The inductive invariant: a request that has ended stays so, one without *)
(* a row has no job, and only the worker of a request acknowledges its job.*)
AgreeInv ==
  /\ ClaimWorked
  /\ \A r \in Requests : job[r].status # "absent" => request[r].status # "absent"
  /\ RecordsAgree

(* What a step does to the requests and accounts, and to the jobs. *)
RowsKept ==
  /\ \A r \in Requests : request[r].status # "absent" =>
       /\ request'[r].status # "absent"
       /\ request[r].status \notin ActiveStatuses => request'[r].status \notin ActiveStatuses
  /\ ReservationBacked'

JobsKept ==
  \A r \in Requests :
    /\ job'[r].status # "absent" => job[r].status # "absent" \/ request'[r].status # "absent"
    /\ job'[r].status \in {"succeeded", "dead_letter"} =>
         \/ job[r].status \in {"succeeded", "dead_letter"}
         \/ request'[r].status \notin ActiveStatuses

\* AgreeInv needs only that rows, jobs and claimed work are kept.
LEMMA KeptStep == AgreeInv /\ RowsKept /\ JobsKept /\ ClaimWorked' => AgreeInv'
BY DEF AgreeInv, RowsKept, JobsKept, RecordsAgree, SettledJobEnded, Active

(* A row that ends carries no refusal and releases its account. *)
LEMMA FinalizedAgree ==
  ASSUME SyncTypes, AgreeInv, NEW S \in SUBSET Requests, NEW status \in TerminalStatuses,
         Finalize(S, status)
  PROVE  /\ RowsKept
         /\ \A r \in S : request'[r].status \notin ActiveStatuses
<1>1. /\ Ended(status).status = status
      /\ status \notin ActiveStatuses /\ status # "absent"
  BY EndedRequest DEF TerminalStatuses, ActiveStatuses
<1>2. \A r \in Requests : request'[r] = IF r \in S /\ Active(r) THEN Ended(status) ELSE request[r]
  BY DEF Finalize
<1>3. \A a \in Accounts :
        \/ /\ account'[a] = account[a]
           /\ ~(account[a].active \in S /\ Active(account[a].active))
        \/ account'[a].active = NoRequest
  BY DEF Finalize, Released, SyncTypes, Account
<1>4. ReservationBacked'
  BY <1>1, <1>2, <1>3 DEF AgreeInv, RecordsAgree, ReservationBacked, Active, SyncTypes, Account
<1>5. QED
  BY <1>1, <1>2, <1>4 DEF RowsKept, Active

\* Ending one request releases the account that pointed to it.
LEMMA EndedAgree ==
  ASSUME SyncTypes, AgreeInv, NEW r \in Requests, NEW status \in TerminalStatuses,
         request' = [request EXCEPT ![r] = Ended(status)],
         \A b \in Accounts : \/ account'[b].active = NoRequest
                             \/ account'[b] = account[b] /\ account[b].active # r
  PROVE  RowsKept
<1>1. Ended(status).status = status /\ status \notin ActiveStatuses /\ status # "absent"
  BY EndedRequest DEF TerminalStatuses, ActiveStatuses
<1>2. /\ request'[r] = Ended(status)
      /\ \A s \in Requests \ {r} : request'[s] = request[s]
  BY DEF SyncTypes
<1>3. ReservationBacked'
  BY <1>2 DEF AgreeInv, RecordsAgree, ReservationBacked, Active, SyncTypes, Account
<1>4. QED
  BY <1>1, <1>2, <1>3 DEF RowsKept

(* The jobs that claim_job, finish_job and the recovery move, and the      *)
(* requests that fail with the dead letters among them.                    *)
LEMMA QueueMoves ==
  ASSUME QueueProofs!IInv, NEW w \in Workers, NEW success \in BOOLEAN,
         \/ Queue!PollEmpty(w)
         \/ \E r \in Requests : Queue!ClaimJob(w, r)
         \/ Queue!FinishJob(w, success)
  PROVE  \A r \in Requests :
           /\ job'[r].status # "absent" => job[r].status # "absent"
           /\ job'[r].status = "dead_letter" => job[r].status \in {"running", "dead_letter"}
           /\ job'[r].status = "succeeded" =>
                \/ job[r].status = "succeeded"
                \/ success /\ r = claim[w].job
<1> DEFINE Rec == Queue!RecoverExpired
<1>t. /\ job \in [Requests -> Queue!Row]
      /\ \A r \in Requests : job[r].status = "running" => job[r].attempts \in 1..MaxAttempts
  BY DEF QueueProofs!IInv, QueueProofs!RowOK, QueueProofs!Row, Queue!Row,
         QueueProofs!Statuses, Queue!Statuses
<1>0. \A row \in Queue!Row : /\ Queue!Succeeded(row).status = "succeeded"
                             /\ Queue!Leased(row).status = "running"
                             /\ Queue!Requeued(row).status = "queued"
                             /\ Queue!DeadLetter(row).status = "dead_letter"
  BY DEF Queue!Row, Queue!Requeued, Queue!DeadLetter, Queue!Succeeded, Queue!Leased
<1>1. \A row \in Queue!Row : Queue!Failed(row).status \in {"queued", "dead_letter"}
  BY <1>0 DEF Queue!Failed
<1>2. \A r \in Requests : \/ Rec[r] = job[r]
                          \/ job[r].status = "running" /\ Rec[r] = Queue!Failed(job[r])
  BY DEF Queue!RecoverExpired, Queue!Expired
<1>r. \A r \in Requests : Rec[r] \in Queue!Row
  <2> SUFFICES ASSUME NEW r \in Requests, job[r].status = "running"
               PROVE  Queue!Failed(job[r]) \in Queue!Row
    BY <1>t, <1>2
  <2>1. job[r] \in Queue!Row /\ Backoff[job[r].attempts] \in Nat
    BY <1>t, QueueAssumption
  <2>2. Queue!Requeued(job[r]) \in Queue!Row
    BY <2>1 DEF Queue!Requeued, Queue!Row, Queue!Statuses, Queue!NoWorker
  <2>3. Queue!DeadLetter(job[r]) \in Queue!Row
    BY <2>1, QueueAssumption DEF Queue!DeadLetter, Queue!Row, Queue!Statuses, Queue!NoWorker
  <2>4. QED
    BY <2>2, <2>3 DEF Queue!Failed
<1>4. ASSUME NEW r \in Requests, Queue!ClaimJob(w, r)
      PROVE  \A s \in Requests : \/ job'[s] = Rec[s]
                                 \/ job'[s].status = "running" /\ job[s].status # "absent"
  <2>1. Rec[r].status = "queued" /\ job' = [Rec EXCEPT ![r] = Queue!Leased(Rec[r])]
    BY <1>4 DEF Queue!ClaimJob, Queue!Foremost, Queue!Claimable
  <2>2. job[r].status # "absent"
    BY <1>2, <2>1
  <2>3. QED
    BY <1>0, <1>r, <2>1, <2>2 DEF Queue!RecoverExpired
<1>5. ASSUME Queue!FinishJob(w, success)
      PROVE  \A r \in Requests :
               \/ job'[r] = job[r]
               \/ /\ r = claim[w].job /\ job[r].status = "running"
                  /\ job'[r].status \in IF success THEN {"succeeded"} ELSE {"queued", "dead_letter"}
  <2>1. CASE Queue!HoldsClaim(claim[w])
    <3>1. job[claim[w].job].status = "running"
      BY <2>1 DEF Queue!HoldsClaim
    <3>2. job' = [job EXCEPT ![claim[w].job] = IF success THEN Queue!Succeeded(job[claim[w].job])
                                               ELSE Queue!Failed(job[claim[w].job])]
      BY <1>5, <2>1 DEF Queue!FinishJob
    <3>3. QED
      BY <1>0, <1>1, <1>t, <3>1, <3>2
  <2>2. CASE ~Queue!HoldsClaim(claim[w])
    BY <1>5, <2>2 DEF Queue!FinishJob
  <2>3. QED
    BY <2>1, <2>2
<1>6. \A s \in Requests : /\ Rec[s].status # "absent" => job[s].status # "absent"
                          /\ Rec[s].status = "dead_letter" =>
                               job[s].status \in {"running", "dead_letter"}
                          /\ Rec[s].status = "succeeded" => job[s].status = "succeeded"
  BY <1>1, <1>2, <1>t
<1>7. CASE Queue!PollEmpty(w)
  BY <1>6, <1>7 DEF Queue!PollEmpty
<1>8. CASE \E r \in Requests : Queue!ClaimJob(w, r)
  BY <1>4, <1>6, <1>8
<1>9. CASE Queue!FinishJob(w, success)
  BY <1>5, <1>9
<1>10. QED
  BY <1>7, <1>8, <1>9

\* Every step keeps AgreeInv while no check is torn from its write.
LEMMA StepAgreeInv ==
  ASSUME Torn = {}, OnceInv, QueueProofs!IInv, AgreeInv, [Next]_vars
  PROVE  AgreeInv'
<1>t. /\ SyncTypes /\ Workers \cap Commands = {} /\ Procs = Workers \cup Commands
      /\ \A p \in Procs : work[p].pc # "idle" => work[p].req \in Requests
      /\ Idle.pc = "idle"
  BY ProcsAssumption DEF OnceInv, Procs, Idle
<1>j. /\ job \in [Requests -> Queue!Row]
      /\ claim \in [Workers -> Queue!Claim \cup {NoClaim}]
      /\ NoClaim \notin Queue!Claim
  BY QueueAssumption DEF QueueProofs!IInv, QueueProofs!Row, Queue!Row, QueueProofs!Statuses,
     Queue!Statuses, QueueProofs!Claim, Queue!Claim
<1>a. /\ \A r \in Requests : job[r].status # "absent" => request[r].status # "absent"
      /\ \A r \in Requests : job[r].status \in {"succeeded", "dead_letter"} => ~Active(r)
      /\ ReservationBacked
  BY DEF AgreeInv, RecordsAgree, SettledJobEnded
(* The steps that leave a record alone. *)
<1>r. ASSUME UNCHANGED <<request, account>>
      PROVE  RowsKept
  BY <1>r, <1>a DEF RowsKept, ReservationBacked, Active
<1>q. ASSUME UNCHANGED job, RowsKept
      PROVE  JobsKept
  BY <1>q, <1>a DEF JobsKept, RowsKept, Active
<1>c. ASSUME UNCHANGED <<work, claim>>
      PROVE  ClaimWorked'
  BY <1>c DEF AgreeInv, ClaimWorked
<1>w. ASSUME NEW p \in Procs, work[p].pc # "idle", NEW phase \in Phases \ {"idle"}, To(p, phase),
             UNCHANGED claim
      PROVE  ClaimWorked'
  <2>1. \A w \in Workers : w # p => work'[w] = work[w]
    BY <1>t, <1>w DEF To
  <2>2. p \in Workers => work'[p].pc # "idle" /\ work'[p].req = work[p].req
    BY <1>t, <1>w DEF To, SyncTypes, Work
  <2>3. QED
    BY <1>w, <2>1, <2>2 DEF AgreeInv, ClaimWorked
<1>d. ASSUME FailDeadLetters
      PROVE  /\ RowsKept
             /\ \A r \in Requests : job[r].status = "running" /\ job'[r].status = "dead_letter"
                  => request'[r].status \notin ActiveStatuses
  BY <1>d, <1>t, FinalizedAgree DEF FailDeadLetters, TerminalStatuses
<1>1. CASE UNCHANGED vars
  BY <1>1, <1>r, <1>q, <1>c, KeptStep DEF vars, syncVars, Queue!jobVars
<1>2. ASSUME NEW r \in Requests, Reserve(r)
      PROVE  RowsKept /\ request'[r].status # "absent"
  <2>1. /\ request[r].status = "absent"
        /\ request'[r].status = "queued"
        /\ \A s \in Requests \ {r} :
             \/ request'[s] = request[s]
             \/ AccountOf[s] = AccountOf[r] /\ request'[s] = Ended("failed")
        /\ account' = [account EXCEPT ![AccountOf[r]].active = r, ![AccountOf[r]].until = LeaseTime,
                                      ![AccountOf[r]].cooldown = Cooldown]
    BY <1>2 DEF Reserve, Reservable
  <2>2. Ended("failed").status = "failed"
    BY DEF Ended
  <2>3. \A a \in Accounts : IF a = AccountOf[r] THEN account'[a].active = r
                                              ELSE account'[a] = account[a]
    BY <1>t, <2>1 DEF SyncTypes, Account
  <2>4. ReservationBacked'
    <3> SUFFICES ASSUME NEW a \in Accounts, account'[a].active # NoRequest
                 PROVE  /\ AccountOf[account'[a].active] = a
                        /\ \/ request'[account'[a].active].status \in ActiveStatuses
                           \/ request'[account'[a].active].error = "refused"
      BY DEF ReservationBacked, Active
    <3>1. CASE a = AccountOf[r]
      BY <2>1, <2>3, <3>1 DEF ActiveStatuses
    <3>2. CASE a # AccountOf[r]
      <4>1. account'[a] = account[a] /\ account[a].active \in Requests
        BY <1>t, <2>3, <3>2 DEF SyncTypes, Account
      <4>2. AccountOf[account[a].active] = a
        BY <1>a, <4>1 DEF ReservationBacked
      <4>3. request'[account[a].active] = request[account[a].active]
        BY <2>1, <3>2, <4>1, <4>2
      <4>4. QED
        BY <1>a, <4>1, <4>2, <4>3 DEF ReservationBacked, Active
    <3>3. QED
      BY <3>1, <3>2
  <2>5. QED
    BY <2>1, <2>2, <2>4 DEF RowsKept, ActiveStatuses
<1>3. ASSUME NEW r \in Requests, ReserveSync(r)
      PROVE  AgreeInv'
  <2>1. Reserve(r) /\ Queue!EnqueueJobs({r}) /\ UNCHANGED work
    BY <1>3 DEF ReserveSync
  <2>2. \A s \in Requests \ {r} : job'[s] = job[s]
    BY <2>1 DEF Queue!EnqueueJobs
  <2>3. job'[r].status = "queued"
    BY <2>1 DEF Queue!EnqueueJobs, Queue!Inserted
  <2>4. JobsKept
    BY <1>a, <1>2, <2>1, <2>2, <2>3 DEF JobsKept, RowsKept, Active
  <2>5. UNCHANGED claim
    BY <2>1 DEF Queue!EnqueueJobs
  <2>6. QED
    BY <1>2, <1>c, <2>1, <2>4, <2>5, KeptStep
<1>4. ASSUME NEW r \in Requests, ReplayReservation(r)
      PROVE  AgreeInv'
  <2>1. Finalize({r}, "failed") /\ UNCHANGED <<work, job, claim>>
    BY <1>4 DEF ReplayReservation
  <2>2. RowsKept
    BY <1>t, <2>1, FinalizedAgree DEF TerminalStatuses
  <2>3. QED
    BY <2>1, <2>2, <1>q, <1>c, KeptStep
<1>5. ASSUME NEW c \in Commands, NEW r \in Requests, RunCommand(c, r)
      PROVE  AgreeInv'
  <2>1. Reserve(r) /\ UNCHANGED <<job, claim>> /\ \A w \in Workers : work'[w] = work[w]
    BY <1>5, <1>t DEF RunCommand, SyncTypes
  <2>2. ClaimWorked'
    BY <2>1 DEF AgreeInv, ClaimWorked
  <2>3. QED
    BY <1>2, <1>q, <2>1, <2>2, KeptStep
<1>6. CASE EnsureQueuedJobs
  <2>1. UNCHANGED <<request, account, work, claim>>
    BY <1>6 DEF EnsureQueuedJobs, syncVars, Queue!EnqueueJobs
  <2>2. \A s \in Requests : job'[s] = job[s] \/ (Active(s) /\ job'[s].status = "queued")
    <3>1. \A s \in Requests : job'[s] = IF Active(s) /\ job[s].status = "absent"
                                        THEN Queue!Inserted(job[s]) ELSE job[s]
      BY <1>6 DEF EnsureQueuedJobs, Queue!EnqueueJobs
    <3>2. \A s \in Requests : Queue!Inserted(job[s]).status = "queued"
      BY DEF Queue!Inserted
    <3>3. QED
      BY <3>1, <3>2
  <2>3. JobsKept
    BY <1>a, <2>1, <2>2 DEF JobsKept, Active, ActiveStatuses
  <2>4. QED
    BY <1>r, <1>c, <2>1, <2>3, KeptStep
<1>7. CASE CleanupJobs
  <2>1. UNCHANGED <<request, account, work, claim>>
    BY <1>7 DEF CleanupJobs, syncVars, Queue!CleanupJobs
  <2>2. \A s \in Requests : job'[s] = job[s] \/ job'[s] = Queue!Deleted(job[s])
    BY <1>7 DEF CleanupJobs, Queue!CleanupJobs
  <2>3. \A row \in Queue!Row : Queue!Deleted(row).status = "absent"
    BY DEF Queue!Row, Queue!Deleted
  <2>4. JobsKept
    BY <1>a, <1>j, <2>1, <2>2, <2>3 DEF JobsKept, Active
  <2>5. QED
    BY <1>r, <1>c, <2>1, <2>4, KeptStep
<1>8. CASE Tick
  <2>1. /\ UNCHANGED <<work, claim>>
        /\ \A r \in Requests : /\ job'[r] = Queue!Elapsed(job[r])
                               /\ request'[r] = [request[r] EXCEPT !.lease = Less(request[r].lease)]
        /\ \A a \in Accounts : account'[a] = [[account[a] EXCEPT !.until = Less(account[a].until)]
                                               EXCEPT !.cooldown = Less(account[a].cooldown)]
    BY <1>8 DEF Tick
  <2>a. /\ \A r \in Requests : request[r] \in Request
        /\ \A a \in Accounts : account[a] \in Account
    BY <1>t DEF SyncTypes
  <2>2. \A r \in Requests : /\ request'[r].status = request[r].status
                            /\ request'[r].error = request[r].error
    <3> TAKE r \in Requests
    <3>1. request'[r] = [request[r] EXCEPT !.lease = Less(request[r].lease)]
      BY <2>1
    <3>2. request[r] \in Request
      BY <2>a
    <3>3. QED
      BY <3>1, <3>2 DEF Request
  <2>3. \A a \in Accounts : account'[a].active = account[a].active
    <3> TAKE a \in Accounts
    <3>1. account'[a] = [[account[a] EXCEPT !.until = Less(account[a].until)]
                           EXCEPT !.cooldown = Less(account[a].cooldown)]
      BY <2>1
    <3>2. account[a] \in Account
      BY <2>a
    <3>3. QED
      BY <3>1, <3>2 DEF Account
  <2>4. \A r \in Requests : job'[r].status = job[r].status
    <3>1. \A row \in Queue!Row : Queue!Elapsed(row).status = row.status
      BY DEF Queue!Elapsed, Queue!Row
    <3>2. QED
      BY <1>j, <2>1, <3>1
  <2>5. ReservationBacked'
    BY <1>a, <1>t, <2>2, <2>3 DEF ReservationBacked, Active, SyncTypes, Account
  <2>8. RowsKept
    BY <2>2, <2>5 DEF RowsKept
  <2>6. JobsKept
    BY <2>4 DEF JobsKept
  <2>7. QED
    BY <1>c, <2>1, <2>8, <2>6, KeptStep
<1>9. ASSUME NEW a \in Accounts, ToggleDisabled(a)
      PROVE  AgreeInv'
  <2>1. /\ UNCHANGED <<request, work, job, claim>>
        /\ \A b \in Accounts : account'[b].active = account[b].active
    BY <1>9, <1>t DEF ToggleDisabled, SyncTypes, Account
  <2>2. RowsKept
    BY <1>a, <2>1 DEF RowsKept, ReservationBacked, Active
  <2>3. QED
    BY <1>q, <1>c, <2>1, <2>2, KeptStep
<1>10. ASSUME NEW p \in Procs, Crash(p)
       PROVE  AgreeInv'
  <2>1. UNCHANGED <<request, account, job>> /\ work' = [work EXCEPT ![p] = Idle]
    BY <1>10 DEF Crash, Queue!Crash
  <2>2. IF p \in Workers THEN claim' = [claim EXCEPT ![p] = NoClaim] ELSE claim' = claim
    BY <1>10 DEF Crash, Queue!Crash
  <2>3. ClaimWorked'
    BY <1>t, <1>j, <2>1, <2>2 DEF AgreeInv, ClaimWorked, SyncTypes
  <2>4. QED
    BY <1>r, <1>q, <2>1, <2>3, KeptStep
<1>11. ASSUME NEW w \in Workers, PollEmpty(w)
       PROVE  AgreeInv'
  <2>1. Queue!PollEmpty(w) /\ FailDeadLetters /\ UNCHANGED <<work, claim>>
    BY <1>11 DEF PollEmpty, Queue!PollEmpty
  <2>2. JobsKept
    BY <1>d, <2>1, QueueMoves DEF JobsKept
  <2>3. QED
    BY <1>c, <1>d, <2>1, <2>2, KeptStep
<1>12. ASSUME NEW w \in Workers, NEW r \in Requests, ClaimSync(w, r)
       PROVE  AgreeInv'
  <2>1. /\ Queue!ClaimJob(w, r) /\ FailDeadLetters
        /\ work' = [work EXCEPT ![w] = [Idle EXCEPT !.pc = "claimed", !.req = r]]
    BY <1>12 DEF ClaimSync
  <2>2. JobsKept
    BY <1>d, <2>1, QueueMoves DEF JobsKept
  <2>3. claim' = [claim EXCEPT ![w] = [job |-> r, id |-> job[r].id,
                                      worker |-> Queue!WorkerId(job[r])]]
    BY <2>1 DEF Queue!ClaimJob
  <2>4. claim'[w] \in Queue!Claim /\ claim'[w].job = r
    <3>1. job[r].id \in Nat /\ Queue!WorkerId(job[r]) \in Nat
      BY <1>j DEF Queue!Row, Queue!WorkerId
    <3>2. QED
      BY <1>j, <2>3, <3>1 DEF Queue!Claim
  <2>5. work'[w].pc = "claimed" /\ work'[w].req = r
    <3>1. /\ [Idle EXCEPT !.pc = "claimed", !.req = r].pc = "claimed"
          /\ [Idle EXCEPT !.pc = "claimed", !.req = r].req = r
      <4>1. "claimed" \in Phases
        BY DEF Phases
      <4>2. QED
        BY <4>1, TakenUp
    <3>2. work'[w] = [Idle EXCEPT !.pc = "claimed", !.req = r]
      BY <1>t, <2>1 DEF SyncTypes
    <3>3. QED
      BY <3>1, <3>2
  <2>6. \A v \in Workers \ {w} : work'[v] = work[v] /\ claim'[v] = claim[v]
    BY <1>t, <1>j, <2>1, <2>3 DEF SyncTypes
  <2>7. ClaimWorked'
    BY <1>j, <2>4, <2>5, <2>6 DEF AgreeInv, ClaimWorked
  <2>8. QED
    BY <1>d, <2>1, <2>2, <2>7, KeptStep
<1>13. ASSUME NEW w \in Workers, RenewFails(w) \/ FinishSync(w)
       PROVE  AgreeInv'
  <2>1. PICK success \in BOOLEAN : /\ Queue!FinishJob(w, success)
                                   /\ success => ~Active(work[w].req)
    BY <1>13 DEF RenewFails, FinishSync
  <2>2. FailDeadLetters /\ work' = [work EXCEPT ![w] = Idle]
    BY <1>13 DEF RenewFails, FinishSync
  <2>3. claim[w] # NoClaim /\ claim' = [claim EXCEPT ![w] = NoClaim]
    BY <2>1 DEF Queue!FinishJob
  <2>4. claim[w].job = work[w].req /\ work[w].req \in Requests
    BY <1>t, <2>3 DEF AgreeInv, ClaimWorked
  <2>5. ASSUME success, NEW r \in Requests, r = claim[w].job, job[r].status # "absent"
        PROVE  request'[r].status \notin ActiveStatuses
    <3>1. ~Active(r) /\ request[r].status # "absent"
      BY <1>a, <2>1, <2>4, <2>5
    <3>2. QED
      BY <1>d, <2>2, <3>1 DEF RowsKept, Active
  <2>6. JobsKept
    <3>1. \A r \in Requests :
            /\ job'[r].status # "absent" => job[r].status # "absent"
            /\ job'[r].status = "dead_letter" => job[r].status \in {"running", "dead_letter"}
            /\ job'[r].status = "succeeded" =>
                 \/ job[r].status = "succeeded"
                 \/ success /\ r = claim[w].job
      BY <2>1, QueueMoves
    <3>2. QED
      BY <1>d, <2>2, <2>5, <3>1 DEF JobsKept
  <2>7. ClaimWorked'
    BY <1>t, <1>j, <2>2, <2>3 DEF AgreeInv, ClaimWorked, SyncTypes
  <2>8. QED
    BY <1>d, <2>2, <2>6, <2>7, KeptStep
<1>14. ASSUME NEW w \in Workers, RenewLease(w)
       PROVE  AgreeInv'
  <2> DEFINE r == work[w].req
             a == AccountOf[work[w].req]
  <2>1. /\ w \in Procs /\ work[w].pc # "idle" /\ r \in Requests
        /\ To(w, "ready") /\ UNCHANGED <<job, claim>> /\ "ready" \in Phases \ {"idle"}
    BY <1>14, <1>t DEF RenewLease, Phases
  <2>2. RowsKept
    <3>1. CASE ~Active(r) /\ UNCHANGED <<request, account>>
      BY <1>r, <3>1
    <3>2. CASE /\ Active(r)
               /\ request' = [request EXCEPT ![r] = [Ended("failed") EXCEPT !.error = "refused"]]
               /\ UNCHANGED account
      <4>1. /\ [Ended("failed") EXCEPT !.error = "refused"].status = "failed"
            /\ [Ended("failed") EXCEPT !.error = "refused"].error = "refused"
        BY DEF Ended
      <4>2. /\ request'[r].status = "failed" /\ request'[r].error = "refused"
            /\ \A s \in Requests \ {r} : request'[s] = request[s]
        BY <1>t, <2>1, <3>2, <4>1 DEF SyncTypes
      <4>3. ReservationBacked'
        BY <1>a, <1>t, <3>2, <4>2 DEF ReservationBacked, Active, SyncTypes, Account
      <4>4. QED
        BY <4>2, <4>3 DEF RowsKept, ActiveStatuses
    <3>3. CASE /\ Active(r)
               /\ request' = [request EXCEPT ![r].lease = LeaseTime]
               /\ account' = [account EXCEPT ![a].active = r, ![a].until = LeaseTime]
      <4>1. /\ request'[r].status = request[r].status
            /\ \A s \in Requests \ {r} : request'[s] = request[s]
        BY <1>t, <2>1, <3>3 DEF SyncTypes, Request
      <4>2. \A b \in Accounts : IF b = a THEN account'[b].active = r ELSE account'[b] = account[b]
        BY <1>t, <3>3 DEF SyncTypes, Account
      <4>3. ReservationBacked'
        <5> SUFFICES ASSUME NEW b \in Accounts, account'[b].active # NoRequest
                     PROVE  /\ AccountOf[account'[b].active] = b
                            /\ \/ request'[account'[b].active].status \in ActiveStatuses
                               \/ request'[account'[b].active].error = "refused"
          BY DEF ReservationBacked, Active
        <5>1. CASE b = a
          BY <2>1, <3>3, <4>1, <4>2, <5>1 DEF Active
        <5>2. CASE b # a
          <6> DEFINE s == account[b].active
          <6>1. s # NoRequest /\ account'[b].active = s
            BY <4>2, <5>2
          <6>2. AccountOf[s] = b /\ (Active(s) \/ request[s].error = "refused")
            BY <1>a, <6>1 DEF ReservationBacked
          <6>3. s \in Requests
            BY <1>t, <6>1 DEF SyncTypes, Account
          <6>4. request'[s] = request[s]
            BY <4>1, <5>2, <6>2, <6>3
          <6>5. QED
            BY <6>1, <6>2, <6>4 DEF Active
        <5>3. QED
          BY <5>1, <5>2
      <4>4. QED
        BY <4>1, <4>3 DEF RowsKept
    <3>4. QED
      BY <1>14, <3>1, <3>2, <3>3 DEF RenewLease
  <2>3. QED
    BY <1>q, <1>w, <2>1, <2>2, KeptStep
<1>15. ASSUME NEW p \in Procs, Advance(p)
       PROVE  AgreeInv'
  <2> DEFINE r == work[p].req
             a == AccountOf[work[p].req]
  <2>1. /\ work[p].pc # "idle" /\ r \in Requests /\ UNCHANGED <<job, claim>>
        /\ ~CheckStart(p) /\ ~CheckOutcome(p)
    BY <1>15, <1>t DEF Advance, CheckStart, StartExecution, StartRefused, SkipNotDue,
       CommitSync, FetchFails, CheckOutcome, RecordOutcome
  <2>2. \E phase \in Phases \ {"idle"} : To(p, phase)
    BY <1>15, <2>1 DEF Advance, StartExecution, StartRefused, SkipNotDue, CommitSync,
       FetchFails, RecordOutcome, Phases
  <2>4. CASE StartExecution(p)
    <3>1. /\ MayStart(p)
          /\ request' = [request EXCEPT ![r] = [Ended("running") EXCEPT !.lease = LeaseTime]]
          /\ account' = [account EXCEPT ![a].until = LeaseTime]
      BY <2>4 DEF StartExecution
    <3>2. [Ended("running") EXCEPT !.lease = LeaseTime].status = "running"
      BY DEF Ended
    <3>3. /\ request'[r].status = "running" /\ request[r].status \in ActiveStatuses
          /\ \A s \in Requests \ {r} : request'[s] = request[s]
      BY <1>t, <2>1, <3>1, <3>2 DEF SyncTypes, MayStart, Active
    <3>4. \A b \in Accounts : account'[b].active = account[b].active
      BY <1>t, <3>1 DEF SyncTypes, Account
    <3>5. ReservationBacked'
      BY <1>a, <1>t, <3>3, <3>4 DEF ReservationBacked, Active, ActiveStatuses, SyncTypes, Account
    <3>6. RowsKept
      BY <3>3, <3>5 DEF RowsKept, ActiveStatuses
    <3>7. QED
      BY <1>q, <1>w, <2>1, <2>2, <3>6, KeptStep
  <2>5. CASE StartRefused(p) \/ FetchFails(p)
    <3>1. UNCHANGED <<request, account>>
      BY <2>5 DEF StartRefused, FetchFails
    <3>2. QED
      BY <1>q, <1>r, <1>w, <2>1, <2>2, <3>1, KeptStep
  <2>6. CASE SkipNotDue(p) \/ CommitSync(p)
    <3>1. PICK status \in {"skipped", "succeeded"} :
            request' = [request EXCEPT ![r] = Ended(status)]
      BY <2>6 DEF SkipNotDue, CommitSync
    <3>a. \A acct \in Account : Released(acct).active = NoRequest
      BY DEF Released, Account
    <3>b. \/ account' = [account EXCEPT ![a] = Released(account[a])]
          \/ account' = [account EXCEPT ![a] = IF account[a].active = r THEN Released(account[a])
                                              ELSE account[a]]
      BY <2>6 DEF SkipNotDue, CommitSync
    <3>2. ASSUME NEW b \in Accounts, b # a
          PROVE  account'[b] = account[b] /\ account[b].active # r
      <4>1. account'[b] = account[b]
        BY <1>t, <3>2, <3>b DEF SyncTypes
      <4>2. account[b].active = r => AccountOf[r] = b
        BY <1>a, <2>1, NoRequestAssumption DEF ReservationBacked
      <4>3. QED
        BY <3>2, <4>1, <4>2
    <3>3. \/ account'[a].active = NoRequest
          \/ account'[a] = account[a] /\ account[a].active # r
      <4>1. account[a] \in Account
        BY <1>t, <2>1, RequestsAssumption DEF SyncTypes
      <4>2. account'[a] \in {Released(account[a])} \cup
                            (IF account[a].active = r THEN {} ELSE {account[a]})
        BY <1>t, <2>1, <3>b, RequestsAssumption DEF SyncTypes
      <4>3. QED
        BY <3>a, <4>1, <4>2
    <3>4. RowsKept
      <4>1. status \in TerminalStatuses
        BY DEF TerminalStatuses
      <4>2. \A b \in Accounts : \/ account'[b].active = NoRequest
                                \/ account'[b] = account[b] /\ account[b].active # r
        BY <3>2, <3>3
      <4>3. QED
        BY <1>t, <2>1, <3>1, <4>1, <4>2, EndedAgree
    <3>5. QED
      BY <1>q, <1>w, <2>1, <2>2, <3>4, KeptStep
  <2>7. CASE RecordOutcome(p)
    <3>1. PICK status \in {"failed", "skipped"} :
            Finalize({r}, status) \/ UNCHANGED <<request, account>>
      BY <2>7 DEF RecordOutcome
    <3>2. RowsKept
      BY <1>r, <1>t, <2>1, <3>1, FinalizedAgree DEF TerminalStatuses
    <3>3. QED
      BY <1>q, <1>w, <2>1, <2>2, <3>2, KeptStep
  <2>8. QED
    BY <1>15, <2>1, <2>4, <2>5, <2>6, <2>7 DEF Advance
<1>16. QED
  BY <1>1, <1>3, <1>4, <1>5, <1>6, <1>7, <1>8, <1>9, <1>10, <1>11, <1>12, <1>13, <1>14, <1>15
     DEF Next, WorkerStep, Procs

(* Where no process has its checks parted from its writes, the three       *)
(* records of a request agree: the queue drops no request that waits, and  *)
(* no account stays reserved for a request that ended.                     *)
THEOREM RecordsStayAgreed ==
  ASSUME Torn = {}
  PROVE  Spec => []RecordsAgree
<1>1. Init => AgreeInv
  BY NoRequestAssumption DEF Init, Queue!Init, AgreeInv, ClaimWorked, RecordsAgree,
     SettledJobEnded, ReservationBacked, Idle, Procs
<1>2. OnceInv /\ QueueProofs!IInv /\ AgreeInv /\ [Next]_vars => AgreeInv'
  BY StepAgreeInv
<1>3. AgreeInv => RecordsAgree
  BY DEF AgreeInv
<1>4. QED
  BY OnceInvariant, QueueInvariant, <1>1, <1>2, <1>3, PTL DEF Spec
=============================================================================
