---------------------------- MODULE SyncRequests ----------------------------
(***************************************************************************)
(* Synchronisation requests: sync_control.py (reservation and lease of an  *)
(* account), sync.py (execution under the per-account file lock), and the  *)
(* sync half of jobs.py, composed with the durable queue of DurableJobs.   *)
(*                                                                         *)
(* A request is reserved by the web application or the scheduler, which    *)
(* enqueue its job, or by an operator's command, which executes it in      *)
(* place (sync_account, enqueue=False).  Workers and commands are the      *)
(* processes; the file lock of an account is held exactly by the process   *)
(* that fetches for it and is freed by the kernel when the process dies.   *)
(*                                                                         *)
(* PASS itself is outside: a fetch succeeds, fails or is deferred.  The    *)
(* limit of 100 rows of _prune_sync_requests, _recover_expired_jobs and    *)
(* ensure_queued_sync_jobs is not reached.                                 *)
(***************************************************************************)
EXTENDS Naturals, FiniteSets

CONSTANTS
  Requests,      \* synchronisation requests, one per idempotency key
  Accounts,      \* student accounts
  AccountOf,     \* the account of each request
  Origin,        \* the actor of each request
  Fenced,        \* requests whose fetch opens the stored IMT credential
  Workers,       \* sync worker processes
  Commands,      \* operator's processes running sync_account
  Torn,          \* processes whose unlocked checks and writes others part
  Suspendable,   \* bound: accounts the administrator disables and enables
  NoRequest,     \* no active request, nothing in hand
  NoClaim, MaxAttempts, Backoff, SucceededRetention, DeadRetention, MaxRows,
  LeaseTime,     \* SYNC_LEASE_SECONDS = JOB_LEASES["sync"], 900 s
  Cooldown       \* MANUAL_SYNC_COOLDOWN_SECONDS, 600 s

VARIABLES
  request,   \* request[r]: the row of sync_requests
  account,   \* account[a]: the synchronisation columns of the account
  work,      \* work[p]: what process p is doing
  applied,   \* applied[r]: commits of the grades fetched for r, a history
  job, claim \* the durable queue

Procs == Workers \cup Commands
Origins == {"owner", "admin", "automatic", "system"}

ASSUME RequestsAssumption  == /\ AccountOf \in [Requests -> Accounts]
                              /\ Origin \in [Requests -> Origins]
                              /\ Fenced \subseteq Requests
ASSUME ProcsAssumption     == /\ Workers \cap Commands = {}
                              /\ Torn \subseteq Procs
ASSUME NoRequestAssumption == NoRequest \notin Requests
ASSUME CooldownAssumption  == Cooldown \in Nat
ASSUME SuspendableAssumption == Suspendable \subseteq Accounts
ASSUME QueueAssumption     == /\ MaxAttempts \in Nat \ {0} /\ LeaseTime \in Nat \ {0}
                              /\ Backoff \in [1..MaxAttempts -> Nat \ {0}]
                              /\ SucceededRetention \in Nat /\ DeadRetention \in Nat
                              /\ MaxRows \in Nat
                              /\ NoClaim \notin [job: Requests, id: Nat, worker: Nat]

(* Priorities of enqueue_sync_job. *)
PriorityOf == [r \in Requests |-> CASE Origin[r] = "admin"     -> 20
                                    [] Origin[r] = "automatic" -> 100
                                    [] OTHER                   -> 50]

Queue == INSTANCE DurableJobs WITH Jobs <- Requests, Priority <- PriorityOf

syncVars == <<request, account, work, applied>>
vars == <<syncVars, Queue!jobVars>>

ActiveStatuses   == {"queued", "running"}
TerminalStatuses == {"succeeded", "failed", "skipped"}

(* lease: the time left until lease_expires_at, kept while the row is      *)
(* active.  error tells apart the failures the properties tell apart.      *)
Request == [status: {"absent"} \cup ActiveStatuses \cup TerminalStatuses,
            error: {"none", "failed", "refused"}, lease: 0..LeaseTime]

(* active, until: sync_active_request_id and the time left until           *)
(* sync_active_until; cooldown: the time left until sync_cooldown_until.   *)
Account == [active: Requests \cup {NoRequest}, until: 0..LeaseTime,
            cooldown: 0..Cooldown, disabled: BOOLEAN]

(* idle; claimed: before _renew_sync_request; ready: before the file lock; *)
(* starting: under the lock, checks done; running: fetching under the      *)
(* lock; failing, deferring: the lock is free and the outcome is not       *)
(* recorded; failed, deferred: the row was found active, and the account   *)
(* owned or not; done: before finish_job.                                  *)
Phases == {"idle", "claimed", "ready", "starting", "running", "failing", "deferring",
           "failed", "deferred", "done"}
Work == [pc: Phases, req: Requests \cup {NoRequest}, owned: BOOLEAN]
Idle == [pc |-> "idle", req |-> NoRequest, owned |-> FALSE]

Active(r)       == request[r].status \in ActiveStatuses
LeaseExpired(r) == Active(r) /\ request[r].lease = 0

Init ==
  /\ request = [r \in Requests |-> [status |-> "absent", error |-> "none", lease |-> 0]]
  /\ account = [a \in Accounts |-> [active |-> NoRequest, until |-> 0,
                                    cooldown |-> 0, disabled |-> FALSE]]
  /\ work = [p \in Procs |-> Idle]
  /\ applied = [r \in Requests |-> 0]
  /\ Queue!Init

-----------------------------------------------------------------------------
(* Writes to the rows. *)

Ended(status)  == [status |-> status,
                   error |-> IF status = "failed" THEN "failed" ELSE "none",
                   lease |-> 0]
Released(acct) == [acct EXCEPT !.active = NoRequest, !.until = 0]

(* An operator whose comment opens with "Mutant:" is a slip the properties *)
(* below must notice; no definition of the specification uses it.          *)

(* finalize_sync_request, _mark_request_worker_lost and                    *)
(* _dead_letter_sync_request: the active requests of S end, and an account *)
(* that still points to one of them is released.                           *)
Finalize(S, status) ==
  LET ending == {r \in S : Active(r)}
  IN  /\ request' = [r \in Requests |-> IF r \in ending THEN Ended(status) ELSE request[r]]
      /\ account' = [a \in Accounts |-> IF account[a].active \in ending
                                        THEN Released(account[a]) ELSE account[a]]

(* Mutant: a dead letter leaves its request waiting. *)
IgnoreDeadLetters == UNCHANGED <<request, account>>

(* The requests whose job this step dead-letters fail with it. *)
FailDeadLetters ==
  Finalize({r \in Requests : job[r].status = "running" /\ job'[r].status = "dead_letter"},
           "failed")

(* The conditions of the UPDATE in reserve_sync_request. *)
Reservable(r) ==
  LET acct == account[AccountOf[r]]
  IN  /\ request[r].status = "absent"
      /\ ~acct.disabled
      /\ acct.active = NoRequest \/ acct.until = 0
      /\ Origin[r] = "owner" => acct.cooldown = 0

(* reserve_sync_request: the account is taken first, then the expired      *)
(* requests of the account are failed and the new one is inserted.         *)
Reserve(r) ==
  LET a == AccountOf[r]
  IN  /\ Reservable(r)
      /\ request' = [s \in Requests |->
           IF s = r THEN [status |-> "queued", error |-> "none", lease |-> LeaseTime]
           ELSE IF AccountOf[s] = a /\ LeaseExpired(s) THEN Ended("failed")
           ELSE request[s]]
      /\ account' = [account EXCEPT ![a].active = r, ![a].until = LeaseTime,
                                    ![a].cooldown = Cooldown]

To(p, phase) == work' = [work EXCEPT ![p] = IF phase = "done" /\ p \in Commands
                                            THEN Idle ELSE [@ EXCEPT !.pc = phase, !.owned = FALSE]]

(* Mutant: there is no file lock. *)
LockNeverBusy(p, a) == FALSE

LockBusy(p, a) == \E q \in Procs \ {p} : /\ work[q].pc \in {"starting", "running"}
                                         /\ AccountOf[work[q].req] = a

-----------------------------------------------------------------------------
(* POST /sync, the administrator's routes and sync_due_accounts: reserve   *)
(* and enqueue in one transaction.                                         *)
ReserveSync(r) ==
  /\ Origin[r] # "system"
  /\ Reserve(r)
  /\ Queue!EnqueueJobs({r})
  /\ UNCHANGED <<work, applied>>

(* _existing_reservation: replaying the idempotency key of a request whose *)
(* lease expired records the loss of its worker.                           *)
ReplayReservation(r) ==
  /\ Origin[r] \in {"owner", "admin"}
  /\ LeaseExpired(r)
  /\ Finalize({r}, "failed")
  /\ UNCHANGED <<work, applied, job, claim>>

(* sync_account: reserve without a job, then execute in this process. *)
RunCommand(c, r) ==
  /\ Origin[r] = "system"
  /\ work[c] = Idle
  /\ Reserve(r)
  /\ work' = [work EXCEPT ![c] = [Idle EXCEPT !.pc = "ready", !.req = r]]
  /\ UNCHANGED <<applied, job, claim>>

(* Mutant: the key of an existing job is not looked up. *)
EnsureQueuedTwice ==
  /\ \E r \in Requests : Active(r) /\ job[r].id < MaxRows + 1
  /\ job' = [r \in Requests |-> IF Active(r) /\ job[r].id < MaxRows + 1
                                THEN Queue!Inserted(job[r]) ELSE job[r]]
  /\ UNCHANGED <<request, account, work, applied, claim>>

(* Mutant: only requests that have not started are looked for. *)
EnsureQueuedOnly ==
  /\ Queue!EnqueueJobs({r \in Requests : request[r].status = "queued"
                                        /\ job[r].status = "absent"})
  /\ UNCHANGED syncVars

(* ensure_queued_sync_jobs, run by the scheduler: a job for every active   *)
(* request that has none.                                                  *)
EnsureQueuedJobs ==
  /\ Queue!EnqueueJobs({r \in Requests : Active(r) /\ job[r].status = "absent"})
  /\ UNCHANGED syncVars

(* claim_job("sync") by a polling worker, with the dead letters of the     *)
(* leases it recovers.                                                     *)
ClaimSync(w, r) ==
  /\ Queue!ClaimJob(w, r)
  /\ FailDeadLetters
  /\ work' = [work EXCEPT ![w] = [Idle EXCEPT !.pc = "claimed", !.req = r]]
  /\ UNCHANGED applied

PollEmpty(w) ==
  /\ work[w] = Idle
  /\ Queue!PollEmpty(w)
  /\ FailDeadLetters
  /\ UNCHANGED <<work, applied>>

(* _renew_sync_request takes the account's lease for the claimed request,  *)
(* whichever request holds it; a request that already ended passes, and    *)
(* one whose account is disabled fails here without releasing the account. *)
RenewLease(w) ==
  LET r == work[w].req
      a == AccountOf[r]
  IN  /\ work[w].pc = "claimed"
      /\ \/ /\ ~Active(r)
            /\ UNCHANGED <<request, account>>
         \/ /\ Active(r) /\ account[a].disabled
            /\ request' = [request EXCEPT ![r] = [Ended("failed") EXCEPT !.error = "refused"]]
            /\ UNCHANGED account
         \/ /\ Active(r) /\ ~account[a].disabled
            /\ request' = [request EXCEPT ![r].lease = LeaseTime]
            /\ account' = [account EXCEPT ![a].active = r, ![a].until = LeaseTime]
      /\ To(w, "ready")
      /\ UNCHANGED <<applied, job, claim>>

(* The renewal transaction fails and process_one asks for a retry. *)
RenewFails(w) ==
  /\ work[w].pc = "claimed"
  /\ Queue!FinishJob(w, FALSE)
  /\ FailDeadLetters
  /\ work' = [work EXCEPT ![w] = Idle]
  /\ UNCHANGED applied

(* The checks of execute_sync_request under the file lock. *)
MayStart(p) ==
  LET r == work[p].req
      a == AccountOf[r]
  IN  /\ ~LockBusy(p, a)
      /\ Active(r) /\ ~LeaseExpired(r)
      /\ account[a].active = r /\ ~account[a].disabled

(* The rows it checks are not locked: another process may write them       *)
(* before they are written here.                                           *)
CheckStart(p) ==
  /\ p \in Torn
  /\ work[p].pc = "ready" /\ MayStart(p)
  /\ To(p, "starting")
  /\ UNCHANGED <<request, account, applied, job, claim>>

(* The commit that marks the request running. *)
StartExecution(p) ==
  LET r == work[p].req
      a == AccountOf[r]
  IN  /\ IF p \in Torn THEN work[p].pc = "starting" ELSE work[p].pc = "ready" /\ MayStart(p)
      /\ request' = [request EXCEPT ![r] = [Ended("running") EXCEPT !.lease = LeaseTime]]
      /\ account' = [account EXCEPT ![a].until = LeaseTime]
      /\ To(p, "running")
      /\ UNCHANGED <<applied, job, claim>>

(* Its early exits: the lock is busy, the request has ended, or it lost    *)
(* its reservation, its lease or its account.                              *)
StartRefused(p) ==
  LET r == work[p].req
      a == AccountOf[r]
  IN  /\ work[p].pc = "ready"
      /\ IF ~LockBusy(p, a) /\ ~Active(r)
         THEN To(p, "done")
         ELSE /\ LockBusy(p, a) \/ account[a].active # r
                 \/ LeaseExpired(r) \/ account[a].disabled
              /\ To(p, "failing")
      /\ UNCHANGED <<request, account, applied, job, claim>>

(* _skip_automatic_request, before or after the commit of StartExecution:  *)
(* the account is not due any more.                                        *)
SkipNotDue(p) ==
  LET r == work[p].req
      a == AccountOf[r]
  IN  /\ \/ work[p].pc = "running"
         \/ work[p].pc = "ready" /\ MayStart(p)
      /\ Origin[r] = "automatic"
      /\ request' = [request EXCEPT ![r] = Ended("skipped")]
      /\ account' = [account EXCEPT ![a] = IF @.active = r THEN Released(@) ELSE @]
      /\ To(p, "done")
      /\ UNCHANGED <<applied, job, claim>>

(* assert_autonomous_state_current under row locks: the request still owns *)
(* the account.                                                            *)
StillOwner(r) ==
  LET acct == account[AccountOf[r]]
  IN  /\ Active(r) /\ request[r].lease > 0
      /\ acct.active = r /\ acct.until > 0 /\ ~acct.disabled

(* The commit that writes the grades and the success.  Unless the fetch    *)
(* opened the stored credential, the rows are the session's own copies:    *)
(* they still show the request as owner of the account, so the account is  *)
(* released whichever request owns it by now.                              *)
CommitSync(p) ==
  LET r == work[p].req
      a == AccountOf[r]
  IN  /\ work[p].pc = "running"
      /\ r \in Fenced => StillOwner(r)
      /\ request' = [request EXCEPT ![r] = Ended("succeeded")]
      /\ account' = [account EXCEPT ![a] = Released(@)]
      /\ applied' = [applied EXCEPT ![r] = @ + 1]
      /\ To(p, "done")
      /\ UNCHANGED <<job, claim>>

(* PASS, the gateway or the commit fails: the lock is freed before the     *)
(* outcome is recorded.                                                    *)
FetchFails(p) ==
  /\ work[p].pc = "running"
  /\ \E phase \in {"failing", "deferring"} : To(p, phase)
  /\ UNCHANGED <<request, account, applied, job, claim>>

(* _record_sync_failure and _record_sync_deferred read the rows, unlocked, *)
(* in a session of their own, and leave a request that has ended alone...  *)
CheckOutcome(p) ==
  LET r == work[p].req
  IN  /\ p \in Torn
      /\ work[p].pc \in {"failing", "deferring"}
      /\ IF Active(r)
         THEN work' = [work EXCEPT ![p].pc = IF @ = "failing" THEN "failed" ELSE "deferred",
                                   ![p].owned = account[AccountOf[r]].active = r]
         ELSE To(p, "done")
      /\ UNCHANGED <<request, account, applied, job, claim>>

(* ... and write what they read; the transaction may fail in turn.         *)
RecordOutcome(p) ==
  LET r == work[p].req
      a == AccountOf[r]
      status == IF work[p].pc \in {"failing", "failed"} THEN "failed" ELSE "skipped"
  IN  /\ work[p].pc \in IF p \in Torn THEN {"failed", "deferred"} ELSE {"failing", "deferring"}
      /\ \/ p \notin Torn /\ Finalize({r}, status)
         \/ /\ p \in Torn
            /\ request' = [request EXCEPT ![r] = Ended(status)]
            /\ account' = [account EXCEPT ![a] = IF work[p].owned THEN Released(@) ELSE @]
         \/ UNCHANGED <<request, account>>
      /\ To(p, "done")
      /\ UNCHANGED <<applied, job, claim>>

(* The end of process_one: the job is acknowledged only if the request was *)
(* read to have ended (_sync_request_is_terminal), and retried otherwise.  *)
FinishSync(w) ==
  /\ work[w].pc = "done"
  /\ \E success \in {~Active(work[w].req), FALSE} : Queue!FinishJob(w, success)
  /\ FailDeadLetters
  /\ work' = [work EXCEPT ![w] = Idle]
  /\ UNCHANGED applied

(* A process dies: its claim is forgotten, its file lock is freed. *)
Crash(p) ==
  /\ work[p] # Idle
  /\ work' = [work EXCEPT ![p] = Idle]
  /\ IF p \in Workers THEN Queue!Crash(p) ELSE UNCHANGED <<job, claim>>
  /\ UNCHANGED <<request, account, applied>>

(* The administrator disables or enables the account. *)
ToggleDisabled(a) ==
  /\ a \in Suspendable
  /\ account' = [account EXCEPT ![a].disabled = ~@]
  /\ UNCHANGED <<request, work, applied, job, claim>>

CleanupJobs == Queue!CleanupJobs /\ UNCHANGED syncVars

(* Mutant: an instant in the past keeps running. *)
LessThanZero(n) == n - 1

Less(n) == IF n > 0 THEN n - 1 ELSE 0

Tick ==
  /\ job' = [r \in Requests |-> Queue!Elapsed(job[r])]
  /\ request' = [r \in Requests |-> [request[r] EXCEPT !.lease = Less(@)]]
  /\ account' = [a \in Accounts |-> [account[a] EXCEPT !.until = Less(@),
                                                       !.cooldown = Less(@)]]
  /\ <<job', request', account'>> # <<job, request, account>>
  /\ UNCHANGED <<work, applied, claim>>

(* One step of process p after it took up a request. *)
Advance(p) ==
  \/ CheckStart(p)
  \/ StartExecution(p)
  \/ StartRefused(p)
  \/ SkipNotDue(p)
  \/ CommitSync(p)
  \/ FetchFails(p)
  \/ CheckOutcome(p)
  \/ RecordOutcome(p)

WorkerStep(w) == RenewLease(w) \/ RenewFails(w) \/ FinishSync(w) \/ Advance(w)

Next ==
  \/ \E r \in Requests : ReserveSync(r) \/ ReplayReservation(r)
  \/ \E c \in Commands, r \in Requests : RunCommand(c, r)
  \/ EnsureQueuedJobs
  \/ \E w \in Workers : PollEmpty(w) \/ WorkerStep(w)
  \/ \E w \in Workers, r \in Requests : ClaimSync(w, r)
  \/ \E c \in Commands : Advance(c)
  \/ \E p \in Procs : Crash(p)
  \/ \E a \in Accounts : ToggleDisabled(a)
  \/ CleanupJobs
  \/ Tick

Spec == Init /\ [][Next]_vars

(* Time passes, the scheduler's loop and the workers' loops run, and a     *)
(* fetch ends (every call to PASS has a timeout).  Nothing is assumed of   *)
(* commands, crashes, administrators or the outcome of a fetch.            *)
FairSpec ==
  /\ Spec
  /\ WF_vars(Tick)
  /\ WF_vars(EnsureQueuedJobs)
  /\ \A w \in Workers : /\ WF_vars(PollEmpty(w))
                        /\ WF_vars(\E r \in Requests : ClaimSync(w, r))
                        /\ WF_vars(WorkerStep(w))

-----------------------------------------------------------------------------
(* Types of the rows, the accounts and the processes. *)
TypeOK ==
  /\ request \in [Requests -> Request]
  /\ account \in [Accounts -> Account]
  /\ work \in [Procs -> Work]
  /\ applied \in [Requests -> Nat]
  /\ Queue!TypeOK

(* A job is settled, acknowledged or dead-lettered, only once its request  *)
(* has ended: the queue never drops a request that still waits, whichever  *)
(* attempts raced (test_jobs.py, _sync_request_is_terminal).               *)
SettledJobEnded ==
  \A r \in Requests : job[r].status \in {"succeeded", "dead_letter"} => ~Active(r)

(* An account points to an active request, or to one that _renew refused   *)
(* because the account was disabled.                                       *)
ReservationBacked ==
  \A a \in Accounts : LET r == account[a].active IN
    r # NoRequest => /\ AccountOf[r] = a
                     /\ Active(r) \/ request[r].error = "refused"

(* The three records of one synchronisation, its job, its request and its  *)
(* account, agree, whichever process wrote which of them last.             *)
RecordsAgree == SettledJobEnded /\ ReservationBacked

(* The grades fetched for a request are committed at most once, however    *)
(* often its job is retried, its lease lost or its row overwritten.        *)
AppliedOnce == \A r \in Requests : applied[r] <= 1

(* The workers use the queue by its protocol and no other way. *)
UsesQueue == Queue!Spec

(* Every accepted request ends: whatever crashes, also a command's.        *)
EveryRequestEnds ==
  \A r \in Requests : request[r].status = "queued" ~> request[r].status \in TerminalStatuses

(* test_distinct_concurrent_requests_cannot_hold_the_same_account_lease.   *)
OneLeasePerAccount ==
  \A r, s \in Requests :
    /\ r # s /\ AccountOf[r] = AccountOf[s]
    /\ Active(r) /\ Active(s)
    => request[r].lease = 0 \/ request[s].lease = 0
=============================================================================
