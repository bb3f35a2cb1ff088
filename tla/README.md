# IMTégrale: TLA+ models and proofs

IMTégrale keeps the grades of IMT students up to date: it fetches them from the school's
PASS service, for an owner who asks, an administrator, or on its own schedule, and shows,
compares and simulates what it fetched. The correctness of the backend rests on rows of
PostgreSQL that several processes read and write, on a few files, and on what a school
server answers. This directory holds models of those protocols, the TLC runs that check
them, and TLAPS proofs of what matters most.

Paths below are relative to `backend/app/` unless they start with another directory. All
modules are plain TLA+; no module uses `RECURSIVE`.

1. [Inventory of the system](#1-inventory-of-the-system)
2. [Modules and their correspondence to the
   code](#2-modules-and-their-correspondence-to-the-code)
3. [Runs, bounds and what they show](#3-runs-bounds-and-what-they-show)
4. [Disagreements between the code and its
   documentation](#4-disagreements-between-the-code-and-its-documentation)
5. [Fairness](#5-fairness)
6. [Proofs](#6-proofs)
7. [What is abstracted, and what it costs](#7-what-is-abstracted-and-what-it-costs)
8. [Not modelled](#8-not-modelled)
9. [Observations](#9-observations)
10. [Plan](#10-plan)

## 1. Inventory of the system

Processes: the web application (FastAPI, one process, any number of threads and tabs), the
scheduler, workers for synchronisations, calendars and the outbox, a maintenance worker, and
the operator's commands. They share a PostgreSQL database, a directory of lock files, the
key files of the host, and nothing else.

| Component | State it keeps | Hard | Correct when |
|---|---|---|---|
| **Durable job queue** (`services/jobs.py`) | a row per kind and key: status, attempts, lease, `worker_id`; the claim of each worker | a lease that expires under a slow worker, attempts counted in two functions, crashes at any step | claims are fenced, attempts exact, every accepted job ends |
| **Synchronisation requests** (`services/sync_control.py`, `sync.py`, `jobs.py`) | `sync_requests`, the account's reservation and cooldown, the file lock | unlocked checks, a session that keeps its copy of the account for minutes, an operator's command beside a worker | no accepted request is dropped, no reservation orphaned, grades committed once, requests end |
| **PASS gateway** (`services/pass_gateway.py`) | `pass_system_state`, `pass_operations`, leases in memory | late reports, dead probes, sliding windows, forced probes | the tables agree on who runs; budgets, quiet period and `Retry-After` hold; an open circuit is probed |
| **Conversation with the school** (`services/imt.py`) | the client's stage, its cookies' origin, HUB's token, requests sent | any page, redirection, failure or deadline at any of fifteen requests | password and token reach their owners only, the token is handed back, every request is counted |
| **Telegram outbox** (`jobs.py`, `services/telegram.py`) | `notification_outbox` | a lost answer, settings that change before the delivery | delivered means taken or unwanted; repeats are bounded |
| **Autonomous credentials** (`services/autonomous_sync_credentials.py`, `sync_preferences.py`) | the sealed credential, the mode and the pause of an account, the worker's snapshot | replacement, revocation and mode changes during an SSO | what comes back late is not applied; only the owner dates a consent |
| **PASS sessions** (`services/pass_sessions.py`, `legacy_pass_session_migration.py`) | the cookie jar of an account, in two formats | a worker writes back a jar it loaded; a migration and a revocation run meanwhile | revoked stays dead, the last jar is kept, in one format |
| **Automatic schedule** (`sync_schedule.py`, `autonomous_sync_schedule.py`, `cohort_pulse.py`) | `auto_sync_next_at`, cadence, failures, last served | copies of a row written back, two accounts competing, pulses | accounts take turns, new grades delay nobody, instants lie in the business window |
| **Authentication throttle** (`services/auth_protection.py`) | attempts, rows per client, target and pair, the pause of a storm | checks before outcomes, full tables | attempts are bounded, a block runs to its end |
| **Calendar subscriptions** (`services/calendar_feed.py`) | link, validators, events, due instant, connection attempts | read, fetch for seconds, write without a lock | validators describe the events, a removed calendar stays removed, attempts are spaced |
| **Access** (`security.py`, `services/imt_login.py`, `passkeys.py`, tokens) | sessions, tokens, passkeys, challenges, the access generation | a login that checked its factor before all accesses were ended | a late login opens nothing; a challenge and a first import happen once |
| **Leaderboard** (`services/leaderboard.py`) | profile, basis, freshness | no handler locks the profile | who left is not listed; ranks are dense and lost only as announced |
| **Simulations** (`services/simulations.py`, `note_simulations.py`) | scenarios, rows, versions | several tabs, two-statement reads, rebases on moving results | nothing is overwritten unseen; a baseline is official |
| **Academic content** (`sync.py`, `dashboard.py`, `calculations.py`) | notes, archives, news | withdrawals, purges, results that come back; four computations that round differently | a change is reported when there is one, news are new, the computations agree |
| **Learning** (`learning/access.py`, `routers/learning.py`) | progress, attempts, grants | limits counted by concurrent requests | every limit holds |
| **Crypto envelopes and keys** (`services/key_rotation.py`, `hpke_envelope_rotation.py`, `deploy/security/sync_hpke_keysets.py`) | sealed rows, key files and their manifest | interruption, owners who write meanwhile, files that fail halfway | every kept secret can be opened; no key in use is lost |
| **Sequence reconciliation** (`operational_sequence_*.py`, migration 0029) | a PostgreSQL sequence and its table | `setval` does not roll back, the check reads without a lock | once told safe, no insertion collides |
| **Worker runtime** (`services/worker_runtime.py`, `deploy/*.service`) | loops, heartbeats, restarts | | gives the fairness of the others |

`PROJECT.json` lists, with their reason, the parts that are left out (section 8), and under
`hazards` what is hard to test, each at its line with the properties about it.

```
 owner, administrator        scheduler (SyncSchedule)      operator
        |                          |                          |
        v                          v                          |
  SyncRequests.ReserveSync (request + job)           RunCommand (request, no job)
        |                          |                          |
        v          EnsureQueuedJobs repairs a missing job <---+
  DurableJobs: queued -> running -> succeeded | dead_letter
        |
        v
  worker: RenewLease, StartExecution [file lock]
        |            Credentials: snapshot, session or SSO, fence before the commit
        v
  PassGateway: Admit ... Complete   around   ImtConversation
        |
        v
  CommitSync: GradeImport (notes, news, change) + request + account + outbox row
        |                     |                      |
        v                     v                      v
  Notifications          Simulations.Publish    Leaderboard, Board, cohort pulse
```

## 2. Modules and their correspondence to the code

| Module | Models |
|---|---|
| `JobLifecycle` | what the queue promises about a key (abstract) |
| `DurableJobs` | `jobs.py`: the rows of one kind and their workers; implements `JobLifecycle` |
| `SyncRequests` | `sync_control.py`, `sync.py`, the sync half of `jobs.py`, over `DurableJobs` as `Queue` |
| `PassGateway` | `pass_gateway.py`, the coordinator |
| `ImtConversation` | `imt.py`, with the operations of `pass_gateway.py` that drive it |
| `Notifications` | the outbox half of `jobs.py`, over `DurableJobs` as `Queue` |
| `Credentials` | enrolment, revocation, modes, the fenced worker, the active PASS session |
| `SessionMigration` | the two formats of stored sessions, the migration, the revocation of all |
| `SyncSchedule` | due accounts, turns, cadence, postponement, pulses |
| `AuthThrottle` | `auth_protection.py` around a login |
| `Access` | logins by password, token and passkey; the access generation |
| `CalendarFeed`, `ConnectAdmission` | `calendar_feed.py` and the calendar half of `jobs.py` |
| `Leaderboard`, `Board` | participation of one account; ranks of a promotion |
| `Simulations` | scenarios of both kinds |
| `GradeImport` | `apply_pass_entries` |
| `AcademicResults` | averages, grades and GPA as four places compute them |
| `Learning` | progress, attempts and grants of one account |
| `KeyRotation`, `HpkeRotation`, `Keyset` | the two rotations; the directory of key files, file by file |
| `OperationalSequence` | the operator's check and apply, migration 0029, insertions |
| `Services`, `Accounts` | compositions: nine and ten smaller components side by side, with the properties of each under one name |
| `*Proofs` | theorems, section 6 |
| `MC*` | constants of the TLC instances; `MCCredentials` is `Credentials` alone |

`PROJECT.json` maps each definition to its lines. What is not obvious from the map:

**One handler, one action, where locks make it one.** `claim_job`, `finish_job`,
`reserve_sync_request`, `reserve_pass_operation` and `complete_pass_operation` lock the rows
they decide about, so each is one action with everything its transaction commits: `ClaimJob`
recovers every expired lease before it leases a row, and in `SyncRequests` the requests of
the jobs it dead-letters fail in the same step. `SKIP LOCKED` needs no action: a row that
another transaction holds is handled as if that one came first.

**Several actions, where they do not.** A handler that reads, waits and writes is split at
the wait: a synchronisation is `RenewLease`, `CheckStart`/`StartExecution`, `CommitSync` or
`FetchFails`, `CheckOutcome`/`RecordOutcome`, `FinishSync`. SQLAlchemy writes only the
columns whose value differs from the one it loaded, and a row lock does not refresh an
object already loaded. Components where that matters keep what a handler read apart from the
row (`seen`, `work[w].seen`, `tabs[t]`, `handling`) and write back the columns that differ:
`Credentials`, `Leaderboard`, `CalendarFeed`, `SyncSchedule`, `SessionMigration`. For the
processes in the constant `Torn` of `SyncRequests`, an unlocked check and its write are two
actions; for the others they are one.

**Time.** `DurableJobs`, `SyncRequests`, `PassGateway` and `Notifications` store what is
left until an instant, so that states repeat and liveness can be checked. `SyncSchedule`,
`AuthThrottle`, `Board`, `Learning` and `ConnectAdmission` have a bounded clock.
`CalendarFeed` has none: instants fall due at any moment, and a due instant is the token
that names its job.

**Identities.** `worker_id` is `secrets.token_hex`, drawn for each claim; the model uses the
number of the attempt, which no two claims of a row share. Envelopes, sessions, jars and
keys are serial numbers. Grades, pages and messages are members of small sets: a page is
what the code looks for in it, an address its origin.

**History variables.** `applied`, `arrived`, `withdrawn` (`out`), `late`, `born` and
`revocations`, `heard`, `passedOver`, `revoked`, `sealed`, `ordered`, `announced` and `told`
record the past for a property; no guard of the code's reads them. `latest` numbers the
snapshots of a session and bounds them.

**Arithmetic.** `AcademicResults` computes in whole hundredths; each place rounds its own
way, and a quotient of floats may round to either neighbour at a tie.

**Mutants.** An operator whose comment begins with "Mutant:" is a plausible slip of the code
(a dropped guard, a late check, a write of too much). No specification uses it;
`PROJECT.json` pairs each property with the mutant that breaks it.

## 3. Runs, bounds and what they show

Runs that pass, with the distinct states TLC visits:

| Run | Instance | States | Properties |
|---|---|---|---|
| `jobs` | 2 keys of different priority, 2 workers, 3 attempts | 46,857 | `TypeOK`, `ClaimsFenced`, `AttemptsBudget`, `LeaseRespected`, `ImplementsLifecycle`, `EveryJobEnds` |
| `sync` | 1 account, a request of the owner and a command's, 2 workers | 1,481,564 | `TypeOK`, `RecordsAgree`, `UsesQueue` |
| `sync_live` | 1 account, a scheduled request and a command's, 1 worker, checks parted from writes | 569,492 | `AppliedOnce`, `EveryRequestEnds` |
| `pass` | 2 callers, 2 targets, 2 rows, every kind of operation | 708,470 | `TypeOK`, `CoordinatorSound`, `BudgetKept`, `SeparatedInLease`, `RetryAfterKept`, `CircuitProbed` |
| `accounts` | ten components, one at a time | 1,331,562 | thirteen, below |
| `services` | nine components, one at a time | 1,713,696 | ten, below |

Runs in which the code disagrees with what is written about it (section 4):
`sync_late_commit`, `pass_forced`, `calendar_due`, `conflict_dropped`, `board_regained`,
`consent_undated`.

**jobs.** `LeaseRespected` is the fence: while the lease of a running job runs, only the
worker that holds its *current* claim moves it. It needs a worker that lost its lease and
comes back, hence leases (2 units) longer than the first backoff (1 unit) and two workers.
`AttemptsBudget` needs three attempts: the first retry, a retry after a lease that expired,
and the last one. `ImplementsLifecycle` is the refinement: each key follows `JobLifecycle`,
whichever rows one transaction moves together. `MaxRows = 2` lets a key be forgotten and
inserted again while a claim of the older row is still in memory.

**sync.** One account is enough: nothing in these files relates two accounts but the order
in which jobs are served. The owner's request and the operator's command are the origins
with different paths (a job at once, or only after `ensure_queued_sync_jobs`), and two
workers let a job be claimed again while its first worker runs. The administrator disables
and enables the account at any time. `RecordsAgree` relates the three records of one
synchronisation: a job that ended has ended its request, and an account's reservation names
a request of its own that still runs. It admits one case on purpose: `_renew_sync_request`
fails the request of a disabled account and leaves its reservation in place, which lapses
when `sync_active_until` passes. `UsesQueue` says that the composition takes only steps of
`DurableJobs!Spec`, so that what is proved of the queue holds inside it.

**sync_live** parts the unlocked checks from their writes (`Torn` = every process). Grades
are still committed at most once (the file lock protects them, not the rows), and every
queued request ends. `RecordsAgree` is *not* claimed there: with the gaps of
`sync.py:475-504` and `sync.py:584-620` open, a row that another process finished in between
is written again. The gaps are milliseconds wide.

**sync_late_commit** has three requests of the owner, none of them fenced: `Fenced` is the
set of requests whose fetch opens the stored IMT credential, which pass
`assert_autonomous_state_current` under row locks before they commit. Without the fence two
requests of an account come to hold leases at once; with `Fenced` = `Requests` the same
instance has no such state. Three requests are needed: one whose fetch outlives its lease,
one that owns the account when the first commits, one that enters beside it.

**pass.** A unit of time is a quiet period. The lease and the quiet period last 1 unit, so
that an operation outlives its lease; the "hour" is 2 units and the "day" 3, with quotas of
1, so that the budget refuses an operation the circuit would admit. Two callers, two targets
and two rows, with synchronisations, logins, forced probes and the administrators' bypass,
are what one late report needs; the safety properties are proved for any set of rows
(section 6), so no larger instance is kept for them. `SeparatedInLease` and
`RetryAfterKept` are what the code keeps of two sentences of `docs/manual-sync.md`, with the
exceptions spelled out: wrong credentials ask for no quiet period (`pass_gateway.py:519`,
although the document says 60 seconds between any two operations), and operations that
overlap, because a lease ran out or an administrator bypassed the circuit, let the last
report decide.

**accounts** and **services** explore many small components in two runs. The components of
one of these modules share no variable: `focus` is chosen in the initial state, the
component in focus takes every step its own `Next` allows, and the others stay in one
initial state. The reachable states are therefore the disjoint union of what a run of each
component alone would reach, and a property of one component holds trivially in the others'
part and is fully checked in its own. Sets of model values are shared between components
only so that one symmetry group serves them all.

| Property | Component and instance | What it says |
|---|---|---|
| `TypesOK` | all | types; in `CalendarFeed` and `ImtConversation` the types also pair columns |
| `CredentialsFenced` | `Credentials`: 1 worker, 1 tab, 2 enrolments, 3 sessions, 2 interventions | only a request of the owner dates a consent; what a worker brings back late neither commits nor harms the replacement, the enrolment or the session the owner opened meanwhile |
| `SessionsSound` | `SessionMigration`: 2 sessions (1 in the old format), 2 workers | a revoked session stays dead, the last jar is kept, one format per row |
| `TurnsFair` | `SyncSchedule`: 2 accounts, days of 4 units, weeks of 2 days | the next instant is the first of the business window; of two due accounts one is passed over once at most, and once more per crash of the scheduler before it noted whom it served |
| `PulseBringsForward` | same | a pulse never delays an account |
| `AttemptsBounded`, `BlocksRunOut` | `AuthThrottle`: 2 logins, 2 clients, 1 target, full tables of 1 row | within the window PASS answers a client at most the limit, plus once per login that was past its check; a client's block and the pause of a storm run to their end, full tables or not |
| `SpentOnce`, `LateLoginDead` | `Access`: 2 requests, 1 challenge, 2 moves of the generation | a challenge or a first import opens once; a login that checked its factor before all accesses were ended opens nothing that lives |
| `ConversationSound` | `ImtConversation`: 1 redirection, 13 requests | secrets reach their owners only, along any chain of pages; HUB's token is asked back unless the deadline or the budget cut it; every request is counted; notes once read are kept |
| `SequenceSound` | `OperationalSequence`: 2 writers, 2 operators, values to 3 | once an operator was told that the sequence is safe, no insertion collides; the sequence never goes back |
| `KeysetSafe` | `Keyset`: 2 operators, 3 generations | whichever file operation fails, the active key is there and no key in use is lost; a success leaves files and manifest in agreement, a failed validation leaves them as found |
| `ResultsSound` | `AcademicResults`: 2 courses, scores on both sides of 10.00, 2 notes; `Board`: 3 participants, 2 scores | the places that compute an average agree up to the rounding stated; ranks are dense and lost only after the grace |
| `OutboxHonest` | `Notifications`: 2 messages, 2 workers, 2 attempts | delivered means taken or unwanted; a message is sent at most once per attempt |
| `TagsDescribeEvents`, `StaysErased` | `CalendarFeed`: 1 link, 2 workers, 1 connection, 3 due instants | the digest and the `ETag` name the cached events; a removed calendar stays removed |
| `LimitsKept` | `ConnectAdmission`: 5 tries of 2 requests; `Learning`: 2 requests, every cap 1 | no limit is passed by overlapping requests |
| `ImportHonest` | `GradeImport`: 3 notes, 2 scores, 3 imports | a change is heard exactly when there is one; a note is announced once, or again after its purge |
| `BaselineOfficial`, `NoUnseenOverwrite` | `Simulations`: 2 scenarios, 1 UE, 2 tabs, 4 writes | a scenario that offers no rebase is compared with what is official; a tab changes a scenario only from its latest contents |
| `WithdrawnUnlisted` | `Leaderboard`: 2 tabs, 1 synchronisation | who left is not listed by what had started before |
| `SecretsOpen` | `KeyRotation`: 2 accounts, 2 keys; `HpkeRotation`: 2 envelopes, 3 generations | every stored secret has its key through both rotations, in the documented order of the commands |

Why small is enough here: each hazard takes at most two overlapping handlers and one
intervention (section 1 and `hazards` in `PROJECT.json`), a limit of 1 or 2 is reached, and
every counter that bounds an instance (`MaxRows`, `MaxPublications`, `MaxSnapshots`,
`MaxGenerations`, `MaxWrites`, `MaxImports`, `MaxEnrolments`, `MaxInterventions`,
`MaxEvents`, `MaxSteps`, `MaxClock`, `MaxTime`, `MaxHour`, ...) guards environment's or
owners' steps, or how many rows are inserted, never the code's own decisions. Comments in
the modules name each.

Symmetry is used in `sync`, `accounts` and `services`, which check no liveness property.
`CHECK_DEADLOCK FALSE` is set wherever the bounded instance really stops: with every row
finished and the bounds reached nothing is enabled.

## 4. Disagreements between the code and its documentation

Each is a run TLC ends with a counterexample.

1. `sync_late_commit` (`OneLeasePerAccount`). A PostgreSQL test is named
   `test_distinct_concurrent_requests_cannot_hold_the_same_account_lease`. A fetch without
   the stored credential that outlives its lease commits from the session's copy of the
   account: it clears the reservation of the request that owns the account now, and a third
   request gets in.
2. `pass_forced` (`PauseNeverShortened`). `docs/manual-sync.md:11` opens the circuit for the
   `Retry-After` of a 429. A forced probe that fails replaces what is left of it by 30
   minutes.
3. `calendar_due` (`DueNotSpent`). `docs/calendars.md:17` says the scheduler adds a job
   every hour. A calendar job that meets a disabled account, or a busy file lock, is
   acknowledged although its due instant did not move. The key of that instant is then spent
   for as long as its row is kept (7 days), and an account that is enabled again is not
   refreshed in the meantime.
4. `conflict_dropped` (`ConflictKept`). `docs/simulations.md:66` says a conflict is never
   resolved automatically. A rebase called for by another publication computes each row's
   status from this rebase alone, and so makes a row current that was in conflict.
5. `board_regained` (`RankEarned`). `docs/leaderboard.md:51` gives a participant 72 hours of
   grace before being stale. A later pulse restarts the grace, also of who had become stale:
   a rank comes back without a synchronisation.
6. `consent_undated` (`EnabledConsented`). `docs/automatic-sync.md:43` says the choice of an
   automatic mode and its date are recorded. Two requests of the owner that overlap each
   write the columns that differ from the copy they loaded: one disables the mode and clears
   the date, the other, which had read the date, enables the mode and leaves that column
   alone. The account is then shown as enabled, has no date, and is never due.

## 5. Fairness

- Time passes: weak fairness of `Tick`.
- A worker's loop polls again after each job (`run_worker`), and systemd restarts a process
  that died (`Restart=on-failure`, `RestartSec=3`): weak fairness of polling, claiming and
  finishing, for each worker. Weak fairness of a claim is enough, since a queued job stays
  claimable until some worker takes it or one of higher priority, and the keys are finitely
  many. (`MaxRows` also rules out an endless stream of urgent jobs, which would starve the
  others: priorities do not age in the code.)
- Calls to the outside end: requests to PASS have a timeout of 30 s each and a deadline per
  operation (`services/imt.py:226`), so a worker's step is fair. Its outcome is not: no
  handler is assumed ever to succeed, which is why `EveryJobEnds` says "succeeded or
  dead-lettered".
- The scheduler's cycle runs `ensure_queued_sync_jobs` every time: weak fairness of
  `EnsureQueuedJobs`.
- Reservations towards PASS keep being tried, by the scheduler while an account is due, and
  an operation that runs reports: weak fairness of `Refuse`, the part of a reservation that
  frees a dead operation and reopens the circuit, and of `Complete`.

Nothing is assumed of crashes, enqueueing, operators' commands, owners or administrators.
Crashes may recur for ever: a crash consumes an attempt of the job, so they do not keep it
from ending. The other components state no liveness: the calendar's is the one the code does
not satisfy (disagreement 3), the outbox inherits `EveryJobEnds` from the queue, and what an
owner, an operator or the school does next is not the code's to promise.

## 6. Proofs

Eight modules hold theorems, for every value of the constants. The theorem of each safety
property names the property that a run checks on a small instance. `SchoolProofs` and
`AccountsProofs`, which extends it, divide the components of `Accounts` between them.

| Module | Theorem | Property it states |
|---|---|---|
| `DurableJobsProofs` | `InductiveInvariant` | (`IInv`, from which the next four follow) |
| | `TypesHold`, `ClaimsStayFenced`, `BudgetExact` | `TypeOK`, `ClaimsFenced`, `AttemptsBudget` |
| | `LeasesRespected` | the action property `LeaseRespected` |
| | `Refinement` | `ImplementsLifecycle` |
| `SyncRequestsProofs` | `QueueUsed`, `QueueFenced` | `UsesQueue`; the queue's `TypeOK` and `ClaimsFenced` hold inside the composition |
| | `TypesHold`, `GradesAppliedOnce` | `TypeOK`, `AppliedOnce`, whatever is torn |
| | `RecordsStayAgreed` | `RecordsAgree`, when nothing is torn |
| `PassGatewayProofs` | `GatewayTypes`, `CoordinatorStaysSound` | `TypeOK`, `CoordinatorSound` |
| | `OperationsSeparated`, `RetryAfterHolds` | `SeparatedInLease`, `RetryAfterKept` |
| | `BudgetsKept` | `BudgetKept` |
| `ServicesProofs` | `TypesHold` | `TypesOK` of the nine components |
| | `TagsDescribe`, `RemovalHolds` | `TagsDescribeEvents`, `StaysErased` |
| | `OutboxKeepsWord` | `OutboxHonest` |
| | `SecretsStayOpen` | `SecretsOpen`, with `EnvelopesStayOpen` for its second half |
| | `LimitsHold` | `LimitsKept` |
| | `BaselinesOfficial`, `OverwritesSeen` | `BaselineOfficial`, `NoUnseenOverwrite` |
| | `ImportsHonest`, `WithdrawalHolds` | `ImportHonest`, `WithdrawnUnlisted` |
| `SchoolProofs` | `ScheduleTyped`, `BusinessTimeHolds` | `SyncSchedule`'s `TypeOK` and `BusinessTimeIsFirst`, the first half of `TurnsFair` |
| | `TurnsHold` | `TurnsFair`, of two accounts |
| | `PulsesHold` | `PulseBringsForward` |
| | `ResultsHold`, `BoardHolds` | `ResultsSound`; `Board!BoardSound`, the half of it about ranks and grace |
| | `ConversationHolds` | `ConversationSound` |
| `AccountsProofs` | `TypesHold` | `TypesOK` of the ten components |
| | `CredentialsHold` | `CredentialsFenced` |
| | `SessionsHold` | `SessionsSound` |
| | `AttemptsStayBounded`, `BlocksHold` | `AttemptsBounded`, `BlocksRunOut` |
| | `SpentHolds`, `LateLoginsDie` | `SpentOnce`, `LateLoginDead` |
| | `SequenceHolds` | `SequenceSound`, by `SequenceStaysSound` |
| | `KeysetHolds` | `KeysetSafe` |
| `OperationalSequenceProofs` | `SequenceStaysSound` | `SequenceSound` of that component alone |
| `HpkeRotationProofs` | `EnvelopesStayOpen` | `EnvelopesKept` of that component alone |

**Assumptions.** Each is a named `ASSUME` of the module that declares the constants, and TLC
evaluates it in that module's runs. `DurableJobs`: `MaxAttempts` is a positive number,
leases and backoffs are positive numbers, retentions, priorities and `MaxRows` are numbers,
`NoClaim` is not a claim. `SyncRequests`: an account and an origin per request, a cooldown
that is a number, commands and workers that differ, `NoRequest` is not a request, and the
queue's own assumptions (`QueueAssumption`). `PassGateway`: a positive lease, an hour that is
positive, no longer than the day and longer than the windows of the circuit breaker, pauses
that are numbers and have a largest one (`RetryAssumption`: the code caps `Retry-After`),
positive quotas and limits, a finite set of rows of which `NoOp` is not one. `CalendarFeed`: no
row and no contents are not among the rows and contents, `MaxPublications` is a number.
`SyncSchedule`: a window of the day that is not empty, at least one working day a week and at
most six off, which is as far as the eight moves of `next_business_time` reach
(`CalendarAssumption`); intervals that grow, and no two accounts of one rank in the order of
service (`ScheduleAssumption`). `Accounts` adds for the results that grades, coefficients and
credits are numbers, the last two not zero (`ResultsAssumption`), and for the board that the
places the participants sort to are distinct (`BoardAssumption`); `Services`, for the
scenarios, that each row belongs to one that is published when it is (`RowsAssumption`). For
the other components both assume what their arithmetic needs: finite sets where something is
counted, caps and windows that are numbers, positive limits, a shortest delay that is no
longer than the window, models of "nobody" and "absent" that are not members, bounds that are
numbers (`BoundsAssumption`). Four theorems have a hypothesis of their own: `Torn = {}` for
`RecordsStayAgreed`, two accounts at most (`TwoAccounts`) for `TurnsHold`, which is false of
three (section 9), `MaxValue \in Nat \ {0}` and `NoHolder \notin Operators` for
`SequenceStaysSound`, `MaxGenerations \in Nat \ {0}` and `Absent \notin Generations` for
`EnvelopesStayOpen`; the last four are assumed by `Accounts` and `Services`, which use these
two theorems.

**The queue.** `ClaimsFenced` is not inductive by itself: to see that a new claim differs
from the old ones, one must know that no old claim carries an attempt number as large as the
new one. So `IInv` says of every claim in memory that it is no younger than the row it names
(`ClaimOK`: an older row, or an attempt not above the row's), and of every row (`RowOK`)
that its holder is its latest attempt exactly while it runs and that its attempts fit its
status. One lemma per write says that it keeps a row well formed and what it does to id and
attempts; `ClaimsKept` says that a step that only moves rows in that way keeps the claims
well formed; `StepIInv` then has one case per action. `LeasesRespected` follows case by
case: a recovery cannot touch a row whose timer is positive, and a worker whose `worker_id`
matches holds the only current claim. `Refinement` shows that each key takes a step of
`JobLifecycle!KeyStep` or none, with `RowOK` ruling out retries after the last attempt.

**Requests over the queue.** `SyncRequests` uses the queue through `Queue == INSTANCE
DurableJobs`. `QueueUsed` shows that each of its actions is a step of the queue or leaves it
alone; with the assumptions carried over to the instance, every theorem about the queue's
specification then applies, and `QueueFenced` states the two that the rest rests on.
`GradesAppliedOnce` rests on `OnceInv`: of one account at most one process is between the
check and the commit, where it holds the file lock; the request it works on was not applied
yet; and an applied request has ended, so that who looks at it under the lock next does not
start it, whoever rewrote its row meanwhile. Steps that touch neither outcomes nor locks are
dispatched by one lemma (`QuietStep`). `RecordsStayAgreed` rests on `AgreeInv`, which adds
that a worker's claim and its work are taken and dropped together and that a request without
a row has no job: then only the worker that saw the request end, or a recovery that fails
it, ends the job. With a gap between check and write (`Torn`) it is false, which is why it
has the hypothesis.

**The coordinator.** `CoordinatorSound` (a row runs exactly while the state names it, a
probe is the operation that runs) is inductive with the types; two lemmas keep the judgement
of a report (`JudgedCoordinator`) apart from who runs. `OperationsSeparated` adds
`Separated`: no two callers hold one operation, nobody rests while one runs, and the quiet
period of the state covers the rest of every operation that neither reported late nor met
wrong credentials. `BudgetsKept` counts: the operations of a target inside a window, without
those an administrator let through, are a finite set that grows by one where the quota was
compared and shrinks as the window slides. `RetryAfterHolds` rests on `RetryFence`: unless
somebody reported late or bypassed the circuit, either nobody waits for a 429, or the circuit
is open, nobody runs, and the pause of the state is as long as every wait.

**The calendar.** `CalendarInv` says that a refresh past its fetch knows the contents and the
instant it read under the lock, and that of the links one was published last.
`TagsDescribeEvents` is then kept by each write, because digest, `ETag` and events are
written by one transaction of whoever still finds its row, and `RemovalHolds` because a
removed row is not found.

**The schedule.** `next_business_time` is a recursive function of the moves that are left.
`MovesDefined` turns it into eight functions, each defined by the next; `OneMoveMore` and
`SevenMoves` follow the openings of the days off, and `NextIsFirst` says that the result is
the first instant of the window from the candidate on, whatever the window. `ScheduleInv` is
then the types, that an execution works from a row, and that whoever is picked has not been
passed over since. `TurnsHold` adds `TurnsInv`: an account was passed over once for each crash
of the scheduler, and once more only if the other one is the last served or is picked and not
noted yet. It needs that the order of service (lateness in proportion to the interval, then
age, then rank) has a first element among the due accounts (`FirstComes`, from `BeforeCarries`,
which compares fractions by their products), and that this element is not the one served last
while others are due (`TurnTaken`). `PulsesHold` goes action by action: a step that changes
the row of an account and ends nothing of its own is a pulse, which keeps the earlier date.

**The board.** The code sorts the rows and walks along them; `Sortable` shows that a finite set
with distinct places can be sorted, `SortedCovers` that the sequence has each row once, and
`OneRowMore` that the number of scores grows by one at the rows where the walk adds one to the
rank, so that the rank of a row counts the scores down to it (`DenseCounts`). `BoardInv` has
the order of two dates, told before recommended before now, from which the grace follows.

**The results.** The averages of four places are folds over finite sets. `SumsExist` gives, for
every finite set and every assignment of numbers, the function that sums them over the parts of
the set, one chosen element at a time; `PartByPart` is the induction over these parts, from the
least number that has no counterexample. Each fold of the model is shown to be such a total,
and what is said of totals (they are between bounds, equal when the numbers are) carries over.
`Divided`, `RoundedOnce`, `NearestIs`, `RoundedEven` are the arithmetic of the four roundings.
`PlacesAgree` puts them together; the invariant is the types alone.

**Compositions.** `Services` and `Accounts` let one component step and the others stutter.
For each component a lemma `XAlone` shows that the behaviours of the composition are
behaviours of that component, so that its theorem is proved about the component's own
`Init`, `Next` and invariant.

- *Outbox* (`OutboxInv`): the deliveries of a message and the workers that may still send it
  together are no more than the attempts its row has spent, over all the rows its key has
  had; a row is "succeeded", and a worker is past its delivery, only when the message arrived
  or was withdrawn.
- *Secrets* (`SecretsInv`): every row is sealed with a readable key; a running command holds
  copies sealed with the write key, and how far it has come bounds what it has seen; a
  command that reported an idle run leaves rows of the write key only, which is what allows
  the old key to be dropped.
- *Connections and learning* (`AdmissionInv`, `LearningInv`): who was admitted holds the lock
  and its try still fits the window; a request that has counted holds the lock, and its
  counts are true until it writes, so that the rows stay within every cap.
- *Simulations* (`SimulationInv`): the versions of a scenario grow and its identifier is used
  once, so that a tab whose version is current shows the rows it would overwrite; the
  baseline is what was official at the source's revision.
- *Grades, leaderboard* (`GradesInv`, `BoardInv`): the rows of the notes say what the last
  export said; a request that does not join never writes a participation it did not read,
  and after a withdrawal nobody has one to write back.
- *Sessions* (`SessionsInv`): a row is absent, revoked, or sealed in one format with the last
  jar; every snapshot is of a jar no later than it.
- *Throttle* (`ThrottleInv`): for each client, the answers of the window and the logins in
  flight together stay under the limit plus the number of logins. A login that is in flight
  was counted when it was let through, which is the bound the code has in place of the one
  its configuration names.
- *Access* (`AccessInv`): a request that was let through before the last revocation carries a
  generation that is over, a session says which factor opened it, and a challenge is in the
  table, in one request's hands or spent.
- *Credentials* (`CredentialsFenced`, action by action): what an SSO brought back is written
  by `CommitSso` only, which compares the envelope, the enrolment and the session it had read.
- *The conversation* (`ImtInv`): at each stage (`StageFit`) which cookies and tokens the
  client can hold, what may be on the wire (`WireFit`) and who can have heard it
  (`HeardFit`), and how many requests are counted and reported (`CountsFit`). Fifteen
  requests times the answers a server may give are one case each; none of the cases needs
  more than the stage.
- *The keys* (`KeysetInv`): a step fails anywhere and undoes what was done from memory, so
  the invariant speaks of the hand that works. The manifest found and the one wanted both
  name an active generation whose files the command does not touch, and every kept key has
  such a file (`CommandFit`); on the way forward the check is the last step and the wanted
  manifest is in place or still to come (`ForwardFit`); after a failed check, whatever
  differs from what was found is still to be put back (`BackwardFit`); the lock on the
  directory keeps every other hand out.
- *Types*: the types of a composition are those of the component the focus is on. Some need
  more than types to be kept, because a bound of the model counts something else: `AccessTypes`
  that every revocation moved the generation, `ThrottleTypes` that no row has more failures
  than there were attempts, `ImtTypes` that the request over the budget is counted and not
  sent, so that the count stops one past `MaxRequests`, `CredentialTypes` that an envelope is
  kept exactly while the credential is active, `GradeTypes` that a note is announced once an
  import at most, `SimulationTypes` that a scenario has no more versions than there were
  writes, `BoardTypes` that the joins committed and under way were asked for; the others are
  parts of the invariants above (`CalendarInv`, `OutboxInv`, `KeptInv`, `SequenceInv`, ...).

**The sequence.** `SequenceInv` follows the locks: a command between its lock and its end is
the one that holds (`ExclusiveHeld`), and then no insertion is in flight (`WritersOut`);
numbers in flight come from the sequence (`FromSequence`); what a command saw of the
sequence is not ahead of it (`SeenBehind`); and once somebody was told the sequence is safe
it lies past every row and every number in flight. That the highest row of a finite table is
found is the lemma `HighestIsLargest`, by well-founded induction on numbers.

**The envelopes.** `KeptInv` adds to `EnvelopesKept` that the newest key and the one the
service seals with are kept, that a row which a run has locked and read as one of the source
is still active, and that an inventory once found empty stays empty until the next
generation is prepared (`InventoryHolds`): the service has been restarted with the new key
before the count, as the procedure orders, so nothing is sealed with the old one any more.

**What the proofs found.** `CredentialsFenced` used to say that an enabled account has a
dated consent. Its proof did not close: two requests of the owner that overlap each write
only the columns that differ from their copy. TLC then showed the behaviour with two tabs
(disagreement 6 of section 4), and the property now says what does hold, that no step but a
request of the owner dates a consent.

**Only model-checked.** Liveness: `EveryJobEnds`, `EveryRequestEnds`, `CircuitProbed`. The
prover handles neither fairness nor `ENABLED`. Every other property of a passing run is stated
by a theorem, `RecordsAgree` and `TurnsFair` under the hypotheses above. That TLC's values of
the recursive function and of the folds are those of the code is what the runs on small
instances show; the theorems start from their definitions.

## 7. What is abstracted, and what it costs

- **Contents.** Grades, pages, messages, scenarios and events are members of small sets.
  What the parsers make of a text is their tests' business; `ImtConversation` takes every
  outcome they can have.
- **Statements of one transaction.** A handler is one step where its row locks justify it.
  The exceptions are opened where they matter (section 2); those of `_existing_reservation`,
  `_dead_letter_sync_request` and `_recover_expired_requests` stay atomic, and so do the
  saves of the calendar, whose `DELETE` and flush are one step: two saves within the same
  milliseconds may leave events of both, or meet the unique key on `source_key` and be
  rolled back.
- **Lock waits and deadlocks of PostgreSQL.** `_renew_sync_request` locks the request, then
  the account; `reserve_sync_request` the account, then requests. PostgreSQL aborts one of
  the two; the model has the abort (`RenewFails`) but not the wait.
- **Batch sizes.** Limits of 100 rows per recovery or repair are not reached in the
  instances; those of the rotations are (`Limits`, `Batches`).
- **Gateway.** Counters of denials are left out, `PASS_AUTOMATIC_PRIORITY` may refuse at any
  time, and an operation is one report: its conversation is `ImtConversation`.
- **Composition.** `SyncRequests` is composed with the queue. `Credentials`, `GradeImport`,
  `Leaderboard` and `Notifications` model what a commit does to their own rows and take the
  moment of the commit from the environment; `Fenced` stands for `Credentials` in
  `SyncRequests`.
- **Cryptography.** A key opens what was sealed with it and nothing else.

## 8. Not modelled

- **Training calendar**: a constant table of the school year and read-only routes.
- **Views of the operation** (administration pages, `operations.py`): read-only counters.
- **Frontend**: renders and polls the API; the backend depends on none of its state. Its
  tabs are in the models as requests that overlap.
- **Deployment and tooling**: unit files, migrations (but 0029), release scripts: one-shot
  commands of an operator who watches them.
- **Parsers** (iCalendar, PASS pages, imported files) and the **PDF report**: functions over
  text without state.
- **Inside modelled components**: cookies, CSRF, expiry dates and the administrators' second
  factor (`Access`); the bucket in memory of `login_rate_limits.py` (before `AuthThrottle`);
  uniqueness of a calendar link across accounts; identity, filters and classification of
  boards; the signed learning catalogue, loaded once, and the byte ranges of its assets; the
  rotation of the pepper and `url_digest`; heartbeats and signals; the pruning of an
  account's oldest requests.

## 9. Observations

Behaviours met while modelling against which nothing is written, or that the models leave
out:

- `docs/manual-sync.md:35` calls `succeeded`, `failed` and `skipped` final; a worker that
  meets an operator's command at the file lock fails the command's request, which the
  command then turns into a success.
- A disabled account keeps its reservation after its request was refused, until it lapses.
- A late synchronisation or a reconciliation may write `score_ects_basis` back after the
  owner's erasure; a join that races an erasure is lost without an error.
- The pause of an account is cleared by a success (`auto_sync_paused_reason = None`)
  whatever it says then, also a `reauth_required` written meanwhile; the reconciliation may
  write a stale `credential_invalid`.
- `reconnect_pass` and the owner's file store a session on an account disabled a moment
  before.
- `imt.py:687` and the profile page raise `ImtAuthenticationError` for a lost PASS session
  even after CAS took the password, so `pass_gateway.py:1015` invalidates the stored
  credential, while `docs/security/imt-sync-credential-lifecycle.md:114` says only a
  definitive refusal does.
- A deadline or an exhausted request budget can leave HUB's token not handed back.
- Two accounts that stay due can starve a third one: `PassedOverOnce` is a property of two.
  A stale copy lets `update_adaptive_cadence` overwrite a new interval.
- `revoke_all_service_sessions` reads without locks: a row migrated meanwhile breaks a
  constraint and fails the whole revocation, and it pauses accounts whose session was
  renewed meanwhile.
- `delete_passkey` moves tokens that were stale to the current generation.
- The rebase of the GPA simulation ignores the limit of 120 rows.
- `PUT` of the progress with `opened_hint_ids` overwrites the hints another tab opened;
  `MAX_LEARNING_ACCESS_GRANTS` cannot be reached with one audience.
- A secret replaced between the read and the commit of a batch of `keys-reencrypt` is
  overwritten by the older one (`key_rotation.py:147`; `docs/data-and-usage.md:20` does not
  mention it).
- `retire-generation` trusts the operator's `--referenced-envelopes`, whose default is 0.
- In the keyset, a failed `fsync` after the rename in `prepare_rotation` leaves the new
  manifest while its files are deleted; an interrupted write makes `_verify_manifest` refuse
  everything until it is cleaned by hand. Both fail closed.
  `docs/security/hpke-operational-rotation.md` says `provision` creates `v1`; the code
  creates `v2`.
- A receipt of the sequence command says "none" when an inspection fails after `setval` was
  executed (`operational_sequence_reconciliation_v1.py:429-437`).
- A scenario of notes grades the exact mean and shows the rounded one, takes the resit last
  detected where the dashboard takes the one last updated, and makes a coefficient below
  0.005 equal to 1.
- A stale participant who leaves and joins again has a rank; a recommendation committed
  during a synchronisation may be cleared by it.
- If INPASS sends `Last-Modified` without `ETag`, a refresh overtaken by a connection to
  another link can leave the older link's contents behind an honest 304.

## 10. Plan

Built: the queue and its life cycle, the requests over it, the gateway, the outbox, the
calendar, then the components of the accounts (`Credentials`, `Access`, `AuthThrottle`,
`SyncSchedule`, `SessionMigration`, `ImtConversation`), those around the synchronisation
(`GradeImport`, `Simulations`, `Leaderboard`, `Learning`, `Board`, `AcademicResults`), the
operator's protocols (`KeyRotation`, `HpkeRotation`, `Keyset`, `OperationalSequence`), and
the proofs of section 6.

Next, in order of what a mistake would cost:

1. `Credentials` composed with `SyncRequests`, so that `Fenced` is derived and not given.
2. The two statements of a calendar save, with PostgreSQL's snapshots.
3. `login_rate_limits.py` before `AuthThrottle`, and the rotation of the pepper.
4. A bound on the turns of three accounts and more, if the selection of the scheduler is
   changed to give one (section 9).
