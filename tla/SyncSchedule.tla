---------------------------- MODULE SyncSchedule ----------------------------
(***************************************************************************)
(* The automatic schedule: when an account is due (sync_schedule.py), which *)
(* due account the scheduler serves (sync_due_accounts), what an execution *)
(* leaves of the cadence, and the pulse by which one account's new grades  *)
(* bring its cohort forward (cohort_pulse.py).                             *)
(*                                                                         *)
(* Time is counted in slots of an account's own wall clock; the accounts   *)
(* share a time zone and a cohort.  An execution works from the copy of    *)
(* the row it read when it started and writes back only the columns that   *)
(* differ from that copy, whatever the row has become.                     *)
(***************************************************************************)
EXTENDS Naturals, FiniteSets, Sequences

CONSTANTS
    Accounts,
    Nobody, Unset,     \* no account; a date that is NULL
    Rank,              \* Rank[a]: the order of created_at, then id
    Day, Open, Close,  \* slots of a day; those of the business window
    Week, Workdays,    \* days of a week; the first ones are worked
    Intervals,         \* AUTO_SYNC_INTERVALS, in slots, increasing
    RetryAfter,        \* how far a refusal by the gateway may ask to wait
    PulseCooldown, Jitters,
    MaxClock, MaxEvents     \* bounds: the clock, the owners' actions and crashes

(* BUSINESS_START, BUSINESS_END and BUSINESS_WEEKDAYS of sync_schedule.py:  *)
(* the eight moves of next_business_time reach over the days off.          *)
ASSUME CalendarAssumption ==
    /\ Day \in Nat /\ Open \in Nat /\ Close \in Nat
    /\ Open < Close /\ Close <= Day
    /\ Week \in Nat /\ Workdays \in Nat
    /\ 0 < Workdays /\ Workdays <= Week /\ Week - Workdays <= 6

ASSUME ScheduleAssumption ==
    /\ IsFiniteSet(Accounts) /\ Nobody \notin Accounts /\ Unset \notin Nat
    /\ Intervals \in Seq(Nat \ {0}) /\ Intervals # <<>>
    /\ \A i, j \in DOMAIN Intervals : i < j => Intervals[i] < Intervals[j]
    /\ RetryAfter \in Nat /\ PulseCooldown \in Nat /\ Jitters \subseteq Nat
    /\ MaxClock \in Nat /\ MaxEvents \in Nat
    /\ Rank \in [Accounts -> Nat]
    /\ \A a, b \in Accounts : Rank[a] = Rank[b] => a = b

VARIABLES
    clock,
    row,         \* the columns of each account's schedule
    request,     \* its active synchronisation request
    lastServed,  \* pass_system_state.last_auto_account_id
    picked,      \* the account whose reservation the scheduler has not noted
    pulseAt,     \* cohort_pulse.last_emitted_at
    changes, crashes,  \* the owners' actions, crashes of the scheduler so far
    passedOver   \* times others were picked while this account was due, in a row

scheduleVars == <<clock, row, request, lastServed, picked, pulseAt, changes, crashes, passedOver>>

Horizon == MaxClock + Week * Day + RetryAfter + Intervals[Len(Intervals)]
Instant == 0 .. Horizon
Steps == {Intervals[i] : i \in DOMAIN Intervals}

Row == [enabled : BOOLEAN, paused : BOOLEAN, adaptive : BOOLEAN, interval : Steps,
        current : Steps, streak : 0 .. 2, nextAt : Instant \cup {Unset},
        lastSync : Instant \cup {Unset}]
NoRequest == [phase |-> "none"]

TypeOK ==
    /\ clock \in 0 .. MaxClock
    /\ row \in [Accounts -> Row]
    /\ \A a \in Accounts : request[a].phase \in {"none", "queued", "running"}
    /\ lastServed \in Accounts \cup {Nobody} /\ picked \in Accounts \cup {Nobody}
    /\ pulseAt \in 0 .. MaxClock \cup {Unset}
    /\ changes \in 0 .. MaxEvents /\ crashes \in 0 .. MaxEvents
    /\ passedOver \in [Accounts -> Nat]

Init ==
    /\ clock = 0
    /\ row = [a \in Accounts |->
                [enabled |-> TRUE, paused |-> FALSE, adaptive |-> TRUE,
                 interval |-> Intervals[1], current |-> Intervals[1], streak |-> 0,
                 nextAt |-> Unset, lastSync |-> Unset]]
    /\ request = [a \in Accounts |-> NoRequest]
    /\ lastServed = Nobody /\ picked = Nobody
    /\ pulseAt = Unset
    /\ changes = 0 /\ crashes = 0
    /\ passedOver = [a \in Accounts |-> 0]

-----------------------------------------------------------------------------
(* sync_schedule.py.                                                       *)

Worked(t) == (t \div Day) % Week < Workdays
InWindow(t) == Worked(t) /\ t % Day >= Open /\ t % Day < Close
NextOpening(t) == (t \div Day + 1) * Day + Open

\* Mutant: the closing slot still counts as open.
NextBusinessTimeLate(candidate) ==
    LET from[i \in 0 .. 8] == [t \in Nat |->
          IF i = 0 THEN t
          ELSE IF ~Worked(t) THEN from[i - 1][NextOpening(t)]
          ELSE IF t % Day < Open THEN (t \div Day) * Day + Open
          ELSE IF t % Day > Close THEN from[i - 1][NextOpening(t)]
          ELSE t]
    IN from[8][candidate]

\* next_business_time: at most eight moves to the next opening.
NextBusinessTime(candidate) ==
    LET from[i \in 0 .. 8] == [t \in Nat |->
          IF i = 0 THEN t
          ELSE IF ~Worked(t) THEN from[i - 1][NextOpening(t)]
          ELSE IF t % Day < Open THEN (t \div Day) * Day + Open
          ELSE IF t % Day >= Close THEN from[i - 1][NextOpening(t)]
          ELSE t]
    IN from[8][candidate]

Later(s, t) == IF s < t THEN t ELSE s
Interval(r) == IF r.adaptive THEN r.current ELSE r.interval

\* next_auto_sync_at, of an account that may be synchronised.
NextAutoSyncAt(r, t) ==
    NextBusinessTime(
        IF r.nextAt # Unset THEN r.nextAt
        ELSE IF r.lastSync = Unset THEN t
        ELSE IF InWindow(t) THEN r.lastSync + Interval(r)
        ELSE Later(t, r.lastSync + Interval(r)))

IsDue(a) ==
    /\ row[a].enabled /\ ~row[a].paused
    /\ InWindow(clock)
    /\ NextAutoSyncAt(row[a], clock) <= clock

Lateness(a) == clock - NextAutoSyncAt(row[a], clock)

\* a is proportionally later than b; equal lateness goes by age.
Before(a, b) ==
    LET left == Lateness(a) * Interval(row[b])
        right == Lateness(b) * Interval(row[a])
    IN left > right \/ (left = right /\ Rank[a] < Rank[b])

\* update_adaptive_cadence, for an execution asked by "actor".
Wider(interval) ==
    LET i == CHOOSE k \in DOMAIN Intervals : Intervals[k] = interval
    IN Intervals[IF i < Len(Intervals) THEN i + 1 ELSE i]

Cadence(r, changed, actor) ==
    LET kept == IF ~r.adaptive \/ changed THEN [r EXCEPT !.current = r.interval, !.streak = 0]
                ELSE IF actor # "automatic" THEN r
                ELSE IF r.streak = 2 THEN [r EXCEPT !.current = Wider(@), !.streak = 0]
                ELSE [r EXCEPT !.streak = @ + 1]
    IN [kept EXCEPT !.nextAt = NextBusinessTime(clock + Interval(kept)), !.lastSync = clock,
                    !.paused = FALSE]

\* defer_automatic_sync, after a failure: a fraction of the interval.
Deferred(r, candidate) == [r EXCEPT !.nextAt = NextBusinessTime(candidate)]

-----------------------------------------------------------------------------
(* sync_due_accounts: one account a tick.                                  *)

Due == {a \in Accounts : IsDue(a)}
First(S) == CHOOSE a \in S : \A b \in S \ {a} : Before(a, b)

\* Mutant: the account served last keeps its place at the head.
TurnToLatest(due) == First(due)

\* The latest account, unless others wait and it was served last.
Turn(due) ==
    IF Cardinality(due) > 1 /\ First(due) = lastServed THEN First(due \ {lastServed}) ELSE First(due)

\* The scheduler picks an account and reserves a request for it, unless one
\* is active already.
Pick ==
    /\ picked = Nobody /\ Due # {}
    /\ LET a == Turn(Due) IN
          /\ picked' = a
          /\ request' = IF request[a].phase = "none"
                        THEN [request EXCEPT ![a] = [phase |-> "queued", actor |-> "automatic"]]
                        ELSE request
          /\ passedOver' = [b \in Accounts |->
                IF b = a \/ b \notin Due THEN 0 ELSE passedOver[b] + 1]
    /\ UNCHANGED <<clock, row, lastServed, pulseAt, changes, crashes>>

\* The finally block of the pick.
Note ==
    /\ picked # Nobody
    /\ lastServed' = picked /\ picked' = Nobody
    /\ UNCHANGED <<clock, row, request, pulseAt, changes, crashes, passedOver>>

SchedulerCrash ==
    /\ picked # Nobody /\ changes + crashes < MaxEvents
    /\ picked' = Nobody /\ crashes' = crashes + 1
    /\ UNCHANGED <<clock, row, request, lastServed, pulseAt, changes, passedOver>>

-----------------------------------------------------------------------------
(* execute_sync_request, as far as the schedule is concerned.              *)

Ask(a) ==
    /\ request[a].phase = "none" /\ changes + crashes < MaxEvents /\ changes' = changes + 1
    /\ request' = [request EXCEPT ![a] = [phase |-> "queued", actor |-> "owner"]]
    /\ UNCHANGED <<clock, row, lastServed, picked, pulseAt, crashes, passedOver>>

\* The worker starts, with a copy of the row; an automatic request that is no
\* longer due is skipped.
Start(a) ==
    /\ request[a].phase = "queued"
    /\ request' = [request EXCEPT ![a] =
          IF @.actor = "automatic" /\ ~IsDue(a) THEN NoRequest
          ELSE [phase |-> "running", actor |-> @.actor, copy |-> row[a]]]
    /\ UNCHANGED <<clock, row, lastServed, picked, pulseAt, changes, crashes, passedOver>>

\* Columns of "new" that differ from the copy are written over the row.
Over(old, copy, new) ==
    [column \in DOMAIN old |-> IF new[column] = copy[column] THEN old[column] ELSE new[column]]

\* Mutant: the pulse moves every account of the cohort to now.
PulsedAtOnce(r, jitter) ==
    [r EXCEPT !.current = r.interval, !.streak = 0, !.nextAt = NextBusinessTime(clock)]

\* emit_cohort_pulse, on another account of the cohort.
Pulsed(r, jitter) ==
    LET candidate == NextBusinessTime(clock + jitter)
    IN [r EXCEPT !.current = r.interval, !.streak = 0,
                 !.nextAt = IF @ # Unset /\ @ < candidate THEN @ ELSE candidate]

Pulses(changed) == changed /\ (pulseAt = Unset \/ pulseAt + PulseCooldown <= clock)
Follows(r) == r.enabled /\ ~r.paused /\ r.adaptive

\* The grades are committed.
Succeed(a, changed) ==
    /\ request[a].phase = "running"
    /\ \E jitter \in [Accounts \ {a} -> Jitters] :
          /\ \A b \in Accounts \ {a} : jitter[b] <= row[b].interval
          /\ row' = [b \in Accounts |->
                CASE b = a -> Over(row[a], request[a].copy,
                                   Cadence(request[a].copy, changed, request[a].actor))
                  [] b # a /\ Pulses(changed) /\ Follows(row[b]) -> Pulsed(row[b], jitter[b])
                  [] OTHER -> row[b]]
    /\ pulseAt' = IF Pulses(changed) THEN clock ELSE pulseAt
    /\ request' = [request EXCEPT ![a] = NoRequest]
    /\ UNCHANGED <<clock, lastServed, picked, changes, crashes, passedOver>>

\* _record_sync_failure: an unusable session pauses the schedule.
Fail(a, session) ==
    /\ request[a].phase = "running"
    /\ row' = [row EXCEPT ![a] =
          LET failed == [@ EXCEPT !.lastSync = clock]
          IN IF session THEN [failed EXCEPT !.paused = TRUE, !.nextAt = Unset]
             ELSE IF request[a].actor = "automatic"
                  THEN Deferred(failed, clock + (Interval(@) + 3) \div 4)
             ELSE failed]
    /\ request' = [request EXCEPT ![a] = NoRequest]
    /\ UNCHANGED <<clock, lastServed, picked, pulseAt, changes, crashes, passedOver>>

\* _record_sync_deferred: the gateway asks to come back later.
Defer(a) ==
    /\ request[a].phase = "running"
    /\ \E wait \in 1 .. RetryAfter :
          row' = [row EXCEPT ![a] = IF request[a].actor = "automatic"
                                    THEN Deferred(@, clock + wait) ELSE @]
    /\ request' = [request EXCEPT ![a] = NoRequest]
    /\ UNCHANGED <<clock, lastServed, picked, pulseAt, changes, crashes, passedOver>>

\* set_sync_mode: the owner's choice starts the cadence afresh.
Prefer(a, enabled, adaptive, interval) ==
    /\ changes + crashes < MaxEvents /\ changes' = changes + 1
    /\ row' = [row EXCEPT ![a] =
          [@ EXCEPT !.enabled = enabled, !.adaptive = adaptive, !.interval = interval,
                    !.current = interval, !.streak = 0, !.nextAt = Unset, !.paused = FALSE]]
    /\ UNCHANGED <<clock, request, lastServed, picked, pulseAt, crashes, passedOver>>

\* Time passes; an account that stops being due waits for nobody.
Tick ==
    /\ clock < MaxClock /\ clock' = clock + 1
    /\ UNCHANGED <<row, request, lastServed, picked, pulseAt, changes, crashes, passedOver>>

Next ==
    \/ Pick \/ Note \/ SchedulerCrash \/ Tick
    \/ \E a \in Accounts : Ask(a) \/ Start(a) \/ Defer(a)
    \/ \E a \in Accounts, b \in BOOLEAN : Succeed(a, b) \/ Fail(a, b)
    \/ \E a \in Accounts, e, d \in BOOLEAN, i \in Steps : Prefer(a, e, d, i)

ScheduleSpec == Init /\ [][Next]_scheduleVars

-----------------------------------------------------------------------------

(* next_business_time gives the first instant of the business window that  *)
(* is not before the candidate, over week-ends too, and never gives up.    *)
BusinessTimeIsFirst ==
    \A t \in {clock} \cup {row[a].nextAt : a \in {b \in Accounts : row[b].nextAt # Unset}} :
       LET next == NextBusinessTime(t)
       IN InWindow(next) /\ next >= t /\ \A u \in t .. next : InWindow(u) => u = next

(* While several accounts wait, the one served last cannot take the place  *)
(* of another: of two accounts, a due one is passed over once at most, and *)
(* once more for each time the scheduler died before noting whom it served. *)
PassedOverOnce ==
    \A a \in Accounts : passedOver[a] <= 1 + crashes

(* New grades of an account bring the others forward, dispersed; they      *)
(* never make an account wait longer than it would have.                   *)
PulseBringsForward ==
    [][\A a \in Accounts :
         row'[a] # row[a] /\ request'[a] = request[a] /\ changes' = changes
            /\ row[a].nextAt # Unset
         => row'[a].nextAt <= row[a].nextAt]_scheduleVars
=============================================================================
