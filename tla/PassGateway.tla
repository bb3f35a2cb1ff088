----------------------------- MODULE PassGateway -----------------------------
(***************************************************************************)
(* The global coordinator of backend/app/services/pass_gateway.py: every   *)
(* operation against PASS, a login or a synchronisation, is admitted by    *)
(* reserve_pass_operation and reported by complete_pass_operation.  Both   *)
(* run under FOR UPDATE on the one row of pass_system_state, so each is    *)
(* one action.  Between them the caller talks to PASS: it may take longer  *)
(* than the lease of the operation, or die.                                *)
(*                                                                         *)
(* Instants are kept as the time left until them, those of past operations *)
(* as their age.  last_auto_account_id, which only orders the scheduler's  *)
(* accounts, and the denials, which only count, are left out.              *)
(***************************************************************************)
EXTENDS Naturals, FiniteSets

CONSTANTS
  Callers,          \* threads that perform PASS operations
  Targets,          \* target_ref: an account, or the client of a login
  Ops,              \* bound: rows of pass_operations kept at a time
  NoOp,
  Kinds,            \* bound: the kinds of operation tried
  OpLease,          \* pass_operation_lease_seconds
  QuietPeriod,      \* pass_quiet_period_seconds
  HourWindow, HourQuota, DayWindow, DayQuota,
  RetryAfters,      \* pauses of a 429: its Retry-After, capped, or the default
  ForbiddenWindow, ForbiddenTargets, ForbiddenPause,    \* repeated 403
  FailureWindow, FailureLimit, InstabilityPause,        \* repeated failures
  ProbePause                                            \* a failed probe

(* login: registration, imt_login, sync-credential-enroll; sync: manual and *)
(* automatic; bypass: an administrator with a reason; forced: the probe an  *)
(* administrator forces.                                                    *)
AllKinds == {"login", "sync", "bypass", "forced"}

ASSUME CallersAssumption == Kinds \subseteq AllKinds
ASSUME OpsAssumption     == IsFiniteSet(Ops) /\ NoOp \notin Ops
ASSUME TimesAssumption   == /\ OpLease \in Nat \ {0} /\ QuietPeriod \in Nat
                            /\ HourWindow \in Nat \ {0} /\ DayWindow \in Nat
                            /\ HourWindow <= DayWindow
                            /\ ForbiddenWindow \in 0..(HourWindow - 1)
                            /\ FailureWindow \in 0..(HourWindow - 1)
                            /\ RetryAfters \subseteq Nat \ {0}
                            /\ ForbiddenPause \in Nat /\ ProbePause \in Nat
                            /\ InstabilityPause \in [0..3 -> Nat]
ASSUME RetryAssumption   == \E cap \in RetryAfters : \A n \in RetryAfters : n <= cap
ASSUME LimitsAssumption  == /\ HourQuota \in Nat \ {0} /\ DayQuota \in Nat \ {0}
                            /\ ForbiddenTargets \in Nat \ {0}
                            /\ FailureLimit \in Nat \ {0}

VARIABLES
  op,      \* op[i]: a row of pass_operations
  state,   \* the row of pass_system_state
  held     \* held[c]: the PassOperationLease caller c works under, in memory

vars == <<op, state, held>>

(* authentication: wrong credentials; throttled, forbidden: PASS answered  *)
(* 429, 403; unstable: network and other upstream errors; local: ours.     *)
Errors   == {"authentication", "throttled", "forbidden", "unstable", "local"}
Statuses == {"absent", "running", "interrupted", "succeeded", "failed"}

Longest(S) == CHOOSE n \in S : \A m \in S : m <= n
Pauses     == RetryAfters \cup {ForbiddenPause, ProbePause, 0}
                \cup {InstabilityPause[n] : n \in 0..3}
Rests      == {QuietPeriod, 0}

(* age: time since started_at, DayWindow once it no longer counts.  rest   *)
(* and wait: time left of the quiet period after completed_at, and of the  *)
(* retry_after_seconds of a 429.  late: the operation was interrupted when *)
(* it reported, a history.                                                 *)
Op == [status: Statuses, target: Targets \cup {NoOp}, error: Errors \cup {"none"},
       probe: BOOLEAN, bypassed: BOOLEAN, late: BOOLEAN, age: 0..DayWindow,
       rest: 0..Longest(Rests), wait: 0..Longest(Pauses)]

State == [active: Ops \cup {NoOp}, lease: 0..OpLease, quiet: 0..Longest(Rests),
          circuit: {"closed", "open", "half_open"}, until: 0..Longest(Pauses),
          probe: Ops \cup {NoOp}, failures: 0..3]

NoRow == [status |-> "absent", target |-> NoOp, error |-> "none", probe |-> FALSE,
          bypassed |-> FALSE, late |-> FALSE, age |-> 0, rest |-> 0, wait |-> 0]

Init ==
  /\ op = [i \in Ops |-> NoRow]
  /\ state = [active |-> NoOp, lease |-> 0, quiet |-> 0, circuit |-> "closed",
              until |-> 0, probe |-> NoOp, failures |-> 0]
  /\ held = [c \in Callers |-> NoOp]

-----------------------------------------------------------------------------
(* reserve_pass_operation, step by step. *)

Overdue == state.active # NoOp /\ state.lease = 0

(* An operation whose lease expired is interrupted. *)
Interrupted == [i \in Ops |-> IF Overdue /\ i = state.active /\ op[i].status = "running"
                              THEN [op[i] EXCEPT !.status = "interrupted"] ELSE op[i]]

(* An operator whose comment opens with "Mutant:" is a slip the properties *)
(* below must notice; no definition of the specification uses it.          *)

(* Mutant: an operation is never taken for lost. *)
NeverFreed == state

Freed == IF Overdue THEN [state EXCEPT !.active = NoOp, !.probe = NoOp] ELSE state

Available(s) == s.active = NoOp /\ s.quiet = 0

(* Mutant: the pause of an open circuit is not compared. *)
ReopenedEarly(s) == IF Available(s) /\ s.circuit = "open"
                    THEN [s EXCEPT !.circuit = "half_open", !.probe = NoOp] ELSE s

(* A circuit whose pause elapsed turns half-open, unless the reservation   *)
(* was refused before.                                                     *)
Reopened(s) == IF Available(s) /\ s.circuit = "open" /\ s.until = 0
               THEN [s EXCEPT !.circuit = "half_open", !.probe = NoOp] ELSE s

CircuitAdmits(s, kind) ==
  \/ kind = "forced"
  \/ s.circuit = "closed"
  \/ s.circuit = "half_open" /\ s.probe = NoOp /\ kind # "login"

Counted(target, window) ==
  {i \in Ops : op[i].status # "absent" /\ op[i].target = target /\ op[i].age < window}

(* Mutant: one operation too many. *)
WithinQuotaLoose(target) == /\ Cardinality(Counted(target, HourWindow)) <= HourQuota
                            /\ Cardinality(Counted(target, DayWindow)) <= DayQuota

WithinQuota(target) == /\ Cardinality(Counted(target, HourWindow)) < HourQuota
                       /\ Cardinality(Counted(target, DayWindow)) < DayQuota

(* The operation is admitted as row i.  PASS_AUTOMATIC_PRIORITY may refuse *)
(* a login or an owner's synchronisation at any time: see Refuse.          *)
Admit(c, i, target, kind) ==
  LET s == Reopened(Freed)
      isProbe == kind = "forced" \/ s.circuit = "half_open"
  IN  /\ held[c] = NoOp
      /\ op[i].status = "absent"
      /\ Available(s)
      /\ CircuitAdmits(s, kind)
      /\ WithinQuota(target) \/ kind \in {"bypass", "forced"}
      /\ op' = [Interrupted EXCEPT ![i] =
                  [NoRow EXCEPT !.status = "running", !.target = target,
                                !.probe = isProbe,
                                !.bypassed = kind \in {"bypass", "forced"}]]
      /\ state' = [s EXCEPT !.active = i, !.lease = OpLease,
                            !.circuit = IF isProbe THEN "half_open" ELSE @,
                            !.probe = IF isProbe THEN i ELSE @]
      /\ held' = [held EXCEPT ![c] = i]

(* A refused reservation commits what it changed before the refusal. *)
Refuse ==
  /\ op' = Interrupted
  /\ state' = Reopened(Freed)
  /\ <<op', state'>> # <<op, state>>
  /\ UNCHANGED held

-----------------------------------------------------------------------------
(* complete_pass_operation, step by step. *)

(* Its row is written whatever became of the lease meanwhile. *)
Recorded(i, error, pause) ==
  [op EXCEPT ![i].status = IF error = "none" THEN "succeeded" ELSE "failed",
             ![i].error = error, ![i].late = op[i].status = "interrupted",
             ![i].rest = QuietPeriod, ![i].wait = pause]

(* Mutant: any report frees the coordinator. *)
LeftByAnyone(i, error) ==
  [state EXCEPT !.active = NoOp, !.lease = 0, !.quiet = QuietPeriod, !.probe = NoOp]

(* Mutant: only a success asks for a rest. *)
LeftRestless(i, error) ==
  [state EXCEPT
     !.active = IF @ = i THEN NoOp ELSE @,
     !.lease  = IF state.active = i THEN 0 ELSE @,
     !.quiet  = IF state.active = i /\ error = "none" THEN QuietPeriod ELSE @,
     !.probe  = IF @ = i THEN NoOp ELSE @]

(* The coordinator is freed only by the operation that holds it; an        *)
(* authentication error asks for no rest.                                  *)
Left(i, error) ==
  [state EXCEPT
     !.active = IF @ = i THEN NoOp ELSE @,
     !.lease  = IF state.active = i THEN 0 ELSE @,
     !.quiet  = IF state.active # i THEN @
                ELSE IF error = "authentication" THEN 0 ELSE QuietPeriod,
     !.probe  = IF @ = i THEN NoOp ELSE @]

(* _open_circuit. *)
Opened(s, pause) ==
  [s EXCEPT !.circuit = "open", !.until = pause, !.probe = NoOp,
            !.failures = IF @ < 3 THEN @ + 1 ELSE 3]

Closed(s) == [s EXCEPT !.circuit = "closed", !.until = 0, !.failures = 0]

ForbiddenSeen(rows) ==
  {rows[i].target : i \in {k \in Ops : rows[k].error = "forbidden"
                                       /\ rows[k].age <= ForbiddenWindow}}

FailuresSeen(rows) ==
  {i \in Ops : /\ rows[i].status = "failed"
               /\ rows[i].error \in {"throttled", "forbidden", "unstable"}
               /\ rows[i].age <= FailureWindow}

(* What the outcome does to the circuit. *)
Judged(s, rows, error, pause) ==
  CASE error = "none"      -> Closed(s)
    [] error = "throttled" -> Opened(s, pause)
    [] /\ error = "forbidden"
       /\ Cardinality(ForbiddenSeen(rows)) >= ForbiddenTargets
                           -> Opened(s, ForbiddenPause)
    [] /\ error = "unstable"
       /\ Cardinality(FailuresSeen(rows)) >= FailureLimit
                           -> Opened(s, InstabilityPause[s.failures])
    [] OTHER               -> s

(* A failed probe leaves the circuit open. *)
ProbeJudged(s, probe, error) ==
  IF probe /\ error # "none" /\ s.circuit # "open" THEN Opened(s, ProbePause) ELSE s

Complete(c, error, pause) ==
  LET i == held[c]
      rows == Recorded(i, error, pause)
  IN  /\ i # NoOp
      /\ op' = rows
      /\ state' = ProbeJudged(Judged(Left(i, error), rows, error, pause),
                              op[i].probe, error)
      /\ held' = [held EXCEPT ![c] = NoOp]

(* The caller dies, or fails outside the calls that report the outcome. *)
Abandon(c) ==
  /\ held[c] # NoOp
  /\ held' = [held EXCEPT ![c] = NoOp]
  /\ UNCHANGED <<op, state>>

(* cleanup_operational_data: old rows go; the retention of 30 days outlasts *)
(* every window, lease and pause, so they count for nothing any more.      *)
CleanupOps ==
  LET old == {i \in Ops : op[i].age = DayWindow /\ op[i].rest = 0
                          /\ i # state.active /\ \A c \in Callers : held[c] # i}
  IN  /\ old # {}
      /\ \A i \in Ops : op[i].wait = 0
      /\ op' = [i \in Ops |-> IF i \in old THEN NoRow ELSE op[i]]
      /\ UNCHANGED <<state, held>>

(* Mutant: the age of a row is not bounded by the windows. *)
OlderForever(row) == IF row.status = "absent" THEN row ELSE [row EXCEPT !.age = @ + 1]

Less(n) == IF n > 0 THEN n - 1 ELSE 0

Older(row) == IF row.status = "absent" THEN row
              ELSE [row EXCEPT !.age = IF @ < DayWindow THEN @ + 1 ELSE @,
                               !.rest = Less(@), !.wait = Less(@)]

Tick ==
  /\ op' = [i \in Ops |-> Older(op[i])]
  /\ state' = [state EXCEPT !.lease = Less(@), !.quiet = Less(@), !.until = Less(@)]
  /\ <<op', state'>> # <<op, state>>
  /\ UNCHANGED held

Outcomes == ((Errors \ {"throttled"}) \cup {"none"}) \X {0}
              \cup {"throttled"} \X RetryAfters

Next ==
  \/ \E c \in Callers, i \in Ops, t \in Targets, k \in Kinds : Admit(c, i, t, k)
  \/ Refuse
  \/ \E c \in Callers, o \in Outcomes : Complete(c, o[1], o[2])
  \/ \E c \in Callers : Abandon(c)
  \/ CleanupOps
  \/ Tick

Spec == Init /\ [][Next]_vars

(* Time passes, old rows are cleaned, and reservations keep being tried    *)
(* (the scheduler tries one a minute while an account is due).             *)
FairSpec ==
  /\ Spec
  /\ WF_vars(Tick)
  /\ WF_vars(Refuse)
  /\ \A c \in Callers : WF_vars(\E o \in Outcomes : Complete(c, o[1], o[2]))

-----------------------------------------------------------------------------
(* Types of the rows, the coordinator and the leases in memory. *)
TypeOK ==
  /\ op \in [Ops -> Op]
  /\ state \in State
  /\ held \in [Callers -> Ops \cup {NoOp}]

(* The row of an operation says "running" only while the operation holds   *)
(* the coordinator: a late report of another one neither frees it nor      *)
(* brings an interrupted operation back.                                   *)
RunningIsActive ==
  \A i \in Ops : op[i].status = "running" <=> state.active = i

(* A half-open circuit never waits for a probe nobody runs: the recorded   *)
(* probe is the operation that holds the coordinator.                      *)
ProbeIsActive ==
  state.probe # NoOp => /\ state.probe = state.active
                        /\ op[state.probe].probe

(* The coordinator and the rows of the operations agree.                   *)
CoordinatorSound == RunningIsActive /\ ProbeIsActive

(* The budgets of a target over both sliding windows hold for every        *)
(* operation that did not bypass them.                                     *)
BudgetKept ==
  \A t \in Targets :
    LET spent(window) == {i \in Counted(t, window) : ~op[i].bypassed}
    IN  /\ Cardinality(spent(HourWindow)) <= HourQuota
        /\ Cardinality(spent(DayWindow)) <= DayQuota

Admitted(i) == op[i].status = "absent" /\ op'[i].status = "running"

(* docs/manual-sync.md: one operation at a time for the whole instance,    *)
(* separated by the quiet period.  An operation starts alone, but for      *)
(* callers whose lease ran out, and after the quiet period of every other  *)
(* one, but those that met wrong credentials or reported too late.         *)
SeparatedInLease ==
  [][\A i \in Ops : Admitted(i) =>
       /\ \A c \in Callers : held[c] # NoOp => op'[held[c]].status = "interrupted"
       /\ \A k \in Ops : op[k].rest > 0 => op[k].late \/ op[k].error = "authentication"]_vars

(* A 429 keeps every operation out for its Retry-After, unless operations  *)
(* overlapped: one reported after its lease ran out, or an administrator's *)
(* bypassed the circuit.  Whichever of them reports last then closes the   *)
(* circuit or opens it for a pause of its own.                             *)
RetryAfterKept ==
  [][\A i \in Ops : Admitted(i) /\ ~op'[i].bypassed =>
       \/ \A k \in Ops : op[k].wait = 0
       \/ \E k \in Ops : op[k].late \/ op[k].bypassed]_vars

(* docs/manual-sync.md: a 429 opens the circuit for its Retry-After; a     *)
(* later failure does not shorten the pause of an open circuit.            *)
PauseNeverShortened ==
  [][state.circuit # "closed" /\ state'.circuit = "open" =>
       state'.until >= Less(state.until)]_vars

(* An open circuit is probed in the end, and a probe, dead or alive, does  *)
(* not keep the others out for ever.                                       *)
CircuitProbed ==
  /\ state.circuit = "open" ~> state.circuit # "open"
  /\ \A i \in Ops : state.probe = i ~> state.probe # i
=============================================================================
