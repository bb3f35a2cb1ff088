-------------------------- MODULE PassGatewayProofs --------------------------
(***************************************************************************)
(* What holds of PassGateway for every number of callers, targets and      *)
(* operations, every quota, window, lease and pause: the coordinator's row *)
(* and the rows of the operations agree, whoever dies or reports late.     *)
(***************************************************************************)
EXTENDS PassGateway, FiniteSetTheorems, TLAPS

(* The types that matter here: the bounds of the timers do not.            *)
Row == [status: Statuses, target: Targets \cup {NoOp}, error: Errors \cup {"none"},
        probe: BOOLEAN, bypassed: BOOLEAN, late: BOOLEAN, age: Nat, rest: Nat, wait: Nat]

Coordinator == [active: Ops \cup {NoOp}, lease: Nat, quiet: Nat,
                circuit: {"closed", "open", "half_open"}, until: Nat,
                probe: Ops \cup {NoOp}, failures: 0..3]

(* The inductive invariant. *)
IInv ==
  /\ op \in [Ops -> Row]
  /\ state \in Coordinator
  /\ held \in [Callers -> Ops \cup {NoOp}]
  /\ CoordinatorSound

(* The circuit is opened and closed without regard to who runs: neither    *)
(* takes the coordinator, and the only probe they know is none.            *)
LEMMA JudgedCoordinator ==
  ASSUME NEW s \in Coordinator, NEW rows, NEW error, NEW pause \in Nat, NEW probe \in BOOLEAN
  PROVE  LET judged == ProbeJudged(Judged(s, rows, error, pause), probe, error)
         IN  /\ judged \in Coordinator
             /\ judged.active = s.active
             /\ judged.quiet = s.quiet
             /\ judged.probe \in {s.probe, NoOp}
<1>1. ASSUME NEW t \in Coordinator, NEW p \in Nat
      PROVE  /\ Opened(t, p) \in Coordinator
             /\ Opened(t, p).active = t.active
             /\ Opened(t, p).quiet = t.quiet
             /\ Opened(t, p).probe = NoOp
  <2>1. (IF t.failures < 3 THEN t.failures + 1 ELSE 3) \in 0..3
    BY DEF Coordinator
  <2>2. QED
    BY <2>1 DEF Opened, Coordinator
<1>2. /\ Closed(s) \in Coordinator
      /\ Closed(s).active = s.active
      /\ Closed(s).quiet = s.quiet
      /\ Closed(s).probe = s.probe
  <2>1. 0 \in 0..3 /\ 0 \in Nat
    OBVIOUS
  <2>2. QED
    BY <2>1 DEF Closed, Coordinator
<1>3. ForbiddenPause \in Nat /\ ProbePause \in Nat /\ InstabilityPause[s.failures] \in Nat
  BY TimesAssumption DEF Coordinator
<1> DEFINE verdict == Judged(s, rows, error, pause)
<1>4. verdict \in {s, Closed(s), Opened(s, pause), Opened(s, ForbiddenPause),
                   Opened(s, InstabilityPause[s.failures])}
  BY DEF Judged
<1>5. /\ verdict \in Coordinator
      /\ verdict.active = s.active
      /\ verdict.quiet = s.quiet
      /\ verdict.probe \in {s.probe, NoOp}
  <2>1. CASE verdict = s
    BY <2>1
  <2>2. CASE verdict = Closed(s)
    BY <1>2, <2>2
  <2>3. ASSUME NEW p \in Nat, verdict = Opened(s, p)
        PROVE  /\ verdict \in Coordinator
               /\ verdict.active = s.active
               /\ verdict.quiet = s.quiet
               /\ verdict.probe = NoOp
    BY <1>1, <2>3
  <2>4. QED
    BY <1>3, <1>4, <2>1, <2>2, <2>3
<1>6. QED
  BY <1>1, <1>3, <1>5 DEF ProbeJudged

\* Every step of the gateway keeps the inductive invariant.
LEMMA StepIInv == IInv /\ [Next]_vars => IInv'
<1> SUFFICES ASSUME IInv, [Next]_vars
             PROVE  IInv'
  OBVIOUS
<1>t. /\ op \in [Ops -> Row] /\ state \in Coordinator
      /\ held \in [Callers -> Ops \cup {NoOp}]
      /\ \A i \in Ops : op[i].status = "running" <=> state.active = i
      /\ NoOp \notin Ops
  BY OpsAssumption DEF IInv, CoordinatorSound, RunningIsActive
<1>p. /\ state.probe # NoOp => state.probe = state.active
      /\ state.probe # NoOp => op[state.probe].probe = TRUE
  <2>1. state.probe # NoOp => op[state.probe].probe \in BOOLEAN
    BY <1>t DEF Row, Coordinator
  <2>2. QED
    BY <2>1, Zenon DEF IInv, CoordinatorSound, ProbeIsActive
<1>n. 0 \in Nat /\ QuietPeriod \in Nat /\ OpLease \in Nat /\ \A n \in Nat : Less(n) \in Nat
  BY TimesAssumption DEF Less
(* What every reservation does first: the lost operation is interrupted    *)
(* and lets the coordinator go.                                            *)
<1>f. /\ Interrupted \in [Ops -> Row]
      /\ Reopened(Freed) \in Coordinator
      /\ Reopened(Freed).active = Freed.active
      /\ \A i \in Ops : /\ Interrupted[i].status = "running" <=> Freed.active = i
                        /\ Interrupted[i].probe = op[i].probe
      /\ Freed.active \in {state.active, NoOp}
      /\ Reopened(Freed).probe # NoOp => /\ Reopened(Freed).probe = Freed.active
                                         /\ Interrupted[Freed.active].probe = TRUE
  <2>1. \A i \in Ops : /\ [op[i] EXCEPT !.status = "interrupted"] \in Row
                       /\ [op[i] EXCEPT !.status = "interrupted"].status = "interrupted"
                       /\ [op[i] EXCEPT !.status = "interrupted"].probe = op[i].probe
    BY <1>t DEF Row, Statuses
  <2>2. /\ Freed \in Coordinator
        /\ Overdue => Freed.active = NoOp /\ Freed.probe = NoOp
        /\ ~Overdue => Freed = state
    BY <1>t DEF Freed, Coordinator
  <2>3. /\ Reopened(Freed) \in Coordinator
        /\ Reopened(Freed).active = Freed.active
        /\ Reopened(Freed).probe \in {Freed.probe, NoOp}
    BY <2>2 DEF Reopened, Coordinator
  <2>4. /\ Interrupted \in [Ops -> Row]
        /\ \A i \in Ops : Interrupted[i].probe = op[i].probe
    BY <1>t, <2>1 DEF Interrupted
  <2>5. \A i \in Ops : Interrupted[i].status = "running" <=> Freed.active = i
    BY <1>t, <2>1, <2>2 DEF Interrupted, Overdue
  <2>6. Reopened(Freed).probe # NoOp => /\ Reopened(Freed).probe = Freed.active
                                        /\ Interrupted[Freed.active].probe = TRUE
    <3> SUFFICES ASSUME Reopened(Freed).probe # NoOp
                 PROVE  /\ Reopened(Freed).probe = Freed.active
                        /\ Interrupted[Freed.active].probe = TRUE
      OBVIOUS
    <3>1. Freed = state /\ Reopened(Freed).probe = state.probe
      BY <2>2, <2>3
    <3>2. state.probe = state.active /\ op[state.probe].probe = TRUE /\ state.active \in Ops
      BY <1>p, <1>t, <3>1 DEF Coordinator
    <3>3. QED
      BY <2>4, <3>1, <3>2
  <2>7. Freed.active \in {state.active, NoOp}
    BY <2>2
  <2>8. QED
    BY <2>3, <2>4, <2>5, <2>6, <2>7
<1>1. CASE UNCHANGED vars
  BY <1>1 DEF vars, IInv, CoordinatorSound, RunningIsActive, ProbeIsActive
<1>2. ASSUME NEW c \in Callers, NEW i \in Ops, NEW target \in Targets, NEW kind \in Kinds,
             Admit(c, i, target, kind)
      PROVE  IInv'
  <2> DEFINE s == Reopened(Freed)
             isProbe == kind = "forced" \/ s.circuit = "half_open"
             row == [NoRow EXCEPT !.status = "running", !.target = target,
                                  !.probe = isProbe,
                                  !.bypassed = kind \in {"bypass", "forced"}]
  <2>1. /\ op' = [Interrupted EXCEPT ![i] = row]
        /\ state' = [s EXCEPT !.active = i, !.lease = OpLease,
                              !.circuit = IF isProbe THEN "half_open" ELSE @,
                              !.probe = IF isProbe THEN i ELSE @]
        /\ held' = [held EXCEPT ![c] = i]
        /\ Freed.active = NoOp
    BY <1>2, <1>f DEF Admit, Available
  <2>2. NoRow \in Row
    BY DEF NoRow, Row, Statuses
  <2>3. row \in Row /\ row.status = "running" /\ row.probe = isProbe
    <3>1. isProbe \in BOOLEAN /\ (kind \in {"bypass", "forced"}) \in BOOLEAN /\ "running" \in Statuses
      BY DEF Statuses
    <3>2. [NoRow EXCEPT !.status = "running"] \in Row
      BY <2>2, <3>1 DEF Row
    <3>3. [[NoRow EXCEPT !.status = "running"] EXCEPT !.target = target] \in Row
      BY <3>2 DEF Row
    <3>4. QED
      BY <2>2, <3>1, <3>2, <3>3 DEF Row
  <2>4. s.probe = NoOp
    BY <1>f, <2>1
  <2>5. /\ state' \in Coordinator
        /\ state'.active = i
        /\ state'.probe = IF isProbe THEN i ELSE NoOp
    BY <1>n, <1>f, <2>1, <2>4 DEF Coordinator
  <2>6. /\ op' \in [Ops -> Row] /\ op'[i] = row
        /\ \A k \in Ops \ {i} : op'[k] = Interrupted[k]
        /\ held' \in [Callers -> Ops \cup {NoOp}]
    BY <1>t, <1>f, <2>1, <2>3
  <2>7. RunningIsActive'
    BY <1>t, <1>f, <2>1, <2>3, <2>5, <2>6 DEF RunningIsActive
  <2>8. ProbeIsActive'
    BY <2>3, <2>5, <2>6 DEF ProbeIsActive
  <2>9. QED
    BY <2>5, <2>6, <2>7, <2>8 DEF IInv, CoordinatorSound
<1>3. CASE Refuse
  <2>1. op' = Interrupted /\ state' = Reopened(Freed) /\ held' = held
    BY <1>3 DEF Refuse
  <2>2. RunningIsActive'
    BY <1>f, <2>1 DEF RunningIsActive
  <2>3. ProbeIsActive'
    BY <1>f, <2>1 DEF ProbeIsActive
  <2>4. QED
    BY <1>t, <1>f, <2>1, <2>2, <2>3 DEF IInv, CoordinatorSound
<1>4. ASSUME NEW c \in Callers, NEW o \in Outcomes, Complete(c, o[1], o[2])
      PROVE  IInv'
  <2> DEFINE i == held[c]
             rows == Recorded(held[c], o[1], o[2])
             left == Left(held[c], o[1])
  <2>1. /\ i \in Ops /\ op' = rows
        /\ state' = ProbeJudged(Judged(left, rows, o[1], o[2]), op[i].probe, o[1])
        /\ held' = [held EXCEPT ![c] = NoOp]
    BY <1>4, <1>t DEF Complete
  <2>2. o[1] \in Errors \cup {"none"} /\ o[2] \in Nat
    <3>1. CASE o \in ((Errors \ {"throttled"}) \cup {"none"}) \X {0}
      BY <3>1
    <3>2. CASE o \in {"throttled"} \X RetryAfters
      <4>1. o[1] = "throttled" /\ o[2] \in RetryAfters
        BY <3>2
      <4>2. QED
        BY <4>1, TimesAssumption DEF Errors
    <3>3. QED
      BY <3>1, <3>2 DEF Outcomes
  <2>3. /\ rows \in [Ops -> Row]
        /\ rows[i].status # "running"
        /\ \A k \in Ops \ {i} : rows[k] = op[k]
    <3> DEFINE status == IF o[1] = "none" THEN "succeeded" ELSE "failed"
               row == [[[[[op[i] EXCEPT !.status = status] EXCEPT !.error = o[1]]
                          EXCEPT !.late = op[i].status = "interrupted"]
                          EXCEPT !.rest = QuietPeriod] EXCEPT !.wait = o[2]]
    <3>1. rows = [op EXCEPT ![i] = row]
      BY <1>t, <2>1 DEF Recorded
    <3>a. /\ status \in Statuses /\ status # "running"
          /\ (op[i].status = "interrupted") \in BOOLEAN
      BY DEF Statuses
    <3>b. op[i] \in Row
      BY <1>t, <2>1
    <3>2. row \in Row /\ row.status = status
      <4> HIDE DEF status, i
      <4>1. QED
        BY <1>n, <2>2, <3>a, <3>b DEF Row
    <3>3. QED
      BY <1>t, <2>1, <3>1, <3>2
  <2>4. /\ left \in Coordinator
        /\ left.active = IF state.active = i THEN NoOp ELSE state.active
        /\ left.probe = IF state.probe = i THEN NoOp ELSE state.probe
    BY <1>t, <1>n DEF Left, Coordinator
  <2>5. op[i].probe \in BOOLEAN
    BY <1>t, <2>1 DEF Row
  <2>6. /\ state' \in Coordinator
        /\ state'.active = left.active
        /\ state'.probe \in {left.probe, NoOp}
    BY <2>1, <2>2, <2>4, <2>5, JudgedCoordinator
  <2>7. RunningIsActive'
    BY <1>t, <2>1, <2>3, <2>4, <2>6 DEF RunningIsActive
  <2>8. ProbeIsActive'
    <3> SUFFICES ASSUME state'.probe # NoOp
                 PROVE  state'.probe = state'.active /\ op'[state'.probe].probe
      BY DEF ProbeIsActive
    <3>1. /\ state'.probe = state.probe /\ state.probe # NoOp /\ state.probe # i
          /\ state.probe \in Ops
      BY <1>t, <2>4, <2>6 DEF Coordinator
    <3>2. state'.active = state.probe
      BY <1>p, <2>4, <2>6, <3>1
    <3>3. op'[state.probe] = op[state.probe]
      BY <2>1, <2>3, <3>1
    <3>4. op'[state'.probe].probe = TRUE
      BY <1>p, <3>1, <3>3
    <3>5. QED
      BY <3>1, <3>2, <3>4
  <2>9. held' \in [Callers -> Ops \cup {NoOp}]
    BY <1>t, <2>1
  <2>10. QED
    BY <2>1, <2>3, <2>6, <2>7, <2>8, <2>9 DEF IInv, CoordinatorSound
<1>5. ASSUME NEW c \in Callers, Abandon(c)
      PROVE  IInv'
  BY <1>5, <1>t DEF Abandon, IInv, CoordinatorSound, RunningIsActive, ProbeIsActive
<1>6. CASE CleanupOps
  <2>1. /\ UNCHANGED <<state, held>>
        /\ op' = [i \in Ops |-> op'[i]]
        /\ \A i \in Ops : op'[i] = op[i] \/ (op'[i] = NoRow /\ i # state.active)
    BY <1>6 DEF CleanupOps
  <2>2. NoRow \in Row /\ NoRow.status = "absent"
    BY DEF NoRow, Row, Statuses
  <2>3. op' \in [Ops -> Row]
    BY <1>t, <2>1, <2>2
  <2>a. RunningIsActive'
    BY <1>t, <2>1, <2>2 DEF RunningIsActive
  <2>b. state.probe # NoOp => state.probe \in Ops /\ op'[state.probe] = op[state.probe]
    BY <1>t, <1>p, <2>1 DEF Coordinator
  <2>4. RunningIsActive' /\ ProbeIsActive'
    BY <1>p, <2>1, <2>a, <2>b DEF ProbeIsActive
  <2>5. QED
    BY <1>t, <2>1, <2>3, <2>4 DEF IInv, CoordinatorSound
<1>7. CASE Tick
  <2>1. \A row \in Row : /\ Older(row) \in Row
                         /\ Older(row).status = row.status
                         /\ Older(row).probe = row.probe
    <3> TAKE row \in Row
    <3>1. (IF row.age < DayWindow THEN row.age + 1 ELSE row.age) \in Nat
      BY DEF Row
    <3>2. Less(row.rest) \in Nat /\ Less(row.wait) \in Nat
      BY <1>n DEF Row
    <3>3. QED
      BY <3>1, <3>2 DEF Older, Row
  <2>2. /\ state' \in Coordinator
        /\ state'.active = state.active
        /\ state'.probe = state.probe
    BY <1>7, <1>t, <1>n DEF Tick, Coordinator
  <2>3. /\ op' \in [Ops -> Row] /\ held' = held
        /\ \A i \in Ops : op'[i] = Older(op[i])
    BY <1>7, <1>t, <2>1 DEF Tick
  <2>a. RunningIsActive'
    BY <1>t, <2>1, <2>2, <2>3 DEF RunningIsActive
  <2>b. state.probe # NoOp => op'[state.probe].probe = op[state.probe].probe
    BY <1>t, <2>1, <2>3 DEF Coordinator
  <2>4. RunningIsActive' /\ ProbeIsActive'
    BY <1>p, <2>2, <2>a, <2>b DEF ProbeIsActive
  <2>5. QED
    BY <1>t, <2>2, <2>3, <2>4 DEF IInv, CoordinatorSound
<1>8. QED
  BY <1>1, <1>2, <1>3, <1>4, <1>5, <1>6, <1>7 DEF Next

(* One operation runs at a time for the whole instance, and a late report, *)
(* an interruption or a death never leaves a row running that does not     *)
(* hold the coordinator, nor the circuit waiting for a probe nobody runs.  *)
THEOREM CoordinatorStaysSound == Spec => []CoordinatorSound
<1>1. Init => IInv
  BY OpsAssumption DEF Init, IInv, CoordinatorSound, RunningIsActive, ProbeIsActive, NoRow,
     Row, Coordinator, Statuses
<1>2. IInv /\ [Next]_vars => IInv'
  BY StepIInv
<1>3. IInv => CoordinatorSound
  BY DEF IInv
<1>4. QED
  BY <1>1, <1>2, <1>3, PTL DEF Spec

-----------------------------------------------------------------------------
(* How operations are separated.  A caller's operation is running or was   *)
(* interrupted; nobody rests while an operation runs; and the quiet period *)
(* of the coordinator covers the rest of every operation but those that    *)
(* reported late or met wrong credentials.                                 *)
Separated ==
  /\ \A k \in Ops : op[k].status = "absent" => op[k].rest = 0
  /\ \A c \in Callers : held[c] # NoOp => op[held[c]].status \in {"running", "interrupted"}
  /\ \A c, d \in Callers : held[c] # NoOp /\ held[c] = held[d] => c = d
  /\ state.active # NoOp => state.quiet = 0
  /\ \A k \in Ops : \/ op[k].late = TRUE
                    \/ op[k].error = "authentication"
                    \/ op[k].rest <= state.quiet

\* Every step keeps operations apart, one action after the other.
LEMMA StepSeparated == IInv /\ Separated /\ [Next]_vars => Separated'
<1> SUFFICES ASSUME IInv, Separated, [Next]_vars
             PROVE  Separated'
  OBVIOUS
<1>t. /\ op \in [Ops -> Row] /\ state \in Coordinator
      /\ held \in [Callers -> Ops \cup {NoOp}]
      /\ \A i \in Ops : op[i].status = "running" <=> state.active = i
      /\ NoOp \notin Ops
  BY OpsAssumption DEF IInv, CoordinatorSound, RunningIsActive
<1>r. \A k \in Ops : op[k].rest \in Nat /\ state.quiet \in Nat
  BY <1>t DEF Row, Coordinator
<1>n. 0 \in Nat /\ QuietPeriod \in Nat
  BY TimesAssumption
<1>f. /\ Reopened(Freed).quiet = state.quiet
      /\ Reopened(Freed).active \in {state.active, NoOp}
      /\ \A i \in Ops : /\ Interrupted[i].status \in {op[i].status, "interrupted"}
                        /\ Interrupted[i].status = "absent" => op[i].status = "absent"
                        /\ Interrupted[i].late = op[i].late
                        /\ Interrupted[i].error = op[i].error
                        /\ Interrupted[i].rest = op[i].rest
  <2>1. Freed \in Coordinator /\ Freed.quiet = state.quiet /\ Freed.active \in {state.active, NoOp}
    BY <1>t DEF Freed, Coordinator
  <2>2. Reopened(Freed).quiet = Freed.quiet /\ Reopened(Freed).active = Freed.active
    BY <2>1 DEF Reopened, Coordinator
  <2>3. \A row \in Row : /\ [row EXCEPT !.status = "interrupted"].status = "interrupted"
                         /\ [row EXCEPT !.status = "interrupted"].late = row.late
                         /\ [row EXCEPT !.status = "interrupted"].error = row.error
                         /\ [row EXCEPT !.status = "interrupted"].rest = row.rest
    BY DEF Row
  <2>4. QED
    BY <1>t, <2>1, <2>2, <2>3 DEF Interrupted
<1>1. CASE UNCHANGED vars
  BY <1>1 DEF vars, Separated
<1>2. ASSUME NEW c \in Callers, NEW i \in Ops, NEW target \in Targets, NEW kind \in Kinds,
             Admit(c, i, target, kind)
      PROVE  Separated'
  <2> DEFINE s == Reopened(Freed)
             isProbe == kind = "forced" \/ s.circuit = "half_open"
             row == [NoRow EXCEPT !.status = "running", !.target = target,
                                  !.probe = isProbe,
                                  !.bypassed = kind \in {"bypass", "forced"}]
  <2>1. /\ op' = [Interrupted EXCEPT ![i] = row]
        /\ state' = [s EXCEPT !.active = i, !.lease = OpLease,
                              !.circuit = IF isProbe THEN "half_open" ELSE @,
                              !.probe = IF isProbe THEN i ELSE @]
        /\ held' = [held EXCEPT ![c] = i]
        /\ s.quiet = 0 /\ op[i].status = "absent"
    BY <1>2 DEF Admit, Available
  <2>2. row.status = "running" /\ row.rest = 0
    BY DEF NoRow
  <2>3. state'.quiet = s.quiet
    BY <1>t, <2>1 DEF Freed, Reopened, Coordinator
  <2>4. op'[i] = row /\ \A k \in Ops \ {i} : op'[k] = Interrupted[k]
    BY <2>1 DEF Interrupted
  <2>5. \A d \in Callers : held[d] # i
    BY <1>t, <2>1 DEF Separated
  <2>6. held'[c] = i /\ \A d \in Callers \ {c} : held'[d] = held[d]
    BY <1>t, <2>1
  <2>7. \A d \in Callers : held'[d] # NoOp => op'[held'[d]].status \in {"running", "interrupted"}
    <3> SUFFICES ASSUME NEW d \in Callers, held'[d] # NoOp
                 PROVE  op'[held'[d]].status \in {"running", "interrupted"}
      OBVIOUS
    <3>1. CASE d = c
      BY <2>2, <2>4, <2>6, <3>1
    <3>2. CASE d # c
      <4>1. held'[d] = held[d] /\ held[d] \in Ops /\ held[d] # i
        BY <1>t, <2>5, <2>6, <3>2
      <4>2. op'[held[d]].status \in {op[held[d]].status, "interrupted"}
        BY <1>f, <2>4, <4>1
      <4>3. QED
        BY <4>1, <4>2 DEF Separated
    <3>3. QED
      BY <3>1, <3>2
  <2>8. \A k \in Ops : \/ op'[k].late = TRUE
                       \/ op'[k].error = "authentication"
                       \/ op'[k].rest <= state'.quiet
    BY <1>f, <1>n, <2>1, <2>2, <2>3, <2>4 DEF Separated
  <2>9. \A d, e \in Callers : held'[d] # NoOp /\ held'[d] = held'[e] => d = e
    BY <2>5, <2>6 DEF Separated
  <2>10. \A k \in Ops : op'[k].status = "absent" => op'[k].rest = 0
    <3> TAKE k \in Ops
    <3>1. CASE k = i
      BY <2>2, <2>4, <3>1
    <3>2. CASE k # i
      <4>1. op'[k] = Interrupted[k]
        BY <2>4, <3>2
      <4>2. QED
        BY <1>f, <4>1 DEF Separated
    <3>3. QED
      BY <3>1, <3>2
  <2>11. QED
    BY <2>1, <2>3, <2>7, <2>8, <2>9, <2>10 DEF Separated
<1>3. CASE Refuse
  <2>1. op' = Interrupted /\ state' = Reopened(Freed) /\ held' = held
    BY <1>3 DEF Refuse
  <2>2. \A d \in Callers : held'[d] # NoOp => op'[held'[d]].status \in {"running", "interrupted"}
    BY <1>t, <1>f, <2>1 DEF Separated
  <2>3. QED
    BY <1>f, <2>1, <2>2 DEF Separated
<1>4. ASSUME NEW c \in Callers, NEW o \in Outcomes, Complete(c, o[1], o[2])
      PROVE  Separated'
  <2> DEFINE i == held[c]
             rows == Recorded(held[c], o[1], o[2])
             left == Left(held[c], o[1])
  <2>1. /\ i \in Ops /\ op' = rows
        /\ state' = ProbeJudged(Judged(left, rows, o[1], o[2]), op[i].probe, o[1])
        /\ held' = [held EXCEPT ![c] = NoOp]
    BY <1>4, <1>t DEF Complete
  <2>2. /\ \A d \in Callers \ {c} : held'[d] = held[d] /\ (held[d] # NoOp => held[d] # i)
        /\ held'[c] = NoOp
    BY <1>t, <2>1 DEF Separated
  <2>3. /\ rows[i].late = (op[i].status = "interrupted")
        /\ rows[i].error = o[1] /\ rows[i].rest = QuietPeriod
        /\ \A k \in Ops \ {i} : rows[k] = op[k]
    BY <1>t, <2>1 DEF Recorded, Row
  <2>4. state'.active = left.active /\ state'.quiet = left.quiet
    <3>1. left \in Coordinator /\ op[i].probe \in BOOLEAN
      BY <1>t, <1>n, <2>1 DEF Left, Coordinator, Row
    <3>2. CASE o \in ((Errors \ {"throttled"}) \cup {"none"}) \X {0}
      BY <3>1, <3>2, <2>1, <1>n, JudgedCoordinator
    <3>3. CASE o \in {"throttled"} \X RetryAfters
      <4>1. o[2] \in Nat
        BY <3>3, TimesAssumption
      <4>2. QED
        BY <2>1, <3>1, <4>1, JudgedCoordinator
    <3>4. QED
      BY <3>2, <3>3 DEF Outcomes
  <2>5. /\ left.active = IF state.active = i THEN NoOp ELSE state.active
        /\ left.quiet = IF state.active # i THEN state.quiet
                        ELSE IF o[1] = "authentication" THEN 0 ELSE QuietPeriod
    BY <1>t DEF Left, Coordinator
  <2>6. \A d \in Callers : held'[d] # NoOp => op'[held'[d]].status \in {"running", "interrupted"}
    BY <1>t, <2>1, <2>2, <2>3 DEF Separated
  <2>7. state'.active # NoOp => state'.quiet = 0
    BY <2>4, <2>5 DEF Separated
  <2>8. \A k \in Ops : \/ op'[k].late = TRUE
                       \/ op'[k].error = "authentication"
                       \/ op'[k].rest <= state'.quiet
    <3>1. CASE state.active = i
      <4>1. state.quiet = 0
        BY <1>t, <2>1, <3>1 DEF Separated
      <4>2. QED
        BY <1>n, <1>r, <2>1, <2>3, <2>4, <2>5, <3>1, <4>1 DEF Separated
    <3>2. CASE state.active # i
      <4>1. op[i].status = "interrupted"
        BY <1>t, <2>1, <3>2 DEF Separated
      <4>2. rows[i].late = TRUE
        BY <2>3, <4>1
      <4>3. QED
        BY <2>1, <2>3, <2>4, <2>5, <3>2, <4>2 DEF Separated
    <3>3. QED
      BY <3>1, <3>2
  <2>9. \A d, e \in Callers : held'[d] # NoOp /\ held'[d] = held'[e] => d = e
    BY <2>2 DEF Separated
  <2>10. rows[i].status # "absent"
    BY <1>t, <2>1 DEF Recorded, Row
  <2>11. \A k \in Ops : op'[k].status = "absent" => op'[k].rest = 0
    BY <2>1, <2>3, <2>10 DEF Separated
  <2>12. QED
    BY <2>6, <2>7, <2>8, <2>9, <2>11 DEF Separated
<1>5. ASSUME NEW c \in Callers, Abandon(c)
      PROVE  Separated'
  <2>1. UNCHANGED <<op, state>> /\ held'[c] = NoOp /\ \A d \in Callers \ {c} : held'[d] = held[d]
    BY <1>5, <1>t DEF Abandon
  <2>2. QED
    BY <2>1 DEF Separated
<1>6. CASE CleanupOps
  <2>1. /\ UNCHANGED <<state, held>>
        /\ \A i \in Ops : \/ op'[i] = op[i]
                          \/ op'[i] = NoRow /\ \A c \in Callers : held[c] # i
    BY <1>6 DEF CleanupOps
  <2>2. NoRow.rest = 0
    BY DEF NoRow
  <2>3. \A c \in Callers : held[c] # NoOp => op'[held[c]] = op[held[c]]
    BY <1>t, <2>1
  <2>4. \A k \in Ops : \/ op'[k].late = TRUE
                       \/ op'[k].error = "authentication"
                       \/ op'[k].rest <= state.quiet
    BY <1>r, <2>1, <2>2 DEF Separated
  <2>5. \A k \in Ops : op'[k].status = "absent" => op'[k].rest = 0
    BY <2>1, <2>2 DEF Separated
  <2>6. QED
    BY <2>1, <2>3, <2>4, <2>5 DEF Separated
<1>7. CASE Tick
  <2>1. \A row \in Row : /\ Older(row).status = row.status
                         /\ Older(row).late = row.late
                         /\ Older(row).error = row.error
                         /\ Older(row).rest = IF row.status = "absent" THEN row.rest
                                              ELSE Less(row.rest)
    BY DEF Older, Row
  <2>2. /\ state'.active = state.active
        /\ state'.quiet = Less(state.quiet)
    BY <1>7, <1>t DEF Tick, Coordinator
  <2>3. held' = held /\ \A i \in Ops : op'[i] = Older(op[i])
    BY <1>7 DEF Tick
  <2>4. QED
    <3>1. \A k \in Ops : /\ op'[k].status = op[k].status /\ op'[k].late = op[k].late
                         /\ op'[k].error = op[k].error
                         /\ op'[k].rest = IF op[k].status = "absent" THEN op[k].rest
                                          ELSE Less(op[k].rest)
      BY <1>t, <2>1, <2>3
    <3>2. \A m, n \in Nat : m <= n => Less(m) <= Less(n)
      BY DEF Less
    <3>3. Less(0) = 0 /\ Less(state.quiet) \in Nat
      BY <1>r, <1>t DEF Less, Coordinator
    <3>4. \A k \in Ops : op[k].rest <= state.quiet => op'[k].rest <= state'.quiet
      BY <1>r, <2>2, <3>1, <3>2, <3>3 DEF Separated
    <3>5. QED
      BY <1>t, <2>2, <2>3, <3>1, <3>3, <3>4 DEF Separated
<1>8. QED
  BY <1>1, <1>2, <1>3, <1>4, <1>5, <1>6, <1>7 DEF Next

\* An operation starts by an admission only.
LEMMA OnlyAdmit ==
  ASSUME IInv, [Next]_vars, NEW i \in Ops, Admitted(i)
  PROVE  \E c \in Callers, target \in Targets, kind \in Kinds : Admit(c, i, target, kind)
<1>t. /\ op \in [Ops -> Row] /\ held \in [Callers -> Ops \cup {NoOp}]
      /\ \A k \in Ops : op[k].status = "running" <=> state.active = k
  BY DEF IInv, CoordinatorSound, RunningIsActive
<1>1. op[i].status = "absent" /\ op'[i].status = "running"
  BY DEF Admitted
<1>a. Interrupted[i].status # "running"
  BY <1>t, <1>1 DEF Interrupted, Row
<1>2. ~UNCHANGED vars /\ ~(\E c \in Callers : Abandon(c))
  BY <1>1 DEF vars, Abandon
<1>3. ~Refuse
  BY <1>1, <1>a DEF Refuse
<1>4. ~(\E c \in Callers, o \in Outcomes : Complete(c, o[1], o[2]))
  <2>1. ASSUME NEW c \in Callers, NEW o \in Outcomes, Complete(c, o[1], o[2])
        PROVE  op'[i].status # "running"
    <3>1. op' = Recorded(held[c], o[1], o[2]) /\ held[c] \in Ops
      BY <1>t, <2>1 DEF Complete
    <3>2. CASE held[c] = i
      BY <1>t, <3>1, <3>2 DEF Recorded, Row
    <3>3. CASE held[c] # i
      BY <1>t, <1>1, <3>1, <3>3 DEF Recorded
    <3>4. QED
      BY <3>2, <3>3
  <2>2. QED
    BY <1>1, <2>1
<1>5. ~CleanupOps
  BY <1>1 DEF CleanupOps, NoRow
<1>6. ~Tick
  BY <1>1 DEF Tick, Older
<1>7. PICK c \in Callers, j \in Ops, target \in Targets, kind \in Kinds :
        Admit(c, j, target, kind)
  BY <1>2, <1>3, <1>4, <1>5, <1>6 DEF Next
<1>8. j = i
  <2>1. j # i => op'[i] = Interrupted[i]
    BY <1>7 DEF Admit, Interrupted
  <2>2. QED
    BY <1>1, <1>a, <2>1
<1>9. QED
  BY <1>7, <1>8

\* The invariants hold of the empty gateway.
LEMMA InitSound == Init => IInv /\ Separated
<1>1. Init => IInv
  BY OpsAssumption DEF Init, IInv, CoordinatorSound, RunningIsActive, ProbeIsActive,
     NoRow, Row, Coordinator, Statuses
<1>2. Init => Separated
  BY DEF Init, Separated, NoRow
<1>3. QED
  BY <1>1, <1>2

(* An operation is admitted only when no caller is inside the lease of     *)
(* another and every quiet period, but those excepted, is over.            *)
THEOREM OperationsSeparated == Spec => SeparatedInLease
<1>1. Init => IInv /\ Separated
  BY InitSound
<1>2. IInv /\ Separated /\ [Next]_vars => (IInv /\ Separated)'
  BY StepIInv, StepSeparated
<1>3. ASSUME IInv, Separated, [Next]_vars, NEW i \in Ops, Admitted(i)
      PROVE  /\ \A c \in Callers : held[c] # NoOp => op'[held[c]].status = "interrupted"
             /\ \A k \in Ops : op[k].rest > 0 => op[k].late \/ op[k].error = "authentication"
  <2>t. /\ op \in [Ops -> Row] /\ held \in [Callers -> Ops \cup {NoOp}]
        /\ \A k \in Ops : op[k].status = "running" <=> state.active = k
        /\ state \in Coordinator /\ NoOp \notin Ops
    BY <1>3, OpsAssumption DEF IInv, CoordinatorSound, RunningIsActive
  <2>1. PICK c \in Callers, target \in Targets, kind \in Kinds : Admit(c, i, target, kind)
    BY <1>3, OnlyAdmit
  <2> DEFINE s == Reopened(Freed)
             row == [NoRow EXCEPT !.status = "running", !.target = target,
                                  !.probe = kind = "forced" \/ s.circuit = "half_open",
                                  !.bypassed = kind \in {"bypass", "forced"}]
  <2>2. /\ s.active = NoOp /\ s.quiet = 0 /\ op[i].status = "absent"
        /\ op' = [Interrupted EXCEPT ![i] = row]
    BY <2>1 DEF Admit, Available
  <2>3. s.active = Freed.active /\ s.quiet = state.quiet
    BY <2>t DEF Reopened, Freed, Coordinator
  <2>4. state.active = NoOp \/ Overdue
    BY <2>2, <2>3 DEF Freed
  <2>5. ASSUME NEW d \in Callers, held[d] # NoOp
        PROVE  op'[held[d]].status = "interrupted"
    <3>1. held[d] \in Ops /\ op[held[d]].status \in {"running", "interrupted"}
      BY <1>3, <2>t, <2>5 DEF Separated
    <3>2. op'[held[d]] = Interrupted[held[d]]
      BY <2>2, <3>1 DEF Interrupted
    <3>3. Interrupted[held[d]].status = "interrupted"
      BY <2>t, <2>4, <3>1 DEF Interrupted, Overdue, Row
    <3>4. QED
      BY <3>2, <3>3
  <2>6. ASSUME NEW k \in Ops, op[k].rest > 0
        PROVE  op[k].late = TRUE \/ op[k].error = "authentication"
    <3>1. state.quiet = 0 /\ op[k].rest \in Nat
      BY <2>2, <2>3, <2>t DEF Row
    <3>2. ~(op[k].rest <= state.quiet)
      BY <2>6, <3>1
    <3>3. QED
      BY <1>3, <3>2 DEF Separated
  <2>7. QED
    BY <2>5, <2>6
<1>4. IInv /\ Separated /\ [Next]_vars =>
        [\A i \in Ops : Admitted(i) =>
           /\ \A c \in Callers : held[c] # NoOp => op'[held[c]].status = "interrupted"
           /\ \A k \in Ops : op[k].rest > 0 => op[k].late \/ op[k].error = "authentication"]_vars
  BY <1>3
<1>5. QED
  BY <1>1, <1>2, <1>4, PTL DEF Spec, SeparatedInLease

-----------------------------------------------------------------------------
(* The bounds of the timers: every pause and every rest the coordinator    *)
(* sets is one of finitely many, so it has a longest.                      *)

HasLongest(S) == S \subseteq Nat /\ \E m \in S : \A n \in S : n <= m

\* The longest of S bounds S.
LEMMA LongestBounds ==
  ASSUME NEW S, HasLongest(S)
  PROVE  Longest(S) \in Nat /\ \A n \in S : n \in 0..Longest(S)
<1> DEFINE Bounds(m) == \A n \in S : n <= m
<1>1. \E m \in S : Bounds(m)
  BY DEF HasLongest
<1>2. Longest(S) = CHOOSE m \in S : Bounds(m)
  BY DEF Longest
<1>3. Longest(S) \in S /\ Bounds(Longest(S))
  <2> HIDE DEF Bounds
  <2> QED
    BY <1>1, <1>2
<1>4. Longest(S) \in Nat /\ \A n \in S : n \in Nat
  BY <1>3 DEF HasLongest
<1>5. \A n \in S : n <= Longest(S)
  BY <1>3
<1>6. QED
  BY <1>4, <1>5

\* A set that has a longest has one with one more number in it.
LEMMA LongestOfMore ==
  ASSUME NEW S, HasLongest(S), NEW n \in Nat
  PROVE  HasLongest(S \cup {n})
<1>1. PICK m \in S : m \in Nat /\ \A k \in S : k \in Nat /\ k <= m
  BY DEF HasLongest
<1>2. CASE n <= m
  BY <1>1, <1>2 DEF HasLongest
<1>3. CASE m <= n
  <2>1. \A k \in S \cup {n} : k \in Nat /\ k <= n
    BY <1>1, <1>3
  <2>2. QED
    BY <2>1 DEF HasLongest
<1>4. QED
  BY <1>1, <1>2, <1>3

\* The pauses and the rests are bounded by their longest.
LEMMA TimersBounded ==
  /\ Longest(Pauses) \in Nat /\ \A n \in Pauses : n \in 0..Longest(Pauses)
  /\ Longest(Rests) \in Nat /\ \A n \in Rests : n \in 0..Longest(Rests)
<1>1. /\ 0 \in Nat /\ QuietPeriod \in Nat /\ ForbiddenPause \in Nat /\ ProbePause \in Nat
      /\ \A n \in 0..3 : InstabilityPause[n] \in Nat
  BY TimesAssumption
<1>2. HasLongest(RetryAfters)
  BY TimesAssumption, RetryAssumption DEF HasLongest
<1>3. HasLongest(Pauses)
  <2> DEFINE P0 == ((RetryAfters \cup {ForbiddenPause}) \cup {ProbePause}) \cup {0}
             P1 == (P0 \cup {InstabilityPause[0]}) \cup {InstabilityPause[1]}
             P2 == (P1 \cup {InstabilityPause[2]}) \cup {InstabilityPause[3]}
  <2>1. HasLongest(P0)
    BY <1>1, <1>2, LongestOfMore
  <2>2. HasLongest(P1)
    <3>1. HasLongest(P0 \cup {InstabilityPause[0]})
      BY <1>1, <2>1, LongestOfMore
    <3>2. QED
      BY <1>1, <3>1, LongestOfMore
  <2>3. HasLongest(P2)
    <3>1. HasLongest(P1 \cup {InstabilityPause[2]})
      BY <1>1, <2>2, LongestOfMore
    <3>2. QED
      BY <1>1, <3>1, LongestOfMore
  <2>4. \A n \in 0..3 : n \in {0, 1, 2, 3}
    OBVIOUS
  <2>5. {InstabilityPause[n] : n \in 0..3} =
          {InstabilityPause[0], InstabilityPause[1], InstabilityPause[2], InstabilityPause[3]}
    <3>1. 0..3 = {0, 1, 2, 3}
      BY <2>4
    <3>2. QED
      BY <3>1
  <2>6. P2 = Pauses
    BY <2>5 DEF Pauses
  <2>7. QED
    BY <2>3, <2>6
<1>4. HasLongest(Rests)
  <2>1. HasLongest({0})
    BY DEF HasLongest
  <2>2. Rests = {0} \cup {QuietPeriod}
    BY DEF Rests
  <2>3. QED
    BY <1>1, <2>1, <2>2, LongestOfMore
<1>5. QED
  BY <1>3, <1>4, LongestBounds

\* One unit less of a timer stays within its bound.
LEMMA LessBounded ==
  ASSUME NEW bound \in Nat, NEW n \in 0..bound
  PROVE  Less(n) \in 0..bound
BY DEF Less

(* The circuit never pauses longer than its longest pause.                 *)
LEMMA JudgedState ==
  ASSUME NEW s \in State, NEW rows, NEW error, NEW pause \in Pauses, NEW probe \in BOOLEAN
  PROVE  ProbeJudged(Judged(s, rows, error, pause), probe, error) \in State
<1>1. ASSUME NEW t \in State, NEW p \in Pauses
      PROVE  Opened(t, p) \in State
  <2>1. p \in 0..Longest(Pauses)
    BY TimersBounded
  <2>2. (IF t.failures < 3 THEN t.failures + 1 ELSE 3) \in 0..3
    BY DEF State
  <2>3. QED
    BY <2>1, <2>2 DEF Opened, State
<1>2. Closed(s) \in State
  <2>1. 0 \in 0..3 /\ 0 \in 0..Longest(Pauses)
    BY TimersBounded
  <2>2. QED
    BY <2>1 DEF Closed, State
<1>3. ForbiddenPause \in Pauses /\ ProbePause \in Pauses /\ InstabilityPause[s.failures] \in Pauses
  BY DEF State, Pauses
<1> DEFINE verdict == Judged(s, rows, error, pause)
<1>4. verdict \in {s, Closed(s), Opened(s, pause), Opened(s, ForbiddenPause),
                   Opened(s, InstabilityPause[s.failures])}
  BY DEF Judged
<1>5. verdict \in State
  BY <1>1, <1>2, <1>3, <1>4
<1>6. QED
  BY <1>1, <1>3, <1>5 DEF ProbeJudged

\* The pause a report hands on is one of the pauses.
LEMMA OutcomeTyped ==
  ASSUME NEW o \in Outcomes
  PROVE  o[1] \in Errors \cup {"none"} /\ o[2] \in Pauses
<1>1. CASE o \in ((Errors \ {"throttled"}) \cup {"none"}) \X {0}
  BY <1>1 DEF Pauses
<1>2. CASE o \in {"throttled"} \X RetryAfters
  <2>1. o[1] = "throttled" /\ o[2] \in RetryAfters
    BY <1>2
  <2>2. QED
    BY <2>1 DEF Errors, Pauses
<1>3. QED
  BY <1>1, <1>2 DEF Outcomes

\* Every step of the gateway keeps the types and the bounds of the timers.
LEMMA StepTypes == TypeOK /\ [Next]_vars => TypeOK'
<1> SUFFICES ASSUME TypeOK, [Next]_vars
             PROVE  TypeOK'
  OBVIOUS
<1>t. op \in [Ops -> Op] /\ state \in State /\ held \in [Callers -> Ops \cup {NoOp}]
  BY DEF TypeOK
<1>n. /\ 0 \in 0..Longest(Rests) /\ 0 \in 0..Longest(Pauses)
      /\ QuietPeriod \in 0..Longest(Rests)
      /\ 0 \in 0..OpLease /\ OpLease \in 0..OpLease /\ 0 \in 0..DayWindow
  BY TimersBounded, TimesAssumption DEF Rests
<1>r. NoRow \in Op
  BY <1>n DEF NoRow, Op, Statuses
<1>f. Interrupted \in [Ops -> Op] /\ Reopened(Freed) \in State
  <2>1. \A i \in Ops : [op[i] EXCEPT !.status = "interrupted"] \in Op
    BY <1>t DEF Op, Statuses
  <2>2. Interrupted \in [Ops -> Op]
    BY <1>t, <2>1 DEF Interrupted
  <2>3. Freed \in State
    BY <1>t DEF Freed, State
  <2>4. Reopened(Freed) \in State
    BY <2>3 DEF Reopened, State
  <2>5. QED
    BY <2>2, <2>4
<1>1. CASE UNCHANGED vars
  BY <1>1, <1>t DEF vars, TypeOK
<1>2. ASSUME NEW c \in Callers, NEW i \in Ops, NEW target \in Targets, NEW kind \in Kinds,
             Admit(c, i, target, kind)
      PROVE  TypeOK'
  <2> DEFINE s == Reopened(Freed)
             isProbe == kind = "forced" \/ s.circuit = "half_open"
             bypassed == kind \in {"bypass", "forced"}
             row == [NoRow EXCEPT !.status = "running", !.target = target,
                                  !.probe = isProbe, !.bypassed = bypassed]
  <2>1. /\ op' = [Interrupted EXCEPT ![i] = row]
        /\ state' = [s EXCEPT !.active = i, !.lease = OpLease,
                              !.circuit = IF isProbe THEN "half_open" ELSE @,
                              !.probe = IF isProbe THEN i ELSE @]
        /\ held' = [held EXCEPT ![c] = i]
    BY <1>2 DEF Admit
  <2>2. isProbe \in BOOLEAN /\ bypassed \in BOOLEAN /\ "running" \in Statuses
    BY DEF Statuses
  <2>3. row \in Op
    <3> HIDE DEF isProbe, bypassed
    <3>1. [NoRow EXCEPT !.status = "running"] \in Op
      BY <1>r, <2>2 DEF Op
    <3>2. [[NoRow EXCEPT !.status = "running"] EXCEPT !.target = target] \in Op
      BY <3>1 DEF Op
    <3>3. QED
      BY <1>r, <2>2, <3>1, <3>2 DEF Op
  <2>4. state' \in State
    BY <1>n, <1>f, <2>1 DEF State
  <2>5. QED
    BY <1>t, <1>f, <2>1, <2>3, <2>4 DEF TypeOK
<1>3. CASE Refuse
  BY <1>3, <1>t, <1>f DEF Refuse, TypeOK
<1>4. ASSUME NEW c \in Callers, NEW o \in Outcomes, Complete(c, o[1], o[2])
      PROVE  TypeOK'
  <2> DEFINE i == held[c]
             rows == Recorded(held[c], o[1], o[2])
             left == Left(held[c], o[1])
  <2>1. /\ i \in Ops /\ op' = rows
        /\ state' = ProbeJudged(Judged(left, rows, o[1], o[2]), op[i].probe, o[1])
        /\ held' = [held EXCEPT ![c] = NoOp]
    BY <1>4, <1>t DEF Complete
  <2>2. rows \in [Ops -> Op]
    <3> DEFINE status == IF o[1] = "none" THEN "succeeded" ELSE "failed"
               late == op[i].status = "interrupted"
               row == [[[[[op[i] EXCEPT !.status = status] EXCEPT !.error = o[1]]
                          EXCEPT !.late = late]
                          EXCEPT !.rest = QuietPeriod] EXCEPT !.wait = o[2]]
    <3>1. rows = [op EXCEPT ![i] = row]
      BY <1>t, <2>1 DEF Recorded
    <3>2. status \in Statuses /\ late \in BOOLEAN /\ o[2] \in 0..Longest(Pauses)
      BY OutcomeTyped, TimersBounded DEF Statuses
    <3>3. op[i] \in Op /\ o[1] \in Errors \cup {"none"}
      BY <1>t, <2>1, OutcomeTyped
    <3>4. row \in Op
      <4> HIDE DEF status, late, i
      <4>1. [op[i] EXCEPT !.status = status] \in Op
        BY <3>2, <3>3 DEF Op
      <4>2. [[op[i] EXCEPT !.status = status] EXCEPT !.error = o[1]] \in Op
        BY <3>3, <4>1 DEF Op
      <4> DEFINE judged == [[op[i] EXCEPT !.status = status] EXCEPT !.error = o[1]]
      <4> HIDE DEF judged
      <4>3. [judged EXCEPT !.late = late] \in Op
        BY <3>2, <4>2 DEF Op, judged
      <4>4. [[judged EXCEPT !.late = late] EXCEPT !.rest = QuietPeriod] \in Op
        BY <1>n, <4>3 DEF Op
      <4>5. [[[judged EXCEPT !.late = late] EXCEPT !.rest = QuietPeriod] EXCEPT !.wait = o[2]] \in Op
        BY <3>2, <4>4 DEF Op
      <4>6. QED
        BY <4>5 DEF judged
    <3>5. QED
      BY <1>t, <2>1, <3>1, <3>4
  <2>3. left \in State
    BY <1>t, <1>n DEF Left, State
  <2>4. op[i].probe \in BOOLEAN
    BY <1>t, <2>1 DEF Op
  <2>5. state' \in State
    BY <2>1, <2>3, <2>4, OutcomeTyped, JudgedState
  <2>6. QED
    BY <1>t, <2>1, <2>2, <2>5 DEF TypeOK
<1>5. ASSUME NEW c \in Callers, Abandon(c)
      PROVE  TypeOK'
  BY <1>5, <1>t DEF Abandon, TypeOK
<1>6. CASE CleanupOps
  BY <1>6, <1>t, <1>r DEF CleanupOps, TypeOK
<1>7. CASE Tick
  <2>1. ASSUME NEW row \in Op
        PROVE  Older(row) \in Op
    <3> DEFINE age == IF row.age < DayWindow THEN row.age + 1 ELSE row.age
    <3>1. age \in 0..DayWindow
      BY TimesAssumption DEF Op
    <3>2. Less(row.rest) \in 0..Longest(Rests) /\ Less(row.wait) \in 0..Longest(Pauses)
      <4>1. row.rest \in 0..Longest(Rests) /\ row.wait \in 0..Longest(Pauses)
        BY DEF Op
      <4>2. QED
        BY <4>1, TimersBounded, LessBounded
    <3>3. Older(row) = IF row.status = "absent" THEN row
                       ELSE [row EXCEPT !.age = age, !.rest = Less(row.rest),
                                        !.wait = Less(row.wait)]
      BY DEF Older, Op
    <3> HIDE DEF age
    <3>4. [row EXCEPT !.age = age, !.rest = Less(row.rest), !.wait = Less(row.wait)] \in Op
      BY <3>1, <3>2 DEF Op
    <3>5. QED
      BY <3>3, <3>4
  <2>2. /\ Less(state.lease) \in 0..OpLease
        /\ Less(state.quiet) \in 0..Longest(Rests)
        /\ Less(state.until) \in 0..Longest(Pauses)
    <3>1. /\ state.lease \in 0..OpLease
          /\ state.quiet \in 0..Longest(Rests)
          /\ state.until \in 0..Longest(Pauses)
      BY <1>t DEF State
    <3>2. QED
      BY <3>1, TimersBounded, TimesAssumption, LessBounded
  <2>3. state' \in State
    BY <1>7, <1>t, <2>2 DEF Tick, State
  <2>4. op' \in [Ops -> Op] /\ held' = held
    BY <1>7, <1>t, <2>1 DEF Tick
  <2>5. QED
    BY <1>t, <2>3, <2>4 DEF TypeOK
<1>8. QED
  BY <1>1, <1>2, <1>3, <1>4, <1>5, <1>6, <1>7 DEF Next

(* Rows, coordinator and leases keep their types, and no timer outlasts    *)
(* the longest pause or rest that is ever asked for.                       *)
THEOREM GatewayTypes == Spec => []TypeOK
<1>1. Init => TypeOK
  <2>1. /\ 0 \in 0..Longest(Rests) /\ 0 \in 0..Longest(Pauses)
        /\ 0 \in 0..OpLease /\ 0 \in 0..DayWindow /\ 0 \in 0..3
    BY TimersBounded, TimesAssumption
  <2>2. NoRow \in Op
    BY <2>1 DEF NoRow, Op, Statuses
  <2>3. QED
    BY <2>1, <2>2 DEF Init, TypeOK, State
<1>2. TypeOK /\ [Next]_vars => TypeOK'
  BY StepTypes
<1>3. QED
  BY <1>1, <1>2, PTL DEF Spec

-----------------------------------------------------------------------------
(* The budget of a target. *)

(* The operations that count against the budget of t over a window.        *)
Spent(t, window) == {i \in Counted(t, window) : ~op[i].bypassed}

\* Fewer rows, or the same, count no more.
LEMMA FewerSpent ==
  ASSUME NEW A \in SUBSET Ops, NEW B \in SUBSET A, NEW quota \in Nat, Cardinality(A) <= quota
  PROVE  Cardinality(B) <= quota
<1>1. IsFiniteSet(A)
  BY OpsAssumption, FS_Subset
<1>2. IsFiniteSet(B) /\ Cardinality(B) <= Cardinality(A)
  BY <1>1, FS_Subset
<1>3. Cardinality(A) \in Nat /\ Cardinality(B) \in Nat
  BY <1>1, <1>2, FS_CardinalityType
<1>4. QED
  BY <1>2, <1>3

\* One row more counts for one at most.
LEMMA OneMoreSpent ==
  ASSUME NEW A \in SUBSET Ops, NEW B \in SUBSET A, NEW i \in Ops, NEW quota \in Nat,
         Cardinality(A) < quota
  PROVE  Cardinality(B \cup {i}) <= quota
<1>1. IsFiniteSet(A)
  BY OpsAssumption, FS_Subset
<1>2. IsFiniteSet(B) /\ Cardinality(B) <= Cardinality(A)
  BY <1>1, FS_Subset
<1>3. IsFiniteSet(B \cup {i})
      /\ Cardinality(B \cup {i}) = IF i \in B THEN Cardinality(B) ELSE Cardinality(B) + 1
  BY <1>2, FS_AddElement
<1>4. Cardinality(A) \in Nat /\ Cardinality(B) \in Nat
  BY <1>1, <1>2, FS_CardinalityType
<1>5. QED
  BY <1>2, <1>3, <1>4

(* Only an admission within the quota adds a row to a window: reports and  *)
(* interruptions leave its age and its target, time and the cleanup take   *)
(* rows out of the window.                                                 *)
LEMMA SpentGrows ==
  ASSUME IInv, Separated, [Next]_vars, NEW t \in Targets, NEW window \in Nat
  PROVE  \/ Spent(t, window)' \subseteq Spent(t, window)
         \/ /\ WithinQuota(t)
            /\ \E i \in Ops : Spent(t, window)' \subseteq Spent(t, window) \cup {i}
<1>t. /\ op \in [Ops -> Row] /\ held \in [Callers -> Ops \cup {NoOp}] /\ NoOp \notin Ops
  BY OpsAssumption DEF IInv
<1> DEFINE Counts(row) == /\ row.status # "absent" /\ row.target = t /\ row.age < window
                          /\ ~row.bypassed
<1>s. /\ Spent(t, window) = {i \in Ops : Counts(op[i])}
      /\ Spent(t, window)' = {i \in Ops : Counts(op'[i])}
  BY DEF Spent, Counted
<1>0. ASSUME \A i \in Ops : Counts(op'[i]) => Counts(op[i])
      PROVE  Spent(t, window)' \subseteq Spent(t, window)
  BY <1>0, <1>s
<1>i. \A i \in Ops : Counts(Interrupted[i]) => Counts(op[i])
  <2>1. \A row \in Row : Counts([row EXCEPT !.status = "interrupted"]) => row.status = "absent" \/ Counts(row)
    BY DEF Row
  <2>2. QED
    BY <1>t, <2>1 DEF Interrupted
<1>a. ~Counts(NoRow)
  BY DEF NoRow
<1>1. CASE UNCHANGED vars
  <2>1. op' = op
    BY <1>1 DEF vars
  <2>2. QED
    BY <1>0, <2>1
<1>2. ASSUME NEW c \in Callers, NEW i \in Ops, NEW target \in Targets, NEW kind \in Kinds,
             Admit(c, i, target, kind)
      PROVE  \/ Spent(t, window)' \subseteq Spent(t, window)
             \/ /\ WithinQuota(t)
                /\ Spent(t, window)' \subseteq Spent(t, window) \cup {i}
  <2> DEFINE isProbe == kind = "forced" \/ Reopened(Freed).circuit = "half_open"
             bypassed == kind \in {"bypass", "forced"}
             row == [NoRow EXCEPT !.status = "running", !.target = target,
                                  !.probe = isProbe, !.bypassed = bypassed]
  <2>1. /\ op' = [Interrupted EXCEPT ![i] = row]
        /\ WithinQuota(target) \/ bypassed
    BY <1>2 DEF Admit
  <2>2. row.target = target /\ row.bypassed = bypassed
    BY DEF NoRow
  <2>3. op'[i] = row /\ \A k \in Ops \ {i} : op'[k] = Interrupted[k]
    BY <2>1 DEF Interrupted
  <2>4. CASE bypassed \/ target # t
    <3>1. ~Counts(op'[i])
      BY <2>2, <2>3, <2>4
    <3>2. \A k \in Ops : Counts(op'[k]) => Counts(op[k])
      <4> HIDE DEF Counts, row
      <4>1. QED
        BY <1>i, <2>3, <3>1
    <3>3. QED
      BY <1>0, <3>2
  <2>5. CASE ~bypassed /\ target = t
    <3>1. \A k \in Ops : Counts(op'[k]) => Counts(op[k]) \/ k = i
      <4> HIDE DEF Counts, row
      <4>1. QED
        BY <1>i, <2>3
    <3>2. Spent(t, window)' \subseteq Spent(t, window) \cup {i}
      BY <1>s, <3>1
    <3>3. QED
      BY <2>1, <2>5, <3>2
  <2>6. QED
    BY <2>4, <2>5
<1>3. CASE Refuse
  <2>1. op' = Interrupted
    BY <1>3 DEF Refuse
  <2>2. QED
    BY <1>0, <1>i, <2>1
<1>4. ASSUME NEW c \in Callers, NEW o \in Outcomes, Complete(c, o[1], o[2])
      PROVE  Spent(t, window)' \subseteq Spent(t, window)
  <2> DEFINE i == held[c]
  <2>1. i \in Ops /\ op' = Recorded(i, o[1], o[2])
    BY <1>4, <1>t DEF Complete
  <2>2. /\ op'[i].target = op[i].target /\ op'[i].age = op[i].age
        /\ op'[i].bypassed = op[i].bypassed
        /\ \A k \in Ops \ {i} : op'[k] = op[k]
    BY <1>t, <2>1 DEF Recorded, Row
  <2>3. op[i].status # "absent"
    BY <1>4, <2>1 DEF Complete, Separated
  <2>4. \A k \in Ops : Counts(op'[k]) => Counts(op[k])
    BY <2>2, <2>3
  <2>5. QED
    BY <1>0, <2>4
<1>5. ASSUME NEW c \in Callers, Abandon(c)
      PROVE  Spent(t, window)' \subseteq Spent(t, window)
  <2>1. op' = op
    BY <1>5 DEF Abandon
  <2>2. QED
    BY <1>0, <2>1
<1>6. CASE CleanupOps
  <2>1. \A i \in Ops : op'[i] \in {NoRow, op[i]}
    BY <1>6 DEF CleanupOps
  <2>2. QED
    BY <1>0, <1>a, <2>1
<1>7. CASE Tick
  <2>1. \A row \in Row : Counts(Older(row)) => Counts(row)
    <3> SUFFICES ASSUME NEW row \in Row, Counts(Older(row)), row.status # "absent"
                 PROVE  Counts(row)
      BY DEF Older
    <3>1. /\ Older(row).target = row.target /\ Older(row).bypassed = row.bypassed
          /\ Older(row).age = IF row.age < DayWindow THEN row.age + 1 ELSE row.age
      BY DEF Older, Row
    <3>2. row.age \in Nat
      BY DEF Row
    <3>3. row.age < window
      BY <3>1, <3>2
    <3>4. QED
      BY <3>1, <3>3
  <2>2. \A i \in Ops : op'[i] = Older(op[i]) /\ op[i] \in Row
    BY <1>7, <1>t DEF Tick
  <2>3. QED
    BY <1>0, <2>1, <2>2
<1>8. QED
  BY <1>1, <1>2, <1>3, <1>4, <1>5, <1>6, <1>7 DEF Next

\* Every step keeps the budgets.
LEMMA StepBudget == IInv /\ Separated /\ BudgetKept /\ [Next]_vars => BudgetKept'
<1> SUFFICES ASSUME IInv, Separated, BudgetKept, [Next]_vars, NEW t \in Targets
             PROVE  /\ Cardinality(Spent(t, HourWindow)') <= HourQuota
                    /\ Cardinality(Spent(t, DayWindow)') <= DayQuota
  BY DEF BudgetKept, Spent
<1>1. /\ Cardinality(Spent(t, HourWindow)) <= HourQuota
      /\ Cardinality(Spent(t, DayWindow)) <= DayQuota
  BY DEF BudgetKept, Spent
<1>2. /\ HourQuota \in Nat /\ DayQuota \in Nat /\ HourWindow \in Nat /\ DayWindow \in Nat
  BY TimesAssumption, LimitsAssumption
<1>3. ASSUME NEW window \in Nat, NEW quota \in Nat,
             Cardinality(Spent(t, window)) <= quota,
             WithinQuota(t) => Cardinality(Counted(t, window)) < quota
      PROVE  Cardinality(Spent(t, window)') <= quota
  <2>1. Spent(t, window) \in SUBSET Counted(t, window) /\ Counted(t, window) \in SUBSET Ops
    BY DEF Spent, Counted
  <2>2. CASE Spent(t, window)' \subseteq Spent(t, window)
    BY <1>3, <2>1, <2>2, FewerSpent
  <2>3. ASSUME WithinQuota(t), NEW i \in Ops,
               Spent(t, window)' \subseteq Spent(t, window) \cup {i}
        PROVE  Cardinality(Spent(t, window)') <= quota
    <3>1. Cardinality(Counted(t, window)) < quota
      BY <1>3, <2>3
    <3>2. Cardinality(Spent(t, window) \cup {i}) <= quota
      BY <2>1, <3>1, OneMoreSpent
    <3>3. Spent(t, window) \cup {i} \in SUBSET Ops
      BY <2>1
    <3>4. QED
      BY <2>3, <3>2, <3>3, FewerSpent
  <2>4. QED
    BY <2>2, <2>3, SpentGrows
<1>4. WithinQuota(t) => /\ Cardinality(Counted(t, HourWindow)) < HourQuota
                        /\ Cardinality(Counted(t, DayWindow)) < DayQuota
  BY DEF WithinQuota
<1>5. QED
  BY <1>1, <1>2, <1>3, <1>4

(* No target spends more than its hourly and daily quota of operations in  *)
(* a sliding window, but those an administrator lets through.              *)
THEOREM BudgetsKept == Spec => []BudgetKept
<1>1. Init => IInv /\ Separated
  BY InitSound
<1>2. Init => BudgetKept
  <2> SUFFICES ASSUME Init, NEW t \in Targets
               PROVE  /\ Cardinality(Spent(t, HourWindow)) <= HourQuota
                      /\ Cardinality(Spent(t, DayWindow)) <= DayQuota
    BY DEF BudgetKept, Spent
  <2>1. Spent(t, HourWindow) = {} /\ Spent(t, DayWindow) = {}
    BY DEF Init, Spent, Counted, NoRow
  <2>2. Cardinality({}) = 0
    BY FS_EmptySet
  <2>3. QED
    BY <2>1, <2>2, LimitsAssumption
<1>3. IInv /\ Separated /\ BudgetKept /\ [Next]_vars => (IInv /\ Separated /\ BudgetKept)'
  BY StepIInv, StepSeparated, StepBudget
<1>4. QED
  BY <1>1, <1>2, <1>3, PTL DEF Spec

-----------------------------------------------------------------------------
(* The Retry-After of a 429. *)

Overlapped == \E k \in Ops : op[k].late = TRUE \/ op[k].bypassed = TRUE

(* While nobody reported late or bypassed the gateway, an operation runs   *)
(* only when no 429 is being waited for, and the pause of the open circuit *)
(* lasts as long as any Retry-After.                                       *)
RetryFence ==
  /\ \A k \in Ops : op[k].status = "absent" => op[k] = NoRow
  /\ \A k \in Ops : op[k].late = TRUE => op[k].status \in {"succeeded", "failed"}
  /\ \/ Overlapped
     \/ \A k \in Ops : op[k].wait = 0
     \/ /\ state.circuit = "open" /\ state.active = NoOp
        /\ \A k \in Ops : op[k].wait <= state.until

\* Every step keeps the circuit open for the longest Retry-After.
LEMMA StepRetry == IInv /\ Separated /\ RetryFence /\ [Next]_vars => RetryFence'
<1> SUFFICES ASSUME IInv, Separated, RetryFence, [Next]_vars
             PROVE  RetryFence'
  OBVIOUS
<1>t. /\ op \in [Ops -> Row] /\ state \in Coordinator
      /\ held \in [Callers -> Ops \cup {NoOp}] /\ NoOp \notin Ops
      /\ \A i \in Ops : op[i].status = "running" <=> state.active = i
  BY OpsAssumption DEF IInv, CoordinatorSound, RunningIsActive
<1>w. \A k \in Ops : op[k].wait \in Nat /\ state.until \in Nat
  BY <1>t DEF Row, Coordinator
<1>i. \A k \in Ops : /\ Interrupted[k].late = op[k].late
                     /\ Interrupted[k].bypassed = op[k].bypassed
                     /\ Interrupted[k].wait = op[k].wait
                     /\ Interrupted[k].status = op[k].status => Interrupted[k] = op[k]
                     /\ Interrupted[k].status # op[k].status =>
                          op[k].status = "running" /\ Interrupted[k].status = "interrupted"
  BY <1>t DEF Interrupted, Row
<1>j. /\ \A k \in Ops : Interrupted[k].status = "absent" => Interrupted[k] = NoRow
      /\ \A k \in Ops : Interrupted[k].late = TRUE =>
                          Interrupted[k].status \in {"succeeded", "failed"}
  BY <1>i DEF RetryFence
<1>f. /\ state.active = NoOp => Freed = state
      /\ Reopened(Freed).until = state.until
      /\ \/ Reopened(Freed).circuit = state.circuit
         \/ state.until = 0
      /\ Freed.active \in {state.active, NoOp}
      /\ Reopened(Freed).active = Freed.active
  <2>1. /\ Freed \in Coordinator /\ Freed.until = state.until /\ Freed.circuit = state.circuit
        /\ Freed.active \in {state.active, NoOp}
    BY <1>t DEF Freed, Coordinator
  <2>2. state.active = NoOp => Freed = state
    BY DEF Freed, Overdue
  <2>3. /\ Reopened(Freed).until = Freed.until /\ Reopened(Freed).active = Freed.active
        /\ Reopened(Freed).circuit = Freed.circuit \/ Freed.until = 0
    BY <2>1 DEF Reopened, Coordinator
  <2>4. QED
    BY <2>1, <2>2, <2>3
<1>z. NoRow.late = FALSE /\ NoRow.bypassed = FALSE /\ NoRow.wait = 0 /\ NoRow.status = "absent"
  BY DEF NoRow
<1>1. CASE UNCHANGED vars
  BY <1>1 DEF vars, RetryFence, Overlapped
<1>2. ASSUME NEW c \in Callers, NEW i \in Ops, NEW target \in Targets, NEW kind \in Kinds,
             Admit(c, i, target, kind)
      PROVE  RetryFence'
  <2> DEFINE s == Reopened(Freed)
             isProbe == kind = "forced" \/ s.circuit = "half_open"
             bypassed == kind \in {"bypass", "forced"}
             row == [NoRow EXCEPT !.status = "running", !.target = target,
                                  !.probe = isProbe, !.bypassed = bypassed]
  <2>1. /\ op' = [Interrupted EXCEPT ![i] = row]
        /\ op[i].status = "absent"
        /\ CircuitAdmits(s, kind)
    BY <1>2 DEF Admit
  <2>2. /\ row.status = "running" /\ row.late = FALSE /\ row.wait = 0
        /\ row.bypassed = bypassed
    BY DEF NoRow
  <2>3. op'[i] = row /\ \A k \in Ops \ {i} : op'[k] = Interrupted[k]
    BY <2>1 DEF Interrupted
  <2>4. /\ \A k \in Ops : op'[k].status = "absent" => op'[k] = NoRow
        /\ \A k \in Ops : op'[k].late = TRUE => op'[k].status \in {"succeeded", "failed"}
    <3> HIDE DEF row
    <3> QED
      BY <1>j, <2>2, <2>3
  <2>5. CASE Overlapped
    <3>1. PICK k \in Ops : op[k].late = TRUE \/ op[k].bypassed = TRUE
      BY <2>5 DEF Overlapped
    <3>2. k # i
      BY <1>z, <2>1, <3>1 DEF RetryFence
    <3>3. Overlapped'
      BY <1>i, <2>3, <3>1, <3>2 DEF Overlapped
    <3>4. QED
      BY <2>4, <3>3 DEF RetryFence
  <2>6. CASE bypassed
    <3>1. Overlapped'
      BY <2>2, <2>3, <2>6 DEF Overlapped
    <3>2. QED
      BY <2>4, <3>1 DEF RetryFence
  <2>7. CASE \A k \in Ops : op[k].wait = 0
    <3>1. \A k \in Ops : op'[k].wait = 0
      <4> HIDE DEF row
      <4> QED
        BY <1>i, <2>2, <2>3, <2>7
    <3>2. QED
      BY <2>4, <3>1 DEF RetryFence
  <2>8. CASE ~bypassed /\ state.circuit = "open" /\ \A k \in Ops : op[k].wait <= state.until
    <3>1. s.circuit # "open"
      BY <2>1, <2>8 DEF CircuitAdmits
    <3>2. state.until = 0
      BY <1>f, <2>8, <3>1
    <3>3. \A k \in Ops : op[k].wait = 0
      BY <1>w, <2>8, <3>2
    <3>4. QED
      BY <2>7, <3>3
  <2>9. QED
    BY <2>5, <2>6, <2>7, <2>8 DEF RetryFence
<1>3. CASE Refuse
  <2>1. op' = Interrupted /\ state' = Reopened(Freed)
    BY <1>3 DEF Refuse
  <2>2. Overlapped => Overlapped'
    BY <1>i, <2>1 DEF Overlapped
  <2>3. (\A k \in Ops : op[k].wait = 0) => \A k \in Ops : op'[k].wait = 0
    BY <1>i, <2>1
  <2>4. ASSUME state.circuit = "open", state.active = NoOp, \A k \in Ops : op[k].wait <= state.until
        PROVE  \/ \A k \in Ops : op'[k].wait = 0
               \/ /\ state'.circuit = "open" /\ state'.active = NoOp
                  /\ \A k \in Ops : op'[k].wait <= state'.until
    <3>1. CASE state.until = 0
      BY <1>i, <1>w, <2>1, <2>4, <3>1
    <3>2. CASE state.until # 0
      BY <1>i, <1>f, <2>1, <2>4, <3>2
    <3>3. QED
      BY <3>1, <3>2
  <2>5. QED
    BY <1>j, <2>1, <2>2, <2>3, <2>4 DEF RetryFence
<1>4. ASSUME NEW c \in Callers, NEW o \in Outcomes, Complete(c, o[1], o[2])
      PROVE  RetryFence'
  <2> DEFINE i == held[c]
             rows == Recorded(held[c], o[1], o[2])
             left == Left(held[c], o[1])
             judged == Judged(left, rows, o[1], o[2])
  <2>1. /\ i \in Ops /\ op' = rows
        /\ state' = ProbeJudged(judged, op[i].probe, o[1])
    BY <1>4, <1>t DEF Complete
  <2>2. /\ rows[i].status = IF o[1] = "none" THEN "succeeded" ELSE "failed"
        /\ rows[i].late = (op[i].status = "interrupted")
        /\ rows[i].wait = o[2] /\ rows[i].bypassed = op[i].bypassed
        /\ \A k \in Ops \ {i} : rows[k] = op[k]
    BY <1>t, <2>1 DEF Recorded, Row
  <2>3. /\ \A k \in Ops : rows[k].status = "absent" => rows[k] = NoRow
        /\ \A k \in Ops : rows[k].late = TRUE => rows[k].status \in {"succeeded", "failed"}
    <3> HIDE DEF rows
    <3> QED
      BY <2>2 DEF RetryFence
  <2>4. op[i].status \in {"running", "interrupted"}
    BY <1>4, <2>1 DEF Complete, Separated
  <2>5. CASE op[i].status = "interrupted"
    <3>1. Overlapped'
      BY <2>1, <2>2, <2>5 DEF Overlapped
    <3>2. QED
      BY <2>1, <2>3, <3>1 DEF RetryFence
  <2>6. CASE op[i].status = "running" /\ Overlapped
    <3>1. op[i].late # TRUE
      BY <2>1, <2>6 DEF RetryFence
    <3>2. PICK k \in Ops : op[k].late = TRUE \/ op[k].bypassed = TRUE
      BY <2>6 DEF Overlapped
    <3>3. rows[k].late = TRUE \/ rows[k].bypassed = TRUE
      <4> HIDE DEF rows
      <4> QED
        BY <2>2, <3>1, <3>2
    <3>4. Overlapped'
      BY <2>1, <3>3 DEF Overlapped
    <3>5. QED
      BY <2>1, <2>3, <3>4 DEF RetryFence
  <2>7. CASE op[i].status = "running" /\ ~Overlapped
    <3>1. state.active = i /\ \A k \in Ops : op[k].wait = 0
      BY <1>t, <2>1, <2>7 DEF RetryFence
    <3>2. CASE o \in ((Errors \ {"throttled"}) \cup {"none"}) \X {0}
      <4>1. o[2] = 0
        BY <3>2
      <4>2. \A k \in Ops : rows[k].wait = 0
        <5> HIDE DEF rows
        <5> QED
          BY <2>2, <3>1, <4>1
      <4>3. QED
        BY <2>1, <2>3, <4>2 DEF RetryFence
    <3>3. CASE o \in {"throttled"} \X RetryAfters
      <4>1. o[1] = "throttled" /\ o[2] \in Nat
        BY <3>3, TimesAssumption
      <4>2. left \in Coordinator /\ left.active = NoOp
        BY <1>t, <3>1, TimesAssumption DEF Left, Coordinator
      <4>3. judged = Opened(left, o[2])
        BY <4>1 DEF Judged
      <4>4. judged.circuit = "open" /\ judged.active = NoOp /\ judged.until = o[2]
        BY <4>2, <4>3 DEF Opened, Coordinator
      <4>5. state' = judged
        BY <2>1, <4>4 DEF ProbeJudged
      <4>6. \A k \in Ops : rows[k].wait <= o[2]
        <5> HIDE DEF rows
        <5> QED
          BY <2>2, <3>1, <4>1
      <4>7. QED
        BY <2>1, <2>3, <4>4, <4>5, <4>6 DEF RetryFence
    <3>4. QED
      BY <3>2, <3>3 DEF Outcomes
  <2>8. QED
    BY <2>4, <2>5, <2>6, <2>7
<1>5. ASSUME NEW c \in Callers, Abandon(c)
      PROVE  RetryFence'
  BY <1>5 DEF Abandon, RetryFence, Overlapped
<1>6. CASE CleanupOps
  <2>1. \A i \in Ops : op[i].wait = 0 /\ op'[i] \in {NoRow, op[i]}
    BY <1>6 DEF CleanupOps
  <2>2. \A i \in Ops : op'[i].wait = 0
    BY <1>z, <2>1
  <2>3. QED
    BY <1>z, <2>1, <2>2 DEF RetryFence
<1>7. CASE Tick
  <2>1. \A row \in Row : /\ Older(row).status = row.status
                         /\ Older(row).late = row.late
                         /\ Older(row).bypassed = row.bypassed
                         /\ row.status = "absent" => Older(row) = row
                         /\ row.status # "absent" => Older(row).wait = Less(row.wait)
    BY DEF Older, Row
  <2>2. \A k \in Ops : /\ op'[k].status = op[k].status /\ op'[k].late = op[k].late
                       /\ op'[k].bypassed = op[k].bypassed
                       /\ op[k].status = "absent" => op'[k] = op[k]
                       /\ op[k].status # "absent" => op'[k].wait = Less(op[k].wait)
    BY <1>7, <1>t, <2>1 DEF Tick
  <2>3. /\ state'.circuit = state.circuit /\ state'.active = state.active
        /\ state'.until = Less(state.until)
    BY <1>7, <1>t DEF Tick, Coordinator
  <2>4. /\ \A k \in Ops : op'[k].status = "absent" => op'[k] = NoRow
        /\ \A k \in Ops : op'[k].late = TRUE => op'[k].status \in {"succeeded", "failed"}
    BY <2>2 DEF RetryFence
  <2>5. Overlapped => Overlapped'
    BY <2>2 DEF Overlapped
  <2>6. \A k \in Ops : op'[k].wait \in {0, Less(op[k].wait)}
    BY <1>z, <2>2 DEF RetryFence
  <2>7. (\A k \in Ops : op[k].wait = 0) => \A k \in Ops : op'[k].wait = 0
    BY <2>6 DEF Less
  <2>8. (\A k \in Ops : op[k].wait <= state.until) => \A k \in Ops : op'[k].wait <= state'.until
    <3>1. \A m, n \in Nat : m <= n => Less(m) <= Less(n) /\ 0 <= Less(n)
      BY DEF Less
    <3>2. QED
      BY <1>w, <2>3, <2>6, <3>1
  <2>9. QED
    BY <2>3, <2>4, <2>5, <2>7, <2>8 DEF RetryFence
<1>8. QED
  BY <1>1, <1>2, <1>3, <1>4, <1>5, <1>6, <1>7 DEF Next

(* A 429 keeps every operation out for its Retry-After: unless an operation *)
(* reported after its lease ran out or an administrator's bypassed the     *)
(* circuit, nobody is admitted while a Retry-After is being waited for.    *)
THEOREM RetryAfterHolds == Spec => RetryAfterKept
<1>1. Init => IInv /\ Separated /\ RetryFence
  <2>1. Init => RetryFence
    BY DEF Init, RetryFence, NoRow
  <2>2. QED
    BY <2>1, InitSound
<1>2. IInv /\ Separated /\ RetryFence /\ [Next]_vars => (IInv /\ Separated /\ RetryFence)'
  BY StepIInv, StepSeparated, StepRetry
<1>3. ASSUME IInv, RetryFence, [Next]_vars, NEW i \in Ops, Admitted(i), ~op'[i].bypassed
      PROVE  \/ \A k \in Ops : op[k].wait = 0
             \/ \E k \in Ops : op[k].late \/ op[k].bypassed
  <2>t. /\ op \in [Ops -> Row] /\ state \in Coordinator
        /\ \A k \in Ops : op[k].wait \in Nat /\ state.until \in Nat
    BY <1>3 DEF IInv, Row, Coordinator
  <2>1. PICK c \in Callers, target \in Targets, kind \in Kinds : Admit(c, i, target, kind)
    BY <1>3, OnlyAdmit
  <2> DEFINE s == Reopened(Freed)
  <2>2. kind # "forced"
    <3>1. op'[i].bypassed = (kind \in {"bypass", "forced"})
      <4>1. op' = [Interrupted EXCEPT ![i] =
                  [NoRow EXCEPT !.status = "running", !.target = target,
                                !.probe = kind = "forced" \/ s.circuit = "half_open",
                                !.bypassed = kind \in {"bypass", "forced"}]]
        BY <2>1 DEF Admit
      <4>2. QED
        BY <4>1 DEF Interrupted, NoRow
    <3>2. QED
      BY <1>3, <3>1
  <2>3. s.circuit # "open"
    BY <2>1, <2>2 DEF Admit, CircuitAdmits
  <2>4. state.circuit # "open" \/ state.until = 0
    BY <2>t, <2>3 DEF Reopened, Freed, Coordinator
  <2>5. CASE Overlapped
    BY <2>5 DEF Overlapped
  <2>6. CASE state.circuit = "open" /\ \A k \in Ops : op[k].wait <= state.until
    BY <2>t, <2>4, <2>6
  <2>7. QED
    BY <1>3, <2>5, <2>6 DEF RetryFence
<1>4. IInv /\ RetryFence /\ [Next]_vars =>
        [\A i \in Ops : Admitted(i) /\ ~op'[i].bypassed =>
           \/ \A k \in Ops : op[k].wait = 0
           \/ \E k \in Ops : op[k].late \/ op[k].bypassed]_vars
  BY <1>3
<1>5. QED
  BY <1>1, <1>2, <1>4, PTL DEF Spec, RetryAfterKept
=============================================================================
