----------------------------- MODULE AccountsProofs ----------------------------
(***************************************************************************)
(* What holds of the components that Accounts composes, for every value of *)
(* their constants; SchoolProofs has those that follow the school.  They   *)
(* share no state: whatever component the focus is on, each of them only   *)
(* takes its own steps, so that what its own specification implies holds   *)
(* of the composition.                                                     *)
(***************************************************************************)
EXTENDS SchoolProofs, FiniteSetTheorems, SequenceTheorems, TLAPS

ReconciliationProofs == INSTANCE OperationalSequenceProofs WITH NoHolder <- Nobody

-----------------------------------------------------------------------------
(* The reconciliation of the sequence: OperationalSequence.                *)

\* In the composition, the reconciliation takes its own steps only.
LEMMA ReconciliationAlone == AccountsSpec => ReconciliationProofs!Spec
<1>1. AccountsInit => ReconciliationProofs!Init
  BY DEF AccountsInit, Reconciliation!Init, ReconciliationProofs!Init, Reconciliation!Ids,
     ReconciliationProofs!Ids, Reconciliation!Modes, ReconciliationProofs!Modes,
     Reconciliation!Unseen, ReconciliationProofs!Unseen
<1>2. [AccountsNext]_accountsVars
        => [ReconciliationProofs!Next]_(ReconciliationProofs!sequenceVars)
  <2>1. [AccountsNext]_accountsVars => [Reconciliation!Next]_(Reconciliation!sequenceVars)
    BY DEF AccountsNext, accountsVars, Schedule, CredentialsStep, AccessStep, ThrottleStep,
       ConversationStep, MigrationStep, ReconciliationStep, KeysetStep, ResultsStep, BoardStep,
       sequenceVars, Reconciliation!sequenceVars
  <2>2. Reconciliation!Next <=> ReconciliationProofs!Next
    <3>1. /\ Reconciliation!Taken = ReconciliationProofs!Taken
          /\ Reconciliation!TableFree <=> ReconciliationProofs!TableFree
          /\ Reconciliation!Unseen = ReconciliationProofs!Unseen
          /\ \A s : Reconciliation!Candidate(s) = ReconciliationProofs!Candidate(s)
          /\ \A o, step : Reconciliation!To(o, step) <=> ReconciliationProofs!To(o, step)
          /\ \A o, receipt : Reconciliation!End(o, receipt) <=> ReconciliationProofs!End(o, receipt)
          /\ \A i, j : Reconciliation!Larger(i, j) = ReconciliationProofs!Larger(i, j)
          /\ \A set : Reconciliation!Highest(set) = ReconciliationProofs!Highest(set)
          /\ Reconciliation!Cardinality(rows) = ReconciliationProofs!Cardinality(rows)
      BY DEF Reconciliation!Taken, ReconciliationProofs!Taken, Reconciliation!TableFree,
         ReconciliationProofs!TableFree, Reconciliation!Unseen, ReconciliationProofs!Unseen,
         Reconciliation!Candidate, ReconciliationProofs!Candidate, Reconciliation!To,
         ReconciliationProofs!To, Reconciliation!End, ReconciliationProofs!End,
         Reconciliation!Larger, ReconciliationProofs!Larger, Reconciliation!Highest,
         ReconciliationProofs!Highest, Reconciliation!Max, ReconciliationProofs!Max,
         Reconciliation!Cardinality, ReconciliationProofs!Cardinality
    <3>2. \A s, h : Reconciliation!SeenSafe(s, h) <=> ReconciliationProofs!SeenSafe(s, h)
      BY <3>1 DEF Reconciliation!SeenSafe, ReconciliationProofs!SeenSafe,
         Reconciliation!ReconciledSafe, ReconciliationProofs!ReconciledSafe
    <3>3. \A w : /\ Reconciliation!InsertSingleton(w) <=> ReconciliationProofs!InsertSingleton(w)
                 /\ Reconciliation!InsertDefault(w) <=> ReconciliationProofs!InsertDefault(w)
                 /\ Reconciliation!CommitInsert(w) <=> ReconciliationProofs!CommitInsert(w)
                 /\ Reconciliation!RollBackInsert(w) <=> ReconciliationProofs!RollBackInsert(w)
      BY <3>1 DEF Reconciliation!InsertSingleton, ReconciliationProofs!InsertSingleton,
         Reconciliation!InsertDefault, ReconciliationProofs!InsertDefault,
         Reconciliation!CommitInsert, ReconciliationProofs!CommitInsert,
         Reconciliation!RollBackInsert, ReconciliationProofs!RollBackInsert
    <3>4. \A o : /\ Reconciliation!Stop(o) <=> ReconciliationProofs!Stop(o)
                 /\ Reconciliation!ReadRevision(o) <=> ReconciliationProofs!ReadRevision(o)
                 /\ Reconciliation!TakeAdvisory(o) <=> ReconciliationProofs!TakeAdvisory(o)
                 /\ Reconciliation!LockTable(o) <=> ReconciliationProofs!LockTable(o)
      BY <3>1 DEF Reconciliation!Stop, ReconciliationProofs!Stop, Reconciliation!ReadRevision,
         ReconciliationProofs!ReadRevision, Reconciliation!TakeAdvisory,
         ReconciliationProofs!TakeAdvisory, Reconciliation!LockTable,
         ReconciliationProofs!LockTable
    <3>5. \A o : Reconciliation!InspectSequence(o) <=> ReconciliationProofs!InspectSequence(o)
      BY DEF Reconciliation!InspectSequence, ReconciliationProofs!InspectSequence
    <3>6. \A o : Reconciliation!InspectTable(o) <=> ReconciliationProofs!InspectTable(o)
      BY <3>1, <3>2, Zenon DEF Reconciliation!InspectTable, ReconciliationProofs!InspectTable
    <3>7. \A o : Reconciliation!Confirm(o) <=> ReconciliationProofs!Confirm(o)
      BY <3>1, Zenon DEF Reconciliation!Confirm, ReconciliationProofs!Confirm
    <3>8. \A o : Reconciliation!Commit(o) <=> ReconciliationProofs!Commit(o)
      BY <3>1 DEF Reconciliation!Commit, ReconciliationProofs!Commit
    <3>9. \A o : Reconciliation!Rerun(o) <=> ReconciliationProofs!Rerun(o)
      BY <3>1 DEF Reconciliation!Rerun, ReconciliationProofs!Rerun
    <3>10. QED
      BY <3>3, <3>4, <3>5, <3>6, <3>7, <3>8, <3>9, Zenon DEF Reconciliation!Next,
         ReconciliationProofs!Next
  <2>3. QED
    BY <2>1, <2>2 DEF Reconciliation!sequenceVars, ReconciliationProofs!sequenceVars
<1>3. QED
  BY <1>1, <1>2, PTL DEF AccountsSpec, ReconciliationProofs!Spec

\* Once an operator was told that the sequence is safe no insertion can
\* collide, and the sequence never goes back.
THEOREM SequenceHolds == AccountsSpec => SequenceSound
<1>1. MaxValue \in Nat \ {0} /\ Nobody \notin Operators
  BY SequenceAssumption
<1>2. ReconciliationProofs!Spec => ReconciliationProofs!SequenceSound
  BY <1>1, ReconciliationProofs!SequenceStaysSound
<1>3. ReconciliationProofs!SafeOnceTold => Reconciliation!SafeOnceTold
  BY DEF ReconciliationProofs!SafeOnceTold, Reconciliation!SafeOnceTold,
     ReconciliationProofs!Safe, Reconciliation!Safe, ReconciliationProofs!Candidate,
     Reconciliation!Candidate, ReconciliationProofs!Highest, Reconciliation!Highest,
     ReconciliationProofs!Taken, Reconciliation!Taken, ReconciliationProofs!Max,
     Reconciliation!Max
<1>4. ReconciliationProofs!NeverBack => Reconciliation!NeverBack
  BY DEF ReconciliationProofs!NeverBack, Reconciliation!NeverBack,
     ReconciliationProofs!sequenceVars, Reconciliation!sequenceVars
<1>5. ReconciliationProofs!SequenceSound => Reconciliation!SequenceSound
  BY <1>3, <1>4, PTL DEF ReconciliationProofs!SequenceSound, Reconciliation!SequenceSound
<1>6. QED
  BY <1>2, <1>5, ReconciliationAlone, PTL DEF SequenceSound

-----------------------------------------------------------------------------
(* The stored sessions: SessionMigration.                                  *)

\* In the composition, the migration takes its own steps only.
LEMMA MigrationAlone == AccountsSpec => Migration!Spec
<1>1. AccountsInit => Migration!Init
  BY DEF AccountsInit
<1>2. [AccountsNext]_accountsVars => [Migration!Next]_(Migration!migrationVars)
  BY DEF AccountsNext, accountsVars, Schedule, CredentialsStep, AccessStep, ThrottleStep,
     ConversationStep, MigrationStep, ReconciliationStep, KeysetStep, ResultsStep, BoardStep,
     migrationVars, Migration!migrationVars
<1>3. QED
  BY <1>1, <1>2, PTL DEF AccountsSpec, Migration!Spec

\* A row is one that has ended or never was, without a ciphertext, or the
\* active one of its last snapshot, in one of the two formats.
Sealed(n, format) == [state |-> "active", jar |-> IF format = "jar" THEN n ELSE 0,
                      hpke |-> IF format = "hpke" THEN n ELSE 0]
RowSound(s) ==
  \/ \E state \in {"absent", "expired", "revoked", "invalid"} : stored[s] = Migration!Ended(state)
  \/ latest[s] # 0 /\ \E format \in {"jar", "hpke"} : stored[s] = Sealed(latest[s], format)

\* The inductive invariant of the stored sessions.
SessionsInv ==
  /\ stored = [s \in Stored |-> stored[s]] /\ latest \in [Stored -> Nat]
  /\ \A s \in Stored : RowSound(s)
  /\ revoked \subseteq Stored
  /\ Migration!RevokedStaysDead /\ Migration!DrainedForGood

\* What the fields of a sound row are.
LEMMA RowFields ==
  ASSUME NEW s, RowSound(s), latest[s] \in Nat
  PROVE  /\ stored[s] = [state |-> stored[s].state, jar |-> stored[s].jar, hpke |-> stored[s].hpke]
         /\ stored[s].state \in {"absent", "active", "expired", "revoked", "invalid"}
         /\ stored[s].state # "active" => /\ stored[s].jar = 0 /\ stored[s].hpke = 0
                                          /\ stored[s] = Migration!Ended(stored[s].state)
         /\ stored[s].state = "active" =>
              /\ latest[s] # 0
              /\ \/ stored[s].jar = latest[s] /\ stored[s].hpke = 0
                 \/ stored[s].jar = 0 /\ stored[s].hpke = latest[s]
<1>1. ASSUME NEW state \in {"absent", "expired", "revoked", "invalid"},
             stored[s] = Migration!Ended(state)
      PROVE  /\ stored[s] = [state |-> state, jar |-> 0, hpke |-> 0]
             /\ stored[s].state = state /\ stored[s].jar = 0 /\ stored[s].hpke = 0
  BY <1>1 DEF Migration!Ended, Migration!NoRow, Migration!None
<1>2. ASSUME NEW format \in {"jar", "hpke"}, stored[s] = Sealed(latest[s], format)
      PROVE  /\ stored[s] = [state |-> "active", jar |-> stored[s].jar, hpke |-> stored[s].hpke]
             /\ stored[s].state = "active"
             /\ \/ stored[s].jar = latest[s] /\ stored[s].hpke = 0
                \/ stored[s].jar = 0 /\ stored[s].hpke = latest[s]
  BY <1>2 DEF Sealed
<1>3. CASE \E state \in {"absent", "expired", "revoked", "invalid"} :
              stored[s] = Migration!Ended(state)
  BY <1>1, <1>3
<1>4. CASE latest[s] # 0 /\ \E format \in {"jar", "hpke"} : stored[s] = Sealed(latest[s], format)
  BY <1>2, <1>4
<1>5. QED
  BY <1>3, <1>4 DEF RowSound

\* A step that changes rows soundly, leaves the dead ones and makes no jar.
LEMMA RowsStep ==
  ASSUME SessionsInv, stored' = [s \in Stored |-> stored'[s]], latest' \in [Stored -> Nat],
         \A s \in Stored : RowSound(s)', revoked' \subseteq Stored,
         \A s \in revoked' : stored'[s] = Migration!Ended("revoked"),
         drained' => drained \/ \A s \in Stored : stored[s].jar = 0,
         \A s \in Stored : stored[s].jar = 0 => stored'[s].jar = 0
  PROVE  SessionsInv'
BY DEF SessionsInv, Migration!RevokedStaysDead, Migration!DrainedForGood, Migration!None

\* A row that keeps its content and its snapshot stays sound.
LEMMA RowKept ==
  ASSUME NEW s, RowSound(s), stored'[s] = stored[s], latest'[s] = latest[s]
  PROVE  RowSound(s)'
BY DEF RowSound

\* A row becomes one of those that ended.
LEMMA RowEnded ==
  ASSUME NEW s, NEW state \in {"expired", "revoked", "invalid"},
         stored'[s] = Migration!Ended(state)
  PROVE  RowSound(s)' /\ stored'[s].jar = 0
BY DEF RowSound, Migration!Ended, Migration!NoRow, Migration!None

\* A row gets the snapshot that is its last, in the format of HPKE.
LEMMA RowSealed ==
  ASSUME NEW s, latest'[s] # 0, latest'[s] \in Nat,
         stored'[s] = [state |-> "active", jar |-> 0, hpke |-> latest'[s]]
  PROVE  RowSound(s)' /\ stored'[s].jar = 0
<1>1. Sealed(latest'[s], "hpke") = [state |-> "active", jar |-> 0, hpke |-> latest'[s]]
  BY DEF Sealed
<1>2. QED
  BY <1>1 DEF RowSound

\* What the migration makes of a legacy row.
LEMMA MigratedRow ==
  ASSUME NEW n
  PROVE  Migration!Migrated([state |-> "active", jar |-> n, hpke |-> 0])
           = [state |-> "active", jar |-> 0, hpke |-> n]
<1> DEFINE r == [state |-> "active", jar |-> n, hpke |-> 0]
           emptied == [r EXCEPT !.jar = 0]
<1>1. emptied = [state |-> "active", jar |-> 0, hpke |-> 0] /\ r.jar = n
  OBVIOUS
<1>2. Migration!Migrated(r) = [emptied EXCEPT !.hpke = r.jar]
  BY DEF Migration!Migrated, Migration!None
<1> HIDE DEF r, emptied
<1>3. [emptied EXCEPT !.hpke = n] = [state |-> "active", jar |-> 0, hpke |-> n]
  BY <1>1
<1>4. QED
  BY <1>1, <1>2, <1>3 DEF r

\* A dead row is not live, and is there.
LEMMA DeadRow ==
  ASSUME SessionsInv, NEW s \in revoked
  PROVE  stored[s] = Migration!Ended("revoked") /\ stored[s].state = "revoked"
BY DEF SessionsInv, Migration!RevokedStaysDead, Migration!Ended, Migration!NoRow

\* Every step keeps the invariant of the stored sessions.
LEMMA StepSessions == SessionsInv /\ [Migration!Next]_(Migration!migrationVars) => SessionsInv'
<1> SUFFICES ASSUME SessionsInv, [Migration!Next]_(Migration!migrationVars)
             PROVE  SessionsInv'
  OBVIOUS
<1>i. /\ stored = [s \in Stored |-> stored[s]] /\ latest \in [Stored -> Nat]
      /\ \A s \in Stored : RowSound(s) /\ latest[s] \in Nat
      /\ revoked \subseteq Stored
  BY DEF SessionsInv
<1>1. ASSUME NEW s \in Stored, Migration!EndSession(s)
      PROVE  SessionsInv'
  <2>1. PICK state \in {"expired", "revoked", "invalid"} :
          stored' = [stored EXCEPT ![s] = Migration!Ended(state)]
    BY <1>1 DEF Migration!EndSession
  <2>2. latest' = latest /\ drained' = drained /\ revoked' = revoked /\ stored[s].state = "active"
    BY <1>1 DEF Migration!EndSession, Migration!Live
  <2>3. /\ stored' = [v \in Stored |-> stored'[v]] /\ stored'[s] = Migration!Ended(state)
        /\ \A v \in Stored : v # s => stored'[v] = stored[v]
    BY <1>i, <2>1
  <2>4. RowSound(s)' /\ stored'[s].jar = 0
    BY <2>3, RowEnded
  <2>5. \A v \in Stored : RowSound(v)'
    BY <1>i, <2>2, <2>3, <2>4, RowKept
  <2>6. \A v \in revoked : v # s /\ stored'[v] = Migration!Ended("revoked")
    BY <1>i, <2>2, <2>3, DeadRow
  <2>7. QED
    BY <1>i, <2>2, <2>3, <2>4, <2>5, <2>6, RowsStep
<1>2. ASSUME NEW s \in Stored, Migration!StoreSession(s)
      PROVE  SessionsInv'
  <2>1. /\ stored[s].state = "absent"
        /\ stored' = [t \in Stored |->
              IF t = s THEN [Migration!NoRow EXCEPT !.state = "active", !.hpke = 1]
              ELSE IF Migration!Live(t) THEN Migration!Ended("revoked") ELSE stored[t]]
        /\ latest' = [latest EXCEPT ![s] = 1] /\ drained' = drained /\ revoked' = revoked
    BY <1>2 DEF Migration!StoreSession
  <2>2. stored'[s] = [state |-> "active", jar |-> 0, hpke |-> 1] /\ latest'[s] = 1
    BY <1>i, <2>1 DEF Migration!NoRow, Migration!None
  <2>3. RowSound(s)' /\ stored'[s].jar = 0
    BY <2>2, RowSealed
  <2>4. ASSUME NEW t \in Stored, t # s
        PROVE  /\ RowSound(t)' /\ (stored[t].jar = 0 => stored'[t].jar = 0)
               /\ stored[t].state = "revoked" => stored'[t] = stored[t]
    <3>1. latest'[t] = latest[t]
      BY <1>i, <2>1, <2>4
    <3>2. CASE Migration!Live(t)
      <4>1. stored'[t] = Migration!Ended("revoked") /\ stored[t].state = "active"
        BY <2>1, <2>4, <3>2 DEF Migration!Live
      <4>2. QED
        BY <4>1, RowEnded
    <3>3. CASE ~Migration!Live(t)
      <4>1. stored'[t] = stored[t]
        BY <2>1, <2>4, <3>3
      <4>2. QED
        BY <1>i, <3>1, <4>1, RowKept
    <3>4. QED
      BY <3>2, <3>3
  <2>5. \A v \in revoked : stored'[v] = Migration!Ended("revoked")
    BY <1>i, <2>1, <2>4, DeadRow
  <2>6. /\ stored' = [v \in Stored |-> stored'[v]] /\ latest' \in [Stored -> Nat]
    BY <1>i, <2>1
  <2>7. QED
    BY <1>i, <2>1, <2>3, <2>4, <2>5, <2>6, RowsStep
<1>3. ASSUME NEW s \in Stored, Migration!MigrateRow(s)
      PROVE  SessionsInv'
  <2>1. /\ stored[s].state = "active" /\ stored[s].jar # 0
        /\ stored' = [stored EXCEPT ![s] = Migration!Migrated(stored[s])]
        /\ latest' = latest /\ drained' = drained /\ revoked' = revoked
    BY <1>3 DEF Migration!MigrateRow, Migration!Live, Migration!None
  <2>2. stored[s] = [state |-> "active", jar |-> latest[s], hpke |-> 0] /\ latest[s] # 0
    BY <1>i, <2>1, RowFields
  <2>3. Migration!Migrated(stored[s]) = [state |-> "active", jar |-> 0, hpke |-> latest[s]]
    BY <2>2, MigratedRow
  <2>4. /\ stored' = [v \in Stored |-> stored'[v]]
        /\ stored'[s] = [state |-> "active", jar |-> 0, hpke |-> latest[s]]
        /\ \A v \in Stored : v # s => stored'[v] = stored[v]
    BY <1>i, <2>1, <2>3
  <2>5. RowSound(s)' /\ stored'[s].jar = 0
    BY <1>i, <2>1, <2>2, <2>4, RowSealed
  <2>6. \A v \in Stored : RowSound(v)'
    BY <1>i, <2>1, <2>4, <2>5, RowKept
  <2>7. \A v \in revoked : v # s /\ stored'[v] = Migration!Ended("revoked")
    BY <1>i, <2>1, <2>4, DeadRow
  <2>8. QED
    BY <1>i, <2>1, <2>4, <2>5, <2>6, <2>7, RowsStep
<1>4. ASSUME NEW w \in Reusers, Migration!RefreshSession(w)
      PROVE  SessionsInv'
  <2>s. PICK s : s = reuser[w]
    OBVIOUS
  <2>1. drained' = drained /\ revoked' = revoked
    BY <1>4 DEF Migration!RefreshSession
  <2>2. CASE UNCHANGED <<stored, latest>>
    BY <1>i, <2>1, <2>2, RowKept, RowsStep DEF SessionsInv, Migration!RevokedStaysDead
  <2>3. CASE ~UNCHANGED <<stored, latest>>
    <3>1. /\ stored[s].state = "active"
          /\ latest' = [latest EXCEPT ![s] = @ + 1]
          /\ stored' = [stored EXCEPT ![s] = [state |-> "active", jar |-> 0, hpke |-> latest[s] + 1]]
      BY <1>4, <2>s, <2>3 DEF Migration!RefreshSession, Migration!Refreshable, Migration!Live,
         Migration!None
    <3>2. CASE s \in Stored
      <4>1. /\ stored' = [v \in Stored |-> stored'[v]] /\ latest' \in [Stored -> Nat]
            /\ latest'[s] = latest[s] + 1
            /\ stored'[s] = [state |-> "active", jar |-> 0, hpke |-> latest'[s]]
            /\ \A v \in Stored : v # s => stored'[v] = stored[v] /\ latest'[v] = latest[v]
        BY <1>i, <3>1, <3>2
      <4>2. latest'[s] # 0 /\ latest'[s] \in Nat
        BY <1>i, <3>2, <4>1
      <4>3. RowSound(s)' /\ stored'[s].jar = 0
        BY <4>1, <4>2, RowSealed
      <4>4. \A v \in Stored : RowSound(v)'
        BY <1>i, <4>1, <4>3, RowKept
      <4>5. \A v \in revoked : v # s /\ stored'[v] = Migration!Ended("revoked")
        BY <1>i, <3>1, <4>1, DeadRow
      <4>6. QED
        BY <1>i, <2>1, <4>1, <4>3, <4>4, <4>5, RowsStep
    <3>3. CASE s \notin Stored
      <4>1. stored' = stored /\ latest' = latest
        BY <1>i, <3>1, <3>3
      <4>2. QED
        BY <2>3, <4>1
    <3>4. QED
      BY <3>2, <3>3
  <2>4. QED
    BY <2>2, <2>3
<1>5. CASE Migration!CountRemaining
  <2>1. /\ \A s \in Stored : stored[s].jar = 0
        /\ stored' = stored /\ latest' = latest /\ revoked' = revoked
    BY <1>5 DEF Migration!CountRemaining, Migration!None
  <2>2. QED
    BY <1>i, <2>1, RowKept, RowsStep DEF SessionsInv, Migration!RevokedStaysDead
<1>6. CASE Migration!RevokeAll
  <2> DEFINE after == [s \in Stored |-> IF s \in Migration!Read THEN Migration!Written(s)
                                        ELSE stored[s]]
  <2>1. latest' = latest /\ drained' = drained
    BY <1>6 DEF Migration!RevokeAll
  <2>2. CASE UNCHANGED <<stored, revoked>>
    BY <1>i, <2>1, <2>2, RowKept, RowsStep DEF SessionsInv, Migration!RevokedStaysDead
  <2>3. CASE ~UNCHANGED <<stored, revoked>>
    <3>1. /\ \A s \in Migration!Read : Migration!Admitted(after[s])
          /\ stored' = after /\ revoked' = revoked \cup Migration!Read
      BY <1>6, <2>3 DEF Migration!RevokeAll
    <3>2. Migration!Read \subseteq Stored
      BY DEF Migration!Read
    <3>3. ASSUME NEW s \in Migration!Read
          PROVE  stored'[s] = Migration!Ended("revoked")
      <4>1. s \in Stored /\ stored'[s] = Migration!Written(s) /\ Migration!Admitted(stored'[s])
        BY <3>1, <3>2, <3>3
      <4>2. stored'[s].state = "revoked" /\ stored'[s].jar = 0 /\ stored'[s].hpke = 0
        BY <4>1 DEF Migration!Written, Migration!Admitted, Migration!None
      <4>3. stored'[s] = [state |-> stored'[s].state, jar |-> stored'[s].jar,
                          hpke |-> stored'[s].hpke]
        BY <4>1 DEF Migration!Written
      <4>4. QED
        BY <4>2, <4>3 DEF Migration!Ended, Migration!NoRow, Migration!None
    <3>4. \A s \in Migration!Read : RowSound(s)' /\ stored'[s].jar = 0
      BY <3>3, RowEnded
    <3>5. \A s \in Stored : s \notin Migration!Read => stored'[s] = stored[s]
      BY <3>1
    <3>6. \A s \in Stored : RowSound(s)'
      BY <1>i, <2>1, <3>4, <3>5, RowKept
    <3>7. \A s \in revoked' : stored'[s] = Migration!Ended("revoked")
      BY <1>i, <3>1, <3>3, <3>5, DeadRow
    <3>8. stored' = [s \in Stored |-> stored'[s]] /\ revoked' \subseteq Stored
      BY <1>i, <3>1, <3>2
    <3>9. QED
      BY <1>i, <2>1, <3>4, <3>5, <3>6, <3>7, <3>8, RowsStep
  <2>4. QED
    BY <2>2, <2>3
<1>7. CASE UNCHANGED <<stored, latest, drained, revoked>>
  BY <1>i, <1>7, RowKept, RowsStep DEF SessionsInv, Migration!RevokedStaysDead
<1>8. QED
  <2>1. ASSUME NEW w \in Reusers, NEW s \in Stored, Migration!LoadSession(w, s)
        PROVE  UNCHANGED <<stored, latest, drained, revoked>>
    BY <2>1 DEF Migration!LoadSession
  <2>2. Migration!ReadAll => UNCHANGED <<stored, latest, drained, revoked>>
    BY DEF Migration!ReadAll
  <2>3. UNCHANGED Migration!migrationVars => UNCHANGED <<stored, latest, drained, revoked>>
    BY DEF Migration!migrationVars
  <2>4. QED
    BY <1>1, <1>2, <1>3, <1>4, <1>5, <1>6, <1>7, <2>1, <2>2, <2>3 DEF Migration!Next

\* The invariant holds in the beginning.
LEMMA InitSessions == Migration!Init => SessionsInv
<1> SUFFICES ASSUME Migration!Init
             PROVE  SessionsInv
  OBVIOUS
<1>1. PICK s \in OldStored, r \in {[Migration!NoRow EXCEPT !.state = "active", !.jar = 1],
                                     [Migration!NoRow EXCEPT !.state = "active", !.hpke = 1]} :
        stored = [t \in Stored |-> IF t = s THEN r
                                   ELSE IF t \in OldStored
                                        THEN [Migration!NoRow EXCEPT !.state = "revoked"]
                                   ELSE Migration!NoRow]
  BY DEF Migration!Init
<1>2. /\ latest = [t \in Stored |-> IF t \in OldStored THEN 1 ELSE 0]
      /\ drained = FALSE /\ revoked = {}
  BY DEF Migration!Init, Migration!None
<1>3. r = [state |-> "active", jar |-> 1, hpke |-> 0]
        \/ r = [state |-> "active", jar |-> 0, hpke |-> 1]
  BY <1>1 DEF Migration!NoRow, Migration!None
<1>4. ASSUME NEW t \in Stored
      PROVE  RowSound(t)
  <2>1. CASE t = s
    <3>1. latest[t] = 1 /\ stored[t] = r
      BY <1>1, <1>2, <2>1
    <3>2. /\ Sealed(latest[t], "jar") = [state |-> "active", jar |-> 1, hpke |-> 0]
          /\ Sealed(latest[t], "hpke") = [state |-> "active", jar |-> 0, hpke |-> 1]
      BY <3>1 DEF Sealed
    <3>3. QED
      BY <1>3, <3>1, <3>2 DEF RowSound
  <2>2. CASE t # s /\ t \in OldStored
    BY <1>1, <2>2 DEF RowSound, Migration!Ended
  <2>3. CASE t # s /\ t \notin OldStored
    <3>1. stored[t] = Migration!Ended("absent")
      BY <1>1, <2>3 DEF Migration!Ended, Migration!NoRow
    <3>2. QED
      BY <3>1 DEF RowSound
  <2>4. QED
    BY <2>1, <2>2, <2>3
<1>5. QED
  BY <1>1, <1>2, <1>4 DEF SessionsInv, Migration!RevokedStaysDead, Migration!DrainedForGood

\* Whatever runs beside them, the sessions that a revocation has read stay
\* dead, an active one holds its last snapshot in one format, and no legacy
\* row comes back once none was counted.
THEOREM SessionsHold == AccountsSpec => []SessionsSound
<1>1. AccountsSpec => []SessionsInv
  BY MigrationAlone, InitSessions, StepSessions, PTL DEF Migration!Spec
<1>2. SessionsInv => SessionsSound
  <2> SUFFICES ASSUME SessionsInv
               PROVE  SessionsSound
    OBVIOUS
  <2>1. ASSUME NEW s \in Stored
        PROVE  {stored[s].jar, stored[s].hpke} \ {0}
                 = (IF Migration!Live(s) THEN {latest[s]} ELSE {})
    <3>1. RowSound(s) /\ latest[s] \in Nat
      BY DEF SessionsInv
    <3>2. CASE Migration!Live(s)
      <4>1. latest[s] # 0 /\ \/ stored[s].jar = latest[s] /\ stored[s].hpke = 0
                             \/ stored[s].jar = 0 /\ stored[s].hpke = latest[s]
        BY <3>1, <3>2, RowFields DEF Migration!Live
      <4>2. {stored[s].jar, stored[s].hpke} \ {0} = {latest[s]}
        BY <4>1
      <4>3. QED
        BY <3>2, <4>2
    <3>3. CASE ~Migration!Live(s)
      BY <3>1, <3>3, RowFields DEF Migration!Live
    <3>4. QED
      BY <3>2, <3>3
  <2>2. QED
    BY <2>1 DEF SessionsInv, SessionsSound, Migration!SessionsSound, Migration!LatestKept,
       Migration!None
<1>3. QED
  BY <1>1, <1>2, PTL

-----------------------------------------------------------------------------
(* The throttle before the identity provider: AuthThrottle.                *)

\* In the composition, the throttle takes its own steps only.
LEMMA ThrottleAlone == AccountsSpec => AuthThrottle!ThrottleSpec
<1>1. AccountsInit => AuthThrottle!Init
  BY DEF AccountsInit
<1>2. [AccountsNext]_accountsVars => [AuthThrottle!Next]_(AuthThrottle!throttleVars)
  BY DEF AccountsNext, accountsVars, Schedule, CredentialsStep, AccessStep, ThrottleStep,
     ConversationStep, MigrationStep, ReconciliationStep, KeysetStep, ResultsStep, BoardStep,
     throttleVars, AuthThrottle!throttleVars
<1>3. QED
  BY <1>1, <1>2, PTL DEF AccountsSpec, AuthThrottle!ThrottleSpec

\* The logins of a client that are past their check.
Checked == [phase : {"checked", "running"}, target : Targets, client : Clients]
InFlight(c) == {l \in Logins : logins[l] \in Checked /\ logins[l].client = c}

\* The inductive invariant: the answers a client got and its logins past their
\* check, together; and a storm blocks for StormPause from its last failure.
CountedOf(c) == Cardinality(AuthThrottle!Answered(c)) + Cardinality(InFlight(c))
Entries == [target : Targets, client : Clients, outcome : {"success", "invalid", "upstream"},
            at : Nat]
Date == Nat \cup {Unset}
BlockRow == [failures : Nat, failedAt : Date, succeededAt : Date,
             level : 0 .. Len(ClientDelays) - 1, escalatedAt : Date, until : Date]
ClientRowsSound == \A c \in DOMAIN clientRows : clientRows[c] \in BlockRow
ThrottleInv ==
  /\ now \in Nat /\ attempts \in Seq(Entries)
  /\ logins = [l \in Logins |-> logins[l]]
  /\ \A l \in Logins : logins[l] = AuthThrottle!Idle \/ logins[l] \in Checked
  /\ \A c \in Clients : CountedOf(c) < AttemptLimit + Cardinality(Logins)
  /\ systemUntil = Unset \/ (systemUntil \in Nat /\ systemUntil <= now + StormPause)
  /\ ClientRowsSound

\* An idle login is not past its check.
LEMMA IdleUnchecked == AuthThrottle!Idle \notin Checked
  BY DEF AuthThrottle!Idle, Checked

\* What is counted is finite.
LEMMA CountedFinite ==
  ASSUME ThrottleInv, NEW c
  PROVE  /\ IsFiniteSet(AuthThrottle!Answered(c)) /\ IsFiniteSet(InFlight(c))
         /\ Cardinality(AuthThrottle!Answered(c)) \in Nat /\ Cardinality(InFlight(c)) \in Nat
         /\ Cardinality(Logins) \in Nat /\ Cardinality(InFlight(c)) <= Cardinality(Logins)
         /\ DOMAIN attempts = 1 .. Len(attempts) /\ Len(attempts) \in Nat
<1>1. DOMAIN attempts = 1 .. Len(attempts) /\ Len(attempts) \in Nat
  BY DEF ThrottleInv
<1>2. IsFiniteSet(1 .. Len(attempts))
  BY <1>1, FS_Interval
<1>3. AuthThrottle!Answered(c) \subseteq 1 .. Len(attempts)
  BY <1>1 DEF AuthThrottle!Answered, AuthThrottle!Indices
<1>4. IsFiniteSet(Logins) /\ InFlight(c) \subseteq Logins
  BY ThrottleAssumption DEF InFlight
<1>5. IsFiniteSet(AuthThrottle!Answered(c)) /\ IsFiniteSet(InFlight(c))
  BY <1>2, <1>3, <1>4, FS_Subset
<1>6. Cardinality(InFlight(c)) <= Cardinality(Logins)
  BY <1>4, FS_Subset
<1>7. QED
  BY <1>1, <1>4, <1>5, <1>6, FS_CardinalityType

\* What is counted of a client does not grow unless its limit was checked.
LEMMA CountedLess ==
  ASSUME ThrottleInv, NEW c \in Clients,
         AuthThrottle!Answered(c)' \subseteq AuthThrottle!Answered(c),
         InFlight(c)' \subseteq InFlight(c)
  PROVE  CountedOf(c)' < AttemptLimit + Cardinality(Logins)
<1>1. /\ Cardinality(AuthThrottle!Answered(c)') <= Cardinality(AuthThrottle!Answered(c))
      /\ Cardinality(InFlight(c)') <= Cardinality(InFlight(c))
      /\ Cardinality(AuthThrottle!Answered(c)') \in Nat /\ Cardinality(InFlight(c)') \in Nat
  BY CountedFinite, FS_Subset, FS_CardinalityType
<1>2. CountedOf(c) < AttemptLimit + Cardinality(Logins)
  BY DEF ThrottleInv
<1>3. CountedOf(c)' = Cardinality(AuthThrottle!Answered(c)') + Cardinality(InFlight(c)')
  BY DEF CountedOf
<1>4. CountedOf(c) = Cardinality(AuthThrottle!Answered(c)) + Cardinality(InFlight(c))
  BY DEF CountedOf
<1>5. QED
  BY <1>1, <1>2, <1>3, <1>4, CountedFinite, ThrottleAssumption

\* A login that changes from "before" to "after" moves in flight accordingly.
LEMMA InFlightStep ==
  ASSUME ThrottleInv, NEW l \in Logins, NEW after, logins' = [logins EXCEPT ![l] = after],
         after = AuthThrottle!Idle \/ after \in Checked
  PROVE  /\ logins' = [k \in Logins |-> logins'[k]]
         /\ \A k \in Logins : logins'[k] = AuthThrottle!Idle \/ logins'[k] \in Checked
         /\ logins'[l] = after /\ \A k \in Logins : k # l => logins'[k] = logins[k]
BY DEF ThrottleInv

\* A row that blocks survives the pruning of its scope, and another's update.
LEMMA BlockedKept ==
  ASSUME NEW c \in DOMAIN clientRows, AuthThrottle!Blocked(clientRows[c]), NEW maximum,
         NEW kept \in AuthThrottle!Pruned(clientRows, maximum), NEW d, d # c, NEW r
  PROVE  /\ c \in DOMAIN AuthThrottle!With(kept, d, r)
         /\ AuthThrottle!With(kept, d, r)[c] = clientRows[c]
<1>1. PICK gone : /\ \A k \in gone : ~AuthThrottle!Blocked(clientRows[k])
                  /\ kept = AuthThrottle!Restricted(clientRows, AuthThrottle!Fresh(clientRows) \ gone)
  BY DEF AuthThrottle!Pruned
<1>2. c \in AuthThrottle!Fresh(clientRows) \ gone
  BY <1>1 DEF AuthThrottle!Fresh
<1>3. c \in DOMAIN kept /\ kept[c] = clientRows[c]
  BY <1>1, <1>2 DEF AuthThrottle!Restricted
<1>4. QED
  BY <1>3 DEF AuthThrottle!With

\* The rows that a pruning keeps are as they were.
LEMMA PrunedRows ==
  ASSUME NEW maximum, NEW kept \in AuthThrottle!Pruned(clientRows, maximum)
  PROVE  \A c \in DOMAIN kept : c \in DOMAIN clientRows /\ kept[c] = clientRows[c]
<1>1. PICK gone :
        kept = AuthThrottle!Restricted(clientRows, AuthThrottle!Fresh(clientRows) \ gone)
  BY DEF AuthThrottle!Pruned
<1>2. AuthThrottle!Fresh(clientRows) \subseteq DOMAIN clientRows
  BY DEF AuthThrottle!Fresh
<1>3. QED
  BY <1>1, <1>2 DEF AuthThrottle!Restricted

\* What blocking a client leaves of the scope: one row is written, blocked
\* from now, the others are those that a pruning keeps.
LEMMA EscalatedRows ==
  ASSUME ThrottleInv, NEW t, NEW c, AuthThrottle!Escalate(t, c)
  PROVE  /\ ClientRowsSound'
         /\ \A d \in DOMAIN clientRows : d # c /\ AuthThrottle!Blocked(clientRows[d])
              => d \in DOMAIN clientRows' /\ clientRows'[d] = clientRows[d]
         /\ c \in DOMAIN clientRows => ~AuthThrottle!Blocked(clientRows[c])
<1>1. PICK kept, r, level :
        /\ kept \in AuthThrottle!Pruned(clientRows, MaxClientStates)
        /\ r = IF c \in DOMAIN kept THEN kept[c] ELSE AuthThrottle!NewRow
        /\ level = IF ~AuthThrottle!Since(r.escalatedAt, Quiet) THEN 0
                   ELSE IF r.level < Len(ClientDelays) - 1 THEN r.level + 1
                   ELSE Len(ClientDelays) - 1
        /\ clientRows' = AuthThrottle!With(kept, c,
             [r EXCEPT !.level = level, !.escalatedAt = now,
                         !.until = now + ClientDelays[level + 1]])
  BY DEF AuthThrottle!Escalate
<1>2. \A d \in DOMAIN kept : d \in DOMAIN clientRows /\ kept[d] = clientRows[d]
  BY <1>1, PrunedRows
<1>3. Len(ClientDelays) \in Nat \ {0} /\ ClientDelays \in Seq(Nat) /\ now \in Nat
  BY ThrottleAssumption DEF ThrottleInv
<1>4. r \in BlockRow
  <2>1. AuthThrottle!NewRow \in BlockRow
    BY <1>3 DEF AuthThrottle!NewRow, BlockRow, Date
  <2>2. QED
    BY <1>1, <1>2, <2>1 DEF ThrottleInv, ClientRowsSound
<1>5. level \in 0 .. Len(ClientDelays) - 1
  <2>1. r.level \in 0 .. Len(ClientDelays) - 1
    BY <1>4 DEF BlockRow
  <2>2. QED
    BY <1>1, <1>3, <2>1
<1>6. now + ClientDelays[level + 1] \in Nat
  BY <1>3, <1>5
<1>7. PICK until : until = now + ClientDelays[level + 1]
  OBVIOUS
<1>8. PICK written : written = [r EXCEPT !.level = level, !.escalatedAt = now, !.until = until]
  OBVIOUS
<1>9. written \in BlockRow
  <2>1. now \in Date /\ until \in Date
    BY <1>3, <1>6, <1>7 DEF Date
  <2>2. PICK x : x = [r EXCEPT !.level = level]
    OBVIOUS
  <2>3. x \in BlockRow
    BY <1>4, <1>5, <2>2 DEF BlockRow
  <2>4. PICK y : y = [x EXCEPT !.escalatedAt = now]
    OBVIOUS
  <2>5. y \in BlockRow
    BY <2>1, <2>3, <2>4 DEF BlockRow
  <2>6. written = [y EXCEPT !.until = until]
    BY <1>8, <2>2, <2>4
  <2>7. QED
    BY <2>1, <2>5, <2>6 DEF BlockRow
<1>10. clientRows' = AuthThrottle!With(kept, c, written)
  BY <1>1, <1>7, <1>8
<1>11. /\ DOMAIN clientRows' = DOMAIN kept \cup {c} /\ clientRows'[c] = written
       /\ \A d \in DOMAIN kept : d # c => clientRows'[d] = kept[d]
  BY <1>10 DEF AuthThrottle!With
<1>12. ClientRowsSound'
  BY <1>2, <1>9, <1>11 DEF ThrottleInv, ClientRowsSound
<1>13. \A d \in DOMAIN clientRows : d # c /\ AuthThrottle!Blocked(clientRows[d])
         => d \in DOMAIN clientRows' /\ clientRows'[d] = clientRows[d]
  BY <1>1, <1>10, BlockedKept
<1>14. c \in DOMAIN clientRows => ~AuthThrottle!Blocked(clientRows[c])
  BY DEF AuthThrottle!Escalate, AuthThrottle!Refused
<1>15. QED
  BY <1>12, <1>13, <1>14

\* Every step keeps the invariant of the throttle.
LEMMA StepThrottle ==
  ThrottleInv /\ [AuthThrottle!Next]_(AuthThrottle!throttleVars) => ThrottleInv'
<1> SUFFICES ASSUME ThrottleInv, [AuthThrottle!Next]_(AuthThrottle!throttleVars)
             PROVE  ThrottleInv'
  OBVIOUS
<1>t. /\ now \in Nat /\ StormPause \in Nat /\ Window \in Nat
      /\ AttemptLimit \in Nat \ {0} /\ Cardinality(Logins) \in Nat
  BY ThrottleAssumption, FS_CardinalityType DEF ThrottleInv
<1>s. systemUntil' = systemUntil /\ now' = now
        => (systemUntil' = Unset \/ (systemUntil' \in Nat /\ systemUntil' <= now' + StormPause))
  BY DEF ThrottleInv
<1>a. ASSUME attempts' = attempts, now' = now, NEW c
      PROVE  AuthThrottle!Answered(c)' = AuthThrottle!Answered(c)
  BY <1>a DEF AuthThrottle!Answered, AuthThrottle!Indices
<1>1. ASSUME NEW l \in Logins, NEW t \in Targets, NEW c \in Clients, AuthThrottle!Allow(l, t, c)
      PROVE  ThrottleInv'
  <2> DEFINE after == [phase |-> "checked", target |-> t, client |-> c]
  <2>1. /\ ~AuthThrottle!AtLimit(c) /\ logins' = [logins EXCEPT ![l] = after]
        /\ attempts' = attempts /\ now' = now /\ systemUntil' = systemUntil
        /\ clientRows' = clientRows
    BY <1>1 DEF AuthThrottle!Allow
  <2>2. after \in Checked /\ after.client = c
    BY DEF Checked
  <2> HIDE DEF after
  <2>3. /\ logins' = [k \in Logins |-> logins'[k]]
        /\ \A k \in Logins : logins'[k] = AuthThrottle!Idle \/ logins'[k] \in Checked
        /\ logins'[l] = after /\ \A k \in Logins : k # l => logins'[k] = logins[k]
    BY <2>1, <2>2, InFlightStep
  <2>4. ASSUME NEW d \in Clients
        PROVE  CountedOf(d)' < AttemptLimit + Cardinality(Logins)
    <3>1. CASE d = c
      <4>1. Cardinality(AuthThrottle!Answered(c)) < AttemptLimit
        <5>1. AuthThrottle!Cardinality(AuthThrottle!Answered(c))
                = Cardinality(AuthThrottle!Answered(c))
          BY DEF AuthThrottle!Cardinality, Cardinality
        <5>2. QED
          BY <1>t, <2>1, <5>1, CountedFinite DEF AuthThrottle!AtLimit
      <4>2. AuthThrottle!Answered(c)' = AuthThrottle!Answered(c)
        BY <1>a, <2>1
      <4>3. InFlight(c)' \subseteq Logins
        BY DEF InFlight
      <4>4. Cardinality(InFlight(c)') \in Nat /\ Cardinality(InFlight(c)') <= Cardinality(Logins)
        BY <4>3, ThrottleAssumption, FS_Subset, FS_CardinalityType
      <4>5. CountedOf(c)' = Cardinality(AuthThrottle!Answered(c)) + Cardinality(InFlight(c)')
        BY <4>2 DEF CountedOf
      <4>6. QED
        BY <1>t, <3>1, <4>1, <4>4, <4>5, CountedFinite
    <3>2. CASE d # c
      <4>1. AuthThrottle!Answered(d)' = AuthThrottle!Answered(d)
        BY <1>a, <2>1
      <4>2. InFlight(d)' \subseteq InFlight(d)
        BY <2>2, <2>3, <3>2 DEF InFlight
      <4>3. QED
        BY <4>1, <4>2, CountedLess
    <3>3. QED
      BY <3>1, <3>2
  <2>5. QED
    BY <1>s, <2>1, <2>3, <2>4 DEF ThrottleInv, ClientRowsSound
<1>2. ASSUME NEW l \in Logins, AuthThrottle!Reserve(l) \/ AuthThrottle!RefusedByGateway(l)
      PROVE  ThrottleInv'
  <2>1. logins[l] \in Checked
    <3>1. logins[l].phase = "checked"
      BY <1>2 DEF AuthThrottle!Reserve, AuthThrottle!RefusedByGateway
    <3>2. logins[l] # AuthThrottle!Idle
      BY <3>1 DEF AuthThrottle!Idle
    <3>3. QED
      BY <3>2 DEF ThrottleInv
  <2>2. PICK after : /\ logins' = [logins EXCEPT ![l] = after]
                     /\ after = AuthThrottle!Idle \/ after = [logins[l] EXCEPT !.phase = "running"]
    BY <1>2 DEF AuthThrottle!Reserve, AuthThrottle!RefusedByGateway
  <2>3. after = AuthThrottle!Idle \/ (after \in Checked /\ after.client = logins[l].client)
    <3>1. PICK login : login = logins[l]
      OBVIOUS
    <3>2. login \in Checked
      BY <2>1, <3>1
    <3>3. [login EXCEPT !.phase = "running"]
            = [phase |-> "running", target |-> login.target, client |-> login.client]
      BY <3>2 DEF Checked
    <3>4. login.target \in Targets /\ login.client \in Clients
      BY <3>2 DEF Checked
    <3>5. [phase |-> "running", target |-> login.target, client |-> login.client] \in Checked
      BY <3>4 DEF Checked
    <3>6. [phase |-> "running", target |-> login.target, client |-> login.client].client
            = login.client
      OBVIOUS
    <3>7. QED
      BY <2>2, <3>1, <3>3, <3>5, <3>6
  <2>4. /\ attempts' = attempts /\ now' = now /\ systemUntil' = systemUntil
        /\ clientRows' = clientRows
    BY <1>2 DEF AuthThrottle!Reserve, AuthThrottle!RefusedByGateway
  <2>5. /\ logins' = [k \in Logins |-> logins'[k]]
        /\ \A k \in Logins : logins'[k] = AuthThrottle!Idle \/ logins'[k] \in Checked
        /\ logins'[l] = after /\ \A k \in Logins : k # l => logins'[k] = logins[k]
    BY <2>2, <2>3, InFlightStep
  <2>6. ASSUME NEW d \in Clients
        PROVE  CountedOf(d)' < AttemptLimit + Cardinality(Logins)
    <3>1. AuthThrottle!Answered(d)' = AuthThrottle!Answered(d)
      BY <1>a, <2>4
    <3>2. InFlight(d)' \subseteq InFlight(d)
      BY <2>1, <2>3, <2>5, IdleUnchecked DEF InFlight
    <3>3. QED
      BY <3>1, <3>2, CountedLess
  <2>7. QED
    BY <1>s, <2>4, <2>5, <2>6 DEF ThrottleInv, ClientRowsSound
<1>3. ASSUME NEW l \in Logins, NEW outcome \in {"success", "invalid", "upstream"},
             AuthThrottle!Record(l, outcome)
      PROVE  ThrottleInv'
  <2>a. PICK login : login = logins[l]
    OBVIOUS
  <2>1. login \in Checked /\ login.target \in Targets /\ login.client \in Clients
    <3>1. login.phase = "running"
      BY <1>3, <2>a DEF AuthThrottle!Record
    <3>2. login # AuthThrottle!Idle
      BY <3>1 DEF AuthThrottle!Idle
    <3>3. QED
      BY <2>a, <3>2 DEF ThrottleInv, Checked
  <2>b. PICK entry : entry = [target |-> login.target, client |-> login.client,
                              outcome |-> outcome, at |-> now]
    OBVIOUS
  <2>2. /\ attempts' = Append(attempts, entry) /\ now' = now
        /\ logins' = [logins EXCEPT ![l] = AuthThrottle!Idle]
        /\ systemUntil' = now + StormPause \/ systemUntil' = systemUntil
        /\ clientRows' = clientRows
    BY <1>3, <2>a, <2>b DEF AuthThrottle!Record
  <2>3. /\ logins' = [k \in Logins |-> logins'[k]]
        /\ \A k \in Logins : logins'[k] = AuthThrottle!Idle \/ logins'[k] \in Checked
        /\ logins'[l] = AuthThrottle!Idle /\ \A k \in Logins : k # l => logins'[k] = logins[k]
    BY <2>2, InFlightStep
  <2>4. attempts' \in Seq(Entries)
    <3>1. entry \in Entries
      BY <1>t, <2>1, <2>b DEF Entries
    <3>2. QED
      BY <2>2, <3>1 DEF ThrottleInv
  <2>5. /\ DOMAIN attempts' = 1 .. Len(attempts) + 1 /\ Len(attempts) \in Nat
        /\ DOMAIN attempts = 1 .. Len(attempts)
        /\ attempts'[Len(attempts) + 1] = entry
        /\ \A i \in 1 .. Len(attempts) : attempts'[i] = attempts[i]
    BY <2>2 DEF ThrottleInv
  <2>6. entry.client = login.client
    BY <2>b
  <2>7. ASSUME NEW d \in Clients
        PROVE  CountedOf(d)' < AttemptLimit + Cardinality(Logins)
    <3>1. InFlight(d)' = InFlight(d) \ {l}
      BY <2>3, IdleUnchecked DEF InFlight
    <3>2. AuthThrottle!Answered(d)' \subseteq AuthThrottle!Answered(d) \cup {Len(attempts) + 1}
      BY <2>2, <2>5 DEF AuthThrottle!Answered, AuthThrottle!Indices
    <3>3. CASE d = login.client
      <4>1. l \in InFlight(d)
        BY <2>1, <2>a, <3>3 DEF InFlight
      <4>2. Cardinality(InFlight(d)') = Cardinality(InFlight(d)) - 1
        BY <3>1, <4>1, CountedFinite, FS_RemoveElement
      <4>3. Len(attempts) + 1 \notin AuthThrottle!Answered(d)
        BY <2>5 DEF AuthThrottle!Answered, AuthThrottle!Indices
      <4>4. /\ IsFiniteSet(AuthThrottle!Answered(d) \cup {Len(attempts) + 1})
            /\ Cardinality(AuthThrottle!Answered(d) \cup {Len(attempts) + 1})
                 = Cardinality(AuthThrottle!Answered(d)) + 1
        BY <4>3, CountedFinite, FS_AddElement
      <4>5. /\ Cardinality(AuthThrottle!Answered(d)') <= Cardinality(AuthThrottle!Answered(d)) + 1
            /\ Cardinality(AuthThrottle!Answered(d)') \in Nat
        BY <3>2, <4>4, FS_Subset, FS_CardinalityType
      <4>6. CountedOf(d)' = Cardinality(AuthThrottle!Answered(d)') + Cardinality(InFlight(d)')
        BY DEF CountedOf
      <4>7. CountedOf(d) = Cardinality(AuthThrottle!Answered(d)) + Cardinality(InFlight(d))
        BY DEF CountedOf
      <4>8. CountedOf(d) < AttemptLimit + Cardinality(Logins)
        BY DEF ThrottleInv
      <4>9. QED
        BY <1>t, <4>2, <4>5, <4>6, <4>7, <4>8, CountedFinite
    <3>4. CASE d # login.client
      <4>1. AuthThrottle!Answered(d)' \subseteq AuthThrottle!Answered(d)
        <5>1. Len(attempts) + 1 \notin AuthThrottle!Answered(d)'
          BY <2>5, <2>6, <3>4 DEF AuthThrottle!Answered
        <5>2. QED
          BY <3>2, <5>1
      <4>2. QED
        BY <3>1, <4>1, CountedLess
    <3>5. QED
      BY <3>3, <3>4
  <2>8. systemUntil' = Unset \/ (systemUntil' \in Nat /\ systemUntil' <= now' + StormPause)
    <3>1. CASE systemUntil' = systemUntil
      BY <1>s, <2>2, <3>1
    <3>2. CASE systemUntil' = now + StormPause
      BY <1>t, <2>2, <3>2
    <3>3. QED
      BY <2>2, <3>1, <3>2
  <2>9. QED
    BY <1>t, <2>2, <2>3, <2>4, <2>7, <2>8 DEF ThrottleInv, ClientRowsSound
<1>4. CASE AuthThrottle!Tick
  <2>1. /\ now' = now + 1 /\ attempts' = attempts /\ logins' = logins
        /\ systemUntil' = systemUntil /\ clientRows' = clientRows
    BY <1>4 DEF AuthThrottle!Tick
  <2>2. ASSUME NEW d \in Clients
        PROVE  CountedOf(d)' < AttemptLimit + Cardinality(Logins)
    <3>1. AuthThrottle!Answered(d)' \subseteq AuthThrottle!Answered(d)
      <4>1. \A i \in DOMAIN attempts : attempts[i].at \in Nat
        <5>1. \A i \in 1 .. Len(attempts) :
                attempts[i] \in Entries
          BY DEF ThrottleInv
        <5>2. QED
          BY <5>1, CountedFinite DEF Entries
      <4>2. QED
        BY <1>t, <2>1, <4>1 DEF AuthThrottle!Answered, AuthThrottle!Indices
    <3>2. InFlight(d)' \subseteq InFlight(d)
      BY <2>1 DEF InFlight
    <3>3. QED
      BY <3>1, <3>2, CountedLess
  <2>3. systemUntil' = Unset \/ (systemUntil' \in Nat /\ systemUntil' <= now' + StormPause)
    <3>1. CASE systemUntil = Unset
      BY <2>1, <3>1
    <3>2. CASE systemUntil \in Nat /\ systemUntil <= now + StormPause
      BY <1>t, <2>1, <3>2
    <3>3. QED
      BY <3>1, <3>2 DEF ThrottleInv
  <2>4. now' \in Nat
    BY <1>t, <2>1
  <2>5. QED
    BY <2>1, <2>2, <2>3, <2>4 DEF ThrottleInv, ClientRowsSound
<1>5. ASSUME UNCHANGED <<now, attempts, systemUntil, logins>>, ClientRowsSound'
      PROVE  ThrottleInv'
  <2>1. ASSUME NEW d \in Clients
        PROVE  CountedOf(d)' < AttemptLimit + Cardinality(Logins)
    <3>1. AuthThrottle!Answered(d)' = AuthThrottle!Answered(d)
      BY <1>5, <1>a
    <3>2. InFlight(d)' \subseteq InFlight(d)
      BY <1>5 DEF InFlight
    <3>3. QED
      BY <3>1, <3>2, CountedLess
  <2>2. QED
    BY <1>5, <1>s, <2>1 DEF ThrottleInv
<1>6. QED
  <2>1. ASSUME NEW t, NEW c, AuthThrottle!Escalate(t, c)
        PROVE  UNCHANGED <<now, attempts, systemUntil, logins>> /\ ClientRowsSound'
    BY <2>1, EscalatedRows DEF AuthThrottle!Escalate
  <2>2. ASSUME NEW t, AuthThrottle!ClearTargetCooldown(t)
        PROVE  UNCHANGED <<now, attempts, systemUntil, logins>> /\ ClientRowsSound'
    BY <2>2 DEF AuthThrottle!ClearTargetCooldown, ThrottleInv, ClientRowsSound
  <2>3. ASSUME UNCHANGED AuthThrottle!throttleVars
        PROVE  UNCHANGED <<now, attempts, systemUntil, logins>> /\ ClientRowsSound'
    BY <2>3 DEF AuthThrottle!throttleVars, ThrottleInv, ClientRowsSound
  <2>4. QED
    BY <1>1, <1>2, <1>3, <1>4, <1>5, <2>1, <2>2, <2>3 DEF AuthThrottle!Next

\* The invariant holds in the beginning.
LEMMA InitThrottle == AuthThrottle!Init => ThrottleInv
<1> SUFFICES ASSUME AuthThrottle!Init
             PROVE  ThrottleInv
  OBVIOUS
<1>1. /\ now = 0 /\ attempts = <<>> /\ logins = [l \in Logins |-> AuthThrottle!Idle]
      /\ systemUntil = Unset /\ clientRows = <<>>
  BY DEF AuthThrottle!Init
<1>2. ASSUME NEW c
      PROVE  CountedOf(c) = 0
  <2>1. AuthThrottle!Answered(c) = {}
    BY <1>1 DEF AuthThrottle!Answered, AuthThrottle!Indices
  <2>2. InFlight(c) = {}
    BY <1>1, IdleUnchecked DEF InFlight
  <2>3. QED
    BY <2>1, <2>2, FS_EmptySet DEF CountedOf
<1>3. 0 < AttemptLimit + Cardinality(Logins)
  BY ThrottleAssumption, FS_CardinalityType
<1>4. /\ attempts \in Seq(Entries)
      /\ ClientRowsSound
  BY <1>1 DEF ClientRowsSound
<1>5. \A c \in Clients : CountedOf(c) < AttemptLimit + Cardinality(Logins)
  BY <1>2, <1>3
<1>6. QED
  BY <1>1, <1>4, <1>5 DEF ThrottleInv

\* Within the window PASS answers a client at most AttemptLimit times, plus
\* once for each other login that was past its check.
THEOREM AttemptsStayBounded == AccountsSpec => []AttemptsBounded
<1>1. AccountsSpec => []ThrottleInv
  BY ThrottleAlone, InitThrottle, StepThrottle, PTL DEF AuthThrottle!ThrottleSpec
<1>2. ThrottleInv => AttemptsBounded
  <2> SUFFICES ASSUME ThrottleInv, NEW c \in Clients
               PROVE  AuthThrottle!Cardinality(AuthThrottle!Answered(c))
                        < AttemptLimit + AuthThrottle!Cardinality(Logins)
    BY DEF AttemptsBounded, AuthThrottle!AttemptsBounded
  <2>1. /\ AuthThrottle!Cardinality(AuthThrottle!Answered(c))
             = Cardinality(AuthThrottle!Answered(c))
        /\ AuthThrottle!Cardinality(Logins) = Cardinality(Logins)
    BY DEF AuthThrottle!Cardinality, Cardinality
  <2>2. CountedOf(c) < AttemptLimit + Cardinality(Logins)
    BY DEF ThrottleInv
  <2>3. QED
    BY <2>1, <2>2, CountedFinite, ThrottleAssumption DEF CountedOf
<1>3. QED
  BY <1>1, <1>2, PTL

\* A client's block, or the block of everyone after a storm, runs to its end.
THEOREM BlocksHold == AccountsSpec => BlocksRunOut
<1> DEFINE Longer ==
      /\ \A c \in DOMAIN clientRows : AuthThrottle!Blocked(clientRows[c]) =>
           c \in DOMAIN clientRows' /\ clientRows'[c].until >= clientRows[c].until
      /\ AuthThrottle!After(systemUntil, now) => systemUntil' >= systemUntil
<1>1. AccountsSpec => []ThrottleInv
  BY ThrottleAlone, InitThrottle, StepThrottle, PTL DEF AuthThrottle!ThrottleSpec
<1>2. ThrottleInv /\ [AuthThrottle!Next]_(AuthThrottle!throttleVars)
        => [Longer]_(AuthThrottle!throttleVars)
  <2> SUFFICES ASSUME ThrottleInv, AuthThrottle!Next
               PROVE  Longer
    OBVIOUS
  <2>1. ASSUME NEW c \in DOMAIN clientRows, AuthThrottle!Blocked(clientRows[c])
        PROVE  clientRows[c].until >= clientRows[c].until
    <3>1. clientRows[c] \in BlockRow /\ clientRows[c].until # Unset
      BY <2>1 DEF ThrottleInv, ClientRowsSound, AuthThrottle!Blocked, AuthThrottle!After
    <3>2. clientRows[c].until \in Nat
      BY <3>1 DEF BlockRow, Date
    <3>3. QED
      BY <3>2
  <2>2. AuthThrottle!After(systemUntil, now) =>
          systemUntil \in Nat /\ now \in Nat /\ systemUntil <= now + StormPause
    BY DEF ThrottleInv, AuthThrottle!After
  <2>3. ASSUME clientRows' = clientRows, systemUntil' = systemUntil
        PROVE  Longer
    BY <2>1, <2>2, <2>3
  <2>4. ASSUME NEW t \in Targets, NEW c \in Clients, AuthThrottle!Escalate(t, c)
        PROVE  Longer
    <3>1. systemUntil' = systemUntil
      BY <2>4 DEF AuthThrottle!Escalate
    <3>2. QED
      BY <2>1, <2>2, <2>4, <3>1, EscalatedRows
  <2>5. ASSUME NEW l \in Logins, NEW outcome, AuthThrottle!Record(l, outcome)
        PROVE  Longer
    <3>1. /\ systemUntil' = now + StormPause \/ systemUntil' = systemUntil
          /\ clientRows' = clientRows
      BY <2>5 DEF AuthThrottle!Record
    <3>2. StormPause \in Nat
      BY ThrottleAssumption
    <3>3. QED
      BY <2>1, <2>2, <3>1, <3>2
  <2>6. ASSUME NEW l, AuthThrottle!Reserve(l) \/ AuthThrottle!RefusedByGateway(l)
        PROVE  clientRows' = clientRows /\ systemUntil' = systemUntil
    BY <2>6 DEF AuthThrottle!Reserve, AuthThrottle!RefusedByGateway
  <2>7. ASSUME NEW l, NEW t, NEW c, AuthThrottle!Allow(l, t, c)
        PROVE  clientRows' = clientRows /\ systemUntil' = systemUntil
    BY <2>7 DEF AuthThrottle!Allow
  <2>8. ASSUME NEW t, AuthThrottle!ClearTargetCooldown(t)
        PROVE  clientRows' = clientRows /\ systemUntil' = systemUntil
    BY <2>8 DEF AuthThrottle!ClearTargetCooldown
  <2>9. ASSUME AuthThrottle!Tick
        PROVE  clientRows' = clientRows /\ systemUntil' = systemUntil
    BY <2>9 DEF AuthThrottle!Tick
  <2> HIDE DEF Longer
  <2>10. QED
    BY <2>3, <2>4, <2>5, <2>6, <2>7, <2>8, <2>9 DEF AuthThrottle!Next
<1>3. QED
  BY <1>1, <1>2, ThrottleAlone, PTL DEF AuthThrottle!ThrottleSpec, BlocksRunOut,
     AuthThrottle!BlocksRunOut

-----------------------------------------------------------------------------
(* Logins, sessions and factors: Access.                                   *)

\* In the composition, the accesses take their own steps only.
LEMMA AccessAlone == AccountsSpec => Access!Spec
<1>1. AccountsInit => Access!Init
  BY DEF AccountsInit
<1>2. [AccountsNext]_accountsVars => [Access!Next]_(Access!vars)
  BY DEF AccountsNext, accountsVars, Schedule, CredentialsStep, AccessStep, ThrottleStep,
     ConversationStep, MigrationStep, ReconciliationStep, KeysetStep, ResultsStep, BoardStep,
     accessVars, Access!vars
<1>3. QED
  BY <1>1, <1>2, PTL DEF AccountsSpec, Access!Spec

Person == [exists : BOOLEAN, disabled : BOOLEAN, generation : Nat, imports : Nat]

(* A request that was let through before the last revocation carries a     *)
(* generation that is over; the first login of a person carries none, and  *)
(* the generation of the account is then past its first one.               *)
Behind(generation, born) ==
  /\ generation \in Nat /\ generation <= person.generation
  /\ born # revocations => generation < person.generation
Fenced(q) ==
  /\ q.kind \in {"token", "passkey"} => Behind(q.factor.generation, q.born)
  /\ q.kind = "imt" => Behind(q.generation, q.born)
  /\ q.kind = "imt" /\ q.first = TRUE /\ q.born # revocations
       => person.exists = TRUE /\ person.generation >= 2

\* A challenge is free, in one request, or in one session.
Spending(q, c) == q.kind = "passkey" /\ q.challenge = c
ChallengesHeld ==
  /\ \A r \in Requests : requests[r].kind = "passkey" =>
       /\ requests[r].challenge \notin challenges
       /\ \A q \in Requests : Spending(requests[q], requests[r].challenge) => q = r
       /\ \A s \in sessions : s.challenge # 0 => s.challenge # requests[r].challenge
  /\ \A s \in sessions : s.challenge # 0 => s.challenge \notin challenges
  /\ Access!ChallengeOnce

\* Only a passkey answers a challenge.
Plain(s) == "challenge" \in DOMAIN s /\ s.challenge = 0
Factored(s) == "challenge" \in DOMAIN s /\ (s.challenge # 0 => s.method = "passkey")

\* The inductive invariant of the accesses.
AccessInv ==
  /\ person \in Person /\ revocations \in Nat
  /\ person.imports = (IF person.exists = TRUE THEN 1 ELSE 0)
  /\ person.exists = TRUE => person.generation >= 1
  /\ person.exists = FALSE => person.generation = 0
  /\ requests = [r \in Requests |-> requests[r]]
  /\ \A r \in Requests : Fenced(requests[r])
  /\ \A s \in sessions : Factored(s)
  /\ ChallengesHeld

\* A request stays fenced while no revocation comes in.
LEMMA FencedKept ==
  ASSUME person \in Person, person' \in Person, revocations' = revocations,
         person'.generation >= person.generation,
         person.exists = TRUE => person'.exists = TRUE, NEW q, Fenced(q)
  PROVE  Fenced(q)'
<1>1. person.generation \in Nat /\ person'.generation \in Nat
  BY DEF Person
<1>2. ASSUME NEW generation, NEW born, Behind(generation, born)
      PROVE  Behind(generation, born)'
  BY <1>1, <1>2 DEF Behind
<1>3. QED
  BY <1>1, <1>2 DEF Fenced

\* And when the generation moves with one.
LEMMA FencedMoved ==
  ASSUME person \in Person, person' \in Person, person.exists = TRUE, person'.exists = TRUE,
         person.generation >= 1, person'.generation = person.generation + 1,
         NEW q, Fenced(q)
  PROVE  Fenced(q)'
<1>1. person.generation \in Nat /\ person'.generation \in Nat
  BY DEF Person
<1>2. ASSUME NEW generation, NEW born, Behind(generation, born)
      PROVE  Behind(generation, born)'
  BY <1>1, <1>2 DEF Behind
<1>3. person'.generation >= 2
  BY <1>1
<1>4. QED
  BY <1>2, <1>3 DEF Fenced

\* What the fields of a person are when one column is written.
LEMMA GenerationWritten ==
  ASSUME NEW p \in Person, NEW n \in Nat
  PROVE  /\ [p EXCEPT !.generation = n] \in Person
         /\ [p EXCEPT !.generation = n].generation = n
         /\ [p EXCEPT !.generation = n].exists = p.exists
         /\ [p EXCEPT !.generation = n].imports = p.imports
BY DEF Person

\* The same for the grades' imports.
LEMMA ImportsWritten ==
  ASSUME NEW p \in Person, NEW n \in Nat
  PROVE  /\ [p EXCEPT !.imports = n] \in Person
         /\ [p EXCEPT !.imports = n].generation = p.generation
         /\ [p EXCEPT !.imports = n].exists = p.exists
         /\ [p EXCEPT !.imports = n].imports = n
BY DEF Person

\* The same for the account's row.
LEMMA ExistsWritten ==
  ASSUME NEW p \in Person, NEW b \in BOOLEAN
  PROVE  /\ [p EXCEPT !.exists = b] \in Person
         /\ [p EXCEPT !.exists = b].generation = p.generation
         /\ [p EXCEPT !.exists = b].exists = b
         /\ [p EXCEPT !.exists = b].imports = p.imports
BY DEF Person

\* The same for the administrator's mark.
LEMMA DisabledWritten ==
  ASSUME NEW p \in Person, NEW b \in BOOLEAN
  PROVE  /\ [p EXCEPT !.disabled = b] \in Person
         /\ [p EXCEPT !.disabled = b].generation = p.generation
         /\ [p EXCEPT !.disabled = b].exists = p.exists
         /\ [p EXCEPT !.disabled = b].imports = p.imports
BY DEF Person

\* A request ends.
LEMMA RequestEnds ==
  ASSUME AccessInv, NEW r, Access!End(r), person' \in Person, revocations' = revocations,
         person'.generation >= person.generation,
         person.exists = TRUE => person'.exists = TRUE
  PROVE  /\ requests' = [q \in Requests |-> requests'[q]]
         /\ \A q \in Requests : requests'[q] \in {requests[q], Access!Free}
         /\ r \in Requests => requests'[r] = Access!Free
         /\ \A q \in Requests : Fenced(requests[q])'
<1>1. /\ requests' = [q \in Requests |-> requests'[q]]
      /\ \A q \in Requests : requests'[q] \in {requests[q], Access!Free}
      /\ r \in Requests => requests'[r] = Access!Free
  BY DEF Access!End, AccessInv
<1>2. \A q : Fenced(q) => Fenced(q)'
  BY FencedKept DEF AccessInv
<1>3. Fenced(Access!Free)
  BY DEF Fenced, Access!Free
<1>4. \A q \in Requests : Fenced(requests'[q])
  BY <1>1, <1>3 DEF AccessInv
<1>5. QED
  <2>1. ASSUME NEW q \in Requests
        PROVE  Fenced(requests[q])'
    <3>1. PICK request_ : request_ = requests'[q]
      OBVIOUS
    <3>2. Fenced(request_)
      BY <1>4, <3>1
    <3>3. Fenced(request_)'
      BY <1>2, <3>2
    <3>4. QED
      BY <3>1, <3>3 DEF Fenced, Behind
  <2>2. QED
    BY <1>1, <2>1

\* A request begins.
LEMMA RequestBegins ==
  ASSUME AccessInv, NEW r \in Requests, NEW q, Access!Begin(r, q), person' = person,
         revocations' = revocations, Fenced(q)
  PROVE  /\ requests' = [v \in Requests |-> requests'[v]] /\ requests'[r] = q
         /\ \A v \in Requests : v # r => requests'[v] = requests[v]
         /\ \A v \in Requests : Fenced(requests[v])'
<1>1. /\ requests' = [v \in Requests |-> requests'[v]] /\ requests'[r] = q
      /\ \A v \in Requests : v # r => requests'[v] = requests[v]
  BY DEF Access!Begin, AccessInv
<1>2. \A v \in Requests : Fenced(requests'[v])
  BY <1>1 DEF AccessInv
<1>3. \A v \in Requests : Fenced(requests[v])'
  BY <1>2 DEF Fenced, Behind
<1>4. QED
  BY <1>1, <1>3

\* Challenges stay held when no request takes one and no session gets one.
LEMMA HeldKept ==
  ASSUME ChallengesHeld, challenges' \subseteq challenges,
         \A r \in Requests : requests'[r].kind = "passkey" => requests'[r] = requests[r],
         \A s \in sessions' : s \in sessions \/ Plain(s)
  PROVE  ChallengesHeld'
<1>0. \A s \in sessions' : s.challenge # 0 => s \in sessions
  BY DEF Plain
<1>1. ASSUME NEW r \in Requests, requests'[r].kind = "passkey"
      PROVE  /\ requests'[r].challenge \notin challenges'
             /\ \A q \in Requests : Spending(requests'[q], requests'[r].challenge) => q = r
             /\ \A s \in sessions' : s.challenge # 0 => s.challenge # requests'[r].challenge
  BY <1>0, <1>1 DEF ChallengesHeld, Spending
<1>2. \A s \in sessions' : s.challenge # 0 => s.challenge \notin challenges'
  BY <1>0 DEF ChallengesHeld
<1>3. Access!ChallengeOnce'
  BY <1>0 DEF ChallengesHeld, Access!ChallengeOnce, Access!None
<1>4. QED
  BY <1>1, <1>2, <1>3 DEF ChallengesHeld, Spending

\* What an insertion leaves of the sessions.
LEMMA InsertedWhich ==
  ASSUME NEW s, Access!Inserted(s)
  PROVE  serial' = serial + 1 /\ \A x \in sessions' : x = s \/ x \in sessions
<1>1. \A all, scope, keep : \A kept \in Access!Prunings(all, scope, keep) :
        scope \subseteq all => kept \subseteq all
  BY DEF Access!Prunings
<1>2. PICK left \in Access!Prunings(sessions, sessions, AccountCap - 1) :
        \E rest \in IF s.method = "token"
                    THEN Access!Prunings(left, {x \in left : x.method = "token" /\ x.factor = s.factor},
                                         ShareCap - 1)
                    ELSE Access!Prunings(left, {x \in left : x.method = "imt"}, OwnerCap - 1) :
          sessions' = rest \cup {s}
  BY DEF Access!Inserted
<1>3. left \subseteq sessions
  BY <1>1, <1>2
<1>4. PICK rest : rest \subseteq left /\ sessions' = rest \cup {s}
  BY <1>1, <1>2
<1>5. QED
  BY <1>3, <1>4 DEF Access!Inserted

\* Every step keeps the invariant of the accesses.
LEMMA StepAccess == AccessInv /\ [Access!Next]_(Access!vars) => AccessInv'
<1> SUFFICES ASSUME AccessInv, [Access!Next]_(Access!vars)
             PROVE  AccessInv'
  OBVIOUS
<1>t. /\ person \in Person /\ person.generation \in Nat /\ person.imports \in Nat
      /\ revocations \in Nat /\ ChallengesHeld
      /\ person.imports = (IF person.exists = TRUE THEN 1 ELSE 0)
      /\ person.exists = TRUE => person.generation >= 1
      /\ person.exists = FALSE => person.generation = 0
      /\ requests = [r \in Requests |-> requests[r]]
      /\ \A r \in Requests : Fenced(requests[r])
      /\ \A s \in sessions : Factored(s)
  BY DEF AccessInv, Person
<1>k. Access!Free.kind # "passkey"
  BY DEF Access!Free
\* Requests that take no challenge.
<1>b. ASSUME NEW r \in Requests, NEW q, Access!Begin(r, q), q.kind # "passkey", Fenced(q),
             UNCHANGED <<person, sessions, challenges, revocations>>
      PROVE  AccessInv'
  <2>1. /\ requests' = [v \in Requests |-> requests'[v]] /\ requests'[r] = q
        /\ \A v \in Requests : v # r => requests'[v] = requests[v]
        /\ \A v \in Requests : Fenced(requests[v])'
    BY <1>b, RequestBegins
  <2>2. ChallengesHeld'
    BY <1>b, <1>t, <2>1, HeldKept
  <2>3. QED
    BY <1>b, <1>t, <2>1, <2>2 DEF AccessInv, Factored
\* Steps of no request.
<1>u. ASSUME UNCHANGED <<person, challenges, requests, revocations>>,
             \A s \in sessions' : s \in sessions \/ Plain(s)
      PROVE  AccessInv'
  <2>1. ChallengesHeld'
    BY <1>t, <1>u, HeldKept
  <2>2. \A r \in Requests : Fenced(requests[r])'
    BY <1>t, <1>u DEF Fenced, Behind
  <2>3. QED
    BY <1>t, <1>u, <2>1, <2>2 DEF AccessInv, Factored, Plain
\* Ends of a request that leave the person and the challenges.
<1>e. ASSUME NEW r \in Requests, Access!End(r), UNCHANGED <<person, challenges, revocations>>,
             \A s \in sessions' : s \in sessions \/ Plain(s)
      PROVE  AccessInv'
  <2>0. /\ person' \in Person /\ revocations' = revocations
        /\ person'.generation >= person.generation
        /\ person.exists = TRUE => person'.exists = TRUE
    BY <1>t, <1>e
  <2>1. /\ requests' = [q \in Requests |-> requests'[q]]
        /\ \A q \in Requests : requests'[q] \in {requests[q], Access!Free}
        /\ \A q \in Requests : Fenced(requests[q])'
    BY <2>0, <1>e, RequestEnds
  <2>2. ChallengesHeld'
    BY <1>k, <1>e, <1>t, <2>1, HeldKept
  <2>3. QED
    BY <1>t, <1>e, <2>1, <2>2 DEF AccessInv, Factored, Plain
\* The generation of the account moves.
<1>m. ASSUME person' \in Person, person.exists = TRUE, person'.exists = TRUE,
             person'.generation = person.generation + 1, person'.imports = person.imports,
             revocations' \in Nat, UNCHANGED <<challenges, requests>>,
             \A s \in sessions' : s \in sessions \/ Plain(s)
      PROVE  AccessInv'
  <2>1. ChallengesHeld'
    BY <1>t, <1>m, HeldKept
  <2>2. \A r \in Requests : Fenced(requests[r])'
    <3>1. \A q : Fenced(q) => Fenced(q)'
      BY <1>t, <1>m, FencedMoved
    <3>2. QED
      BY <1>t, <1>m, <3>1 DEF Fenced, Behind
  <2>3. QED
    BY <1>t, <1>m, <2>1, <2>2 DEF AccessInv, Factored, Plain
<1>1. ASSUME NEW r \in Requests, Access!CaptureAuthority(r)
      PROVE  AccessInv'
  <2>1. PICK q : /\ q = [kind |-> "imt", first |-> ~person.exists,
                         generation |-> person.generation, born |-> revocations]
                 /\ Access!Begin(r, q) /\ UNCHANGED <<person, sessions, challenges, revocations>>
    BY <1>1 DEF Access!CaptureAuthority
  <2>2. q.kind = "imt" /\ q.generation = person.generation /\ q.born = revocations
    BY <2>1
  <2>3. Fenced(q)
    BY <1>t, <2>2 DEF Fenced, Behind
  <2>4. QED
    BY <1>b, <2>1, <2>2, <2>3
<1>2. ASSUME NEW r \in Requests, Access!FinalizeLogin(r)
      PROVE  AccessInv'
  <2>1. PICK s : /\ Plain(s) /\ Access!Inserted(s) /\ Access!End(r)
                 /\ UNCHANGED <<challenges, revocations>>
    BY <1>2 DEF Access!FinalizeLogin, Access!NewSession, Access!None, Plain
  <2>2. PICK p : /\ p = (IF person.exists THEN person
                         ELSE [person EXCEPT !.exists = TRUE, !.generation = 1, !.imports = @ + 1])
                 /\ person' = p
    BY <1>2 DEF Access!FinalizeLogin
  <2>3. /\ p \in Person /\ p.exists = TRUE /\ p.imports = 1 /\ p.generation \in Nat
        /\ p.generation >= 1 /\ p.generation >= person.generation
    <3>1. CASE person.exists = TRUE
      BY <1>t, <2>2, <3>1
    <3>2. CASE person.exists = FALSE
      <4>1. PICK p1 : p1 = [person EXCEPT !.exists = TRUE]
        OBVIOUS
      <4>2. p1 \in Person /\ p1.exists = TRUE /\ p1.imports = 0
        BY <1>t, <3>2, <4>1, ExistsWritten
      <4>3. PICK p2 : p2 = [p1 EXCEPT !.generation = 1]
        OBVIOUS
      <4>4. p2 \in Person /\ p2.exists = TRUE /\ p2.generation = 1 /\ p2.imports = 0
        BY <4>2, <4>3, GenerationWritten
      <4>5. [p2 EXCEPT !.imports = 1] \in Person
        BY <4>4, ImportsWritten
      <4>6. p = [p2 EXCEPT !.imports = 1]
        BY <1>t, <2>2, <3>2, <4>1, <4>3 DEF Person
      <4>7. p \in Person /\ p.exists = TRUE /\ p.generation = 1 /\ p.imports = 1
        BY <4>4, <4>5, <4>6, ImportsWritten
      <4>8. QED
        BY <1>t, <3>2, <4>7
    <3>3. QED
      BY <1>t, <3>1, <3>2 DEF Person
  <2>4. /\ requests' = [q \in Requests |-> requests'[q]]
        /\ \A q \in Requests : requests'[q] \in {requests[q], Access!Free}
        /\ \A q \in Requests : Fenced(requests[q])'
    BY <1>t, <2>1, <2>2, <2>3, RequestEnds
  <2>5. \A x \in sessions' : x \in sessions \/ Plain(x)
    BY <2>1, InsertedWhich
  <2>6. ChallengesHeld'
    BY <1>k, <1>t, <2>1, <2>4, <2>5, HeldKept
  <2>7. QED
    BY <1>t, <2>1, <2>2, <2>3, <2>4, <2>5, <2>6 DEF AccessInv, Factored, Plain
<1>3. ASSUME NEW r \in Requests, Access!RejectLogin(r)
      PROVE  AccessInv'
  BY <1>3, <1>e DEF Access!RejectLogin
<1>4. ASSUME NEW r \in Requests, NEW t, Access!CheckToken(r, t)
      PROVE  AccessInv'
  <2>1. PICK q : /\ q = [kind |-> "token", factor |-> t, born |-> revocations]
                 /\ Access!Begin(r, q) /\ UNCHANGED <<person, sessions, challenges, revocations>>
                 /\ t.generation = person.generation
    BY <1>4 DEF Access!CheckToken
  <2>2. q.kind = "token" /\ q.factor.generation = person.generation /\ q.born = revocations
    BY <2>1
  <2>3. Fenced(q)
    BY <1>t, <2>2 DEF Fenced, Behind
  <2>4. QED
    BY <1>b, <2>1, <2>2, <2>3
<1>5. ASSUME NEW r \in Requests, Access!InsertTokenSession(r)
      PROVE  AccessInv'
  <2>1. /\ Access!End(r) /\ UNCHANGED <<person, challenges, revocations>>
        /\ \/ UNCHANGED sessions
           \/ \E s : Plain(s) /\ Access!Inserted(s)
    BY <1>5 DEF Access!InsertTokenSession, Access!NewSession, Access!None, Plain
  <2>2. \A x \in sessions' : x \in sessions \/ Plain(x)
    BY <2>1, InsertedWhich
  <2>3. QED
    BY <1>e, <2>1, <2>2
<1>6. ASSUME NEW r \in Requests, NEW c \in Challenges, NEW p, Access!CheckPasskey(r, c, p)
      PROVE  AccessInv'
  <2>1. /\ c \in challenges /\ challenges' = challenges \ {c}
        /\ UNCHANGED <<person, sessions, revocations>>
    BY <1>6 DEF Access!CheckPasskey, Access!Consumed
  <2>2. CASE UNCHANGED requests
    <3>1. ChallengesHeld'
      BY <1>t, <2>1, <2>2, HeldKept
    <3>2. \A v \in Requests : Fenced(requests[v])'
      BY <1>t, <2>1, <2>2 DEF Fenced, Behind
    <3>3. QED
      BY <1>t, <2>1, <2>2, <3>1, <3>2 DEF AccessInv, Factored
  <2>3. CASE p.generation = person.generation
             /\ Access!Begin(r, [kind |-> "passkey", factor |-> p, challenge |-> c,
                                 born |-> revocations])
    <3>1. PICK q : /\ q = [kind |-> "passkey", factor |-> p, challenge |-> c, born |-> revocations]
                   /\ Access!Begin(r, q)
      BY <2>3
    <3>2. /\ q.kind = "passkey" /\ q.challenge = c /\ q.born = revocations
          /\ q.factor.generation = person.generation
      BY <2>3, <3>1
    <3>3. Fenced(q)
      BY <1>t, <3>2 DEF Fenced, Behind
    <3>4. /\ requests' = [v \in Requests |-> requests'[v]] /\ requests'[r] = q
          /\ \A v \in Requests : v # r => requests'[v] = requests[v]
          /\ \A v \in Requests : Fenced(requests[v])'
      BY <2>1, <3>1, <3>3, RequestBegins
    <3>5. ASSUME NEW v \in Requests, requests'[v].kind = "passkey"
          PROVE  /\ requests'[v].challenge \notin challenges'
                 /\ \A u \in Requests : Spending(requests'[u], requests'[v].challenge) => u = v
                 /\ \A s \in sessions' : s.challenge # 0 => s.challenge # requests'[v].challenge
      <4>1. CASE v = r
        BY <1>t, <2>1, <3>2, <3>4, <4>1 DEF ChallengesHeld, Spending
      <4>2. CASE v # r
        BY <1>t, <2>1, <3>2, <3>4, <3>5, <4>2 DEF ChallengesHeld, Spending
      <4>3. QED
        BY <4>1, <4>2
    <3>6. ChallengesHeld'
      BY <1>t, <2>1, <3>5 DEF ChallengesHeld, Spending, Access!ChallengeOnce, Access!None
    <3>7. QED
      BY <1>t, <2>1, <3>4, <3>6 DEF AccessInv, Factored
  <2>4. QED
    BY <1>6, <2>2, <2>3 DEF Access!CheckPasskey
<1>7. ASSUME NEW r \in Requests, Access!InsertPasskeySession(r)
      PROVE  AccessInv'
  <2>1. /\ Access!End(r) /\ UNCHANGED <<person, revocations>> /\ requests[r].kind = "passkey"
    BY <1>7 DEF Access!InsertPasskeySession
  <2>0. /\ person' \in Person /\ revocations' = revocations
        /\ person'.generation >= person.generation
        /\ person.exists = TRUE => person'.exists = TRUE
    BY <1>t, <2>1
  <2>2. /\ requests' = [q \in Requests |-> requests'[q]]
        /\ \A q \in Requests : requests'[q] \in {requests[q], Access!Free}
        /\ requests'[r] = Access!Free
        /\ \A q \in Requests : Fenced(requests[q])'
    BY <2>0, <2>1, RequestEnds
  <2>3. PICK c : c = requests[r].challenge
    OBVIOUS
  <2>4. /\ c \notin challenges
        /\ \A q \in Requests : Spending(requests[q], c) => q = r
        /\ \A s \in sessions : s.challenge # 0 => s.challenge # c
    BY <1>t, <2>1, <2>3 DEF ChallengesHeld
  <2>5. ASSUME NEW v \in Requests, requests'[v].kind = "passkey"
        PROVE  /\ requests'[v] = requests[v] /\ v # r /\ requests[v].challenge # c
               /\ requests[v].challenge \notin challenges
               /\ \A u \in Requests : Spending(requests'[u], requests[v].challenge) => u = v
               /\ \A s \in sessions : s.challenge # 0 => s.challenge # requests[v].challenge
    BY <1>k, <1>t, <2>2, <2>4, <2>5 DEF ChallengesHeld, Spending
  <2>6. CASE challenges' = challenges \cup {c} /\ UNCHANGED sessions
    <3>1. ChallengesHeld'
      BY <1>t, <2>4, <2>5, <2>6 DEF ChallengesHeld, Spending, Access!ChallengeOnce, Access!None
    <3>2. QED
      BY <1>t, <2>1, <2>2, <2>6, <3>1 DEF AccessInv, Factored
  <2>7. CASE /\ UNCHANGED challenges
             /\ \E s : /\ s.challenge = c /\ s.method = "passkey" /\ "challenge" \in DOMAIN s
                      /\ Access!Inserted(s)
    <3>1. PICK s : /\ s.challenge = c /\ s.method = "passkey" /\ "challenge" \in DOMAIN s
                   /\ Access!Inserted(s)
      BY <2>7
    <3>2. \A x \in sessions' : x = s \/ x \in sessions
      BY <3>1, InsertedWhich
    <3>3. Access!ChallengeOnce'
      BY <1>t, <2>4, <3>1, <3>2 DEF ChallengesHeld, Access!ChallengeOnce, Access!None
    <3>4. ChallengesHeld'
      BY <1>t, <2>4, <2>5, <2>7, <3>1, <3>2, <3>3 DEF ChallengesHeld, Spending
    <3>5. \A x \in sessions' : Factored(x)
      BY <1>t, <3>1, <3>2 DEF Factored
    <3>6. QED
      BY <1>t, <2>1, <2>2, <3>4, <3>5 DEF AccessInv, Factored
  <2>8. QED
    BY <1>7, <2>3, <2>6, <2>7 DEF Access!InsertPasskeySession, Access!NewSession
<1>8. ASSUME NEW r \in Requests, NEW s, NEW kind \in {"create_token", "register"},
             Access!AskFactor(r, s, kind)
      PROVE  AccessInv'
  <2>1. PICK q : /\ q = [kind |-> kind, session |-> s] /\ Access!Begin(r, q)
                 /\ UNCHANGED <<person, sessions, challenges, revocations>>
    BY <1>8 DEF Access!AskFactor
  <2>2. q.kind # "passkey" /\ q.kind # "token" /\ q.kind # "imt"
    BY <2>1
  <2>3. Fenced(q)
    BY <2>2 DEF Fenced
  <2>4. QED
    BY <1>b, <2>1, <2>2, <2>3
<1>9. ASSUME NEW r \in Requests, Access!CreateToken(r)
      PROVE  AccessInv'
  BY <1>9, <1>e DEF Access!CreateToken
<1>10. ASSUME NEW r \in Requests, Access!RegisterPasskey(r)
       PROVE  AccessInv'
  BY <1>10, <1>e DEF Access!RegisterPasskey
<1>11. CASE Access!ListTokens
  BY <1>11, <1>u DEF Access!ListTokens
<1>12. ASSUME NEW t, Access!RevokeToken(t)
       PROVE  AccessInv'
  BY <1>12, <1>u DEF Access!RevokeToken
<1>13. ASSUME NEW s, Access!Logout(s)
       PROVE  AccessInv'
  BY <1>13, <1>u DEF Access!Logout
<1>14. ASSUME NEW p, Access!DeletePasskey(p)
       PROVE  AccessInv'
  <2>1. PICK q : q = [person EXCEPT !.generation = person.generation + 1] /\ person' = q
    BY <1>14 DEF Access!DeletePasskey
  <2>2. /\ q \in Person /\ q.exists = person.exists /\ q.imports = person.imports
        /\ q.generation = person.generation + 1
    BY <1>t, <2>1, GenerationWritten
  <2>3. person.exists = TRUE /\ UNCHANGED <<challenges, requests, revocations>>
    BY <1>14 DEF Access!DeletePasskey, Access!Primary, Access!Usable, Access!Admitted
  <2>4. sessions' = {[x EXCEPT !.generation = person.generation + 1] :
                       x \in {s \in sessions : s.method # "passkey"}}
    BY <1>14 DEF Access!DeletePasskey, Access!Stamped
  <2>5. \A x \in sessions' : Plain(x)
    <3>1. ASSUME NEW x \in sessions, x.method # "passkey"
          PROVE  Plain([x EXCEPT !.generation = person.generation + 1])
      <4>1. "challenge" \in DOMAIN x /\ x.challenge = 0
        BY <1>t, <3>1 DEF Factored
      <4>2. QED
        BY <4>1 DEF Plain
    <3>2. QED
      BY <2>4, <3>1
  <2>6. QED
    BY <1>m, <1>t, <2>1, <2>2, <2>3, <2>5
<1>15. CASE Access!Disable
  <2>1. /\ person.exists = TRUE /\ sessions' = {} /\ UNCHANGED <<challenges, requests>>
    BY <1>15 DEF Access!Disable
  <2>2. CASE UNCHANGED <<person, revocations>>
    BY <1>u, <2>1, <2>2
  <2>3. CASE /\ revocations' = revocations + 1
             /\ person' = [person EXCEPT !.disabled = TRUE, !.generation = @ + 1]
    <3>1. PICK q : q = [person EXCEPT !.disabled = TRUE]
      OBVIOUS
    <3>2. /\ q \in Person /\ q.exists = TRUE /\ q.imports = person.imports
          /\ q.generation = person.generation
      BY <1>t, <2>1, <3>1, DisabledWritten
    <3>3. PICK v : v = [q EXCEPT !.generation = q.generation + 1]
      OBVIOUS
    <3>4. person' = v
      BY <1>t, <2>3, <3>1, <3>2, <3>3 DEF Person
    <3>5. /\ v \in Person /\ v.exists = TRUE /\ v.imports = person.imports
          /\ v.generation = person.generation + 1
      BY <1>t, <3>2, <3>3, GenerationWritten
    <3>6. revocations' \in Nat /\ \A x \in sessions' : x \in sessions \/ Plain(x)
      BY <1>t, <2>1, <2>3
    <3>7. QED
      BY <1>m, <2>1, <3>4, <3>5, <3>6
  <2>4. QED
    BY <1>15, <2>2, <2>3 DEF Access!Disable
<1>16. CASE Access!Enable
  <2>1. PICK q : q = [person EXCEPT !.disabled = FALSE]
    OBVIOUS
  <2>2. /\ q \in Person /\ q.exists = TRUE /\ q.imports = person.imports
        /\ q.generation = person.generation /\ person.exists = TRUE
    BY <1>16, <1>t, <2>1, DisabledWritten DEF Access!Enable
  <2>3. PICK v : v = [q EXCEPT !.generation = q.generation + 1]
    OBVIOUS
  <2>4. person' = v
    BY <1>16, <1>t, <2>1, <2>2, <2>3 DEF Person, Access!Enable
  <2>5. /\ v \in Person /\ v.exists = TRUE /\ v.imports = person.imports
        /\ v.generation = person.generation + 1
    BY <1>t, <2>2, <2>3, GenerationWritten
  <2>6. UNCHANGED <<challenges, requests, revocations, sessions>>
    BY <1>16 DEF Access!Enable
  <2>7. QED
    BY <1>m, <1>t, <2>2, <2>4, <2>5, <2>6
<1>17. CASE Access!RevokeAccess
  <2>1. PICK q : q = [person EXCEPT !.generation = person.generation + 1] /\ person' = q
    BY <1>17 DEF Access!RevokeAccess
  <2>2. /\ q \in Person /\ q.exists = person.exists /\ q.imports = person.imports
        /\ q.generation = person.generation + 1
    BY <1>t, <2>1, GenerationWritten
  <2>3. /\ person.exists = TRUE /\ UNCHANGED <<challenges, requests>>
        /\ revocations' = revocations + 1 /\ sessions' = {}
    BY <1>17 DEF Access!RevokeAccess
  <2>4. revocations' \in Nat /\ \A x \in sessions' : x \in sessions \/ Plain(x)
    BY <1>t, <2>3
  <2>5. QED
    BY <1>m, <2>1, <2>2, <2>3, <2>4
<1>18. CASE UNCHANGED Access!vars
  BY <1>18, <1>u DEF Access!vars
<1>19. QED
  <2>1. CASE Access!Next
    BY <1>1, <1>2, <1>3, <1>4, <1>5, <1>6, <1>7, <1>8, <1>9, <1>10, <1>11, <1>12, <1>13, <1>14,
       <1>15, <1>16, <1>17, <2>1 DEF Access!Next, Access!PresentRefused
  <2>2. QED
    BY <1>18, <2>1

\* The accesses start in the invariant.
LEMMA InitAccess == Access!Init => AccessInv
<1> SUFFICES ASSUME Access!Init
             PROVE  AccessInv
  OBVIOUS
<1>1. person \in Person /\ person.exists = FALSE /\ person.imports = 0 /\ person.generation = 0
  BY DEF Access!Init, Person
<1>2. sessions = {} /\ requests = [r \in Requests |-> Access!Free] /\ revocations = 0
  BY DEF Access!Init
<1>3. Access!Free.kind # "passkey" /\ Access!Free.kind # "token" /\ Access!Free.kind # "imt"
  BY DEF Access!Free
<1>4. QED
  BY <1>1, <1>2, <1>3 DEF AccessInv, Fenced, ChallengesHeld, Access!ChallengeOnce

(* A challenge opens one session, and the grades of an account are         *)
(* imported once: logins overlap, and each takes the row lock after it was *)
(* checked.                                                                *)
THEOREM SpentHolds == AccountsSpec => []SpentOnce
<1>1. AccessInv => SpentOnce
  BY DEF AccessInv, Person, ChallengesHeld, SpentOnce, Access!SpentOnce, Access!ImportedOnce
<1>2. QED
  BY <1>1, InitAccess, StepAccess, AccessAlone, PTL DEF Access!Spec

(* A login that was let through before the last revocation opens no        *)
(* session that is accepted.                                               *)
THEOREM LateLoginsDie == AccountsSpec => LateLoginDead
<1>1. AccessInv /\ [Access!Next]_(Access!vars) =>
        [\A s \in sessions' \ sessions :
           (s.id = serial' /\ serial' # serial /\ Access!Usable(s)') => s.born = revocations]_(Access!vars)
  <2> SUFFICES ASSUME AccessInv, Access!Next, NEW s \in sessions' \ sessions,
                      serial' # serial, Access!Usable(s)'
               PROVE  s.born = revocations
    OBVIOUS
  <2>1. s.generation = person'.generation
    BY DEF Access!Usable
  <2>2. PICK r \in Requests : \/ Access!FinalizeLogin(r)
                              \/ Access!InsertTokenSession(r)
                              \/ Access!InsertPasskeySession(r)
    BY DEF Access!Next, Access!CaptureAuthority, Access!RejectLogin, Access!CheckToken,
       Access!CheckPasskey, Access!AskFactor, Access!CreateToken, Access!RegisterPasskey,
       Access!ListTokens, Access!RevokeToken, Access!DeletePasskey, Access!Logout,
       Access!PresentRefused, Access!Disable, Access!Enable, Access!RevokeAccess
  <2>3. Fenced(requests[r]) /\ person.generation \in Nat
    BY DEF AccessInv, Person
  <2>4. CASE Access!FinalizeLogin(r)
    <3>1. /\ Access!Inserted(Access!NewSession("imt", 0, 0, person'.generation, requests[r].born))
          /\ requests[r].kind = "imt" /\ Access!Admits(requests[r])
      BY <2>4 DEF Access!FinalizeLogin, Access!None
    <3>2. s.born = requests[r].born
      BY <3>1, InsertedWhich DEF Access!NewSession
    <3>3. requests[r].born = revocations
      BY <2>3, <3>1 DEF Access!Admits, Fenced, Behind
    <3>4. QED
      BY <3>2, <3>3
  <2>5. CASE Access!InsertTokenSession(r)
    <3>1. /\ Access!Inserted(Access!NewSession("token", requests[r].factor.id, 0,
                                               requests[r].factor.generation, requests[r].born))
          /\ requests[r].kind = "token" /\ person' = person
      BY <2>5 DEF Access!InsertTokenSession, Access!None
    <3>2. s.born = requests[r].born /\ s.generation = requests[r].factor.generation
      BY <3>1, InsertedWhich DEF Access!NewSession
    <3>3. QED
      BY <2>1, <2>3, <3>1, <3>2 DEF Fenced, Behind
  <2>6. CASE Access!InsertPasskeySession(r)
    <3>1. /\ Access!Inserted(Access!NewSession("passkey", requests[r].factor.id,
                                               requests[r].challenge,
                                               requests[r].factor.generation, requests[r].born))
          /\ requests[r].kind = "passkey" /\ person' = person
      BY <2>6 DEF Access!InsertPasskeySession
    <3>2. s.born = requests[r].born /\ s.generation = requests[r].factor.generation
      BY <3>1, InsertedWhich DEF Access!NewSession
    <3>3. QED
      BY <2>1, <2>3, <3>1, <3>2 DEF Fenced, Behind
  <2>7. QED
    BY <2>2, <2>4, <2>5, <2>6
<1>2. QED
  BY <1>1, InitAccess, StepAccess, AccessAlone, PTL
  DEF Access!Spec, LateLoginDead, Access!LateLoginDead
-----------------------------------------------------------------------------
(* The stored credential: Credentials.                                     *)

\* In the composition, the credential takes its own steps only.
LEMMA CredentialsAlone == AccountsSpec => Credentials!Spec
<1>1. AccountsInit => Credentials!Init
  BY DEF AccountsInit
<1>2. [AccountsNext]_accountsVars => [Credentials!Next]_(Credentials!vars)
  BY DEF AccountsNext, accountsVars, Schedule, CredentialsStep, AccessStep, ThrottleStep,
     ConversationStep, MigrationStep, ReconciliationStep, KeysetStep, ResultsStep, BoardStep,
     credentialsVars, Credentials!vars
<1>3. QED
  BY <1>1, <1>2, PTL DEF AccountsSpec, Credentials!Spec

\* What the worker is doing while the owner or anybody else acts.
LEMMA WorkerAlone ==
  ASSUME Credentials!Next, ~Credentials!WorkerStep
  PROVE  UNCHANGED worker
BY DEF Credentials!Next, Credentials!OwnerStep, Credentials!Environment, Credentials!AskMode,
   Credentials!SetMode, Credentials!AskVerification, Credentials!Verified,
   Credentials!VerificationFails, Credentials!Enroll, Credentials!Reconnect, Credentials!Login,
   Credentials!DeleteCredential, Credentials!PurgePassAccess, Credentials!TabsAside,
   Credentials!Resumes, Credentials!WorkerAside, Credentials!Outside, Credentials!DisableAccount,
   Credentials!EnableAccount, Credentials!RevokeAccess, Credentials!RevokePassSession,
   Credentials!RevokeAll, Credentials!ReconcileRead, Credentials!ReconcileWrite,
   Credentials!SessionRunsOut, Credentials!CleanupSessions, Credentials!SwitchRuntime,
   Credentials!LoseLease, Credentials!LoseSlot

\* A worker at an SSO ends it in one of four ways.
LEMMA AfterSso ==
  ASSUME Credentials!WorkerStep, worker.at = "sso"
  PROVE  \/ Credentials!SsoRefused \/ Credentials!FetchFails
         \/ \E reusable \in BOOLEAN : Credentials!CommitSso(reusable)
BY DEF Credentials!WorkerStep, Credentials!StartSync, Credentials!RuntimeUnavailable,
   Credentials!LoadSession, Credentials!PassesGate, Credentials!SessionKeyUnavailable,
   Credentials!ReserveOperation, Credentials!DeferSync, Credentials!FetchReused,
   Credentials!SessionRefused, Credentials!LoadSnapshot, Credentials!OwnerFallback,
   Credentials!OpenEnvelope, Credentials!CommitReused, Credentials!CommitOwnerFile,
   Credentials!RecordFailure

\* A run that fails is not idle yet.
LEMMA FailingWorks == Credentials!Failing => worker'.at = "failing"
BY DEF Credentials!Failing, Credentials!Idle

\* What an SSO brought back is written against the credential it used.
LEMMA CommitFencedKept ==
  Credentials!Next => (Credentials!SsoOutcome =>
      /\ credential.envelope = worker.snapshot.envelope
      /\ Credentials!IsAutonomous(account) /\ ~account.disabled)
<1> SUFFICES ASSUME Credentials!Next, Credentials!SsoOutcome
             PROVE  /\ credential.envelope = worker.snapshot.envelope
                    /\ Credentials!IsAutonomous(account) /\ ~account.disabled
  OBVIOUS
<1>1. worker.at = "sso" /\ worker' # worker /\ worker'.at = "idle"
  BY DEF Credentials!SsoOutcome
<1>2. Credentials!WorkerStep
  BY <1>1, WorkerAlone
<1>3. ~Credentials!Failing
  BY <1>1, FailingWorks
<1>4. \E reusable \in BOOLEAN : Credentials!CommitSso(reusable)
  BY <1>1, <1>2, <1>3, AfterSso DEF Credentials!SsoRefused, Credentials!FetchFails
<1>5. Credentials!StillCurrent(worker.snapshot)
  BY <1>3, <1>4 DEF Credentials!CommitSso
<1>6. QED
  BY <1>5 DEF Credentials!StillCurrent, Credentials!Current, Credentials!SnapshotIsCurrent

\* A credential becomes invalid only in the step that checks its snapshot.
LEMMA ReplacementKept ==
  Credentials!Next => (credential.state = "active" /\ credential'.state = "invalid"
                        => credential.envelope = worker.snapshot.envelope)
<1> SUFFICES ASSUME Credentials!Next, credential.state = "active", credential'.state = "invalid"
             PROVE  credential.envelope = worker.snapshot.envelope
  OBVIOUS
<1>1. credential' # credential
  OBVIOUS
<1>2. credential' # Credentials!Revoked(credential)
  BY DEF Credentials!Revoked
<1>3. ~Credentials!OwnerStep
  <2>1. \A t : ~Credentials!Enroll(t)
    BY <1>1 DEF Credentials!Enroll
  <2>2. QED
    BY <1>1, <1>2, <2>1 DEF Credentials!OwnerStep, Credentials!AskMode, Credentials!SetMode,
       Credentials!AskVerification, Credentials!Verified, Credentials!VerificationFails,
       Credentials!Reconnect, Credentials!Login, Credentials!DeleteCredential,
       Credentials!PurgePassAccess
<1>4. ~Credentials!Environment
  BY <1>1, <1>2 DEF Credentials!Environment, Credentials!DisableAccount,
     Credentials!EnableAccount, Credentials!RevokeAccess, Credentials!RevokePassSession,
     Credentials!RevokeAll, Credentials!ReconcileRead, Credentials!ReconcileWrite,
     Credentials!SessionRunsOut, Credentials!CleanupSessions, Credentials!SwitchRuntime,
     Credentials!LoseLease, Credentials!LoseSlot
<1>5. Credentials!WorkerStep
  BY <1>3, <1>4 DEF Credentials!Next
<1>6. Credentials!Invalidate(worker.snapshot)
  BY <1>1, <1>5 DEF Credentials!WorkerStep, Credentials!StartSync,
     Credentials!RuntimeUnavailable, Credentials!LoadSession, Credentials!SessionKeyUnavailable,
     Credentials!ReserveOperation, Credentials!DeferSync, Credentials!FetchReused,
     Credentials!SessionRefused, Credentials!LoadSnapshot, Credentials!OwnerFallback,
     Credentials!OpenEnvelope, Credentials!SsoRefused, Credentials!FetchFails,
     Credentials!CommitSso, Credentials!CommitReused, Credentials!CommitOwnerFile,
     Credentials!RecordFailure
<1>7. QED
  BY <1>1, <1>6 DEF Credentials!Invalidate, Credentials!SnapshotIsCurrent

\* The worker ends the session it loaded, or stores one where none is live.
LEMMA OwnerSessionIsKept ==
  Credentials!Next =>
    (session' # session /\ worker.at # "gate" /\ Credentials!LiveSession /\ Credentials!WorkerStep
       => worker.at = "file" \/ session.id = worker.stored)
<1> SUFFICES ASSUME session' # session, worker.at # "gate", Credentials!LiveSession,
                    Credentials!WorkerStep, worker.at # "file"
             PROVE  session.id = worker.stored
  OBVIOUS
<1>1. \/ Credentials!SessionRefused
      \/ \E reusable \in BOOLEAN : \/ Credentials!CommitSso(reusable)
                                   \/ Credentials!CommitReused(reusable)
  BY DEF Credentials!WorkerStep, Credentials!StartSync, Credentials!RuntimeUnavailable,
     Credentials!LoadSession, Credentials!PassesGate, Credentials!SessionKeyUnavailable,
     Credentials!ReserveOperation, Credentials!DeferSync, Credentials!FetchReused,
     Credentials!LoadSnapshot, Credentials!OwnerFallback, Credentials!OpenEnvelope,
     Credentials!SsoRefused, Credentials!FetchFails, Credentials!CommitOwnerFile,
     Credentials!RecordFailure
<1>2. \A reusable \in BOOLEAN : ~Credentials!CommitSso(reusable)
  BY DEF Credentials!CommitSso, Credentials!StillCurrent
<1>3. Credentials!EndSession(worker.stored)
  BY <1>1, <1>2 DEF Credentials!SessionRefused, Credentials!CommitReused
<1>4. QED
  BY <1>3 DEF Credentials!EndSession

\* The row of the account keeps its columns.
Dated == "consented" \in DOMAIN account

\* Writing a column leaves the consent alone.
LEMMA PausedKeeps ==
  ASSUME Dated, NEW reason
  PROVE  /\ "consented" \in DOMAIN Credentials!Paused(account, reason)
         /\ Credentials!Paused(account, reason).consented = account.consented
BY DEF Dated, Credentials!Paused

\* What the worker writes on the account is a pause.
LEMMA WorkerPauses ==
  ASSUME Credentials!WorkerStep
  PROVE  account' = account \/ \E reason : account' = Credentials!Paused(account, reason)
BY DEF Credentials!WorkerStep, Credentials!StartSync, Credentials!RuntimeUnavailable,
   Credentials!LoadSession, Credentials!SessionKeyUnavailable, Credentials!ReserveOperation,
   Credentials!DeferSync, Credentials!FetchReused, Credentials!SessionRefused,
   Credentials!LoadSnapshot, Credentials!OwnerFallback, Credentials!OpenEnvelope,
   Credentials!Invalidate, Credentials!PauseIfAutonomous, Credentials!SsoRefused,
   Credentials!FetchFails, Credentials!CommitSso, Credentials!CommitReused,
   Credentials!CommitOwnerFile, Credentials!RecordFailure

\* Setting a mode writes columns of the row.
LEMMA ModeSetKeeps ==
  ASSUME Dated, NEW seen, NEW mode, NEW setup
  PROVE  "consented" \in DOMAIN Credentials!ModeSet(seen, mode, setup)
BY DEF Dated, Credentials!ModeSet, Credentials!Flushed

\* The owner's requests keep the columns.
LEMMA OwnerDated ==
  ASSUME Dated, Credentials!OwnerStep
  PROVE  Dated'
<1>1. \/ account' = account
      \/ \E reason : account' = Credentials!Paused(account, reason)
      \/ \E seen, mode, setup : account' = Credentials!ModeSet(seen, mode, setup)
      \/ Credentials!DeleteCredential
  BY DEF Credentials!OwnerStep, Credentials!AskMode, Credentials!SetMode,
     Credentials!AskVerification, Credentials!Verified, Credentials!VerificationFails,
     Credentials!Enroll, Credentials!Reconnect, Credentials!Login, Credentials!PurgePassAccess
<1>2. CASE Credentials!DeleteCredential
  <2>1. PICK set : set = Credentials!ModeSet(account, "session_only", FALSE)
    OBVIOUS
  <2>2. "consented" \in DOMAIN set
    BY <2>1, ModeSetKeeps
  <2>3. \/ account' = account
        \/ \E reason : account' = [set EXCEPT !.paused = reason]
    BY <1>2, <2>1 DEF Credentials!DeleteCredential
  <2>4. QED
    BY <2>2, <2>3 DEF Dated
<1>3. QED
  BY <1>1, <1>2, PausedKeeps, ModeSetKeeps DEF Dated

\* Everybody else keeps them, and dates no consent.
LEMMA OthersKeep ==
  ASSUME Dated, Credentials!WorkerStep \/ Credentials!Environment
  PROVE  Dated' /\ (account'.consented => account.consented)
<1>1. CASE account' = account \/ \E reason : account' = Credentials!Paused(account, reason)
  BY <1>1, PausedKeeps DEF Dated
<1>2. CASE Credentials!DisableAccount
  BY <1>2 DEF Dated, Credentials!DisableAccount
<1>3. CASE Credentials!EnableAccount
  BY <1>3 DEF Dated, Credentials!EnableAccount
<1>4. CASE Credentials!RevokeAll
  BY <1>4 DEF Dated, Credentials!RevokeAll
<1>5. QED
  BY <1>1, <1>2, <1>3, <1>4, WorkerPauses DEF Credentials!Environment, Credentials!RevokeAccess,
     Credentials!RevokePassSession, Credentials!ReconcileRead, Credentials!ReconcileWrite,
     Credentials!SessionRunsOut, Credentials!CleanupSessions, Credentials!SwitchRuntime,
     Credentials!LoseLease, Credentials!LoseSlot

(* What a worker brings back late is applied only against the credential   *)
(* it used, ends no session of the owner and harms no newer credential;    *)
(* nobody but the owner dates a consent.                                   *)
THEOREM CredentialsHold == AccountsSpec => CredentialsFenced
<1>1. Credentials!Init => Dated
  BY DEF Credentials!Init, Dated
<1>2. Dated /\ [Credentials!Next]_(Credentials!vars) => Dated'
  BY OwnerDated, OthersKeep DEF Credentials!Next, Credentials!vars, Dated
<1>3. Dated /\ [Credentials!Next]_(Credentials!vars) =>
        [account'.consented /\ ~account.consented => Credentials!OwnerStep]_(Credentials!vars)
  BY OthersKeep DEF Credentials!Next
<1>4. [Credentials!Next]_(Credentials!vars) =>
        [Credentials!SsoOutcome =>
           /\ credential.envelope = worker.snapshot.envelope
           /\ Credentials!IsAutonomous(account) /\ ~account.disabled]_(Credentials!vars)
  BY CommitFencedKept
<1>5. [Credentials!Next]_(Credentials!vars) =>
        [credential.state = "active" /\ credential'.state = "invalid"
           => credential.envelope = worker.snapshot.envelope]_(Credentials!vars)
  BY ReplacementKept
<1>6. [Credentials!Next]_(Credentials!vars) =>
        [session' # session /\ worker.at # "gate" /\ Credentials!LiveSession
           /\ Credentials!WorkerStep
         => worker.at = "file" \/ session.id = worker.stored]_(Credentials!vars)
  BY OwnerSessionIsKept
<1>7. QED
  BY <1>1, <1>2, <1>3, <1>4, <1>5, <1>6, CredentialsAlone, PTL
  DEF Credentials!Spec, CredentialsFenced, Credentials!CommitFenced,
      Credentials!ReplacementIntact, Credentials!OwnerSessionKept, Credentials!ConsentIsOwners
-----------------------------------------------------------------------------
(* The directory of the keys: Keyset.                                      *)

\* In the composition, the directory takes its own steps only.
LEMMA KeysetAlone == AccountsSpec => Keyset!Spec
<1>1. AccountsInit => Keyset!Init
  BY DEF AccountsInit
<1>2. [AccountsNext]_accountsVars => [Keyset!Next]_(Keyset!keysetVars)
  BY DEF AccountsNext, accountsVars, Schedule, CredentialsStep, AccessStep, ThrottleStep,
     ConversationStep, MigrationStep, ReconciliationStep, KeysetStep, ResultsStep, BoardStep,
     directoryVars, Keyset!keysetVars
<1>3. QED
  BY <1>1, <1>2, PTL DEF AccountsSpec, Keyset!Spec

HandColumns == {"kind", "command", "found", "todo", "cause"}

\* The files that a command writes or deletes.
Touched(c) ==
  {n \in Keyset!Names : /\ n[1] = c.generation
                        /\ (c.kind = "prepare" \/ (c.kind = "delete" /\ n[2] = "private"))}

Rename(m) == [do |-> "rename", of |-> m]
NewFile == [do |-> "new"]

\* What the files hold.
Raw(f) == f \in [Keyset!Names -> Int]

\* What is left of a command, and of its undoing.
Doing(c) ==
  {NewFile, Keyset!Sync, Rename(c.to), Keyset!Check(c.to)}
  \cup {Keyset!Write(n, c.key) : n \in Touched(c)} \cup {Keyset!Unlink(n) : n \in Touched(c)}
Undoing(c, found) ==
  {NewFile, Keyset!Sync, Rename(c.from)}
  \cup {Keyset!Unlink(n) : n \in {x \in Touched(c) : found[x] = Keyset!Absent}}
  \cup {Keyset!Write(n, c.key) : n \in {x \in Touched(c) : found[x] = c.key}}

\* A step of a command, or of its undoing.
StepOn(c, found, step) == step \in Doing(c) \cup Undoing(c, found)

Among(x, s) == \E i \in 1 .. Len(s) : s[i] = x

\* Steps that end with their only check, and steps without one.
ChecksLast(t) == \A i \in 1 .. Len(t) : t[i].do = "check" <=> i = Len(t)
UncheckedYet(s) == \A i \in 1 .. Len(s) : s[i].do # "check"

\* A manifest that names a key for each of its entries.
ManifestFit(m) ==
  /\ DOMAIN m = {"version", "of"} /\ m.version \in {1, 2}
  /\ m.of \in [Keyset!Generations -> Keyset!Entry]
  /\ \A g \in Keyset!Generations :
        /\ m.of[g].private = TRUE => m.of[g].state # "none"
        /\ m.of[g].state # "none" => m.of[g].key \in Keyset!Keys

\* The generation g is the active one of m, and its files are those found,
\* which the command does not touch.
Backs(m, g, c, found) ==
  /\ m.of[g].state = "active"
  /\ \A h \in Keyset!Generations : m.of[h].state = "active" => h = g
  /\ \A kind \in {"private", "public"} :
        <<g, kind>> \notin Touched(c) /\ found[<<g, kind>>] = m.of[g].key

\* A command is of some kind, for some generation.
Commanded(c) ==
  c.kind \in {"prepare", "activate", "retire", "delete"} /\ c.generation \in Keyset!Generations

\* What a command does not change while it runs; "kept" are the keys that
\* may have sealed something and whose deletion nobody confirmed.
CommandFit(c, found, kept) ==
  /\ Commanded(c) /\ c.key \in Keyset!Keys
  /\ Raw(found)
  /\ \A m \in {c.from, c.to} :
        ManifestFit(m) /\ \E g \in Keyset!Generations : Backs(m, g, c, found)
  /\ \A n \in Touched(c) : found[n] = (IF c.kind = "prepare" THEN Keyset!Absent ELSE c.key)
  /\ \A k \in kept : \E g \in Keyset!Generations :
        <<g, "private">> \notin Touched(c) /\ found[<<g, "private">>] = k

\* A command that met no failure yet: the check is its last step, and the
\* manifest it wants is in its place, or is still to come.
ForwardFit(h, m, f, extra) ==
  /\ h.todo \in Seq(Doing(h.command))
  /\ ChecksLast(h.todo)
  /\ m.of = h.command.to.of \/ Among(Rename(h.command.to), h.todo)
  /\ h.todo = <<>> => Keyset!Exact(m, f, extra)

\* An undoing that started after the last step and met no failure: what
\* differs from what the command found is still to be put back.
BackwardFit(h, m, f) ==
  /\ m = h.command.from \/ Among(Rename(h.command.from), h.todo)
  /\ \A n \in Keyset!Names :
        \/ f[n] = h.found[n]
        \/ Among(Keyset!Unlink(n), h.todo) \/ Among(Keyset!Write(n, h.command.key), h.todo)

\* The files that a command does not touch are those it found.
FilesFit(c, found, f) ==
  \A n \in Keyset!Names :
     IF n \in Touched(c) THEN f[n] \in {Keyset!Absent, Keyset!Partial, c.key} ELSE f[n] = found[n]

\* A command at work, with the manifest, the files and a temporary manifest.
HandFit(h, m, f, extra, kept) ==
  /\ DOMAIN h = HandColumns
  /\ CommandFit(h.command, h.found, kept)
  /\ m \in {h.command.from, h.command.to}
  /\ FilesFit(h.command, h.found, f)
  /\ IF h.cause = "none" THEN ForwardFit(h, m, f, extra)
     ELSE h.todo \in Seq(Undoing(h.command, h.found))
  /\ h.cause = "check" => BackwardFit(h, m, f)

\* The active generation has its files, and the keys kept have one each.
Backed(m, f) ==
  \E g \in Keyset!Generations :
     m.of[g].state = "active" /\ \A kind \in {"private", "public"} : f[<<g, kind>>] = m.of[g].key
Kept(f, kept) == \A k \in kept : \E g \in Keyset!Generations : f[<<g, "private">>] = k

\* The hands of the operators.
HandsFit(hands, locked, m, f, extra, kept) ==
  \A o \in Hands : hands[o] # Keyset!Idle => locked = o /\ HandFit(hands[o], m, f, extra, kept)

\* The inductive invariant of the directory.
KeysetInv ==
  /\ Raw(files) /\ litter \in BOOLEAN /\ drawn \in Nat
  /\ sealed \subseteq Keyset!Keys
  /\ hand = [o \in Hands |-> hand[o]]
  /\ IF manifest = Keyset!Missing
     THEN sealed = {} /\ hand = [o \in Hands |-> Keyset!Idle]
     ELSE ManifestFit(manifest) /\ Backed(manifest, files)
  /\ Kept(files, sealed \ ordered)
  /\ HandsFit(hand, lock, manifest, files, litter, sealed \ ordered)

\* What is left of a sequence of steps after its first.
LEMMA StepsLeft ==
  ASSUME NEW S, NEW s \in Seq(S), s # <<>>, NEW first, first = Head(s), NEW rest, rest = Tail(s)
  PROVE  /\ first \in S /\ rest \in Seq(S)
         /\ \A x : Among(x, s) => x = first \/ Among(x, rest)
<1>1. /\ first \in S /\ first = s[1] /\ rest \in Seq(S)
      /\ Len(s) \in Nat /\ Len(s) > 0 /\ Len(rest) = Len(s) - 1
      /\ \A i \in 1 .. Len(rest) : rest[i] = s[i + 1]
  OBVIOUS
<1>2. ASSUME NEW x, Among(x, s), x # first PROVE Among(x, rest)
  <2>1. PICK i \in 1 .. Len(s) : s[i] = x
    BY <1>2 DEF Among
  <2>2. i - 1 \in 1 .. Len(rest) /\ rest[i - 1] = x
    BY <1>1, <1>2, <2>1
  <2>3. QED
    BY <2>2 DEF Among
<1>3. QED
  BY <1>1, <1>2

\* Two sequences of steps, one after the other.
LEMMA Joined ==
  ASSUME NEW S, NEW s \in Seq(S), NEW t \in Seq(S), NEW u, u = s \o t
  PROVE  /\ u \in Seq(S) /\ Len(u) = Len(s) + Len(t)
         /\ \A i \in 1 .. Len(s) : u[i] = s[i]
         /\ \A i \in 1 .. Len(t) : u[Len(s) + i] = t[i]
         /\ \A x : Among(x, s) \/ Among(x, t) => Among(x, u)
<1>1. /\ u \in Seq(S) /\ Len(u) = Len(s) + Len(t)
      /\ Len(s) \in Nat /\ Len(t) \in Nat
      /\ \A i \in 1 .. Len(s) : u[i] = s[i]
      /\ \A i \in 1 .. Len(t) : u[Len(s) + i] = t[i]
  OBVIOUS
<1>2. ASSUME NEW x, Among(x, s) PROVE Among(x, u)
  <2>1. PICK i \in 1 .. Len(s) : s[i] = x
    BY <1>2 DEF Among
  <2>2. i \in 1 .. Len(u) /\ u[i] = x
    BY <1>1, <2>1
  <2>3. QED
    BY <2>2 DEF Among
<1>3. ASSUME NEW x, Among(x, t) PROVE Among(x, u)
  <2>1. PICK i \in 1 .. Len(t) : t[i] = x
    BY <1>3 DEF Among
  <2>2. Len(s) + i \in 1 .. Len(u) /\ u[Len(s) + i] = x
    BY <1>1, <2>1
  <2>3. QED
    BY <2>2 DEF Among
<1>4. QED
  BY <1>1, <1>2, <1>3

\* A manifest is replaced in three steps.
LEMMA Replaces ==
  ASSUME NEW S, NEW m, NewFile \in S, Rename(m) \in S, Keyset!Sync \in S
  PROVE  /\ Keyset!Replace(m) \in Seq(S) /\ Len(Keyset!Replace(m)) = 3
         /\ Keyset!Replace(m)[1] = NewFile /\ Keyset!Replace(m)[2] = Rename(m)
         /\ Keyset!Replace(m)[3] = Keyset!Sync
         /\ Among(Rename(m), Keyset!Replace(m))
<1>1. PICK s : s = <<NewFile, Rename(m), Keyset!Sync>>
  OBVIOUS
<1>2. /\ s \in Seq(S) /\ Len(s) = 3 /\ s[1] = NewFile /\ s[2] = Rename(m) /\ s[3] = Keyset!Sync
  BY <1>1
<1>3. 2 \in 1 .. Len(s)
  BY <1>2
<1>4. Among(Rename(m), s)
  BY <1>2, <1>3 DEF Among
<1>5. s = Keyset!Replace(m)
  BY <1>1 DEF Keyset!Replace, NewFile, Rename
<1>6. QED
  BY <1>2, <1>4, <1>5

\* The kinds of the steps.
LEMMA StepKinds ==
  ASSUME NEW m, NEW n, NEW key
  PROVE  /\ NewFile.do = "new" /\ Keyset!Sync.do = "sync"
         /\ Rename(m).do = "rename" /\ Rename(m).of = m
         /\ Keyset!Check(m).do = "check" /\ Keyset!Check(m).of = m
         /\ Keyset!Write(n, key).do = "write" /\ Keyset!Write(n, key).name = n
         /\ Keyset!Write(n, key).key = key
         /\ Keyset!Unlink(n).do = "unlink" /\ Keyset!Unlink(n).name = n
BY DEF NewFile, Rename, Keyset!Sync, Keyset!Check, Keyset!Write, Keyset!Unlink

\* The files of a generation.
LEMMA FilesOfGeneration ==
  ASSUME NEW c, c.generation \in Keyset!Generations
  PROVE  /\ c.kind = "prepare" => Touched(c) = {<<c.generation, "private">>, <<c.generation, "public">>}
         /\ c.kind = "delete" => Touched(c) = {<<c.generation, "private">>}
         /\ c.kind \in {"activate", "retire"} => Touched(c) = {}
         /\ Touched(c) \subseteq Keyset!Names
BY DEF Touched, Keyset!Names

\* Steps without a check, and then one.
LEMMA Closes ==
  ASSUME NEW S, NEW s \in Seq(S), UncheckedYet(s),
         NEW e \in S, e.do = "check", NEW t, t = s \o <<e>>
  PROVE  /\ t \in Seq(S) /\ Len(t) = Len(s) + 1 /\ t # <<>>
         /\ ChecksLast(t)
         /\ \A x : Among(x, s) => Among(x, t)
<1>0. PICK one : one = <<e>>
  OBVIOUS
<1>1. one \in Seq(S) /\ Len(one) = 1 /\ one[1] = e /\ t = s \o one
  BY <1>0
<1>j. /\ t \in Seq(S) /\ Len(t) = Len(s) + Len(one)
      /\ \A i \in 1 .. Len(s) : t[i] = s[i]
      /\ \A i \in 1 .. Len(one) : t[Len(s) + i] = one[i]
      /\ \A x : Among(x, s) \/ Among(x, one) => Among(x, t)
  BY <1>1, Joined, ZenonT(30)
<1>2. /\ t \in Seq(S) /\ Len(t) = Len(s) + 1 /\ Len(s) \in Nat
      /\ \A i \in 1 .. Len(s) : t[i] = s[i]
      /\ t[Len(s) + 1] = e
      /\ \A x : Among(x, s) => Among(x, t)
  BY <1>1, <1>j
<1>3. t # <<>>
  BY <1>2
<1>4. ChecksLast(t)
  BY <1>2 DEF ChecksLast, UncheckedYet
<1>5. QED
  BY <1>2, <1>3, <1>4

\* The steps of a command.
LEMMA StepsFit ==
  ASSUME NEW c, Commanded(c)
  PROVE  /\ Keyset!Steps(c) \in Seq(Doing(c)) /\ Keyset!Steps(c) # <<>>
         /\ ChecksLast(Keyset!Steps(c))
         /\ c.kind # "retire" => Among(Rename(c.to), Keyset!Steps(c))
         /\ Len(Keyset!Steps(c)) = (IF c.kind \in {"prepare", "delete"} THEN 6
                                    ELSE IF c.kind = "activate" THEN 4 ELSE 1)
<1>1. PICK private, public : /\ private = <<c.generation, "private">>
                             /\ public = <<c.generation, "public">>
  OBVIOUS
<1>0. c.kind \in {"prepare", "activate", "retire", "delete"} /\ c.generation \in Keyset!Generations
  BY DEF Commanded
<1>2. PICK check, r, S : /\ check = Keyset!Check(c.to) /\ r = Keyset!Replace(c.to)
                         /\ S = Doing(c)
  OBVIOUS
<1>3. /\ NewFile \in S /\ Rename(c.to) \in S /\ Keyset!Sync \in S
      /\ check \in S /\ check.do = "check"
  BY <1>2, StepKinds DEF Doing
<1>4. /\ r \in Seq(S) /\ Len(r) = 3 /\ Among(Rename(c.to), r)
      /\ r[1].do # "check" /\ r[2].do # "check" /\ r[3].do # "check"
  BY <1>2, <1>3, Replaces, StepKinds
<1>5. UncheckedYet(r)
  BY <1>4 DEF UncheckedYet
<1>6. CASE c.kind = "prepare"
  <2>1. PICK w, v : w = Keyset!Write(private, c.key) /\ v = Keyset!Write(public, c.key)
    OBVIOUS
  <2>2. private \in Touched(c) /\ public \in Touched(c)
    BY <1>0, <1>1, <1>6, FilesOfGeneration
  <2>3. w \in S /\ v \in S /\ w.do = "write" /\ v.do = "write"
    BY <1>2, <2>1, <2>2, StepKinds DEF Doing
  <2>4. PICK a : a = <<w, v>>
    OBVIOUS
  <2>5. a \in Seq(S) /\ Len(a) = 2 /\ a[1] = w /\ a[2] = v
    BY <2>3, <2>4
  <2>6. PICK s : s = a \o r
    OBVIOUS
  <2>m. a \in Seq(S) /\ r \in Seq(S)
    BY <1>4, <2>5
  <2>7. /\ s \in Seq(S) /\ Len(s) = 5 /\ Among(Rename(c.to), s)
        /\ s[1] = a[1] /\ s[2] = a[2] /\ s[3] = r[1] /\ s[4] = r[2] /\ s[5] = r[3]
    <3>1. /\ s \in Seq(S) /\ Len(s) = Len(a) + Len(r)
          /\ \A i \in 1 .. Len(a) : s[i] = a[i]
          /\ \A i \in 1 .. Len(r) : s[Len(a) + i] = r[i]
      BY <2>6, <2>m
    <3>2. \A x : Among(x, a) \/ Among(x, r) => Among(x, s)
      BY <2>6, <2>m, Joined, ZenonT(30)
    <3>3. QED
      BY <1>4, <2>5, <3>1, <3>2
  <2>8. UncheckedYet(s)
    BY <1>4, <2>3, <2>5, <2>7 DEF UncheckedYet
  <2>9. Keyset!Steps(c) = s \o <<check>>
    BY <1>1, <1>2, <1>6, <2>1, <2>4, <2>6 DEF Keyset!Steps
  <2>10. PICK t : t = s \o <<check>>
    OBVIOUS
  <2>11. /\ t \in Seq(S) /\ Len(t) = Len(s) + 1 /\ t # <<>>
         /\ ChecksLast(t)
         /\ \A x : Among(x, s) => Among(x, t)
    <3>1. s \in Seq(S) /\ check \in S /\ check.do = "check"
      BY <1>3, <2>7
    <3>2. QED
      BY <2>8, <2>10, <3>1, Closes, ZenonT(30)
  <2>12. QED
    BY <1>2, <1>6, <2>7, <2>9, <2>10, <2>11
<1>7. CASE c.kind = "activate"
  <2>1. Keyset!Steps(c) = r \o <<check>>
    BY <1>2, <1>7 DEF Keyset!Steps
  <2>2. PICK t : t = r \o <<check>>
    OBVIOUS
  <2>3. /\ t \in Seq(S) /\ Len(t) = Len(r) + 1 /\ t # <<>>
        /\ ChecksLast(t)
        /\ \A x : Among(x, r) => Among(x, t)
    <3>1. r \in Seq(S) /\ check \in S /\ check.do = "check"
      BY <1>3, <1>4
    <3>2. QED
      BY <1>5, <2>2, <3>1, Closes, ZenonT(30)
  <2>4. QED
    BY <1>2, <1>4, <1>7, <2>1, <2>2, <2>3
<1>8. CASE c.kind = "retire"
  <2>1. Keyset!Steps(c) = <<check>>
    BY <1>2, <1>8 DEF Keyset!Steps
  <2>2. PICK s : s = <<check>>
    OBVIOUS
  <2>3. s \in Seq(S) /\ Len(s) = 1 /\ s[1] = check /\ s # <<>>
    BY <1>3, <2>2
  <2>4. ChecksLast(s)
    BY <1>3, <2>3 DEF ChecksLast
  <2>5. QED
    BY <1>2, <1>8, <2>1, <2>2, <2>3, <2>4
<1>9. CASE c.kind = "delete"
  <2>1. PICK u, y : u = Keyset!Unlink(private) /\ y = Keyset!Sync
    OBVIOUS
  <2>2. private \in Touched(c)
    BY <1>0, <1>1, <1>9, FilesOfGeneration
  <2>3. u \in S /\ y \in S /\ u.do = "unlink" /\ y.do = "sync"
    BY <1>2, <1>3, <2>1, <2>2, StepKinds DEF Doing
  <2>4. PICK b : b = <<u, y, check>>
    OBVIOUS
  <2>5. b \in Seq(S) /\ Len(b) = 3 /\ b[1] = u /\ b[2] = y /\ b[3] = check
    BY <1>3, <2>3, <2>4
  <2>6. PICK s : s = r \o b
    OBVIOUS
  <2>m. b \in Seq(S) /\ r \in Seq(S)
    BY <1>4, <2>5
  <2>7. /\ s \in Seq(S) /\ Len(s) = 6 /\ Among(Rename(c.to), s)
        /\ s[1] = r[1] /\ s[2] = r[2] /\ s[3] = r[3] /\ s[4] = u /\ s[5] = y /\ s[6] = check
    <3>1. /\ s \in Seq(S) /\ Len(s) = Len(r) + Len(b)
          /\ \A i \in 1 .. Len(r) : s[i] = r[i]
          /\ \A i \in 1 .. Len(b) : s[Len(r) + i] = b[i]
      BY <2>6, <2>m
    <3>2. \A x : Among(x, r) \/ Among(x, b) => Among(x, s)
      BY <2>6, <2>m, Joined, ZenonT(30)
    <3>3. QED
      BY <1>4, <2>5, <3>1, <3>2
  <2>8. ChecksLast(s)
    BY <1>3, <1>4, <2>3, <2>7 DEF ChecksLast
  <2>9. Keyset!Steps(c) = s /\ s # <<>>
    BY <1>1, <1>2, <1>9, <2>1, <2>4, <2>6, <2>7 DEF Keyset!Steps
  <2>10. QED
    BY <1>2, <1>9, <2>7, <2>8, <2>9
<1>10. QED
  BY <1>0, <1>6, <1>7, <1>8, <1>9

\* The undoing of a command, and that of one whose last step failed.
LEMMA UndoFits ==
  ASSUME NEW c, NEW found, NEW kept, CommandFit(c, found, kept), NEW done \in Int
  PROVE  /\ Keyset!Undo(c, done) \in Seq(Undoing(c, found))
         /\ done = Len(Keyset!Steps(c)) - 1
              => /\ Among(Rename(c.from), Keyset!Undo(c, done))
                 /\ \A n \in Touched(c) : \/ Among(Keyset!Unlink(n), Keyset!Undo(c, done))
                                          \/ Among(Keyset!Write(n, c.key), Keyset!Undo(c, done))
<1>1. PICK private, public : /\ private = <<c.generation, "private">>
                             /\ public = <<c.generation, "public">>
  OBVIOUS
<1>2. PICK r, S : r = Keyset!Replace(c.from) /\ S = Undoing(c, found)
  OBVIOUS
<1>3. NewFile \in S /\ Rename(c.from) \in S /\ Keyset!Sync \in S
  BY <1>2 DEF Undoing
<1>4. r \in Seq(S) /\ Among(Rename(c.from), r)
  BY <1>2, <1>3, Replaces
<1>5. c.generation \in Keyset!Generations /\ c.kind \in {"prepare", "activate", "retire", "delete"}
  BY DEF CommandFit, Commanded
<1>6. Len(Keyset!Steps(c)) = (IF c.kind \in {"prepare", "delete"} THEN 6
                              ELSE IF c.kind = "activate" THEN 4 ELSE 1)
  BY StepsFit DEF CommandFit
<1>7. CASE c.kind = "prepare"
  <2>1. Touched(c) = {private, public}
    BY <1>1, <1>5, <1>7, FilesOfGeneration
  <2>2. found[private] = Keyset!Absent /\ found[public] = Keyset!Absent
    BY <1>7, <2>1 DEF CommandFit
  <2>3. PICK u, v : u = Keyset!Unlink(private) /\ v = Keyset!Unlink(public)
    OBVIOUS
  <2>4. u \in S /\ v \in S
    BY <1>2, <2>1, <2>2, <2>3 DEF Undoing
  <2>5. PICK a, b, d, e : /\ a = (IF done >= 5 THEN r ELSE <<>>)
                          /\ b = (IF done >= 1 THEN <<u>> ELSE <<>>)
                          /\ d = (IF done >= 2 THEN <<v>> ELSE <<>>)
                          /\ e = <<Keyset!Sync>>
    OBVIOUS
  <2>6. a \in Seq(S) /\ b \in Seq(S) /\ d \in Seq(S) /\ e \in Seq(S)
    BY <1>3, <1>4, <2>4, <2>5
  <2>7. PICK s, t, all : s = a \o b /\ t = s \o d /\ all = t \o e
    OBVIOUS
  <2>8. /\ s \in Seq(S) /\ \A x : Among(x, a) \/ Among(x, b) => Among(x, s)
        /\ t \in Seq(S) /\ \A x : Among(x, s) \/ Among(x, d) => Among(x, t)
        /\ all \in Seq(S) /\ \A x : Among(x, t) \/ Among(x, e) => Among(x, all)
    <3>1. s \in Seq(S) /\ \A x : Among(x, a) \/ Among(x, b) => Among(x, s)
      BY <2>6, <2>7, Joined, ZenonT(30)
    <3>2. t \in Seq(S) /\ \A x : Among(x, s) \/ Among(x, d) => Among(x, t)
      BY <2>6, <2>7, <3>1, Joined, ZenonT(30)
    <3>3. all \in Seq(S) /\ \A x : Among(x, t) \/ Among(x, e) => Among(x, all)
      BY <2>6, <2>7, <3>2, Joined, ZenonT(30)
    <3>4. QED
      BY <3>1, <3>2, <3>3
  <2>9. Keyset!Undo(c, done) = all
    BY <1>1, <1>2, <1>7, <2>3, <2>5, <2>7 DEF Keyset!Undo
  <2>10. done = 5 => Among(Rename(c.from), a) /\ Among(u, b) /\ Among(v, d)
    <3>1. Len(<<u>>) = 1 /\ <<u>>[1] = u /\ Len(<<v>>) = 1 /\ <<v>>[1] = v /\ 1 \in 1 .. 1
      OBVIOUS
    <3>2. Among(u, <<u>>) /\ Among(v, <<v>>)
      BY <3>1 DEF Among
    <3>3. QED
      BY <1>4, <2>5, <3>2
  <2>11. QED
    BY <1>2, <1>6, <1>7, <2>1, <2>3, <2>8, <2>9, <2>10
<1>8. CASE c.kind = "delete"
  <2>1. Touched(c) = {private}
    BY <1>1, <1>5, <1>8, FilesOfGeneration
  <2>2. found[private] = c.key
    BY <1>8, <2>1 DEF CommandFit
  <2>3. PICK w : w = Keyset!Write(private, c.key)
    OBVIOUS
  <2>4. w \in S
    BY <1>2, <2>1, <2>2, <2>3 DEF Undoing
  <2>5. PICK a : a = (IF done >= 4 THEN <<w>> ELSE <<>>)
    OBVIOUS
  <2>6. a \in Seq(S)
    BY <2>4, <2>5
  <2>s. PICK s : s = a \o r
    OBVIOUS
  <2>7. s \in Seq(S) /\ \A x : Among(x, a) \/ Among(x, r) => Among(x, s)
    BY <1>4, <2>6, <2>s, Joined
  <2>8. Keyset!Undo(c, done) = s
    BY <1>1, <1>2, <1>8, <2>3, <2>5, <2>s DEF Keyset!Undo
  <2>9. done = 5 => Among(w, a)
    <3>1. Len(<<w>>) = 1 /\ <<w>>[1] = w /\ 1 \in 1 .. 1
      OBVIOUS
    <3>2. Among(w, <<w>>)
      BY <3>1 DEF Among
    <3>3. QED
      BY <2>5, <3>2
  <2>10. QED
    BY <1>2, <1>4, <1>6, <1>8, <2>1, <2>3, <2>7, <2>8, <2>9
<1>9. CASE c.kind \in {"activate", "retire"}
  <2>1. Keyset!Undo(c, done) = r
    BY <1>2, <1>9 DEF Keyset!Undo
  <2>2. Touched(c) = {}
    BY <1>5, <1>9, FilesOfGeneration
  <2>3. QED
    BY <1>2, <1>4, <2>1, <2>2
<1>10. QED
  BY <1>5, <1>7, <1>8, <1>9

\* What a step of a command, or of its undoing, may be.
LEMMA StepOf ==
  ASSUME NEW c, NEW found, NEW step, StepOn(c, found, step)
  PROVE  /\ step.do \in {"new", "sync", "rename", "check", "write", "unlink"}
         /\ step.do = "write"
              => step.name \in Touched(c) /\ step.key = c.key /\ step = Keyset!Write(step.name, c.key)
         /\ step.do = "unlink" => step.name \in Touched(c) /\ step = Keyset!Unlink(step.name)
         /\ step.do \in {"rename", "check"} => step.of \in {c.from, c.to}
<1>1. CASE step \in {NewFile, Keyset!Sync, Rename(c.to), Rename(c.from), Keyset!Check(c.to)}
  BY <1>1, StepKinds
<1>2. ASSUME NEW n \in Touched(c), step = Keyset!Write(n, c.key) \/ step = Keyset!Unlink(n)
      PROVE  /\ step.do = "write" \/ step.do = "unlink"
             /\ step.name = n /\ (step.do = "write" => step.key = c.key)
             /\ step.do = "write" => step = Keyset!Write(step.name, c.key)
             /\ step.do = "unlink" => step = Keyset!Unlink(step.name)
  BY <1>2, StepKinds
<1>3. \/ step \in {NewFile, Keyset!Sync, Rename(c.to), Rename(c.from), Keyset!Check(c.to)}
      \/ \E n \in Touched(c) : step = Keyset!Write(n, c.key) \/ step = Keyset!Unlink(n)
  BY DEF StepOn, Doing, Undoing
<1>4. QED
  BY <1>1, <1>2, <1>3

\* The manifest that a command renames, or checks, is the one it wants.
LEMMA StepOfCommand ==
  ASSUME NEW c, NEW step, step \in Doing(c)
  PROVE  /\ step.do = "rename" => step = Rename(c.to)
         /\ step.do = "check" => step = Keyset!Check(c.to)
BY StepKinds DEF Doing

\* An undoing renames the manifest that the command found, and its files are
\* what the command found as well.
LEMMA StepOfUndoing ==
  ASSUME NEW c, NEW found, NEW step, step \in Undoing(c, found)
  PROVE  /\ step.do = "rename" => step = Rename(c.from)
         /\ step.do = "write" => found[step.name] = c.key
         /\ step.do = "unlink" => found[step.name] = Keyset!Absent
         /\ step.do # "check"
<1>1. CASE step \in {NewFile, Keyset!Sync, Rename(c.from)}
  BY <1>1, StepKinds
<1>2. ASSUME NEW n \in {x \in Touched(c) : found[x] = Keyset!Absent}, step = Keyset!Unlink(n)
      PROVE  step.do = "unlink" /\ found[step.name] = Keyset!Absent
  BY <1>2, StepKinds
<1>3. ASSUME NEW n \in {x \in Touched(c) : found[x] = c.key}, step = Keyset!Write(n, c.key)
      PROVE  step.do = "write" /\ found[step.name] = c.key
  BY <1>3, StepKinds
<1>4. QED
  BY <1>1, <1>2, <1>3 DEF Undoing

\* Whatever a command did so far, the active generation has its files, and
\* every key that is to be kept has one.
LEMMA HandKeeps ==
  ASSUME NEW c, NEW found, NEW kept, CommandFit(c, found, kept),
         NEW f, FilesFit(c, found, f), NEW m \in {c.from, c.to}
  PROVE  ManifestFit(m) /\ Backed(m, f) /\ Kept(f, kept)
<1>1. ManifestFit(m) /\ \E g \in Keyset!Generations : Backs(m, g, c, found)
  BY DEF CommandFit
<1>2. \A g \in Keyset!Generations, kind \in {"private", "public"} :
         <<g, kind>> \in Keyset!Names
  BY DEF Keyset!Names
<1>3. \A n \in Keyset!Names : n \notin Touched(c) => f[n] = found[n]
  BY DEF FilesFit
<1>4. Backed(m, f)
  <2>1. PICK g \in Keyset!Generations : Backs(m, g, c, found)
    BY <1>1
  <2>2. m.of[g].state = "active"
    BY <2>1 DEF Backs
  <2>3. \A kind \in {"private", "public"} : f[<<g, kind>>] = m.of[g].key
    BY <1>2, <1>3, <2>1 DEF Backs
  <2>4. QED
    BY <2>2, <2>3 DEF Backed
<1>5. ASSUME NEW k \in kept
      PROVE  \E g \in Keyset!Generations : f[<<g, "private">>] = k
  <2>1. PICK g \in Keyset!Generations :
           <<g, "private">> \notin Touched(c) /\ found[<<g, "private">>] = k
    BY DEF CommandFit
  <2>2. QED
    BY <1>2, <1>3, <2>1
<1>6. QED
  BY <1>1, <1>4, <1>5 DEF Kept

\* A manifest that comes into its place adds no key that the command lost.
LEMMA SealedKept ==
  ASSUME NEW c, NEW found, NEW kept, CommandFit(c, found, kept), NEW m \in {c.from, c.to},
         NEW more, more \subseteq kept \cup Keyset!Active(m)
  PROVE  CommandFit(c, found, more) /\ Keyset!Active(m) \subseteq Keyset!Keys
<1>1. ManifestFit(m)
  BY DEF CommandFit
<1>2. PICK g \in Keyset!Generations : Backs(m, g, c, found)
  BY DEF CommandFit
<1>3. ASSUME NEW k \in Keyset!Active(m)
      PROVE  k = m.of[g].key /\ k \in Keyset!Keys
  <2>1. PICK h \in Keyset!Generations : m.of[h].state = "active" /\ k = m.of[h].key
    BY DEF Keyset!Active
  <2>2. h = g
    BY <1>2, <2>1 DEF Backs
  <2>3. QED
    BY <1>1, <2>1, <2>2 DEF ManifestFit
<1>4. <<g, "private">> \notin Touched(c) /\ found[<<g, "private">>] = m.of[g].key
  BY <1>2 DEF Backs
<1>5. \A k \in more : \E x \in Keyset!Generations :
         <<x, "private">> \notin Touched(c) /\ found[<<x, "private">>] = k
  BY <1>3, <1>4 DEF CommandFit
<1>6. QED
  BY <1>3, <1>5 DEF CommandFit

\* The files after a step, and the manifest.
FilesAfter(step, f) ==
  CASE step.do = "write" -> [f EXCEPT ![step.name] = step.key]
    [] step.do = "unlink" -> [f EXCEPT ![step.name] = Keyset!Absent]
    [] OTHER -> f
\* The key v in a file n after a step of the command c.
KeyAfter(step, c, n, v) ==
  IF step = Keyset!Write(n, c.key) THEN c.key
  ELSE IF step = Keyset!Unlink(n) THEN Keyset!Absent ELSE v
ManifestAfter(step, m) == IF step.do = "rename" THEN step.of ELSE m

\* A step leaves files that still fit the command.
LEMMA FilesFollow ==
  ASSUME NEW c, Commanded(c), c.key \in Keyset!Keys, NEW found,
         NEW step, StepOn(c, found, step), NEW f, Raw(f)
  PROVE  /\ Raw(FilesAfter(step, f))
         /\ FilesFit(c, found, f) => FilesFit(c, found, FilesAfter(step, f))
         /\ \A n \in Keyset!Names : FilesAfter(step, f)[n] = KeyAfter(step, c, n, f[n])
<1>1. Touched(c) \subseteq Keyset!Names /\ c.key \in Int /\ Keyset!Absent \in Int
  BY FilesOfGeneration DEF Commanded, Keyset!Keys, Keyset!Absent
<1>r. f \in [Keyset!Names -> Int]
  BY DEF Raw
<1>2. CASE step.do = "write"
  <2>1. step.name \in Touched(c) /\ step.key = c.key /\ step = Keyset!Write(step.name, c.key)
    BY <1>2, StepOf
  <2>2. FilesAfter(step, f) = [f EXCEPT ![step.name] = c.key]
    BY <1>2, <2>1 DEF FilesAfter
  <2>3. \A n \in Keyset!Names : step # Keyset!Unlink(n) /\ (step = Keyset!Write(n, c.key) <=> step.name = n)
    BY <1>2, <2>1, StepKinds
  <2>4. \A n \in Keyset!Names : FilesAfter(step, f)[n] = IF step.name = n THEN c.key ELSE f[n]
    BY <1>1, <1>r, <2>1, <2>2
  <2>5. QED
    BY <1>1, <1>r, <2>1, <2>2, <2>3, <2>4 DEF FilesFit, KeyAfter, Raw
<1>3. CASE step.do = "unlink"
  <2>1. step.name \in Touched(c) /\ step = Keyset!Unlink(step.name)
    BY <1>3, StepOf
  <2>2. FilesAfter(step, f) = [f EXCEPT ![step.name] = Keyset!Absent]
    BY <1>3 DEF FilesAfter
  <2>3. \A n \in Keyset!Names : step # Keyset!Write(n, c.key) /\ (step = Keyset!Unlink(n) <=> step.name = n)
    BY <1>3, <2>1, StepKinds
  <2>4. \A n \in Keyset!Names : FilesAfter(step, f)[n] = IF step.name = n THEN Keyset!Absent ELSE f[n]
    BY <1>1, <1>r, <2>1, <2>2
  <2>5. QED
    BY <1>1, <1>r, <2>1, <2>2, <2>3, <2>4 DEF FilesFit, KeyAfter, Raw
<1>4. CASE step.do \notin {"write", "unlink"}
  <2>1. FilesAfter(step, f) = f
    BY <1>4 DEF FilesAfter
  <2>2. \A n \in Keyset!Names : step # Keyset!Write(n, c.key) /\ step # Keyset!Unlink(n)
    BY <1>4, StepKinds
  <2>3. QED
    BY <2>1, <2>2 DEF KeyAfter
<1>5. QED
  BY <1>2, <1>3, <1>4

\* Whether a keyset is exact depends on what the manifest holds only.
LEMMA ExactOf ==
  ASSUME NEW m, NEW n, m.of = n.of, NEW f, NEW extra, Keyset!Exact(m, f, extra)
  PROVE  Keyset!Exact(n, f, extra)
<1>1. Keyset!Named(m) = Keyset!Named(n)
  BY DEF Keyset!Named
<1>2. QED
  BY <1>1 DEF Keyset!Exact

\* A command at work does its next step.
LEMMA ForwardGoesOn ==
  ASSUME NEW h, NEW m, NEW f, NEW extra, NEW S, ForwardFit(h, m, f, extra), h.todo # <<>>,
         NEW step, step = Head(h.todo), NEW rest, rest = Tail(h.todo),
         step.do = "check" => Keyset!Exact(step.of, f, extra),
         NEW h2, h2.command = h.command, h2.todo = rest
  PROVE  ForwardFit(h2, ManifestAfter(step, m), FilesAfter(step, f), extra)
<1>1. PICK c, s : c = h.command /\ s = h.todo
  OBVIOUS
<1>2. s \in Seq(Doing(c)) /\ s # <<>> /\ ChecksLast(s) /\ (m.of = c.to.of \/ Among(Rename(c.to), s))
  BY <1>1 DEF ForwardFit
<1>3. /\ step \in Doing(c) /\ rest \in Seq(Doing(c))
      /\ \A x : Among(x, s) => x = step \/ Among(x, rest)
  BY <1>1, <1>2, StepsLeft, ZenonT(30)
<1>8. /\ step = s[1] /\ Len(s) \in Nat /\ Len(s) > 0 /\ Len(rest) = Len(s) - 1
      /\ \A i \in 1 .. Len(rest) : rest[i] = s[i + 1]
  BY <1>1, <1>2
<1>4. ChecksLast(rest)
  BY <1>2, <1>8 DEF ChecksLast
<1>5. ManifestAfter(step, m).of = c.to.of \/ Among(Rename(c.to), rest)
  <2>1. CASE step.do = "rename"
    <3>1. step = Rename(c.to)
      BY <1>3, <2>1, StepOfCommand
    <3>2. QED
      BY <2>1, <3>1 DEF ManifestAfter, Rename
  <2>2. CASE step.do # "rename"
    <3>1. ManifestAfter(step, m) = m /\ step # Rename(c.to)
      BY <2>2, StepKinds DEF ManifestAfter
    <3>2. QED
      BY <1>2, <1>3, <3>1
  <2>3. QED
    BY <2>1, <2>2
<1>6. ASSUME rest = <<>> PROVE Keyset!Exact(ManifestAfter(step, m), FilesAfter(step, f), extra)
  <2>0. Len(rest) = 0
    BY <1>3, <1>6, EmptySeq
  <2>1. 1 \in 1 .. Len(s) /\ Len(s) = 1
    BY <1>8, <2>0
  <2>2. step.do = "check"
    BY <1>2, <1>8, <2>1 DEF ChecksLast
  <2>3. step.of = c.to
    <3>1. step = Keyset!Check(c.to)
      BY <1>3, <2>2, StepOfCommand
    <3>2. QED
      BY <3>1 DEF Keyset!Check
  <2>4. ManifestAfter(step, m) = m /\ FilesAfter(step, f) = f
    BY <2>2 DEF ManifestAfter, FilesAfter
  <2>5. \A x : ~ Among(x, rest)
    BY <2>0 DEF Among
  <2>6. m.of = c.to.of
    BY <1>5, <2>4, <2>5
  <2>7. Keyset!Exact(c.to, f, extra)
    BY <2>2, <2>3
  <2>8. QED
    BY <2>4, <2>6, <2>7, ExactOf
<1>7. QED
  BY <1>1, <1>3, <1>4, <1>5, <1>6 DEF ForwardFit

\* An undoing does its next step.
LEMMA BackwardGoesOn ==
  ASSUME NEW h, NEW m, NEW f, Raw(f), BackwardFit(h, m, f), h.todo # <<>>,
         Commanded(h.command), h.command.key \in Keyset!Keys,
         h.todo \in Seq(Undoing(h.command, h.found)),
         NEW step, step = Head(h.todo), NEW rest, rest = Tail(h.todo),
         NEW h2, h2.command = h.command, h2.found = h.found, h2.todo = rest
  PROVE  BackwardFit(h2, ManifestAfter(step, m), FilesAfter(step, f))
<1>1. PICK c, found, s : c = h.command /\ found = h.found /\ s = h.todo
  OBVIOUS
<1>2. s \in Seq(Undoing(c, found)) /\ s # <<>>
  BY <1>1
<1>3. /\ step \in Undoing(c, found) /\ rest \in Seq(Undoing(c, found))
      /\ \A x : Among(x, s) => x = step \/ Among(x, rest)
  BY <1>1, <1>2, StepsLeft, ZenonT(30)
<1>4. ManifestAfter(step, m) = c.from \/ Among(Rename(c.from), rest)
  <2>1. m = c.from \/ Among(Rename(c.from), s)
    BY <1>1 DEF BackwardFit
  <2>2. CASE step.do = "rename"
    <3>1. step = Rename(c.from)
      BY <1>3, <2>2, StepOfUndoing
    <3>2. QED
      BY <2>2, <3>1 DEF ManifestAfter, Rename
  <2>3. CASE step.do # "rename"
    <3>1. ManifestAfter(step, m) = m /\ step # Rename(c.from)
      BY <2>3, StepKinds DEF ManifestAfter
    <3>2. QED
      BY <1>3, <2>1, <3>1
  <2>4. QED
    BY <2>2, <2>3
<1>5. ASSUME NEW n \in Keyset!Names
      PROVE  \/ FilesAfter(step, f)[n] = found[n]
             \/ Among(Keyset!Unlink(n), rest) \/ Among(Keyset!Write(n, c.key), rest)
  <2>1. f[n] = found[n] \/ Among(Keyset!Unlink(n), s) \/ Among(Keyset!Write(n, c.key), s)
    BY <1>1 DEF BackwardFit
  <2>2. Commanded(c) /\ c.key \in Keyset!Keys /\ StepOn(c, found, step)
    BY <1>1, <1>3 DEF StepOn
  <2>3. FilesAfter(step, f)[n] = KeyAfter(step, c, n, f[n])
    <3>1. \A x \in Keyset!Names : FilesAfter(step, f)[x] = KeyAfter(step, c, x, f[x])
      BY <2>2, FilesFollow
    <3>2. QED
      BY <3>1
  <2>4. CASE step = Keyset!Write(n, c.key)
    <3>1. step.do = "write" /\ step.name = n
      BY <2>4 DEF Keyset!Write
    <3>2. found[n] = c.key
      BY <1>3, <3>1, StepOfUndoing
    <3>3. QED
      BY <2>3, <2>4, <3>2 DEF KeyAfter
  <2>5. CASE step = Keyset!Unlink(n)
    <3>1. step.do = "unlink" /\ step.name = n
      BY <2>5 DEF Keyset!Unlink
    <3>2. found[n] = Keyset!Absent /\ step # Keyset!Write(n, c.key)
      BY <1>3, <3>1, StepOfUndoing, StepKinds
    <3>3. QED
      BY <2>3, <2>5, <3>2 DEF KeyAfter
  <2>6. CASE step # Keyset!Write(n, c.key) /\ step # Keyset!Unlink(n)
    BY <1>3, <2>1, <2>3, <2>6 DEF KeyAfter
  <2>7. QED
    BY <2>4, <2>5, <2>6
<1>6. QED
  BY <1>1, <1>4, <1>5 DEF BackwardFit

\* The command after its next step, and after its failure at that step.
NextHand(h) == [h EXCEPT !.todo = Tail(@)]
FailedHand(h, step) ==
  [h EXCEPT !.cause = IF @ = "none" THEN step.do ELSE "again",
            !.todo = IF h.cause = "none" THEN Keyset!Undo(h.command, Len(Keyset!Steps(h.command)) - Len(h.todo))
                     ELSE IF step.do = "unlink" THEN Tail(@) ELSE <<>>]

\* The keys to keep after a step.
KeptAfter(step, kept) ==
  kept \cup (IF step.do = "rename" THEN Keyset!Active(step.of) ELSE {})

\* A command that does its next step stays fit.
LEMMA HandGoesOn ==
  ASSUME NEW h, NEW m, NEW f, NEW extra, NEW kept, HandFit(h, m, f, extra, kept), Raw(f),
         h.todo # <<>>, NEW step, step = Head(h.todo),
         step.do = "check" => Keyset!Exact(step.of, f, extra),
         NEW h2, h2 = NextHand(h),
         NEW more, more \subseteq KeptAfter(step, kept)
  PROVE  /\ HandFit(h2, ManifestAfter(step, m), FilesAfter(step, f), extra, more)
         /\ Raw(FilesAfter(step, f))
         /\ step.do = "rename" => Keyset!Active(step.of) \subseteq Keyset!Keys
<1>1. PICK c, found, s, rest, m2, f2 :
         /\ c = h.command /\ found = h.found /\ s = h.todo /\ rest = Tail(h.todo)
         /\ m2 = ManifestAfter(step, m) /\ f2 = FilesAfter(step, f)
  OBVIOUS
<1>2. /\ CommandFit(c, found, kept) /\ FilesFit(c, found, f) /\ m \in {c.from, c.to}
      /\ DOMAIN h = HandColumns
  BY <1>1 DEF HandFit
<1>3. Commanded(c) /\ c.key \in Keyset!Keys
  BY <1>2 DEF CommandFit
<1>4. /\ DOMAIN h2 = HandColumns /\ h2.command = c /\ h2.found = found /\ h2.todo = rest
      /\ h2.cause = h.cause
  BY <1>1, <1>2 DEF HandColumns, NextHand
<1>5. IF h.cause = "none" THEN ForwardFit(h, m, f, extra) ELSE s \in Seq(Undoing(c, found))
  BY <1>1 DEF HandFit
<1>6. \/ h.cause = "none" /\ step \in Doing(c)
      \/ h.cause # "none" /\ step \in Undoing(c, found) /\ rest \in Seq(Undoing(c, found))
  <2>1. CASE h.cause = "none"
    <3>1. s \in Seq(Doing(c)) /\ s # <<>>
      BY <1>1, <1>5, <2>1 DEF ForwardFit
    <3>2. QED
      BY <1>1, <2>1, <3>1
  <2>2. CASE h.cause # "none"
    <3>1. s \in Seq(Undoing(c, found)) /\ s # <<>>
      BY <1>1, <1>5, <2>2
    <3>2. Head(s) \in Undoing(c, found) /\ Tail(s) \in Seq(Undoing(c, found))
      BY <3>1
    <3>3. QED
      BY <1>1, <2>2, <3>2
  <2>3. QED
    BY <2>1, <2>2
<1>7. StepOn(c, found, step)
  BY <1>6 DEF StepOn
<1>8. Raw(f2) /\ FilesFit(c, found, f2)
  BY <1>1, <1>2, <1>3, <1>7, FilesFollow
<1>9. step.do \in {"rename", "check"} => step.of \in {c.from, c.to}
  BY <1>7, StepOf
<1>10. m2 \in {c.from, c.to}
  BY <1>1, <1>2, <1>9 DEF ManifestAfter
<1>11. /\ CommandFit(c, found, more)
       /\ step.do = "rename" => Keyset!Active(step.of) \subseteq Keyset!Keys
  <2>1. CASE step.do = "rename"
    <3>1. PICK n : n = step.of
      OBVIOUS
    <3>2. n \in {c.from, c.to} /\ more \subseteq kept \cup Keyset!Active(n)
      BY <1>9, <2>1, <3>1 DEF KeptAfter
    <3>3. QED
      BY <1>2, <3>1, <3>2, SealedKept
  <2>2. CASE step.do # "rename"
    <3>1. more \subseteq kept \cup Keyset!Active(c.from)
      BY <2>2 DEF KeptAfter
    <3>2. QED
      BY <1>2, <2>2, <3>1, SealedKept
  <2>3. QED
    BY <2>1, <2>2
<1>12. IF h2.cause = "none" THEN ForwardFit(h2, m2, f2, extra)
       ELSE h2.todo \in Seq(Undoing(h2.command, h2.found))
  <2>1. CASE h.cause = "none"
    <3>1. ForwardFit(h2, ManifestAfter(step, m), FilesAfter(step, f), extra)
      BY <1>1, <1>4, <1>5, <2>1, ForwardGoesOn
    <3>2. QED
      BY <1>1, <1>4, <2>1, <3>1
  <2>2. CASE h.cause # "none"
    BY <1>4, <1>6, <2>2
  <2>3. QED
    BY <2>1, <2>2
<1>13. h2.cause = "check" => BackwardFit(h2, m2, f2)
  <2>1. ASSUME h.cause = "check" PROVE BackwardFit(h2, m2, f2)
    <3>1. BackwardFit(h, m, f) /\ h.todo \in Seq(Undoing(h.command, h.found))
      BY <1>1, <1>5, <2>1 DEF HandFit
    <3>2. Commanded(h.command) /\ h.command.key \in Keyset!Keys
      BY <1>1, <1>3
    <3>3. BackwardFit(h2, ManifestAfter(step, m), FilesAfter(step, f))
      BY <1>1, <1>4, <3>1, <3>2, BackwardGoesOn
    <3>4. QED
      BY <1>1, <3>3
  <2>2. QED
    BY <1>4, <2>1
<1>14. QED
  BY <1>1, <1>4, <1>8, <1>10, <1>11, <1>12, <1>13 DEF HandFit

\* Files that differ from what the command touches at most.
LEMMA FilesSpoiled ==
  ASSUME NEW c, NEW found, NEW f, FilesFit(c, found, f), Raw(f), Commanded(c),
         NEW step, StepOn(c, found, step), step.do = "write",
         NEW left \in {Keyset!Absent, Keyset!Partial}, NEW f2, f2 = [f EXCEPT ![step.name] = left]
  PROVE  FilesFit(c, found, f2) /\ Raw(f2)
<1>1. step.name \in Touched(c) /\ Touched(c) \subseteq Keyset!Names
  BY StepOf, FilesOfGeneration DEF Commanded
<1>2. f \in [Keyset!Names -> Int] /\ left \in Int
  BY DEF Raw, Keyset!Absent, Keyset!Partial
<1>3. \A n \in Keyset!Names : f2[n] = IF n = step.name THEN left ELSE f[n]
  BY <1>1, <1>2
<1>4. f2 \in [Keyset!Names -> Int]
  BY <1>1, <1>2
<1>5. QED
  BY <1>1, <1>3, <1>4 DEF FilesFit, Raw

\* A command whose step fails stays fit: what it did is undone.
LEMMA HandFails ==
  ASSUME NEW h, NEW m, NEW f, NEW extra, NEW kept, HandFit(h, m, f, extra, kept),
         h.todo # <<>>, NEW step, step = Head(h.todo), NEW f2, NEW extra2,
         FilesFit(h.command, h.found, f2), step.do # "write" => f2 = f,
         NEW h2, h2 = FailedHand(h, step)
  PROVE  HandFit(h2, m, f2, extra2, kept)
<1>1. PICK c, done, found, s, undo, cause, todo :
         /\ c = h.command /\ done = Len(Keyset!Steps(c)) - Len(h.todo)
         /\ found = h.found /\ s = h.todo /\ undo = Keyset!Undo(c, done)
         /\ cause = (IF h.cause = "none" THEN step.do ELSE "again")
         /\ todo = (IF h.cause = "none" THEN undo ELSE IF step.do = "unlink" THEN Tail(s) ELSE <<>>)
  OBVIOUS
<1>2. /\ CommandFit(c, found, kept) /\ FilesFit(c, found, f) /\ m \in {c.from, c.to}
      /\ DOMAIN h = HandColumns
  BY <1>1 DEF HandFit
<1>3. Commanded(c)
  BY <1>2 DEF CommandFit
<1>4. /\ DOMAIN h2 = HandColumns /\ h2.command = c /\ h2.found = found /\ h2.todo = todo
      /\ h2.cause = cause
  BY <1>1, <1>2 DEF HandColumns, FailedHand
<1>5. CASE h.cause = "none"
  <2>1. s \in Seq(Doing(c)) /\ s # <<>> /\ ChecksLast(s)
    BY <1>1, <1>5 DEF HandFit, ForwardFit
  <2>2. step \in Doing(c) /\ step = s[1] /\ Len(s) \in Nat /\ Len(s) > 0
    BY <1>1, <2>1
  <2>3. step.do # "none"
    <3>1. StepOn(c, found, step)
      BY <2>2 DEF StepOn
    <3>2. QED
      BY <3>1, StepOf
  <2>4. cause = step.do /\ todo = undo
    BY <1>1, <1>5
  <2>5. Len(Keyset!Steps(c)) \in Int
    BY <1>3, StepsFit
  <2>6. done \in Int
    BY <1>1, <2>2, <2>5
  <2>7. undo \in Seq(Undoing(c, found))
    BY <1>1, <1>2, <2>6, UndoFits
  <2>8. ASSUME step.do = "check" PROVE BackwardFit(h2, m, f2)
    <3>0. 1 \in 1 .. Len(s) /\ s[1].do = "check"
      BY <2>2, <2>8
    <3>1. Len(s) = 1
      BY <2>1, <3>0 DEF ChecksLast
    <3>2. done = Len(Keyset!Steps(c)) - 1
      BY <1>1, <3>1
    <3>3. /\ Among(Rename(c.from), undo)
          /\ \A n \in Touched(c) : \/ Among(Keyset!Unlink(n), undo)
                                   \/ Among(Keyset!Write(n, c.key), undo)
      BY <1>1, <1>2, <2>6, <3>2, UndoFits
    <3>4. \A n \in Keyset!Names : n \notin Touched(c) => f2[n] = found[n]
      BY <1>1 DEF FilesFit
    <3>5. QED
      BY <1>4, <2>4, <3>3, <3>4 DEF BackwardFit
  <2>9. QED
    BY <1>1, <1>2, <1>4, <2>3, <2>4, <2>7, <2>8 DEF HandFit
<1>6. CASE h.cause # "none"
  <2>1. s \in Seq(Undoing(c, found)) /\ s # <<>>
    BY <1>1, <1>6 DEF HandFit
  <2>2. todo \in Seq(Undoing(c, found))
    <3>1. Tail(s) \in Seq(Undoing(c, found)) /\ <<>> \in Seq(Undoing(c, found))
      BY <2>1
    <3>2. todo = Tail(s) \/ todo = <<>>
      BY <1>1, <1>6
    <3>3. QED
      BY <3>1, <3>2
  <2>3. cause = "again"
    BY <1>1, <1>6
  <2>4. QED
    BY <1>1, <1>2, <1>4, <2>2, <2>3 DEF HandFit
<1>7. QED
  BY <1>5, <1>6

\* What an exact keyset says of the files of a generation, and of the active
\* one.
LEMMA ExactEntry ==
  ASSUME NEW m, ManifestFit(m), NEW f, NEW extra, Keyset!Exact(m, f, extra),
         NEW g \in Keyset!Generations
  PROVE  /\ m.of[g].private \in BOOLEAN
         /\ m.of[g].state # "none" => f[<<g, "public">>] = m.of[g].key
         /\ m.of[g].private = TRUE => m.of[g].state # "none" /\ f[<<g, "private">>] = m.of[g].key
         /\ m.of[g].state = "none"
              => f[<<g, "public">>] = Keyset!Absent /\ f[<<g, "private">>] = Keyset!Absent
<1>1. m.of[g].private \in BOOLEAN
  <2>1. m.of \in [Keyset!Generations -> Keyset!Entry]
    BY DEF ManifestFit
  <2>2. m.of[g] \in Keyset!Entry
    BY <2>1
  <2>3. QED
    BY <2>2 DEF Keyset!Entry
<1>2. PICK n, p : n = <<g, "private">> /\ p = <<g, "public">>
  OBVIOUS
<1>3. /\ n \in Keyset!Names /\ p \in Keyset!Names /\ n[1] = g /\ p[1] = g
      /\ n[2] = "private" /\ p[2] = "public"
  BY <1>2 DEF Keyset!Names
<1>4. n \in Keyset!Named(m) <=> m.of[g].state # "none" /\ m.of[g].private
  BY <1>3 DEF Keyset!Named
<1>5. p \in Keyset!Named(m) <=> m.of[g].state # "none"
  BY <1>3 DEF Keyset!Named
<1>6. m.of[g].private = TRUE => m.of[g].state # "none"
  BY DEF ManifestFit
<1>7. \A x \in Keyset!Names :
         f[x] = IF x \in Keyset!Named(m) THEN m.of[x[1]].key ELSE Keyset!Absent
  BY DEF Keyset!Exact
<1>8. /\ f[p] = IF p \in Keyset!Named(m) THEN m.of[g].key ELSE Keyset!Absent
      /\ f[n] = IF n \in Keyset!Named(m) THEN m.of[g].key ELSE Keyset!Absent
  BY <1>3, <1>7
<1>9. QED
  BY <1>1, <1>2, <1>4, <1>5, <1>6, <1>8

SoleActive(m, f, a) ==
  /\ m.of[a].state = "active" /\ m.of[a].private = TRUE
  /\ f[<<a, "private">>] = m.of[a].key /\ f[<<a, "public">>] = m.of[a].key
  /\ \A g \in Keyset!Generations : m.of[g].state = "active" => g = a

\* An exact keyset has one active generation, with its files.
LEMMA ExactActive ==
  ASSUME NEW m, ManifestFit(m), NEW f, NEW extra, Keyset!Exact(m, f, extra)
  PROVE  \E a \in Keyset!Generations : SoleActive(m, f, a)
<1>1. PICK a \in Keyset!Generations :
         /\ m.of[a].state = "active" /\ m.of[a].private
         /\ \A h \in Keyset!Generations \ {a} : m.of[h].state # "active"
  BY DEF Keyset!Exact
<1>2. m.of[a].private \in BOOLEAN
  BY ExactEntry
<1>3. m.of[a].private = TRUE
  BY <1>1, <1>2
<1>4. f[<<a, "private">>] = m.of[a].key /\ f[<<a, "public">>] = m.of[a].key
  BY <1>1, <1>3, ExactEntry
<1>5. SoleActive(m, f, a)
  BY <1>1, <1>3, <1>4 DEF SoleActive
<1>6. QED
  BY <1>5

\* A command that the exact keyset admits: it names the manifest it found and
\* the one it wants, and touches no file of the generation either has active,
\* nor the last one of a key that is to be kept.
LEMMA PrepareFits ==
  ASSUME NEW m, ManifestFit(m), NEW f, Raw(f), NEW extra, Keyset!Exact(m, f, extra),
         NEW kept, kept \subseteq Keyset!Keys, Kept(f, kept),
         NEW g \in Keyset!Generations, m.of[g].state = "none", NEW key \in Keyset!Keys,
         NEW to, to = [version |-> 2, of |->
                          [m.of EXCEPT ![g] = [state |-> "retired", key |-> key, private |-> TRUE]]],
         NEW c, c = [kind |-> "prepare", generation |-> g, key |-> key, from |-> m, to |-> to]
  PROVE  CommandFit(c, f, kept)
<1>1. /\ c.kind = "prepare" /\ c.generation = g /\ c.key = key /\ c.from = m /\ c.to = to
      /\ Commanded(c)
  BY DEF Commanded
<1>2. \A n \in Touched(c) : n[1] = g
  BY <1>1 DEF Touched
<1>3. m.of \in [Keyset!Generations -> Keyset!Entry]
  BY DEF ManifestFit
<1>4. PICK e : e = [state |-> "retired", key |-> key, private |-> TRUE]
  OBVIOUS
<1>5. e \in Keyset!Entry /\ e.state = "retired" /\ e.key = key /\ e.private = TRUE
  BY <1>4 DEF Keyset!Entry
<1>6. to.version = 2 /\ DOMAIN to = {"version", "of"} /\ to.of = [m.of EXCEPT ![g] = e]
  BY <1>4
<1>7. /\ to.of \in [Keyset!Generations -> Keyset!Entry]
      /\ to.of[g] = e /\ \A h \in Keyset!Generations : h # g => to.of[h] = m.of[h]
  BY <1>3, <1>5, <1>6
<1>8. ManifestFit(to)
  BY <1>5, <1>6, <1>7 DEF ManifestFit
<1>a. PICK a \in Keyset!Generations : SoleActive(m, f, a)
  BY ExactActive
<1>9. /\ m.of[a].state = "active" /\ m.of[a].private = TRUE
      /\ f[<<a, "private">>] = m.of[a].key /\ f[<<a, "public">>] = m.of[a].key
      /\ \A h \in Keyset!Generations : m.of[h].state = "active" => h = a
  BY <1>a DEF SoleActive
<1>10. a # g /\ to.of[a] = m.of[a] /\ \A h \in Keyset!Generations : to.of[h].state = "active" => h = a
  BY <1>5, <1>7, <1>9
<1>11. \A kind \in {"private", "public"} :
          <<a, kind>> \notin Touched(c) /\ f[<<a, kind>>] = m.of[a].key
  <2>1. f[<<a, "private">>] = m.of[a].key /\ f[<<a, "public">>] = m.of[a].key
    BY <1>9
  <2>2. <<a, "private">> \notin Touched(c) /\ <<a, "public">> \notin Touched(c)
    BY <1>2, <1>10
  <2>3. QED
    BY <2>1, <2>2
<1>12. Backs(m, a, c, f) /\ Backs(to, a, c, f)
  BY <1>9, <1>10, <1>11 DEF Backs
<1>13. f[<<g, "public">>] = Keyset!Absent /\ f[<<g, "private">>] = Keyset!Absent
  BY ExactEntry
<1>14. \A n \in Touched(c) : f[n] = Keyset!Absent
  BY <1>1, <1>13, FilesOfGeneration
<1>15. ASSUME NEW k \in kept
       PROVE  \E x \in Keyset!Generations :
                 <<x, "private">> \notin Touched(c) /\ f[<<x, "private">>] = k
  <2>1. PICK x \in Keyset!Generations : f[<<x, "private">>] = k
    BY DEF Kept
  <2>2. k # Keyset!Absent
    BY KeysetAssumption DEF Keyset!Keys, Keyset!Absent
  <2>3. x # g
    BY <1>13, <2>1, <2>2
  <2>4. <<x, "private">> \notin Touched(c)
    BY <1>2, <2>3
  <2>5. QED
    BY <2>1, <2>4
<1>16. QED
  BY <1>1, <1>8, <1>12, <1>14, <1>15 DEF CommandFit

\* Activation touches no file.
LEMMA ActivateFits ==
  ASSUME NEW m, ManifestFit(m), NEW f, Raw(f), NEW extra, Keyset!Exact(m, f, extra),
         NEW kept, Kept(f, kept),
         NEW g \in Keyset!Generations, m.of[g].private = TRUE,
         NEW to, to = [version |-> 2, of |-> [h \in Keyset!Generations |->
                          IF h = g THEN [m.of[h] EXCEPT !.state = "active"]
                          ELSE IF m.of[h].state = "active" THEN [m.of[h] EXCEPT !.state = "retired"]
                          ELSE m.of[h]]],
         NEW c, c = [kind |-> "activate", generation |-> g, key |-> m.of[g].key,
                     from |-> m, to |-> to]
  PROVE  CommandFit(c, f, kept)
<1>1. /\ c.kind = "activate" /\ c.generation = g /\ c.key = m.of[g].key /\ c.from = m /\ c.to = to
      /\ Commanded(c)
  BY DEF Commanded
<1>2. Touched(c) = {}
  BY <1>1, FilesOfGeneration
<1>3. /\ m.of \in [Keyset!Generations -> Keyset!Entry]
      /\ m.of[g].state # "none" /\ c.key \in Keyset!Keys
  BY <1>1 DEF ManifestFit
<1>4. \A e \in Keyset!Entry, state \in {"active", "retired"} :
         /\ [e EXCEPT !.state = state] \in Keyset!Entry
         /\ [e EXCEPT !.state = state].state = state
         /\ [e EXCEPT !.state = state].key = e.key /\ [e EXCEPT !.state = state].private = e.private
  BY DEF Keyset!Entry
<1>5. \A h \in Keyset!Generations :
         to.of[h] = IF h = g THEN [m.of[h] EXCEPT !.state = "active"]
                    ELSE IF m.of[h].state = "active" THEN [m.of[h] EXCEPT !.state = "retired"]
                    ELSE m.of[h]
  OBVIOUS
<1>6. \A h \in Keyset!Generations :
         /\ to.of[h] \in Keyset!Entry
         /\ to.of[h].key = m.of[h].key /\ to.of[h].private = m.of[h].private
         /\ to.of[h].state = "active" <=> h = g
         /\ m.of[h].state # "none" => to.of[h].state # "none"
         /\ to.of[h].state # "none" => m.of[h].state # "none"
  BY <1>3, <1>4, <1>5
<1>7. to.version = 2 /\ DOMAIN to = {"version", "of"} /\ DOMAIN to.of = Keyset!Generations
  OBVIOUS
<1>8. to.of \in [Keyset!Generations -> Keyset!Entry]
  BY <1>6
<1>9. ManifestFit(to)
  BY <1>6, <1>7, <1>8 DEF ManifestFit
<1>a. PICK a \in Keyset!Generations : SoleActive(m, f, a)
  BY ExactActive
<1>10. /\ m.of[a].state = "active" /\ m.of[a].private = TRUE
      /\ f[<<a, "private">>] = m.of[a].key /\ f[<<a, "public">>] = m.of[a].key
      /\ \A h \in Keyset!Generations : m.of[h].state = "active" => h = a
  BY <1>a DEF SoleActive
<1>11. \A x \in {a, g} : \A kind \in {"private", "public"} : f[<<x, kind>>] = m.of[x].key
  <2>1. f[<<g, "private">>] = m.of[g].key /\ f[<<g, "public">>] = m.of[g].key
    BY <1>3, ExactEntry
  <2>2. f[<<a, "private">>] = m.of[a].key /\ f[<<a, "public">>] = m.of[a].key
    BY <1>10
  <2>3. QED
    BY <2>1, <2>2
<1>12. Backs(m, a, c, f)
  BY <1>2, <1>10, <1>11 DEF Backs
<1>13. Backs(to, g, c, f)
  BY <1>2, <1>6, <1>11 DEF Backs
<1>14. \A k \in kept : \E x \in Keyset!Generations :
          <<x, "private">> \notin Touched(c) /\ f[<<x, "private">>] = k
  BY <1>2 DEF Kept
<1>15. QED
  BY <1>1, <1>2, <1>3, <1>9, <1>12, <1>13, <1>14 DEF CommandFit

\* Retirement without deletion touches no file, and changes no entry.
LEMMA RetireFits ==
  ASSUME NEW m, ManifestFit(m), NEW f, Raw(f), NEW extra, Keyset!Exact(m, f, extra),
         NEW kept, Kept(f, kept),
         NEW g \in Keyset!Generations, m.of[g].state = "retired",
         NEW to, to = [version |-> 2, of |-> m.of],
         NEW c, c = [kind |-> "retire", generation |-> g, key |-> m.of[g].key,
                     from |-> m, to |-> to]
  PROVE  CommandFit(c, f, kept)
<1>1. /\ c.kind = "retire" /\ c.generation = g /\ c.key = m.of[g].key /\ c.from = m /\ c.to = to
      /\ Commanded(c)
  BY DEF Commanded
<1>2. Touched(c) = {}
  BY <1>1, FilesOfGeneration
<1>3. c.key \in Keyset!Keys
  BY <1>1 DEF ManifestFit
<1>4. to.version = 2 /\ DOMAIN to = {"version", "of"} /\ to.of = m.of
  OBVIOUS
<1>5. ManifestFit(to)
  BY <1>4 DEF ManifestFit
<1>a. PICK a \in Keyset!Generations : SoleActive(m, f, a)
  BY ExactActive
<1>6. /\ m.of[a].state = "active" /\ m.of[a].private = TRUE
      /\ f[<<a, "private">>] = m.of[a].key /\ f[<<a, "public">>] = m.of[a].key
      /\ \A h \in Keyset!Generations : m.of[h].state = "active" => h = a
  BY <1>a DEF SoleActive
<1>7. f[<<a, "private">>] = m.of[a].key /\ f[<<a, "public">>] = m.of[a].key
  BY <1>6
<1>8. Backs(m, a, c, f) /\ Backs(to, a, c, f)
  BY <1>2, <1>4, <1>6, <1>7 DEF Backs
<1>9. \A k \in kept : \E x \in Keyset!Generations :
         <<x, "private">> \notin Touched(c) /\ f[<<x, "private">>] = k
  BY <1>2 DEF Kept
<1>10. QED
  BY <1>1, <1>2, <1>3, <1>5, <1>8, <1>9 DEF CommandFit

\* Deletion touches the private file of a retired generation, whose key is
\* from now on not to be kept.
LEMMA DeleteFits ==
  ASSUME NEW m, ManifestFit(m), NEW f, Raw(f), NEW extra, Keyset!Exact(m, f, extra),
         NEW kept, Kept(f, kept),
         NEW g \in Keyset!Generations, m.of[g].state = "retired", m.of[g].private = TRUE,
         NEW to, to = [version |-> 2, of |-> [m.of EXCEPT ![g].private = FALSE]],
         NEW c, c = [kind |-> "delete", generation |-> g, key |-> m.of[g].key,
                     from |-> m, to |-> to]
  PROVE  CommandFit(c, f, kept \ {c.key})
<1>1. /\ c.kind = "delete" /\ c.generation = g /\ c.key = m.of[g].key /\ c.from = m /\ c.to = to
      /\ Commanded(c)
  BY DEF Commanded
<1>2. Touched(c) = {<<g, "private">>}
  BY <1>1, FilesOfGeneration
<1>3. m.of \in [Keyset!Generations -> Keyset!Entry] /\ c.key \in Keyset!Keys
  BY <1>1 DEF ManifestFit
<1>4. PICK e : e = [m.of[g] EXCEPT !.private = FALSE]
  OBVIOUS
<1>5. /\ e \in Keyset!Entry /\ e.state = "retired" /\ e.key = m.of[g].key /\ e.private = FALSE
  <2>1. m.of[g] \in Keyset!Entry
    BY <1>3
  <2>2. QED
    BY <1>4, <2>1 DEF Keyset!Entry
<1>6. to.version = 2 /\ DOMAIN to = {"version", "of"} /\ to.of = [m.of EXCEPT ![g] = e]
  BY <1>4
<1>7. /\ to.of \in [Keyset!Generations -> Keyset!Entry]
      /\ to.of[g] = e /\ \A h \in Keyset!Generations : h # g => to.of[h] = m.of[h]
  BY <1>3, <1>5, <1>6
<1>8. ManifestFit(to)
  BY <1>1, <1>3, <1>5, <1>6, <1>7 DEF ManifestFit
<1>a. PICK a \in Keyset!Generations : SoleActive(m, f, a)
  BY ExactActive
<1>9. /\ m.of[a].state = "active" /\ m.of[a].private = TRUE
      /\ f[<<a, "private">>] = m.of[a].key /\ f[<<a, "public">>] = m.of[a].key
      /\ \A h \in Keyset!Generations : m.of[h].state = "active" => h = a
  BY <1>a DEF SoleActive
<1>10. a # g /\ to.of[a] = m.of[a] /\ \A h \in Keyset!Generations : to.of[h].state = "active" => h = a
  BY <1>5, <1>7, <1>9
<1>11. f[<<a, "private">>] = m.of[a].key /\ f[<<a, "public">>] = m.of[a].key
  BY <1>9
<1>12. <<a, "private">> \notin Touched(c) /\ <<a, "public">> \notin Touched(c)
  BY <1>2, <1>10
<1>13. Backs(m, a, c, f) /\ Backs(to, a, c, f)
  BY <1>9, <1>10, <1>11, <1>12 DEF Backs
<1>14. f[<<g, "private">>] = c.key
  <2>1. f[<<g, "private">>] = m.of[g].key
    BY ExactEntry
  <2>2. QED
    BY <1>1, <2>1
<1>15. \A n \in Touched(c) : f[n] = c.key
  BY <1>2, <1>14
<1>16. ASSUME NEW k \in kept \ {c.key}
       PROVE  \E x \in Keyset!Generations :
                 <<x, "private">> \notin Touched(c) /\ f[<<x, "private">>] = k
  <2>1. PICK x \in Keyset!Generations : f[<<x, "private">>] = k
    BY DEF Kept
  <2>2. x # g
    BY <1>14, <2>1
  <2>3. <<x, "private">> \notin Touched(c)
    BY <1>2, <2>2
  <2>4. QED
    BY <2>1, <2>3
<1>17. \A x \in {c.from, c.to} :
          ManifestFit(x) /\ \E y \in Keyset!Generations : Backs(x, y, c, f)
  BY <1>1, <1>8, <1>13
<1>18. \A n \in Touched(c) : f[n] = (IF c.kind = "prepare" THEN Keyset!Absent ELSE c.key)
  BY <1>1, <1>15
<1>19. Commanded(c) /\ c.key \in Keyset!Keys
  BY <1>1, <1>3
<1>20. QED
  BY <1>16, <1>17, <1>18, <1>19 DEF CommandFit

\* A command that fits is at work once it begins.
LEMMA HandBegins ==
  ASSUME NEW c, NEW f, NEW kept, CommandFit(c, f, kept), Raw(f), NEW m, m = c.from, NEW extra,
         c.kind = "retire" => c.to.of = m.of,
         NEW h, h = [kind |-> c.kind, command |-> c, found |-> f,
                     todo |-> Keyset!Steps(c), cause |-> "none"]
  PROVE  HandFit(h, m, f, extra, kept)
<1>1. /\ DOMAIN h = HandColumns /\ h.command = c /\ h.found = f /\ h.todo = Keyset!Steps(c)
      /\ h.cause = "none"
  BY DEF HandColumns
<1>2. Commanded(c)
  BY DEF CommandFit
<1>3. /\ Keyset!Steps(c) \in Seq(Doing(c)) /\ Keyset!Steps(c) # <<>> /\ ChecksLast(Keyset!Steps(c))
      /\ c.kind # "retire" => Among(Rename(c.to), Keyset!Steps(c))
  BY <1>2, StepsFit
<1>4. ForwardFit(h, m, f, extra)
  BY <1>1, <1>3 DEF ForwardFit
<1>5. FilesFit(c, f, f)
  BY DEF FilesFit, CommandFit
<1>6. QED
  BY <1>1, <1>4, <1>5 DEF HandFit

\* What one hand writes in its place.
LEMMA HandPlaced ==
  ASSUME NEW hands, hands = [o \in Hands |-> hands[o]], NEW p \in Hands, NEW h,
         NEW hands2, hands2 = [hands EXCEPT ![p] = h]
  PROVE  /\ hands2 = [o \in Hands |-> hands2[o]]
         /\ hands2[p] = h /\ \A o \in Hands : o # p => hands2[o] = hands[o]
<1>1. PICK all : all = [o \in Hands |-> hands[o]]
  OBVIOUS
<1>2. DOMAIN all = Hands /\ all = hands
  BY <1>1
<1>3. hands2 = [all EXCEPT ![p] = h]
  BY <1>2
<1>4. hands2 = [o \in Hands |-> IF o = p THEN h ELSE all[o]]
  BY <1>2, <1>3
<1>5. QED
  BY <1>2, <1>4

\* The keyset that provision makes.
LEMMA FirstFits ==
  ASSUME NEW version \in {1, 2}, NEW m, m = Keyset!First(version),
         NEW f, f = Keyset!FilesOf(Keyset!First(version))
  PROVE  /\ ManifestFit(m) /\ Raw(f) /\ Backed(m, f) /\ Kept(f, {1})
         /\ m # Keyset!Missing /\ 1 \in Keyset!Keys
<1>1. 1 \in Keyset!Generations /\ 1 \in Keyset!Keys
  BY KeysetAssumption DEF Keyset!Generations, Keyset!Keys
<1>2. PICK e : e = [state |-> "active", key |-> 1, private |-> TRUE]
  OBVIOUS
<1>3. /\ e \in Keyset!Entry /\ Keyset!NoEntry \in Keyset!Entry
      /\ e.state = "active" /\ e.key = 1 /\ e.private = TRUE
      /\ Keyset!NoEntry.state = "none" /\ Keyset!NoEntry.private = FALSE
  BY <1>1, <1>2 DEF Keyset!Entry, Keyset!NoEntry
<1>4. /\ DOMAIN m = {"version", "of"} /\ m.version = version
      /\ m.of = [g \in Keyset!Generations |-> IF g = 1 THEN e ELSE Keyset!NoEntry]
  BY <1>2 DEF Keyset!First
<1>5. /\ m.of \in [Keyset!Generations -> Keyset!Entry] /\ m.of[1] = e
      /\ \A g \in Keyset!Generations : g # 1 => m.of[g] = Keyset!NoEntry
  BY <1>1, <1>3, <1>4
<1>6. ManifestFit(m)
  BY <1>1, <1>3, <1>4, <1>5 DEF ManifestFit
<1>7. /\ f = [n \in Keyset!Names |-> IF n \in Keyset!Named(m) THEN m.of[n[1]].key ELSE Keyset!Absent]
  BY DEF Keyset!FilesOf
<1>8. \A n \in Keyset!Names : n[1] \in Keyset!Generations
  BY DEF Keyset!Names
<1>9. \A n \in Keyset!Names : m.of[n[1]].key \in Int
  <2>1. \A x \in Keyset!Entry : x.key \in Int
    BY DEF Keyset!Entry, Keyset!Keys, Keyset!Absent
  <2>2. QED
    BY <1>5, <1>8, <2>1
<1>10. Raw(f)
  BY <1>7, <1>9 DEF Raw, Keyset!Absent
<1>11. \A kind \in {"private", "public"} : f[<<1, kind>>] = 1
  <2>1. ASSUME NEW kind \in {"private", "public"} PROVE f[<<1, kind>>] = 1
    <3>1. PICK n : n = <<1, kind>>
      OBVIOUS
    <3>2. n \in Keyset!Names /\ n[1] = 1
      BY <1>1, <3>1 DEF Keyset!Names
    <3>3. n \in Keyset!Named(m)
      BY <1>3, <1>5, <3>2 DEF Keyset!Named
    <3>4. QED
      BY <1>3, <1>5, <1>7, <3>1, <3>2, <3>3
  <2>2. QED
    BY <2>1
<1>12. Backed(m, f)
  BY <1>1, <1>3, <1>5, <1>11 DEF Backed
<1>13. Kept(f, {1})
  BY <1>1, <1>11 DEF Kept
<1>14. m # Keyset!Missing
  BY <1>4 DEF Keyset!Missing
<1>15. QED
  BY <1>1, <1>6, <1>10, <1>12, <1>13, <1>14

\* The directory begins in the invariant.
LEMMA InitKeyset == Keyset!Init => KeysetInv
<1> SUFFICES ASSUME Keyset!Init PROVE KeysetInv
  OBVIOUS
<1>1. hand = [o \in Hands |-> hand[o]] /\ \A o \in Hands : hand[o] = Keyset!Idle
  BY DEF Keyset!Init
<1>2. litter \in BOOLEAN /\ ordered = {} /\ hand = [o \in Hands |-> Keyset!Idle]
  BY DEF Keyset!Init
<1>3. CASE /\ manifest = Keyset!Missing /\ files = [n \in Keyset!Names |-> Keyset!Absent]
           /\ drawn = 0 /\ sealed = {}
  <2>1. Raw(files)
    BY <1>3 DEF Raw, Keyset!Absent
  <2>2. Kept(files, sealed \ ordered)
    BY <1>3 DEF Kept
  <2>3. QED
    BY <1>1, <1>2, <1>3, <2>1, <2>2 DEF KeysetInv, HandsFit
<1>4. ASSUME NEW version \in {1, 2}, manifest = Keyset!First(version),
             files = Keyset!FilesOf(Keyset!First(version)), drawn = 1, sealed = {1}
      PROVE  KeysetInv
  <2>1. /\ ManifestFit(manifest) /\ Raw(files) /\ Backed(manifest, files)
        /\ Kept(files, {1}) /\ manifest # Keyset!Missing /\ 1 \in Keyset!Keys
    BY <1>4, FirstFits
  <2>2. Kept(files, sealed \ ordered)
    BY <1>2, <1>4, <2>1 DEF Kept
  <2>3. QED
    BY <1>1, <1>2, <1>4, <2>1, <2>2 DEF KeysetInv, HandsFit
<1>5. QED
  BY <1>3, <1>4 DEF Keyset!Init

\* Provision makes the first keyset of a directory that has none.
LEMMA StepProvision ==
  ASSUME KeysetInv, Keyset!Provision
  PROVE  KeysetInv'
<1>1. /\ manifest = Keyset!Missing /\ manifest' = Keyset!First(2)
      /\ files' = Keyset!FilesOf(Keyset!First(2)) /\ drawn' = 1 /\ sealed' = {1}
      /\ UNCHANGED <<litter, lock, hand, ordered>>
  BY DEF Keyset!Provision
<1>2. /\ litter \in BOOLEAN /\ hand = [o \in Hands |-> hand[o]]
      /\ hand = [o \in Hands |-> Keyset!Idle]
  BY <1>1 DEF KeysetInv
<1>3. \A o \in Hands : hand[o] = Keyset!Idle
  BY <1>2
<1>4. PICK m, f : m = manifest' /\ f = files'
  OBVIOUS
<1>5. /\ ManifestFit(m) /\ Raw(f) /\ Backed(m, f) /\ Kept(f, {1})
      /\ m # Keyset!Missing /\ 1 \in Keyset!Keys
  BY <1>1, <1>4, FirstFits
<1>6. Kept(f, {1} \ ordered)
  BY <1>5 DEF Kept
<1>7. QED
  BY <1>1, <1>2, <1>3, <1>4, <1>5, <1>6 DEF KeysetInv, HandsFit

\* A command begins: it fits what the operator read.
LEMMA StepBegins ==
  ASSUME KeysetInv, NEW o \in Hands, Keyset!Admitted(o), NEW c, Keyset!Begin(o, c),
         CommandFit(c, files, sealed \ ordered'), c.from = manifest,
         c.kind = "retire" => c.to.of = manifest.of,
         drawn' \in Nat, sealed' = sealed, ordered \subseteq ordered'
  PROVE  KeysetInv'
<1>1. /\ lock = Nobody /\ manifest # Keyset!Missing
  BY DEF Keyset!Admitted
<1>2. /\ Raw(files) /\ litter \in BOOLEAN /\ sealed \subseteq Keyset!Keys
      /\ hand = [p \in Hands |-> hand[p]]
      /\ ManifestFit(manifest) /\ Backed(manifest, files) /\ Kept(files, sealed \ ordered)
      /\ \A p \in Hands : hand[p] # Keyset!Idle => lock = p
  BY <1>1 DEF KeysetInv, HandsFit
<1>3. \A p \in Hands : hand[p] = Keyset!Idle
  BY <1>1, <1>2, KeysetAssumption
<1>4. PICK h : h = [kind |-> c.kind, command |-> c, found |-> files,
                    todo |-> Keyset!Steps(c), cause |-> "none"]
  OBVIOUS
<1>5. /\ lock' = o /\ hand' = [hand EXCEPT ![o] = h] /\ UNCHANGED <<manifest, files, litter>>
  BY <1>4 DEF Keyset!Begin
<1>6. PICK m, f, extra, kept : /\ m = manifest /\ f = files /\ extra = litter
                               /\ kept = sealed \ ordered'
  OBVIOUS
<1>7. HandFit(h, m, f, extra, kept)
  BY <1>2, <1>4, <1>6, HandBegins
<1>8. PICK hands, hands2 : hands = hand /\ hands2 = hand'
  OBVIOUS
<1>9. /\ hands2 = [p \in Hands |-> hands2[p]]
      /\ hands2[o] = h /\ \A p \in Hands : p # o => hands2[p] = hands[p]
  <2>1. hands = [p \in Hands |-> hands[p]] /\ hands2 = [hands EXCEPT ![o] = h]
    BY <1>2, <1>5, <1>8
  <2>2. QED
    BY <2>1, HandPlaced
<1>10. HandsFit(hands2, o, m, f, extra, kept)
  BY <1>3, <1>7, <1>8, <1>9 DEF HandsFit
<1>11. Kept(f, kept)
  BY <1>2, <1>6 DEF Kept
<1>12. QED
  BY <1>1, <1>2, <1>5, <1>6, <1>8, <1>9, <1>10, <1>11 DEF KeysetInv

\* prepare-rotation begins.
LEMMA StepPrepare ==
  ASSUME KeysetInv, NEW o \in Hands, NEW g \in Keyset!Generations, Keyset!PrepareRotation(o, g)
  PROVE  KeysetInv'
<1>1. /\ Keyset!Admitted(o) /\ manifest.of[g].state = "none" /\ drawn < MaxGenerations
      /\ drawn' = drawn + 1 /\ sealed' = sealed /\ ordered' = ordered
  BY DEF Keyset!PrepareRotation
<1>2. manifest # Keyset!Missing /\ Keyset!Exact(manifest, files, litter)
  BY <1>1 DEF Keyset!Admitted
<1>3. /\ ManifestFit(manifest) /\ Raw(files) /\ drawn \in Nat
      /\ sealed \subseteq Keyset!Keys /\ Kept(files, sealed \ ordered)
  BY <1>2 DEF KeysetInv
<1>4. PICK m, f, extra, kept, key, to, c :
         /\ m = manifest /\ f = files /\ extra = litter /\ kept = sealed \ ordered
         /\ key = drawn + 1
         /\ to = [version |-> 2, of |->
                    [m.of EXCEPT ![g] = [state |-> "retired", key |-> key, private |-> TRUE]]]
         /\ c = [kind |-> "prepare", generation |-> g, key |-> key, from |-> m, to |-> to]
  OBVIOUS
<1>5. key \in Keyset!Keys /\ key \in Nat /\ kept \subseteq Keyset!Keys
  <2>1. key \in Nat /\ key \in 1 .. MaxGenerations
    BY <1>1, <1>3, <1>4, KeysetAssumption
  <2>2. kept \subseteq Keyset!Keys
    BY <1>3, <1>4
  <2>3. QED
    BY <2>1, <2>2 DEF Keyset!Keys
<1>6. CommandFit(c, f, kept)
  BY <1>1, <1>2, <1>3, <1>4, <1>5, PrepareFits
<1>7. Keyset!Begin(o, c)
  BY <1>4 DEF Keyset!PrepareRotation, Keyset!Changed
<1>8. c.from = m /\ c.kind # "retire"
  BY <1>4
<1>9. QED
  BY <1>1, <1>4, <1>5, <1>6, <1>7, <1>8, StepBegins

\* activate-generation begins.
LEMMA StepActivate ==
  ASSUME KeysetInv, NEW o \in Hands, NEW g \in Keyset!Generations, Keyset!ActivateGeneration(o, g)
  PROVE  KeysetInv'
<1>1. /\ Keyset!Admitted(o) /\ manifest.of[g].private
      /\ drawn' = drawn /\ sealed' = sealed /\ ordered' = ordered
  BY DEF Keyset!ActivateGeneration
<1>2. manifest # Keyset!Missing /\ Keyset!Exact(manifest, files, litter)
  BY <1>1 DEF Keyset!Admitted
<1>3. /\ ManifestFit(manifest) /\ Raw(files) /\ drawn \in Nat /\ Kept(files, sealed \ ordered)
  BY <1>2 DEF KeysetInv
<1>4. PICK m, f, extra, kept, to, c :
         /\ m = manifest /\ f = files /\ extra = litter /\ kept = sealed \ ordered
         /\ to = [version |-> 2, of |-> [h \in Keyset!Generations |->
                          IF h = g THEN [m.of[h] EXCEPT !.state = "active"]
                          ELSE IF m.of[h].state = "active" THEN [m.of[h] EXCEPT !.state = "retired"]
                          ELSE m.of[h]]]
         /\ c = [kind |-> "activate", generation |-> g, key |-> m.of[g].key, from |-> m, to |-> to]
  OBVIOUS
<1>5. m.of[g].private = TRUE
  <2>1. m.of[g] \in Keyset!Entry
    BY <1>3, <1>4 DEF ManifestFit
  <2>2. m.of[g].private \in BOOLEAN
    BY <2>1 DEF Keyset!Entry
  <2>3. QED
    BY <1>1, <1>4, <2>2
<1>6. CommandFit(c, f, kept)
  BY <1>2, <1>3, <1>4, <1>5, ActivateFits
<1>7. Keyset!Begin(o, c)
  BY <1>4 DEF Keyset!ActivateGeneration, Keyset!Activated
<1>8. c.from = m /\ c.kind # "retire"
  BY <1>4
<1>9. QED
  BY <1>1, <1>3, <1>4, <1>6, <1>7, <1>8, StepBegins

\* retire-generation begins, with or without the deletion of its private file.
LEMMA StepRetire ==
  ASSUME KeysetInv, NEW o \in Hands, NEW g \in Keyset!Generations, NEW delete \in BOOLEAN,
         Keyset!RetireGeneration(o, g, delete)
  PROVE  KeysetInv'
<1>1. /\ Keyset!Admitted(o) /\ manifest.of[g].state = "retired"
      /\ drawn' = drawn /\ sealed' = sealed
  BY DEF Keyset!RetireGeneration, Keyset!Retirable
<1>2. manifest # Keyset!Missing /\ Keyset!Exact(manifest, files, litter)
  BY <1>1 DEF Keyset!Admitted
<1>3. /\ ManifestFit(manifest) /\ Raw(files) /\ drawn \in Nat /\ Kept(files, sealed \ ordered)
  BY <1>2 DEF KeysetInv
<1>4. manifest.of[g].private \in BOOLEAN
  <2>1. manifest.of[g] \in Keyset!Entry
    BY <1>3 DEF ManifestFit
  <2>2. QED
    BY <2>1 DEF Keyset!Entry
<1>5. CASE delete = TRUE /\ manifest.of[g].private = TRUE
  <2>1. PICK m, f, extra, kept, to, c :
           /\ m = manifest /\ f = files /\ extra = litter /\ kept = sealed \ ordered
           /\ to = [version |-> 2, of |-> [m.of EXCEPT ![g].private = FALSE]]
           /\ c = [kind |-> "delete", generation |-> g, key |-> m.of[g].key, from |-> m, to |-> to]
    OBVIOUS
  <2>2. CommandFit(c, f, kept \ {c.key})
    BY <1>1, <1>2, <1>3, <1>5, <2>1, DeleteFits
  <2>3. Keyset!Begin(o, c) /\ ordered' = ordered \cup {c.key}
    BY <1>5, <2>1 DEF Keyset!RetireGeneration
  <2>4. kept \ {c.key} = sealed \ ordered'
    BY <2>1, <2>3
  <2>5. c.from = m /\ c.kind # "retire"
    BY <2>1
  <2>6. QED
    BY <1>1, <1>3, <2>1, <2>2, <2>3, <2>4, <2>5, StepBegins
<1>6. CASE ~ (delete = TRUE /\ manifest.of[g].private = TRUE)
  <2>1. PICK m, f, extra, kept, to, c :
           /\ m = manifest /\ f = files /\ extra = litter /\ kept = sealed \ ordered
           /\ to = [version |-> 2, of |-> m.of]
           /\ c = [kind |-> "retire", generation |-> g, key |-> m.of[g].key, from |-> m, to |-> to]
    OBVIOUS
  <2>2. CommandFit(c, f, kept)
    BY <1>1, <1>2, <1>3, <2>1, RetireFits
  <2>3. Keyset!Begin(o, c) /\ ordered' = ordered
    BY <1>4, <1>6, <2>1 DEF Keyset!RetireGeneration
  <2>4. c.from = m /\ c.to.of = m.of
    BY <2>1
  <2>5. QED
    BY <1>1, <1>3, <2>1, <2>2, <2>3, <2>4, StepBegins
<1>7. QED
  BY <1>5, <1>6

\* While a command is at work, nobody else is.
LEMMA HandAlone ==
  ASSUME KeysetInv, NEW o \in Hands, hand[o] # Keyset!Idle
  PROVE  /\ lock = o /\ HandFit(hand[o], manifest, files, litter, sealed \ ordered)
         /\ \A p \in Hands : p # o => hand[p] = Keyset!Idle
         /\ Raw(files) /\ litter \in BOOLEAN /\ drawn \in Nat /\ sealed \subseteq Keyset!Keys
         /\ hand = [p \in Hands |-> hand[p]] /\ manifest # Keyset!Missing
<1>1. /\ Raw(files) /\ litter \in BOOLEAN /\ drawn \in Nat /\ sealed \subseteq Keyset!Keys
      /\ hand = [p \in Hands |-> hand[p]]
      /\ manifest = Keyset!Missing => hand = [p \in Hands |-> Keyset!Idle]
      /\ \A p \in Hands :
            hand[p] # Keyset!Idle
              => lock = p /\ HandFit(hand[p], manifest, files, litter, sealed \ ordered)
  BY DEF KeysetInv, HandsFit
<1>2. QED
  BY <1>1

\* One hand changes, and its command fits what it left.
LEMMA HandMoves ==
  ASSUME KeysetInv, NEW o \in Hands, hand[o] # Keyset!Idle,
         NEW h, hand' = [hand EXCEPT ![o] = h], lock' = lock,
         HandFit(h, manifest', files', litter', sealed' \ ordered'), Raw(files'), litter' \in BOOLEAN,
         sealed' \subseteq Keyset!Keys, drawn' = drawn
  PROVE  KeysetInv'
<1>1. /\ lock = o /\ \A p \in Hands : p # o => hand[p] = Keyset!Idle
      /\ drawn \in Nat /\ hand = [p \in Hands |-> hand[p]]
  BY HandAlone
<1>2. PICK m, f, extra, kept, hands, hands2 :
         /\ m = manifest' /\ f = files' /\ extra = litter' /\ kept = sealed' \ ordered'
         /\ hands = hand /\ hands2 = hand'
  OBVIOUS
<1>3. /\ hands2 = [p \in Hands |-> hands2[p]]
      /\ hands2[o] = h /\ \A p \in Hands : p # o => hands2[p] = hands[p]
  <2>1. hands = [p \in Hands |-> hands[p]] /\ hands2 = [hands EXCEPT ![o] = h]
    BY <1>1, <1>2
  <2>2. QED
    BY <2>1, HandPlaced
<1>4. HandsFit(hands2, o, m, f, extra, kept)
  BY <1>1, <1>2, <1>3 DEF HandsFit
<1>5. /\ CommandFit(h.command, h.found, kept) /\ FilesFit(h.command, h.found, f)
      /\ m \in {h.command.from, h.command.to}
  BY <1>2 DEF HandFit
<1>6. ManifestFit(m) /\ Backed(m, f) /\ Kept(f, kept)
  BY <1>5, HandKeeps
<1>7. m # Keyset!Missing
  BY <1>6 DEF ManifestFit, Keyset!Missing
<1>8. QED
  BY <1>1, <1>2, <1>3, <1>4, <1>6, <1>7 DEF KeysetInv

\* A command ends, or dies: the directory is free, and what the command left
\* has the active generation and the keys that are to be kept.
LEMMA HandLeaves ==
  ASSUME KeysetInv, NEW o \in Hands, hand[o] # Keyset!Idle, hand' = [hand EXCEPT ![o] = Keyset!Idle],
         Raw(files'), litter' \in BOOLEAN, FilesFit(hand[o].command, hand[o].found, files'),
         UNCHANGED <<manifest, drawn, sealed, ordered>>
  PROVE  KeysetInv'
<1>1. /\ \A p \in Hands : p # o => hand[p] = Keyset!Idle
      /\ drawn \in Nat /\ hand = [p \in Hands |-> hand[p]] /\ sealed \subseteq Keyset!Keys
      /\ HandFit(hand[o], manifest, files, litter, sealed \ ordered) /\ manifest # Keyset!Missing
  BY HandAlone
<1>2. PICK h, m, f, kept, hands, hands2 :
         /\ h = hand[o] /\ m = manifest /\ f = files' /\ kept = sealed \ ordered
         /\ hands = hand /\ hands2 = hand'
  OBVIOUS
<1>3. /\ hands2 = [p \in Hands |-> hands2[p]]
      /\ hands2[o] = Keyset!Idle /\ \A p \in Hands : p # o => hands2[p] = hands[p]
  <2>1. hands = [p \in Hands |-> hands[p]] /\ hands2 = [hands EXCEPT ![o] = Keyset!Idle]
    BY <1>1, <1>2
  <2>2. QED
    BY <2>1, HandPlaced
<1>4. \A p \in Hands : hands2[p] = Keyset!Idle
  BY <1>1, <1>2, <1>3
<1>5. /\ CommandFit(h.command, h.found, kept) /\ FilesFit(h.command, h.found, f)
      /\ m \in {h.command.from, h.command.to}
  BY <1>1, <1>2 DEF HandFit
<1>6. ManifestFit(m) /\ Backed(m, f) /\ Kept(f, kept)
  BY <1>5, HandKeeps
<1>7. QED
  BY <1>1, <1>2, <1>3, <1>4, <1>6 DEF KeysetInv, HandsFit

\* A command, or its undoing, does its next step.
LEMMA StepProceed ==
  ASSUME KeysetInv, NEW o \in Hands, Keyset!Proceed(o)
  PROVE  KeysetInv'
<1>1. hand[o] # Keyset!Idle
  BY DEF Keyset!Proceed, Keyset!Busy
<1>2. /\ HandFit(hand[o], manifest, files, litter, sealed \ ordered)
      /\ Raw(files) /\ litter \in BOOLEAN /\ sealed \subseteq Keyset!Keys
      /\ hand = [p \in Hands |-> hand[p]]
  BY <1>1, HandAlone
<1>3. PICK h, m, f, extra, kept, step, more, h2 :
         /\ h = hand[o] /\ m = manifest /\ f = files /\ extra = litter /\ kept = sealed \ ordered
         /\ step = Head(h.todo) /\ more = sealed' \ ordered /\ h2 = NextHand(h)
  OBVIOUS
<1>4. /\ h.todo # <<>> /\ (step.do = "check" => Keyset!Exact(step.of, f, extra))
      /\ UNCHANGED <<litter, lock, drawn, ordered>>
  BY <1>3 DEF Keyset!Proceed, Keyset!Busy, Keyset!Possible, Keyset!Now
<1>5. hand' = [hand EXCEPT ![o] = h2]
  BY <1>3 DEF Keyset!Proceed, NextHand
<1>6. /\ files' = FilesAfter(step, f) /\ manifest' = ManifestAfter(step, m)
      /\ sealed' = (IF step.do = "rename" THEN sealed \cup Keyset!Active(step.of) ELSE sealed)
  BY <1>3 DEF Keyset!Proceed, Keyset!Do, Keyset!Now, FilesAfter, ManifestAfter
<1>7. more \subseteq KeptAfter(step, kept)
  BY <1>3, <1>6 DEF KeptAfter
<1>8. /\ HandFit(h2, ManifestAfter(step, m), FilesAfter(step, f), extra, more)
      /\ Raw(FilesAfter(step, f))
      /\ step.do = "rename" => Keyset!Active(step.of) \subseteq Keyset!Keys
  <2>1. HandFit(h, m, f, extra, kept) /\ Raw(f)
    BY <1>2, <1>3
  <2>2. step = Head(h.todo) /\ h2 = NextHand(h)
    BY <1>3
  <2>3. QED
    BY <1>4, <1>7, <2>1, <2>2, HandGoesOn
<1>9. sealed' \subseteq Keyset!Keys
  BY <1>2, <1>6, <1>8
<1>10. HandFit(h2, manifest', files', litter', sealed' \ ordered')
  BY <1>3, <1>4, <1>6, <1>8
<1>11. Raw(files')
  BY <1>6, <1>8
<1>12. QED
  BY <1>1, <1>2, <1>4, <1>5, <1>9, <1>10, <1>11, HandMoves

\* A step of a command at work.
LEMMA HandStep ==
  ASSUME NEW h, NEW m, NEW f, NEW extra, NEW kept, HandFit(h, m, f, extra, kept),
         h.todo # <<>>, NEW step, step = Head(h.todo)
  PROVE  StepOn(h.command, h.found, step) /\ Commanded(h.command) /\ FilesFit(h.command, h.found, f)
<1>1. PICK s, c, found : s = h.todo /\ c = h.command /\ found = h.found
  OBVIOUS
<1>2. CASE h.cause = "none"
  <2>1. s \in Seq(Doing(c)) /\ s # <<>>
    BY <1>1, <1>2 DEF HandFit, ForwardFit
  <2>2. step \in Doing(c)
    BY <1>1, <2>1
  <2>3. QED
    BY <1>1, <2>2 DEF HandFit, CommandFit, StepOn
<1>3. CASE h.cause # "none"
  <2>1. s \in Seq(Undoing(c, found)) /\ s # <<>>
    BY <1>1, <1>3 DEF HandFit
  <2>2. step \in Undoing(c, found)
    BY <1>1, <2>1
  <2>3. QED
    BY <1>1, <2>2 DEF HandFit, CommandFit, StepOn
<1>4. QED
  BY <1>2, <1>3

\* A step fails: the command is undone, or its undoing stops.
LEMMA StepFail ==
  ASSUME KeysetInv, NEW o \in Hands, Keyset!Fail(o)
  PROVE  KeysetInv'
<1>1. hand[o] # Keyset!Idle
  BY DEF Keyset!Fail, Keyset!Busy
<1>2. /\ HandFit(hand[o], manifest, files, litter, sealed \ ordered)
      /\ Raw(files) /\ litter \in BOOLEAN /\ sealed \subseteq Keyset!Keys
      /\ hand = [p \in Hands |-> hand[p]]
  BY <1>1, HandAlone
<1>3. PICK h, m, f, extra, kept, step, f2, extra2, h2 :
         /\ h = hand[o] /\ m = manifest /\ f = files /\ extra = litter /\ kept = sealed \ ordered
         /\ step = Head(h.todo) /\ f2 = files' /\ extra2 = litter'
         /\ h2 = FailedHand(h, step)
  OBVIOUS
<1>4. h.todo # <<>> /\ UNCHANGED <<manifest, lock, drawn, sealed, ordered>>
  BY <1>3 DEF Keyset!Fail, Keyset!Busy
<1>5. hand' = [hand EXCEPT ![o] = h2]
  BY <1>3 DEF Keyset!Fail, Keyset!Now, FailedHand
<1>6. IF step.do = "write" /\ f[step.name] = Keyset!Absent
      THEN \E left \in {Keyset!Absent, Keyset!Partial} : f2 = [f EXCEPT ![step.name] = left]
      ELSE f2 = f
  BY <1>3 DEF Keyset!Fail, Keyset!Now
<1>7. litter' \in BOOLEAN
  BY <1>2 DEF Keyset!Fail, Keyset!Now
<1>8. StepOn(h.command, h.found, step) /\ Commanded(h.command) /\ FilesFit(h.command, h.found, f)
  BY <1>2, <1>3, <1>4, HandStep
<1>9. FilesFit(h.command, h.found, f2) /\ Raw(f2) /\ (step.do # "write" => f2 = f)
  <2>1. CASE f2 = f
    BY <1>2, <1>3, <1>8, <2>1
  <2>2. CASE f2 # f
    <3>1. step.do = "write"
      BY <1>6, <2>2
    <3>2. PICK left \in {Keyset!Absent, Keyset!Partial} : f2 = [f EXCEPT ![step.name] = left]
      BY <1>6, <2>2
    <3>3. Raw(f)
      BY <1>2, <1>3
    <3>4. QED
      BY <1>8, <3>1, <3>2, <3>3, FilesSpoiled
  <2>3. QED
    BY <2>1, <2>2
<1>10. HandFit(h2, m, f2, extra2, kept)
  <2>1. HandFit(h, m, f, extra, kept)
    BY <1>2, <1>3
  <2>2. /\ step = Head(h.todo)
        /\ h2 = FailedHand(h, step)
    BY <1>3
  <2>3. QED
    BY <1>4, <1>9, <2>1, <2>2, HandFails
<1>11. HandFit(h2, manifest', files', litter', sealed' \ ordered') /\ Raw(files')
  BY <1>3, <1>4, <1>9, <1>10
<1>12. sealed' \subseteq Keyset!Keys
  BY <1>2, <1>4
<1>13. QED
  BY <1>1, <1>4, <1>5, <1>7, <1>11, <1>12, HandMoves

\* A command ends.
LEMMA StepFinish ==
  ASSUME KeysetInv, NEW o \in Hands, Keyset!Finish(o)
  PROVE  KeysetInv'
<1>1. /\ hand[o] # Keyset!Idle /\ hand' = [hand EXCEPT ![o] = Keyset!Idle]
      /\ UNCHANGED <<manifest, files, litter, drawn, sealed, ordered>>
  BY DEF Keyset!Finish, Keyset!Finished
<1>2. /\ HandFit(hand[o], manifest, files, litter, sealed \ ordered)
      /\ Raw(files) /\ litter \in BOOLEAN
  BY <1>1, HandAlone
<1>3. FilesFit(hand[o].command, hand[o].found, files)
  BY <1>2 DEF HandFit
<1>4. QED
  BY <1>1, <1>2, <1>3, HandLeaves

\* The process dies between two steps, or within one.
LEMMA StepDie ==
  ASSUME KeysetInv, NEW o \in Hands, Keyset!Die(o)
  PROVE  KeysetInv'
<1>1. /\ hand[o] # Keyset!Idle /\ hand' = [hand EXCEPT ![o] = Keyset!Idle]
      /\ UNCHANGED <<manifest, drawn, sealed, ordered>>
  BY DEF Keyset!Die, Keyset!Busy
<1>2. /\ HandFit(hand[o], manifest, files, litter, sealed \ ordered)
      /\ Raw(files) /\ litter \in BOOLEAN
  BY <1>1, HandAlone
<1>3. PICK h, m, f, extra, kept, step, f2 :
         /\ h = hand[o] /\ m = manifest /\ f = files /\ extra = litter /\ kept = sealed \ ordered
         /\ step = Head(h.todo) /\ f2 = files'
  OBVIOUS
<1>4. h.todo # <<>>
  BY <1>3 DEF Keyset!Die, Keyset!Busy
<1>5. /\ litter' \in BOOLEAN
      /\ \/ f2 = f
         \/ step.do = "write" /\ f2 = [f EXCEPT ![step.name] = Keyset!Partial]
  BY <1>2, <1>3 DEF Keyset!Die, Keyset!Now
<1>6. StepOn(h.command, h.found, step) /\ Commanded(h.command) /\ FilesFit(h.command, h.found, f)
  BY <1>2, <1>3, <1>4, HandStep
<1>7. FilesFit(h.command, h.found, f2) /\ Raw(f2)
  <2>1. CASE f2 = f
    BY <1>2, <1>3, <1>6, <2>1
  <2>2. CASE step.do = "write" /\ f2 = [f EXCEPT ![step.name] = Keyset!Partial]
    <3>1. Raw(f) /\ Keyset!Partial \in {Keyset!Absent, Keyset!Partial}
      BY <1>2, <1>3
    <3>2. QED
      BY <1>6, <2>2, <3>1, FilesSpoiled
  <2>3. QED
    BY <1>5, <2>1, <2>2
<1>8. FilesFit(hand[o].command, hand[o].found, files') /\ Raw(files')
  BY <1>3, <1>7
<1>9. QED
  BY <1>1, <1>5, <1>8, HandLeaves

\* Every step keeps the invariant.
LEMMA StepKeyset == KeysetInv /\ [Keyset!Next]_(Keyset!keysetVars) => KeysetInv'
<1> SUFFICES ASSUME KeysetInv, [Keyset!Next]_(Keyset!keysetVars) PROVE KeysetInv'
  OBVIOUS
<1>1. CASE UNCHANGED Keyset!keysetVars
  <2>1. /\ manifest' = manifest /\ files' = files /\ litter' = litter /\ lock' = lock
        /\ hand' = hand /\ drawn' = drawn /\ sealed' = sealed /\ ordered' = ordered
    BY <1>1 DEF Keyset!keysetVars
  <2>2. QED
    BY <2>1 DEF KeysetInv
<1>2. CASE Keyset!Provision
  BY <1>2, StepProvision
<1>3. ASSUME NEW o \in Hands, NEW g \in Keyset!Generations, Keyset!PrepareRotation(o, g)
      PROVE  KeysetInv'
  BY <1>3, StepPrepare
<1>4. ASSUME NEW o \in Hands, NEW g \in Keyset!Generations, Keyset!ActivateGeneration(o, g)
      PROVE  KeysetInv'
  BY <1>4, StepActivate
<1>5. ASSUME NEW o \in Hands, NEW g \in Keyset!Generations, NEW delete \in BOOLEAN,
             Keyset!RetireGeneration(o, g, delete)
      PROVE  KeysetInv'
  BY <1>5, StepRetire
<1>6. ASSUME NEW o \in Hands, Keyset!Proceed(o) \/ Keyset!Fail(o) \/ Keyset!Finish(o) \/ Keyset!Die(o)
      PROVE  KeysetInv'
  BY <1>6, StepProceed, StepFail, StepFinish, StepDie
<1>7. QED
  BY <1>1, <1>2, <1>3, <1>4, <1>5, <1>6 DEF Keyset!Next

\* What the invariant says of the directory.
LEMMA KeysetSays == KeysetInv => KeysetSafe
<1> SUFFICES ASSUME KeysetInv PROVE KeysetSafe
  OBVIOUS
<1>1. Keyset!ActiveBacked
  BY DEF KeysetInv, Backed, Keyset!ActiveBacked
<1>2. Keyset!KeysKept
  BY DEF KeysetInv, Kept, Keyset!KeysKept
<1>3. ASSUME NEW o \in Hands, Keyset!Finished(o)
      PROVE  /\ hand[o].cause = "none" => Keyset!Exact(manifest, files, litter)
             /\ hand[o].cause = "check"
                  => manifest = hand[o].command.from /\ files = hand[o].found
  <2>1. hand[o] # Keyset!Idle
    BY <1>3 DEF Keyset!Finished
  <2>2. HandFit(hand[o], manifest, files, litter, sealed \ ordered) /\ Raw(files)
    BY <2>1, HandAlone
  <2>3. PICK h, m, f, extra, kept :
           /\ h = hand[o] /\ m = manifest /\ f = files /\ extra = litter /\ kept = sealed \ ordered
    OBVIOUS
  <2>4. h.todo = <<>> /\ HandFit(h, m, f, extra, kept) /\ Raw(f)
    BY <1>3, <2>2, <2>3 DEF Keyset!Finished
  <2>5. h.cause = "none" => Keyset!Exact(m, f, extra)
    BY <2>4 DEF HandFit, ForwardFit
  <2>6. ASSUME h.cause = "check" PROVE m = h.command.from /\ f = h.found
    <3>1. BackwardFit(h, m, f)
      BY <2>4, <2>6 DEF HandFit
    <3>2. \A x : ~ Among(x, <<>>)
      BY DEF Among
    <3>3. m = h.command.from /\ \A n \in Keyset!Names : f[n] = h.found[n]
      BY <2>4, <3>1, <3>2 DEF BackwardFit
    <3>4. Raw(h.found)
      BY <2>4 DEF HandFit, CommandFit
    <3>5. PICK found : found = h.found
      OBVIOUS
    <3>6. f \in [Keyset!Names -> Int] /\ found \in [Keyset!Names -> Int]
      BY <2>4, <3>4, <3>5 DEF Raw
    <3>7. f = found
      BY <3>3, <3>5, <3>6
    <3>8. QED
      BY <3>3, <3>5, <3>7
  <2>7. QED
    BY <2>3, <2>5, <2>6
<1>4. Keyset!SuccessExact /\ Keyset!ValidationUndone
  BY <1>3 DEF Keyset!SuccessExact, Keyset!ValidationUndone
<1>5. QED
  BY <1>1, <1>2, <1>4 DEF KeysetSafe, Keyset!KeysetSafe

\* Wherever a command of the keys stops, by a failure, a failed undoing or a
\* dead process, the active generation has both its files and no key that may
\* have sealed something is gone without its confirmed retirement; a command
\* that reports success leaves an exact keyset, and one that only its own
\* validation refused leaves everything as it was
\* (deploy/security/sync_hpke_keysets.py).
THEOREM KeysetHolds == AccountsSpec => []KeysetSafe
<1>1. Keyset!Spec => []KeysetInv
  BY InitKeyset, StepKeyset, PTL DEF Keyset!Spec
<1>2. QED
  BY <1>1, KeysetAlone, KeysetSays, PTL

-----------------------------------------------------------------------------
(* The types of the stored sessions.                                       *)

\* What the other variables of the migration hold, beside the rows.
MigrationTypes ==
  /\ latest \in [Stored -> 0 .. MaxSnapshots] /\ reuser \in [Reusers -> Stored \cup {Nobody}]
  /\ command \in [busy : BOOLEAN, read : [Stored -> Migration!Row]] /\ drained \in BOOLEAN

\* A sound row has its type.
LEMMA RowTyped ==
  ASSUME SessionsInv, MigrationTypes, NEW s \in Stored
  PROVE  stored[s] \in Migration!Row
<1>1. RowSound(s) /\ latest[s] \in Nat /\ latest[s] \in 0 .. MaxSnapshots
  BY BoundsAssumption DEF SessionsInv, MigrationTypes
<1>2. latest[s] # 0 => latest[s] \in 1 .. MaxSnapshots
  BY <1>1, BoundsAssumption
<1>3. CASE stored[s].state = "active"
  <2>1. /\ stored[s] = [state |-> "active", jar |-> stored[s].jar, hpke |-> stored[s].hpke]
        /\ stored[s].jar \in {0} \cup 1 .. MaxSnapshots
        /\ stored[s].hpke \in {0} \cup 1 .. MaxSnapshots
    BY <1>1, <1>2, <1>3, RowFields
  <2>2. QED
    BY <2>1 DEF Migration!Row, Migration!None, Migration!Snapshots
<1>4. CASE stored[s].state # "active"
  <2>1. /\ stored[s] = [state |-> stored[s].state, jar |-> stored[s].jar, hpke |-> stored[s].hpke]
        /\ stored[s].state \in {"absent", "active", "expired", "revoked", "invalid"}
        /\ stored[s].jar = 0 /\ stored[s].hpke = 0
    BY <1>1, <1>4, RowFields
  <2>2. QED
    BY <2>1 DEF Migration!Row, Migration!None, Migration!Snapshots
<1>5. QED
  BY <1>3, <1>4

\* A command at rest has read nothing.
LEMMA RestingTyped == Migration!Resting \in [busy : BOOLEAN, read : [Stored -> Migration!Row]]
<1>1. Migration!NoRow \in Migration!Row
  BY DEF Migration!NoRow, Migration!Row, Migration!None
<1>2. QED
  BY <1>1 DEF Migration!Resting

\* Every step keeps them.
LEMMA StepMigration ==
  SessionsInv /\ MigrationTypes /\ [Migration!Next]_(Migration!migrationVars) => MigrationTypes'
<1> SUFFICES ASSUME SessionsInv, MigrationTypes, [Migration!Next]_(Migration!migrationVars)
             PROVE  MigrationTypes'
  OBVIOUS
<1>1. ASSUME NEW s \in Stored, Migration!EndSession(s) \/ Migration!MigrateRow(s)
      PROVE  MigrationTypes'
  BY <1>1 DEF MigrationTypes, Migration!EndSession, Migration!MigrateRow
<1>2. ASSUME NEW s \in Stored, Migration!StoreSession(s)
      PROVE  MigrationTypes'
  <2>1. latest' = [latest EXCEPT ![s] = 1] /\ UNCHANGED <<reuser, command, drained>>
    BY <1>2 DEF Migration!StoreSession
  <2>2. QED
    BY <2>1, BoundsAssumption DEF MigrationTypes
<1>3. ASSUME NEW w \in Reusers, NEW s \in Stored, Migration!LoadSession(w, s)
      PROVE  MigrationTypes'
  BY <1>3 DEF MigrationTypes, Migration!LoadSession
<1>4. ASSUME NEW w \in Reusers, Migration!RefreshSession(w)
      PROVE  MigrationTypes'
  <2>1. reuser' = [reuser EXCEPT ![w] = Nobody] /\ UNCHANGED <<command, drained>>
    BY <1>4 DEF Migration!RefreshSession
  <2>2. \/ latest' = latest
        \/ /\ reuser[w] # Nobody /\ latest[reuser[w]] < MaxSnapshots
           /\ latest' = [latest EXCEPT ![reuser[w]] = @ + 1]
    BY <1>4 DEF Migration!RefreshSession
  <2>3. latest' \in [Stored -> 0 .. MaxSnapshots]
    BY <1>4, <2>2, BoundsAssumption DEF MigrationTypes
  <2>4. QED
    BY <2>1, <2>3 DEF MigrationTypes
<1>5. ASSUME Migration!CountRemaining
      PROVE  MigrationTypes'
  BY <1>5 DEF MigrationTypes, Migration!CountRemaining
<1>6. ASSUME Migration!ReadAll
      PROVE  MigrationTypes'
  <2>1. /\ UNCHANGED <<latest, reuser, drained>>
        /\ command' = [busy |-> TRUE, read |-> [s \in Stored |->
              IF stored[s].jar # 0 \/ stored[s].hpke # 0 THEN stored[s] ELSE Migration!NoRow]]
    BY <1>6 DEF Migration!ReadAll, Migration!None
  <2>2. Migration!NoRow \in Migration!Row
    BY DEF Migration!NoRow, Migration!Row, Migration!None
  <2>3. command' \in [busy : BOOLEAN, read : [Stored -> Migration!Row]]
    BY <2>1, <2>2, RowTyped
  <2>4. QED
    BY <2>1, <2>3 DEF MigrationTypes
<1>7. ASSUME Migration!RevokeAll
      PROVE  MigrationTypes'
  BY <1>7, RestingTyped DEF MigrationTypes, Migration!RevokeAll
<1>8. CASE UNCHANGED Migration!migrationVars
  BY <1>8 DEF MigrationTypes, Migration!migrationVars
<1>9. QED
  BY <1>1, <1>2, <1>3, <1>4, <1>5, <1>6, <1>7, <1>8 DEF Migration!Next

\* Every row of the migration has its type.
LEMMA MigrationTyped == AccountsSpec => []Migration!TypeOK
<1>1. ASSUME Migration!Init
      PROVE  MigrationTypes
  <2>1. /\ latest = [s \in Stored |-> IF s \in OldStored THEN 1 ELSE 0]
        /\ reuser = [w \in Reusers |-> Nobody] /\ command = Migration!Resting /\ drained = FALSE
    BY <1>1 DEF Migration!Init, Migration!None
  <2>2. latest \in [Stored -> 0 .. MaxSnapshots]
    BY <2>1, BoundsAssumption
  <2>3. QED
    BY <2>1, <2>2, RestingTyped DEF MigrationTypes
<1>2. SessionsInv /\ MigrationTypes => Migration!TypeOK
  <2> SUFFICES ASSUME SessionsInv, MigrationTypes
               PROVE  Migration!TypeOK
    OBVIOUS
  <2>1. stored \in [Stored -> Migration!Row]
    BY RowTyped DEF SessionsInv
  <2>2. 0 .. MaxSnapshots = {0} \cup 1 .. MaxSnapshots
    BY BoundsAssumption
  <2>3. latest \in [Stored -> {0} \cup 1 .. MaxSnapshots]
    BY <2>2 DEF MigrationTypes
  <2>4. QED
    BY <2>1, <2>3 DEF SessionsInv, MigrationTypes, Migration!TypeOK, Migration!None,
       Migration!Snapshots
<1>3. QED
  BY <1>1, <1>2, MigrationAlone, InitSessions, StepSessions, StepMigration, PTL
  DEF Migration!Spec
-----------------------------------------------------------------------------
(* The types of the directory.                                             *)

\* The manifest is one, what the files hold is a key or none, and both
\* manifests of a command at work are manifests.
Valued(f) == f \in [Keyset!Names -> {Keyset!Absent, Keyset!Partial} \cup Keyset!Keys]
DirectoryTypes ==
  /\ manifest = Keyset!Missing \/ manifest \in Keyset!Manifest
  /\ Valued(files) /\ lock \in Hands \cup {Nobody}
  /\ drawn \in 0 .. MaxGenerations /\ ordered \subseteq Keyset!Keys
  /\ \A o \in Hands : hand[o] # Keyset!Idle
        => {hand[o].command.from, hand[o].command.to} \subseteq Keyset!Manifest

\* Files that one step of a command changes stay typed.
LEMMA FilesValued ==
  ASSUME NEW f, Valued(f), NEW n,
         NEW v \in {Keyset!Absent, Keyset!Partial} \cup Keyset!Keys
  PROVE  Valued([f EXCEPT ![n] = v])
BY DEF Valued

\* The first keyset is typed.
LEMMA FirstValued ==
  ASSUME NEW version \in {1, 2}
  PROVE  /\ Keyset!First(version) \in Keyset!Manifest
         /\ Valued(Keyset!FilesOf(Keyset!First(version)))
<1>1. 1 \in Keyset!Keys /\ 1 \in Keyset!Generations
  BY KeysetAssumption DEF Keyset!Keys, Keyset!Generations
<1>2. /\ [state |-> "active", key |-> 1, private |-> TRUE] \in Keyset!Entry
      /\ Keyset!NoEntry \in Keyset!Entry
  BY <1>1 DEF Keyset!Entry, Keyset!NoEntry
<1>3. PICK m : m = Keyset!First(version)
  OBVIOUS
<1>4. m \in Keyset!Manifest
  BY <1>2, <1>3 DEF Keyset!First, Keyset!Manifest
<1>5. \A n \in Keyset!Names : m.of[n[1]].key \in {Keyset!Absent} \cup Keyset!Keys
  BY <1>4 DEF Keyset!Manifest, Keyset!Entry, Keyset!Names
<1>6. Valued(Keyset!FilesOf(m))
  BY <1>5 DEF Keyset!FilesOf, Valued
<1>7. QED
  BY <1>3, <1>4, <1>6

\* A command begins with a manifest that is one.
LEMMA TypesBegin ==
  ASSUME KeysetInv, DirectoryTypes, NEW o \in Hands, Keyset!Admitted(o), NEW c, Keyset!Begin(o, c),
         c.from \in Keyset!Manifest, c.to \in Keyset!Manifest,
         drawn' \in 0 .. MaxGenerations, ordered' \subseteq Keyset!Keys
  PROVE  DirectoryTypes'
<1>1. PICK h : h = [kind |-> c.kind, command |-> c, found |-> files,
                    todo |-> Keyset!Steps(c), cause |-> "none"]
  OBVIOUS
<1>2. /\ lock' = o /\ UNCHANGED <<manifest, files>>
      /\ hand' = [hand EXCEPT ![o] = h] /\ hand = [p \in Hands |-> hand[p]]
  BY <1>1 DEF Keyset!Begin, KeysetInv
<1>3. h.command = c
  BY <1>1
<1>4. hand'[o] = h /\ \A p \in Hands : p # o => hand'[p] = hand[p]
  BY <1>2
<1>5. \A p \in Hands : hand'[p] # Keyset!Idle
         => {hand'[p].command.from, hand'[p].command.to} \subseteq Keyset!Manifest
  BY <1>3, <1>4 DEF DirectoryTypes
<1>6. QED
  BY <1>2, <1>5 DEF DirectoryTypes

\* The hand changes, and its command stays the one it was, or ends.
LEMMA TypesMove ==
  ASSUME KeysetInv, DirectoryTypes, NEW o \in Hands, hand[o] # Keyset!Idle,
         NEW h, hand' = [hand EXCEPT ![o] = h], h = Keyset!Idle \/ h.command = hand[o].command,
         lock' \in {lock, Nobody}, manifest' = manifest \/ manifest' \in Keyset!Manifest,
         Valued(files'), drawn' = drawn, ordered' = ordered
  PROVE  DirectoryTypes'
<1>1. hand = [p \in Hands |-> hand[p]]
  BY DEF KeysetInv
<1>2. hand'[o] = h /\ \A p \in Hands : p # o => hand'[p] = hand[p]
  BY <1>1
<1>3. \A p \in Hands : hand'[p] # Keyset!Idle
         => {hand'[p].command.from, hand'[p].command.to} \subseteq Keyset!Manifest
  BY <1>2 DEF DirectoryTypes
<1>4. QED
  BY <1>3 DEF DirectoryTypes

\* Every step keeps the types of the directory.
LEMMA StepDirectory ==
  KeysetInv /\ DirectoryTypes /\ [Keyset!Next]_(Keyset!keysetVars) => DirectoryTypes'
<1> SUFFICES ASSUME KeysetInv, DirectoryTypes, [Keyset!Next]_(Keyset!keysetVars)
             PROVE  DirectoryTypes'
  OBVIOUS
<1>1. CASE Keyset!Provision
  <2>1. /\ manifest' = Keyset!First(2) /\ files' = Keyset!FilesOf(Keyset!First(2)) /\ drawn' = 1
        /\ UNCHANGED <<lock, hand, ordered>>
    BY <1>1 DEF Keyset!Provision
  <2>2. manifest' \in Keyset!Manifest /\ Valued(files')
    BY <2>1, FirstValued
  <2>3. 1 \in 0 .. MaxGenerations
    BY KeysetAssumption
  <2>4. QED
    BY <2>1, <2>2, <2>3 DEF DirectoryTypes
<1>2. ASSUME NEW o \in Hands, Keyset!Admitted(o)
      PROVE  /\ manifest \in Keyset!Manifest
             /\ \A g \in Keyset!Generations :
                   /\ manifest.of[g] \in Keyset!Entry
                   /\ manifest.of[g].state # "none" => manifest.of[g].key \in Keyset!Keys
  BY <1>2 DEF Keyset!Admitted, DirectoryTypes, KeysetInv, ManifestFit
<1>3. ASSUME NEW g \in Keyset!Generations, NEW entry \in Keyset!Entry,
             manifest \in Keyset!Manifest
      PROVE  Keyset!Changed(g, entry) \in Keyset!Manifest
  <2>1. manifest.of \in [Keyset!Generations -> Keyset!Entry]
    BY <1>3 DEF Keyset!Manifest
  <2>2. [manifest.of EXCEPT ![g] = entry] \in [Keyset!Generations -> Keyset!Entry]
    BY <2>1
  <2>3. QED
    BY <2>2 DEF Keyset!Changed, Keyset!Manifest
<1>4. ASSUME NEW o \in Hands, NEW g \in Keyset!Generations, Keyset!PrepareRotation(o, g)
      PROVE  DirectoryTypes'
  <2>1. /\ Keyset!Admitted(o) /\ drawn < MaxGenerations /\ drawn' = drawn + 1
        /\ ordered' = ordered
    BY <1>4 DEF Keyset!PrepareRotation
  <2>2. PICK to, c : /\ to = Keyset!Changed(g, [state |-> "retired", key |-> drawn + 1, private |-> TRUE])
                     /\ c = [kind |-> "prepare", generation |-> g, key |-> drawn + 1,
                             from |-> manifest, to |-> to]
    OBVIOUS
  <2>3. Keyset!Begin(o, c)
    BY <1>4, <2>2 DEF Keyset!PrepareRotation
  <2>4. drawn + 1 \in 0 .. MaxGenerations /\ drawn + 1 \in Keyset!Keys
    BY <2>1, KeysetAssumption DEF DirectoryTypes, Keyset!Keys
  <2>5. to \in Keyset!Manifest
    <3>1. [state |-> "retired", key |-> drawn + 1, private |-> TRUE] \in Keyset!Entry
      BY <2>4 DEF Keyset!Entry
    <3>2. QED
      BY <1>2, <1>3, <2>1, <2>2, <3>1
  <2>6. c.from = manifest /\ c.to = to
    BY <2>2
  <2>7. QED
    BY <1>2, <2>1, <2>3, <2>4, <2>5, <2>6, TypesBegin DEF DirectoryTypes
<1>5. ASSUME NEW o \in Hands, NEW g \in Keyset!Generations, Keyset!ActivateGeneration(o, g)
      PROVE  DirectoryTypes'
  <2>1. /\ Keyset!Admitted(o) /\ drawn' = drawn /\ ordered' = ordered
    BY <1>5 DEF Keyset!ActivateGeneration
  <2>2. PICK to, c : /\ to = Keyset!Activated(g)
                     /\ c = [kind |-> "activate", generation |-> g, key |-> manifest.of[g].key,
                             from |-> manifest, to |-> to]
    OBVIOUS
  <2>3. Keyset!Begin(o, c)
    BY <1>5, <2>2 DEF Keyset!ActivateGeneration
  <2>4. \A h \in Keyset!Generations, state \in {"active", "retired"} :
           [manifest.of[h] EXCEPT !.state = state] \in Keyset!Entry
    BY <1>2, <2>1 DEF Keyset!Entry
  <2>5. to \in Keyset!Manifest
    BY <1>2, <2>1, <2>2, <2>4 DEF Keyset!Activated, Keyset!Manifest
  <2>6. c.from = manifest /\ c.to = to
    BY <2>2
  <2>7. QED
    BY <1>2, <2>1, <2>3, <2>5, <2>6, TypesBegin DEF DirectoryTypes
<1>6. ASSUME NEW o \in Hands, NEW g \in Keyset!Generations, NEW delete \in BOOLEAN,
             Keyset!RetireGeneration(o, g, delete)
      PROVE  DirectoryTypes'
  <2>1. /\ Keyset!Admitted(o) /\ manifest.of[g].state = "retired" /\ drawn' = drawn
        /\ ordered' = ordered \/ ordered' = ordered \cup {manifest.of[g].key}
    BY <1>6 DEF Keyset!RetireGeneration, Keyset!Retirable
  <2>2. PICK of, to, c :
           /\ of \in {[manifest.of EXCEPT ![g].private = FALSE], manifest.of}
           /\ to = [version |-> 2, of |-> of]
           /\ c.from = manifest /\ c.to = to /\ Keyset!Begin(o, c)
    <3> DEFINE deletes == delete /\ manifest.of[g].private
               all == IF deletes THEN [manifest.of EXCEPT ![g].private = FALSE] ELSE manifest.of
               cc == [kind |-> IF deletes THEN "delete" ELSE "retire", generation |-> g,
                      key |-> manifest.of[g].key, from |-> manifest,
                      to |-> [version |-> 2, of |-> all]]
    <3>1. Keyset!Begin(o, cc)
      BY <1>6 DEF Keyset!RetireGeneration
    <3>2. cc.from = manifest /\ cc.to = [version |-> 2, of |-> all]
      OBVIOUS
    <3>3. all \in {[manifest.of EXCEPT ![g].private = FALSE], manifest.of}
      OBVIOUS
    <3>4. QED
      BY <3>1, <3>2, <3>3
  <2>3. manifest.of \in [Keyset!Generations -> Keyset!Entry]
    BY <1>2, <2>1 DEF Keyset!Manifest
  <2>4. [manifest.of[g] EXCEPT !.private = FALSE] \in Keyset!Entry
    BY <2>3 DEF Keyset!Entry
  <2>5. [manifest.of EXCEPT ![g].private = FALSE] \in [Keyset!Generations -> Keyset!Entry]
    BY <2>3, <2>4
  <2>6. to \in Keyset!Manifest
    <3>1. of \in [Keyset!Generations -> Keyset!Entry]
      BY <2>2, <2>3, <2>5
    <3>2. QED
      BY <2>2, <3>1 DEF Keyset!Manifest
  <2>7. ordered' \subseteq Keyset!Keys
    BY <1>2, <2>1 DEF DirectoryTypes
  <2>8. QED
    BY <1>2, <2>1, <2>2, <2>6, <2>7, TypesBegin DEF DirectoryTypes
<1>7. ASSUME NEW o \in Hands, hand[o] # Keyset!Idle, hand[o].todo # <<>>
      PROVE  LET step == Head(hand[o].todo) IN
             /\ StepOn(hand[o].command, hand[o].found, step)
             /\ step.do = "write" => step.key \in Keyset!Keys
             /\ step.do = "rename" => step.of \in Keyset!Manifest
  <2>1. HandFit(hand[o], manifest, files, litter, sealed \ ordered)
    BY <1>7, HandAlone
  <2>2. PICK h, step : h = hand[o] /\ step = Head(h.todo)
    OBVIOUS
  <2>3. StepOn(h.command, h.found, step)
    BY <1>7, <2>1, <2>2, HandStep
  <2>4. h.command.key \in Keyset!Keys
    BY <2>1, <2>2 DEF HandFit, CommandFit
  <2>5. {h.command.from, h.command.to} \subseteq Keyset!Manifest
    BY <1>7, <2>2 DEF DirectoryTypes
  <2>6. QED
    BY <2>2, <2>3, <2>4, <2>5, StepOf
<1>8. ASSUME NEW o \in Hands, Keyset!Proceed(o)
      PROVE  DirectoryTypes'
  <2>1. PICK step, h : step = Head(hand[o].todo) /\ h = [hand[o] EXCEPT !.todo = Tail(@)]
    OBVIOUS
  <2>2. /\ hand[o] # Keyset!Idle /\ hand[o].todo # <<>> /\ hand' = [hand EXCEPT ![o] = h]
        /\ UNCHANGED <<lock, drawn, ordered>>
        /\ files' = FilesAfter(step, files) /\ manifest' = ManifestAfter(step, manifest)
    BY <1>8, <2>1 DEF Keyset!Proceed, Keyset!Busy, Keyset!Do, Keyset!Now, FilesAfter, ManifestAfter
  <2>3. HandFit(hand[o], manifest, files, litter, sealed \ ordered)
    BY <2>2, HandAlone
  <2>4. h.command = hand[o].command
    BY <2>1, <2>3 DEF HandFit, HandColumns
  <2>5. Valued(files')
    BY <1>7, <2>1, <2>2, FilesValued DEF DirectoryTypes, FilesAfter
  <2>6. manifest' = manifest \/ manifest' \in Keyset!Manifest
    BY <1>7, <2>1, <2>2 DEF ManifestAfter
  <2>7. QED
    BY <2>2, <2>4, <2>5, <2>6, TypesMove
<1>9. ASSUME NEW o \in Hands, Keyset!Fail(o)
      PROVE  DirectoryTypes'
  <2>1. PICK step, h : step = Head(hand[o].todo) /\ h = FailedHand(hand[o], step)
    OBVIOUS
  <2>2. /\ hand[o] # Keyset!Idle /\ hand[o].todo # <<>> /\ hand' = [hand EXCEPT ![o] = h]
        /\ UNCHANGED <<manifest, lock, drawn, ordered>>
        /\ files' = files \/ \E left \in {Keyset!Absent, Keyset!Partial} :
                                files' = [files EXCEPT ![step.name] = left]
    BY <1>9, <2>1 DEF Keyset!Fail, Keyset!Busy, Keyset!Now, FailedHand
  <2>3. HandFit(hand[o], manifest, files, litter, sealed \ ordered)
    BY <2>2, HandAlone
  <2>4. h.command = hand[o].command
    BY <2>1, <2>3 DEF HandFit, HandColumns, FailedHand
  <2>5. Valued(files')
    <3>1. CASE files' = files
      BY <3>1 DEF DirectoryTypes
    <3>2. ASSUME NEW left \in {Keyset!Absent, Keyset!Partial},
                 files' = [files EXCEPT ![step.name] = left]
          PROVE  Valued(files')
      <4>1. Valued(files) /\ left \in {Keyset!Absent, Keyset!Partial} \cup Keyset!Keys
        BY DEF DirectoryTypes
      <4>2. Valued([files EXCEPT ![step.name] = left])
        BY <4>1, FilesValued
      <4>3. QED
        BY <3>2, <4>2
    <3>3. QED
      BY <2>2, <3>1, <3>2
  <2>6. QED
    BY <2>2, <2>4, <2>5, TypesMove
<1>10. ASSUME NEW o \in Hands, Keyset!Finish(o) \/ Keyset!Die(o)
       PROVE  DirectoryTypes'
  <2>1. /\ hand[o] # Keyset!Idle /\ hand' = [hand EXCEPT ![o] = Keyset!Idle] /\ lock' = Nobody
        /\ UNCHANGED <<manifest, drawn, ordered>>
        /\ files' = files \/ files' = [files EXCEPT ![Keyset!Now(o).name] = Keyset!Partial]
    BY <1>10 DEF Keyset!Finish, Keyset!Finished, Keyset!Die, Keyset!Busy
  <2>2. Valued(files')
    <3>1. Valued(files) /\ Keyset!Partial \in {Keyset!Absent, Keyset!Partial} \cup Keyset!Keys
      BY DEF DirectoryTypes
    <3>2. Valued([files EXCEPT ![Keyset!Now(o).name] = Keyset!Partial])
      BY <3>1, FilesValued
    <3>3. QED
      BY <2>1, <3>1, <3>2
  <2>3. QED
    BY <2>1, <2>2, TypesMove
<1>11. CASE UNCHANGED Keyset!keysetVars
  BY <1>11 DEF DirectoryTypes, Keyset!keysetVars
<1>12. QED
  BY <1>1, <1>4, <1>5, <1>6, <1>8, <1>9, <1>10, <1>11 DEF Keyset!Next

\* The directory has its type.
LEMMA KeysetTyped == AccountsSpec => []Keyset!TypeOK
<1>1. ASSUME Keyset!Init
      PROVE  DirectoryTypes
  <2>1. /\ lock = Nobody /\ ordered = {} /\ \A o \in Hands : hand[o] = Keyset!Idle
    BY <1>1 DEF Keyset!Init
  <2>2. \/ manifest = Keyset!Missing /\ Valued(files) /\ drawn = 0
        \/ manifest \in Keyset!Manifest /\ Valued(files) /\ drawn = 1
    BY <1>1, FirstValued DEF Keyset!Init, Valued
  <2>3. drawn \in 0 .. MaxGenerations
    BY <2>2, KeysetAssumption
  <2>4. QED
    BY <2>1, <2>2, <2>3 DEF DirectoryTypes
<1>2. KeysetInv /\ DirectoryTypes => Keyset!TypeOK
  BY DEF KeysetInv, DirectoryTypes, Valued, HandsFit, Keyset!TypeOK
<1>3. QED
  BY <1>1, <1>2, KeysetAlone, InitKeyset, StepKeyset, StepDirectory, PTL DEF Keyset!Spec
-----------------------------------------------------------------------------
(* The types of the throttle.                                              *)

\* A finite set of numbers has a largest one.
LEMMA LargestIs ==
  ASSUME NEW S \in SUBSET Nat, S # {}, IsFiniteSet(S)
  PROVE  AuthThrottle!Latest(S) \in S /\ \A u \in S : u <= AuthThrottle!Latest(S)
<1> DEFINE above(x) == {u \in S : u > x}
           counts == {Cardinality(above(x)) : x \in S}
<1>1. \A x \in S : IsFiniteSet(above(x)) /\ Cardinality(above(x)) \in Nat
  BY FS_Subset, FS_CardinalityType
<1>2. counts \in SUBSET Nat /\ counts # {}
  BY <1>1
<1>3. PICK n \in counts : \A m \in counts : n <= m
  <2> HIDE DEF counts
  <2> QED BY <1>2, LeastNumber
<1>4. PICK x \in S : n = Cardinality(above(x))
  BY <1>3
<1>5. ASSUME NEW u \in S
      PROVE  u <= x
  <2>1. SUFFICES ASSUME u > x PROVE FALSE
    BY <1>4
  <2>2. above(u) \subseteq above(x) /\ u \in above(x) /\ u \notin above(u)
    BY <1>4, <2>1
  <2>3. above(u) \subseteq above(x) \ {u}
    BY <2>2
  <2>4. /\ Cardinality(above(x) \ {u}) = Cardinality(above(x)) - 1 /\ IsFiniteSet(above(x) \ {u})
    <3> HIDE DEF above
    <3> QED BY <1>1, <1>4, <2>2, FS_RemoveElement
  <2>5. Cardinality(above(u)) <= Cardinality(above(x) \ {u})
    <3> HIDE DEF above
    <3> QED BY <2>3, <2>4, FS_Subset
  <2>6. Cardinality(above(u)) \in counts /\ n = Cardinality(above(x))
    BY <1>4
  <2> HIDE DEF above, counts
  <2>7. QED
    BY <1>1, <1>2, <1>3, <1>4, <2>4, <2>5, <2>6
<1>6. \E t \in S : \A u \in S : u <= t
  BY <1>4, <1>5
<1>7. QED
  BY <1>6 DEF AuthThrottle!Latest

\* The longest of the delays is one of them.
LEMMA LongestIs ==
  ASSUME NEW delays \in Seq(Nat), delays # <<>>
  PROVE  /\ AuthThrottle!Longest(delays) \in Nat
         /\ \A i \in 1 .. Len(delays) : delays[i] <= AuthThrottle!Longest(delays)
<1> DEFINE S == {delays[i] : i \in DOMAIN delays}
<1>1. DOMAIN delays = 1 .. Len(delays) /\ Len(delays) \in Nat \ {0}
  BY EmptySeq
<1>2. S \in SUBSET Nat /\ S # {}
  BY <1>1
<1>3. IsFiniteSet(S)
  <2>1. delays \in Surjection(1 .. Len(delays), S)
    BY <1>1 DEF Surjection
  <2>2. IsFiniteSet(1 .. Len(delays))
    BY <1>1, FS_Interval
  <2> HIDE DEF S
  <2>3. QED
    BY <2>1, <2>2, FS_Surjection
<1>4. AuthThrottle!Longest(delays) = AuthThrottle!Latest(S)
  BY DEF AuthThrottle!Longest
<1>5. \A i \in 1 .. Len(delays) : delays[i] \in S
  BY <1>1
<1> HIDE DEF S
<1>6. QED
  BY <1>2, <1>3, <1>4, <1>5, LargestIs

\* How far a block reaches.
Furthest == AuthThrottle!Latest({AuthThrottle!Longest(TargetDelays),
                                 AuthThrottle!Longest(ClientDelays), StormPause})
\* No delay and no pause goes beyond the furthest one.
LEMMA FurthestIs ==
  /\ Furthest \in Nat /\ StormPause <= Furthest
  /\ \A i \in 1 .. Len(TargetDelays) : TargetDelays[i] <= Furthest
  /\ \A i \in 1 .. Len(ClientDelays) : ClientDelays[i] <= Furthest
  /\ AuthThrottle!Dates = 0 .. MaxTime + Furthest
<1> DEFINE a == AuthThrottle!Longest(TargetDelays)
           b == AuthThrottle!Longest(ClientDelays)
           S == {a, b, StormPause}
<1>1. /\ a \in Nat /\ b \in Nat /\ StormPause \in Nat
      /\ \A i \in 1 .. Len(TargetDelays) : TargetDelays[i] <= a
      /\ \A i \in 1 .. Len(ClientDelays) : ClientDelays[i] <= b
  BY LongestIs, ThrottleAssumption
<1>2. Furthest = AuthThrottle!Latest(S)
  BY DEF Furthest
<1>3. AuthThrottle!Dates = 0 .. MaxTime + Furthest
  BY DEF AuthThrottle!Dates, Furthest
<1>4. /\ \A i \in 1 .. Len(TargetDelays) : TargetDelays[i] \in Nat
      /\ \A i \in 1 .. Len(ClientDelays) : ClientDelays[i] \in Nat
  BY ThrottleAssumption
<1> HIDE DEF a, b
<1>5. IsFiniteSet(S)
  <2>1. IsFiniteSet({} \cup {a})
    BY FS_EmptySet, FS_AddElement
  <2>2. IsFiniteSet(({} \cup {a}) \cup {b})
    BY <2>1, FS_AddElement
  <2>3. IsFiniteSet((({} \cup {a}) \cup {b}) \cup {StormPause})
    BY <2>2, FS_AddElement
  <2>4. S = (({} \cup {a}) \cup {b}) \cup {StormPause}
    OBVIOUS
  <2>5. QED
    BY <2>3, <2>4
<1>6. S \in SUBSET Nat /\ S # {} /\ a \in S /\ b \in S /\ StormPause \in S
  BY <1>1
<1> HIDE DEF S
<1>7. Furthest \in Nat /\ a <= Furthest /\ b <= Furthest /\ StormPause <= Furthest
  BY <1>2, <1>5, <1>6, LargestIs
<1>8. QED
  BY <1>1, <1>3, <1>4, <1>7

\* A row whose failures are n at most, and the rows of a scope.
RowOf(n) ==
  [failures : 0 .. n, failedAt : 0 .. MaxTime \cup {Unset}, succeededAt : 0 .. MaxTime \cup {Unset},
   level : 0 .. Len(ClientDelays) - 1, escalatedAt : 0 .. MaxTime \cup {Unset},
   until : 0 .. MaxTime + Furthest \cup {Unset}]
ScopeOf(all, references, n) ==
  DOMAIN all \subseteq references /\ \A k \in DOMAIN all : all[k] \in RowOf(n)

\* The rows of the module are those with no more failures than its bound.
LEMMA RowIs == AuthThrottle!Row = RowOf(MaxAttempts)
BY FurthestIs DEF AuthThrottle!Row, RowOf, AuthThrottle!Times

\* More failures are allowed.
LEMMA RowWider ==
  ASSUME NEW n \in Nat, NEW m \in Nat, n <= m, NEW r \in RowOf(n)
  PROVE  r \in RowOf(m)
<1>1. 0 .. n \subseteq 0 .. m
  OBVIOUS
<1>2. QED
  BY <1>1 DEF RowOf

\* A scope whose rows have fewer failures is one whose rows have more.
LEMMA ScopeWider ==
  ASSUME NEW n \in Nat, NEW m \in Nat, n <= m, NEW all, NEW references, ScopeOf(all, references, n)
  PROVE  ScopeOf(all, references, m)
BY RowWider DEF ScopeOf

\* The writes of a row.
LEMMA RowWrites ==
  ASSUME NEW n \in Nat, NEW r \in RowOf(n), now \in 0 .. MaxTime
  PROVE  /\ AuthThrottle!NewRow \in RowOf(n)
         /\ AuthThrottle!Cleared(r) \in RowOf(n)
         /\ AuthThrottle!Failed(r) \in RowOf(n + 1)
         /\ [r EXCEPT !.failures = 0, !.until = Unset, !.failedAt = Unset] \in RowOf(n)
<1>1. Len(ClientDelays) \in Nat \ {0} /\ Len(TargetDelays) \in Nat \ {0}
  BY ThrottleAssumption, EmptySeq
<1>2. AuthThrottle!NewRow \in RowOf(n)
  BY <1>1 DEF RowOf, AuthThrottle!NewRow
<1>w. \A x \in 0 .. n, y \in 0 .. MaxTime \cup {Unset} :
         /\ [r EXCEPT !.failures = x, !.until = Unset, !.succeededAt = y] \in RowOf(n)
         /\ [r EXCEPT !.failures = x, !.until = Unset, !.failedAt = y] \in RowOf(n)
  BY DEF RowOf
<1>z. 0 \in 0 .. n
  OBVIOUS
<1>3. AuthThrottle!Cleared(r) \in RowOf(n)
  BY <1>w, <1>z DEF AuthThrottle!Cleared
<1>4. [r EXCEPT !.failures = 0, !.until = Unset, !.failedAt = Unset] \in RowOf(n)
  BY <1>w, <1>z
<1>5. AuthThrottle!Failed(r) \in RowOf(n + 1)
  <2>1. PICK failures : failures = 1 + IF AuthThrottle!Since(r.failedAt, Decay) THEN r.failures ELSE 0
    OBVIOUS
  <2>2. PICK i : i = IF failures < Len(TargetDelays) THEN failures ELSE Len(TargetDelays)
    OBVIOUS
  <2>3. PICK until : until = now + TargetDelays[i]
    OBVIOUS
  <2>4. AuthThrottle!Failed(r) = [r EXCEPT !.failures = failures, !.failedAt = now, !.until = until]
    BY <2>1, <2>2, <2>3 DEF AuthThrottle!Failed
  <2>5. failures \in 1 .. n + 1
    <3>1. r.failures \in 0 .. n
      BY DEF RowOf
    <3>2. QED
      BY <2>1, <3>1
  <2>6. i \in 1 .. Len(TargetDelays)
    BY <1>1, <2>2, <2>5
  <2>7. TargetDelays[i] \in Nat /\ TargetDelays[i] <= Furthest
    BY <2>6, ThrottleAssumption, FurthestIs
  <2>8. until \in 0 .. MaxTime + Furthest
    BY <2>3, <2>7, FurthestIs, BoundsAssumption
  <2>9. r \in RowOf(n + 1) /\ failures \in 0 .. n + 1
    BY <2>5, RowWider
  <2>10. [r EXCEPT !.failures = failures, !.failedAt = now, !.until = until] \in RowOf(n + 1)
    BY <2>8, <2>9 DEF RowOf
  <2>11. QED
    BY <2>4, <2>10
<1>6. QED
  BY <1>2, <1>3, <1>4, <1>5

\* A scope of which some rows go, or one is written.
LEMMA ScopePruned ==
  ASSUME NEW all, NEW references, NEW n, ScopeOf(all, references, n), NEW maximum,
         NEW kept \in AuthThrottle!Pruned(all, maximum)
  PROVE  ScopeOf(kept, references, n)
<1>1. PICK gone : kept = AuthThrottle!Restricted(all, AuthThrottle!Fresh(all) \ gone)
  BY DEF AuthThrottle!Pruned
<1>2. AuthThrottle!Fresh(all) \subseteq DOMAIN all
  BY DEF AuthThrottle!Fresh
<1>3. QED
  BY <1>1, <1>2 DEF AuthThrottle!Restricted, ScopeOf

\* A row written under a key leaves a scope.
LEMMA ScopeWritten ==
  ASSUME NEW all, NEW references, NEW n, ScopeOf(all, references, n), NEW key \in references,
         NEW r \in RowOf(n)
  PROVE  ScopeOf(AuthThrottle!With(all, key, r), references, n)
BY DEF ScopeOf, AuthThrottle!With

\* What an outcome leaves of a scope.
LEMMA ScopeOutcomes ==
  ASSUME NEW n \in Nat, NEW all, NEW references, ScopeOf(all, references, n),
         NEW key \in references, NEW outcome \in {"success", "invalid", "upstream"},
         NEW after \in AuthThrottle!Outcomes(all, key, outcome), now \in 0 .. MaxTime
  PROVE  ScopeOf(after, references, n + 1)
<1>1. ScopeOf(all, references, n + 1)
  BY ScopeWider
<1>2. CASE outcome = "success" /\ key \in DOMAIN all
  <2>1. after = AuthThrottle!With(all, key, AuthThrottle!Cleared(all[key]))
    BY <1>2 DEF AuthThrottle!Outcomes
  <2>2. AuthThrottle!Cleared(all[key]) \in RowOf(n)
    BY <1>2, RowWrites DEF ScopeOf
  <2>3. AuthThrottle!Cleared(all[key]) \in RowOf(n + 1)
    BY <2>2, RowWider
  <2>4. QED
    BY <1>1, <2>1, <2>3, ScopeWritten
<1>3. CASE outcome = "invalid" /\ key \in DOMAIN all
  <2>1. after = AuthThrottle!With(all, key, AuthThrottle!Failed(all[key]))
    BY <1>3 DEF AuthThrottle!Outcomes
  <2>2. AuthThrottle!Failed(all[key]) \in RowOf(n + 1)
    BY <1>3, RowWrites DEF ScopeOf
  <2>3. QED
    BY <1>1, <2>1, <2>2, ScopeWritten
<1>4. CASE outcome = "invalid" /\ key \notin DOMAIN all
  <2>1. PICK kept \in AuthThrottle!Pruned(all, MaxTargetStates) :
           after = kept \/ after = AuthThrottle!With(kept, key, AuthThrottle!Failed(AuthThrottle!NewRow))
    BY <1>4 DEF AuthThrottle!Outcomes
  <2>2. ScopeOf(kept, references, n + 1)
    BY <1>1, ScopePruned
  <2>3. AuthThrottle!NewRow \in RowOf(n)
    BY ThrottleAssumption, EmptySeq DEF RowOf, AuthThrottle!NewRow
  <2>4. AuthThrottle!Failed(AuthThrottle!NewRow) \in RowOf(n + 1)
    BY <2>3, RowWrites
  <2>5. QED
    BY <2>1, <2>2, <2>4, ScopeWritten
<1>5. CASE /\ ~(outcome = "success" /\ key \in DOMAIN all)
           /\ ~(outcome = "invalid" /\ key \in DOMAIN all)
           /\ ~(outcome = "invalid" /\ key \notin DOMAIN all)
  <2>1. after = all
    BY <1>5 DEF AuthThrottle!Outcomes
  <2>2. QED
    BY <1>1, <2>1
<1>6. QED
  BY <1>2, <1>3, <1>4, <1>5

\* No row has more failures than there were attempts.
ThrottleTypes ==
  /\ now \in 0 .. MaxTime
  /\ attempts \in Seq(AuthThrottle!Attempt) /\ Len(attempts) <= MaxAttempts
  /\ ScopeOf(targetRows, Targets, Len(attempts))
  /\ ScopeOf(pairRows, Targets \X Clients, Len(attempts))
  /\ ScopeOf(clientRows, Clients, Len(attempts))
  /\ systemUntil \in 0 .. MaxTime + Furthest \cup {Unset}

\* A client that is blocked gets a row of its type.
LEMMA ScopeEscalated ==
  ASSUME ThrottleTypes, NEW t, NEW c \in Clients, AuthThrottle!Escalate(t, c)
  PROVE  ScopeOf(clientRows', Clients, Len(attempts))
<1>n. PICK n : n = Len(attempts)
  OBVIOUS
<1>1. n \in Nat /\ now \in 0 .. MaxTime /\ ScopeOf(clientRows, Clients, n)
  BY <1>n DEF ThrottleTypes
<1>2. PICK kept, r, level :
        /\ kept \in AuthThrottle!Pruned(clientRows, MaxClientStates)
        /\ r = IF c \in DOMAIN kept THEN kept[c] ELSE AuthThrottle!NewRow
        /\ level = IF ~AuthThrottle!Since(r.escalatedAt, Quiet) THEN 0
                   ELSE IF r.level < Len(ClientDelays) - 1 THEN r.level + 1
                   ELSE Len(ClientDelays) - 1
        /\ clientRows' = AuthThrottle!With(kept, c,
             [r EXCEPT !.level = level, !.escalatedAt = now,
                         !.until = now + ClientDelays[level + 1]])
  BY DEF AuthThrottle!Escalate
<1>3. ScopeOf(kept, Clients, n)
  BY <1>1, <1>2, ScopePruned
<1>4. Len(ClientDelays) \in Nat \ {0}
  BY ThrottleAssumption, EmptySeq
<1>5. r \in RowOf(n)
  <2>1. AuthThrottle!NewRow \in RowOf(n)
    BY <1>1, <1>4 DEF AuthThrottle!NewRow, RowOf
  <2>2. QED
    BY <1>2, <1>3, <2>1 DEF ScopeOf
<1>6. level \in 0 .. Len(ClientDelays) - 1
  <2>1. r.level \in 0 .. Len(ClientDelays) - 1
    BY <1>5 DEF RowOf
  <2>2. QED
    BY <1>2, <1>4, <2>1
<1>7. PICK until : until = now + ClientDelays[level + 1]
  OBVIOUS
<1>8. until \in 0 .. MaxTime + Furthest
  <2>1. level + 1 \in 1 .. Len(ClientDelays)
    BY <1>4, <1>6
  <2>2. ClientDelays[level + 1] \in Nat /\ ClientDelays[level + 1] <= Furthest
    BY <2>1, ThrottleAssumption, FurthestIs
  <2>3. QED
    BY <1>1, <1>7, <2>2, FurthestIs, BoundsAssumption
<1>9. [r EXCEPT !.level = level, !.escalatedAt = now, !.until = until] \in RowOf(n)
  BY <1>1, <1>5, <1>6, <1>8 DEF RowOf
<1>10. ScopeOf(clientRows', Clients, n)
  BY <1>2, <1>3, <1>7, <1>9, ScopeWritten
<1>11. QED
  BY <1>n, <1>10

\* An administrator who lifts a waiting time leaves rows of their type.
LEMMA ScopesLifted ==
  ASSUME ThrottleTypes, NEW t, AuthThrottle!ClearTargetCooldown(t)
  PROVE  /\ ScopeOf(targetRows', Targets, Len(attempts))
         /\ ScopeOf(pairRows', Targets \X Clients, Len(attempts))
<1>n. PICK n : n = Len(attempts)
  OBVIOUS
<1>1. /\ n \in Nat /\ now \in 0 .. MaxTime
      /\ ScopeOf(targetRows, Targets, n) /\ ScopeOf(pairRows, Targets \X Clients, n)
  BY <1>n DEF ThrottleTypes
<1>2. ScopeOf(pairRows', Targets \X Clients, n)
  BY <1>1 DEF AuthThrottle!ClearTargetCooldown, AuthThrottle!Restricted, ScopeOf
<1>3. CASE t \in DOMAIN targetRows
  <2>1. PICK r : r = [targetRows[t] EXCEPT !.failures = 0, !.until = Unset, !.failedAt = Unset]
    OBVIOUS
  <2>2. targetRows' = [targetRows EXCEPT ![t] = r]
    BY <1>3, <2>1 DEF AuthThrottle!ClearTargetCooldown
  <2>3. r \in RowOf(n)
    BY <1>1, <1>3, <2>1, RowWrites DEF ScopeOf
  <2>4. ScopeOf(targetRows', Targets, n)
    BY <1>1, <2>2, <2>3 DEF ScopeOf
  <2>5. QED
    BY <1>n, <1>2, <2>4
<1>4. CASE t \notin DOMAIN targetRows
  <2>1. targetRows' = targetRows
    BY <1>4 DEF AuthThrottle!ClearTargetCooldown
  <2>2. QED
    BY <1>n, <1>1, <1>2, <2>1
<1>5. QED
  BY <1>3, <1>4

\* Every step keeps the types of the throttle.
LEMMA StepThrottleTypes ==
  /\ ThrottleInv /\ ThrottleTypes /\ [AuthThrottle!Next]_(AuthThrottle!throttleVars)
  => ThrottleTypes'
<1> SUFFICES ASSUME ThrottleInv, ThrottleTypes,
                    [AuthThrottle!Next]_(AuthThrottle!throttleVars)
             PROVE  ThrottleTypes'
  OBVIOUS
<1>1. ASSUME UNCHANGED <<now, attempts, targetRows, pairRows, clientRows, systemUntil>>
      PROVE  ThrottleTypes'
  BY <1>1 DEF ThrottleTypes
<1>2. ASSUME NEW t \in Targets, NEW c \in Clients, AuthThrottle!Escalate(t, c)
      PROVE  ThrottleTypes'
  <2>1. UNCHANGED <<now, attempts, targetRows, pairRows, systemUntil>>
    BY <1>2 DEF AuthThrottle!Escalate
  <2>2. ScopeOf(clientRows', Clients, Len(attempts))
    BY <1>2, ScopeEscalated
  <2>3. QED
    BY <2>1, <2>2 DEF ThrottleTypes
<1>3. ASSUME NEW t \in Targets, AuthThrottle!ClearTargetCooldown(t)
      PROVE  ThrottleTypes'
  <2>1. UNCHANGED <<now, attempts, clientRows, systemUntil>>
    BY <1>3 DEF AuthThrottle!ClearTargetCooldown
  <2>2. /\ ScopeOf(targetRows', Targets, Len(attempts))
        /\ ScopeOf(pairRows', Targets \X Clients, Len(attempts))
    BY <1>3, ScopesLifted
  <2>3. QED
    BY <2>1, <2>2 DEF ThrottleTypes
<1>4. ASSUME NEW l \in Logins, NEW outcome \in {"success", "invalid", "upstream"},
             AuthThrottle!Record(l, outcome)
      PROVE  ThrottleTypes'
  <2>1. PICK login, n : login = logins[l] /\ n = Len(attempts)
    OBVIOUS
  <2>2. login.target \in Targets /\ login.client \in Clients
    <3>1. login.phase = "running"
      BY <1>4, <2>1 DEF AuthThrottle!Record
    <3>2. login # AuthThrottle!Idle
      BY <3>1 DEF AuthThrottle!Idle
    <3>3. QED
      BY <2>1, <3>2 DEF ThrottleInv, Checked
  <2>3. PICK entry : entry = [target |-> login.target, client |-> login.client,
                              outcome |-> outcome, at |-> now]
    OBVIOUS
  <2>4. /\ n < MaxAttempts /\ attempts' = Append(attempts, entry)
        /\ targetRows' \in AuthThrottle!Outcomes(targetRows, login.target, outcome)
        /\ pairRows' \in AuthThrottle!Outcomes(pairRows, <<login.target, login.client>>, outcome)
        /\ systemUntil' = now + StormPause \/ systemUntil' = systemUntil
        /\ UNCHANGED <<now, clientRows>>
    BY <1>4, <2>1, <2>3 DEF AuthThrottle!Record
  <2>5. /\ now \in 0 .. MaxTime /\ attempts \in Seq(AuthThrottle!Attempt) /\ n \in Nat
        /\ ScopeOf(targetRows, Targets, n) /\ ScopeOf(pairRows, Targets \X Clients, n)
        /\ ScopeOf(clientRows, Clients, n)
    BY <2>1 DEF ThrottleTypes
  <2>6. entry \in AuthThrottle!Attempt
    BY <2>2, <2>3, <2>5 DEF AuthThrottle!Attempt, AuthThrottle!Times
  <2>7. attempts' \in Seq(AuthThrottle!Attempt) /\ Len(attempts') = n + 1
    BY <2>1, <2>4, <2>5, <2>6
  <2>8. ScopeOf(targetRows', Targets, n + 1)
    BY <2>2, <2>4, <2>5, ScopeOutcomes
  <2>9. ScopeOf(pairRows', Targets \X Clients, n + 1)
    <3>1. <<login.target, login.client>> \in Targets \X Clients
      BY <2>2
    <3>2. QED
      BY <2>4, <2>5, <3>1, ScopeOutcomes
  <2>10. ScopeOf(clientRows', Clients, n + 1)
    <3>1. n + 1 \in Nat /\ n <= n + 1
      BY <2>5
    <3>2. ScopeOf(clientRows, Clients, n + 1)
      BY <2>5, <3>1, ScopeWider
    <3>3. QED
      BY <2>4, <3>2
  <2>11. systemUntil' \in 0 .. MaxTime + Furthest \cup {Unset}
    <3>1. now + StormPause \in 0 .. MaxTime + Furthest
      <4>1. StormPause \in Nat /\ Furthest \in Nat /\ StormPause <= Furthest /\ MaxTime \in Nat
        BY FurthestIs, BoundsAssumption, ThrottleAssumption
      <4>2. now \in 0 .. MaxTime
        BY <2>5
      <4>3. QED
        BY <4>1, <4>2
    <3>2. QED
      BY <2>4, <3>1 DEF ThrottleTypes
  <2>12. Len(attempts') <= MaxAttempts
    BY <2>4, <2>5, <2>7, BoundsAssumption
  <2>13. now' \in 0 .. MaxTime
    BY <2>4, <2>5
  <2>14. QED
    BY <2>7, <2>8, <2>9, <2>10, <2>11, <2>12, <2>13 DEF ThrottleTypes
<1>5. CASE AuthThrottle!Tick
  <2>1. /\ now' = now + 1 /\ now < MaxTime
        /\ UNCHANGED <<attempts, targetRows, pairRows, clientRows, systemUntil>>
    BY <1>5 DEF AuthThrottle!Tick
  <2>2. now' \in 0 .. MaxTime
    BY <2>1, BoundsAssumption DEF ThrottleTypes
  <2>3. QED
    BY <2>1, <2>2 DEF ThrottleTypes
<1>6. ASSUME NEW l, NEW t, NEW c, AuthThrottle!Allow(l, t, c)
      PROVE  ThrottleTypes'
  BY <1>1, <1>6 DEF AuthThrottle!Allow
<1>7. ASSUME NEW l, AuthThrottle!Reserve(l) \/ AuthThrottle!RefusedByGateway(l)
      PROVE  ThrottleTypes'
  BY <1>1, <1>7 DEF AuthThrottle!Reserve, AuthThrottle!RefusedByGateway
<1>8. CASE UNCHANGED AuthThrottle!throttleVars
  BY <1>1, <1>8 DEF AuthThrottle!throttleVars
<1>9. QED
  BY <1>2, <1>3, <1>4, <1>5, <1>6, <1>7, <1>8 DEF AuthThrottle!Next

\* The throttle has its types.
LEMMA ThrottleTyped == AccountsSpec => []AuthThrottle!TypeOK
<1>1. ASSUME AuthThrottle!Init
      PROVE  ThrottleTypes
  <2>1. /\ now = 0 /\ attempts = <<>> /\ targetRows = <<>> /\ pairRows = <<>>
        /\ clientRows = <<>> /\ systemUntil = Unset
    BY <1>1 DEF AuthThrottle!Init
  <2>2. attempts \in Seq(AuthThrottle!Attempt) /\ Len(attempts) = 0
    BY <2>1
  <2>3. DOMAIN targetRows = {} /\ DOMAIN pairRows = {} /\ DOMAIN clientRows = {}
    BY <2>1
  <2>4. QED
    BY <2>1, <2>2, <2>3, BoundsAssumption DEF ThrottleTypes, ScopeOf
<1>2. ASSUME ThrottleInv, ThrottleTypes
      PROVE  AuthThrottle!TypeOK
  <2>1. Len(attempts) \in Nat /\ Len(attempts) <= MaxAttempts
    BY <1>2 DEF ThrottleTypes
  <2>2. /\ ScopeOf(targetRows, Targets, MaxAttempts)
        /\ ScopeOf(pairRows, Targets \X Clients, MaxAttempts)
        /\ ScopeOf(clientRows, Clients, MaxAttempts)
    BY <1>2, <2>1, ScopeWider, BoundsAssumption DEF ThrottleTypes
  <2>3. /\ AuthThrottle!AreRows(targetRows, Targets)
        /\ AuthThrottle!AreRows(pairRows, Targets \X Clients)
        /\ AuthThrottle!AreRows(clientRows, Clients)
    BY <2>2, RowIs DEF ScopeOf, AuthThrottle!AreRows
  <2>4. \A l \in Logins : logins[l] = AuthThrottle!Idle \/
          logins[l] \in [phase : {"checked", "running"}, target : Targets, client : Clients]
    BY <1>2 DEF ThrottleInv, Checked
  <2>5. systemUntil \in AuthThrottle!Dates \cup {Unset} /\ now \in AuthThrottle!Times
    BY <1>2, FurthestIs DEF ThrottleTypes, AuthThrottle!Times
  <2>6. attempts \in Seq(AuthThrottle!Attempt) /\ Len(attempts) <= MaxAttempts
    BY <1>2 DEF ThrottleTypes
  <2>7. QED
    BY <2>3, <2>4, <2>5, <2>6 DEF AuthThrottle!TypeOK
<1>3. QED
  BY <1>1, <1>2, ThrottleAlone, InitThrottle, StepThrottle, StepThrottleTypes, PTL
  DEF AuthThrottle!ThrottleSpec
-----------------------------------------------------------------------------
(* The types of the accesses.                                              *)

\* A request carries what it was let through with.
LetThrough(q) ==
  /\ q.kind \in {"imt", "token", "passkey"} => q.born \in 0 .. MaxMoves
  /\ q.kind = "token" => q.factor \in Access!Token
  /\ q.kind = "passkey" => q.factor \in Access!Passkey /\ q.challenge \in Challenges
  /\ q.kind \in {"create_token", "register"} => q.session \in Access!Session

\* The factors, the sessions and their owner; each revocation moved the generation.
AccessTypes ==
  /\ sessions \subseteq Access!Session /\ tokens \subseteq Access!Token
  /\ passkeys \subseteq Access!Passkey /\ challenges \subseteq Challenges
  /\ serial \in 0 .. MaxObjects
  /\ person.generation <= MaxMoves + 1
  /\ person.exists = TRUE => revocations + 1 <= person.generation
  /\ person.exists = FALSE => revocations = 0
  /\ \A r \in Requests : LetThrough(requests[r])

\* Revocations are bounded by the moves of the generation.
LEMMA RevocationsFit ==
  ASSUME AccessInv, AccessTypes
  PROVE  revocations \in 0 .. MaxMoves /\ person.generation \in Access!Generation
<1>1. person.generation \in Nat /\ revocations \in Nat /\ MaxMoves \in Nat
      /\ person.exists \in BOOLEAN
  BY BoundsAssumption DEF AccessInv, Person
<1>2. QED
  BY <1>1 DEF AccessTypes, Access!Generation

\* A session opened on what was checked has its type.
LEMMA OpenedTyped ==
  ASSUME AccessTypes, Access!Fits, NEW method \in {"imt", "passkey", "token"},
         NEW factor \in 0 .. MaxObjects, NEW challenge \in Challenges \cup {0},
         NEW generation \in Access!Generation, NEW born \in 0 .. MaxMoves
  PROVE  Access!NewSession(method, factor, challenge, generation, born) \in Access!Session
<1>1. serial + 1 \in 1 .. MaxObjects
  BY BoundsAssumption DEF AccessTypes, Access!Fits
<1>2. QED
  BY <1>1 DEF Access!NewSession, Access!Session, Access!None

\* What an insertion writes has its type when the session has.
LEMMA InsertedTyped ==
  ASSUME AccessTypes, NEW s \in Access!Session, Access!Inserted(s)
  PROVE  sessions' \subseteq Access!Session /\ serial' \in 0 .. MaxObjects
<1>1. serial' = serial + 1 /\ \A x \in sessions' : x = s \/ x \in sessions
  BY InsertedWhich
<1>2. serial < MaxObjects
  BY DEF Access!Inserted, Access!Fits
<1>3. QED
  BY <1>1, <1>2, BoundsAssumption DEF AccessTypes

\* A stamp changes the generation of what it is put on, and nothing else.
LEMMA StampTyped ==
  ASSUME NEW generation \in Access!Generation
  PROVE  /\ \A set : set \subseteq Access!Session => Access!Stamped(set, generation) \subseteq Access!Session
         /\ \A set : set \subseteq Access!Token => Access!Stamped(set, generation) \subseteq Access!Token
         /\ \A set : set \subseteq Access!Passkey => Access!Stamped(set, generation) \subseteq Access!Passkey
<1>1. \A x \in Access!Session : [x EXCEPT !.generation = generation] \in Access!Session
  BY DEF Access!Session
<1>2. \A x \in Access!Token : [x EXCEPT !.generation = generation] \in Access!Token
  BY DEF Access!Token
<1>3. \A x \in Access!Passkey : [x EXCEPT !.generation = generation] \in Access!Passkey
  BY DEF Access!Passkey
<1>4. QED
  BY <1>1, <1>2, <1>3 DEF Access!Stamped

\* A token keeps its type when it is revoked.
LEMMA RevokedTyped == \A t \in Access!Token : [t EXCEPT !.revoked = TRUE] \in Access!Token
BY DEF Access!Token

\* Every step keeps the types of the accesses.
LEMMA StepAccessTypes ==
  AccessInv /\ AccessTypes /\ [Access!Next]_(Access!vars) => AccessTypes'
<1> SUFFICES ASSUME AccessInv, AccessTypes, [Access!Next]_(Access!vars)
             PROVE  AccessTypes'
  OBVIOUS
<1>t. /\ person \in Person /\ person.generation \in Nat /\ person.exists \in BOOLEAN
      /\ revocations \in 0 .. MaxMoves /\ revocations \in Nat
      /\ person.generation \in Access!Generation
      /\ person.exists = TRUE => person.generation >= 1
      /\ requests = [r \in Requests |-> requests[r]]
      /\ MaxObjects \in Nat /\ MaxMoves \in Nat
  BY RevocationsFit, BoundsAssumption DEF AccessInv, Person
\* The person and the revocations keep their bounds.
<1> DEFINE Owner(p, n) == /\ p.generation <= MaxMoves + 1
                          /\ p.exists = TRUE => n + 1 <= p.generation
                          /\ p.exists = FALSE => n = 0
<1>o. Owner(person, revocations)
  BY DEF AccessTypes
<1> HIDE DEF Owner
\* A request begins.
<1>b. ASSUME NEW r \in Requests, NEW q, Access!Begin(r, q), LetThrough(q),
             UNCHANGED <<person, sessions, tokens, passkeys, serial, revocations>>,
             challenges' \subseteq challenges
      PROVE  AccessTypes'
  <2>1. \A v \in Requests : requests'[v] = requests[v] \/ requests'[v] = q
    BY <1>b, <1>t DEF Access!Begin
  <2>2. \A v \in Requests : LetThrough(requests'[v])
    BY <1>b, <2>1 DEF AccessTypes
  <2>3. QED
    BY <1>b, <2>2 DEF AccessTypes, LetThrough
\* A request ends.
<1>e. ASSUME NEW r \in Requests, Access!End(r),
             sessions' \subseteq Access!Session, tokens' \subseteq Access!Token,
             passkeys' \subseteq Access!Passkey, challenges' \subseteq Challenges,
             serial' \in 0 .. MaxObjects, Owner(person', revocations')
      PROVE  AccessTypes'
  <2>1. \A v \in Requests : requests'[v] = requests[v] \/ requests'[v] = Access!Free
    BY <1>e, <1>t DEF Access!End
  <2>2. LetThrough(Access!Free)
    BY DEF LetThrough, Access!Free
  <2>3. \A v \in Requests : LetThrough(requests'[v])
    BY <2>1, <2>2 DEF AccessTypes
  <2>4. QED
    BY <1>e, <2>3 DEF AccessTypes, LetThrough, Owner
\* No request moves.
<1>u. ASSUME UNCHANGED <<requests, challenges, serial>>,
             sessions' \subseteq Access!Session, tokens' \subseteq Access!Token,
             passkeys' \subseteq Access!Passkey, Owner(person', revocations')
      PROVE  AccessTypes'
  BY <1>u DEF AccessTypes, LetThrough, Owner
<1>1. ASSUME NEW r \in Requests, Access!CaptureAuthority(r)
      PROVE  AccessTypes'
  <2>1. PICK q : /\ q = [kind |-> "imt", first |-> ~person.exists,
                         generation |-> person.generation, born |-> revocations]
                 /\ Access!Begin(r, q)
                 /\ UNCHANGED <<person, sessions, tokens, passkeys, challenges, serial, revocations>>
    BY <1>1 DEF Access!CaptureAuthority
  <2>2. LetThrough(q)
    BY <1>t, <2>1 DEF LetThrough
  <2>3. QED
    BY <1>b, <2>1, <2>2
<1>2. ASSUME NEW r \in Requests, Access!FinalizeLogin(r)
      PROVE  AccessTypes'
  <2>1. PICK p : /\ p = (IF person.exists THEN person
                         ELSE [person EXCEPT !.exists = TRUE, !.generation = 1, !.imports = @ + 1])
                 /\ person' = p
                 /\ requests[r].kind = "imt"
                 /\ Access!Inserted(Access!NewSession("imt", 0, 0, p.generation, requests[r].born))
    BY <1>2 DEF Access!FinalizeLogin, Access!None
  <2>2. /\ Access!End(r) /\ Access!Fits
        /\ UNCHANGED <<tokens, passkeys, challenges, revocations>>
    BY <1>2 DEF Access!FinalizeLogin, Access!Inserted
  <2>3. p.generation \in Access!Generation /\ Owner(p, revocations)
    <3>1. CASE person.exists = TRUE
      BY <1>t, <1>o, <2>1, <3>1
    <3>2. CASE person.exists = FALSE
      <4>1. p.exists = TRUE /\ p.generation = 1 /\ revocations = 0
        BY <1>t, <2>1, <3>2 DEF Person, AccessTypes
      <4>2. 1 <= MaxMoves + 1 /\ 1 \in 0 .. MaxMoves + 1 /\ revocations + 1 <= 1
        BY <1>t, <4>1
      <4>3. QED
        BY <4>1, <4>2 DEF Owner, Access!Generation
    <3>3. QED
      BY <1>t, <3>1, <3>2
  <2>4. requests[r].born \in 0 .. MaxMoves /\ 0 \in 0 .. MaxObjects
    BY <1>t, <2>1 DEF AccessTypes, LetThrough
  <2>5. Access!NewSession("imt", 0, 0, p.generation, requests[r].born) \in Access!Session
    BY <2>2, <2>3, <2>4, OpenedTyped
  <2>6. sessions' \subseteq Access!Session /\ serial' \in 0 .. MaxObjects
    BY <2>1, <2>5, InsertedTyped
  <2>7. QED
    BY <1>e, <2>1, <2>2, <2>3, <2>6 DEF AccessTypes
<1>3. ASSUME NEW r \in Requests, Access!RejectLogin(r)
      PROVE  AccessTypes'
  BY <1>3, <1>e, <1>o DEF Access!RejectLogin, AccessTypes
<1>4. ASSUME NEW r \in Requests, NEW t \in tokens, Access!CheckToken(r, t)
      PROVE  AccessTypes'
  <2>1. PICK q : /\ q = [kind |-> "token", factor |-> t, born |-> revocations]
                 /\ Access!Begin(r, q)
                 /\ UNCHANGED <<person, sessions, tokens, passkeys, challenges, serial, revocations>>
    BY <1>4 DEF Access!CheckToken
  <2>2. t \in Access!Token
    BY DEF AccessTypes
  <2>3. LetThrough(q)
    BY <1>t, <2>1, <2>2 DEF LetThrough
  <2>4. QED
    BY <1>b, <2>1, <2>3
<1>5. ASSUME NEW r \in Requests, Access!InsertTokenSession(r)
      PROVE  AccessTypes'
  <2>1. /\ requests[r].kind = "token" /\ Access!End(r)
        /\ UNCHANGED <<person, tokens, passkeys, challenges, revocations>>
        /\ \/ UNCHANGED <<sessions, serial>>
           \/ Access!Inserted(Access!NewSession("token", requests[r].factor.id, 0,
                                requests[r].factor.generation, requests[r].born))
    BY <1>5 DEF Access!InsertTokenSession, Access!None
  <2>2. requests[r].factor \in Access!Token /\ requests[r].born \in 0 .. MaxMoves
    BY <2>1 DEF AccessTypes, LetThrough
  <2>3. /\ requests[r].factor.id \in 0 .. MaxObjects
        /\ requests[r].factor.generation \in Access!Generation
    BY <1>t, <2>2 DEF Access!Token
  <2>4. CASE UNCHANGED <<sessions, serial>>
    BY <1>e, <1>o, <2>1, <2>4 DEF AccessTypes
  <2>5. CASE Access!Inserted(Access!NewSession("token", requests[r].factor.id, 0,
                                requests[r].factor.generation, requests[r].born))
    <3>1. Access!Fits
      BY <2>5 DEF Access!Inserted
    <3>2. Access!NewSession("token", requests[r].factor.id, 0,
                            requests[r].factor.generation, requests[r].born) \in Access!Session
      BY <2>2, <2>3, <3>1, OpenedTyped
    <3>3. sessions' \subseteq Access!Session /\ serial' \in 0 .. MaxObjects
      BY <2>5, <3>2, InsertedTyped
    <3>4. QED
      BY <1>e, <1>o, <2>1, <3>3 DEF AccessTypes
  <2>6. QED
    BY <2>1, <2>4, <2>5
<1>6. ASSUME NEW r \in Requests, NEW c \in Challenges, NEW p \in passkeys,
             Access!CheckPasskey(r, c, p)
      PROVE  AccessTypes'
  <2>1. /\ challenges' \subseteq challenges
        /\ UNCHANGED <<person, sessions, tokens, passkeys, serial, revocations>>
    BY <1>6 DEF Access!CheckPasskey, Access!Consumed
  <2>2. CASE UNCHANGED requests
    BY <2>1, <2>2 DEF AccessTypes, LetThrough
  <2>3. CASE Access!Begin(r, [kind |-> "passkey", factor |-> p, challenge |-> c,
                              born |-> revocations])
    <3>1. PICK q : /\ q = [kind |-> "passkey", factor |-> p, challenge |-> c, born |-> revocations]
                   /\ Access!Begin(r, q)
      BY <2>3
    <3>2. p \in Access!Passkey
      BY DEF AccessTypes
    <3>3. LetThrough(q)
      BY <1>t, <3>1, <3>2 DEF LetThrough
    <3>4. QED
      BY <1>b, <2>1, <3>1, <3>3
  <2>4. QED
    BY <1>6, <2>2, <2>3 DEF Access!CheckPasskey
<1>7. ASSUME NEW r \in Requests, Access!InsertPasskeySession(r)
      PROVE  AccessTypes'
  <2> DEFINE opened == Access!NewSession("passkey", requests[r].factor.id, requests[r].challenge,
                                         requests[r].factor.generation, requests[r].born)
  <2>1. /\ requests[r].kind = "passkey" /\ Access!End(r)
        /\ UNCHANGED <<person, tokens, passkeys, revocations>>
        /\ \/ Access!Inserted(opened) /\ UNCHANGED challenges
           \/ /\ challenges' = challenges \cup {requests[r].challenge}
              /\ UNCHANGED <<sessions, serial>>
    BY <1>7 DEF Access!InsertPasskeySession
  <2>2. /\ requests[r].factor \in Access!Passkey /\ requests[r].born \in 0 .. MaxMoves
        /\ requests[r].challenge \in Challenges
    BY <2>1 DEF AccessTypes, LetThrough
  <2>3. /\ requests[r].factor.id \in 0 .. MaxObjects
        /\ requests[r].factor.generation \in Access!Generation
    BY <1>t, <2>2 DEF Access!Passkey
  <2>4. ASSUME Access!Inserted(opened), UNCHANGED challenges
        PROVE  AccessTypes'
    <3>1. Access!Fits
      BY <2>4 DEF Access!Inserted
    <3>2. opened \in Access!Session
      BY <2>2, <2>3, <3>1, OpenedTyped
    <3>3. sessions' \subseteq Access!Session /\ serial' \in 0 .. MaxObjects
      BY <2>4, <3>2, InsertedTyped
    <3>4. QED
      BY <1>e, <1>o, <2>1, <2>4, <3>3 DEF AccessTypes
  <2> HIDE DEF opened
  <2>5. ASSUME challenges' = challenges \cup {requests[r].challenge}, UNCHANGED <<sessions, serial>>
        PROVE  AccessTypes'
    <3>1. challenges' \subseteq Challenges
      BY <2>2, <2>5 DEF AccessTypes
    <3>2. QED
      BY <1>e, <1>o, <2>1, <2>5, <3>1 DEF AccessTypes
  <2>6. QED
    BY <2>1, <2>4, <2>5
<1>8. ASSUME NEW r \in Requests, NEW s \in sessions, NEW kind \in {"create_token", "register"},
             Access!AskFactor(r, s, kind)
      PROVE  AccessTypes'
  <2>1. PICK q : /\ q = [kind |-> kind, session |-> s] /\ Access!Begin(r, q)
                 /\ UNCHANGED <<person, sessions, tokens, passkeys, challenges, serial, revocations>>
    BY <1>8 DEF Access!AskFactor
  <2>2. LetThrough(q)
    BY <2>1 DEF LetThrough, AccessTypes
  <2>3. QED
    BY <1>b, <2>1, <2>2
<1>9. ASSUME NEW r \in Requests, Access!CreateToken(r)
      PROVE  AccessTypes'
  <2>1. /\ requests[r].kind = "create_token" /\ Access!Fits /\ Access!End(r)
        /\ UNCHANGED <<person, passkeys, challenges, revocations>>
    BY <1>9 DEF Access!CreateToken
  <2>2. \/ /\ tokens' = (tokens \ Access!Stale) \cup
                          {[id |-> serial + 1, revoked |-> FALSE,
                            generation |-> requests[r].session.generation]}
           /\ sessions' \subseteq sessions /\ serial' = serial + 1
        \/ UNCHANGED <<tokens, sessions, serial>>
    BY <1>9 DEF Access!CreateToken
  <2>3. requests[r].session.generation \in Access!Generation /\ serial + 1 \in 1 .. MaxObjects
    BY <1>t, <2>1 DEF AccessTypes, LetThrough, Access!Session, Access!Fits
  <2>4. [id |-> serial + 1, revoked |-> FALSE,
         generation |-> requests[r].session.generation] \in Access!Token
    BY <2>3 DEF Access!Token
  <2>5. /\ tokens' \subseteq Access!Token /\ sessions' \subseteq Access!Session
        /\ serial' \in 0 .. MaxObjects
    <3>1. CASE UNCHANGED <<tokens, sessions, serial>>
      BY <3>1 DEF AccessTypes
    <3>2. CASE /\ tokens' = (tokens \ Access!Stale) \cup
                               {[id |-> serial + 1, revoked |-> FALSE,
                                 generation |-> requests[r].session.generation]}
               /\ sessions' \subseteq sessions /\ serial' = serial + 1
      <4>1. serial' \in 0 .. MaxObjects
        BY <1>t, <2>3, <3>2
      <4>2. tokens' \subseteq Access!Token
        BY <2>4, <3>2 DEF AccessTypes
      <4>3. QED
        BY <3>2, <4>1, <4>2 DEF AccessTypes
    <3>3. QED
      BY <2>2, <3>1, <3>2
  <2>6. QED
    BY <1>e, <1>o, <2>1, <2>5 DEF AccessTypes
<1>10. ASSUME NEW r \in Requests, Access!RegisterPasskey(r)
       PROVE  AccessTypes'
  <2>1. /\ requests[r].kind = "register" /\ Access!Fits /\ Access!End(r)
        /\ UNCHANGED <<person, sessions, tokens, challenges, revocations>>
        /\ passkeys' = passkeys \cup {[id |-> serial + 1,
                                       generation |-> requests[r].session.generation]}
        /\ serial' = serial + 1
    BY <1>10 DEF Access!RegisterPasskey
  <2>2. requests[r].session.generation \in Access!Generation /\ serial + 1 \in 1 .. MaxObjects
    BY <1>t, <2>1 DEF AccessTypes, LetThrough, Access!Session, Access!Fits
  <2>3. [id |-> serial + 1, generation |-> requests[r].session.generation] \in Access!Passkey
    BY <2>2 DEF Access!Passkey
  <2>4. passkeys' \subseteq Access!Passkey /\ serial' \in 0 .. MaxObjects
    BY <1>t, <2>1, <2>2, <2>3 DEF AccessTypes
  <2>5. QED
    BY <1>e, <1>o, <2>1, <2>4 DEF AccessTypes
<1>11. CASE Access!ListTokens
  BY <1>11, <1>u, <1>o DEF Access!ListTokens, AccessTypes
<1>12. ASSUME NEW t \in tokens, Access!RevokeToken(t)
       PROVE  AccessTypes'
  <2>1. /\ tokens' = (tokens \ {t}) \cup {[t EXCEPT !.revoked = TRUE]}
        /\ sessions' \subseteq sessions
        /\ UNCHANGED <<person, passkeys, challenges, requests, serial, revocations>>
    BY <1>12 DEF Access!RevokeToken
  <2>2. tokens' \subseteq Access!Token
    BY <2>1, RevokedTyped DEF AccessTypes
  <2>3. QED
    BY <1>u, <1>o, <2>1, <2>2 DEF AccessTypes
<1>13. ASSUME NEW s, Access!Logout(s)
       PROVE  AccessTypes'
  BY <1>13, <1>u, <1>o DEF Access!Logout, AccessTypes
<1>14. ASSUME NEW p, Access!DeletePasskey(p)
       PROVE  AccessTypes'
  <2>1. PICK n : n = person.generation + 1
    OBVIOUS
  <2>2. PICK q : q = [person EXCEPT !.generation = n] /\ person' = q
    BY <1>14, <2>1 DEF Access!DeletePasskey
  <2>3. q.exists = person.exists /\ q.generation = n /\ person.generation <= MaxMoves
    BY <1>14, <1>t, <2>1, <2>2, GenerationWritten DEF Access!DeletePasskey
  <2>4. n \in Access!Generation /\ n <= MaxMoves + 1
    BY <1>t, <2>1, <2>3 DEF Access!Generation
  <2>5. /\ sessions' = Access!Stamped({s \in sessions : s.method # "passkey"}, n)
        /\ tokens' = Access!Stamped(tokens, n)
        /\ passkeys' = Access!Stamped(passkeys \ {p}, n)
        /\ UNCHANGED <<challenges, requests, serial, revocations>>
    BY <1>14, <2>1 DEF Access!DeletePasskey
  <2>6. /\ sessions' \subseteq Access!Session /\ tokens' \subseteq Access!Token
        /\ passkeys' \subseteq Access!Passkey
    <3>1. /\ {s \in sessions : s.method # "passkey"} \subseteq Access!Session
          /\ tokens \subseteq Access!Token /\ passkeys \ {p} \subseteq Access!Passkey
      BY DEF AccessTypes
    <3>2. QED
      BY <2>4, <2>5, <3>1, StampTyped
  <2>7. Owner(person', revocations')
    BY <1>o, <1>t, <2>1, <2>2, <2>3, <2>4, <2>5 DEF Owner
  <2>8. QED
    BY <1>u, <2>5, <2>6, <2>7
\* The administrator revokes every token.
<1>a. Access!AllTokensRevoked \subseteq Access!Token
  BY RevokedTyped DEF Access!AllTokensRevoked, AccessTypes
<1>15. CASE Access!Disable
  <2>1. /\ person.exists = TRUE /\ sessions' = {} /\ tokens' = Access!AllTokensRevoked
        /\ UNCHANGED <<passkeys, challenges, requests, serial>>
    BY <1>15 DEF Access!Disable
  <2>2. CASE UNCHANGED <<person, revocations>>
    BY <1>u, <1>a, <1>o, <2>1, <2>2 DEF AccessTypes
  <2>3. CASE /\ revocations' = revocations + 1 /\ person.generation <= MaxMoves
             /\ person' = [person EXCEPT !.disabled = TRUE, !.generation = @ + 1]
    <3>1. person'.exists = TRUE /\ person'.generation = person.generation + 1
      BY <1>t, <2>1, <2>3 DEF Person
    <3>2. Owner(person', revocations')
      BY <1>o, <1>t, <2>1, <2>3, <3>1 DEF Owner
    <3>3. QED
      BY <1>u, <1>a, <2>1, <3>2 DEF AccessTypes
  <2>4. QED
    BY <1>15, <2>2, <2>3 DEF Access!Disable, Access!Moves
<1>16. CASE Access!Enable
  <2>1. /\ person.exists = TRUE /\ person.generation <= MaxMoves
        /\ person' = [person EXCEPT !.disabled = FALSE, !.generation = @ + 1]
        /\ UNCHANGED <<sessions, tokens, passkeys, challenges, requests, serial, revocations>>
    BY <1>16 DEF Access!Enable, Access!Moves
  <2>2. person'.exists = TRUE /\ person'.generation = person.generation + 1
    BY <1>t, <2>1 DEF Person
  <2>3. Owner(person', revocations')
    BY <1>o, <1>t, <2>1, <2>2 DEF Owner
  <2>4. QED
    BY <1>u, <2>1, <2>3 DEF AccessTypes
<1>17. CASE Access!RevokeAccess
  <2>1. /\ person.exists = TRUE /\ person.generation <= MaxMoves
        /\ person' = [person EXCEPT !.generation = @ + 1]
        /\ sessions' = {} /\ tokens' = Access!AllTokensRevoked /\ passkeys' = {}
        /\ revocations' = revocations + 1
        /\ UNCHANGED <<challenges, requests, serial>>
    BY <1>17 DEF Access!RevokeAccess, Access!Moves
  <2>2. person'.exists = TRUE /\ person'.generation = person.generation + 1
    BY <1>t, <2>1 DEF Person
  <2>3. Owner(person', revocations')
    BY <1>o, <1>t, <2>1, <2>2 DEF Owner
  <2>4. QED
    BY <1>u, <1>a, <2>1, <2>3 DEF AccessTypes
<1>18. CASE UNCHANGED Access!vars
  BY <1>18, <1>u, <1>o DEF Access!vars, AccessTypes
<1>19. QED
  <2>1. CASE Access!Next
    BY <1>1, <1>2, <1>3, <1>4, <1>5, <1>6, <1>7, <1>8, <1>9, <1>10, <1>11, <1>12, <1>13, <1>14,
       <1>15, <1>16, <1>17, <2>1 DEF Access!Next, Access!PresentRefused
  <2>2. QED
    BY <1>18, <2>1

\* Every row of the accesses has its type.
LEMMA AccessTyped == AccountsSpec => []Access!TypeOK
<1>1. ASSUME Access!Init
      PROVE  AccessTypes
  <2>1. /\ sessions = {} /\ tokens = {} /\ passkeys = {} /\ challenges = Challenges
        /\ requests = [r \in Requests |-> Access!Free] /\ serial = 0 /\ revocations = 0
        /\ person.generation = 0 /\ person.exists = FALSE
    BY <1>1 DEF Access!Init
  <2>2. LetThrough(Access!Free)
    BY DEF LetThrough, Access!Free
  <2>3. 0 \in 0 .. MaxObjects /\ 0 <= MaxMoves + 1
    BY BoundsAssumption
  <2>4. QED
    BY <2>1, <2>2, <2>3 DEF AccessTypes
<1>2. AccessInv /\ AccessTypes => Access!TypeOK
  BY RevocationsFit DEF AccessInv, AccessTypes, Person, Access!TypeOK
<1>3. QED
  BY <1>1, <1>2, AccessAlone, InitAccess, StepAccess, StepAccessTypes, PTL DEF Access!Spec
-----------------------------------------------------------------------------
(* The types of the stored credential.                                     *)

RunStages == {"idle", "gate", "reserve", "fetch", "reused", "fallback", "open", "sso", "file",
              "failing", "required"}
Run == [at : RunStages, permitted : BOOLEAN, autonomous : BOOLEAN, paused : BOOLEAN,
        stored : 0 .. MaxSessions, snapshot : [generation : Nat, envelope : 0 .. MaxEnrolments]]
ModeTab == [at : {"mode"}, mode : Credentials!Modes, seen : Credentials!Account]
PasswordTab == [at : {"verifying", "verified"}, kind : {"enroll", "reconnect", "login"},
                authority : BOOLEAN, paused : BOOLEAN, enabled : BOOLEAN]
Tab == {Credentials!TabIdle} \cup ModeTab \cup PasswordTab
PassSession == [id : 0 .. MaxSessions, expired : BOOLEAN]
Serials == [enrolments : 0 .. MaxEnrolments, sessions : 0 .. MaxSessions]

\* An envelope is kept while the credential is active.
CredentialFit(c) == c \in Credentials!Credential /\ (c.envelope # 0 <=> c.state = "active")

CredentialTypes ==
  /\ account \in Credentials!Account /\ CredentialFit(credential)
  /\ session \in PassSession /\ serials \in Serials
  /\ worker \in Run /\ leased \in BOOLEAN /\ runtime \in BOOLEAN
  /\ slot \in Tabs \cup {"worker", Credentials!Vacant}
  /\ tabs \in [Tabs -> Tab]
  /\ scheduler \in Credentials!Pauses \cup {Credentials!Resting}
  /\ interventions \in 0 .. MaxInterventions

\* A pause is written on a row of an account.
LEMMA PausedTyped ==
  \A old \in Credentials!Account : \A reason \in Credentials!Pauses :
     Credentials!Paused(old, reason) \in Credentials!Account
BY DEF Credentials!Account, Credentials!Paused

\* The reasons of a pause by their names.
LEMMA PauseNames ==
  \A reason \in {"none", "reauth_required", "credential_invalid", "credential_key_unavailable",
                 "autonomous_runtime_unavailable"} : reason \in Credentials!Pauses
BY DEF Credentials!Pauses

\* What a flush writes is in one of the two rows.
LEMMA FlushedTyped ==
  ASSUME NEW old \in Credentials!Account, NEW seen \in Credentials!Account,
         NEW new \in Credentials!Account
  PROVE  Credentials!Flushed(old, seen, new) \in Credentials!Account
<1>1. PICK f : f = Credentials!Flushed(old, seen, new)
  OBVIOUS
<1>2. /\ f = [disabled |-> f.disabled, enabled |-> f.enabled, mode |-> f.mode,
              consented |-> f.consented, paused |-> f.paused, ownerFile |-> f.ownerFile]
      /\ f.disabled \in {new.disabled, old.disabled} /\ f.enabled \in {new.enabled, old.enabled}
      /\ f.mode \in {new.mode, old.mode} /\ f.consented \in {new.consented, old.consented}
      /\ f.paused \in {new.paused, old.paused} /\ f.ownerFile \in {new.ownerFile, old.ownerFile}
  BY <1>1 DEF Credentials!Flushed, Credentials!Account
<1>3. /\ f.disabled \in BOOLEAN /\ f.enabled \in BOOLEAN /\ f.mode \in Credentials!Modes
      /\ f.consented \in BOOLEAN /\ f.paused \in Credentials!Pauses /\ f.ownerFile \in BOOLEAN
  BY <1>2 DEF Credentials!Account
<1>4. QED
  BY <1>1, <1>2, <1>3 DEF Credentials!Account

\* The choice of a mode leaves a row of an account.
LEMMA ModeSetTyped ==
  ASSUME account \in Credentials!Account, NEW seen \in Credentials!Account,
         NEW mode \in Credentials!Modes, NEW setup
  PROVE  Credentials!ModeSet(seen, mode, setup) \in Credentials!Account
<1>1. PICK pause : pause = (IF mode = "session_only" /\ ~Credentials!LiveSession /\ ~seen.ownerFile
                            THEN "reauth_required" ELSE "none")
  OBVIOUS
<1>2. pause \in Credentials!Pauses
  BY <1>1, PauseNames
<1>3. PICK chosen \in BOOLEAN : chosen = (mode # "manual")
  OBVIOUS
<1>4. PICK new : new = [seen EXCEPT !.enabled = chosen, !.mode = mode, !.paused = pause,
                                    !.consented = chosen]
  OBVIOUS
<1>5. new \in Credentials!Account
  BY <1>2, <1>3, <1>4 DEF Credentials!Account
<1>6. PICK flushed : flushed = Credentials!Flushed(account, seen, new)
  OBVIOUS
<1>7. flushed \in Credentials!Account
  BY <1>5, <1>6, FlushedTyped
<1>8. PICK dated : dated = (setup \/ ~seen.enabled \/ ~seen.consented)
  OBVIOUS
<1>9. Credentials!ModeSet(seen, mode, setup) =
        [flushed EXCEPT !.consented = IF mode # "manual" /\ dated THEN TRUE ELSE @]
  BY <1>1, <1>3, <1>4, <1>6, <1>8 DEF Credentials!ModeSet
<1>10. Credentials!ModeSet(seen, mode, setup) \in {flushed, [flushed EXCEPT !.consented = TRUE]}
  <2>1. flushed = [flushed EXCEPT !.consented = flushed.consented]
    BY <1>7 DEF Credentials!Account
  <2>2. QED
    BY <1>7, <1>9, <2>1 DEF Credentials!Account
<1>11. [flushed EXCEPT !.consented = TRUE] \in Credentials!Account
  BY <1>7 DEF Credentials!Account
<1>12. QED
  BY <1>7, <1>10, <1>11

\* A credential that is revoked or invalidated has no envelope.
LEMMA RevokedFit ==
  ASSUME NEW c, CredentialFit(c)
  PROVE  CredentialFit(Credentials!Revoked(c)) /\ CredentialFit(Credentials!Invalidated(c))
<1>1. c.generation + 1 \in Nat /\ 0 \in 0 .. MaxEnrolments
  BY BoundsAssumption DEF CredentialFit, Credentials!Credential
<1>2. \A state \in {"revoked", "invalid"} :
        CredentialFit([state |-> state, generation |-> c.generation + 1, envelope |-> 0])
  BY <1>1 DEF CredentialFit, Credentials!Credential
<1>3. QED
  BY <1>2 DEF Credentials!Revoked, Credentials!Invalidated

\* The worker at another stage.
LEMMA RunTyped ==
  /\ Credentials!Idle \in Run
  /\ \A w \in Run, stage \in RunStages : [w EXCEPT !.at = stage] \in Run
  /\ Credentials!Failing \/ Credentials!ReauthRequired => worker' \in Run
<1>1. Credentials!Idle \in Run
  BY BoundsAssumption DEF Credentials!Idle, Credentials!NoSnapshot, Run, RunStages
<1>2. \A w \in Run, stage \in RunStages : [w EXCEPT !.at = stage] \in Run
  BY DEF Run
<1>3. QED
  BY <1>1, <1>2 DEF Credentials!Failing, Credentials!ReauthRequired, RunStages

\* The session rows.
LEMMA SessionTyped ==
  ASSUME session \in PassSession, serials \in Serials
  PROVE  /\ Credentials!NoSession \in PassSession
         /\ Credentials!StoreSession => session' \in PassSession /\ serials' \in Serials
         /\ Credentials!KeepSession => session' \in PassSession /\ serials' \in Serials
         /\ \A id : Credentials!EndSession(id) => session' \in PassSession
         /\ Credentials!LiveSession \in BOOLEAN
<1>1. Credentials!NoSession \in PassSession
  BY BoundsAssumption DEF Credentials!NoSession, PassSession
<1>2. ASSUME Credentials!StoreSession
      PROVE  session' \in PassSession /\ serials' \in Serials
  <2>1. serials.sessions + 1 \in 0 .. MaxSessions
    BY <1>2, BoundsAssumption DEF Credentials!StoreSession, Credentials!CanStoreSession, Serials
  <2>2. QED
    BY <1>2, <2>1 DEF Credentials!StoreSession, PassSession, Serials
<1>3. Credentials!LiveSession \in BOOLEAN
  BY DEF Credentials!LiveSession
<1>4. QED
  BY <1>1, <1>2, <1>3 DEF Credentials!KeepSession, Credentials!EndSession

\* The tabs.
LEMMA TabsTyped ==
  ASSUME tabs \in [Tabs -> Tab]
  PROVE  /\ Credentials!MoveGeneration => tabs' \in [Tabs -> Tab]
         /\ \A t : Credentials!Done(t) => tabs' \in [Tabs -> Tab]
         /\ \A t : Credentials!FreeSlot(t) => slot' \in {slot, Credentials!Vacant}
<1>1. ASSUME Credentials!MoveGeneration
      PROVE  tabs' \in [Tabs -> Tab]
  <2>1. \A tab \in PasswordTab : [tab EXCEPT !.authority = FALSE] \in PasswordTab
    BY DEF PasswordTab
  <2>2. ASSUME NEW t \in Tabs, tabs[t].at \in {"verifying", "verified"}
        PROVE  tabs[t] \in PasswordTab
    BY <2>2 DEF Tab, ModeTab, Credentials!TabIdle
  <2>3. \A t \in Tabs : (IF tabs[t].at \in {"verifying", "verified"}
                         THEN [tabs[t] EXCEPT !.authority = FALSE] ELSE tabs[t]) \in Tab
    BY <2>1, <2>2 DEF Tab
  <2>4. QED
    BY <1>1, <2>3 DEF Credentials!MoveGeneration
<1>2. ASSUME NEW t, Credentials!Done(t)
      PROVE  tabs' \in [Tabs -> Tab]
  BY <1>2 DEF Credentials!Done, Tab
<1>3. QED
  BY <1>1, <1>2 DEF Credentials!FreeSlot

\* A credential that is invalidated, or left alone, has its type, and its account too.
LEMMA InvalidateTyped ==
  ASSUME CredentialTypes, NEW snapshot, Credentials!Invalidate(snapshot)
  PROVE  account' \in Credentials!Account /\ CredentialFit(credential')
BY PausedTyped, PauseNames, RevokedFit DEF CredentialTypes, Credentials!Invalidate

\* A synchronisation keeps the types.
LEMMA WorkerTyped ==
  ASSUME CredentialTypes, Credentials!WorkerStep
  PROVE  CredentialTypes'
<1> DEFINE Beside == UNCHANGED <<tabs, scheduler, runtime, interventions>>
<1>t. /\ account \in Credentials!Account /\ CredentialFit(credential)
      /\ session \in PassSession /\ serials \in Serials /\ worker \in Run
      /\ leased \in BOOLEAN /\ slot \in Tabs \cup {"worker", Credentials!Vacant}
  BY DEF CredentialTypes
<1>a. /\ \A reason \in Credentials!Pauses : Credentials!Paused(account, reason) \in Credentials!Account
      /\ \A reason \in {"none", "reauth_required", "credential_invalid",
                        "credential_key_unavailable", "autonomous_runtime_unavailable"} :
            Credentials!Paused(account, reason) \in Credentials!Account
  BY <1>t, PausedTyped, PauseNames
<1>p. \A reason \in {"credential_key_unavailable", "autonomous_runtime_unavailable"} :
        Credentials!PauseIfAutonomous(reason) => account' \in Credentials!Account
  BY <1>t, <1>a DEF Credentials!PauseIfAutonomous
<1>r. /\ Credentials!Idle \in Run
      /\ \A stage \in RunStages : [worker EXCEPT !.at = stage] \in Run
      /\ \A stage \in RunStages : Credentials!At(stage) => worker' \in Run
      /\ Credentials!Failing \/ Credentials!ReauthRequired => worker' \in Run
  BY <1>t, RunTyped DEF Credentials!At
<1>d. Credentials!Finished =>
        /\ worker' \in Run /\ leased' \in BOOLEAN
        /\ slot' \in Tabs \cup {"worker", Credentials!Vacant}
  BY <1>t, <1>r DEF Credentials!Finished, Credentials!FreeSlot
<1>q. ASSUME account' \in Credentials!Account, CredentialFit(credential'),
             session' \in PassSession, serials' \in Serials, worker' \in Run,
             leased' \in BOOLEAN, slot' \in Tabs \cup {"worker", Credentials!Vacant}, Beside
      PROVE  CredentialTypes'
  BY <1>q DEF CredentialTypes, CredentialFit
<1>1. ASSUME NEW actor, Credentials!StartSync(actor)
      PROVE  CredentialTypes'
  <2>1. PICK permitted \in BOOLEAN, autonomous \in BOOLEAN, held \in BOOLEAN :
          worker' = [Credentials!Idle EXCEPT !.at = "gate", !.permitted = permitted,
                                             !.autonomous = autonomous, !.paused = held]
    <3>1. /\ (actor \in Credentials!AutonomousActors) \in BOOLEAN
          /\ Credentials!IsAutonomous(account) \in BOOLEAN /\ (account.paused # "none") \in BOOLEAN
      BY <1>t DEF Credentials!IsAutonomous, Credentials!Account
    <3>2. QED
      BY <1>1, <3>1 DEF Credentials!StartSync
  <2>2. worker' \in Run
    <3>1. \A w \in Run, stage \in RunStages :
            [w EXCEPT !.at = stage, !.permitted = permitted, !.autonomous = autonomous,
                      !.paused = held] \in Run
      BY DEF Run
    <3>2. "gate" \in RunStages
      BY DEF RunStages
    <3>3. QED
      BY <1>r, <2>1, <3>1, <3>2
  <2>3. /\ leased' = TRUE /\ UNCHANGED <<account, credential, session, serials, slot>> /\ Beside
    BY <1>1 DEF Credentials!StartSync, Credentials!Others
  <2>4. QED
    BY <1>q, <1>t, <2>2, <2>3
<1>2. CASE Credentials!RuntimeUnavailable
  <2>1. /\ account' \in Credentials!Account /\ worker' \in Run
        /\ UNCHANGED <<credential, session, serials, leased, slot>> /\ Beside
    BY <1>2, <1>p, <1>r DEF Credentials!RuntimeUnavailable, Credentials!Others
  <2>2. QED
    BY <1>q, <1>t, <2>1
<1>3. CASE Credentials!LoadSession
  <2>1. /\ UNCHANGED <<account, credential, serials, leased, slot>> /\ Beside
        /\ session' \in {session, Credentials!NoSession}
        /\ worker' \in {[worker EXCEPT !.at = "reserve", !.stored = session.id],
                        [worker EXCEPT !.at = "reserve"]}
    BY <1>3 DEF Credentials!LoadSession, Credentials!Others
  <2>2. session.id \in 0 .. MaxSessions
    BY <1>t DEF PassSession
  <2>3. worker' \in Run
    BY <1>t, <2>1, <2>2 DEF Run, RunStages
  <2>4. session' \in PassSession
    BY <1>t, <2>1, SessionTyped
  <2>5. QED
    BY <1>q, <1>t, <2>1, <2>3, <2>4
<1>4. CASE Credentials!SessionKeyUnavailable
  <2>1. /\ account' \in Credentials!Account /\ worker' \in Run
        /\ UNCHANGED <<credential, session, serials, leased, slot>> /\ Beside
    BY <1>4, <1>a, <1>r DEF Credentials!SessionKeyUnavailable, Credentials!Others
  <2>2. QED
    BY <1>q, <1>t, <2>1
<1>5. CASE Credentials!ReserveOperation
  <2>1. /\ slot' = "worker" /\ Beside
        /\ UNCHANGED <<account, credential, session, serials, leased>>
        /\ Credentials!At("fetch") \/ Credentials!At("fallback")
    BY <1>5 DEF Credentials!ReserveOperation, Credentials!Others
  <2>2. worker' \in Run
    BY <1>r, <2>1 DEF RunStages
  <2>3. QED
    BY <1>q, <1>t, <2>1, <2>2
<1>6. CASE Credentials!DeferSync
  <2>1. /\ worker' = Credentials!Idle /\ leased' = FALSE /\ Beside
        /\ UNCHANGED <<account, credential, session, serials, slot>>
    BY <1>6 DEF Credentials!DeferSync, Credentials!Others
  <2>2. QED
    BY <1>q, <1>t, <1>r, <2>1
<1>7. ASSUME NEW answer, Credentials!FetchReused(answer)
      PROVE  CredentialTypes'
  <2>1. /\ UNCHANGED <<account, credential, session, serials, leased, slot>> /\ Beside
        /\ Credentials!At("reused") \/ Credentials!Failing
    BY <1>7 DEF Credentials!FetchReused, Credentials!Others
  <2>2. worker' \in Run
    BY <1>r, <2>1 DEF RunStages
  <2>3. QED
    BY <1>q, <1>t, <2>1, <2>2
<1>8. CASE Credentials!SessionRefused
  <2>1. /\ Credentials!EndSession(worker.stored) /\ Beside
        /\ Credentials!At("fallback") \/ Credentials!ReauthRequired
        /\ UNCHANGED <<account, credential, serials, leased, slot>>
    BY <1>8 DEF Credentials!SessionRefused, Credentials!Others
  <2>2. worker' \in Run
    BY <1>r, <2>1 DEF RunStages
  <2>3. session' \in PassSession
    BY <1>t, <2>1, SessionTyped
  <2>4. QED
    BY <1>q, <1>t, <2>1, <2>2, <2>3
<1>9. CASE Credentials!LoadSnapshot
  <2>1. /\ UNCHANGED <<credential, session, serials, leased, slot>> /\ Beside
        /\ \/ Credentials!Failing /\ account' \in Credentials!Account
           \/ /\ worker' = [worker EXCEPT !.at = "open", !.snapshot = Credentials!Snapshot]
              /\ UNCHANGED account
    BY <1>9, <1>p, <1>a, <1>t DEF Credentials!LoadSnapshot, Credentials!Others
  <2>2. Credentials!Snapshot \in [generation : Nat, envelope : 0 .. MaxEnrolments]
    BY <1>t DEF Credentials!Snapshot, CredentialFit, Credentials!Credential
  <2>3. worker' \in Run
    <3>1. \A stage \in RunStages :
            [worker EXCEPT !.at = stage, !.snapshot = Credentials!Snapshot] \in Run
      BY <1>t, <2>2 DEF Run
    <3>2. "open" \in RunStages
      BY DEF RunStages
    <3>3. QED
      BY <1>r, <2>1, <3>1, <3>2
  <2>4. account' \in Credentials!Account
    BY <1>t, <2>1
  <2>5. QED
    BY <1>q, <1>t, <2>1, <2>3, <2>4
<1>10. CASE Credentials!OwnerFallback
  <2>1. /\ UNCHANGED <<account, credential, session, serials, leased, slot>> /\ Beside
        /\ Credentials!At("file") \/ Credentials!ReauthRequired
    BY <1>10 DEF Credentials!OwnerFallback, Credentials!Others
  <2>2. worker' \in Run
    BY <1>r, <2>1 DEF RunStages
  <2>3. QED
    BY <1>q, <1>t, <2>1, <2>2
<1>11. ASSUME NEW outcome \in {"opened", "key_unavailable", "altered"},
              Credentials!OpenEnvelope(outcome)
       PROVE  CredentialTypes'
  <2>1. UNCHANGED <<session, serials, leased, slot>> /\ Beside
    BY <1>11 DEF Credentials!OpenEnvelope, Credentials!Others
  <2>2. /\ Credentials!At("sso") \/ Credentials!Failing
        /\ \/ UNCHANGED <<account, credential>>
           \/ /\ Credentials!PauseIfAutonomous("credential_key_unavailable")
              /\ UNCHANGED credential
           \/ Credentials!Invalidate(worker.snapshot)
    BY <1>11 DEF Credentials!OpenEnvelope
  <2>3. worker' \in Run
    BY <1>r, <2>2 DEF RunStages
  <2>4. account' \in Credentials!Account /\ CredentialFit(credential')
    BY <1>t, <1>p, <2>2, InvalidateTyped
  <2>5. QED
    BY <1>q, <1>t, <2>1, <2>3, <2>4
<1>12. CASE Credentials!SsoRefused
  <2>1. /\ Credentials!Invalidate(worker.snapshot) /\ Credentials!Failing
        /\ UNCHANGED <<session, serials, leased, slot>> /\ Beside
    BY <1>12 DEF Credentials!SsoRefused, Credentials!Others
  <2>2. account' \in Credentials!Account /\ CredentialFit(credential')
    BY <2>1, InvalidateTyped
  <2>3. QED
    BY <1>q, <1>t, <1>r, <2>1, <2>2
<1>13. CASE Credentials!FetchFails
  <2>1. /\ UNCHANGED <<account, credential, session, serials, leased, slot>> /\ Beside
        /\ Credentials!Failing
    BY <1>13 DEF Credentials!FetchFails, Credentials!Others
  <2>2. QED
    BY <1>q, <1>t, <1>r, <2>1
<1>14. ASSUME NEW reusable \in BOOLEAN, Credentials!CommitSso(reusable)
       PROVE  CredentialTypes'
  <2>1. /\ UNCHANGED credential /\ Beside
        /\ \/ /\ Credentials!StoreSession \/ Credentials!KeepSession
              /\ account' = Credentials!Paused(account, "none") /\ Credentials!Finished
           \/ Credentials!Failing /\ UNCHANGED <<account, session, serials, leased, slot>>
    BY <1>14 DEF Credentials!CommitSso, Credentials!Others
  <2>2. CASE Credentials!Failing /\ UNCHANGED <<account, session, serials, leased, slot>>
    BY <1>q, <1>t, <1>r, <2>1, <2>2
  <2>3. CASE /\ Credentials!StoreSession \/ Credentials!KeepSession
             /\ account' = Credentials!Paused(account, "none") /\ Credentials!Finished
    <3>1. session' \in PassSession /\ serials' \in Serials
      BY <1>t, <2>3, SessionTyped
    <3>2. account' \in Credentials!Account
      BY <1>a, <2>3
    <3>3. QED
      BY <1>q, <1>t, <1>d, <2>1, <2>3, <3>1, <3>2
  <2>4. QED
    BY <2>1, <2>2, <2>3
<1>15. ASSUME NEW reusable \in BOOLEAN, Credentials!CommitReused(reusable)
       PROVE  CredentialTypes'
  <2>1. /\ UNCHANGED <<credential, serials>> /\ Beside /\ Credentials!Finished
        /\ UNCHANGED session \/ Credentials!EndSession(worker.stored)
        /\ account' \in {account, Credentials!Paused(account, "none")}
    BY <1>15 DEF Credentials!CommitReused, Credentials!Others
  <2>2. session' \in PassSession /\ account' \in Credentials!Account
    BY <1>t, <1>a, <2>1, SessionTyped
  <2>3. QED
    BY <1>q, <1>t, <1>d, <2>1, <2>2
<1>16. ASSUME NEW reusable \in BOOLEAN, Credentials!CommitOwnerFile(reusable)
       PROVE  CredentialTypes'
  <2>1. /\ UNCHANGED credential /\ Beside /\ Credentials!Finished
        /\ Credentials!StoreSession \/ Credentials!KeepSession
        /\ account' \in {account, Credentials!Paused(account, "none")}
    BY <1>16 DEF Credentials!CommitOwnerFile, Credentials!Others
  <2>2. session' \in PassSession /\ serials' \in Serials /\ account' \in Credentials!Account
    BY <1>t, <1>a, <2>1, SessionTyped
  <2>3. QED
    BY <1>q, <1>t, <1>d, <2>1, <2>2
<1>17. CASE Credentials!RecordFailure
  <2>1. /\ UNCHANGED <<credential, session, serials>> /\ Beside /\ Credentials!Finished
        /\ account' \in {account, Credentials!Paused(account, "reauth_required")}
    BY <1>17 DEF Credentials!RecordFailure, Credentials!Others
  <2>2. account' \in Credentials!Account
    BY <1>t, <1>a, <2>1
  <2>3. QED
    BY <1>q, <1>t, <1>d, <2>1, <2>2
<1>18. QED
  BY <1>1, <1>2, <1>3, <1>4, <1>5, <1>6, <1>7, <1>8, <1>9, <1>10, <1>11, <1>12, <1>13, <1>14,
     <1>15, <1>16, <1>17 DEF Credentials!WorkerStep

\* A request of the owner keeps the types.
LEMMA OwnerTyped ==
  ASSUME CredentialTypes, Credentials!OwnerStep
  PROVE  CredentialTypes'
<1>t. /\ account \in Credentials!Account /\ CredentialFit(credential)
      /\ session \in PassSession /\ serials \in Serials
      /\ tabs \in [Tabs -> Tab] /\ interventions \in 0 .. MaxInterventions
      /\ slot \in Tabs \cup {"worker", Credentials!Vacant} /\ MaxInterventions \in Nat
  BY BoundsAssumption DEF CredentialTypes
<1>a. \A reason \in {"none", "reauth_required"} :
        Credentials!Paused(account, reason) \in Credentials!Account
  BY <1>t, PausedTyped, PauseNames
<1>i. Credentials!Intervention \/ UNCHANGED interventions => interventions' \in 0 .. MaxInterventions
  BY <1>t DEF Credentials!Intervention
<1>q. ASSUME account' \in Credentials!Account, CredentialFit(credential'),
             session' \in PassSession, serials' \in Serials, tabs' \in [Tabs -> Tab],
             slot' \in Tabs \cup {"worker", Credentials!Vacant}, Credentials!WorkerAside,
             Credentials!Intervention \/ UNCHANGED interventions
      PROVE  CredentialTypes'
  BY <1>q, <1>i DEF CredentialTypes, CredentialFit, Credentials!WorkerAside
<1>1. ASSUME NEW t \in Tabs, NEW mode \in Credentials!Modes, Credentials!AskMode(t, mode)
      PROVE  CredentialTypes'
  <2>1. /\ tabs' = [tabs EXCEPT ![t] = [at |-> "mode", mode |-> mode, seen |-> account]]
        /\ UNCHANGED <<account, credential, session, serials, slot>>
        /\ Credentials!WorkerAside /\ Credentials!Intervention
    BY <1>1 DEF Credentials!AskMode
  <2>2. [at |-> "mode", mode |-> mode, seen |-> account] \in Tab
    BY <1>t DEF Tab, ModeTab
  <2>3. tabs' \in [Tabs -> Tab]
    BY <1>t, <2>1, <2>2
  <2>4. QED
    BY <1>q, <1>t, <2>1, <2>3
<1>2. ASSUME NEW t \in Tabs, NEW setup, Credentials!SetMode(t, setup)
      PROVE  CredentialTypes'
  <2>1. /\ tabs[t].at = "mode" /\ Credentials!Done(t)
        /\ UNCHANGED <<session, serials, slot>> /\ Credentials!WorkerAside
        /\ UNCHANGED interventions
        /\ credential' \in {credential, Credentials!Revoked(credential)}
        /\ account' \in {account, Credentials!ModeSet(tabs[t].seen, "autonomous", setup),
                         Credentials!ModeSet(tabs[t].seen, tabs[t].mode, setup)}
    BY <1>2 DEF Credentials!SetMode, Credentials!Resumes
  <2>2. tabs[t].seen \in Credentials!Account /\ tabs[t].mode \in Credentials!Modes
        /\ "autonomous" \in Credentials!Modes
    BY <1>t, <2>1 DEF Tab, ModeTab, PasswordTab, Credentials!TabIdle, Credentials!Modes
  <2>3. account' \in Credentials!Account
    BY <1>t, <2>1, <2>2, ModeSetTyped
  <2>4. CredentialFit(credential') /\ tabs' \in [Tabs -> Tab]
    BY <1>t, <2>1, RevokedFit, TabsTyped
  <2>5. QED
    BY <1>q, <1>t, <2>1, <2>3, <2>4
<1>3. ASSUME NEW t \in Tabs, NEW kind \in {"enroll", "reconnect", "login"},
             Credentials!AskVerification(t, kind)
      PROVE  CredentialTypes'
  <2>1. PICK held \in BOOLEAN, automatic \in BOOLEAN :
          tabs' = [tabs EXCEPT ![t] = [at |-> "verifying", kind |-> kind, authority |-> TRUE,
                                       paused |-> held, enabled |-> automatic]]
    <3>1. (account.paused # "none") \in BOOLEAN /\ account.enabled \in BOOLEAN
      BY <1>t DEF Credentials!Account
    <3>2. QED
      BY <1>3, <3>1 DEF Credentials!AskVerification
  <2>2. [at |-> "verifying", kind |-> kind, authority |-> TRUE, paused |-> held,
         enabled |-> automatic] \in Tab
    BY DEF Tab, PasswordTab
  <2>3. tabs' \in [Tabs -> Tab]
    BY <1>t, <2>1, <2>2
  <2>4. /\ slot' = t /\ UNCHANGED <<account, credential, session, serials>>
        /\ Credentials!WorkerAside /\ Credentials!Intervention
    BY <1>3 DEF Credentials!AskVerification
  <2>5. QED
    BY <1>q, <1>t, <2>3, <2>4
<1>4. ASSUME NEW t \in Tabs, Credentials!Verified(t)
      PROVE  CredentialTypes'
  <2>1. /\ tabs[t].at = "verifying" /\ tabs' = [tabs EXCEPT ![t].at = "verified"]
        /\ Credentials!FreeSlot(t) /\ UNCHANGED <<account, credential, session, serials>>
        /\ Credentials!WorkerAside /\ UNCHANGED interventions
    BY <1>4 DEF Credentials!Verified, Credentials!Resumes
  <2>2. tabs[t] \in PasswordTab
    BY <1>t, <2>1 DEF Tab, ModeTab, Credentials!TabIdle
  <2>3. [tabs[t] EXCEPT !.at = "verified"] \in Tab
    BY <2>2 DEF Tab, PasswordTab
  <2>4. tabs' \in [Tabs -> Tab]
    BY <1>t, <2>1, <2>3
  <2>5. slot' \in {slot, Credentials!Vacant}
    BY <1>t, <2>1, TabsTyped
  <2>6. QED
    BY <1>q, <1>t, <2>1, <2>4, <2>5
<1>5. ASSUME NEW t \in Tabs, Credentials!VerificationFails(t)
      PROVE  CredentialTypes'
  <2>1. /\ Credentials!Done(t) /\ Credentials!FreeSlot(t)
        /\ UNCHANGED <<account, credential, session, serials>>
        /\ Credentials!WorkerAside /\ UNCHANGED interventions
    BY <1>5 DEF Credentials!VerificationFails, Credentials!Resumes
  <2>2. tabs' \in [Tabs -> Tab] /\ slot' \in {slot, Credentials!Vacant}
    BY <1>t, <2>1, TabsTyped
  <2>3. QED
    BY <1>q, <1>t, <2>1, <2>2
<1>6. ASSUME NEW t \in Tabs, Credentials!Enroll(t)
      PROVE  CredentialTypes'
  <2>1. /\ Credentials!Done(t) /\ UNCHANGED slot /\ Credentials!WorkerAside
        /\ UNCHANGED interventions
    BY <1>6 DEF Credentials!Enroll, Credentials!Resumes
  <2>2. tabs' \in [Tabs -> Tab]
    BY <1>t, <2>1, TabsTyped
  <2>3. CASE UNCHANGED <<account, credential, session, serials>>
    BY <1>q, <1>t, <2>1, <2>2, <2>3
  <2>4. CASE ~account.disabled
    <3>1. PICK n, m : n = serials.enrolments + 1 /\ m = serials.sessions + 1
      OBVIOUS
    <3>2. /\ serials.enrolments < MaxEnrolments /\ serials.sessions < MaxSessions
          /\ serials' = [enrolments |-> n, sessions |-> m]
          /\ credential' = [state |-> "active", generation |-> credential.generation + 1,
                            envelope |-> n]
          /\ session' = [id |-> m, expired |-> FALSE]
          /\ account' = Credentials!Paused(account, "none")
      BY <1>6, <2>4, <3>1 DEF Credentials!Enroll, Credentials!CanStoreSession
    <3>3. n \in 0 .. MaxEnrolments /\ n # 0 /\ m \in 0 .. MaxSessions
      BY <1>t, <3>1, <3>2, BoundsAssumption DEF Serials
    <3>4. serials' \in Serials /\ session' \in PassSession /\ account' \in Credentials!Account
      BY <1>a, <3>2, <3>3 DEF Serials, PassSession
    <3>5. credential.generation + 1 \in Nat
      BY <1>t DEF CredentialFit, Credentials!Credential
    <3>6. CredentialFit(credential')
      BY <3>2, <3>3, <3>5 DEF CredentialFit, Credentials!Credential
    <3>7. QED
      BY <1>q, <1>t, <2>1, <2>2, <3>4, <3>6
  <2>5. QED
    BY <1>6, <2>3, <2>4 DEF Credentials!Enroll
<1>7. ASSUME NEW t \in Tabs, NEW reusable \in BOOLEAN,
             Credentials!Reconnect(t, reusable) \/ Credentials!Login(t, reusable)
      PROVE  CredentialTypes'
  <2>1. /\ Credentials!Done(t) /\ UNCHANGED <<credential, slot>> /\ Credentials!WorkerAside
        /\ UNCHANGED interventions
        /\ Credentials!StoreSession \/ Credentials!KeepSession
        /\ account' \in {account, Credentials!Paused(account, "none"),
                         Credentials!Paused(account, "reauth_required")}
    BY <1>7 DEF Credentials!Reconnect, Credentials!Login, Credentials!Resumes
  <2>2. tabs' \in [Tabs -> Tab] /\ session' \in PassSession /\ serials' \in Serials
    BY <1>t, <2>1, TabsTyped, SessionTyped
  <2>3. account' \in Credentials!Account
    BY <1>t, <1>a, <2>1
  <2>4. QED
    BY <1>q, <1>t, <2>1, <2>2, <2>3
<1>8. CASE Credentials!DeleteCredential
  <2>1. PICK set : set = Credentials!ModeSet(account, "session_only", FALSE)
    OBVIOUS
  <2>2. set \in Credentials!Account
    <3>1. "session_only" \in Credentials!Modes
      BY DEF Credentials!Modes
    <3>2. QED
      BY <1>t, <2>1, <3>1, ModeSetTyped
  <2>3. /\ credential' = Credentials!Revoked(credential) /\ UNCHANGED <<session, serials, tabs, slot>>
        /\ Credentials!WorkerAside /\ Credentials!Intervention
        /\ account' \in {account, set, [set EXCEPT !.paused = "reauth_required"]}
    <3>1. /\ credential' = Credentials!Revoked(credential)
          /\ UNCHANGED <<session, serials, tabs, slot>>
          /\ Credentials!WorkerAside /\ Credentials!Intervention
          /\ account' \in {account, [set EXCEPT !.paused = IF Credentials!LiveSession THEN @
                                                           ELSE "reauth_required"]}
      BY <1>8, <2>1 DEF Credentials!DeleteCredential, Credentials!TabsAside
    <3>2. set = [set EXCEPT !.paused = set.paused]
      BY <2>2 DEF Credentials!Account
    <3>3. QED
      BY <2>2, <3>1, <3>2 DEF Credentials!Account
  <2>4. [set EXCEPT !.paused = "reauth_required"] \in Credentials!Account
    BY <2>2, PausedTyped, PauseNames DEF Credentials!Paused
  <2>5. account' \in Credentials!Account /\ CredentialFit(credential')
    BY <1>t, <2>2, <2>3, <2>4, RevokedFit
  <2>6. QED
    BY <1>q, <1>t, <2>3, <2>5
<1>9. CASE Credentials!PurgePassAccess
  <2>1. /\ credential' = Credentials!Revoked(credential) /\ session' = Credentials!NoSession
        /\ account' = Credentials!ModeSet(account, "manual", FALSE)
        /\ UNCHANGED <<serials, tabs, slot>> /\ Credentials!WorkerAside /\ Credentials!Intervention
    BY <1>9 DEF Credentials!PurgePassAccess, Credentials!TabsAside
  <2>2. "manual" \in Credentials!Modes
    BY DEF Credentials!Modes
  <2>3. /\ account' \in Credentials!Account /\ CredentialFit(credential')
        /\ session' \in PassSession
    BY <1>t, <2>1, <2>2, ModeSetTyped, RevokedFit, SessionTyped
  <2>4. QED
    BY <1>q, <1>t, <2>1, <2>3
<1>10. QED
  BY <1>1, <1>2, <1>3, <1>4, <1>5, <1>6, <1>7, <1>8, <1>9 DEF Credentials!OwnerStep

\* The administrator, the scheduler and time keep them too.
LEMMA EnvironmentTyped ==
  ASSUME CredentialTypes, Credentials!Environment
  PROVE  CredentialTypes'
<1>t. /\ account \in Credentials!Account /\ CredentialFit(credential)
      /\ session \in PassSession /\ serials \in Serials /\ worker \in Run
      /\ tabs \in [Tabs -> Tab] /\ interventions \in 0 .. MaxInterventions
      /\ leased \in BOOLEAN /\ runtime \in BOOLEAN
      /\ scheduler \in Credentials!Pauses \cup {Credentials!Resting}
      /\ slot \in Tabs \cup {"worker", Credentials!Vacant} /\ MaxInterventions \in Nat
  BY BoundsAssumption DEF CredentialTypes
<1>a. /\ \A reason \in Credentials!Pauses : Credentials!Paused(account, reason) \in Credentials!Account
      /\ Credentials!Paused(account, "reauth_required") \in Credentials!Account
  BY <1>t, PausedTyped, PauseNames
<1>i. Credentials!Intervention => interventions' \in 0 .. MaxInterventions
  BY <1>t DEF Credentials!Intervention
<1>q. ASSUME account' \in Credentials!Account, CredentialFit(credential'),
             session' \in PassSession, serials' = serials, tabs' \in [Tabs -> Tab],
             slot' = slot, Credentials!Outside
      PROVE  CredentialTypes'
  BY <1>q, <1>t, <1>i DEF CredentialTypes, CredentialFit, Credentials!Outside
<1>s. Credentials!NoSession \in PassSession
  BY <1>t, SessionTyped
<1>1. CASE Credentials!DisableAccount \/ Credentials!EnableAccount
  <2>1. /\ UNCHANGED <<credential, serials, slot>> /\ Credentials!Outside
        /\ session' \in {session, Credentials!NoSession}
        /\ UNCHANGED tabs \/ Credentials!MoveGeneration
        /\ account' \in {[account EXCEPT !.disabled = TRUE, !.paused = "reauth_required"],
                         [account EXCEPT !.disabled = FALSE]}
    BY <1>1 DEF Credentials!DisableAccount, Credentials!EnableAccount
  <2>2. account' \in Credentials!Account
    <3>1. \A reason \in Credentials!Pauses :
            [account EXCEPT !.disabled = TRUE, !.paused = reason] \in Credentials!Account
      BY <1>t DEF Credentials!Account
    <3>2. [account EXCEPT !.disabled = FALSE] \in Credentials!Account
      BY <1>t DEF Credentials!Account
    <3>3. QED
      BY <2>1, <3>1, <3>2, PauseNames
  <2>3. tabs' \in [Tabs -> Tab] /\ session' \in PassSession
    BY <1>t, <1>s, <2>1, TabsTyped
  <2>4. QED
    BY <1>q, <1>t, <2>1, <2>2, <2>3
<1>2. CASE Credentials!RevokeAccess \/ Credentials!RevokePassSession
  <2>1. /\ UNCHANGED <<credential, serials, slot>> /\ Credentials!Outside
        /\ session' = Credentials!NoSession
        /\ UNCHANGED tabs \/ Credentials!MoveGeneration
        /\ account' = Credentials!Paused(account, "reauth_required")
    BY <1>2 DEF Credentials!RevokeAccess, Credentials!RevokePassSession
  <2>2. tabs' \in [Tabs -> Tab]
    BY <1>t, <2>1, TabsTyped
  <2>3. QED
    BY <1>q, <1>t, <1>a, <1>s, <2>1, <2>2
<1>3. CASE Credentials!RevokeAll
  <2>1. PICK live \in BOOLEAN : live = Credentials!LiveSession
    BY <1>t, SessionTyped
  <2>2. PICK mode \in Credentials!Modes : mode = (IF live THEN "session_only" ELSE "manual")
    BY DEF Credentials!Modes
  <2>3. PICK consented \in BOOLEAN : consented = (account.consented /\ live)
    OBVIOUS
  <2>4. /\ UNCHANGED <<session, serials, tabs, slot>> /\ Credentials!Outside
        /\ credential' \in {credential, Credentials!Revoked(credential)}
        /\ account' \in {account, [account EXCEPT !.enabled = live, !.mode = mode,
                                                  !.consented = consented, !.paused = "none"]}
    BY <1>3, <1>t, <2>1, <2>2, <2>3 DEF Credentials!RevokeAll, Credentials!Account
  <2>5. \A reason \in Credentials!Pauses :
          [account EXCEPT !.enabled = live, !.mode = mode, !.consented = consented,
                          !.paused = reason] \in Credentials!Account
    BY <1>t DEF Credentials!Account
  <2>6. account' \in Credentials!Account /\ CredentialFit(credential')
    BY <1>t, <2>4, <2>5, PauseNames, RevokedFit
  <2>7. QED
    BY <1>q, <1>t, <2>4, <2>6
<1>4. CASE Credentials!ReconcileRead
  <2>1. Credentials!Reconciled \in Credentials!Pauses
    BY <1>t, PauseNames DEF Credentials!Reconciled, Credentials!Account
  <2>2. QED
    BY <1>4, <1>t, <2>1 DEF Credentials!ReconcileRead, CredentialTypes, CredentialFit
<1>5. CASE Credentials!ReconcileWrite
  <2>1. scheduler \in Credentials!Pauses /\ account' = Credentials!Paused(account, scheduler)
    BY <1>5, <1>t DEF Credentials!ReconcileWrite
  <2>2. account' \in Credentials!Account
    BY <1>a, <2>1
  <2>3. QED
    BY <1>5, <1>t, <2>2 DEF Credentials!ReconcileWrite, CredentialTypes, CredentialFit
<1>6. CASE Credentials!SessionRunsOut \/ Credentials!CleanupSessions
  <2>1. /\ UNCHANGED <<account, credential, serials, tabs, slot>> /\ Credentials!Outside
        /\ session' \in {[session EXCEPT !.expired = TRUE], Credentials!NoSession}
    BY <1>6 DEF Credentials!SessionRunsOut, Credentials!CleanupSessions
  <2>2. [session EXCEPT !.expired = TRUE] \in PassSession
    BY <1>t DEF PassSession
  <2>3. QED
    BY <1>q, <1>t, <1>s, <2>1, <2>2
<1>7. CASE Credentials!SwitchRuntime \/ Credentials!LoseLease \/ Credentials!LoseSlot
  <2>1. /\ UNCHANGED <<account, credential, session, serials, worker, tabs, scheduler>>
        /\ Credentials!Intervention /\ runtime' \in BOOLEAN /\ leased' \in BOOLEAN
        /\ slot' \in {slot, Credentials!Vacant}
    BY <1>7, <1>t DEF Credentials!SwitchRuntime, Credentials!LoseLease, Credentials!LoseSlot
  <2>2. QED
    BY <1>t, <1>i, <2>1 DEF CredentialTypes, CredentialFit
<1>8. QED
  BY <1>1, <1>2, <1>3, <1>4, <1>5, <1>6, <1>7 DEF Credentials!Environment

\* Every row of the stored credential has its type, and an envelope is kept
\* exactly while the credential is active.
LEMMA CredentialsTyped == AccountsSpec => []Credentials!TypeOK
<1>1. ASSUME Credentials!Init
      PROVE  CredentialTypes
  <2>1. /\ worker = Credentials!Idle /\ leased = FALSE /\ slot = Credentials!Vacant
        /\ tabs = [t \in Tabs |-> Credentials!TabIdle] /\ scheduler = Credentials!Resting
        /\ runtime = TRUE /\ interventions = 0
    BY <1>1 DEF Credentials!Init
  <2>2. PICK f \in BOOLEAN :
          \/ /\ account = [disabled |-> FALSE, enabled |-> FALSE, mode |-> "manual",
                           consented |-> FALSE, paused |-> "none", ownerFile |-> f]
             /\ credential = [state |-> "none", generation |-> 0, envelope |-> 0]
             /\ serials = [enrolments |-> 0, sessions |-> 0]
             /\ session = Credentials!NoSession
          \/ /\ account = [disabled |-> FALSE, enabled |-> TRUE, mode |-> "autonomous",
                           consented |-> TRUE, paused |-> "none", ownerFile |-> f]
             /\ credential = [state |-> "active", generation |-> 1, envelope |-> 1]
             /\ serials = [enrolments |-> 1, sessions |-> 1]
             /\ session = [id |-> 1, expired |-> FALSE]
    BY <1>1 DEF Credentials!Init
  <2>3. /\ 0 \in 0 .. MaxEnrolments /\ 1 \in 0 .. MaxEnrolments
        /\ 0 \in 0 .. MaxSessions /\ 1 \in 0 .. MaxSessions /\ 0 \in 0 .. MaxInterventions
    BY BoundsAssumption
  <2>4. account \in Credentials!Account
    <3>1. \A enabled, consented \in BOOLEAN, mode \in Credentials!Modes,
             reason \in Credentials!Pauses :
            [disabled |-> FALSE, enabled |-> enabled, mode |-> mode, consented |-> consented,
             paused |-> reason, ownerFile |-> f] \in Credentials!Account
      BY DEF Credentials!Account
    <3>2. "manual" \in Credentials!Modes /\ "autonomous" \in Credentials!Modes
      BY DEF Credentials!Modes
    <3>3. FALSE \in BOOLEAN /\ TRUE \in BOOLEAN /\ "none" \in Credentials!Pauses
      BY PauseNames
    <3>4. CASE account = [disabled |-> FALSE, enabled |-> FALSE, mode |-> "manual",
                          consented |-> FALSE, paused |-> "none", ownerFile |-> f]
      BY <3>1, <3>2, <3>3, <3>4, Zenon
    <3>5. CASE account = [disabled |-> FALSE, enabled |-> TRUE, mode |-> "autonomous",
                          consented |-> TRUE, paused |-> "none", ownerFile |-> f]
      BY <3>1, <3>2, <3>3, <3>5, Zenon
    <3>6. QED
      BY <2>2, <3>4, <3>5
  <2>5. CredentialFit(credential)
    <3>1. credential \in {[state |-> "none", generation |-> 0, envelope |-> 0],
                          [state |-> "active", generation |-> 1, envelope |-> 1]}
      BY <2>2
    <3>2. \A state \in {"none", "active"}, n \in 0 .. MaxEnrolments :
            [state |-> state, generation |-> n, envelope |-> n] \in Credentials!Credential
      BY BoundsAssumption DEF Credentials!Credential
    <3>3. credential \in Credentials!Credential
      BY <2>3, <3>1, <3>2
    <3>4. credential.envelope # 0 <=> credential.state = "active"
      BY <3>1
    <3>5. QED
      BY <3>3, <3>4 DEF CredentialFit
  <2>6. serials \in Serials /\ session \in PassSession
    <3>1. \A n \in 0 .. MaxEnrolments, m \in 0 .. MaxSessions :
            [enrolments |-> n, sessions |-> m] \in Serials
      BY DEF Serials
    <3>2. \A m \in 0 .. MaxSessions : [id |-> m, expired |-> FALSE] \in PassSession
      BY DEF PassSession
    <3>3. Credentials!NoSession \in PassSession
      BY <2>3 DEF PassSession, Credentials!NoSession
    <3>4. QED
      BY <2>2, <2>3, <3>1, <3>2, <3>3
  <2>7. worker \in Run /\ tabs \in [Tabs -> Tab]
    BY <2>1, RunTyped DEF Tab
  <2>8. QED
    BY <2>1, <2>3, <2>4, <2>5, <2>6, <2>7 DEF CredentialTypes
<1>2. CredentialTypes /\ [Credentials!Next]_(Credentials!vars) => CredentialTypes'
  <2>1. CredentialTypes /\ UNCHANGED Credentials!vars => CredentialTypes'
    BY DEF CredentialTypes, CredentialFit, Credentials!vars
  <2>2. QED
    BY <2>1, WorkerTyped, OwnerTyped, EnvironmentTyped DEF Credentials!Next
<1>3. CredentialTypes => Credentials!TypeOK
  <2> SUFFICES ASSUME CredentialTypes
               PROVE  Credentials!TypeOK
    OBVIOUS
  <2>1. worker.at \in RunStages
    BY DEF CredentialTypes, Run
  <2>2. \A t \in Tabs : tabs[t].at \in {"idle", "mode", "verifying", "verified"}
    BY DEF CredentialTypes, Tab, ModeTab, PasswordTab, Credentials!TabIdle
  <2>3. QED
    BY <2>1, <2>2 DEF CredentialTypes, CredentialFit, PassSession, Serials, RunStages,
       Credentials!TypeOK
<1>4. QED
  BY <1>1, <1>2, <1>3, CredentialsAlone, PTL DEF Credentials!Spec

(* Every row of the ten components has its type in every state: the        *)
(* columns of their tables, the fields of the requests, of the runs and of *)
(* the conversations under way.                                            *)
THEOREM TypesHold == AccountsSpec => []TypesOK
<1> DEFINE Focuses == {"schedule", "credentials", "access", "throttle", "conversation",
                       "migration", "reconciliation", "keyset", "results", "board"}
<1>1. AccountsSpec => [](focus \in Focuses)
  <2>1. AccountsInit => focus \in Focuses
    BY DEF AccountsInit
  <2>2. focus \in Focuses /\ [AccountsNext]_accountsVars => (focus \in Focuses)'
    BY DEF AccountsNext, accountsVars, Schedule, CredentialsStep, AccessStep, ThrottleStep,
       ConversationStep, MigrationStep, ReconciliationStep, KeysetStep, ResultsStep, BoardStep
  <2>3. QED
    BY <2>1, <2>2, PTL DEF AccountsSpec
<1>2. AccountsSpec => []Reconciliation!TypeOK
  <2>1. MaxValue \in Nat \ {0} /\ Nobody \notin Operators
    BY SequenceAssumption
  <2>2. ReconciliationProofs!Spec => []ReconciliationProofs!SequenceInv
    BY <2>1, ReconciliationProofs!SequenceKept
  <2>3. ReconciliationProofs!SequenceInv => Reconciliation!TypeOK
    BY DEF ReconciliationProofs!SequenceInv, ReconciliationProofs!TypeOK, Reconciliation!TypeOK,
       ReconciliationProofs!Ids, Reconciliation!Ids, ReconciliationProofs!Modes,
       Reconciliation!Modes, ReconciliationProofs!Steps, Reconciliation!Steps,
       ReconciliationProofs!Seen, Reconciliation!Seen, ReconciliationProofs!Unseen,
       Reconciliation!Unseen, ReconciliationProofs!Receipts, Reconciliation!Receipts
  <2>4. QED
    BY <2>2, <2>3, ReconciliationAlone, PTL
<1>3. AccountsSpec => []Results!TypeOK
  BY ResultsAlone, ResultsInit, ResultsKept, PTL DEF Results!Spec
<1>4. AccountsSpec => []Board!TypeOK
  <2>1. BoardInv => Board!TypeOK
    BY DEF BoardInv
  <2>2. QED
    BY <2>1, BoardAlone, BoardInit, BoardKept, PTL DEF Board!Spec
<1>5. ASSUME focus \in Focuses, TypeOK, Credentials!TypeOK, Access!TypeOK, AuthThrottle!TypeOK,
             Conversation!TypeOK, Migration!TypeOK, Reconciliation!TypeOK, Keyset!TypeOK,
             Results!TypeOK, Board!TypeOK
      PROVE  TypesOK
  BY <1>5, Zenon DEF TypesOK
<1>6. QED
  <2> HIDE DEF Focuses
  <2>1. QED
    BY <1>1, ScheduleTyped, CredentialsTyped, AccessTyped, ThrottleTyped, ConversationTyped,
       MigrationTyped, <1>2, KeysetTyped, <1>3, <1>4, <1>5, PTL
=============================================================================
