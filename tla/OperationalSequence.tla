------------------------ MODULE OperationalSequence ------------------------
(***************************************************************************)
(* The sequence behind pass_system_state.id: the application inserts the   *)
(* singleton with an explicit identifier, which leaves the sequence behind *)
(* it; migration 0029 and the operator's command move the sequence past    *)
(* the row (operational_sequence_reconciliation_v1.py and                  *)
(* operational_sequence_tool.py).                                          *)
(*                                                                         *)
(* PostgreSQL: a sequence does not roll back; ACCESS EXCLUSIVE waits for   *)
(* every transaction that has touched the table and then keeps the others  *)
(* out; an INSERT evaluates nextval under its lock.  The checks of the     *)
(* catalogue are one outcome, that the contract is refused, and any        *)
(* statement may fail.                                                     *)
(***************************************************************************)
EXTENDS Integers, FiniteSetsExt

CONSTANTS
    Writers,     \* transactions of the application
    Operators,   \* check, apply and alembic upgrade, each run once
    MaxValue,    \* the sequence's maximum, 2147483647
    NoHolder

VARIABLES
    rows,      \* identifiers of pass_system_state
    sequence,  \* last_value and is_called
    revision,  \* alembic_version
    writer,    \* the identifier a transaction has inserted, not committed
    table,     \* who holds the table in ACCESS EXCLUSIVE
    advisory,  \* who holds the advisory lock
    operator   \* how far each operator is, what it has read, its receipt

sequenceVars == <<rows, sequence, revision, writer, table, advisory, operator>>

Ids == 1 .. MaxValue
Modes == {"check", "apply", "upgrade"}
Steps == {"idle", "revised", "exclusive", "locked", "inspected", "moved", "confirmed", "ended"}

\* What inspect_operational_sequence has read.
Seen == [last : Ids, called : BOOLEAN, highest : 0 .. MaxValue]
Unseen == [last |-> 1, called |-> FALSE, highest |-> 0]

Receipts == {"none", "safe", "vulnerable", "reconciled", "blocked"}

TypeOK ==
    /\ rows \subseteq Ids /\ sequence \in [last : Ids, called : BOOLEAN]
    /\ revision \in {"0028", "0029"}
    /\ writer \in [Writers -> 0 .. MaxValue]
    /\ table \in Operators \cup {NoHolder} /\ advisory \in Operators \cup {NoHolder}
    /\ operator \in [Operators -> [mode : Modes, pc : Steps, seen : Seen, receipt : Receipts]]

Highest(ids) == Max(ids \cup {0})
Candidate(s) == IF s.called THEN s.last + 1 ELSE s.last

\* OperationalSequenceState.reconciled_safe.
ReconciledSafe(s, highest) == s.called /\ Candidate(s) > highest /\ Candidate(s) <= MaxValue

\* A database at 0028: the row, if there, has any identifier a restored or
\* migrated database may hold.
Init ==
    /\ rows \in {{}} \cup {{i} : i \in Ids}
    /\ sequence \in [last : Ids, called : BOOLEAN]
    /\ revision = "0028"
    /\ writer = [w \in Writers |-> 0]
    /\ table = NoHolder /\ advisory = NoHolder
    /\ operator \in [Operators -> [mode : Modes, pc : {"idle"}, seen : {Unseen},
                                   receipt : {"none"}]]

-----------------------------------------------------------------------------
(* The application.                                                        *)

Taken == rows \cup {writer[w] : w \in Writers}

\* _system_state, update_circuit and assert_auth_allowed: the singleton is
\* inserted when it is missing, with the identifier 1.
InsertSingleton(w) ==
    /\ table = NoHolder /\ writer[w] = 0 /\ 1 \notin Taken
    /\ writer' = [writer EXCEPT ![w] = 1]
    /\ UNCHANGED <<rows, sequence, revision, table, advisory, operator>>

\* An INSERT that leaves the identifier to its default; a collision with a
\* row fails, and has used the value up.
InsertDefault(w) ==
    LET value == Candidate(sequence) IN
    /\ table = NoHolder /\ writer[w] = 0 /\ value <= MaxValue
    /\ sequence' = [last |-> value, called |-> TRUE]
    /\ writer' = [writer EXCEPT ![w] = IF value \in Taken THEN 0 ELSE value]
    /\ UNCHANGED <<rows, revision, table, advisory, operator>>

CommitInsert(w) ==
    /\ writer[w] # 0
    /\ rows' = rows \cup {writer[w]} /\ writer' = [writer EXCEPT ![w] = 0]
    /\ UNCHANGED <<sequence, revision, table, advisory, operator>>

RollBackInsert(w) ==
    /\ writer[w] # 0
    /\ writer' = [writer EXCEPT ![w] = 0]
    /\ UNCHANGED <<rows, sequence, revision, table, advisory, operator>>

-----------------------------------------------------------------------------
(* The operators.                                                          *)

To(o, step) == operator' = [operator EXCEPT ![o].pc = step]

\* The transaction ends and frees its locks.
End(o, receipt) ==
    /\ operator' = [operator EXCEPT ![o].pc = "ended", ![o].receipt = receipt]
    /\ table' = IF table = o THEN NoHolder ELSE table
    /\ advisory' = IF advisory = o THEN NoHolder ELSE advisory

Working(o) == operator[o].pc \notin {"idle", "ended"}

\* A statement fails, a lock is not granted in time, the contract is not what
\* was frozen, the process dies; setval stays.
Stop(o) ==
    /\ operator[o].pc # "ended"
    /\ End(o, "blocked")
    /\ UNCHANGED <<rows, sequence, revision, writer>>

\* database_revision, before anything is locked.
ReadRevision(o) ==
    /\ operator[o].pc = "idle" /\ operator[o].mode # "check"
    /\ IF revision = "0028" THEN To(o, "revised") /\ UNCHANGED <<table, advisory>>
       ELSE End(o, "blocked")
    /\ UNCHANGED <<rows, sequence, revision, writer>>

\* pg_try_advisory_xact_lock.
TakeAdvisory(o) ==
    /\ operator[o].pc = "revised"
    /\ IF advisory = NoHolder THEN To(o, "exclusive") /\ advisory' = o /\ UNCHANGED table
       ELSE End(o, "blocked")
    /\ UNCHANGED <<rows, sequence, revision, writer>>

\* ACCESS EXCLUSIVE is granted once no transaction has touched the table.
TableFree == \A w \in Writers : writer[w] = 0

\* Mutant: the lock ends with its statement.
LockTableBriefly(o) ==
    /\ operator[o].pc = "exclusive" /\ table = NoHolder /\ TableFree /\ revision = "0028"
    /\ To(o, "locked")
    /\ UNCHANGED <<rows, sequence, revision, writer, table, advisory>>

\* LOCK TABLE, then the revision again.  The application's connections, which
\* the command counts, are those of the writers.
LockTable(o) ==
    /\ operator[o].pc = "exclusive" /\ table = NoHolder /\ TableFree
    /\ IF revision = "0028" THEN To(o, "locked") /\ table' = o /\ UNCHANGED advisory
       ELSE End(o, "blocked")
    /\ UNCHANGED <<rows, sequence, revision, writer>>

\* inspect_operational_sequence reads the sequence, then the table; the
\* command's check does so without a lock.
InspectSequence(o) ==
    /\ operator[o].pc = (IF operator[o].mode = "check" THEN "idle" ELSE "locked")
    /\ operator' = [operator EXCEPT ![o].pc = "inspected",
           ![o].seen = [last |-> sequence.last, called |-> sequence.called, highest |-> 0]]
    /\ UNCHANGED <<rows, sequence, revision, writer, table, advisory>>

\* Mutant: a candidate that no row has is enough.
SafeIfFree(s, highest) == Candidate(s) # highest

SeenSafe(s, highest) == ReconciledSafe(s, highest)

Larger(i, j) == IF i > j THEN i ELSE j

\* The second read, and what follows from both: the receipt, or setval.
\* setval(safe_anchor, true); the anchor is the larger of the two values.
InspectTable(o) ==
    LET seen == operator[o].seen
        highest == Highest(rows)
        anchor == Larger(seen.last, highest)
    IN
    /\ operator[o].pc = "inspected"
    /\ IF Cardinality(rows) # 1 \/ anchor >= MaxValue
       THEN End(o, "blocked") /\ UNCHANGED <<sequence, revision>>
       ELSE IF operator[o].mode = "check"
       THEN /\ End(o, IF SeenSafe(seen, highest) THEN "safe" ELSE "vulnerable")
            /\ UNCHANGED <<sequence, revision>>
       ELSE IF SeenSafe(seen, highest)
       THEN To(o, "confirmed") /\ UNCHANGED <<sequence, revision, table, advisory>>
       ELSE /\ operator' = [operator EXCEPT ![o].pc = "moved", ![o].seen.highest = highest]
            /\ sequence' = [last |-> anchor, called |-> TRUE]
            /\ UNCHANGED <<revision, table, advisory>>
    /\ UNCHANGED <<rows, writer>>

\* The second inspection and the revision, after setval.
Confirm(o) ==
    LET seen == operator[o].seen
        anchor == Larger(seen.last, seen.highest)
    IN
    /\ operator[o].pc = "moved"
    /\ IF /\ sequence = [last |-> anchor, called |-> TRUE]
          /\ Candidate(sequence) > Highest(rows) /\ Cardinality(rows) = 1 /\ revision = "0028"
       THEN To(o, "confirmed") /\ UNCHANGED <<table, advisory>>
       ELSE End(o, "blocked")
    /\ UNCHANGED <<rows, sequence, revision, writer>>

\* The command, whose last look at the revision is under the advisory lock,
\* commits and reports; alembic writes its version and commits.
Commit(o) ==
    /\ operator[o].pc = "confirmed"
    /\ IF operator[o].mode = "upgrade" THEN revision' = "0029" ELSE UNCHANGED revision
    /\ End(o, IF operator[o].seen.highest = 0 THEN "safe" ELSE "reconciled")
    /\ UNCHANGED <<rows, sequence, writer>>

\* The operator, or alembic, is run again.
Rerun(o) ==
    /\ operator[o].pc = "ended" /\ operator[o].receipt = "blocked"
    /\ operator' = [operator EXCEPT ![o].pc = "idle", ![o].seen = Unseen, ![o].receipt = "none"]
    /\ UNCHANGED <<rows, sequence, revision, writer, table, advisory>>

Next ==
    \/ \E w \in Writers : \/ InsertSingleton(w) \/ InsertDefault(w)
                          \/ CommitInsert(w) \/ RollBackInsert(w)
    \/ \E o \in Operators : \/ Stop(o) \/ ReadRevision(o) \/ TakeAdvisory(o) \/ LockTable(o)
                            \/ InspectSequence(o) \/ InspectTable(o) \/ Confirm(o) \/ Commit(o)
                            \/ Rerun(o)

Spec == Init /\ [][Next]_sequenceVars

-----------------------------------------------------------------------------
\* The next value of the sequence is above every row, committed or not.
Safe == sequence.called /\ Candidate(sequence) > Highest(Taken)

\* Once the migration has committed, or an operator was told "safe" or
\* "reconciled", no insertion can collide, whoever inserts afterwards.
SafeOnceTold ==
    revision = "0029" \/ (\E o \in Operators : operator[o].receipt \in {"safe", "reconciled"})
    => Safe

\* Whatever runs together and wherever it stops, the sequence never goes back
\* and a value it has given is never given again.
NeverBack == [][/\ sequence'.last >= sequence.last
                /\ sequence.called => sequence'.called]_sequenceVars

SequenceSound == []SafeOnceTold /\ NeverBack
=============================================================================
