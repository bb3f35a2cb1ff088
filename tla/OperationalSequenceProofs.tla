---------------------- MODULE OperationalSequenceProofs ----------------------
(***************************************************************************)
(* What an operator is told about the sequence stays true, for any number  *)
(* of operators and of transactions and for every maximum of the sequence. *)
(*                                                                         *)
(* The inductive invariant says who holds the table while a value that was *)
(* read is still acted upon, that an identifier not yet committed is the 1 *)
(* of the singleton or came from the sequence, and that what a check has   *)
(* read of the sequence is behind it at worst, for it never goes back.     *)
(***************************************************************************)
EXTENDS OperationalSequence, WellFoundedInduction, TLAPS

\* Every identifier, committed or not, was given before: Safe, without Max.
Past == sequence.called = TRUE /\ \A i \in Taken : i <= sequence.last

\* An operator that acts on what it has read holds the table.
ExclusiveHeld ==
    \A o \in Operators :
        \/ operator[o].pc \in {"locked", "moved", "confirmed"}
        \/ operator[o].pc = "inspected" /\ operator[o].mode # "check"
        => table = o

WritersOut == table # NoHolder => TableFree

FromSequence ==
    \A w \in Writers :
        writer[w] > 1 => sequence.called = TRUE /\ writer[w] <= sequence.last

\* What InspectSequence has read; under the table's lock it is still current.
SeenBehind ==
    \A o \in Operators :
        operator[o].pc = "inspected" =>
            /\ operator[o].seen.last <= sequence.last
            /\ operator[o].seen.called = TRUE => sequence.called = TRUE
            /\ operator[o].mode # "check" => operator[o].seen.last = sequence.last

Told ==
    \/ revision = "0029"
    \/ \E o \in Operators : \/ operator[o].receipt \in {"safe", "reconciled"}
                            \/ operator[o].pc = "confirmed"

SequenceInv ==
    /\ TypeOK
    /\ ExclusiveHeld /\ WritersOut /\ FromSequence /\ SeenBehind
    /\ Told => Past

\* Highest(ids) is the largest of the identifiers, 0 when there is none.
LEMMA HighestIsLargest ==
    ASSUME NEW ids \in SUBSET (0 .. MaxValue), MaxValue \in Nat
    PROVE  /\ Highest(ids) \in 0 .. MaxValue
           /\ Highest(ids) \in ids \cup {0}
           /\ \A i \in ids : i <= Highest(ids)
<1> DEFINE all == ids \cup {0}
           below == {ss \in Nat \X Nat : ss[1] < ss[2]}
           gap == {n \in Nat : \A i \in all : i <= n}
<1>1. all \subseteq Nat /\ MaxValue \in gap
  BY SMT
<1>2. \E n \in gap : \A m \in gap : n <= m
  <2> HIDE DEF gap
  <2>1. IsWellFoundedOn(below, Nat)
    BY NatLessThanWellFounded, Zenon DEF OpToRel
  <2> HIDE DEF below
  <2>2. gap \subseteq Nat /\ gap # {}
    BY <1>1 DEF gap
  <2>3. PICK n \in gap : \A m \in gap : <<m, n>> \notin below
    BY <2>1, <2>2, WFMin, Zenon
  <2>4. \A m \in gap : ~(m < n)
    <3>1. ASSUME NEW m \in Nat, NEW k \in Nat, m < k
          PROVE  <<m, k>> \in below
      <4> DEFINE pair == <<m, k>>
      <4>1. pair \in Nat \X Nat /\ pair[1] < pair[2]
        BY <3>1, SMT
      <4> HIDE DEF pair
      <4> QED
        BY <4>1, Zenon DEF below, pair
    <3> QED
      BY <2>2, <2>3, <3>1, Zenon
  <2> QED
    BY <2>2, <2>4, SMT
<1>3. PICK n \in gap : \A m \in gap : n <= m
  BY <1>2
<1>4. n \in all
  <2>1. CASE n = 0
    BY <2>1
  <2>2. CASE n # 0 /\ n \notin all
    <3>1. n - 1 \in gap
      BY <1>1, <2>2, SMT
    <3> QED
      BY <1>3, <3>1, SMT
  <2> QED
    BY <2>1, <2>2
<1>5. Max(all) \in all /\ \A i \in all : Max(all) >= i
  <2> HIDE DEF all
  <2>1. \E x \in all : \A y \in all : x >= y
    BY <1>1, <1>3, <1>4, SMT DEF gap
  <2> QED
    BY <2>1, Zenon DEF Max
<1>6. ASSUME NEW h, h \in all, \A i \in all : h >= i
      PROVE  h \in 0 .. MaxValue /\ h \in ids \cup {0} /\ \A i \in ids : i <= h
  BY <1>6, SMT
<1> HIDE DEF all
<1>7. Highest(ids) \in all /\ \A i \in all : Highest(ids) >= i
  BY <1>5, Zenon DEF Highest, all
<1> QED
  BY <1>6, <1>7, Zenon

\* Every step of a writer and of an operator keeps the invariant, and none of
\* them takes the sequence back.
LEMMA SequenceKept ==
    ASSUME MaxValue \in Nat \ {0}, NoHolder \notin Operators
    PROVE  Spec => []SequenceInv /\ SequenceSound
<1> DEFINE Rows == [mode : Modes, pc : Steps, seen : Seen, receipt : Receipts]
           Kept(o) == \A p \in Operators \ {o} : operator'[p] = operator[p]
<1>1. ASSUME TypeOK, NEW o \in Operators, NEW step \in Steps, To(o, step)
      PROVE  /\ operator' \in [Operators -> Rows] /\ Kept(o)
             /\ operator'[o].pc = step /\ operator'[o].mode = operator[o].mode
             /\ operator'[o].seen = operator[o].seen
             /\ operator'[o].receipt = operator[o].receipt
  BY <1>1, SMT DEF TypeOK, To
<1>2. ASSUME TypeOK, NEW o \in Operators, NEW receipt \in Receipts, End(o, receipt)
      PROVE  /\ operator' \in [Operators -> Rows] /\ Kept(o)
             /\ operator'[o].pc = "ended" /\ operator'[o].receipt = receipt
             /\ table' = IF table = o THEN NoHolder ELSE table
             /\ advisory' \in Operators \cup {NoHolder}
             /\ table' \in Operators \cup {NoHolder}
  <2>1. operator' = [operator EXCEPT ![o].pc = "ended", ![o].receipt = receipt]
    BY <1>2 DEF End
  <2>2. operator \in [Operators -> Rows]
    BY <1>2 DEF TypeOK
  <2>3. "ended" \in Steps
    BY DEF Steps
  <2> HIDE DEF Rows
  <2>4. operator[o] \in Rows
    BY <2>2
  <2>5. operator'[o] = [operator[o] EXCEPT !.pc = "ended", !.receipt = receipt]
    BY <2>1, <2>2
  <2>6. operator'[o] \in Rows /\ operator'[o].pc = "ended" /\ operator'[o].receipt = receipt
    <3>1. ASSUME NEW r \in Rows, NEW q, q = [r EXCEPT !.pc = "ended", !.receipt = receipt]
          PROVE  q \in Rows /\ q.pc = "ended" /\ q.receipt = receipt
      BY <1>2, <2>3, <3>1 DEF Rows
    <3> QED
      BY <2>4, <2>5, <3>1, Zenon
  <2>7. operator' \in [Operators -> Rows] /\ Kept(o)
    BY <2>1, <2>2, <2>6
  <2>8. /\ table' = IF table = o THEN NoHolder ELSE table
        /\ advisory' = IF advisory = o THEN NoHolder ELSE advisory
        /\ table \in Operators \cup {NoHolder} /\ advisory \in Operators \cup {NoHolder}
    BY <1>2, Zenon DEF End, TypeOK
  <2> QED
    BY <2>6, <2>7, <2>8
<1>3. TypeOK => (Safe <=> Past)
  <2> SUFFICES ASSUME TypeOK
               PROVE  Safe <=> Past
    OBVIOUS
  <2>1. Taken \in SUBSET (0 .. MaxValue)
    <3>1. rows \subseteq 0 .. MaxValue /\ \A w \in Writers : writer[w] \in 0 .. MaxValue
      BY SMT DEF TypeOK, Ids
    <3> QED
      BY <3>1, Zenon DEF Taken
  <2> DEFINE h == Highest(Taken)
  <2>2. h \in 0 .. MaxValue /\ h \in Taken \cup {0} /\ \A i \in Taken : i <= h
    BY <2>1, HighestIsLargest, Zenon
  <2>3. Safe <=> sequence.called = TRUE /\ Candidate(sequence) > h
    BY Zenon DEF Safe, TypeOK
  <2> HIDE DEF h
  <2>4. sequence.last \in Nat \ {0}
    BY SMT DEF TypeOK, Ids
  <2> QED
    BY <2>1, <2>2, <2>3, <2>4, SMT DEF Past, Candidate
<1>4. ASSUME SequenceInv, NEW o \in Operators, operator[o].pc = "inspected",
             SeenSafe(operator[o].seen, Highest(rows))
      PROVE  Past
  <2> DEFINE h == Highest(rows)
             read == operator[o].seen
  <2>1. rows \in SUBSET (0 .. MaxValue) /\ rows \subseteq Nat
    BY <1>4, SMT DEF SequenceInv, TypeOK, Ids
  <2>2. h \in 0 .. MaxValue /\ \A i \in rows : i <= h
    BY <2>1, HighestIsLargest, Zenon
  <2>3. read \in Seen /\ sequence.last \in Ids
    BY <1>4, SMT DEF SequenceInv, TypeOK
  <2>4. read.last \in Ids /\ read.called \in BOOLEAN
    BY <2>3 DEF Seen
  <2>5. read.last <= sequence.last /\ (read.called = TRUE => sequence.called = TRUE)
    BY <1>4, Zenon DEF SequenceInv, SeenBehind
  <2>6. read.called = TRUE /\ Candidate(read) > h
    BY <1>4, <2>4, Zenon DEF SeenSafe, ReconciledSafe
  <2>7. \A w \in Writers : /\ writer[w] \in Nat
                           /\ writer[w] > 1 => writer[w] <= sequence.last
    BY <1>4, SMT DEF SequenceInv, TypeOK, FromSequence
  <2> HIDE DEF h, read
  <2>8. \A i \in rows : i <= sequence.last
    BY <2>1, <2>2, <2>3, <2>4, <2>5, <2>6, SMT DEF Candidate, Ids
  <2>9. \A w \in Writers : writer[w] <= sequence.last
    BY <2>3, <2>7, SMT DEF Ids
  <2> QED
    BY <2>5, <2>6, <2>8, <2>9, Zenon DEF Past, Taken
<1>5. ASSUME SequenceInv, NEW o \in Operators,
             UNCHANGED <<rows, sequence, writer>>,
             revision' \in {"0028", "0029"}, advisory' \in Operators \cup {NoHolder},
             \/ table' = table
             \/ table = o /\ table' = NoHolder
             \/ table = NoHolder /\ table' = o /\ TableFree,
             operator' \in [Operators -> Rows], Kept(o),
             \/ operator'[o].pc \in {"locked", "moved", "confirmed"}
             \/ operator'[o].pc = "inspected" /\ operator'[o].mode # "check"
             => table' = o,
             operator'[o].pc = "inspected" =>
                 /\ operator'[o].seen.last = sequence.last
                 /\ operator'[o].seen.called = sequence.called,
             \/ revision' = "0029"
             \/ operator'[o].receipt \in {"safe", "reconciled"}
             \/ operator'[o].pc = "confirmed"
             => Past \/ Told
      PROVE  SequenceInv'
  <2>1. TypeOK'
    BY <1>5, SMT DEF SequenceInv, TypeOK
  <2>2. ExclusiveHeld'
    BY <1>5, SMT DEF SequenceInv, ExclusiveHeld
  <2>3. WritersOut'
    BY <1>5, SMT DEF SequenceInv, WritersOut, TableFree
  <2>4. FromSequence'
    BY <1>5, SMT DEF SequenceInv, FromSequence
  <2>5. SeenBehind'
    BY <1>5, SMT DEF SequenceInv, SeenBehind, TypeOK, Ids
  <2>6. Told' => Past'
    <3>1. Past => Past'
      BY <1>5 DEF Past, Taken
    <3>2. Told' => Past \/ Told
      BY <1>5, SMT DEF Told
    <3> QED
      BY <1>5, <3>1, <3>2 DEF SequenceInv
  <2> QED
    BY <2>1, <2>2, <2>3, <2>4, <2>5, <2>6 DEF SequenceInv
<1>6. Init => SequenceInv
  <2> SUFFICES ASSUME Init
               PROVE  SequenceInv
    OBVIOUS
  <2>1. 1 \in Ids /\ rows \subseteq Ids /\ Unseen \in Seen
    BY SMT DEF Init, Ids, Unseen, Seen
  <2>2. operator \in [Operators -> Rows]
    BY <2>1, Zenon DEF Init, Rows, Modes, Steps, Receipts
  <2>3. /\ \A w \in Writers : writer[w] = 0
        /\ \A o \in Operators : operator[o].pc = "idle" /\ operator[o].receipt = "none"
        /\ table = NoHolder /\ revision = "0028"
    BY Zenon DEF Init
  <2>4. writer \in [Writers -> 0 .. MaxValue]
    BY SMT DEF Init
  <2>5. TypeOK
    BY <2>1, <2>2, <2>3, <2>4, Zenon DEF Init, TypeOK
  <2> QED
    BY <2>3, <2>5, SMT
    DEF SequenceInv, ExclusiveHeld, WritersOut, FromSequence, SeenBehind, Told
<1>7. ASSUME SequenceInv, NEW o \in Operators, Stop(o)
      PROVE  SequenceInv'
  <2>1. "blocked" \in Receipts /\ End(o, "blocked") /\ TypeOK
    BY <1>7 DEF Stop, Receipts, SequenceInv
  <2>2. UNCHANGED <<rows, sequence, revision, writer>>
    BY <1>7 DEF Stop
  <2> HIDE DEF Rows, Kept
  <2> QED
    BY <1>2, <1>5, <1>7, <2>1, <2>2, SMT DEF TypeOK, Told
<1>8. ASSUME SequenceInv, NEW o \in Operators, ReadRevision(o)
      PROVE  SequenceInv'
  <2>1. /\ "blocked" \in Receipts /\ "revised" \in Steps /\ TypeOK
        /\ UNCHANGED <<rows, sequence, revision, writer>>
    BY <1>8 DEF ReadRevision, Receipts, Steps, SequenceInv
  <2> HIDE DEF Rows, Kept
  <2>2. CASE To(o, "revised") /\ UNCHANGED <<table, advisory>>
    BY <1>1, <1>5, <1>8, <2>1, <2>2, SMT DEF TypeOK, Told
  <2>3. CASE End(o, "blocked")
    BY <1>2, <1>5, <1>8, <2>1, <2>3, SMT DEF TypeOK, Told
  <2> QED
    BY <1>8, <2>2, <2>3 DEF ReadRevision
<1>9. ASSUME SequenceInv, NEW o \in Operators, TakeAdvisory(o)
      PROVE  SequenceInv'
  <2>1. /\ "blocked" \in Receipts /\ "exclusive" \in Steps /\ TypeOK
        /\ UNCHANGED <<rows, sequence, revision, writer>>
    BY <1>9 DEF TakeAdvisory, Receipts, Steps, SequenceInv
  <2> HIDE DEF Rows, Kept
  <2>2. CASE To(o, "exclusive") /\ advisory' = o /\ UNCHANGED table
    BY <1>1, <1>5, <1>9, <2>1, <2>2, SMT DEF TypeOK, Told
  <2>3. CASE End(o, "blocked")
    BY <1>2, <1>5, <1>9, <2>1, <2>3, SMT DEF TypeOK, Told
  <2> QED
    BY <1>9, <2>2, <2>3 DEF TakeAdvisory
<1>10. ASSUME SequenceInv, NEW o \in Operators, LockTable(o)
       PROVE  SequenceInv'
  <2>1. /\ "blocked" \in Receipts /\ "locked" \in Steps /\ TypeOK
        /\ UNCHANGED <<rows, sequence, revision, writer>> /\ table = NoHolder /\ TableFree
    BY <1>10 DEF LockTable, Receipts, Steps, SequenceInv
  <2> HIDE DEF Rows, Kept
  <2>2. CASE To(o, "locked") /\ table' = o /\ UNCHANGED advisory
    BY <1>1, <1>5, <1>10, <2>1, <2>2, SMT DEF TypeOK, Told
  <2>3. CASE End(o, "blocked")
    BY <1>2, <1>5, <1>10, <2>1, <2>3, SMT DEF TypeOK, Told
  <2> QED
    BY <1>10, <2>2, <2>3 DEF LockTable
<1>11. ASSUME SequenceInv, NEW o \in Operators, InspectSequence(o)
       PROVE  SequenceInv'
  <2>1. /\ TypeOK /\ "inspected" \in Steps
        /\ UNCHANGED <<rows, sequence, revision, writer, table, advisory>>
        /\ operator' = [operator EXCEPT ![o].pc = "inspected",
               ![o].seen = [last |-> sequence.last, called |-> sequence.called, highest |-> 0]]
    BY <1>11, Zenon DEF InspectSequence, Steps, SequenceInv
  <2>2. [last |-> sequence.last, called |-> sequence.called, highest |-> 0] \in Seen
    BY <2>1, SMT DEF TypeOK, Seen
  <2>3. operator \in [Operators -> Rows]
    BY <2>1 DEF TypeOK
  <2>4. /\ operator' \in [Operators -> Rows] /\ Kept(o)
        /\ operator'[o].pc = "inspected" /\ operator'[o].mode = operator[o].mode
        /\ operator'[o].receipt = operator[o].receipt
        /\ operator'[o].seen.last = sequence.last /\ operator'[o].seen.called = sequence.called
    <3> DEFINE read == [last |-> sequence.last, called |-> sequence.called, highest |-> 0]
    <3>1. ASSUME NEW r \in Rows, NEW q, q = [r EXCEPT !.pc = "inspected", !.seen = read]
          PROVE  /\ q \in Rows /\ q.pc = "inspected" /\ q.mode = r.mode
                 /\ q.receipt = r.receipt /\ q.seen = read
      <4> HIDE DEF read
      <4> QED
        BY <2>1, <2>2, <3>1 DEF read
    <3>2. read.last = sequence.last /\ read.called = sequence.called
      OBVIOUS
    <3> HIDE DEF Rows, read
    <3>3. operator[o] \in Rows
      BY <2>3
    <3>4. operator'[o] = [operator[o] EXCEPT !.pc = "inspected", !.seen = read]
      BY <2>1, <2>3 DEF read
    <3>5. /\ operator'[o] \in Rows /\ operator'[o].pc = "inspected"
          /\ operator'[o].mode = operator[o].mode /\ operator'[o].receipt = operator[o].receipt
          /\ operator'[o].seen = read
      BY <3>1, <3>3, <3>4, Zenon
    <3>6. operator' \in [Operators -> Rows] /\ Kept(o)
      BY <2>1, <2>3, <3>5
    <3> QED
      BY <3>2, <3>5, <3>6
  <2>5. operator[o].mode # "check" => table = o
    BY <1>11, Zenon DEF InspectSequence, SequenceInv, ExclusiveHeld
  <2> HIDE DEF Rows, Kept
  <2> QED
    BY <1>5, <1>11, <2>1, <2>4, <2>5, SMT DEF TypeOK, Told
<1>12. ASSUME SequenceInv, NEW o \in Operators, Confirm(o)
       PROVE  SequenceInv'
  <2>1. /\ TypeOK /\ "blocked" \in Receipts /\ "confirmed" \in Steps
        /\ UNCHANGED <<rows, sequence, revision, writer>> /\ operator[o].pc = "moved"
    BY <1>12, Zenon DEF Confirm, Receipts, Steps, SequenceInv
  <2>2. table = o
    BY <1>12, <2>1, Zenon DEF SequenceInv, ExclusiveHeld
  <2>3. CASE To(o, "confirmed") /\ UNCHANGED <<table, advisory>>
             /\ sequence.called = TRUE /\ Candidate(sequence) > Highest(rows)
    <3>1. Past
      <4> DEFINE h == Highest(rows)
      <4>1. rows \in SUBSET (0 .. MaxValue) /\ rows \subseteq Nat /\ sequence.last \in Nat \ {0}
        BY <2>1, SMT DEF TypeOK, Ids
      <4>2. h \in 0 .. MaxValue /\ \A i \in rows : i <= h
        BY <4>1, HighestIsLargest, Zenon
      <4>3. Candidate(sequence) > h /\ sequence.called = TRUE
        BY <2>3, Zenon
      <4> HIDE DEF h
      <4>4. \A i \in rows : i <= sequence.last
        BY <4>1, <4>2, <4>3, SMT DEF Candidate
      <4>5. \A w \in Writers : writer[w] <= sequence.last
        BY <1>12, <2>2, <4>1, SMT DEF SequenceInv, WritersOut, TableFree
      <4> QED
        BY <4>3, <4>4, <4>5, Zenon DEF Past, Taken
    <3> HIDE DEF Rows, Kept
    <3> QED
      BY <1>1, <1>5, <1>12, <2>1, <2>2, <2>3, <3>1, SMT DEF TypeOK
  <2>4. CASE End(o, "blocked")
    <3> HIDE DEF Rows, Kept
    <3> QED
      BY <1>2, <1>5, <1>12, <2>1, <2>4, SMT DEF TypeOK, Told
  <2>5. sequence = [last |-> Larger(operator[o].seen.last, operator[o].seen.highest),
                    called |-> TRUE]
        => sequence.called = TRUE
    OBVIOUS
  <2> QED
    BY <1>12, <2>3, <2>4, <2>5, Zenon DEF Confirm
<1>13. ASSUME SequenceInv, NEW o \in Operators, Commit(o)
       PROVE  SequenceInv'
  <2>1. /\ TypeOK /\ UNCHANGED <<rows, sequence, writer>>
        /\ revision' \in {"0028", "0029"} /\ Told
    BY <1>13, SMT DEF Commit, SequenceInv, TypeOK, Told
  <2>2. PICK receipt \in Receipts : End(o, receipt)
    BY <1>13, Zenon DEF Commit, Receipts
  <2> HIDE DEF Rows, Kept
  <2> QED
    BY <1>2, <1>5, <1>13, <2>1, <2>2, SMT DEF TypeOK
<1>14. ASSUME SequenceInv, NEW o \in Operators, Rerun(o)
       PROVE  SequenceInv'
  <2>1. /\ TypeOK /\ UNCHANGED <<rows, sequence, revision, writer, table, advisory>>
        /\ operator' = [operator EXCEPT ![o].pc = "idle", ![o].seen = Unseen,
                                        ![o].receipt = "none"]
    BY <1>14, Zenon DEF Rerun, SequenceInv
  <2>2. Unseen \in Seen /\ "idle" \in Steps /\ "none" \in Receipts
    BY SMT DEF Unseen, Seen, Ids, Steps, Receipts
  <2>3. operator \in [Operators -> Rows]
    BY <2>1 DEF TypeOK
  <2>4. /\ operator' \in [Operators -> Rows] /\ Kept(o)
        /\ operator'[o].pc = "idle" /\ operator'[o].receipt = "none"
    <3>1. ASSUME NEW r \in Rows, NEW q,
                 q = [r EXCEPT !.pc = "idle", !.seen = Unseen, !.receipt = "none"]
          PROVE  q \in Rows /\ q.pc = "idle" /\ q.receipt = "none"
      BY <2>2, <3>1
    <3> HIDE DEF Rows
    <3>2. operator[o] \in Rows
      BY <2>3
    <3>3. operator'[o] = [operator[o] EXCEPT !.pc = "idle", !.seen = Unseen, !.receipt = "none"]
      BY <2>1, <2>3
    <3>4. operator'[o] \in Rows /\ operator'[o].pc = "idle" /\ operator'[o].receipt = "none"
      BY <3>1, <3>2, <3>3, Zenon
    <3> QED
      BY <2>1, <2>3, <3>4
  <2> HIDE DEF Rows, Kept
  <2> QED
    BY <1>5, <1>14, <2>1, <2>4, SMT DEF TypeOK, Told
<1>15. ASSUME SequenceInv, NEW o \in Operators, InspectTable(o)
       PROVE  SequenceInv' /\ sequence'.last >= sequence.last
              /\ (sequence.called = TRUE => sequence'.called = TRUE)
  <2> DEFINE h == Highest(rows)
             read == operator[o].seen
             anchor == Larger(read.last, h)
             Moves == /\ operator' = [operator EXCEPT ![o].pc = "moved", ![o].seen.highest = h]
                      /\ sequence' = [last |-> anchor, called |-> TRUE]
                      /\ UNCHANGED <<revision, table, advisory>>
  <2>1. /\ TypeOK /\ operator[o].pc = "inspected" /\ UNCHANGED <<rows, writer>>
        /\ {"blocked", "safe", "vulnerable"} \subseteq Receipts
        /\ {"moved", "confirmed"} \subseteq Steps
    BY <1>15, Zenon DEF InspectTable, SequenceInv, Receipts, Steps
  <2>2. SeenSafe(read, h) => Past
    BY <1>4, <1>15, <2>1, Zenon
  <2>3. CASE End(o, "blocked") /\ UNCHANGED <<sequence, revision>>
    <3> HIDE DEF Rows, Kept, Moves
    <3>1. SequenceInv'
      BY <1>2, <1>5, <1>15, <2>1, <2>3, SMT DEF TypeOK, Told
    <3> QED
      BY <3>1, <2>1, <2>3, SMT DEF TypeOK, Ids
  <2>4. CASE /\ End(o, IF SeenSafe(read, h) THEN "safe" ELSE "vulnerable")
             /\ UNCHANGED <<sequence, revision>>
    <3>1. PICK receipt \in Receipts : End(o, receipt) /\ (receipt # "vulnerable" => Past)
      BY <2>1, <2>2, <2>4, Zenon
    <3> HIDE DEF Rows, Kept, Moves
    <3>2. receipt \in {"safe", "reconciled"} => Past
      BY <3>1
    <3>3. SequenceInv'
      BY <1>2, <1>5, <1>15, <2>1, <2>4, <3>1, <3>2, SMT DEF TypeOK, Told
    <3> QED
      BY <3>3, <2>1, <2>4, SMT DEF TypeOK, Ids
  <2>5. CASE SeenSafe(read, h) /\ To(o, "confirmed") /\ operator[o].mode # "check"
             /\ UNCHANGED <<sequence, revision, table, advisory>>
    <3>1. table = o
      BY <1>15, <2>1, <2>5, Zenon DEF SequenceInv, ExclusiveHeld
    <3>2. Past
      BY <2>2, <2>5
    <3> HIDE DEF Rows, Kept, Moves
    <3>3. SequenceInv'
      BY <1>1, <1>5, <1>15, <2>1, <2>5, <3>1, <3>2, SMT DEF TypeOK
    <3> QED
      BY <3>3, <2>1, <2>5, SMT DEF TypeOK, Ids
  <2>6. CASE Moves /\ operator[o].mode # "check" /\ ~(anchor >= MaxValue)
    <3>1. table = o /\ TableFree /\ read.last = sequence.last
      BY <1>15, <2>1, <2>6, Zenon DEF SequenceInv, ExclusiveHeld, WritersOut, SeenBehind
    <3>2. h \in 0 .. MaxValue /\ sequence.last \in Ids
      <4>1. rows \in SUBSET (0 .. MaxValue) /\ sequence.last \in Ids
        BY <2>1, SMT DEF TypeOK, Ids
      <4> QED
        BY <4>1, HighestIsLargest, Zenon
    <3> HIDE DEF h
    <3>3. anchor \in Ids /\ anchor >= sequence.last
      BY <3>1, <3>2, SMT DEF Larger, Ids
    <3>4. operator \in [Operators -> Rows]
      BY <2>1 DEF TypeOK
    <3>5. /\ operator' \in [Operators -> Rows] /\ Kept(o)
          /\ operator'[o].pc = "moved" /\ operator'[o].receipt = operator[o].receipt
      <4>1. ASSUME NEW r \in Rows, NEW q, q = [r EXCEPT !.pc = "moved", !.seen.highest = h]
            PROVE  q \in Rows /\ q.pc = "moved" /\ q.receipt = r.receipt
        BY <2>1, <3>2, <4>1 DEF Seen
      <4> HIDE DEF Rows
      <4>2. operator[o] \in Rows
        BY <3>4
      <4>3. operator'[o] = [operator[o] EXCEPT !.pc = "moved", !.seen.highest = h]
        BY <2>6, <3>4
      <4>4. /\ operator'[o] \in Rows /\ operator'[o].pc = "moved"
            /\ operator'[o].receipt = operator[o].receipt
        BY <4>1, <4>2, <4>3, Zenon
      <4> QED
        BY <2>6, <3>4, <4>4
    <3>6. /\ sequence'.last = anchor /\ sequence'.called = TRUE
          /\ sequence' \in [last : Ids, called : BOOLEAN]
          /\ UNCHANGED <<rows, writer, revision, table, advisory>>
      BY <2>1, <2>6, <3>3
    <3> HIDE DEF Rows, Moves, anchor
    <3>7. TypeOK'
      BY <2>1, <3>5, <3>6, SMT DEF TypeOK, Rows
    <3>8. ExclusiveHeld' /\ WritersOut'
      BY <1>15, <3>1, <3>5, <3>6, SMT DEF SequenceInv, ExclusiveHeld, WritersOut, TableFree
    <3>9. FromSequence'
      BY <3>1, <3>6, SMT DEF FromSequence, TableFree
    <3>10. SeenBehind'
      <4> SUFFICES ASSUME NEW p \in Operators, operator'[p].pc = "inspected"
                   PROVE  /\ operator'[p].seen.last <= sequence'.last
                          /\ operator'[p].seen.called = TRUE => sequence'.called = TRUE
                          /\ operator'[p].mode # "check" =>
                                operator'[p].seen.last = sequence'.last
        BY Zenon DEF SeenBehind
      <4>1. p # o /\ operator'[p] = operator[p]
        BY <3>5
      <4>2. operator[p].mode = "check"
        BY <1>15, <3>1, <4>1, Zenon DEF SequenceInv, ExclusiveHeld
      <4>3. operator[p].seen.last <= sequence.last
        BY <1>15, <4>1, Zenon DEF SequenceInv, SeenBehind
      <4>4. operator[p].seen.last \in Ids
        BY <2>1, SMT DEF TypeOK, Seen
      <4> QED
        BY <3>2, <3>3, <3>6, <4>1, <4>2, <4>3, <4>4, SMT DEF Ids
    <3>11. Told' => Past'
      <4>1. Told' => Told
        BY <3>5, <3>6, SMT DEF Told
      <4>2. Taken' = Taken /\ Taken \subseteq Nat
        <5>1. rows \subseteq Nat /\ \A w \in Writers : writer[w] \in Nat
          BY <2>1, SMT DEF TypeOK, Ids
        <5> QED
          BY <3>6, <5>1, Zenon DEF Taken
      <4>3. Past => Past'
        BY <3>2, <3>3, <3>6, <4>2, SMT DEF Past, Ids
      <4> QED
        BY <1>15, <4>1, <4>3 DEF SequenceInv
    <3> QED
      BY <3>3, <3>6, <3>7, <3>8, <3>9, <3>10, <3>11 DEF SequenceInv
  <2> QED
    BY <1>15, <2>3, <2>4, <2>5, <2>6, Zenon DEF InspectTable
<1>16. ASSUME SequenceInv, NEW w \in Writers, NEW i \in 0 .. MaxValue,
              writer' = [writer EXCEPT ![w] = i],
              UNCHANGED <<revision, table, advisory, operator>>,
              rows' \subseteq Ids, rows' \subseteq Taken,
              sequence' \in [last : Ids, called : BOOLEAN],
              sequence'.last >= sequence.last,
              sequence.called = TRUE => sequence'.called = TRUE,
              i > 1 => sequence'.called = TRUE /\ i <= sequence'.last,
              table # NoHolder => i = 0 /\ UNCHANGED sequence
       PROVE  SequenceInv'
  <2>1. TypeOK'
    BY <1>16, SMT DEF SequenceInv, TypeOK
  <2>2. ExclusiveHeld'
    BY <1>16, SMT DEF SequenceInv, ExclusiveHeld
  <2>3. WritersOut'
    BY <1>16, SMT DEF SequenceInv, WritersOut, TableFree, TypeOK
  <2>4. /\ sequence.last \in Nat \ {0} /\ sequence'.last \in Nat \ {0}
        /\ rows \subseteq Nat /\ \A v \in Writers : writer[v] \in Nat
    BY <1>16, SMT DEF SequenceInv, TypeOK, Ids
  <2>5. /\ writer'[w] = i
        /\ \A v \in Writers \ {w} : writer'[v] = writer[v]
    BY <1>16, SMT DEF SequenceInv, TypeOK
  <2>6. FromSequence'
    BY <1>16, <2>4, <2>5, SMT DEF SequenceInv, FromSequence
  <2>7. SeenBehind'
    <3> SUFFICES ASSUME NEW p \in Operators, operator[p].pc = "inspected"
                 PROVE  /\ operator[p].seen.last <= sequence'.last
                        /\ operator[p].seen.called = TRUE => sequence'.called = TRUE
                        /\ operator[p].mode # "check" => operator[p].seen.last = sequence'.last
      BY <1>16, Zenon DEF SeenBehind
    <3>1. /\ operator[p].seen.last <= sequence.last
          /\ operator[p].seen.called = TRUE => sequence.called = TRUE
          /\ operator[p].mode # "check" => operator[p].seen.last = sequence.last
      BY <1>16, Zenon DEF SequenceInv, SeenBehind
    <3>2. operator[p].seen.last \in Nat
      BY <1>16, SMT DEF SequenceInv, TypeOK, Seen, Ids
    <3>3. operator[p].mode # "check" => sequence' = sequence
      BY <1>16, SMT DEF SequenceInv, ExclusiveHeld
    <3> QED
      BY <1>16, <2>4, <3>1, <3>2, <3>3, SMT
  <2>8. Told' => Past'
    <3> SUFFICES ASSUME Told
                 PROVE  Past'
      BY <1>16 DEF Told
    <3>1. sequence.called = TRUE /\ \A j \in Taken : j <= sequence.last
      BY <1>16, Zenon DEF SequenceInv, Past
    <3>2. \A j \in rows' : j <= sequence'.last
      <4>1. \A j \in rows' : j \in Nat /\ j <= sequence.last
        BY <1>16, <2>4, <3>1, SMT DEF Ids
      <4> QED
        BY <1>16, <2>4, <4>1, SMT
    <3>3. \A v \in Writers : writer[v] <= sequence.last
      BY <3>1, Zenon DEF Taken
    <3>4. \A v \in Writers : writer'[v] <= sequence'.last
      BY <1>16, <2>4, <2>5, <3>3, SMT
    <3> QED
      BY <1>16, <3>1, <3>2, <3>4, Zenon DEF Past, Taken
  <2> QED
    BY <2>1, <2>2, <2>3, <2>6, <2>7, <2>8 DEF SequenceInv
<1> DEFINE Grows == /\ sequence'.last >= sequence.last
                    /\ sequence.called = TRUE => sequence'.called = TRUE
<1>17. ASSUME SequenceInv, NEW w \in Writers, InsertSingleton(w)
       PROVE  SequenceInv' /\ Grows
  <2>1. /\ UNCHANGED <<rows, sequence, revision, table, advisory, operator>>
        /\ writer' = [writer EXCEPT ![w] = 1] /\ table = NoHolder
    BY <1>17, Zenon DEF InsertSingleton
  <2>2. /\ rows \subseteq Ids /\ sequence \in [last : Ids, called : BOOLEAN]
        /\ sequence.last >= sequence.last /\ 1 \in 0 .. MaxValue
    BY <1>17, SMT DEF SequenceInv, TypeOK, Ids
  <2>3. rows \subseteq Taken
    BY DEF Taken
  <2>4. Grows
    BY <2>1, <2>2
  <2>5. 1 > 1 => sequence'.called = TRUE /\ 1 <= sequence'.last
    BY SMT
  <2> HIDE DEF Grows
  <2>6. SequenceInv'
    BY <1>16, <1>17, <2>1, <2>2, <2>3, <2>5, Zenon
  <2> QED
    BY <2>4, <2>6
<1>18. ASSUME SequenceInv, NEW w \in Writers, InsertDefault(w)
       PROVE  SequenceInv' /\ Grows
  <2> DEFINE value == Candidate(sequence)
             i == IF value \in Taken THEN 0 ELSE value
  <2>1. /\ UNCHANGED <<rows, revision, table, advisory, operator>> /\ table = NoHolder
        /\ writer' = [writer EXCEPT ![w] = i] /\ value <= MaxValue
        /\ sequence' = [last |-> value, called |-> TRUE]
    BY <1>18, Zenon DEF InsertDefault
  <2>2. rows \subseteq Ids /\ sequence.last \in Ids /\ rows \subseteq Taken
    BY <1>18, SMT DEF SequenceInv, TypeOK, Taken
  <2>3. value \in Ids /\ value >= sequence.last
    BY <2>1, <2>2, SMT DEF Candidate, Ids
  <2>4. i \in 0 .. MaxValue /\ i <= value
    BY <2>3, SMT DEF Ids
  <2> HIDE DEF value, i
  <2>5. /\ sequence'.last = value /\ sequence'.called = TRUE
        /\ sequence' \in [last : Ids, called : BOOLEAN]
    BY <2>1, <2>3
  <2>6. Grows
    BY <2>3, <2>5, Zenon
  <2>7. i > 1 => sequence'.called = TRUE /\ i <= sequence'.last
    BY <2>4, <2>5, Zenon
  <2>8. sequence'.last >= sequence.last /\ (sequence.called = TRUE => sequence'.called = TRUE)
    BY <2>6
  <2>9. rows' \subseteq Ids /\ rows' \subseteq Taken
    BY <2>1, <2>2, Zenon
  <2> HIDE DEF Grows
  <2>10. SequenceInv'
    BY <1>16, <1>18, <2>1, <2>4, <2>5, <2>7, <2>8, <2>9, Zenon
  <2> QED
    BY <2>6, <2>10
<1>19. ASSUME SequenceInv, NEW w \in Writers, CommitInsert(w) \/ RollBackInsert(w)
       PROVE  SequenceInv' /\ Grows
  <2>1. /\ UNCHANGED <<sequence, revision, table, advisory, operator>>
        /\ writer' = [writer EXCEPT ![w] = 0] /\ writer[w] # 0
        /\ rows' = rows \/ rows' = rows \cup {writer[w]}
    BY <1>19, Zenon DEF CommitInsert, RollBackInsert
  <2>2. /\ rows \subseteq Ids /\ sequence \in [last : Ids, called : BOOLEAN]
        /\ writer[w] \in Ids /\ sequence.last >= sequence.last /\ 0 \in 0 .. MaxValue
    BY <1>19, <2>1, SMT DEF SequenceInv, TypeOK, Ids
  <2>3. rows' \subseteq Taken /\ rows' \subseteq Ids
    BY <2>1, <2>2, Zenon DEF Taken
  <2>4. Grows
    BY <2>1, <2>2, Zenon
  <2>5. 0 > 1 => sequence'.called = TRUE /\ 0 <= sequence'.last
    BY SMT
  <2>6. /\ sequence'.last >= sequence.last
        /\ sequence.called = TRUE => sequence'.called = TRUE
        /\ sequence' \in [last : Ids, called : BOOLEAN]
    BY <2>1, <2>2, Zenon
  <2> HIDE DEF Grows
  <2>7. SequenceInv'
    BY <1>16, <1>19, <2>1, <2>2, <2>3, <2>5, <2>6, Zenon
  <2> QED
    BY <2>4, <2>7
<1>20. ASSUME SequenceInv, UNCHANGED sequence
       PROVE  Grows
  <2>1. sequence.last \in Nat
    BY <1>20, SMT DEF SequenceInv, TypeOK, Ids
  <2> QED
    BY <1>20, <2>1, SMT
<1>21. SequenceInv /\ [Next]_sequenceVars => SequenceInv' /\ Grows
  <2> SUFFICES ASSUME SequenceInv, [Next]_sequenceVars
               PROVE  SequenceInv' /\ Grows
    OBVIOUS
  <2> HIDE DEF Grows, Rows, Kept
  <2>1. ASSUME NEW w \in Writers,
               \/ InsertSingleton(w) \/ InsertDefault(w)
               \/ CommitInsert(w) \/ RollBackInsert(w)
        PROVE  SequenceInv' /\ Grows
    BY <1>17, <1>18, <1>19, <2>1, Zenon
  <2>2. ASSUME NEW o \in Operators,
               \/ Stop(o) \/ ReadRevision(o) \/ TakeAdvisory(o) \/ LockTable(o)
               \/ InspectSequence(o) \/ Confirm(o) \/ Commit(o) \/ Rerun(o)
        PROVE  SequenceInv' /\ Grows
    <3>1. UNCHANGED sequence
      BY <2>2, Zenon DEF Stop, ReadRevision, TakeAdvisory, LockTable, InspectSequence, Confirm,
                         Commit, Rerun
    <3>2. SequenceInv'
      BY <1>7, <1>8, <1>9, <1>10, <1>11, <1>12, <1>13, <1>14, <2>2, Zenon
    <3> QED
      BY <1>20, <3>1, <3>2, Zenon
  <2>3. ASSUME NEW o \in Operators, InspectTable(o)
        PROVE  SequenceInv' /\ Grows
    BY <1>15, <2>3, Zenon DEF Grows
  <2>4. CASE UNCHANGED sequenceVars
    <3>1. SequenceInv'
      BY <2>4 DEF sequenceVars, SequenceInv, TypeOK, ExclusiveHeld, WritersOut, TableFree,
                  FromSequence, SeenBehind, Told, Past, Taken
    <3> QED
      BY <1>20, <2>4, <3>1, Zenon DEF sequenceVars
  <2> QED
    BY <2>1, <2>2, <2>3, <2>4, Zenon DEF Next
<1>22. SequenceInv => SafeOnceTold
  <2> SUFFICES ASSUME SequenceInv
               PROVE  SafeOnceTold
    OBVIOUS
  <2>1. Told => Safe
    BY <1>3, Zenon DEF SequenceInv
  <2> QED
    BY <2>1, Zenon DEF SafeOnceTold, Told
<1> DEFINE Onward == /\ sequence'.last >= sequence.last
                     /\ sequence.called => sequence'.called
<1>23. SequenceInv /\ [Next]_sequenceVars => SequenceInv' /\ [Onward]_sequenceVars
  <2>1. ASSUME SequenceInv, Grows
        PROVE  Onward
    BY <2>1, Zenon DEF SequenceInv, TypeOK
  <2> HIDE DEF Grows, Onward
  <2> QED
    BY <1>21, <2>1, Zenon
<1>24. Spec => []SequenceInv /\ [][Onward]_sequenceVars
  <2> HIDE DEF Onward
  <2> QED
    BY <1>6, <1>23, PTL DEF Spec
<1>25. []SequenceInv => []SafeOnceTold
  BY <1>22, PTL
<1> QED
  BY <1>24, <1>25, Zenon DEF SequenceSound, NeverBack

\* The sequence never goes back, whatever stops, and once an operator was
\* told "safe" or "reconciled", or the migration has committed, no insertion
\* can collide (operational_sequence_reconciliation_v1.py, migration 0029).
THEOREM SequenceStaysSound ==
    ASSUME MaxValue \in Nat \ {0}, NoHolder \notin Operators
    PROVE  Spec => SequenceSound
BY SequenceKept, PTL
=============================================================================
