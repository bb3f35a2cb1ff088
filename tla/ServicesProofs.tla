---------------------------- MODULE ServicesProofs ----------------------------
(***************************************************************************)
(* What holds of the components that Services composes, for every value of *)
(* their constants.  They share no state: whatever component the focus is  *)
(* on, each of them only takes its own steps, so that what its own         *)
(* specification implies holds of the composition.                         *)
(***************************************************************************)
EXTENDS Services, Sequences, FiniteSetTheorems, TLAPS

EnvelopesProofs == INSTANCE HpkeRotationProofs WITH
    Envelopes <- Sealed, MaxGenerations <- MaxKeyGenerations

-----------------------------------------------------------------------------
(* The rotation of the storage key: KeyRotation.                           *)

\* In the composition, the rotation takes its own steps only.
LEMMA SecretsAlone == ServicesSpec => Secrets!RotationSpec
<1>1. ServicesInit => Secrets!Init
  BY DEF ServicesInit
<1>2. [ServicesNext]_servicesVars => [Secrets!Next]_(Secrets!rotationVars)
  BY DEF ServicesNext, servicesVars, Calendar, AdmissionStep, OutboxStep, GradesStep,
     SimulationStep, BoardStep, LearningStep, SecretsStep, EnvelopesStep, secretVars,
     Secrets!rotationVars
<1>3. QED
  BY <1>1, <1>2, PTL DEF ServicesSpec, Secrets!RotationSpec

\* The three fields, in their order.
LEMMA FieldsAre ==
  /\ DOMAIN Secrets!Fields = 1..3 /\ Len(Secrets!Fields) = 3
  /\ Secrets!Fields[1] = "telegram_token"
  /\ Secrets!Fields[2] = "telegram_chat_id"
  /\ Secrets!Fields[3] = "calendar_url"
  /\ Secrets!Names = {"telegram_token", "telegram_chat_id", "calendar_url"}
<1>1. /\ DOMAIN Secrets!Fields = 1..3 /\ Len(Secrets!Fields) = 3
      /\ Secrets!Fields[1] = "telegram_token"
      /\ Secrets!Fields[2] = "telegram_chat_id"
      /\ Secrets!Fields[3] = "calendar_url"
  BY DEF Secrets!Fields
<1>2. \A i \in 1..3 : i = 1 \/ i = 2 \/ i = 3
  OBVIOUS
<1>3. Secrets!Names = {"telegram_token", "telegram_chat_id", "calendar_url"}
  BY <1>1, <1>2 DEF Secrets!Names
<1>4. QED
  BY <1>1, <1>3

\* Every secret of the rows was encrypted with one of the keys.
Keyed(rows, keys) ==
  \A f \in Secrets!Names, a \in Accounts :
    rows[f][a] # Absent => rows[f][a].key \in keys

(* What is known of the running command: every row it will write has an    *)
(* envelope of the write key and belongs to a field it visited; it counts  *)
(* no row twice.                                                           *)
Sound(c) ==
  /\ c \in Secrets!Commands
  /\ \A f \in Secrets!Names, a \in Accounts : <<f, a>> \in c.pending =>
        /\ c.copy[f][a] \in Secrets!Envelope /\ c.copy[f][a].key = write
        /\ \E j \in 1..c.field : f = Secrets!Fields[j]
  /\ c.done <= c.scanned
  /\ c.scanned + Secrets!Cardinality(c.left) <= c.field * Secrets!Cardinality(Accounts)

(* The inductive invariant of the rotation: a run that found nothing to do *)
(* leaves no secret of another key until the next restart.                 *)
SecretsInv ==
  /\ Secrets!TypeOK
  /\ command # Secrets!NotRunning => Sound(command)
  /\ Keyed(stored, readable)
  /\ idle = TRUE => command = Secrets!NotRunning /\ Keyed(stored, {write})

\* The component counts as this module does.
LEMMA SecretsCount == \A S : Secrets!Cardinality(S) = Cardinality(S)
BY DEF Secrets!Cardinality, Cardinality

\* Sets of accounts are finite, and no larger than all of them.
LEMMA AccountsCount ==
  /\ Secrets!Cardinality(Accounts) \in Nat
  /\ \A A \in SUBSET Accounts : /\ Secrets!Cardinality(A) \in Nat
                                /\ Secrets!Cardinality(A) <= Secrets!Cardinality(Accounts)
                                /\ \A a \in A : Secrets!Cardinality(A \ {a}) = Secrets!Cardinality(A) - 1
<1>1. IsFiniteSet(Accounts)
  BY SecretsAssumption
<1>2. ASSUME NEW A \in SUBSET Accounts
      PROVE  /\ Cardinality(A) \in Nat
             /\ Cardinality(A) <= Cardinality(Accounts)
             /\ \A a \in A : Cardinality(A \ {a}) = Cardinality(A) - 1
  <2>1. IsFiniteSet(A) /\ Cardinality(A) <= Cardinality(Accounts)
    BY <1>1, FS_Subset
  <2>2. Cardinality(A) \in Nat
    BY <2>1, FS_CardinalityType
  <2>3. \A a \in A : Cardinality(A \ {a}) = Cardinality(A) - 1
    BY <2>1, FS_RemoveElement
  <2>4. QED
    BY <2>1, <2>2, <2>3
<1>3. QED
  BY <1>1, <1>2, FS_CardinalityType, SecretsCount

\* The counters of a sound command are bounded.
LEMMA CountsBounded ==
  ASSUME NEW field \in 1..3, NEW scanned \in Nat, NEW left \in SUBSET Accounts,
         scanned + Secrets!Cardinality(left) <= field * Secrets!Cardinality(Accounts)
  PROVE  scanned \in 0 .. 3 * Secrets!Cardinality(Accounts)
<1>1. Secrets!Cardinality(left) \in Nat /\ Secrets!Cardinality(Accounts) \in Nat
  BY AccountsCount
<1>2. CASE field = 1
  BY <1>1, <1>2
<1>3. CASE field = 2
  BY <1>1, <1>3
<1>4. CASE field = 3
  BY <1>1, <1>4
<1>5. QED
  BY <1>2, <1>3, <1>4

\* Rows that change at one place, or take some of another's, are rows.
LEMMA RowsTyped ==
  ASSUME NEW R \in Secrets!Rows, NEW Q \in Secrets!Rows
  PROVE  /\ \A f \in Secrets!Names, a \in Accounts :
              R[f][a] \in Secrets!Envelope \cup {Absent}
         /\ \A f \in Secrets!Names, a \in Accounts, v \in Secrets!Envelope \cup {Absent} :
              [R EXCEPT ![f][a] = v] \in Secrets!Rows
         /\ \A P : [f \in Secrets!Names |-> [a \in Accounts |->
                      IF <<f, a>> \in P THEN R[f][a] ELSE Q[f][a]]] \in Secrets!Rows
BY DEF Secrets!Rows

\* A command with another value in one of its fields is a command.
LEMMA CommandTyped ==
  ASSUME NEW c \in Secrets!Commands
  PROVE  /\ \A v \in SUBSET Accounts : [c EXCEPT !.left = v] \in Secrets!Commands
         /\ \A v \in Accounts : [c EXCEPT !.held = v] \in Secrets!Commands
         /\ \A v \in Secrets!Rows : [c EXCEPT !.copy = v] \in Secrets!Commands
         /\ \A v \in SUBSET (Secrets!Names \X Accounts) :
               [c EXCEPT !.pending = v] \in Secrets!Commands
         /\ \A v \in 0 .. 3 * Secrets!Cardinality(Accounts) :
               /\ [c EXCEPT !.scanned = v] \in Secrets!Commands
               /\ [c EXCEPT !.done = v] \in Secrets!Commands
<1>1. \A v \in SUBSET Accounts : [c EXCEPT !.left = v] \in Secrets!Commands
  BY DEF Secrets!Commands
<1>2. \A v \in Accounts : [c EXCEPT !.held = v] \in Secrets!Commands
  BY DEF Secrets!Commands
<1>3. \A v \in Secrets!Rows : [c EXCEPT !.copy = v] \in Secrets!Commands
  BY DEF Secrets!Commands
<1>4. \A v \in SUBSET (Secrets!Names \X Accounts) : [c EXCEPT !.pending = v] \in Secrets!Commands
  BY DEF Secrets!Commands
<1>5. \A v \in 0 .. 3 * Secrets!Cardinality(Accounts) : [c EXCEPT !.scanned = v] \in Secrets!Commands
  BY DEF Secrets!Commands
<1>6. \A v \in 0 .. 3 * Secrets!Cardinality(Accounts) : [c EXCEPT !.done = v] \in Secrets!Commands
  BY DEF Secrets!Commands
<1>7. QED
  BY <1>1, <1>2, <1>3, <1>4, <1>5, <1>6

(* Loading the next field refreshes the copies of its rows, but not those  *)
(* that wait to be committed.                                              *)
LEMMA LoadedSound ==
  ASSUME SecretsInv, NEW c \in Secrets!Commands, NEW i \in 1..3,
         c.done <= c.scanned, c.scanned <= (i - 1) * Secrets!Cardinality(Accounts),
         \A f \in Secrets!Names, a \in Accounts : <<f, a>> \in c.pending =>
            /\ c.copy[f][a] \in Secrets!Envelope /\ c.copy[f][a].key = write
            /\ \E j \in 1..(i - 1) : f = Secrets!Fields[j]
  PROVE  Sound(Secrets!Loaded(c, i))
<1> DEFINE f == Secrets!Fields[i]
           Holds(a) == /\ i > 1 /\ Secrets!Fields[i - 1] \in Secrets!RowOf(f)
                       /\ a = c.held \/ <<Secrets!Fields[i - 1], a>> \in c.pending
           left == {a \in Accounts : stored[f][a] # Absent}
           copy == [g \in Secrets!Names |->
                      IF g \in Secrets!RowOf(f)
                      THEN [a \in Accounts |-> IF Holds(a) THEN c.copy[g][a] ELSE stored[g][a]]
                      ELSE c.copy[g]]
           loaded == Secrets!Loaded(c, i)
<1>1. loaded = [c EXCEPT !.field = i, !.left = left, !.copy = copy]
  BY DEF Secrets!Loaded
<1>2. c.copy \in Secrets!Rows /\ stored \in Secrets!Rows
  BY DEF Secrets!Commands, SecretsInv, Secrets!TypeOK
<1>3. copy \in Secrets!Rows
  BY <1>2 DEF Secrets!Rows
<1>4. left \in SUBSET Accounts /\ i \in DOMAIN Secrets!Fields
  BY FieldsAre
<1>5. loaded \in Secrets!Commands
  <2> HIDE DEF left, copy, loaded
  <2>1. QED
    BY <1>1, <1>3, <1>4 DEF Secrets!Commands
<1>6. /\ loaded.field = i /\ loaded.left = left /\ loaded.copy = copy
      /\ loaded.pending = c.pending /\ loaded.scanned = c.scanned /\ loaded.done = c.done
  <2> HIDE DEF left, copy, loaded
  <2>1. QED
    BY <1>1 DEF Secrets!Commands
<1>7. ASSUME NEW g \in Secrets!Names, NEW a \in Accounts, <<g, a>> \in c.pending
      PROVE  copy[g][a] = c.copy[g][a]
  <2>1. PICK j \in 1..(i - 1) : g = Secrets!Fields[j]
    BY <1>7
  <2>2. CASE g \in Secrets!RowOf(f)
    <3>1. i = 2 \/ i = 3
      BY <2>1
    <3>2. i # 3
      <4> SUFFICES ASSUME i = 3
                   PROVE  FALSE
        OBVIOUS
      <4>1. j = 1 \/ j = 2
        BY <2>1
      <4>2. QED
        BY <2>1, <2>2, <4>1, FieldsAre DEF Secrets!RowOf
    <3>3. i = 2 /\ j = 1
      BY <2>1, <3>1, <3>2
    <3>4. Holds(a)
      BY <1>7, <2>1, <2>2, <3>3
    <3>5. copy[g] = [b \in Accounts |-> IF Holds(b) THEN c.copy[g][b] ELSE stored[g][b]]
      BY <2>2
    <3> HIDE DEF Holds
    <3>6. QED
      BY <3>4, <3>5
  <2>3. CASE g \notin Secrets!RowOf(f)
    BY <2>3
  <2>4. QED
    BY <2>2, <2>3
<1>8. \A g \in Secrets!Names, a \in Accounts : <<g, a>> \in loaded.pending =>
        /\ loaded.copy[g][a] \in Secrets!Envelope /\ loaded.copy[g][a].key = write
        /\ \E j \in 1..loaded.field : g = Secrets!Fields[j]
  <2> HIDE DEF copy, left, loaded
  <2> SUFFICES ASSUME NEW g \in Secrets!Names, NEW a \in Accounts, <<g, a>> \in c.pending
               PROVE  /\ copy[g][a] \in Secrets!Envelope /\ copy[g][a].key = write
                      /\ \E j \in 1..i : g = Secrets!Fields[j]
    BY <1>6
  <2>1. PICK j \in 1..(i - 1) : g = Secrets!Fields[j]
    OBVIOUS
  <2>2. j \in 1..i
    OBVIOUS
  <2>3. QED
    BY <1>7, <2>1, <2>2
<1>9. c.scanned + Secrets!Cardinality(left) <= i * Secrets!Cardinality(Accounts)
  <2>1. /\ Secrets!Cardinality(left) \in Nat /\ Secrets!Cardinality(Accounts) \in Nat
        /\ Secrets!Cardinality(left) <= Secrets!Cardinality(Accounts)
    BY <1>4, AccountsCount
  <2>2. c.scanned \in Nat
    BY AccountsCount DEF Secrets!Commands
  <2> HIDE DEF left
  <2>3. CASE i = 1
    BY <2>1, <2>2, <2>3
  <2>4. CASE i = 2
    BY <2>1, <2>2, <2>4
  <2>5. CASE i = 3
    BY <2>1, <2>2, <2>5
  <2>6. QED
    BY <2>3, <2>4, <2>5
<1>10. Sound(loaded)
  <2> HIDE DEF copy, left, loaded
  <2> QED
    BY <1>5, <1>6, <1>8, <1>9 DEF Sound
<1>11. QED
  BY <1>10

\* A visited row leaves the copy, or waits there with the write key.
LEMMA VisitSound ==
  ASSUME SecretsInv, Secrets!Visit
  PROVE  Sound(command')
<1> DEFINE c == command
           f == Secrets!Fields[c.field]
<1>1. Sound(c) /\ c \in Secrets!Commands
  <2>1. c # Secrets!NotRunning
    BY DEF Secrets!Visit, Secrets!NotRunning
  <2>2. QED
    BY <2>1 DEF SecretsInv, Sound
<1>2. /\ c.copy \in Secrets!Rows /\ c.left \in SUBSET Accounts /\ c.field \in 1..3
      /\ c.scanned \in Nat /\ c.done \in Nat /\ c.done <= c.scanned
      /\ c.scanned + Secrets!Cardinality(c.left) <= c.field * Secrets!Cardinality(Accounts)
      /\ write \in 1..MaxKeys
      /\ c.pending \in SUBSET (Secrets!Names \X Accounts)
  BY <1>1, FieldsAre, AccountsCount DEF Sound, Secrets!Commands, SecretsInv, Secrets!TypeOK
<1>f. f \in Secrets!Names
  BY <1>2, FieldsAre DEF Secrets!Names
<1>3. PICK a \in c.left :
        LET envelope == c.copy[f][a]
            seen == [c EXCEPT !.left = @ \ {a}, !.held = a,
                              !.scanned = IF envelope = Absent THEN @ ELSE @ + 1]
        IN  IF envelope = Absent \/ ~Secrets!NeedsReencryption(envelope) THEN command' = seen
            ELSE IF c.done = c.limit
            THEN command' = [seen EXCEPT !.stopped = TRUE]
            ELSE command' = [seen EXCEPT !.copy[f][a] = Secrets!Rotated(envelope), !.done = @ + 1,
                                         !.pending = @ \cup {<<f, a>>}]
  BY DEF Secrets!Visit
<1> DEFINE envelope == c.copy[f][a]
           left == c.left \ {a}
           scanned == IF envelope = Absent THEN c.scanned ELSE c.scanned + 1
           seen == [c EXCEPT !.left = left, !.held = a, !.scanned = scanned]
<1>4. /\ left \in SUBSET Accounts /\ a \in Accounts
      /\ scanned \in Nat /\ c.scanned <= scanned
      /\ envelope # Absent => scanned = c.scanned + 1
      /\ scanned + Secrets!Cardinality(left) <= c.field * Secrets!Cardinality(Accounts)
  <2>1. /\ Secrets!Cardinality(left) = Secrets!Cardinality(c.left) - 1 /\ Secrets!Cardinality(c.left) \in Nat
        /\ Secrets!Cardinality(Accounts) \in Nat
    BY <1>2, AccountsCount
  <2>2. scanned \in Nat /\ scanned <= c.scanned + 1 /\ c.scanned <= scanned
    BY <1>2
  <2>3. c.field * Secrets!Cardinality(Accounts) \in Nat
    BY <1>2, <2>1
  <2>4. scanned + Secrets!Cardinality(left) <= c.field * Secrets!Cardinality(Accounts)
    <3> HIDE DEF left, scanned
    <3> DEFINE all == c.field * Secrets!Cardinality(Accounts)
    <3>1. c.scanned + Secrets!Cardinality(c.left) <= all /\ all \in Nat
      BY <1>2, <2>3
    <3> HIDE DEF all
    <3>2. scanned + Secrets!Cardinality(left) <= all
      BY <1>2, <2>1, <2>2, <3>1
    <3>3. QED
      BY <3>2 DEF all
  <2>5. QED
    BY <1>2, <2>2, <2>4
<1>5. scanned \in 0 .. 3 * Secrets!Cardinality(Accounts)
  BY <1>2, <1>4, CountsBounded
<1>6. seen \in Secrets!Commands
  <2> HIDE DEF left, scanned
  <2>1. [c EXCEPT !.left = left] \in Secrets!Commands
    BY <1>1, <1>4, CommandTyped
  <2>2. [[c EXCEPT !.left = left] EXCEPT !.held = a] \in Secrets!Commands
    BY <1>4, <2>1, CommandTyped
  <2>3. [[[c EXCEPT !.left = left] EXCEPT !.held = a] EXCEPT !.scanned = scanned]
          \in Secrets!Commands
    BY <1>5, <2>2, CommandTyped
  <2>4. QED
    BY <2>3
<1>7. /\ seen.left = left /\ seen.scanned = scanned /\ seen.copy = c.copy
      /\ seen.pending = c.pending /\ seen.done = c.done /\ seen.field = c.field
  <2> HIDE DEF left, scanned
  <2>1. QED
    BY <1>1 DEF Secrets!Commands
<1>8. Sound(seen)
  <2> HIDE DEF left, scanned, seen
  <2>1. seen.done <= seen.scanned
    BY <1>2, <1>4, <1>7
  <2>2. seen.scanned + Secrets!Cardinality(seen.left) <= seen.field * Secrets!Cardinality(Accounts)
    BY <1>4, <1>7
  <2>3. \A g \in Secrets!Names, b \in Accounts : <<g, b>> \in seen.pending =>
          /\ seen.copy[g][b] \in Secrets!Envelope /\ seen.copy[g][b].key = write
          /\ \E j \in 1..seen.field : g = Secrets!Fields[j]
    BY <1>1, <1>7 DEF Sound
  <2>4. QED
    BY <1>6, <2>1, <2>2, <2>3 DEF Sound
<1>u. UNCHANGED write
  BY DEF Secrets!Visit
<1>9. CASE command' = seen
  <2> HIDE DEF seen
  <2> QED
    BY <1>8, <1>9, <1>u DEF Sound
<1>10. CASE command' = [seen EXCEPT !.stopped = TRUE]
  <2> HIDE DEF seen
  <2>1. /\ command' \in Secrets!Commands
        /\ command'.left = seen.left /\ command'.scanned = seen.scanned
        /\ command'.copy = seen.copy /\ command'.pending = seen.pending
        /\ command'.done = seen.done /\ command'.field = seen.field
    BY <1>6, <1>10 DEF Secrets!Commands
  <2>2. QED
    BY <1>8, <1>u, <2>1 DEF Sound
<1>11. ASSUME envelope # Absent,
              command' = [seen EXCEPT !.copy[f][a] = Secrets!Rotated(envelope), !.done = @ + 1,
                                      !.pending = @ \cup {<<f, a>>}]
       PROVE  Sound(command')
  <2> DEFINE new == Secrets!Rotated(envelope)
             copy == [c.copy EXCEPT ![f][a] = new]
             pending == c.pending \cup {<<f, a>>}
  <2>1. new \in Secrets!Envelope /\ new.key = write
    <3>1. envelope \in Secrets!Envelope
      BY <1>2, <1>f, <1>4, <1>11, RowsTyped
    <3>2. QED
      BY <1>2, <3>1 DEF Secrets!Rotated, Secrets!Envelope
  <2>2. copy \in Secrets!Rows
    <3> HIDE DEF f, new
    <3> QED
      BY <1>2, <1>f, <1>4, <2>1, RowsTyped
  <2>3. pending \in SUBSET (Secrets!Names \X Accounts)
    BY <1>2, <1>f, <1>4
  <2>4. /\ c.done + 1 \in 0 .. 3 * Secrets!Cardinality(Accounts)
        /\ c.done + 1 <= scanned
    <3>1. c.done + 1 <= scanned /\ c.done + 1 \in Nat
      BY <1>2, <1>4, <1>11
    <3>2. Secrets!Cardinality(Accounts) \in Nat
      BY AccountsCount
    <3> HIDE DEF scanned
    <3>3. QED
      BY <1>5, <3>1, <3>2
  <2>5. command' = [[[seen EXCEPT !.copy = copy] EXCEPT !.done = c.done + 1]
                      EXCEPT !.pending = pending]
    <3> HIDE DEF seen, new, f, envelope
    <3>1. command' = [seen EXCEPT !.copy = [@ EXCEPT ![f][a] = new], !.done = @ + 1,
                                  !.pending = @ \cup {<<f, a>>}]
      BY <1>11 DEF new
    <3>2. QED
      BY <1>6, <1>7, <3>1 DEF Secrets!Commands
  <2> HIDE DEF seen, new, copy, pending, f, left, scanned, envelope
  <2>6. [seen EXCEPT !.copy = copy] \in Secrets!Commands
    BY <1>6, <2>2, CommandTyped
  <2>7. [[seen EXCEPT !.copy = copy] EXCEPT !.done = c.done + 1] \in Secrets!Commands
    BY <2>4, <2>6, CommandTyped
  <2>8. command' \in Secrets!Commands
    BY <2>3, <2>5, <2>7, CommandTyped
  <2>9. /\ command'.left = left /\ command'.scanned = scanned /\ command'.copy = copy
        /\ command'.pending = pending /\ command'.done = c.done + 1
        /\ command'.field = c.field
    BY <1>6, <1>7, <2>5 DEF Secrets!Commands
  <2>10. ASSUME NEW g \in Secrets!Names, NEW b \in Accounts, <<g, b>> \in pending
         PROVE  /\ copy[g][b] \in Secrets!Envelope /\ copy[g][b].key = write
                /\ \E j \in 1..c.field : g = Secrets!Fields[j]
    <3>1. CASE g = f /\ b = a
      <4>1. copy[g][b] = new
        BY <1>2, <1>f, <1>4, <3>1 DEF copy, Secrets!Rows
      <4>2. c.field \in 1..c.field
        BY <1>2
      <4>3. QED
        BY <2>1, <3>1, <4>1, <4>2 DEF f
    <3>2. CASE ~(g = f /\ b = a)
      <4>1. <<g, b>> \in c.pending
        BY <2>10, <3>2 DEF pending
      <4>2. copy[g][b] = c.copy[g][b]
        BY <1>2, <1>f, <1>4, <3>2 DEF copy, Secrets!Rows
      <4>3. QED
        BY <1>1, <4>1, <4>2 DEF Sound
    <3>3. QED
      BY <3>1, <3>2
  <2>11. QED
    BY <1>4, <1>u, <2>4, <2>8, <2>9, <2>10 DEF Sound
<1>12. QED
  BY <1>3, <1>9, <1>10, <1>11

\* The inventory is the secrets that are there.
LEMMA InventoryKeyed ==
  ASSUME NEW rows, NEW keys
  PROVE  Keyed(rows, keys) <=>
           \A p \in Secrets!Inventory(rows) : rows[p[1]][p[2]].key \in keys
<1>1. ASSUME Keyed(rows, keys), NEW p \in Secrets!Inventory(rows)
      PROVE  rows[p[1]][p[2]].key \in keys
  <2>1. p[1] \in Secrets!Names /\ p[2] \in Accounts /\ rows[p[1]][p[2]] # Absent
    BY DEF Secrets!Inventory
  <2>2. QED
    BY <1>1, <2>1 DEF Keyed
<1>2. ASSUME \A p \in Secrets!Inventory(rows) : rows[p[1]][p[2]].key \in keys,
             NEW f \in Secrets!Names, NEW a \in Accounts, rows[f][a] # Absent
      PROVE  rows[f][a].key \in keys
  <2>1. <<f, a>> \in Secrets!Inventory(rows)
    BY <1>2 DEF Secrets!Inventory
  <2>2. QED
    BY <1>2, <2>1
<1>3. QED
  BY <1>1, <1>2 DEF Keyed

\* Rows written with the write key need no other.
LEMMA WrittenSound ==
  ASSUME SecretsInv, command # Secrets!NotRunning
  PROVE  /\ Secrets!Written(command) \in Secrets!Rows
         /\ \A keys : Keyed(stored, keys) /\ write \in keys => Keyed(Secrets!Written(command), keys)
<1> DEFINE rows == Secrets!Written(command)
<1>1. /\ Sound(command) /\ command.copy \in Secrets!Rows /\ stored \in Secrets!Rows
  BY DEF SecretsInv, Sound, Secrets!Commands, Secrets!TypeOK
<1>2. rows \in Secrets!Rows
  BY <1>1 DEF Secrets!Written, Secrets!Rows
<1>3. ASSUME NEW keys, Keyed(stored, keys), write \in keys,
             NEW f \in Secrets!Names, NEW a \in Accounts, rows[f][a] # Absent
      PROVE  rows[f][a].key \in keys
  <2>1. rows[f][a] = IF <<f, a>> \in command.pending THEN command.copy[f][a] ELSE stored[f][a]
    BY DEF Secrets!Written
  <2>2. CASE <<f, a>> \in command.pending
    BY <1>1, <1>3, <2>1, <2>2 DEF Sound
  <2>3. CASE <<f, a>> \notin command.pending
    BY <1>3, <2>1, <2>3 DEF Keyed
  <2>4. QED
    BY <2>2, <2>3
<1>4. QED
  BY <1>2, <1>3 DEF Keyed

\* Every step keeps the invariant of the rotation.
LEMMA StepSecrets == SecretsInv /\ [Secrets!Next]_(Secrets!rotationVars) => SecretsInv'
<1> SUFFICES ASSUME SecretsInv, [Secrets!Next]_(Secrets!rotationVars)
             PROVE  SecretsInv'
  OBVIOUS
<1>t. /\ stored \in Secrets!Rows /\ gifts \in 0..MaxGifts
      /\ write \in 1..MaxKeys /\ readable \subseteq 1..write /\ write \in readable
      /\ idle \in BOOLEAN
      /\ command = Secrets!NotRunning \/ Sound(command)
      /\ command = Secrets!NotRunning \/ command \in Secrets!Commands
      /\ Keyed(stored, readable)
      /\ idle = TRUE => command = Secrets!NotRunning /\ Keyed(stored, {write})
  BY DEF SecretsInv, Secrets!TypeOK
<1>n. /\ MaxGifts \in Nat /\ MaxKeys \in Nat /\ Absent \notin Secrets!Envelope
  BY SecretsAssumption
\* What the owners do to the rows.
<1>g. ASSUME gifts' \in 0..MaxGifts, UNCHANGED <<write, readable, command, idle>>,
             stored' \in Secrets!Rows,
             \A f \in Secrets!Names, a \in Accounts :
                \/ stored'[f][a] = stored[f][a]
                \/ stored'[f][a] = Absent
                \/ stored'[f][a].key = write
      PROVE  SecretsInv'
  <2>1. \A keys : Keyed(stored, keys) /\ write \in keys => Keyed(stored', keys)
    BY <1>g DEF Keyed
  <2>2. Keyed(stored', readable) /\ (idle = TRUE => Keyed(stored', {write}))
    BY <1>t, <2>1
  <2>3. QED
    BY <1>g, <1>t, <2>2 DEF SecretsInv, Secrets!TypeOK, Sound, Keyed
<1>a. ASSUME NEW a \in Accounts, NEW fields \in SUBSET Secrets!Names, NEW v \in Plain,
             Secrets!Give(a, fields, v)
      PROVE  SecretsInv'
  <2> DEFINE envelope == [value |-> v, key |-> write]
  <2>1. envelope \in Secrets!Envelope /\ envelope.key = write
    BY <1>t DEF Secrets!Envelope
  <2>2. stored' = [f \in Secrets!Names |-> IF f \in fields
                     THEN [stored[f] EXCEPT ![a] = envelope] ELSE stored[f]]
    BY <1>a DEF Secrets!Give
  <2> HIDE DEF envelope
  <2>3. stored' \in Secrets!Rows
    BY <1>t, <2>1, <2>2 DEF Secrets!Rows
  <2>4. \A f \in Secrets!Names, b \in Accounts :
          stored'[f][b] = stored[f][b] \/ stored'[f][b] = envelope
    BY <1>t, <2>2 DEF Secrets!Rows
  <2>5. gifts' \in 0..MaxGifts
    BY <1>a, <1>t, <1>n DEF Secrets!Give
  <2>6. UNCHANGED <<write, readable, command, idle>>
    BY <1>a DEF Secrets!Give
  <2>7. QED
    BY <1>g, <2>1, <2>3, <2>4, <2>5, <2>6
<1>1. CASE UNCHANGED Secrets!rotationVars
  BY <1>1 DEF Secrets!rotationVars, SecretsInv, Secrets!TypeOK, Sound, Keyed
<1>2. ASSUME NEW a \in Accounts, Secrets!ConfigureTelegram(a) \/ Secrets!ConnectFeed(a)
      PROVE  SecretsInv'
  <2>1. {"calendar_url"} \subseteq Secrets!Names
        /\ Secrets!RowOf("telegram_token") \subseteq Secrets!Names
    BY FieldsAre DEF Secrets!RowOf
  <2>2. QED
    BY <1>2, <1>a, <2>1 DEF Secrets!ConfigureTelegram, Secrets!ConnectFeed
<1>3. ASSUME NEW a \in Accounts, Secrets!DisconnectFeed(a)
      PROVE  SecretsInv'
  <2>1. stored' = [stored EXCEPT !["calendar_url"][a] = Absent] /\ "calendar_url" \in Secrets!Names
    BY <1>3, FieldsAre DEF Secrets!DisconnectFeed
  <2>2. stored' \in Secrets!Rows
    BY <1>t, <2>1, RowsTyped
  <2>3. \A f \in Secrets!Names, b \in Accounts :
          stored'[f][b] = stored[f][b] \/ stored'[f][b] = Absent
    BY <1>t, <2>1 DEF Secrets!Rows
  <2>4. gifts' \in 0..MaxGifts /\ UNCHANGED <<write, readable, command, idle>>
    BY <1>3, <1>t, <1>n DEF Secrets!DisconnectFeed
  <2>5. QED
    BY <1>g, <2>2, <2>3, <2>4
\* What the command does to itself.
<1>c. ASSUME UNCHANGED <<stored, gifts, write, readable>>,
             command' = Secrets!NotRunning \/ Sound(command'),
             idle' \in BOOLEAN, idle' = TRUE => idle = TRUE /\ command' = Secrets!NotRunning
      PROVE  SecretsInv'
  <2>1. command' = Secrets!NotRunning \/ command' \in Secrets!Commands
    BY <1>c DEF Sound
  <2>2. command' # Secrets!NotRunning => Sound(command)'
    BY <1>c DEF Sound
  <2>3. QED
    BY <1>c, <1>t, <2>1, <2>2 DEF SecretsInv, Secrets!TypeOK, Keyed
<1>4. CASE Secrets!Start
  <2>1. PICK b \in Batches, l \in Limits :
          command' = Secrets!Loaded([at |-> "visiting", field |-> 1, left |-> {}, copy |-> stored,
                             pending |-> {}, held |-> Absent, scanned |-> 0, done |-> 0,
                             batch |-> b, limit |-> l, stopped |-> FALSE], 1)
    BY <1>4 DEF Secrets!Start
  <2> DEFINE c == [at |-> "visiting", field |-> 1, left |-> {}, copy |-> stored,
                   pending |-> {}, held |-> Absent, scanned |-> 0, done |-> 0,
                   batch |-> b, limit |-> l, stopped |-> FALSE]
  <2>2. c \in Secrets!Commands
    <3>1. 0 \in 0 .. 3 * Secrets!Cardinality(Accounts) /\ 1 \in DOMAIN Secrets!Fields
      BY AccountsCount, FieldsAre
    <3>2. QED
      BY <1>t, <3>1 DEF Secrets!Commands
  <2>3. /\ c.done = 0 /\ c.scanned = 0 /\ c.pending = {}
        /\ (1 - 1) * Secrets!Cardinality(Accounts) = 0
    BY AccountsCount
  <2>4. Sound(Secrets!Loaded(c, 1))
    <3> HIDE DEF c
    <3>1. 1 \in 1..3
      OBVIOUS
    <3>2. c.done <= c.scanned /\ c.scanned <= (1 - 1) * Secrets!Cardinality(Accounts)
      BY <2>3
    <3>3. QED
      BY <2>2, <2>3, <3>1, <3>2, LoadedSound
  <2>5. Sound(command')
    BY <2>1, <2>4
  <2>6. UNCHANGED <<stored, gifts, write, readable>> /\ idle' = FALSE
    BY <1>4 DEF Secrets!Start
  <2>7. QED
    BY <1>c, <2>5, <2>6
<1>r. command.at = "visiting" => /\ command # Secrets!NotRunning /\ Sound(command)
                                 /\ command \in Secrets!Commands /\ idle = FALSE
  BY <1>t DEF Secrets!NotRunning
<1>5. CASE Secrets!Visit
  <2>1. Sound(command') /\ UNCHANGED <<stored, gifts, write, readable, idle>>
    BY <1>5, VisitSound DEF Secrets!Visit
  <2>2. idle = FALSE
    BY <1>5, <1>r DEF Secrets!Visit
  <2>3. QED
    BY <1>c, <1>t, <2>1, <2>2
<1>6. CASE Secrets!CommitBatch
  <2>1. UNCHANGED <<gifts, write, readable, idle>> /\ idle = FALSE /\ command.at = "visiting"
    BY <1>6, <1>r DEF Secrets!CommitBatch
  <2>2. CASE Secrets!Lost(command)
    BY <1>6, <1>c, <1>t, <2>1, <2>2 DEF Secrets!CommitBatch
  <2>3. CASE ~Secrets!Lost(command)
    <3>1. /\ stored' = Secrets!Written(command)
          /\ command' = [command EXCEPT !.pending = {}]
      BY <1>6, <2>3 DEF Secrets!CommitBatch
    <3>2. stored' \in Secrets!Rows /\ Keyed(stored', readable)
      BY <1>t, <1>r, <2>1, <3>1, WrittenSound
    <3>3. Sound(command)'
      <4>1. command' \in Secrets!Commands
        BY <1>r, <2>1, <3>1, CommandTyped
      <4>2. /\ command'.pending = {} /\ command'.done = command.done
            /\ command'.scanned = command.scanned /\ command'.left = command.left
            /\ command'.field = command.field
        BY <1>r, <2>1, <3>1 DEF Secrets!Commands
      <4>3. QED
        BY <1>r, <2>1, <4>1, <4>2 DEF Sound
    <3>4. command' \in Secrets!Commands
      BY <3>3 DEF Sound
    <3>5. QED
      BY <1>t, <2>1, <3>2, <3>3, <3>4 DEF SecretsInv, Secrets!TypeOK, Keyed
  <2>4. QED
    BY <2>2, <2>3
<1>7. CASE Secrets!NextField
  <2> DEFINE i == command.field + 1
  <2>1. /\ command' = Secrets!Loaded(command, i) /\ idle = FALSE
        /\ UNCHANGED <<stored, gifts, write, readable, idle>>
        /\ command.left = {} /\ command.field < 3 /\ command.at = "visiting"
    BY <1>7, <1>r, FieldsAre DEF Secrets!NextField
  <2>2. /\ command \in Secrets!Commands /\ Sound(command)
        /\ command.field \in 1..3
    BY <1>r, <2>1, FieldsAre DEF Secrets!Commands
  <2>3. i \in 1..3 /\ i - 1 = command.field
    BY <2>1, <2>2
  <2>4. command.scanned <= (i - 1) * Secrets!Cardinality(Accounts)
    <3>1. Secrets!Cardinality({}) = 0
      BY FS_EmptySet, SecretsCount
    <3>2. command.scanned \in Nat
      BY <2>2, AccountsCount DEF Secrets!Commands
    <3>3. command.scanned + 0 <= command.field * Secrets!Cardinality(Accounts)
      BY <2>1, <2>2, <3>1 DEF Sound
    <3>4. command.scanned + 0 = command.scanned
      BY <3>2
    <3>5. QED
      BY <2>3, <3>3, <3>4
  <2>5. Sound(Secrets!Loaded(command, i))
    <3> HIDE DEF i
    <3>1. \A f \in Secrets!Names, a \in Accounts : <<f, a>> \in command.pending =>
            /\ command.copy[f][a] \in Secrets!Envelope /\ command.copy[f][a].key = write
            /\ \E j \in 1..(i - 1) : f = Secrets!Fields[j]
      BY <2>2, <2>3 DEF Sound
    <3>2. command.done <= command.scanned
      BY <2>2 DEF Sound
    <3>3. QED
      BY <2>2, <2>3, <2>4, <3>1, <3>2, LoadedSound
  <2>6. QED
    BY <1>c, <1>t, <2>1, <2>5
<1>8. CASE Secrets!Finish
  <2>1. command' = Secrets!NotRunning /\ UNCHANGED <<gifts, write, readable>>
        /\ command.at = "visiting"
    BY <1>8 DEF Secrets!Finish
  <2>2. CASE Secrets!Lost(command)
    <3>1. UNCHANGED <<stored, idle>>
      BY <1>8, <2>2 DEF Secrets!Finish
    <3>2. QED
      BY <1>c, <1>t, <2>1, <3>1
  <2>3. CASE ~Secrets!Lost(command)
    <3>1. /\ stored' = Secrets!Written(command)
          /\ idle' = (/\ ~command.stopped /\ command.done = 0
                      /\ Secrets!Remaining(stored') = {}
                      /\ Secrets!Cardinality(Secrets!Inventory(stored')) = command.scanned)
      BY <1>8, <2>3 DEF Secrets!Finish
    <3>2. stored' \in Secrets!Rows /\ Keyed(stored', readable)
      BY <1>t, <1>r, <2>1, <3>1, WrittenSound
    <3>3. idle' = TRUE => Keyed(stored', {write})
      <4> SUFFICES ASSUME Secrets!Remaining(stored') = {},
                          NEW f \in Secrets!Names, NEW a \in Accounts, stored'[f][a] # Absent
                   PROVE  stored'[f][a].key = write
        BY <3>1 DEF Keyed
      <4>1. <<f, a>> \in Secrets!Inventory(stored')
        BY DEF Secrets!Inventory
      <4>2. ~Secrets!NeedsReencryption(stored'[f][a])
        BY <4>1 DEF Secrets!Remaining
      <4>3. QED
        BY <4>2 DEF Secrets!NeedsReencryption
    <3>4. idle' \in BOOLEAN
      BY <3>1
    <3>5. QED
      BY <1>t, <2>1, <3>2, <3>3, <3>4 DEF SecretsInv, Secrets!TypeOK, Keyed
  <2>4. QED
    BY <2>2, <2>3
<1>9. CASE Secrets!Interrupt
  BY <1>9, <1>c, <1>t DEF Secrets!Interrupt
<1>10. CASE Secrets!Restart
  <2>1. /\ command = Secrets!NotRunning /\ write < MaxKeys /\ write' = write + 1
        /\ readable' = readable \cup {write + 1} /\ idle' = FALSE
        /\ UNCHANGED <<stored, gifts, command>>
    BY <1>10 DEF Secrets!Restart
  <2>2. /\ write' \in 1..MaxKeys /\ readable' \subseteq 1..write' /\ write' \in readable'
    BY <1>t, <1>n, <2>1
  <2>3. Keyed(stored', readable')
    BY <1>t, <2>1 DEF Keyed
  <2>4. QED
    BY <1>t, <2>1, <2>2, <2>3 DEF SecretsInv, Secrets!TypeOK, Keyed
<1>11. CASE Secrets!Retire
  <2>1. /\ command = Secrets!NotRunning /\ idle = TRUE /\ readable' = {write}
        /\ UNCHANGED <<stored, gifts, write, command, idle>>
    BY <1>11, <1>t DEF Secrets!Retire
  <2>2. readable' \subseteq 1..write' /\ write' \in readable' /\ Keyed(stored', readable')
    BY <1>t, <1>n, <2>1
  <2>3. QED
    BY <1>t, <2>1, <2>2 DEF SecretsInv, Secrets!TypeOK, Keyed
<1>12. QED
  BY <1>1, <1>2, <1>3, <1>4, <1>5, <1>6, <1>7, <1>8, <1>9, <1>10, <1>11 DEF Secrets!Next

\* The rotation begins with one key and no secret.
LEMMA InitSecrets == Secrets!Init => SecretsInv
<1> SUFFICES ASSUME Secrets!Init
             PROVE  SecretsInv
  OBVIOUS
<1>1. stored \in Secrets!Rows /\ \A keys : Keyed(stored, keys)
  BY DEF Secrets!Init, Secrets!Rows, Keyed
<1>2. gifts \in 0..MaxGifts /\ write \in 1..MaxKeys /\ readable = {1} /\ write = 1
  BY SecretsAssumption DEF Secrets!Init
<1>3. command = Secrets!NotRunning /\ idle = FALSE
  BY DEF Secrets!Init
<1>4. readable \subseteq 1..write /\ write \in readable
  BY <1>2
<1>5. QED
  BY <1>1, <1>2, <1>3, <1>4 DEF SecretsInv, Secrets!TypeOK

\* In the composition, the rotation of the HPKE keys takes its own steps only.
LEMMA EnvelopesAlone == ServicesSpec => EnvelopesProofs!HpkeSpec
<1>1. ServicesInit => EnvelopesProofs!Init
  BY DEF ServicesInit, Hpke!Init, EnvelopesProofs!Init, Hpke!Revoked,
     EnvelopesProofs!Revoked, Hpke!NoRun, EnvelopesProofs!NoRun
<1>2. [ServicesNext]_servicesVars => [EnvelopesProofs!Next]_(EnvelopesProofs!hpkeVars)
  <2>1. [ServicesNext]_servicesVars => [Hpke!Next]_(Hpke!hpkeVars)
    BY DEF ServicesNext, servicesVars, Calendar, AdmissionStep, OutboxStep, GradesStep,
       SimulationStep, BoardStep, LearningStep, SecretsStep, EnvelopesStep, envelopeVars,
       Hpke!hpkeVars
  <2>2. Hpke!Next <=> EnvelopesProofs!Next
    <3>1. \A e : Hpke!Seal(e) <=> EnvelopesProofs!Seal(e)
      BY DEF Hpke!Seal, EnvelopesProofs!Seal, Hpke!Unlocked,
         EnvelopesProofs!Unlocked
    <3>2. \A e : Hpke!Revoke(e) <=> EnvelopesProofs!Revoke(e)
      BY DEF Hpke!Revoke, EnvelopesProofs!Revoke, Hpke!Unlocked,
         EnvelopesProofs!Unlocked, Hpke!Revoked, EnvelopesProofs!Revoked
    <3>3. \A e : Hpke!LockRow(e) <=> EnvelopesProofs!LockRow(e)
      BY DEF Hpke!LockRow, EnvelopesProofs!LockRow, Hpke!SealedBy,
         EnvelopesProofs!SealedBy
    <3>4. Hpke!CommitRow <=> EnvelopesProofs!CommitRow
      BY DEF Hpke!CommitRow, EnvelopesProofs!CommitRow
    <3>5. Hpke!RowFails <=> EnvelopesProofs!RowFails
      BY DEF Hpke!RowFails, EnvelopesProofs!RowFails
    <3>6. Hpke!EndRun <=> EnvelopesProofs!EndRun
      BY DEF Hpke!EndRun, EnvelopesProofs!EndRun, Hpke!NoRun,
         EnvelopesProofs!NoRun
    <3>7. Hpke!PrepareRotation <=> EnvelopesProofs!PrepareRotation
      BY DEF Hpke!PrepareRotation, EnvelopesProofs!PrepareRotation,
         Hpke!NoRun, EnvelopesProofs!NoRun
    <3>8. Hpke!ActivateGeneration <=> EnvelopesProofs!ActivateGeneration
      BY DEF Hpke!ActivateGeneration, EnvelopesProofs!ActivateGeneration,
         Hpke!NoRun, EnvelopesProofs!NoRun
    <3>9. Hpke!Switch <=> EnvelopesProofs!Switch
      BY DEF Hpke!Switch, EnvelopesProofs!Switch
    <3>10. Hpke!Inventory <=> EnvelopesProofs!Inventory
      BY DEF Hpke!Inventory, EnvelopesProofs!Inventory,
         Hpke!AfterSwitch, EnvelopesProofs!AfterSwitch, Hpke!SealedBy,
         EnvelopesProofs!SealedBy, Hpke!Generations,
         EnvelopesProofs!Generations
    <3>11. \A g : Hpke!List(g) <=> EnvelopesProofs!List(g)
      BY DEF Hpke!List, EnvelopesProofs!List, Hpke!SealedBy,
         EnvelopesProofs!SealedBy, Hpke!NoRun, EnvelopesProofs!NoRun
    <3>12. \A g : Hpke!RetireGeneration(g) <=> EnvelopesProofs!RetireGeneration(g)
      BY DEF Hpke!RetireGeneration, EnvelopesProofs!RetireGeneration,
         Hpke!NoRun, EnvelopesProofs!NoRun
    <3>13. Hpke!Generations = EnvelopesProofs!Generations
      BY DEF Hpke!Generations, EnvelopesProofs!Generations
    <3>14. QED
      BY <3>1, <3>2, <3>3, <3>4, <3>5, <3>6, <3>7, <3>8, <3>9, <3>10, <3>11, <3>12, <3>13,
         Zenon DEF Hpke!Next, EnvelopesProofs!Next
  <2>3. QED
    BY <2>1, <2>2 DEF Hpke!hpkeVars, EnvelopesProofs!hpkeVars
<1>3. QED
  BY <1>1, <1>2, PTL DEF ServicesSpec, EnvelopesProofs!HpkeSpec

(* Through both rotations every stored secret can be opened with a key     *)
(* that is kept: the storage key's, whatever was interrupted or limited    *)
(* and whatever owners change during the runs, and the HPKE keys'.         *)
THEOREM SecretsStayOpen == ServicesSpec => []SecretsOpen
<1>1. ServicesSpec => []SecretsInv
  BY SecretsAlone, InitSecrets, StepSecrets, PTL DEF Secrets!RotationSpec
<1>2. SecretsInv => Secrets!RetirementSafe
  BY InventoryKeyed DEF SecretsInv, Secrets!RetirementSafe
<1>3. ServicesSpec => []EnvelopesProofs!EnvelopesKept
  <2>1. MaxKeyGenerations \in Nat \ {0} /\ Absent \notin EnvelopesProofs!Generations
    BY SecretsAssumption DEF Hpke!Generations, EnvelopesProofs!Generations
  <2>2. EnvelopesProofs!HpkeSpec => []EnvelopesProofs!EnvelopesKept
    BY <2>1, EnvelopesProofs!EnvelopesStayOpen
  <2>3. QED
    BY <2>2, EnvelopesAlone, PTL
<1>4. EnvelopesProofs!EnvelopesKept => Hpke!EnvelopesKept
  BY DEF Hpke!EnvelopesKept, EnvelopesProofs!EnvelopesKept
<1>5. QED
  BY <1>1, <1>2, <1>3, <1>4, PTL DEF SecretsOpen


-----------------------------------------------------------------------------
(* The Telegram outbox: Notifications.                                     *)

\* In the composition, the outbox takes its own steps only.
LEMMA OutboxAlone == ServicesSpec => Outbox!Spec
<1>1. ServicesInit => Outbox!Init
  BY DEF ServicesInit
<1>2. [ServicesNext]_servicesVars => [Outbox!Next]_(Outbox!vars)
  BY DEF ServicesNext, servicesVars, Calendar, AdmissionStep, OutboxStep, GradesStep,
     SimulationStep, BoardStep, LearningStep, SecretsStep, EnvelopesStep, outboxVars,
     Outbox!vars
<1>3. QED
  BY <1>1, <1>2, PTL DEF ServicesSpec, Outbox!Spec

(* A row of the outbox: it has an attempt left while it is queued, and was *)
(* attempted if it is held.                                                *)
OutboxRow(r) ==
  /\ r \in Outbox!Queue!Row /\ r.attempts <= MaxAttempts
  /\ r.status = "absent" => r.attempts = 0
  /\ r.status # "absent" => r.id > 0
  /\ r.status = "queued" => r.attempts < MaxAttempts
  /\ r.status = "running" => r.attempts > 0

(* The attempts made for a message, those that its deleted rows never made *)
(* counted as made.                                                        *)
Spent(r) == IF r.status = "absent" THEN r.id * MaxAttempts
                                   ELSE (r.id - 1) * MaxAttempts + r.attempts

\* A row may change to one that grants no attempt and acknowledges nothing.
Worn(r, s) ==
  OutboxRow(s) /\ Spent(s) >= Spent(r) /\ (s.status = "succeeded" => r.status = "succeeded")

\* One attempt more for each row.
LEMMA OneTimesMore ==
  ASSUME NEW i \in Nat \ {0}, NEW n \in Nat
  PROVE  (i - 1) * n \in Nat /\ i * n = (i - 1) * n + n
OBVIOUS

\* What the handlers make of a row.
LEMMA RowsWear ==
  ASSUME NEW r, OutboxRow(r)
  PROVE  /\ r.status = "absent" => Worn(r, Outbox!Queue!Inserted(r))
         /\ r.status = "queued" => /\ OutboxRow(Outbox!Queue!Leased(r))
                                   /\ Spent(Outbox!Queue!Leased(r)) = Spent(r) + 1
                                   /\ Outbox!Queue!Leased(r).status = "running"
         /\ r.status = "running" => /\ Worn(r, Outbox!Queue!Failed(r))
                                    /\ OutboxRow(Outbox!Queue!Succeeded(r))
                                    /\ Spent(Outbox!Queue!Succeeded(r)) = Spent(r)
         /\ r.status \in Outbox!Queue!Terminal => Worn(r, Outbox!Queue!Deleted(r))
         /\ Worn(r, Outbox!Queue!Elapsed(r))
         /\ Worn(r, r)
         /\ Spent(r) \in Nat /\ Spent(r) <= r.id * MaxAttempts
<1>m. MaxAttempts \in Nat \ {0} /\ LeaseTime \in Nat /\ SucceededRetention \in Nat /\ DeadRetention \in Nat
  BY OutboxAssumption
<1>0. /\ r \in [id: Nat, status: Outbox!Queue!Statuses, attempts: Nat, worker: Nat, timer: Nat]
      /\ r \in Outbox!Queue!Row /\ r.id \in Nat /\ r.attempts \in 0..MaxAttempts
      /\ r.status \in {"absent", "queued", "running", "succeeded", "dead_letter"}
  BY <1>m DEF OutboxRow, Outbox!Queue!Row, Outbox!Queue!Statuses
<1> DEFINE K == r.id * MaxAttempts
           L == (r.id - 1) * MaxAttempts
<1>1. K \in Nat
  BY <1>m, <1>0
<1>2. r.id > 0 => L \in Nat /\ K = L + MaxAttempts
  BY <1>m, <1>0, OneTimesMore
<1>3. (r.id + 1) - 1 = r.id
  BY <1>0
<1>4. Spent(r) = IF r.status = "absent" THEN K ELSE L + r.attempts
  BY DEF Spent
<1>5. r.status # "absent" => r.id > 0
  BY DEF OutboxRow
<1> HIDE DEF K, L
<1>6. Spent(r) \in Nat /\ Spent(r) <= K
  BY <1>m, <1>0, <1>1, <1>2, <1>4, <1>5
<1>7. ASSUME r.status = "absent"
      PROVE  Worn(r, Outbox!Queue!Inserted(r))
  <2> DEFINE s == Outbox!Queue!Inserted(r)
  <2>1. OutboxRow(s) /\ s.status = "queued" /\ s.id = r.id + 1 /\ s.attempts = 0
    BY <1>m, <1>0 DEF OutboxRow, Outbox!Queue!Inserted, Outbox!Queue!Row,
       Outbox!Queue!Statuses, Outbox!Queue!NoWorker
  <2>2. Spent(s) = r.id * MaxAttempts + 0
    BY <2>1, <1>3 DEF Spent
  <2>3. Spent(s) = Spent(r)
    BY <2>2, <1>1, <1>4, <1>7 DEF K
  <2> HIDE DEF s
  <2>4. QED
    BY <2>1, <2>3, <1>6 DEF Worn, s
<1>8. ASSUME NEW s, r.status # "absent", s.status # "absent", s.id = r.id
      PROVE  Spent(s) = L + s.attempts
  BY <1>8 DEF Spent, L
<1>9. ASSUME r.status = "queued"
      PROVE  /\ OutboxRow(Outbox!Queue!Leased(r))
             /\ Spent(Outbox!Queue!Leased(r)) = Spent(r) + 1
             /\ Outbox!Queue!Leased(r).status = "running"
  <2> DEFINE s == Outbox!Queue!Leased(r)
  <2>1. /\ OutboxRow(s) /\ s.status = "running" /\ s.id = r.id
        /\ s.attempts = r.attempts + 1
    <3>1. s = [id |-> r.id, status |-> "running", attempts |-> r.attempts + 1,
               worker |-> r.attempts + 1, timer |-> LeaseTime]
      <4> DEFINE x == [r EXCEPT !.status = "running"]
                 y == [x EXCEPT !.attempts = @ + 1]
                 z == [y EXCEPT !.worker = r.attempts + 1]
      <4>1. x = [id |-> r.id, status |-> "running", attempts |-> r.attempts,
                 worker |-> r.worker, timer |-> r.timer]
        BY <1>0
      <4> HIDE DEF x
      <4>2. y = [id |-> r.id, status |-> "running", attempts |-> r.attempts + 1,
                 worker |-> r.worker, timer |-> r.timer]
        BY <4>1
      <4> HIDE DEF y
      <4>3. z = [id |-> r.id, status |-> "running", attempts |-> r.attempts + 1,
                 worker |-> r.attempts + 1, timer |-> r.timer]
        BY <4>2
      <4> HIDE DEF z
      <4>4. s = [z EXCEPT !.timer = LeaseTime]
        BY DEF x, y, z, Outbox!Queue!Leased, Outbox!Queue!WorkerId
      <4> HIDE DEF s
      <4>5. QED
        BY <4>3, <4>4
    <3>2. r.attempts < MaxAttempts /\ r.id > 0
      BY <1>5, <1>9 DEF OutboxRow
    <3> HIDE DEF s
    <3>3. s \in Outbox!Queue!Row
      BY <1>m, <1>0, <3>1 DEF Outbox!Queue!Row, Outbox!Queue!Statuses
    <3>4. QED
      BY <1>m, <1>0, <3>1, <3>2, <3>3 DEF OutboxRow
  <2> HIDE DEF s
  <2>2. Spent(s) = L + s.attempts
    BY <1>8, <1>9, <2>1
  <2>3. L \in Nat
    BY <1>2, <1>5, <1>9
  <2>4. Spent(s) = Spent(r) + 1
    BY <2>1, <2>2, <2>3, <1>0, <1>4, <1>9
  <2>5. QED
    BY <2>1, <2>4 DEF s
<1>10. ASSUME r.status = "running"
       PROVE  /\ Worn(r, Outbox!Queue!Failed(r))
              /\ OutboxRow(Outbox!Queue!Succeeded(r))
              /\ Spent(Outbox!Queue!Succeeded(r)) = Spent(r)
  <2> DEFINE s == Outbox!Queue!Failed(r)
             d == Outbox!Queue!Succeeded(r)
  <2>1. /\ OutboxRow(s) /\ s.status \in {"queued", "dead_letter"} /\ s.id = r.id
        /\ s.attempts = r.attempts
    <3>1. CASE r.attempts >= MaxAttempts
      BY <1>m, <1>0, <1>10, <3>1 DEF OutboxRow, Outbox!Queue!Failed, Outbox!Queue!Row,
         Outbox!Queue!Statuses, Outbox!Queue!DeadLetter, Outbox!Queue!NoWorker
    <3>2. CASE ~(r.attempts >= MaxAttempts)
      <4>1. Backoff[r.attempts] \in Nat
        BY OutboxAssumption, <1>m, <1>0, <1>10, <3>2 DEF OutboxRow
      <4>2. QED
        <5>1. s = [id |-> r.id, status |-> "queued", attempts |-> r.attempts,
                   worker |-> 0, timer |-> Backoff[r.attempts]]
          BY <1>0, <3>2 DEF Outbox!Queue!Failed, Outbox!Queue!Requeued, Outbox!Queue!NoWorker
        <5> HIDE DEF s
        <5>2. s \in Outbox!Queue!Row
          BY <1>m, <1>0, <4>1, <5>1 DEF Outbox!Queue!Row, Outbox!Queue!Statuses
        <5>3. QED
          BY <1>m, <1>0, <1>5, <1>10, <3>2, <5>1, <5>2 DEF OutboxRow
    <3>3. QED
      BY <3>1, <3>2
  <2>2. OutboxRow(d) /\ d.status = "succeeded" /\ d.id = r.id /\ d.attempts = r.attempts
    BY <1>m, <1>0, <1>10 DEF OutboxRow, Outbox!Queue!Succeeded, Outbox!Queue!Row,
       Outbox!Queue!Statuses, Outbox!Queue!NoWorker
  <2> HIDE DEF s, d
  <2>3. Spent(s) = L + r.attempts /\ Spent(d) = L + r.attempts
    BY <1>8, <1>10, <2>1, <2>2
  <2>4. Spent(s) = Spent(r) /\ Spent(d) = Spent(r)
    BY <2>3, <1>4, <1>10
  <2>5. Worn(r, s)
    BY <2>1, <2>4, <1>6 DEF Worn
  <2>6. QED
    BY <2>2, <2>4, <2>5 DEF s, d
<1>11. ASSUME r.status \in Outbox!Queue!Terminal
       PROVE  Worn(r, Outbox!Queue!Deleted(r))
  <2> DEFINE s == Outbox!Queue!Deleted(r)
  <2>1. OutboxRow(s) /\ s.status = "absent" /\ s.id = r.id
    <3>1. s = [id |-> r.id, status |-> "absent", attempts |-> 0, worker |-> r.worker,
               timer |-> 0]
      <4> DEFINE x == [r EXCEPT !.status = "absent"]
                 y == [x EXCEPT !.attempts = 0]
      <4>1. x = [id |-> r.id, status |-> "absent", attempts |-> r.attempts,
                 worker |-> r.worker, timer |-> r.timer]
        BY <1>0
      <4> HIDE DEF x
      <4>2. y = [id |-> r.id, status |-> "absent", attempts |-> 0,
                 worker |-> r.worker, timer |-> r.timer]
        BY <4>1
      <4> HIDE DEF y
      <4>3. s = [y EXCEPT !.timer = 0]
        BY DEF x, y, Outbox!Queue!Deleted
      <4> HIDE DEF s
      <4>4. QED
        BY <4>2, <4>3
    <3> HIDE DEF s
    <3>2. s \in Outbox!Queue!Row
      BY <1>0, <3>1 DEF Outbox!Queue!Row, Outbox!Queue!Statuses
    <3>3. QED
      BY <1>m, <1>0, <3>1, <3>2 DEF OutboxRow
  <2> HIDE DEF s
  <2>2. Spent(s) = K
    BY <2>1 DEF Spent, K
  <2>3. QED
    BY <1>1, <1>6, <2>1, <2>2 DEF Worn, s
<1>12. Worn(r, Outbox!Queue!Elapsed(r)) /\ Worn(r, r)
  <2>1. Worn(r, r)
    BY <1>6 DEF Worn
  <2>2. CASE r.timer > 0
    <3> DEFINE s == Outbox!Queue!Elapsed(r)
    <3>1. OutboxRow(s) /\ s.status = r.status /\ s.id = r.id /\ s.attempts = r.attempts
      BY <1>0, <2>2 DEF OutboxRow, Outbox!Queue!Elapsed, Outbox!Queue!Row, Outbox!Queue!Statuses
    <3> HIDE DEF s
    <3>2. Spent(s) = Spent(r)
      BY <3>1 DEF Spent
    <3>3. QED
      BY <1>6, <2>1, <3>1, <3>2 DEF Worn, s
  <2>3. CASE ~(r.timer > 0)
    BY <2>1, <2>3 DEF Outbox!Queue!Elapsed
  <2>4. QED
    BY <2>1, <2>2, <2>3
<1>13. QED
  BY <1>6, <1>7, <1>9, <1>10, <1>11, <1>12 DEF K

\* Counting workers.
LEMMA WorkersCount ==
  ASSUME NEW S \in SUBSET Workers, NEW T \in SUBSET Workers
  PROVE  /\ Cardinality(S) \in Nat /\ Cardinality(T) \in Nat
         /\ T \subseteq S => Cardinality(T) <= Cardinality(S)
         /\ \A w : T \subseteq S \cup {w} => Cardinality(T) <= Cardinality(S) + 1
         /\ \A w \in S : T \subseteq S \ {w} => Cardinality(T) + 1 <= Cardinality(S)
<1>1. IsFiniteSet(S) /\ IsFiniteSet(T)
  BY OutboxAssumption, FS_Subset
<1>2. Cardinality(S) \in Nat /\ Cardinality(T) \in Nat
  BY <1>1, FS_CardinalityType
<1>3. ASSUME T \subseteq S
      PROVE  Cardinality(T) <= Cardinality(S)
  BY <1>1, <1>3, FS_Subset
<1>4. ASSUME NEW w, T \subseteq S \cup {w}
      PROVE  Cardinality(T) <= Cardinality(S) + 1
  <2>1. /\ IsFiniteSet(S \cup {w})
        /\ Cardinality(S \cup {w}) = IF w \in S THEN Cardinality(S) ELSE Cardinality(S) + 1
    BY <1>1, FS_AddElement
  <2>2. Cardinality(T) <= Cardinality(S \cup {w})
    BY <1>4, <2>1, FS_Subset
  <2>3. QED
    BY <1>2, <2>1, <2>2
<1>5. ASSUME NEW w \in S, T \subseteq S \ {w}
      PROVE  Cardinality(T) + 1 <= Cardinality(S)
  <2>1. IsFiniteSet(S \ {w}) /\ Cardinality(S \ {w}) = Cardinality(S) - 1
    BY <1>1, FS_RemoveElement
  <2>2. Cardinality(T) <= Cardinality(S \ {w})
    BY <1>5, <2>1, FS_Subset
  <2>3. QED
    BY <1>2, <2>1, <2>2
<1>6. QED
  BY <1>2, <1>3, <1>4, <1>5

\* Telegram took the message, or somebody did not want it.
Answered(m) == arrived[m] > 0 \/ m \in withdrawn

\* The workers that may still send a message for the claim they hold.
MaySend(m) == {w \in Workers : sending[w] \in {"claimed", "posting"} /\ claim[w].job = m}

\* What is known of one message and its row.
MessageSound(m) ==
  /\ OutboxRow(outbox[m])
  /\ wanted[m] = TRUE \/ m \in withdrawn
  /\ outbox[m].status = "succeeded" => Answered(m)
  /\ arrived[m] + Cardinality(MaySend(m)) <= Spent(outbox[m])

(* The inductive invariant: what arrived and what may still be sent for a  *)
(* message never exceeds the attempts made, and whoever acknowledges it    *)
(* knows that it arrived or that it was not wanted.                        *)
OutboxInv ==
  /\ Outbox!TypeOK
  /\ \A m \in Messages : MessageSound(m)
  /\ \A w \in Workers : sending[w] = "delivered" => Answered(claim[w].job)

\* What the types say of one worker and of one message.
LEMMA OutboxTyped ==
  ASSUME OutboxInv
  PROVE  /\ \A m \in Messages : /\ OutboxRow(outbox[m]) /\ arrived[m] \in Nat
                                /\ MaySend(m) \in SUBSET Workers
         /\ \A w \in Workers : /\ sending[w] \in Outbox!Phases
                               /\ claim[w] = NoClaim <=> sending[w] = "idle"
                               /\ claim[w] # NoClaim => /\ claim[w] \in Outbox!Queue!Claim
                                                        /\ claim[w].job \in Messages
BY DEF OutboxInv, MessageSound, Outbox!TypeOK, Outbox!Queue!TypeOK, Outbox!Queue!Claim, MaySend

\* Rows that all wear keep what is known of the messages.
LEMMA RowsOnly ==
  ASSUME OutboxInv, DOMAIN outbox' = Messages, outbox' = [m \in Messages |-> outbox'[m]],
         \A m \in Messages : Worn(outbox[m], outbox'[m]),
         UNCHANGED <<sending, claim, arrived, wanted, withdrawn>>
  PROVE  OutboxInv'
<1>1. \A m \in Messages : /\ OutboxRow(outbox'[m]) /\ Spent(outbox'[m]) >= Spent(outbox[m])
                          /\ outbox'[m].status = "succeeded" => outbox[m].status = "succeeded"
  BY DEF Worn
<1>2. Outbox!TypeOK'
  <2>1. outbox' \in [Messages -> Outbox!Queue!Row]
    BY <1>1 DEF OutboxRow
  <2>2. QED
    BY <2>1 DEF OutboxInv, Outbox!TypeOK, Outbox!Queue!TypeOK
<1>3. ASSUME NEW m \in Messages
      PROVE  MessageSound(m)'
  <2>1. MessageSound(m) /\ MaySend(m)' = MaySend(m) /\ (Answered(m)' <=> Answered(m))
    BY DEF OutboxInv, MaySend, Answered
  <2>2. /\ Spent(outbox[m]) \in Nat /\ Spent(outbox'[m]) \in Nat
        /\ arrived[m] \in Nat /\ Cardinality(MaySend(m)) \in Nat
    BY <1>1, OutboxTyped, RowsWear, WorkersCount
  <2>3. arrived'[m] + Cardinality(MaySend(m)') <= Spent(outbox'[m])
    BY <1>1, <2>1, <2>2 DEF MessageSound
  <2>4. QED
    BY <1>1, <2>1, <2>3 DEF MessageSound
<1>4. QED
  BY <1>2, <1>3 DEF OutboxInv, Answered

\* The recovery makes every row wear.
LEMMA RecoveryWears ==
  ASSUME OutboxInv
  PROVE  /\ Outbox!Queue!RecoverExpired =
              [m \in Messages |-> Outbox!Queue!RecoverExpired[m]]
         /\ DOMAIN Outbox!Queue!RecoverExpired = Messages
         /\ \A m \in Messages : Worn(outbox[m], Outbox!Queue!RecoverExpired[m])
<1>1. \A m \in Messages : Worn(outbox[m], Outbox!Queue!RecoverExpired[m])
  BY OutboxTyped, RowsWear DEF Outbox!Queue!RecoverExpired, Outbox!Queue!Expired
<1>2. QED
  BY <1>1 DEF Outbox!Queue!RecoverExpired

\* One worker moves on and nothing else changes but what arrived.
LEMMA OneSends ==
  ASSUME OutboxInv, NEW w \in Workers, claim[w] # NoClaim,
         NEW next \in Outbox!Phases, next # "idle",
         sending' = [sending EXCEPT ![w] = next],
         UNCHANGED <<wanted, withdrawn, outbox, claim>>,
         arrived' \in [Messages -> Nat],
         \A m \in Messages : m # claim[w].job => arrived'[m] = arrived[m],
         arrived'[claim[w].job] \in {arrived[claim[w].job], arrived[claim[w].job] + 1},
         next = "posting" => sending[w] \in {"claimed", "posting"},
         next # "claimed",
         arrived' # arrived => sending[w] = "posting" /\ next # "posting",
         next = "delivered" => Answered(claim[w].job)'
  PROVE  OutboxInv'
<1> DEFINE j == claim[w].job
<1>t. /\ j \in Messages
      /\ \A m \in Messages : arrived[m] \in Nat /\ arrived'[m] \in Nat
  BY OutboxTyped
<1>1. Outbox!TypeOK'
  BY DEF OutboxInv, Outbox!TypeOK, Outbox!Queue!TypeOK
<1>2. \A m \in Messages : Answered(m) => Answered(m)'
  BY <1>t DEF Answered
<1>3. ASSUME NEW m \in Messages
      PROVE  MessageSound(m)'
  <2>1. MaySend(m)' \in SUBSET Workers /\ MaySend(m) \in SUBSET Workers
    BY DEF MaySend
  <2>2. MaySend(m)' \subseteq MaySend(m)
    BY DEF MaySend, OutboxInv, Outbox!TypeOK
  <2>3. arrived'[m] # arrived[m] => /\ m = j /\ arrived'[m] = arrived[m] + 1
                                    /\ w \in MaySend(m) /\ MaySend(m)' \subseteq MaySend(m) \ {w}
    BY <1>t, <2>2 DEF MaySend, OutboxInv, Outbox!TypeOK
  <2>4. Spent(outbox[m]) \in Nat /\ arrived[m] + Cardinality(MaySend(m)) <= Spent(outbox[m])
    BY OutboxTyped, RowsWear DEF OutboxInv, MessageSound
  <2>5. arrived'[m] + Cardinality(MaySend(m)') <= Spent(outbox[m])
    <3>1. CASE arrived'[m] = arrived[m]
      BY <1>t, <2>1, <2>2, <2>4, <3>1, WorkersCount
    <3>2. CASE arrived'[m] # arrived[m]
      BY <1>t, <2>1, <2>3, <2>4, <3>2, WorkersCount
    <3>3. QED
      BY <3>1, <3>2
  <2>6. QED
    BY <1>2, <2>5 DEF OutboxInv, MessageSound
<1>4. \A v \in Workers : sending'[v] = "delivered" => Answered(claim[v].job)'
  BY <1>2, OutboxTyped DEF OutboxInv, Outbox!TypeOK
<1>5. QED
  BY <1>1, <1>3, <1>4 DEF OutboxInv

\* A worker lets go of its claim.
LEMMA LetsGo ==
  ASSUME OutboxInv, NEW w \in Workers, claim[w] # NoClaim,
         sending' = [sending EXCEPT ![w] = "idle"],
         claim' = [claim EXCEPT ![w] = NoClaim],
         UNCHANGED <<wanted, withdrawn, arrived>>,
         outbox' \in [Messages -> Outbox!Queue!Row],
         \A m \in Messages :
           /\ OutboxRow(outbox'[m]) /\ Spent(outbox'[m]) >= Spent(outbox[m])
           /\ outbox'[m].status = "succeeded" => outbox[m].status = "succeeded" \/ Answered(m)
  PROVE  OutboxInv'
<1>1. Outbox!TypeOK'
  BY DEF OutboxInv, Outbox!TypeOK, Outbox!Queue!TypeOK, Outbox!Phases
<1>2. ASSUME NEW m \in Messages
      PROVE  MessageSound(m)'
  <2>1. MaySend(m)' \in SUBSET Workers /\ MaySend(m) \in SUBSET Workers
    BY DEF MaySend
  <2>2. MaySend(m)' \subseteq MaySend(m)
    BY DEF MaySend, OutboxInv, Outbox!TypeOK, Outbox!Queue!TypeOK
  <2>3. /\ Spent(outbox[m]) \in Nat /\ Spent(outbox'[m]) \in Nat /\ arrived[m] \in Nat
        /\ arrived[m] + Cardinality(MaySend(m)) <= Spent(outbox[m])
    BY OutboxTyped, RowsWear DEF OutboxInv, MessageSound
  <2>4. arrived'[m] + Cardinality(MaySend(m)') <= Spent(outbox'[m])
    BY <2>1, <2>2, <2>3, WorkersCount
  <2>5. MessageSound(m) /\ (Answered(m)' <=> Answered(m))
    BY DEF OutboxInv, Answered
  <2>6. QED
    BY <2>4, <2>5 DEF MessageSound
<1>3. \A v \in Workers : sending'[v] = "delivered" => Answered(claim[v].job)'
  BY DEF OutboxInv, Answered, Outbox!TypeOK, Outbox!Queue!TypeOK
<1>4. QED
  BY <1>1, <1>2, <1>3 DEF OutboxInv

\* A step of the outbox keeps the invariant.
LEMMA StepOutbox == OutboxInv /\ [Outbox!Next]_(Outbox!vars) => OutboxInv'
<1> SUFFICES ASSUME OutboxInv, [Outbox!Next]_(Outbox!vars)
             PROVE  OutboxInv'
  OBVIOUS
<1>t. Outbox!TypeOK /\ outbox \in [Messages -> Outbox!Queue!Row]
  BY DEF OutboxInv, Outbox!TypeOK, Outbox!Queue!TypeOK
<1>1. ASSUME NEW m \in Messages, Outbox!EnqueueNotification(m)
      PROVE  OutboxInv'
  <2>1. /\ outbox' = [n \in Messages |-> IF n \in {m} THEN Outbox!Queue!Inserted(outbox[n])
                                                      ELSE outbox[n]]
        /\ \A n \in {m} : outbox[n].status = "absent"
        /\ UNCHANGED <<sending, claim, arrived, wanted, withdrawn>>
    BY <1>1 DEF Outbox!EnqueueNotification, Outbox!Queue!EnqueueJobs
  <2>2. \A n \in Messages : Worn(outbox[n], outbox'[n])
    BY <2>1, OutboxTyped, RowsWear
  <2>3. QED
    BY <2>1, <2>2, RowsOnly
<1>2. ASSUME NEW w \in Workers, NEW m \in Messages, Outbox!ClaimOutbox(w, m)
      PROVE  OutboxInv'
  <2> DEFINE R == Outbox!Queue!RecoverExpired
  <2>1. /\ claim[w] = NoClaim /\ R[m].status = "queued"
        /\ outbox' = [R EXCEPT ![m] = Outbox!Queue!Leased(R[m])]
        /\ claim' = [claim EXCEPT ![w] = [job |-> m, id |-> outbox[m].id,
                                          worker |-> outbox[m].attempts + 1]]
        /\ sending' = [sending EXCEPT ![w] = "claimed"]
        /\ UNCHANGED <<wanted, withdrawn, arrived>>
    BY <1>2 DEF Outbox!ClaimOutbox, Outbox!Queue!ClaimJob, Outbox!Queue!Foremost,
       Outbox!Queue!Claimable, Outbox!Queue!WorkerId
  <2>2. /\ DOMAIN R = Messages /\ R = [n \in Messages |-> R[n]]
        /\ \A n \in Messages : Worn(outbox[n], R[n])
    BY RecoveryWears
  <2>3. /\ OutboxRow(Outbox!Queue!Leased(R[m]))
        /\ Spent(Outbox!Queue!Leased(R[m])) = Spent(R[m]) + 1
        /\ Outbox!Queue!Leased(R[m]).status = "running"
    BY <2>1, <2>2, RowsWear DEF Worn
  <2> HIDE DEF R
  <2>4. /\ DOMAIN outbox' = Messages /\ outbox' = [n \in Messages |-> outbox'[n]]
        /\ outbox'[m] = Outbox!Queue!Leased(R[m])
        /\ \A n \in Messages : n # m => outbox'[n] = R[n]
    BY <2>1, <2>2
  <2>5. \A n \in Messages :
          /\ OutboxRow(outbox'[n]) /\ outbox'[n] \in Outbox!Queue!Row
          /\ Spent(outbox'[n]) >= Spent(outbox[n]) + (IF n = m THEN 1 ELSE 0)
          /\ outbox'[n].status = "succeeded" => outbox[n].status = "succeeded"
    <3> SUFFICES ASSUME NEW n \in Messages
                 PROVE  /\ OutboxRow(outbox'[n]) /\ outbox'[n] \in Outbox!Queue!Row
                        /\ Spent(outbox'[n]) >= Spent(outbox[n]) + (IF n = m THEN 1 ELSE 0)
                        /\ outbox'[n].status = "succeeded" => outbox[n].status = "succeeded"
      OBVIOUS
    <3>1. OutboxRow(outbox'[n]) /\ outbox'[n] \in Outbox!Queue!Row
      BY <2>2, <2>3, <2>4 DEF Worn, OutboxRow
    <3>2. Spent(outbox[n]) \in Nat /\ Spent(R[n]) \in Nat /\ Spent(R[n]) >= Spent(outbox[n])
      BY <2>2, OutboxTyped, RowsWear DEF Worn
    <3>3. Spent(outbox'[n]) >= Spent(outbox[n]) + (IF n = m THEN 1 ELSE 0)
      BY <2>3, <2>4, <3>2
    <3>4. outbox'[n].status = "succeeded" => outbox[n].status = "succeeded"
      BY <2>2, <2>3, <2>4 DEF Worn
    <3>5. QED
      BY <3>1, <3>3, <3>4
  <2>6. Outbox!TypeOK'
    <3>1. outbox[m].id \in Nat /\ outbox[m].attempts + 1 \in Nat
      BY <1>t DEF Outbox!Queue!Row
    <3>2. claim' \in [Workers -> Outbox!Queue!Claim \cup {NoClaim}]
      BY <1>t, <2>1, <3>1 DEF Outbox!TypeOK, Outbox!Queue!TypeOK, Outbox!Queue!Claim
    <3>3. claim'[w] # NoClaim
      <4>1. claim'[w] \in Outbox!Queue!Claim
        BY <1>t, <2>1, <3>1 DEF Outbox!TypeOK, Outbox!Queue!TypeOK, Outbox!Queue!Claim
      <4>2. QED
        BY <4>1, OutboxAssumption
    <3>4. outbox' \in [Messages -> Outbox!Queue!Row]
      BY <2>4, <2>5
    <3>5. \A v \in Workers : sending'[v] = "idle" <=> claim'[v] = NoClaim
      BY <1>t, <2>1, <3>3 DEF Outbox!TypeOK, Outbox!Queue!TypeOK
    <3>6. sending' \in [Workers -> Outbox!Phases]
      BY <1>t, <2>1 DEF Outbox!TypeOK, Outbox!Phases
    <3>7. QED
      BY <1>t, <2>1, <3>2, <3>4, <3>5, <3>6 DEF Outbox!TypeOK, Outbox!Queue!TypeOK
  <2>7. ASSUME NEW n \in Messages
        PROVE  MessageSound(n)'
    <3>1. /\ MaySend(n)' \in SUBSET Workers /\ MaySend(n) \in SUBSET Workers
          /\ MaySend(n)' \subseteq MaySend(n) \cup {w}
          /\ n # m => MaySend(n)' \subseteq MaySend(n)
      BY <1>t, <2>1 DEF MaySend, Outbox!TypeOK, Outbox!Queue!TypeOK
    <3>2. /\ Spent(outbox[n]) \in Nat /\ Spent(outbox'[n]) \in Nat /\ arrived[n] \in Nat
          /\ arrived[n] + Cardinality(MaySend(n)) <= Spent(outbox[n])
      BY <2>5, OutboxTyped, RowsWear DEF OutboxInv, MessageSound
    <3>3. arrived'[n] + Cardinality(MaySend(n)') <= Spent(outbox'[n])
      <4>1. CASE n = m
        <5>1. Cardinality(MaySend(n)') <= Cardinality(MaySend(n)) + 1
          BY <3>1, WorkersCount
        <5>2. Spent(outbox'[n]) >= Spent(outbox[n]) + 1
          BY <2>5, <4>1
        <5>3. QED
          BY <2>1, <3>1, <3>2, <5>1, <5>2, WorkersCount
      <4>2. CASE n # m
        <5>1. Cardinality(MaySend(n)') <= Cardinality(MaySend(n))
          BY <3>1, <4>2, WorkersCount
        <5>2. Spent(outbox'[n]) >= Spent(outbox[n])
          BY <2>5, <3>2, <4>2
        <5>3. QED
          BY <2>1, <3>1, <3>2, <5>1, <5>2, WorkersCount
      <4>3. QED
        BY <4>1, <4>2
    <3>4. MessageSound(n) /\ (Answered(n)' <=> Answered(n))
      BY <2>1 DEF OutboxInv, Answered
    <3>5. QED
      BY <2>1, <2>5, <3>3, <3>4 DEF MessageSound
  <2>8. \A v \in Workers : sending'[v] = "delivered" => Answered(claim[v].job)'
    BY <1>t, <2>1 DEF OutboxInv, Answered, Outbox!TypeOK, Outbox!Queue!TypeOK
  <2>9. QED
    BY <2>6, <2>7, <2>8 DEF OutboxInv
<1>3. ASSUME NEW w \in Workers, Outbox!PollEmpty(w)
      PROVE  OutboxInv'
  <2>1. /\ outbox' = Outbox!Queue!RecoverExpired
        /\ UNCHANGED <<sending, claim, arrived, wanted, withdrawn>>
    BY <1>3 DEF Outbox!PollEmpty, Outbox!Queue!PollEmpty
  <2>2. QED
    BY <2>1, RecoveryWears, RowsOnly
<1>4. ASSUME NEW w \in Workers, Outbox!Compose(w)
      PROVE  OutboxInv'
  <2>1. PICK next \in {IF wanted[claim[w].job] THEN "posting" ELSE "delivered", "refused"} :
          sending' = [sending EXCEPT ![w] = next]
    BY <1>4 DEF Outbox!Compose
  <2>2. /\ sending[w] = "claimed" /\ claim[w] # NoClaim /\ claim[w].job \in Messages
        /\ UNCHANGED <<wanted, withdrawn, arrived, outbox, claim>>
    BY <1>4, OutboxTyped DEF Outbox!Compose
  <2>3. next = "delivered" => Answered(claim[w].job)'
    BY <2>1, <2>2 DEF OutboxInv, MessageSound, Answered
  <2>4. next \in {"posting", "delivered", "refused"}
    BY <2>1
  <2>5. arrived' \in [Messages -> Nat] /\ next \in Outbox!Phases
    BY <1>t, <2>2, <2>4 DEF Outbox!TypeOK, Outbox!Phases
  <2>6. QED
    BY <2>1, <2>2, <2>3, <2>4, <2>5, OneSends
<1>5. ASSUME NEW w \in Workers, Outbox!Post(w)
      PROVE  OutboxInv'
  <2>1. PICK taken \in BOOLEAN, answered \in BOOLEAN :
          /\ arrived' = IF taken THEN [arrived EXCEPT ![claim[w].job] = @ + 1] ELSE arrived
          /\ sending' = [sending EXCEPT ![w] = IF taken /\ answered THEN "delivered"
                                                                    ELSE "refused"]
    BY <1>5 DEF Outbox!Post
  <2> DEFINE next == IF taken /\ answered THEN "delivered" ELSE "refused"
  <2>2. /\ sending[w] = "posting" /\ claim[w] # NoClaim /\ claim[w].job \in Messages
        /\ UNCHANGED <<wanted, withdrawn, outbox, claim>>
    BY <1>5, OutboxTyped DEF Outbox!Post
  <2>3. arrived \in [Messages -> Nat]
    BY <1>t DEF Outbox!TypeOK
  <2>4. /\ arrived' \in [Messages -> Nat]
        /\ \A m \in Messages : m # claim[w].job => arrived'[m] = arrived[m]
        /\ arrived'[claim[w].job] \in {arrived[claim[w].job], arrived[claim[w].job] + 1}
        /\ taken => arrived'[claim[w].job] > 0
    BY <2>1, <2>2, <2>3
  <2>5. next = "delivered" => Answered(claim[w].job)'
    BY <2>2, <2>4 DEF Answered
  <2>6. sending' = [sending EXCEPT ![w] = next] /\ next \in {"delivered", "refused"}
    BY <2>1
  <2>7. next \in Outbox!Phases
    BY <2>6 DEF Outbox!Phases
  <2> HIDE DEF next
  <2>8. QED
    BY <2>2, <2>4, <2>5, <2>6, <2>7, OneSends
<1>6. ASSUME NEW w \in Workers, Outbox!FinishOutbox(w)
      PROVE  OutboxInv'
  <2> DEFINE c == claim[w]
             success == sending[w] = "delivered"
             finished == IF success THEN Outbox!Queue!Succeeded(outbox[c.job])
                                    ELSE Outbox!Queue!Failed(outbox[c.job])
  <2>1. /\ c # NoClaim /\ sending[w] \in {"delivered", "refused"}
        /\ outbox' = IF Outbox!Queue!HoldsClaim(c) THEN [outbox EXCEPT ![c.job] = finished]
                                                   ELSE outbox
        /\ claim' = [claim EXCEPT ![w] = NoClaim]
        /\ sending' = [sending EXCEPT ![w] = "idle"]
        /\ UNCHANGED <<wanted, withdrawn, arrived>>
    BY <1>6 DEF Outbox!FinishOutbox, Outbox!Queue!FinishJob
  <2>2. c.job \in Messages /\ (success => Answered(c.job))
    BY <2>1, OutboxTyped DEF OutboxInv
  <2>3. \A m \in Messages : OutboxRow(outbox[m]) /\ Worn(outbox[m], outbox[m])
    BY OutboxTyped, RowsWear
  <2>4. CASE Outbox!Queue!HoldsClaim(c)
    <3>1. outbox[c.job].status = "running"
      BY <2>4 DEF Outbox!Queue!HoldsClaim
    <3>2. /\ OutboxRow(finished) /\ Spent(finished) >= Spent(outbox[c.job])
          /\ finished.status = "succeeded" => Answered(c.job)
      <4>1. CASE success
        <5>1. Spent(outbox[c.job]) \in Nat
          BY <2>2, <2>3, RowsWear
        <5>2. OutboxRow(finished) /\ Spent(finished) = Spent(outbox[c.job])
          BY <2>2, <2>3, <3>1, <4>1, RowsWear
        <5> HIDE DEF finished
        <5>3. QED
          BY <2>2, <4>1, <5>1, <5>2
      <4>2. CASE ~success
        BY <2>2, <2>3, <3>1, <4>2, RowsWear DEF Worn
      <4>3. QED
        BY <4>1, <4>2
    <3> HIDE DEF finished
    <3>3. /\ outbox' = [outbox EXCEPT ![c.job] = finished]
          /\ finished \in Outbox!Queue!Row
      BY <2>1, <2>4, <3>2 DEF OutboxRow
    <3>4. outbox' \in [Messages -> Outbox!Queue!Row]
      BY <1>t, <3>3
    <3>5. \A m \in Messages :
            /\ OutboxRow(outbox'[m]) /\ Spent(outbox'[m]) >= Spent(outbox[m])
            /\ outbox'[m].status = "succeeded" => outbox[m].status = "succeeded" \/ Answered(m)
      BY <1>t, <2>2, <2>3, <3>2, <3>3 DEF Worn
    <3> HIDE DEF c, success
    <3>6. QED
      BY <2>1, <3>4, <3>5, LetsGo DEF c
  <2>5. CASE ~Outbox!Queue!HoldsClaim(c)
    <3>1. outbox' = outbox
      BY <2>1, <2>5
    <3>2. \A m \in Messages : OutboxRow(outbox'[m]) /\ Spent(outbox'[m]) >= Spent(outbox[m])
      BY <2>3, <3>1 DEF Worn
    <3>3. QED
      BY <1>t, <2>1, <3>1, <3>2, LetsGo
  <2>6. QED
    BY <2>4, <2>5
<1>7. ASSUME NEW w \in Workers, Outbox!Crash(w)
      PROVE  OutboxInv'
  <2>1. /\ claim[w] # NoClaim /\ outbox' = outbox
        /\ claim' = [claim EXCEPT ![w] = NoClaim]
        /\ sending' = [sending EXCEPT ![w] = "idle"]
        /\ UNCHANGED <<wanted, withdrawn, arrived>>
    BY <1>7 DEF Outbox!Crash, Outbox!Queue!Crash
  <2>2. \A m \in Messages : OutboxRow(outbox'[m]) /\ Spent(outbox'[m]) >= Spent(outbox[m])
    BY <2>1, OutboxTyped, RowsWear DEF Worn
  <2>3. QED
    BY <1>t, <2>1, <2>2, LetsGo
<1>8. ASSUME NEW m \in Messages, Outbox!Toggle(m)
      PROVE  OutboxInv'
  <2>1. /\ wanted' = [wanted EXCEPT ![m] = ~@] /\ withdrawn' = withdrawn \cup {m}
        /\ UNCHANGED <<sending, arrived, outbox, claim>>
    BY <1>8 DEF Outbox!Toggle
  <2>2. wanted \in [Messages -> BOOLEAN] /\ withdrawn \subseteq Messages
    BY <1>t DEF Outbox!TypeOK
  <2>3. wanted' \in [Messages -> BOOLEAN] /\ withdrawn' \subseteq Messages
    BY <2>1, <2>2
  <2>4. \A n \in Messages : (wanted'[n] = TRUE \/ n \in withdrawn') \/ wanted[n] # TRUE
    BY <2>1, <2>2
  <2>5. \A n \in Messages : Answered(n) => Answered(n)'
    BY <2>1 DEF Answered
  <2>6. Outbox!TypeOK'
    BY <1>t, <2>1, <2>3 DEF Outbox!TypeOK, Outbox!Queue!TypeOK
  <2>7. ASSUME NEW n \in Messages
        PROVE  MessageSound(n)'
    <3>1. MaySend(n)' = MaySend(n) /\ MessageSound(n)
      BY <2>1 DEF MaySend, OutboxInv
    <3>2. QED
      BY <2>1, <2>4, <2>5, <3>1 DEF MessageSound
  <2>8. QED
    BY <2>1, <2>5, <2>6, <2>7, OutboxTyped DEF OutboxInv
<1>9. ASSUME Outbox!Others
      PROVE  OutboxInv'
  <2>1. UNCHANGED <<wanted, withdrawn, sending, arrived, claim>>
    BY <1>9 DEF Outbox!Others, Outbox!Queue!CleanupJobs, Outbox!Queue!Tick
  <2>2. CASE Outbox!Queue!CleanupJobs
    <3> DEFINE old == {j \in Messages : outbox[j].status \in Outbox!Queue!Terminal
                                          /\ outbox[j].timer = 0}
    <3>1. outbox' = [j \in Messages |-> IF j \in old THEN Outbox!Queue!Deleted(outbox[j])
                                                     ELSE outbox[j]]
      BY <2>2 DEF Outbox!Queue!CleanupJobs
    <3>2. \A j \in Messages : Worn(outbox[j], outbox'[j])
      BY <3>1, OutboxTyped, RowsWear
    <3>3. QED
      BY <2>1, <3>1, <3>2, RowsOnly
  <2>3. CASE Outbox!Queue!Tick
    <3>1. outbox' = [j \in Messages |-> Outbox!Queue!Elapsed(outbox[j])]
      BY <2>3 DEF Outbox!Queue!Tick
    <3>2. \A j \in Messages : Worn(outbox[j], outbox'[j])
      BY <3>1, OutboxTyped, RowsWear
    <3>3. QED
      BY <2>1, <3>1, <3>2, RowsOnly
  <2>4. QED
    BY <1>9, <2>2, <2>3 DEF Outbox!Others
<1>10. ASSUME UNCHANGED Outbox!vars
       PROVE  OutboxInv'
  <2>1. UNCHANGED <<wanted, withdrawn, sending, arrived, outbox, claim>>
    BY <1>10 DEF Outbox!vars
  <2>2. outbox' = [m \in Messages |-> outbox'[m]] /\ DOMAIN outbox' = Messages
    BY <1>t, <2>1
  <2>3. \A m \in Messages : Worn(outbox[m], outbox'[m])
    BY <2>1, OutboxTyped, RowsWear
  <2>4. QED
    BY <2>1, <2>2, <2>3, RowsOnly
<1>11. QED
  BY <1>1, <1>2, <1>3, <1>4, <1>5, <1>6, <1>7, <1>8, <1>9, <1>10 DEF Outbox!Next

\* The outbox begins empty.
LEMMA InitOutbox == Outbox!Init => OutboxInv
<1> SUFFICES ASSUME Outbox!Init
             PROVE  OutboxInv
  OBVIOUS
<1>1. /\ wanted = [m \in Messages |-> TRUE] /\ withdrawn = {}
      /\ sending = [w \in Workers |-> "idle"]
      /\ arrived = [m \in Messages |-> 0]
      /\ outbox = [m \in Messages |-> [id |-> 0, status |-> "absent", attempts |-> 0,
                                       worker |-> 0, timer |-> 0]]
      /\ claim = [w \in Workers |-> NoClaim]
  BY DEF Outbox!Init, Outbox!Queue!Init, Outbox!Queue!NoWorker
<1>2. \A m \in Messages : OutboxRow(outbox[m])
  BY <1>1, OutboxAssumption DEF OutboxRow, Outbox!Queue!Row, Outbox!Queue!Statuses
<1>3. Outbox!TypeOK
  BY <1>1, <1>2 DEF Outbox!TypeOK, Outbox!Queue!TypeOK, Outbox!Phases, OutboxRow
<1>4. ASSUME NEW m \in Messages
      PROVE  MessageSound(m)
  <2>1. MaySend(m) = {}
    BY <1>1 DEF MaySend
  <2>2. Cardinality(MaySend(m)) = 0
    BY <2>1, FS_EmptySet
  <2>3. Spent(outbox[m]) \in Nat
    BY <1>2, RowsWear
  <2>4. QED
    BY <1>1, <1>2, <2>2, <2>3 DEF MessageSound
<1>5. QED
  BY <1>1, <1>3, <1>4 DEF OutboxInv

(* Whatever answers of Telegram are lost and whatever leases and workers,  *)
(* a message is never forgotten as delivered and never repeated more often *)
(* than it was attempted (jobs.py claim_outbox, finish_outbox).            *)
THEOREM OutboxKeepsWord == ServicesSpec => []OutboxHonest
<1>1. ServicesSpec => []OutboxInv
  BY OutboxAlone, InitOutbox, StepOutbox, PTL DEF Outbox!Spec
<1>2. OutboxInv => OutboxHonest
  <2> SUFFICES ASSUME OutboxInv, NEW m \in Messages
               PROVE  /\ outbox[m].status = "succeeded" => arrived[m] > 0 \/ m \in withdrawn
                      /\ arrived[m] <= outbox[m].id * MaxAttempts
    BY DEF OutboxHonest, Outbox!OutboxHonest, Outbox!DeliveredArrived, Outbox!RepeatsBounded
  <2>1. MessageSound(m) /\ Spent(outbox[m]) \in Nat /\ arrived[m] \in Nat
        /\ Spent(outbox[m]) <= outbox[m].id * MaxAttempts
        /\ Cardinality(MaySend(m)) \in Nat
    BY OutboxTyped, RowsWear, WorkersCount DEF OutboxInv
  <2>2. outbox[m].id * MaxAttempts \in Nat
    BY OutboxTyped, OutboxAssumption DEF OutboxRow, Outbox!Queue!Row
  <2>3. QED
    BY <2>1, <2>2 DEF MessageSound, Answered
<1>3. QED
  BY <1>1, <1>2, PTL

-----------------------------------------------------------------------------
(* The admission of calendar connections: ConnectAdmission.                *)

\* In the composition, the admission takes its own steps only.
LEMMA AdmissionAlone == ServicesSpec => Admission!AdmissionSpec
<1>1. ServicesInit => Admission!Init
  BY DEF ServicesInit
<1>2. [ServicesNext]_servicesVars => [Admission!Next]_(Admission!admissionVars)
  BY DEF ServicesNext, servicesVars, Calendar, AdmissionStep, OutboxStep, GradesStep,
     SimulationStep, BoardStep, LearningStep, SecretsStep, EnvelopesStep, admissionVars,
     Admission!admissionVars
<1>3. QED
  BY <1>1, <1>2, PTL DEF ServicesSpec, Admission!AdmissionSpec

\* An attempt inserted now keeps its distance from those there are.
Fits ==
  /\ \A i \in 1 .. Len(tries) : tries[i] + MinDelay <= now
  /\ Len(tries) >= Limit => tries[Len(tries) - Limit + 1] + Window < now

(* The inductive invariant: a request is admitted while it holds the lock, *)
(* and what it counted stays true until it inserts.                        *)
AdmissionInv ==
  /\ Admission!TypeOK
  /\ \A r \in Requests : connect[r] = "admitted" <=> lock = r
  /\ lock # Nobody => Fits
  /\ Admission!ConnectsSpaced

\* A step of the admission keeps the invariant.
LEMMA StepAdmission == AdmissionInv /\ [Admission!Next]_(Admission!admissionVars) => AdmissionInv'
<1> SUFFICES ASSUME AdmissionInv, [Admission!Next]_(Admission!admissionVars)
             PROVE  AdmissionInv'
  OBVIOUS
<1> USE LimitsAssumption
<1>t. /\ now \in Nat /\ now <= MaxTime
      /\ tries \in Seq(0 .. MaxTime) /\ Len(tries) \in Nat /\ Len(tries) <= MaxTries
      /\ \A i \in 1 .. Len(tries) : tries[i] \in Nat
      /\ connect \in [Requests -> {"idle", "admitted", "reserved"}]
      /\ lock \in Requests \cup {Nobody}
  BY DEF AdmissionInv, Admission!TypeOK
<1>1. ASSUME NEW r \in Requests, Admission!Admit(r)
      PROVE  AdmissionInv'
  <2>1. /\ connect[r] = "idle" /\ lock = Nobody /\ Admission!Allowed
        /\ connect' = [connect EXCEPT ![r] = "admitted"] /\ lock' = r
        /\ now' = now /\ tries' = tries
    BY <1>1 DEF Admission!Admit
  <2>2. Fits
    <3>1. \A i \in 1 .. Len(tries) : tries[i] + MinDelay <= now
      <4>1. \A i \in 1 .. Len(tries) : tries[i] + Window >= now => tries[i] + MinDelay <= now
        BY <1>t, <2>1 DEF Admission!Allowed, Admission!Recent
      <4>2. \A i \in 1 .. Len(tries) : ~(tries[i] + Window >= now) => tries[i] + MinDelay <= now
        BY <1>t
      <4>3. QED
        BY <4>1, <4>2
    <3>2. ASSUME Len(tries) >= Limit
          PROVE  tries[Len(tries) - Limit + 1] + Window < now
      <4>1. Len(tries) - Limit + 1 \in 1 .. Len(tries)
        BY <1>t, <3>2
      <4>2. Len(tries) - Limit + 1 \notin Admission!Recent
        BY <1>t, <2>1, <3>2 DEF Admission!Allowed
      <4>3. ~(tries[Len(tries) - Limit + 1] + Window >= now)
        BY <1>t, <4>1, <4>2 DEF Admission!Recent
      <4>4. tries[Len(tries) - Limit + 1] \in Nat
        BY <1>t, <4>1
      <4>5. QED
        BY <1>t, <4>3, <4>4
    <3>3. QED
      BY <3>1, <3>2 DEF Fits
  <2>3. Admission!TypeOK'
    BY <2>1 DEF AdmissionInv, Admission!TypeOK
  <2>4. \A s \in Requests : connect'[s] = "admitted" <=> lock' = s
    BY <1>t, <2>1 DEF AdmissionInv
  <2>5. QED
    BY <2>1, <2>2, <2>3, <2>4 DEF AdmissionInv, Fits, Admission!ConnectsSpaced
<1>2. ASSUME NEW r \in Requests, Admission!Reserve(r)
      PROVE  AdmissionInv'
  <2>1. /\ connect[r] = "admitted" /\ Len(tries) < MaxTries
        /\ tries' = Append(tries, now)
        /\ connect' = [connect EXCEPT ![r] = "reserved"] /\ lock' = Nobody /\ now' = now
    BY <1>2 DEF Admission!Reserve
  <2>2. lock = r /\ Fits
    BY <2>1 DEF AdmissionInv
  <2>3. /\ tries' \in Seq(0 .. MaxTime) /\ Len(tries') = Len(tries) + 1
        /\ \A i \in 1 .. Len(tries) : tries'[i] = tries[i]
        /\ tries'[Len(tries) + 1] = now
    BY <1>t, <2>1
  <2>4. Admission!TypeOK'
    BY <1>t, <2>1, <2>3 DEF Admission!TypeOK
  <2>5. \A s \in Requests : connect'[s] = "admitted" <=> lock' = s
    BY <1>t, <2>1, <2>2 DEF AdmissionInv
  <2>6. Admission!ConnectsSpaced'
    <3>1. ASSUME NEW i \in 2 .. Len(tries')
          PROVE  tries'[i] >= tries'[i - 1] + MinDelay
      <4>1. i - 1 \in 1 .. Len(tries) /\ tries'[i - 1] = tries[i - 1]
        <5>1. i \in 2 .. Len(tries) + 1
          BY <2>3
        <5>2. i - 1 \in 1 .. Len(tries)
          BY <1>t, <5>1
        <5>3. QED
          BY <2>3, <5>2
      <4>2. CASE i = Len(tries) + 1
        <5>1. tries'[i] = now /\ tries[i - 1] + MinDelay <= now /\ tries[i - 1] \in Nat
          BY <1>t, <2>2, <2>3, <4>1, <4>2 DEF Fits
        <5>2. QED
          BY <1>t, <4>1, <5>1
      <4>3. CASE i # Len(tries) + 1
        <5>1. i \in 2 .. Len(tries) /\ tries'[i] = tries[i]
          BY <1>t, <2>3, <3>1, <4>3
        <5>2. QED
          BY <4>1, <5>1 DEF AdmissionInv, Admission!ConnectsSpaced
      <4>4. QED
        BY <4>2, <4>3
    <3>2. ASSUME NEW i \in Limit + 1 .. Len(tries')
          PROVE  tries'[i] > tries'[i - Limit] + Window
      <4>1. i - Limit \in 1 .. Len(tries) /\ tries'[i - Limit] = tries[i - Limit]
        <5>1. i \in Limit + 1 .. Len(tries) + 1
          BY <2>3
        <5>2. i - Limit \in 1 .. Len(tries)
          BY <1>t, <5>1
        <5>3. QED
          BY <2>3, <5>2
      <4>2. CASE i = Len(tries) + 1
        <5>1. tries'[i] = now /\ i - Limit = Len(tries) - Limit + 1 /\ Len(tries) >= Limit
          BY <1>t, <2>3, <3>2, <4>2
        <5>2. tries[i - Limit] + Window < now /\ tries[i - Limit] \in Nat
          BY <1>t, <2>2, <4>1, <5>1 DEF Fits
        <5>3. QED
          BY <1>t, <4>1, <5>1, <5>2
      <4>3. CASE i # Len(tries) + 1
        <5>1. i \in Limit + 1 .. Len(tries) /\ tries'[i] = tries[i]
          BY <1>t, <2>3, <3>2, <4>3
        <5>2. QED
          BY <4>1, <5>1 DEF AdmissionInv, Admission!ConnectsSpaced
      <4>4. QED
        BY <4>2, <4>3
    <3>3. QED
      BY <3>1, <3>2 DEF Admission!ConnectsSpaced
  <2>7. QED
    BY <2>1, <2>4, <2>5, <2>6 DEF AdmissionInv
<1>3. ASSUME NEW r \in Requests, Admission!End(r)
      PROVE  AdmissionInv'
  <2>1. /\ connect' = [connect EXCEPT ![r] = "idle"]
        /\ lock' = IF lock = r THEN Nobody ELSE lock
        /\ now' = now /\ tries' = tries
    BY <1>3 DEF Admission!End
  <2>2. Admission!TypeOK'
    BY <1>t, <2>1 DEF Admission!TypeOK
  <2>3. \A s \in Requests : connect'[s] = "admitted" <=> lock' = s
    BY <1>t, <2>1 DEF AdmissionInv
  <2>4. QED
    BY <2>1, <2>2, <2>3 DEF AdmissionInv, Fits, Admission!ConnectsSpaced
<1>4. ASSUME Admission!Cleanup
      PROVE  AdmissionInv'
  <2>1. tries # <<>> /\ tries' = Tail(tries) /\ UNCHANGED <<now, connect, lock>>
    BY <1>4 DEF Admission!Cleanup
  <2>2. /\ tries' \in Seq(0 .. MaxTime) /\ Len(tries') = Len(tries) - 1
        /\ Len(tries') \in Nat
        /\ \A i \in 1 .. Len(tries') : tries'[i] = tries[i + 1]
    BY <1>t, <2>1
  <2>3. Admission!TypeOK'
    BY <1>t, <2>1, <2>2 DEF Admission!TypeOK
  <2>4. ASSUME lock' # Nobody
        PROVE  Fits'
    <3>1. Fits
      BY <2>1, <2>4 DEF AdmissionInv
    <3>2. ASSUME NEW i \in 1 .. Len(tries')
          PROVE  tries'[i] + MinDelay <= now
      <4>1. i + 1 \in 1 .. Len(tries)
        BY <1>t, <2>2
      <4>2. tries'[i] = tries[i + 1]
        BY <2>2
      <4>3. QED
        BY <3>1, <4>1, <4>2 DEF Fits
    <3>3. ASSUME Len(tries') >= Limit
          PROVE  tries'[Len(tries') - Limit + 1] + Window < now
      <4>1. /\ Len(tries') - Limit + 1 \in 1 .. Len(tries')
            /\ (Len(tries') - Limit + 1) + 1 = Len(tries) - Limit + 1
            /\ Len(tries) >= Limit
        BY <1>t, <2>2, <3>3
      <4>2. tries'[Len(tries') - Limit + 1] = tries[Len(tries) - Limit + 1]
        <5> DEFINE k == Len(tries') - Limit + 1
        <5>1. tries'[k] = tries[k + 1]
          BY <2>2, <4>1
        <5>2. k + 1 = Len(tries) - Limit + 1
          BY <4>1
        <5>3. QED
          BY <5>1, <5>2
      <4>3. QED
        BY <3>1, <4>1, <4>2 DEF Fits
    <3>4. QED
      BY <2>1, <3>2, <3>3 DEF Fits
  <2>5. Admission!ConnectsSpaced'
    <3>1. ASSUME NEW i \in 2 .. Len(tries')
          PROVE  tries'[i] >= tries'[i - 1] + MinDelay
      <4>1. /\ i + 1 \in 2 .. Len(tries) /\ tries'[i] = tries[i + 1]
            /\ (i + 1) - 1 = i /\ (i - 1) + 1 = i /\ tries'[i - 1] = tries[(i - 1) + 1]
        <5>1. i \in 1 .. Len(tries') /\ i - 1 \in 1 .. Len(tries') /\ i \in Nat
          BY <2>2
        <5>2. tries'[i] = tries[i + 1] /\ tries'[i - 1] = tries[(i - 1) + 1]
          BY <2>2, <5>1
        <5>3. i + 1 \in 2 .. Len(tries) /\ (i + 1) - 1 = i /\ (i - 1) + 1 = i
          BY <1>t, <2>2, <5>1
        <5>4. QED
          BY <5>2, <5>3
      <4>2. tries[i + 1] >= tries[(i + 1) - 1] + MinDelay
        BY <4>1 DEF AdmissionInv, Admission!ConnectsSpaced
      <4>3. QED
        BY <4>1, <4>2
    <3>2. ASSUME NEW i \in Limit + 1 .. Len(tries')
          PROVE  tries'[i] > tries'[i - Limit] + Window
      <4>1. /\ i + 1 \in Limit + 1 .. Len(tries) /\ tries'[i] = tries[i + 1]
            /\ (i + 1) - Limit = (i - Limit) + 1
            /\ tries'[i - Limit] = tries[(i - Limit) + 1]
        <5>1. i \in 1 .. Len(tries') /\ i - Limit \in 1 .. Len(tries') /\ i \in Nat
          BY <2>2
        <5>2. tries'[i] = tries[i + 1] /\ tries'[i - Limit] = tries[(i - Limit) + 1]
          BY <2>2, <5>1
        <5>3. i + 1 \in Limit + 1 .. Len(tries) /\ (i + 1) - Limit = (i - Limit) + 1
          BY <1>t, <2>2, <5>1
        <5>4. QED
          BY <5>2, <5>3
      <4>2. tries[i + 1] > tries[(i + 1) - Limit] + Window
        BY <4>1 DEF AdmissionInv, Admission!ConnectsSpaced
      <4>3. QED
        BY <4>1, <4>2
    <3>3. QED
      BY <3>1, <3>2 DEF Admission!ConnectsSpaced
  <2>6. QED
    BY <2>1, <2>3, <2>4, <2>5 DEF AdmissionInv
<1>5. ASSUME Admission!Tick
      PROVE  AdmissionInv'
  <2>1. now < MaxTime /\ now' = now + 1 /\ UNCHANGED <<tries, connect, lock>>
    BY <1>5 DEF Admission!Tick
  <2>2. Admission!TypeOK'
    BY <1>t, <2>1 DEF Admission!TypeOK
  <2>3. Fits => Fits'
    <3> SUFFICES ASSUME Fits
                 PROVE  Fits'
      OBVIOUS
    <3>1. \A i \in 1 .. Len(tries) : tries[i] + MinDelay <= now + 1
      BY <1>t DEF Fits
    <3>2. ASSUME Len(tries) >= Limit
          PROVE  tries[Len(tries) - Limit + 1] + Window < now + 1
      <4>1. Len(tries) - Limit + 1 \in 1 .. Len(tries)
        BY <1>t, <3>2
      <4>2. QED
        BY <1>t, <3>2, <4>1 DEF Fits
    <3>3. QED
      BY <2>1, <3>1, <3>2 DEF Fits
  <2>4. QED
    BY <2>1, <2>2, <2>3 DEF AdmissionInv, Admission!ConnectsSpaced
<1>6. CASE UNCHANGED Admission!admissionVars
  BY <1>6 DEF AdmissionInv, Admission!admissionVars, Admission!TypeOK, Fits,
     Admission!ConnectsSpaced
<1>7. QED
  BY <1>1, <1>2, <1>3, <1>4, <1>5, <1>6 DEF Admission!Next

\* The admission begins without attempts.
LEMMA AdmissionHolds == ServicesSpec => []AdmissionInv
<1>1. Admission!Init => AdmissionInv
  BY LimitsAssumption DEF Admission!Init, AdmissionInv, Admission!TypeOK, Fits,
     Admission!ConnectsSpaced
<1>2. QED
  BY <1>1, AdmissionAlone, StepAdmission, PTL DEF Admission!AdmissionSpec

-----------------------------------------------------------------------------
(* The learning progress: Learning.                                        *)

\* In the composition, the learning progress takes its own steps only.
LEMMA LearningAlone == ServicesSpec => Progress!LearningSpec
<1>1. ServicesInit => Progress!Init
  BY DEF ServicesInit
<1>2. [ServicesNext]_servicesVars => [Progress!Next]_(Progress!learningVars)
  BY DEF ServicesNext, servicesVars, Calendar, AdmissionStep, OutboxStep, GradesStep,
     SimulationStep, BoardStep, LearningStep, SecretsStep, EnvelopesStep, learningVars,
     Progress!learningVars
<1>3. QED
  BY <1>1, <1>2, PTL DEF ServicesSpec, Progress!LearningSpec

\* The component counts as this module does.
LEMMA LearningCounts == \A S : Progress!Cardinality(S) = Cardinality(S)
BY DEF Progress!Cardinality, Cardinality

\* What a finite set counts when it gains an element.
LEMMA OneElementMore ==
  ASSUME NEW S, NEW T, NEW x, IsFiniteSet(S), T \subseteq S \cup {x}
  PROVE  /\ IsFiniteSet(T) /\ Cardinality(T) \in Nat /\ Cardinality(S) \in Nat
         /\ Cardinality(T) <= Cardinality(S) + 1
         /\ T \subseteq S => Cardinality(T) <= Cardinality(S)
<1>1. /\ IsFiniteSet(S \cup {x})
      /\ Cardinality(S \cup {x}) = IF x \in S THEN Cardinality(S) ELSE Cardinality(S) + 1
  BY FS_AddElement
<1>2. Cardinality(S) \in Nat
  BY FS_CardinalityType
<1>3. IsFiniteSet(T) /\ Cardinality(T) <= Cardinality(S \cup {x})
  BY <1>1, FS_Subset
<1>4. Cardinality(T) \in Nat
  BY <1>3, FS_CardinalityType
<1>5. T \subseteq S => Cardinality(T) <= Cardinality(S)
  BY FS_Subset
<1>6. QED
  BY <1>1, <1>2, <1>3, <1>4, <1>5

\* The hints of a course are within the limit.
HintsKept(H) == H \in SUBSET Hints /\ Cardinality(H) <= HintCap

(* What a request that holds the lock has read: the rows are still as it   *)
(* saw them, and a grant that is active was active then.                   *)
SeenHolds(q) ==
  /\ q.seen.attempts = Cardinality(attempts)
  /\ q.seen.progress = progress
  /\ Progress!Granted => q.seen.granted = TRUE

\* The limits, counted as this module counts; every attempt was recorded once.
WithinLimits ==
  /\ IsFiniteSet(attempts) /\ Cardinality(attempts) <= AttemptCap
  /\ Cardinality(attempts) <= recorded
  /\ Cardinality(Progress!Rows) <= ProgressCap
  /\ \A c \in Progress!Rows : HintsKept(progress[c])
  /\ \A g, h \in Grants : Progress!Active(g) /\ Progress!Active(h) => g = h
  /\ \A t \in attempts : t.content \in Progress!Rows

(* The inductive invariant: a request that has counted holds the lock, and *)
(* its counts are true until it writes.                                    *)
LearningInv ==
  /\ Progress!TypeOK
  /\ \A r \in Requests : request[r].at = "locked" <=> holder = r
  /\ \A r \in Requests : holder = r => SeenHolds(request[r])
  /\ WithinLimits

\* What the types say of the rows and the requests.
LEMMA LearningTyped ==
  ASSUME Progress!TypeOK
  PROVE  /\ clock \in Nat /\ recorded \in Nat
         /\ grant \in [Grants -> [until : 0 .. MaxClock, revoked : BOOLEAN]]
         /\ progress \in [Courses -> (SUBSET Hints) \cup {Absent}]
         /\ attempts \subseteq [id : 1 .. MaxRecorded, content : Courses]
         /\ \A t \in attempts : t.id <= recorded
         /\ request \in [Requests -> Progress!Request]
         /\ holder \in Requests \cup {Nobody}
         /\ Progress!Rows \subseteq Courses
         /\ \A r \in Requests : request[r].at \in {"resolved", "locked"}
                                  => request[r].asked \in Progress!Asked
BY LimitsAssumption DEF Progress!TypeOK, Progress!Attempt, Progress!Progress, Progress!Rows,
   Progress!Request, Progress!Idle

\* A grant that is active later, without a new one, is active now.
LEMMA GrantsFade ==
  ASSUME Progress!TypeOK, clock' \in Nat, clock' >= clock,
         \A g \in Grants : grant'[g].until = grant[g].until
                           /\ (grant[g].revoked = TRUE => grant'[g].revoked = TRUE)
  PROVE  /\ \A g \in Grants : Progress!Active(g)' => Progress!Active(g)
         /\ Progress!Granted' => Progress!Granted
<1>1. ASSUME NEW g \in Grants, Progress!Active(g)'
      PROVE  Progress!Active(g)
  <2>1. grant[g].until \in Nat /\ grant[g].revoked \in BOOLEAN /\ clock \in Nat
    BY LimitsAssumption, LearningTyped
  <2>2. grant[g].until > clock
    BY <1>1, <2>1 DEF Progress!Active
  <2>3. QED
    BY <1>1, <2>1, <2>2 DEF Progress!Active
<1>2. QED
  BY <1>1 DEF Progress!Granted

\* A step that leaves the rows and the lock, and makes no grant active.
LEMMA RowsStay ==
  ASSUME LearningInv, Progress!TypeOK', UNCHANGED <<attempts, recorded, progress, holder, request>>,
         \A g \in Grants : Progress!Active(g)' => Progress!Active(g)
  PROVE  LearningInv'
<1>1. Progress!Granted' => Progress!Granted
  BY DEF Progress!Granted
<1>2. \A r \in Requests : holder = r => SeenHolds(request[r])'
  BY <1>1 DEF LearningInv, SeenHolds
<1>3. WithinLimits'
  BY DEF LearningInv, WithinLimits, Progress!Rows
<1>4. QED
  BY <1>2, <1>3 DEF LearningInv

\* A step that leaves the rows and the grants, and lets a request move.
LEMMA RequestMoves ==
  ASSUME LearningInv, NEW r \in Requests, NEW q \in Progress!Request,
         request' = [request EXCEPT ![r] = q],
         UNCHANGED <<clock, student, grant, attempts, recorded, progress>>,
         \/ q.at # "locked" /\ holder' = IF holder = r THEN Nobody ELSE holder
         \/ q.at = "locked" /\ SeenHolds(q) /\ holder = Nobody /\ holder' = r
  PROVE  LearningInv'
<1>1. Progress!TypeOK'
  BY LimitsAssumption DEF LearningInv, Progress!TypeOK
<1>2. request'[r] = q /\ \A s \in Requests : s # r => request'[s] = request[s]
  BY DEF LearningInv, Progress!TypeOK
<1>3. \A s \in Requests : request'[s].at = "locked" <=> holder' = s
  BY <1>2, LimitsAssumption DEF LearningInv
<1>4. ASSUME NEW s \in Requests, holder' = s
      PROVE  SeenHolds(request[s])'
  <2>1. SeenHolds(request'[s])
    BY <1>2, <1>4, LimitsAssumption DEF LearningInv
  <2>2. QED
    BY <2>1 DEF SeenHolds, Progress!Granted, Progress!Active
<1>5. WithinLimits'
  BY DEF LearningInv, WithinLimits, Progress!Rows, Progress!Active
<1>6. QED
  BY <1>1, <1>3, <1>4, <1>5 DEF LearningInv

\* The lock is given back with the request's write.
LEMMA WriteLetsGo ==
  ASSUME LearningInv, NEW r \in Requests, request[r].at = "locked",
         request' = [request EXCEPT ![r] = Progress!Idle], holder' = Nobody,
         Progress!TypeOK', WithinLimits'
  PROVE  LearningInv'
<1>1. \A s \in Requests : request'[s].at = "locked" <=> holder' = s
  <2>1. \A s \in Requests : s # r => request[s].at # "locked"
    BY DEF LearningInv
  <2>2. request'[r] = Progress!Idle /\ \A s \in Requests : s # r => request'[s] = request[s]
    BY DEF LearningInv, Progress!TypeOK
  <2>3. Progress!Idle.at # "locked"
    BY DEF Progress!Idle
  <2>4. QED
    BY <2>1, <2>2, <2>3, LimitsAssumption
<1>2. QED
  BY <1>1, LimitsAssumption DEF LearningInv

\* What the three kinds of requests carry.
LEMMA AskedIs ==
  ASSUME NEW a \in Progress!Asked
  PROVE  /\ a.what \in {"attempt", "progress", "reset", "grant"}
         /\ a.what = "attempt" => /\ a.content \in Courses /\ a.hints \in SUBSET Hints
                                  /\ \E h : a.hints \subseteq {h}
         /\ a.what = "progress" => /\ a.content \in Courses
                                   /\ a.hints = Absent \/ HintsKept(a.hints)
<1>1. ASSUME a.what = "attempt"
      PROVE  /\ a.content \in Courses /\ a.hints \in SUBSET Hints
             /\ \E h : a.hints \subseteq {h}
  <2>1. a \in [what : {"attempt"}, content : Courses, hints : {{}} \cup {{h} : h \in Hints}]
    BY <1>1 DEF Progress!Asked
  <2>2. QED
    BY <2>1
<1>2. ASSUME a.what = "progress"
      PROVE  a.content \in Courses /\ (a.hints = Absent \/ HintsKept(a.hints))
  <2>1. a \in [what : {"progress"}, content : Courses,
          hints : {H \in SUBSET Hints : Progress!Cardinality(H) <= HintCap} \cup {Absent}]
    BY <1>2 DEF Progress!Asked
  <2>2. QED
    BY <2>1, LearningCounts DEF HintsKept
<1>3. a.what \in {"attempt", "progress", "reset", "grant"}
  BY DEF Progress!Asked
<1>4. QED
  BY <1>1, <1>2, <1>3

\* A row that is written, and the number of rows then.
LEMMA OneRowWritten ==
  ASSUME LearningInv, NEW c \in Courses, NEW H, HintsKept(H),
         progress' = [progress EXCEPT ![c] = H],
         progress[c] = Absent => Cardinality(Progress!Rows) < ProgressCap
  PROVE  /\ progress' \in Progress!Progress
         /\ Progress!Rows' = Progress!Rows \cup {c}
         /\ Cardinality(Progress!Rows') <= ProgressCap
         /\ \A d \in Progress!Rows' : HintsKept(progress'[d])
<1>1. progress \in [Courses -> (SUBSET Hints) \cup {Absent}] /\ Progress!Rows \subseteq Courses
  BY LearningTyped DEF LearningInv
<1>2. progress' \in Progress!Progress
  BY <1>1 DEF HintsKept, Progress!Progress
<1>3. H # Absent
  BY LimitsAssumption DEF HintsKept
<1>4. Progress!Rows' = Progress!Rows \cup {c}
  BY <1>1, <1>3 DEF Progress!Rows
<1>5. Cardinality(Progress!Rows') <= ProgressCap
  <2>1. IsFiniteSet(Progress!Rows)
    BY <1>1, LimitsAssumption, FS_Subset
  <2>2. Cardinality(Progress!Rows) <= ProgressCap
    BY DEF LearningInv, WithinLimits
  <2>3. /\ Cardinality(Progress!Rows') <= Cardinality(Progress!Rows) + 1
        /\ Cardinality(Progress!Rows') \in Nat /\ Cardinality(Progress!Rows) \in Nat
        /\ c \in Progress!Rows => Cardinality(Progress!Rows') <= Cardinality(Progress!Rows)
    BY <1>4, <2>1, OneElementMore
  <2>4. progress[c] = Absent => Cardinality(Progress!Rows) + 1 <= ProgressCap
    BY <2>3, LimitsAssumption
  <2>5. progress[c] # Absent => c \in Progress!Rows
    BY DEF Progress!Rows
  <2>6. QED
    BY <2>2, <2>3, <2>4, <2>5, LimitsAssumption
<1>6. \A d \in Progress!Rows' : HintsKept(progress'[d])
  BY <1>1, <1>4 DEF LearningInv, WithinLimits
<1>7. QED
  BY <1>2, <1>4, <1>5, <1>6

\* What a row has for a request that holds the lock.
LEMMA RowRead ==
  ASSUME LearningInv, NEW r \in Requests, holder = r, NEW c \in Courses
  PROVE  LET seen == request[r].seen
         IN  /\ HintsKept(Progress!Row(c, seen))
             /\ progress[c] # Absent => Progress!Row(c, seen) = progress[c]
             /\ ~Progress!RowsFull(c, seen) /\ progress[c] = Absent
                  => Cardinality(Progress!Rows) < ProgressCap
<1> DEFINE seen == request[r].seen
<1>1. seen.progress = progress
  BY DEF LearningInv, SeenHolds
<1>2. HintsKept({})
  BY FS_EmptySet, LimitsAssumption DEF HintsKept
<1>3. HintsKept(Progress!Row(c, seen))
  BY <1>1, <1>2 DEF Progress!Row, LearningInv, WithinLimits, Progress!Rows
<1>4. ASSUME ~Progress!RowsFull(c, seen), progress[c] = Absent
      PROVE  Cardinality(Progress!Rows) < ProgressCap
  <2>1. {d \in Courses : seen.progress[d] # Absent} = Progress!Rows
    BY <1>1 DEF Progress!Rows
  <2>2. ~(Cardinality(Progress!Rows) >= ProgressCap)
    BY <1>1, <1>4, <2>1, LearningCounts DEF Progress!RowsFull
  <2>3. Cardinality(Progress!Rows) \in Nat
    BY LearningTyped, LimitsAssumption, FS_Subset, FS_CardinalityType DEF LearningInv
  <2>4. QED
    BY <2>2, <2>3, LimitsAssumption
<1>5. QED
  BY <1>1, <1>3, <1>4 DEF Progress!Row

\* create_learning_attempt keeps the limits.
LEMMA AttemptKept ==
  ASSUME LearningInv, NEW r \in Requests, holder = r, NEW a \in Progress!Asked,
         a.what = "attempt", Progress!RecordAttempt(a, request[r].seen),
         clock' = clock
  PROVE  /\ attempts' \subseteq Progress!Attempt /\ recorded' \in 0 .. MaxRecorded
         /\ \A t \in attempts' : t.id <= recorded'
         /\ progress' \in Progress!Progress /\ grant' = grant
         /\ WithinLimits'
<1> DEFINE seen == request[r].seen
           c == a.content
           new == [id |-> recorded + 1, content |-> c]
           H == Progress!Row(c, seen) \cup a.hints
<1>1. c \in Courses /\ a.hints \in SUBSET Hints /\ \E h : a.hints \subseteq {h}
  BY AskedIs
<1>2. /\ seen.attempts < AttemptCap /\ ~Progress!RowsFull(c, seen)
      /\ \/ a.hints \subseteq Progress!Row(c, seen)
         \/ Cardinality(Progress!Row(c, seen)) < HintCap
      /\ recorded < MaxRecorded /\ recorded' = recorded + 1
      /\ attempts' = attempts \cup {new}
      /\ progress' = [progress EXCEPT ![c] = H] /\ grant' = grant
  BY LearningCounts DEF Progress!RecordAttempt
<1>3. /\ seen.attempts = Cardinality(attempts) /\ HintsKept(Progress!Row(c, seen))
      /\ progress[c] = Absent => Cardinality(Progress!Rows) < ProgressCap
  BY <1>1, <1>2, RowRead DEF LearningInv, SeenHolds
<1>4. HintsKept(H)
  <2>1. PICK h : a.hints \subseteq {h}
    BY <1>1
  <2>2. H \subseteq Progress!Row(c, seen) \cup {h} /\ H \in SUBSET Hints
    BY <1>1, <1>3, <2>1 DEF HintsKept
  <2>3. IsFiniteSet(Progress!Row(c, seen))
    BY <1>3, LimitsAssumption, FS_Subset DEF HintsKept
  <2>4. /\ Cardinality(H) \in Nat /\ Cardinality(Progress!Row(c, seen)) \in Nat
        /\ Cardinality(H) <= Cardinality(Progress!Row(c, seen)) + 1
        /\ H \subseteq Progress!Row(c, seen) => Cardinality(H) <= Cardinality(Progress!Row(c, seen))
    BY <2>2, <2>3, OneElementMore
  <2>5. a.hints \subseteq Progress!Row(c, seen) => H \subseteq Progress!Row(c, seen)
    OBVIOUS
  <2> HIDE DEF H, seen, c
  <2>6. Cardinality(H) <= HintCap
    BY <1>2, <1>3, <2>4, <2>5, LimitsAssumption DEF HintsKept
  <2>7. QED
    BY <2>2, <2>6 DEF HintsKept
<1> HIDE DEF H
<1>5. /\ progress' \in Progress!Progress
      /\ Progress!Rows' = Progress!Rows \cup {c}
      /\ Cardinality(Progress!Rows') <= ProgressCap
      /\ \A d \in Progress!Rows' : HintsKept(progress'[d])
  BY <1>1, <1>2, <1>3, <1>4, OneRowWritten
<1>6. /\ recorded \in Nat /\ attempts \subseteq [id : 1 .. MaxRecorded, content : Courses]
      /\ \A t \in attempts : t.id <= recorded
  BY LearningTyped DEF LearningInv
<1>7. /\ attempts' \subseteq Progress!Attempt /\ recorded' \in 0 .. MaxRecorded
      /\ \A t \in attempts' : t.id <= recorded'
  <2>1. new \in [id : 1 .. MaxRecorded, content : Courses] /\ new.id = recorded + 1
    BY <1>1, <1>2, <1>6, LimitsAssumption
  <2>2. recorded' \in 0 .. MaxRecorded
    BY <1>2, <1>6, LimitsAssumption
  <2>3. \A t \in attempts : t.id \in Nat
    BY <1>6
  <2> HIDE DEF new
  <2>4. \A t \in attempts' : t.id <= recorded'
    BY <1>2, <1>6, <2>1, <2>3
  <2>5. QED
    BY <1>2, <1>6, <2>1, <2>2, <2>4 DEF Progress!Attempt
<1>8. /\ IsFiniteSet(attempts') /\ Cardinality(attempts') <= AttemptCap
      /\ Cardinality(attempts') <= recorded'
  <2>1. IsFiniteSet(attempts)
    BY DEF LearningInv, WithinLimits
  <2>2. /\ IsFiniteSet(attempts') /\ Cardinality(attempts') <= Cardinality(attempts) + 1
        /\ Cardinality(attempts') \in Nat /\ Cardinality(attempts) \in Nat
    BY <1>2, <2>1, OneElementMore
  <2>3. Cardinality(attempts) <= recorded
    BY DEF LearningInv, WithinLimits
  <2>4. QED
    BY <1>2, <1>3, <1>6, <2>2, <2>3, LimitsAssumption
<1>9. \A t \in attempts' : t.content \in Progress!Rows'
  BY <1>2, <1>5 DEF LearningInv, WithinLimits
<1>10. \A g, h \in Grants : Progress!Active(g)' /\ Progress!Active(h)' => g = h
  BY <1>2 DEF LearningInv, WithinLimits, Progress!Active
<1>11. QED
  BY <1>2, <1>5, <1>7, <1>8, <1>9, <1>10 DEF WithinLimits

\* update_learning_progress keeps the limits.
LEMMA ProgressKept ==
  ASSUME LearningInv, NEW r \in Requests, holder = r, NEW a \in Progress!Asked,
         a.what = "progress", Progress!UpdateProgress(a, request[r].seen), clock' = clock
  PROVE  progress' \in Progress!Progress /\ WithinLimits'
<1> DEFINE seen == request[r].seen
           c == a.content
           H == IF a.hints = Absent THEN Progress!Row(c, seen) ELSE a.hints
<1>1. c \in Courses /\ (a.hints = Absent \/ HintsKept(a.hints))
  BY AskedIs
<1>2. /\ ~Progress!RowsFull(c, seen) /\ progress' = [progress EXCEPT ![c] = H]
      /\ UNCHANGED <<attempts, recorded, grant>>
  BY DEF Progress!UpdateProgress
<1>3. /\ HintsKept(H)
      /\ progress[c] = Absent => Cardinality(Progress!Rows) < ProgressCap
  BY <1>1, <1>2, RowRead
<1> HIDE DEF H
<1>4. /\ progress' \in Progress!Progress
      /\ Progress!Rows' = Progress!Rows \cup {c}
      /\ Cardinality(Progress!Rows') <= ProgressCap
      /\ \A d \in Progress!Rows' : HintsKept(progress'[d])
  BY <1>1, <1>2, <1>3, OneRowWritten
<1>5. \A g, h \in Grants : Progress!Active(g)' /\ Progress!Active(h)' => g = h
  BY <1>2 DEF LearningInv, WithinLimits, Progress!Active
<1>6. QED
  BY <1>2, <1>4, <1>5 DEF LearningInv, WithinLimits

\* A step of the learning progress keeps the invariant.
LEMMA StepLearning == LearningInv /\ [Progress!Next]_(Progress!learningVars) => LearningInv'
<1> SUFFICES ASSUME LearningInv, [Progress!Next]_(Progress!learningVars)
             PROVE  LearningInv'
  OBVIOUS
<1>t. Progress!TypeOK
  BY DEF LearningInv
<1>1. ASSUME NEW r \in Requests, Progress!Resolve(r)
      PROVE  LearningInv'
  <2>1. PICK a \in Progress!Asked : request' = [request EXCEPT ![r] = [at |-> "resolved", asked |-> a]]
    BY <1>1 DEF Progress!Resolve
  <2>2. /\ request[r] = Progress!Idle
        /\ UNCHANGED <<clock, student, grant, attempts, recorded, progress, holder>>
    BY <1>1 DEF Progress!Resolve
  <2>3. holder # r
    BY <2>2 DEF LearningInv, Progress!Idle
  <2>4. [at |-> "resolved", asked |-> a] \in Progress!Request
    BY DEF Progress!Request
  <2>5. QED
    BY <2>1, <2>2, <2>3, <2>4, RequestMoves
<1>2. ASSUME NEW r \in Requests, Progress!Read(r)
      PROVE  LearningInv'
  <2> DEFINE seen == [attempts |-> Cardinality(attempts), progress |-> progress,
                      granted |-> Progress!Granted]
             q == [at |-> "locked", asked |-> request[r].asked, seen |-> seen]
  <2>1. /\ request[r].at = "resolved" /\ holder = Nobody /\ holder' = r
        /\ request' = [request EXCEPT ![r] = q]
        /\ UNCHANGED <<clock, student, grant, attempts, recorded, progress>>
    BY <1>2, LearningCounts DEF Progress!Read, Progress!Lock
  <2>2. Cardinality(attempts) \in 0 .. MaxRecorded
    <3>1. Cardinality(attempts) \in Nat
      BY FS_CardinalityType DEF LearningInv, WithinLimits
    <3>2. Cardinality(attempts) <= recorded /\ recorded \in 0 .. MaxRecorded
      BY <1>t DEF LearningInv, WithinLimits, Progress!TypeOK
    <3>3. QED
      BY <3>1, <3>2, LimitsAssumption
  <2>3. Progress!Granted \in BOOLEAN
    BY DEF Progress!Granted
  <2>4. seen \in Progress!Seen
    BY <1>t, <2>2, <2>3 DEF Progress!Seen, Progress!TypeOK
  <2>5. request[r].asked \in Progress!Asked
    BY <1>t, <2>1, LearningTyped
  <2>6. q \in Progress!Request
    BY <2>4, <2>5 DEF Progress!Request
  <2>7. SeenHolds(q) /\ q.at = "locked"
    BY DEF SeenHolds
  <2> HIDE DEF q
  <2>8. QED
    BY <2>1, <2>6, <2>7, RequestMoves
<1>3. ASSUME NEW r \in Requests, Progress!Write(r)
      PROVE  LearningInv'
  <2> DEFINE a == request[r].asked
             seen == request[r].seen
  <2>1. /\ request[r].at = "locked"
        /\ \/ a.what = "attempt" /\ Progress!RecordAttempt(a, seen)
           \/ a.what = "progress" /\ Progress!UpdateProgress(a, seen)
           \/ a.what = "reset" /\ Progress!ResetProgress
           \/ a.what = "grant" /\ Progress!CreateGrant(seen)
        /\ request' = [request EXCEPT ![r] = Progress!Idle] /\ holder' = Nobody
        /\ UNCHANGED <<clock, student>>
    BY <1>3 DEF Progress!Write
  <2>2. holder = r /\ a \in Progress!Asked
    BY <1>t, <2>1, LearningTyped DEF LearningInv
  <2>3. /\ attempts' \subseteq Progress!Attempt /\ recorded' \in 0 .. MaxRecorded
        /\ \A t \in attempts' : t.id <= recorded'
        /\ progress' \in Progress!Progress
        /\ grant' \in [Grants -> [until : 0 .. MaxClock, revoked : BOOLEAN]]
        /\ WithinLimits'
    <3>1. CASE a.what = "attempt" /\ Progress!RecordAttempt(a, seen)
      BY <1>t, <2>1, <2>2, <3>1, AttemptKept DEF Progress!TypeOK
    <3>2. CASE a.what = "progress" /\ Progress!UpdateProgress(a, seen)
      <4>1. progress' \in Progress!Progress /\ WithinLimits'
        BY <2>1, <2>2, <3>2, ProgressKept
      <4>2. QED
        BY <1>t, <3>2, <4>1 DEF Progress!TypeOK, Progress!UpdateProgress
    <3>3. CASE a.what = "reset" /\ Progress!ResetProgress
      <4>1. /\ attempts' = {} /\ progress' = [c \in Courses |-> Absent]
            /\ recorded' = recorded /\ grant' = grant
        BY <3>3 DEF Progress!ResetProgress
      <4>2. Progress!Rows' = {}
        BY <4>1 DEF Progress!Rows
      <4>3. progress' \in Progress!Progress
        <5>1. Absent \in (SUBSET Hints) \cup {Absent}
          OBVIOUS
        <5>2. QED
          BY <4>1, <5>1 DEF Progress!Progress
      <4>4. WithinLimits'
        BY <1>t, <2>1, <4>1, <4>2, FS_EmptySet, LimitsAssumption, LearningTyped
        DEF LearningInv, WithinLimits, Progress!Active
      <4>5. QED
        BY <1>t, <4>1, <4>3, <4>4 DEF Progress!TypeOK
    <3>4. CASE a.what = "grant" /\ Progress!CreateGrant(seen)
      <4>1. PICK g \in Grants, t \in clock + 1 .. MaxClock :
              grant' = [grant EXCEPT ![g] = [until |-> t, revoked |-> FALSE]]
        BY <3>4 DEF Progress!CreateGrant
      <4>2. ~seen.granted /\ UNCHANGED <<attempts, recorded, progress>>
        BY <3>4 DEF Progress!CreateGrant
      <4>3. \A h \in Grants : ~Progress!Active(h)
        BY <2>2, <4>2 DEF LearningInv, SeenHolds, Progress!Granted
      <4>4. /\ clock \in Nat
            /\ grant \in [Grants -> [until : 0 .. MaxClock, revoked : BOOLEAN]]
        BY <1>t, LearningTyped
      <4>5. grant' \in [Grants -> [until : 0 .. MaxClock, revoked : BOOLEAN]]
        <5>1. t \in 0 .. MaxClock
          BY <4>1, <4>4, LimitsAssumption
        <5>2. QED
          BY <4>1, <4>4, <5>1
      <4>6. \A h \in Grants : h # g => ~Progress!Active(h)'
        BY <2>1, <4>1, <4>3, <4>4 DEF Progress!Active
      <4>7. WithinLimits'
        BY <4>2, <4>6 DEF LearningInv, WithinLimits, Progress!Rows
      <4>8. QED
        BY <1>t, <4>2, <4>5, <4>7 DEF Progress!TypeOK
    <3>5. QED
      BY <2>1, <3>1, <3>2, <3>3, <3>4
  <2>4. request' \in [Requests -> Progress!Request]
    BY <1>t, <2>1 DEF Progress!TypeOK, Progress!Request
  <2>5. Progress!TypeOK'
    BY <1>t, <2>1, <2>3, <2>4 DEF Progress!TypeOK
  <2>6. QED
    BY <2>1, <2>3, <2>5, WriteLetsGo
<1>4. ASSUME NEW r \in Requests, Progress!GiveUp(r)
      PROVE  LearningInv'
  <2>1. /\ request' = [request EXCEPT ![r] = Progress!Idle]
        /\ holder' = IF holder = r THEN Nobody ELSE holder
        /\ UNCHANGED <<clock, student, grant, attempts, recorded, progress>>
    BY <1>4 DEF Progress!GiveUp
  <2>2. Progress!Idle \in Progress!Request /\ Progress!Idle.at # "locked"
    BY DEF Progress!Request, Progress!Idle
  <2>3. QED
    BY <2>1, <2>2, RequestMoves
<1>5. ASSUME NEW g \in Grants, Progress!RevokeGrant(g)
      PROVE  LearningInv'
  <2>1. /\ grant' = [grant EXCEPT ![g].revoked = TRUE]
        /\ UNCHANGED <<clock, student, attempts, recorded, progress, request, holder>>
    BY <1>5 DEF Progress!RevokeGrant
  <2>2. grant \in [Grants -> [until : 0 .. MaxClock, revoked : BOOLEAN]]
    BY <1>t, LearningTyped
  <2>3. /\ grant' \in [Grants -> [until : 0 .. MaxClock, revoked : BOOLEAN]]
        /\ \A h \in Grants : grant'[h].until = grant[h].until
                             /\ (grant[h].revoked = TRUE => grant'[h].revoked = TRUE)
    BY <2>1, <2>2
  <2>4. Progress!TypeOK'
    BY <1>t, <2>1, <2>3 DEF Progress!TypeOK
  <2>5. \A h \in Grants : Progress!Active(h)' => Progress!Active(h)
    <3>1. clock' \in Nat /\ clock' >= clock
      BY <1>t, <2>1, LearningTyped
    <3>2. QED
      BY <1>t, <2>3, <3>1, GrantsFade
  <2>6. QED
    BY <2>1, <2>4, <2>5, RowsStay
<1>6. ASSUME Progress!ChangeStatus
      PROVE  LearningInv'
  <2>1. /\ student' = ~student
        /\ UNCHANGED <<clock, grant, attempts, recorded, progress, request, holder>>
    BY <1>6 DEF Progress!ChangeStatus
  <2>2. Progress!TypeOK'
    BY <1>t, <2>1 DEF Progress!TypeOK
  <2>3. QED
    BY <2>1, <2>2, RowsStay DEF Progress!Active
<1>7. ASSUME Progress!Tick
      PROVE  LearningInv'
  <2>1. /\ clock < MaxClock /\ clock' = clock + 1 /\ clock \in Nat
        /\ UNCHANGED <<student, grant, attempts, recorded, progress, request, holder>>
    BY <1>7, <1>t, LearningTyped DEF Progress!Tick
  <2>2. clock' \in 0 .. MaxClock /\ clock' \in Nat /\ clock' >= clock
    BY <2>1, LimitsAssumption
  <2>3. Progress!TypeOK'
    BY <1>t, <2>1, <2>2 DEF Progress!TypeOK
  <2>4. \A h \in Grants : Progress!Active(h)' => Progress!Active(h)
    BY <1>t, <2>1, <2>2, GrantsFade
  <2>5. QED
    BY <2>1, <2>3, <2>4, RowsStay
<1>8. CASE UNCHANGED Progress!learningVars
  <2>1. UNCHANGED <<clock, student, grant, attempts, recorded, progress, request, holder>>
    BY <1>8 DEF Progress!learningVars
  <2>2. Progress!TypeOK'
    BY <1>t, <2>1 DEF Progress!TypeOK
  <2>3. QED
    BY <2>1, <2>2, RowsStay DEF Progress!Active
<1>9. QED
  BY <1>1, <1>2, <1>3, <1>4, <1>5, <1>6, <1>7, <1>8 DEF Progress!Next

\* The learning progress begins without rows.
LEMMA LearningHolds == ServicesSpec => []LearningInv
<1>1. Progress!Init => LearningInv
  <2> SUFFICES ASSUME Progress!Init
               PROVE  LearningInv
    OBVIOUS
  <2>1. /\ clock = 0 /\ student \in BOOLEAN /\ grant = [g \in Grants |-> Progress!NoGrant]
        /\ attempts = {} /\ recorded = 0 /\ progress = [c \in Courses |-> Absent]
        /\ request = [r \in Requests |-> Progress!Idle] /\ holder = Nobody
    BY DEF Progress!Init
  <2>2. Progress!NoGrant \in [until : 0 .. MaxClock, revoked : BOOLEAN]
        /\ Progress!NoGrant.until = 0
    BY LimitsAssumption DEF Progress!NoGrant
  <2>3. progress \in Progress!Progress /\ Progress!Idle \in Progress!Request
        /\ Progress!Idle.at # "locked"
    <3>1. Absent \in (SUBSET Hints) \cup {Absent}
      OBVIOUS
    <3>2. progress \in Progress!Progress
      BY <2>1, <3>1 DEF Progress!Progress
    <3>3. QED
      BY <3>2 DEF Progress!Request, Progress!Idle
  <2>4. Progress!TypeOK
    BY <2>1, <2>2, <2>3, LimitsAssumption DEF Progress!TypeOK
  <2>5. Progress!Rows = {} /\ \A g \in Grants : ~Progress!Active(g)
    BY <2>1, <2>2 DEF Progress!Rows, Progress!Active
  <2>6. WithinLimits
    BY <2>1, <2>5, FS_EmptySet, LimitsAssumption DEF WithinLimits
  <2>7. QED
    BY <2>1, <2>3, <2>4, <2>6, LimitsAssumption DEF LearningInv
<1>2. QED
  BY <1>1, LearningAlone, StepLearning, PTL DEF Progress!LearningSpec

(* However the requests of an account interleave, its counted limits hold: *)
(* those of the learning progress (routers/learning.py) under the lock of  *)
(* the account's row, and those of the calendar connections                *)
(* (calendar_feed.py) under the advisory lock.                             *)
THEOREM LimitsHold == ServicesSpec => []LimitsKept
<1>1. LearningInv => Progress!LimitsKept
  BY LearningCounts DEF LearningInv, WithinLimits, HintsKept, Progress!LimitsKept
<1>2. AdmissionInv => Admission!ConnectsSpaced
  BY DEF AdmissionInv
<1>3. QED
  BY <1>1, <1>2, LearningHolds, AdmissionHolds, PTL DEF LimitsKept

-----------------------------------------------------------------------------
(* The simulations: Simulations.                                           *)

\* In the composition, the simulations take their own steps only.
LEMMA SimulationAlone == ServicesSpec => Simulation!SimulationSpec
<1>1. ServicesInit => Simulation!Init
  BY DEF ServicesInit
<1>2. [ServicesNext]_servicesVars => [Simulation!Next]_(Simulation!simulationVars)
  BY DEF ServicesNext, servicesVars, Calendar, AdmissionStep, OutboxStep, GradesStep,
     SimulationStep, BoardStep, LearningStep, SecretsStep, EnvelopesStep, simulationVars,
     Simulation!simulationVars
<1>3. QED
  BY <1>1, <1>2, PTL DEF ServicesSpec, Simulation!SimulationSpec

\* Official results are about keys of the school.
LEMMA SourcesAre == \A s \in Simulation!Sources : DOMAIN s \subseteq Keys
BY DEF Simulation!Sources

\* The rows of a scenario are compared with the results it was rebased on.
Baselined(rows, revision) ==
  revision \in Simulation!Sources =>
    \A k \in DOMAIN rows \cap DOMAIN revision : rows[k].base = revision[k]

\* What a tab knows of a scenario whose version it still has is what it says.
TabSound(d, rows, free) ==
  /\ d.at \in {"blank", "opening", "open"}
  /\ d.at # "blank" =>
       /\ d.of \in Scenarios \ free /\ d.version \in Nat
       /\ rows[d.of] # Simulation!NoScenario =>
            /\ d.version <= rows[d.of].version
            /\ d.at = "open" /\ d.version = rows[d.of].version
                 => d.shown = Simulation!Shown(rows[d.of])

\* A scenario that is there.
ScenarioSound(x) ==
  scenario[x] # Simulation!NoScenario =>
    /\ x \notin unused /\ scenario[x].version \in Nat \ {0}
    /\ Baselined(scenario[x].rows, scenario[x].revision)

(* The inductive invariant: versions only grow and identifiers are used    *)
(* once, so that a tab with the version of a scenario shows its rows.      *)
SimulationInv ==
  /\ source \in Simulation!Sources
  /\ scenario = [x \in Scenarios |-> scenario[x]] /\ tab = [t \in Tabs |-> tab[t]]
  /\ \A x \in Scenarios : ScenarioSound(x)
  /\ \A t \in Tabs : TabSound(tab[t], scenario, unused)

\* A request that passes the version check shows the rows it is about.
LEMMA CurrentShows ==
  ASSUME SimulationInv, NEW t \in Tabs, NEW x \in Scenarios, Simulation!Current(t, x)
  PROVE  /\ tab[t].at = "open" /\ tab[t].of = x
         /\ tab[t].shown = Simulation!Shown(scenario[x])
         /\ scenario[x] # Simulation!NoScenario /\ x \notin unused
         /\ scenario[x].version \in Nat \ {0}
         /\ Baselined(scenario[x].rows, scenario[x].revision)
BY DEF SimulationInv, ScenarioSound, TabSound, Simulation!Current

\* A write of a scenario whose rows are baselined.
LEMMA WriteSound ==
  ASSUME SimulationInv, NEW t \in Tabs, NEW x \in Scenarios, NEW rows, NEW revision,
         Simulation!Current(t, x), Simulation!Write(x, rows, revision),
         Simulation!Display(t, x), Baselined(rows, revision)
  PROVE  SimulationInv'
<1> DEFINE s == [version |-> scenario[x].version + 1, revision |-> revision, rows |-> rows]
<1>1. /\ scenario' = [scenario EXCEPT ![x] = s]
      /\ UNCHANGED <<source, unused>>
  BY DEF Simulation!Write
<1>2. tab' = [tab EXCEPT ![t] = [at |-> "open", of |-> x, version |-> scenario'[x].version,
                                 shown |-> Simulation!Shown(scenario'[x])]]
  BY DEF Simulation!Display
<1>3. scenario[x].version \in Nat \ {0} /\ x \notin unused
  BY CurrentShows
<1>4. /\ scenario' = [y \in Scenarios |-> scenario'[y]] /\ tab' = [u1 \in Tabs |-> tab'[u1]]
      /\ scenario'[x] = s /\ \A y \in Scenarios : y # x => scenario'[y] = scenario[y]
      /\ \A v \in Tabs : v # t => tab'[v] = tab[v]
  BY <1>1, <1>2 DEF SimulationInv
<1>5. s # Simulation!NoScenario /\ s.version \in Nat \ {0} /\ s.version = scenario[x].version + 1
  BY <1>3 DEF Simulation!NoScenario
<1>6. s.rows = rows /\ s.revision = revision
  OBVIOUS
<1> HIDE DEF s
<1>7. \A y \in Scenarios : ScenarioSound(y)'
  BY <1>1, <1>3, <1>4, <1>5, <1>6 DEF SimulationInv, ScenarioSound, Baselined
<1>8. TabSound(tab'[t], scenario', unused')
  <2>1. tab'[t] = [at |-> "open", of |-> x, version |-> s.version, shown |-> Simulation!Shown(s)]
    BY <1>2, <1>4 DEF SimulationInv
  <2>2. QED
    BY <1>1, <1>3, <1>4, <1>5, <2>1, SMT DEF TabSound
<1>9. ASSUME NEW v \in Tabs, v # t
      PROVE  TabSound(tab'[v], scenario', unused')
  <2>1. TabSound(tab[v], scenario, unused) /\ tab'[v] = tab[v]
    BY <1>4, <1>9 DEF SimulationInv
  <2>2. CASE tab[v].at # "blank" /\ tab[v].of = x
    <3>1. tab[v].version \in Nat /\ tab[v].version <= scenario[x].version
      BY <2>1, <2>2, CurrentShows DEF TabSound
    <3>2. tab[v].version < s.version
      BY <1>3, <1>5, <3>1
    <3>3. QED
      BY <1>1, <1>3, <1>4, <1>5, <2>1, <2>2, <3>1, <3>2 DEF TabSound
  <2>3. CASE tab[v].at # "blank" /\ tab[v].of # x
    BY <1>1, <1>4, <2>1, <2>3 DEF TabSound
  <2>4. CASE tab[v].at = "blank"
    BY <2>1, <2>4 DEF TabSound
  <2>5. QED
    BY <2>2, <2>3, <2>4
<1>10. QED
  BY <1>1, <1>4, <1>7, <1>8, <1>9 DEF SimulationInv

\* A new scenario under an identifier that was never used.
LEMMA InsertSound ==
  ASSUME SimulationInv, NEW t \in Tabs, NEW x \in Scenarios, NEW s,
         Simulation!Insert(t, x, s), s.version = 1, Baselined(s.rows, s.revision)
  PROVE  SimulationInv'
<1>1. /\ x \in unused /\ scenario' = [scenario EXCEPT ![x] = s]
      /\ unused' = unused \ {x} /\ source' = source
      /\ tab' = [tab EXCEPT ![t] = [at |-> "open", of |-> x, version |-> scenario'[x].version,
                                    shown |-> Simulation!Shown(scenario'[x])]]
  BY DEF Simulation!Insert, Simulation!Display
<1>2. /\ scenario' = [y \in Scenarios |-> scenario'[y]] /\ tab' = [v \in Tabs |-> tab'[v]]
      /\ scenario'[x] = s /\ \A y \in Scenarios : y # x => scenario'[y] = scenario[y]
      /\ \A v \in Tabs : v # t => tab'[v] = tab[v]
      /\ tab'[t] = [at |-> "open", of |-> x, version |-> 1, shown |-> Simulation!Shown(s)]
  BY <1>1 DEF SimulationInv
<1>3. s # Simulation!NoScenario
  BY DEF Simulation!NoScenario
<1>4. \A y \in Scenarios : ScenarioSound(y)'
  BY <1>1, <1>2 DEF SimulationInv, ScenarioSound, Baselined
<1>5. TabSound(tab'[t], scenario', unused')
  BY <1>1, <1>2 DEF TabSound
<1>6. ASSUME NEW v \in Tabs, v # t
      PROVE  TabSound(tab'[v], scenario', unused')
  <2>1. TabSound(tab[v], scenario, unused) /\ tab'[v] = tab[v]
    BY <1>2, <1>6 DEF SimulationInv
  <2>2. QED
    BY <1>1, <1>2, <2>1 DEF TabSound
<1>7. QED
  BY <1>1, <1>2, <1>4, <1>5, <1>6 DEF SimulationInv

\* A tab that only reads: the scenarios stay.
LEMMA ReadSound ==
  ASSUME SimulationInv, NEW t \in Tabs, NEW d, tab' = [tab EXCEPT ![t] = d], TabSound(d, scenario, unused),
         UNCHANGED <<source, scenario, unused>>
  PROVE  SimulationInv'
<1>1. /\ tab' = [v \in Tabs |-> tab'[v]] /\ tab'[t] = d
      /\ \A v \in Tabs : v # t => tab'[v] = tab[v]
  BY DEF SimulationInv
<1>2. \A v \in Tabs : TabSound(tab'[v], scenario, unused)
  BY <1>1 DEF SimulationInv
<1>3. \A v \in Tabs : TabSound(tab'[v], scenario', unused')
  BY <1>2
<1>4. QED
  BY <1>1, <1>3 DEF SimulationInv, ScenarioSound, Baselined

\* What an owner may type beyond the rows displayed was invented.
LEMMA DraftsInvent ==
  ASSUME NEW shown, NEW typed \in Simulation!Drafts(shown)
  PROVE  \A k \in DOMAIN typed : k \in DOMAIN shown \/ k \in Extras
<1> DEFINE One == {[shown EXCEPT ![k] = v] : k \in DOMAIN shown, v \in Values}
           Less == {[k \in {i \in DOMAIN shown : i # d /\ Owner[i] # d} |-> shown[k]] :
                      d \in DOMAIN shown}
           Free == {j \in Extras \ DOMAIN shown : Owner[j] \in DOMAIN shown \cup {j}}
           Longer(x, v) == [k \in DOMAIN shown \cup {x} |-> IF k = x THEN v ELSE shown[k]]
           More == {Longer(x, v) : x \in Free, v \in Values}
<1>1. \A f \in One : DOMAIN f \subseteq DOMAIN shown
  OBVIOUS
<1>2. \A f \in Less : DOMAIN f \subseteq DOMAIN shown
  OBVIOUS
<1>3. \A f \in More : \A k \in DOMAIN f : k \in DOMAIN shown \/ k \in Extras
  <2>1. \A x \in Free, v \in Values : DOMAIN Longer(x, v) \subseteq DOMAIN shown \cup Extras
    OBVIOUS
  <2> HIDE DEF Longer, Free
  <2>2. QED
    BY <2>1
<1>4. Simulation!Drafts(shown) = {shown} \cup One \cup Less \cup More
  BY DEF Simulation!Drafts
<1> HIDE DEF One, Less, More
<1>5. QED
  BY <1>1, <1>2, <1>3, <1>4

\* Another version of a scenario keeps its rows and its revision.
LEMMA ScenarioFields ==
  ASSUME NEW s, Baselined(s.rows, s.revision), s.version \in Nat \ {0}
  PROVE  /\ [s EXCEPT !.version = 1].version = 1
         /\ Baselined([s EXCEPT !.version = 1].rows, [s EXCEPT !.version = 1].revision)
OBVIOUS

\* What the handlers make of baselined rows stays baselined.
LEMMA RowsBaselined ==
  ASSUME NEW rows, NEW revision, Baselined(rows, revision)
  PROVE  /\ Baselined(Simulation!Imported(revision), revision)
         /\ \A typed : (\A k \in DOMAIN typed : k \in DOMAIN rows \/ k \in Extras)
                         => Baselined(Simulation!Saved(rows, typed), revision)
         /\ Baselined(Simulation!Reset(rows), revision)
         /\ \A s : Baselined(Simulation!Rebased(rows, s), s)
         /\ \A k \in DOMAIN rows : \A resolution :
              Baselined(Simulation!Resolved(rows, k, resolution), revision)
<1>1. Baselined(Simulation!Imported(revision), revision)
  BY DEF Baselined, Simulation!Imported, Simulation!ImportedRow
<1>2. ASSUME NEW typed, \A k \in DOMAIN typed : k \in DOMAIN rows \/ k \in Extras
      PROVE  Baselined(Simulation!Saved(rows, typed), revision)
  <2> SUFFICES ASSUME revision \in Simulation!Sources,
                      NEW k \in DOMAIN Simulation!Saved(rows, typed) \cap DOMAIN revision
               PROVE  Simulation!Saved(rows, typed)[k].base = revision[k]
    BY DEF Baselined
  <2>1. k \in DOMAIN typed /\ k \in DOMAIN rows
    BY <1>2, SourcesAre, SimulationAssumption DEF Simulation!Saved
  <2>2. rows[k].base = revision[k]
    BY <2>1 DEF Baselined
  <2>3. Simulation!Saved(rows, typed)[k].base = rows[k].base
    <3>1. PICK v, w : Simulation!Saved(rows, typed)[k] = [rows[k] EXCEPT !.value = v, !.status = w]
      BY <2>1 DEF Simulation!Saved
    <3>2. QED
      BY <3>1
  <2>4. QED
    BY <2>2, <2>3
<1>3. Baselined(Simulation!Reset(rows), revision)
  <2>1. \A r : Simulation!ResetRow(r).base = r.base
    BY DEF Simulation!ResetRow
  <2>2. \A k \in DOMAIN Simulation!Reset(rows) :
          k \in DOMAIN rows /\ Simulation!Reset(rows)[k] = Simulation!ResetRow(rows[k])
    BY DEF Simulation!Reset
  <2>3. QED
    BY <2>1, <2>2 DEF Baselined
<1>4. ASSUME NEW s
      PROVE  Baselined(Simulation!Rebased(rows, s), s)
  <2> SUFFICES ASSUME s \in Simulation!Sources,
                      NEW k \in DOMAIN Simulation!Rebased(rows, s) \cap DOMAIN s
               PROVE  Simulation!Rebased(rows, s)[k].base = s[k]
    BY DEF Baselined
  <2>1. k \in DOMAIN s /\ k \notin Extras
    BY SourcesAre, SimulationAssumption
  <2>2. Simulation!Rebased(rows, s)[k] =
          IF k \notin DOMAIN rows THEN Simulation!ImportedRow(s[k])
                                  ELSE Simulation!RebasedRow(rows[k], s[k])
    BY <2>1 DEF Simulation!Rebased
  <2>3. QED
    BY <2>2 DEF Simulation!ImportedRow, Simulation!RebasedRow
<1>5. ASSUME NEW k \in DOMAIN rows, NEW resolution
      PROVE  Baselined(Simulation!Resolved(rows, k, resolution), revision)
  <2> DEFINE new == Simulation!Resolved(rows, k, resolution)
  <2>1. /\ DOMAIN new = DOMAIN rows
        /\ \A j \in DOMAIN rows : new[j].base = rows[j].base
    BY DEF Simulation!Resolved
  <2> HIDE DEF new
  <2>2. QED
    BY <2>1 DEF Baselined, new
<1>6. QED
  BY <1>1, <1>2, <1>3, <1>4, <1>5

\* The requests that write, each with the rows it writes.
LEMMA StepSimulation ==
  SimulationInv /\ [Simulation!Next]_(Simulation!simulationVars) => SimulationInv'
<1> SUFFICES ASSUME SimulationInv, [Simulation!Next]_(Simulation!simulationVars)
             PROVE  SimulationInv'
  OBVIOUS
<1>s. source \in Simulation!Sources
  BY DEF SimulationInv
<1>1. ASSUME NEW t \in Tabs, NEW x \in Scenarios, NEW i \in BOOLEAN,
             Simulation!CreateScenario(t, x, i)
      PROVE  SimulationInv'
  <2> DEFINE s == IF i THEN [version |-> 1, revision |-> source, rows |-> Simulation!Imported(source)]
                       ELSE [version |-> 1, revision |-> Unset, rows |-> <<>>]
  <2>1. Simulation!Insert(t, x, s)
    BY <1>1 DEF Simulation!CreateScenario
  <2>2. s.version = 1 /\ Baselined(s.rows, s.revision)
    BY DEF Baselined, Simulation!Imported, Simulation!ImportedRow
  <2> HIDE DEF s
  <2>3. QED
    BY <2>1, <2>2, InsertSound
<1>2. ASSUME NEW t \in Tabs, NEW x \in Scenarios, NEW y \in Scenarios,
             Simulation!DuplicateScenario(t, x, y)
      PROVE  SimulationInv'
  <2> DEFINE s == [scenario[x] EXCEPT !.version = 1]
  <2>1. Simulation!Current(t, x) /\ Simulation!Insert(t, y, s)
    BY <1>2 DEF Simulation!DuplicateScenario
  <2>2. s.version = 1 /\ Baselined(s.rows, s.revision)
    BY <2>1, CurrentShows, ScenarioFields DEF SimulationInv, ScenarioSound
  <2> HIDE DEF s
  <2>3. QED
    BY <2>1, <2>2, InsertSound
<1>3. ASSUME NEW t \in Tabs, NEW x \in Scenarios, Simulation!SaveScenario(t, x)
      PROVE  SimulationInv'
  <2>1. PICK typed \in Simulation!Drafts(tab[t].shown) :
          Simulation!Write(x, Simulation!Saved(scenario[x].rows, typed), scenario[x].revision)
    BY <1>3 DEF Simulation!SaveScenario
  <2>2. Simulation!Current(t, x) /\ Simulation!Display(t, x)
    BY <1>3 DEF Simulation!SaveScenario
  <2>3. /\ DOMAIN tab[t].shown = DOMAIN scenario[x].rows
        /\ Baselined(scenario[x].rows, scenario[x].revision)
    BY <2>2, CurrentShows DEF Simulation!Shown
  <2>4. \A k \in DOMAIN typed : k \in DOMAIN scenario[x].rows \/ k \in Extras
    BY <2>1, <2>3, DraftsInvent
  <2>5. Baselined(Simulation!Saved(scenario[x].rows, typed), scenario[x].revision)
    BY <2>3, <2>4, RowsBaselined
  <2>6. QED
    BY <2>1, <2>2, <2>5, WriteSound
<1>4. ASSUME NEW t \in Tabs, NEW x \in Scenarios, Simulation!ResetScenario(t, x)
      PROVE  SimulationInv'
  <2>1. /\ Simulation!Current(t, x) /\ Simulation!Display(t, x)
        /\ Simulation!Write(x, Simulation!Reset(scenario[x].rows), scenario[x].revision)
    BY <1>4 DEF Simulation!ResetScenario
  <2>2. Baselined(Simulation!Reset(scenario[x].rows), scenario[x].revision)
    BY <2>1, CurrentShows, RowsBaselined
  <2>3. QED
    BY <2>1, <2>2, WriteSound
<1>5. ASSUME NEW t \in Tabs, NEW x \in Scenarios, Simulation!RebaseScenario(t, x)
      PROVE  SimulationInv'
  <2>1. /\ Simulation!Current(t, x) /\ Simulation!Display(t, x)
        /\ Simulation!Write(x, Simulation!Rebased(scenario[x].rows, source), source)
    BY <1>5 DEF Simulation!RebaseScenario
  <2>2. Baselined(Simulation!Rebased(scenario[x].rows, source), source)
    BY <2>1, CurrentShows, RowsBaselined
  <2>3. QED
    BY <2>1, <2>2, WriteSound
<1>6. ASSUME NEW t \in Tabs, NEW x \in Scenarios, NEW r, Simulation!ResolveConflict(t, x, r)
      PROVE  SimulationInv'
  <2>1. PICK k \in DOMAIN scenario[x].rows \cap Keys :
          Simulation!Write(x, Simulation!Resolved(scenario[x].rows, k, r), scenario[x].revision)
    BY <1>6 DEF Simulation!ResolveConflict
  <2>2. Simulation!Current(t, x) /\ Simulation!Display(t, x)
    BY <1>6 DEF Simulation!ResolveConflict
  <2>3. Baselined(Simulation!Resolved(scenario[x].rows, k, r), scenario[x].revision)
    BY <2>2, CurrentShows, RowsBaselined
  <2>4. QED
    BY <2>1, <2>2, <2>3, WriteSound
<1>7. ASSUME NEW t \in Tabs, NEW x \in Scenarios, Simulation!DeleteScenario(t, x)
      PROVE  SimulationInv'
  <2>1. /\ scenario' = [scenario EXCEPT ![x] = Simulation!NoScenario]
        /\ tab' = [tab EXCEPT ![t] = Simulation!Blank]
        /\ UNCHANGED <<source, unused>>
    BY <1>7 DEF Simulation!DeleteScenario
  <2>2. /\ scenario' = [y \in Scenarios |-> scenario'[y]] /\ tab' = [v \in Tabs |-> tab'[v]]
        /\ scenario'[x] = Simulation!NoScenario
        /\ \A y \in Scenarios : y # x => scenario'[y] = scenario[y]
        /\ tab'[t] = Simulation!Blank /\ \A v \in Tabs : v # t => tab'[v] = tab[v]
    BY <2>1 DEF SimulationInv
  <2>3. \A y \in Scenarios : ScenarioSound(y)'
    BY <2>1, <2>2 DEF SimulationInv, ScenarioSound
  <2>4. \A v \in Tabs : TabSound(tab'[v], scenario', unused')
    <3>1. TabSound(Simulation!Blank, scenario', unused')
      BY DEF TabSound, Simulation!Blank
    <3>2. ASSUME NEW v \in Tabs, v # t
          PROVE  TabSound(tab[v], scenario', unused')
      BY <2>1, <2>2 DEF SimulationInv, TabSound
    <3>3. QED
      BY <2>2, <3>1, <3>2
  <2>5. QED
    BY <2>1, <2>2, <2>3, <2>4, <1>s DEF SimulationInv
<1>8. ASSUME NEW t \in Tabs, NEW x \in Scenarios, Simulation!ReadScenario(t, x)
      PROVE  SimulationInv'
  <2> DEFINE d == [at |-> "opening", of |-> x, version |-> scenario[x].version]
  <2>1. /\ scenario[x] # Simulation!NoScenario /\ tab' = [tab EXCEPT ![t] = d]
        /\ UNCHANGED <<source, scenario, unused>>
    BY <1>8 DEF Simulation!ReadScenario
  <2>2. x \notin unused /\ scenario[x].version \in Nat
    BY <2>1 DEF SimulationInv, ScenarioSound
  <2>3. TabSound(d, scenario, unused)
    BY <2>2 DEF TabSound
  <2>4. QED
    BY <2>1, <2>3, ReadSound
<1>9. ASSUME NEW t \in Tabs, Simulation!ReadEntries(t)
      PROVE  SimulationInv'
  <2> DEFINE x == tab[t].of
             d == IF scenario[x] = Simulation!NoScenario
                  THEN [at |-> "open", of |-> x, version |-> tab[t].version, shown |-> <<>>]
                  ELSE [at |-> "open", of |-> x, version |-> tab[t].version,
                        shown |-> Simulation!Shown(scenario[x])]
  <2>1. /\ tab[t].at = "opening" /\ tab' = [tab EXCEPT ![t] = d]
        /\ UNCHANGED <<source, scenario, unused>>
    BY <1>9 DEF Simulation!ReadEntries
  <2>2. TabSound(tab[t], scenario, unused)
    BY DEF SimulationInv
  <2>3. TabSound(d, scenario, unused)
    BY <2>1, <2>2 DEF TabSound
  <2> HIDE DEF d
  <2>4. QED
    BY <2>1, <2>3, ReadSound
<1>10. ASSUME Simulation!Publish
       PROVE  SimulationInv'
  <2>1. source' \in Simulation!Sources /\ UNCHANGED <<scenario, unused, tab>>
    BY <1>10 DEF Simulation!Publish
  <2>2. QED
    BY <2>1 DEF SimulationInv, ScenarioSound
<1>11. CASE UNCHANGED Simulation!simulationVars
  BY <1>11 DEF SimulationInv, ScenarioSound, Simulation!simulationVars
<1>12. QED
  BY <1>1, <1>2, <1>3, <1>4, <1>5, <1>6, <1>7, <1>8, <1>9, <1>10, <1>11 DEF Simulation!Next

\* The simulations begin without scenarios.
LEMMA SimulationHolds == ServicesSpec => []SimulationInv
<1>1. Simulation!Init => SimulationInv
  BY DEF Simulation!Init, SimulationInv, ScenarioSound, TabSound, Simulation!Blank
<1>2. QED
  BY <1>1, SimulationAlone, StepSimulation, PTL DEF Simulation!SimulationSpec

(* When a scenario offers no rebase, every published row it holds is       *)
(* compared with the official result (simulations.py _apply_baseline).     *)
THEOREM BaselinesOfficial == ServicesSpec => []BaselineOfficial
<1>1. SimulationInv => BaselineOfficial
  BY DEF SimulationInv, ScenarioSound, Baselined, BaselineOfficial,
     Simulation!BaselineOfficial, Simulation!Live
<1>2. QED
  BY <1>1, SimulationHolds, PTL

(* A tab changes or deletes a scenario only from its latest contents, with *)
(* however many tabs and although reading takes two statements.            *)
THEOREM OverwritesSeen == ServicesSpec => NoUnseenOverwrite
<1> DEFINE Seen ==
      \A x \in Simulation!Live, t \in Tabs :
        scenario'[x] # scenario[x] /\ tab'[t] # tab[t]
          => tab[t].at = "open" /\ tab[t].of = x /\ tab[t].shown = Simulation!Shown(scenario[x])
<1>1. ASSUME SimulationInv, Simulation!Next
      PROVE  Seen
  <2>w. ASSUME NEW t \in Tabs, NEW x \in Scenarios, Simulation!Current(t, x),
               \A y \in Scenarios : y # x => scenario'[y] = scenario[y],
               \A v \in Tabs : v # t => tab'[v] = tab[v]
        PROVE  Seen
    BY <1>1, <2>w, CurrentShows DEF Simulation!Live
  <2>u. ASSUME \A y \in Simulation!Live : scenario'[y] = scenario[y]
        PROVE  Seen
    BY <2>u
  <2>f. /\ scenario = [x \in Scenarios |-> scenario[x]] /\ tab = [t \in Tabs |-> tab[t]]
        /\ \A y \in Simulation!Live : y \in Scenarios \ unused
    BY <1>1 DEF SimulationInv, ScenarioSound, Simulation!Live
  <2>i. ASSUME NEW t \in Tabs, NEW x \in Scenarios, NEW s, Simulation!Insert(t, x, s)
        PROVE  Seen
    BY <2>i, <2>f, <2>u DEF Simulation!Insert
  <2>d. ASSUME NEW t \in Tabs, NEW x \in Scenarios, NEW s, NEW d, Simulation!Current(t, x),
               scenario' = [scenario EXCEPT ![x] = s], tab' = [tab EXCEPT ![t] = d]
        PROVE  Seen
    BY <2>d, <2>f, <2>w
  <2>p. ASSUME NEW t \in Tabs, NEW x \in Scenarios, NEW rows, NEW revision,
               Simulation!Current(t, x), Simulation!Write(x, rows, revision),
               Simulation!Display(t, x)
        PROVE  Seen
    BY <2>p, <2>d DEF Simulation!Write, Simulation!Display
  <2> HIDE DEF Seen
  <2>1. ASSUME NEW t \in Tabs, NEW x \in Scenarios, NEW i \in BOOLEAN,
               Simulation!CreateScenario(t, x, i)
        PROVE  Seen
    BY <2>1, <2>i DEF Simulation!CreateScenario
  <2>2. ASSUME NEW t \in Tabs, NEW x \in Scenarios, NEW y \in Scenarios,
               Simulation!DuplicateScenario(t, x, y)
        PROVE  Seen
    BY <2>2, <2>i DEF Simulation!DuplicateScenario
  <2>3. ASSUME NEW t \in Tabs, NEW x \in Scenarios,
               \/ Simulation!SaveScenario(t, x) \/ Simulation!ResetScenario(t, x)
               \/ Simulation!RebaseScenario(t, x)
               \/ \E r \in {"source", "hypothesis"} : Simulation!ResolveConflict(t, x, r)
        PROVE  Seen
    BY <2>3, <2>p DEF Simulation!SaveScenario, Simulation!ResetScenario,
       Simulation!RebaseScenario, Simulation!ResolveConflict
  <2>4. ASSUME NEW t \in Tabs, NEW x \in Scenarios, Simulation!DeleteScenario(t, x)
        PROVE  Seen
    BY <2>4, <2>d DEF Simulation!DeleteScenario
  <2>5. ASSUME UNCHANGED scenario
        PROVE  Seen
    BY <2>5, <2>u
  <2>6. QED
    BY <1>1, <2>1, <2>2, <2>3, <2>4, <2>5 DEF Simulation!Next, Simulation!ReadScenario,
       Simulation!ReadEntries, Simulation!Publish
<1>2. SimulationInv /\ [Simulation!Next]_(Simulation!simulationVars)
        => [Seen]_(Simulation!simulationVars)
  BY <1>1
<1>3. QED
  BY <1>2, SimulationHolds, SimulationAlone, PTL
  DEF Simulation!SimulationSpec, NoUnseenOverwrite, Simulation!NoUnseenOverwrite

-----------------------------------------------------------------------------
(* The imported grades: GradeImport.                                       *)

\* In the composition, the imports take their own steps only.
LEMMA GradesAlone == ServicesSpec => Grades!GradeSpec
<1>1. ServicesInit => Grades!Init
  BY DEF ServicesInit
<1>2. [ServicesNext]_servicesVars => [Grades!Next]_(Grades!gradeVars)
  BY DEF ServicesNext, servicesVars, Calendar, AdmissionStep, OutboxStep, GradesStep,
     SimulationStep, BoardStep, LearningStep, SecretsStep, EnvelopesStep, gradeVars,
     Grades!gradeVars
<1>3. QED
  BY <1>1, <1>2, PTL DEF ServicesSpec, Grades!GradeSpec

\* An export lists some keys.
Listing(list) == DOMAIN list \subseteq GradeKeys /\ list = [k \in DOMAIN list |-> list[k]]

\* What PASS may export is a list.
LEMMA ExportsList == \A list \in Grades!Exports : Listing(list)
BY DEF Grades!Exports, Listing

(* The rows that are listed are those of a list, with its scores; the      *)
(* others are archived or absent.                                          *)
SaysWhat(notes, list) ==
  \A k \in GradeKeys :
    \/ k \notin DOMAIN list /\ (notes[k] = Grades!NoNote \/ notes[k].at = "archived")
    \/ k \in DOMAIN list /\ notes[k].at = "listed" /\ notes[k].score = list[k]

\* The inductive invariant: the rows say what the export applied last says.
GradesInv ==
  /\ export \in Grades!Exports
  /\ fetched # Grades!Nothing => fetched.list \in Grades!Exports
  /\ Listing(last) /\ SaysWhat(note, last)
  /\ imports \in Nat /\ announced = [k \in GradeKeys |-> announced[k]]

\* No row is there and absent at once.
LEMMA AbsentIs == \A r : r = Grades!NoNote => r.at = "absent"
BY DEF Grades!NoNote

\* What an import of a list makes of rows that say what another list says.
LEMMA MergedSays ==
  ASSUME NEW list, Listing(list), Listing(last), SaysWhat(note, last)
  PROVE  /\ SaysWhat(Grades!Merged(list), list)
         /\ Grades!Inserted(list) \cup Grades!Updated(list) \cup Grades!Withdrawn(list) = {}
              <=> list = last
<1> DEFINE touched == Grades!Inserted(list) \cup Grades!Updated(list) \cup Grades!Withdrawn(list)
<1>1. ASSUME NEW k \in GradeKeys
      PROVE  /\ k \in Grades!Inserted(list)
                  <=> k \in DOMAIN list /\ note[k] = Grades!NoNote
             /\ k \in Grades!Updated(list)
                  <=> /\ k \in DOMAIN list /\ note[k] # Grades!NoNote
                      /\ note[k].at = "archived" \/ note[k].score # list[k]
             /\ k \in Grades!Withdrawn(list)
                  <=> k \notin DOMAIN list /\ note[k].at = "listed"
  BY DEF Grades!Inserted, Grades!Updated, Grades!Withdrawn
<1>2. ASSUME NEW k \in GradeKeys
      PROVE  \/ /\ k \notin DOMAIN last /\ note[k].at # "listed"
                /\ note[k] = Grades!NoNote \/ note[k].at = "archived"
             \/ /\ k \in DOMAIN last /\ note[k].at = "listed" /\ note[k].score = last[k]
                /\ note[k] # Grades!NoNote
  BY AbsentIs DEF SaysWhat
<1>3. SaysWhat(Grades!Merged(list), list)
  <2> SUFFICES ASSUME NEW k \in GradeKeys
               PROVE  LET merged == Grades!Merged(list)[k]
                         IN  \/ k \notin DOMAIN list /\ (merged = Grades!NoNote \/ merged.at = "archived")
                             \/ k \in DOMAIN list /\ merged.at = "listed" /\ merged.score = list[k]
    BY DEF SaysWhat
  <2>1. Grades!Merged(list)[k] =
          IF k \in Grades!Inserted(list) \cup Grades!Updated(list)
          THEN [at |-> "listed", score |-> list[k], stamp |-> imports + 1]
          ELSE IF k \in Grades!Withdrawn(list)
               THEN [note[k] EXCEPT !.at = "archived", !.stamp = imports + 1] ELSE note[k]
    BY DEF Grades!Merged
  <2>2. CASE k \in Grades!Inserted(list) \cup Grades!Updated(list)
    BY <1>1, <2>1, <2>2
  <2>3. CASE k \notin Grades!Inserted(list) \cup Grades!Updated(list) /\ k \in Grades!Withdrawn(list)
    BY <1>1, <2>1, <2>3
  <2>4. CASE k \notin Grades!Inserted(list) \cup Grades!Updated(list) /\ k \notin Grades!Withdrawn(list)
    BY <1>1, <1>2, <2>1, <2>4
  <2>5. QED
    BY <2>2, <2>3, <2>4
<1>4. list = last => touched = {}
  <2>1. touched \subseteq GradeKeys
    BY DEF Grades!Inserted, Grades!Updated, Grades!Withdrawn, Listing
  <2> HIDE DEF touched
  <2>2. ASSUME list = last, NEW k \in touched
        PROVE  FALSE
    BY <1>1, <1>2, <2>1, <2>2 DEF touched
  <2>3. QED
    BY <2>2
<1>5. ASSUME touched = {}
      PROVE  list = last
  <2>1. \A k \in GradeKeys : k \notin Grades!Inserted(list) /\ k \notin Grades!Updated(list)
                             /\ k \notin Grades!Withdrawn(list)
    BY <1>5
  <2>2. \A k \in GradeKeys : k \in DOMAIN list <=> k \in DOMAIN last
    BY <1>1, <1>2, <2>1
  <2>3. \A k \in GradeKeys : k \in DOMAIN list => list[k] = last[k]
    BY <1>1, <1>2, <2>1
  <2>4. DOMAIN list = DOMAIN last
    BY <2>2 DEF Listing
  <2>5. [k \in DOMAIN list |-> list[k]] = [k \in DOMAIN last |-> last[k]]
    BY <2>3, <2>4 DEF Listing
  <2>6. QED
    BY <2>5 DEF Listing
<1>6. QED
  BY <1>3, <1>4, <1>5

\* An import keeps the invariant, and says the truth of what it did.
LEMMA ImportSound ==
  ASSUME GradesInv, Grades!Import
  PROVE  GradesInv' /\ Grades!ChangeMeansDifferent /\ Grades!NewsAreNew
<1> DEFINE list == fetched.list
<1>1. /\ fetched # Grades!Nothing
      /\ \E kept \in Grades!Kept(Grades!Merged(list)) :
            note' = Grades!Purged(Grades!Merged(list), kept)
      /\ changed' = (Grades!Inserted(list) \cup Grades!Updated(list)
                       \cup Grades!Withdrawn(list) # {})
      /\ announced' = [k \in GradeKeys |-> IF k \in Grades!News(list) THEN announced[k] + 1
                                                                      ELSE announced[k]]
      /\ imports' = imports + 1 /\ fetched' = Grades!Nothing /\ last' = list
      /\ UNCHANGED <<export, exports>>
  BY DEF Grades!Import
<1>2. Listing(list) /\ Listing(last) /\ SaysWhat(note, last)
  BY <1>1, ExportsList DEF GradesInv
<1> HIDE DEF list
<1>3. SaysWhat(Grades!Merged(list), list)
  BY <1>2, MergedSays
<1>4. SaysWhat(note', list)
  <2>1. PICK kept : note' = Grades!Purged(Grades!Merged(list), kept)
    BY <1>1
  <2>2. \A k \in GradeKeys :
          \/ note'[k] = Grades!Merged(list)[k]
          \/ note'[k] = Grades!NoNote /\ Grades!Merged(list)[k].at = "archived"
    BY <2>1 DEF Grades!Purged, Grades!Archived
  <2>3. QED
    BY <1>3, <2>2 DEF SaysWhat
<1>5. GradesInv'
  BY <1>1, <1>2, <1>4 DEF GradesInv
<1>6. Grades!ChangeMeansDifferent
  BY <1>1, <1>2, MergedSays DEF Grades!ChangeMeansDifferent
<1>7. Grades!NewsAreNew
  <2> SUFFICES ASSUME NEW k \in GradeKeys, announced'[k] # announced[k]
               PROVE  note[k] = Grades!NoNote /\ k \notin DOMAIN last
    BY DEF Grades!NewsAreNew
  <2>1. k \in Grades!News(list)
    BY <1>1
  <2>2. note[k] = Grades!NoNote
    BY <2>1 DEF Grades!News, Grades!Inserted
  <2>3. k \notin DOMAIN last
    BY <1>2, <2>2, AbsentIs DEF SaysWhat
  <2>4. QED
    BY <2>2, <2>3
<1>8. QED
  BY <1>5, <1>6, <1>7

(* What the owner and the cadence are told of an import is true: it        *)
(* reports a change exactly when its export differs from the one before,   *)
(* and announces no note that is only corrected, archived or back          *)
(* (services/sync.py, apply_pass_entries).                                 *)
THEOREM ImportsHonest == ServicesSpec => ImportHonest
<1>1. Grades!Init => GradesInv
  <2> SUFFICES ASSUME Grades!Init
               PROVE  GradesInv
    OBVIOUS
  <2>1. DOMAIN last = {} /\ Listing(last)
    BY DEF Grades!Init, Listing
  <2>2. QED
    BY <2>1 DEF Grades!Init, GradesInv, SaysWhat
<1>2. ASSUME GradesInv, [Grades!Next]_(Grades!gradeVars)
      PROVE  GradesInv' /\ [Grades!ChangeMeansDifferent /\ Grades!NewsAreNew]_(Grades!gradeVars)
  <2>1. CASE Grades!Import
    BY <1>2, <2>1, ImportSound
  <2>2. CASE Grades!Publish
    <3>1. /\ export' \in Grades!Exports
          /\ UNCHANGED <<fetched, note, courses, imports, changed, announced, last>>
      BY <2>2 DEF Grades!Publish
    <3>2. QED
      BY <1>2, <3>1 DEF GradesInv, Grades!ChangeMeansDifferent, Grades!NewsAreNew
  <2>3. CASE Grades!Fetch
    <3>1. /\ fetched' = [at |-> "fetched", list |-> export]
          /\ UNCHANGED <<export, exports, note, courses, imports, changed, announced, last>>
      BY <2>3 DEF Grades!Fetch
    <3>2. QED
      BY <1>2, <3>1 DEF GradesInv, Grades!ChangeMeansDifferent, Grades!NewsAreNew
  <2>4. CASE Grades!Fail
    <3>1. /\ fetched' = Grades!Nothing
          /\ UNCHANGED <<export, exports, note, courses, imports, changed, announced, last>>
      BY <2>4 DEF Grades!Fail
    <3>2. QED
      BY <1>2, <3>1 DEF GradesInv, Grades!ChangeMeansDifferent, Grades!NewsAreNew
  <2>5. CASE UNCHANGED Grades!gradeVars
    BY <1>2, <2>5 DEF GradesInv, Grades!gradeVars
  <2>6. QED
    BY <1>2, <2>1, <2>2, <2>3, <2>4, <2>5 DEF Grades!Next
<1>3. QED
  BY <1>1, <1>2, GradesAlone, PTL DEF Grades!GradeSpec, ImportHonest, Grades!ImportHonest

-----------------------------------------------------------------------------
(* The leaderboard: Leaderboard.                                           *)

\* In the composition, the participation takes its own steps only.
LEMMA BoardAlone == ServicesSpec => Board!LeaderboardSpec
<1>1. ServicesInit => Board!Init
  BY DEF ServicesInit
<1>2. [ServicesNext]_servicesVars => [Board!Next]_(Board!leaderboardVars)
  BY DEF ServicesNext, servicesVars, Calendar, AdmissionStep, OutboxStep, GradesStep,
     SimulationStep, BoardStep, LearningStep, SecretsStep, EnvelopesStep, boardVars,
     Board!leaderboardVars
<1>3. QED
  BY <1>1, <1>2, PTL DEF ServicesSpec, Board!LeaderboardSpec

(* A request other than a join never writes a participation; one that ends *)
(* it and read a row without one finds it so unless a join was committed.  *)
RequestSound(r) ==
  r # Board!Idle =>
    /\ r.op \in Board!Operations /\ r.joins \in Nat /\ r.joins <= joins
    /\ r.op # "join" =>
         /\ r.new.participating \in {FALSE, r.copy.participating}
         /\ r.joins = joins /\ r.copy.participating = FALSE => profile.participating = FALSE
    /\ r.op \in Board!Leaves => r.new.participating = FALSE

\* The inductive invariant: who withdrew does not participate.
BoardInv ==
  /\ "participating" \in DOMAIN profile /\ joins \in Nat
  /\ handling = [t \in Tabs |-> handling[t]]
  /\ \A t \in Tabs : RequestSound(handling[t])
  /\ sync # Board!Idle => sync.new.participating \in {FALSE, sync.copy.participating}
  /\ out = TRUE => profile.participating = FALSE

\* What a handler that is not a join makes of the participation it read.
LEMMA WrittenParticipation ==
  ASSUME NEW p, NEW a, NEW op \in Board!Operations, op # "join"
  PROVE  /\ Board!Written(op, p, a).participating \in {FALSE, p.participating}
         /\ op \in Board!Leaves => Board!Written(op, p, a).participating = FALSE
<1>1. Board!ResetForReconsent(p).participating = FALSE /\ Board!Left(p).participating = FALSE
  BY DEF Board!ResetForReconsent, Board!Left
<1>2. /\ Board!Written("leave", p, a) = Board!Left(p)
      /\ Board!Written("erase", p, a) = Board!Erased(p)
      /\ Board!Written("suspend", p, a) = [p EXCEPT !.suspended = TRUE]
      /\ Board!Written("restore", p, a) = [p EXCEPT !.suspended = FALSE]
      /\ Board!Written("withdraw", p, a) = [Board!Left(p) EXCEPT !.suspended = FALSE]
      /\ Board!Written("release", p, a) = [p EXCEPT !.visible = "now"]
      /\ Board!Written("refresh", p, a) = Board!BasisRefreshed(p, a)
  BY DEF Board!Written
<1>3. \A q, v : /\ [q EXCEPT !.suspended = v].participating = q.participating
               /\ [q EXCEPT !.visible = v].participating = q.participating
  OBVIOUS
<1>4. Board!BasisRefreshed(p, a).participating = p.participating
  BY DEF Board!BasisRefreshed
<1>5. Board!Erased(p).participating = FALSE
  BY <1>1 DEF Board!Erased
<1>6. op \in {"leave", "erase", "suspend", "restore", "withdraw", "release", "refresh"}
  BY DEF Board!Operations
<1>7. op \in Board!Leaves => op \in {"leave", "erase", "withdraw"}
  BY DEF Board!Leaves
<1> DEFINE made == Board!Written(op, p, a).participating
<1>8. CASE op = "leave"
  <2>1. made = FALSE
    BY <1>1, <1>2, <1>8
  <2>2. QED
    BY <2>1
<1>9. CASE op = "erase"
  <2>1. made = FALSE
    BY <1>2, <1>5, <1>9
  <2>2. QED
    BY <2>1
<1>10. CASE op = "withdraw"
  <2>1. [Board!Left(p) EXCEPT !.suspended = FALSE].participating = Board!Left(p).participating
    BY <1>3
  <2>2. made = FALSE
    BY <1>1, <1>2, <1>10, <2>1
  <2>3. QED
    BY <2>2
<1>11. CASE op \in {"suspend", "restore", "release", "refresh"}
  <2>1. op = "suspend" => made = p.participating
    <3>1. [p EXCEPT !.suspended = TRUE].participating = p.participating
      BY <1>3
    <3>2. Board!Written("suspend", p, a) = [p EXCEPT !.suspended = TRUE]
      BY <1>2
    <3>3. QED
      BY <3>1, <3>2
  <2>2. op = "restore" => made = p.participating
    <3>1. [p EXCEPT !.suspended = FALSE].participating = p.participating
      BY <1>3
    <3>2. Board!Written("restore", p, a) = [p EXCEPT !.suspended = FALSE]
      BY <1>2
    <3>3. QED
      BY <3>1, <3>2
  <2>3. op = "release" => made = p.participating
    <3>1. [p EXCEPT !.visible = "now"].participating = p.participating
      BY <1>3
    <3>2. Board!Written("release", p, a) = [p EXCEPT !.visible = "now"]
      BY <1>2
    <3>3. QED
      BY <3>1, <3>2
  <2>4. op = "refresh" => made = p.participating
    BY <1>2, <1>4
  <2>5. made = p.participating
    BY <1>11, <2>1, <2>2, <2>3, <2>4
  <2>6. op \notin Board!Leaves
    BY <1>7, <1>11
  <2>7. QED
    BY <2>5, <2>6
<1>12. QED
  BY <1>6, <1>8, <1>9, <1>10, <1>11

\* What a synchronisation makes of the participation it read.
LEMMA ReconciledParticipation ==
  ASSUME NEW p, NEW a
  PROVE  [Board!Reconciled(p, a) EXCEPT !.recommended = FALSE].participating
           \in {FALSE, p.participating}
<1>1. Board!Reconciled(p, a).participating \in {FALSE, p.participating}
  BY DEF Board!Reconciled, Board!ResetForReconsent, Board!BasisRefreshed
<1>2. [Board!Reconciled(p, a) EXCEPT !.recommended = FALSE].participating
        = Board!Reconciled(p, a).participating
  OBVIOUS
<1>3. QED
  BY <1>1, <1>2

\* The participation that a commit leaves.
LEMMA OverParticipation ==
  ASSUME BoardInv, NEW copy, NEW new, profile' = Board!Over(profile, copy, new)
  PROVE  /\ "participating" \in DOMAIN profile'
         /\ profile'.participating = IF new.participating = copy.participating
                                     THEN profile.participating ELSE new.participating
BY DEF BoardInv, Board!Over

\* A row that participates later participated before, and no join is committed.
LEMMA RowLeft ==
  ASSUME BoardInv, "participating" \in DOMAIN profile', joins' = joins,
         profile.participating = FALSE => profile'.participating = FALSE,
         NEW t \in Tabs, NEW r, handling' = [handling EXCEPT ![t] = r], RequestSound(r)
  PROVE  /\ handling' = [v \in Tabs |-> handling'[v]]
         /\ \A v \in Tabs : RequestSound(handling[v])'
<1>1. /\ handling' = [v \in Tabs |-> handling'[v]] /\ handling'[t] = r
      /\ \A v \in Tabs : v # t => handling'[v] = handling[v]
  BY DEF BoardInv
<1>2. \A v \in Tabs : RequestSound(handling'[v])
  BY <1>1 DEF BoardInv
<1>3. \A v \in Tabs : RequestSound(handling[v])'
  BY <1>2 DEF RequestSound
<1>4. QED
  BY <1>1, <1>3

\* A step of the participation keeps the invariant.
LEMMA StepBoard == BoardInv /\ [Board!Next]_(Board!leaderboardVars) => BoardInv'
<1> SUFFICES ASSUME BoardInv, [Board!Next]_(Board!leaderboardVars)
             PROVE  BoardInv'
  OBVIOUS
<1>i. RequestSound(Board!Idle)
  BY DEF RequestSound
<1>1. ASSUME NEW t \in Tabs, NEW op \in Board!Operations, Board!Begin(t, op)
      PROVE  BoardInv'
  <2> DEFINE r == [op |-> op, copy |-> profile, new |-> Board!Written(op, profile, account),
                   joins |-> joins]
  <2>1. /\ handling' = [handling EXCEPT ![t] = r]
        /\ UNCHANGED <<account, profile, sync, joins, out>>
    BY <1>1 DEF Board!Begin
  <2>2. op \in Board!Leaves => op # "join"
    BY DEF Board!Leaves
  <2>3. RequestSound(r)
    <3>1. joins \in Nat
      BY DEF BoardInv
    <3>2. /\ op # "join" => Board!Written(op, profile, account).participating
                              \in {FALSE, profile.participating}
          /\ op \in Board!Leaves => Board!Written(op, profile, account).participating = FALSE
      BY <2>2, WrittenParticipation
    <3>3. /\ r.op = op /\ r.joins = joins /\ r.copy = profile
          /\ r.new = Board!Written(op, profile, account)
      OBVIOUS
    <3> HIDE DEF r
    <3>4. /\ r.op \in Board!Operations /\ r.joins \in Nat /\ r.joins <= joins
      BY <3>1, <3>3
    <3>5. r.op # "join" =>
            /\ r.new.participating \in {FALSE, r.copy.participating}
            /\ r.joins = joins /\ r.copy.participating = FALSE => profile.participating = FALSE
      BY <3>2, <3>3
    <3>6. r.op \in Board!Leaves => r.new.participating = FALSE
      BY <3>2, <3>3
    <3>7. QED
      BY <3>4, <3>5, <3>6 DEF RequestSound
  <2> HIDE DEF r
  <2>4. /\ handling' = [v \in Tabs |-> handling'[v]]
        /\ \A v \in Tabs : RequestSound(handling[v])'
    BY <2>1, <2>3, RowLeft DEF BoardInv
  <2>5. QED
    BY <2>1, <2>4 DEF BoardInv
<1>2. ASSUME NEW t \in Tabs, Board!Commit(t)
      PROVE  BoardInv'
  <2> DEFINE r == handling[t]
  <2>1. /\ r # Board!Idle /\ profile' = Board!Over(profile, r.copy, r.new)
        /\ joins' = IF r.op = "join" THEN joins + 1 ELSE joins
        /\ out' = IF r.op = "join" THEN FALSE
                  ELSE IF r.op \in Board!Leaves /\ r.joins = joins THEN TRUE ELSE out
        /\ handling' = [handling EXCEPT ![t] = Board!Idle]
        /\ UNCHANGED <<account, sync>>
    BY <1>2 DEF Board!Commit
  <2>2. RequestSound(r)
    BY DEF BoardInv
  <2>3. /\ "participating" \in DOMAIN profile'
        /\ profile'.participating = IF r.new.participating = r.copy.participating
                                    THEN profile.participating ELSE r.new.participating
    BY <2>1, OverParticipation
  <2> HIDE DEF r
  <2>4. CASE r.op = "join"
    <3>1. joins' = joins + 1 /\ out' = FALSE /\ joins \in Nat
      BY <2>1, <2>4 DEF BoardInv
    <3>2. /\ handling' = [v \in Tabs |-> handling'[v]] /\ handling'[t] = Board!Idle
          /\ \A v \in Tabs : v # t => handling'[v] = handling[v]
      BY <2>1 DEF BoardInv
    <3>3. ASSUME NEW v \in Tabs, v # t
          PROVE  RequestSound(handling[v])'
      <4>1. RequestSound(handling[v]) /\ handling'[v] = handling[v]
        BY <3>2, <3>3 DEF BoardInv
      <4>2. handling[v] # Board!Idle => handling[v].joins \in Nat /\ handling[v].joins <= joins
        BY <4>1 DEF RequestSound
      <4>3. handling[v] # Board!Idle => handling[v].joins <= joins' /\ handling[v].joins # joins'
        BY <3>1, <4>2
      <4>4. QED
        BY <4>1, <4>2, <4>3 DEF RequestSound
    <3>4. RequestSound(handling[t])'
      BY <3>2 DEF RequestSound
    <3>5. joins' \in Nat
      BY <3>1
    <3>6. QED
      BY <2>1, <2>3, <3>1, <3>2, <3>3, <3>4, <3>5 DEF BoardInv
  <2>5. CASE r.op # "join"
    <3>1. profile.participating = FALSE => profile'.participating = FALSE
      BY <2>1, <2>2, <2>3, <2>5 DEF RequestSound
    <3>2. out' = TRUE => profile'.participating = FALSE
      BY <2>1, <2>2, <2>3, <2>5, <3>1 DEF RequestSound, BoardInv
    <3>3. /\ handling' = [v \in Tabs |-> handling'[v]]
          /\ \A v \in Tabs : RequestSound(handling[v])'
      BY <2>1, <2>3, <2>5, <3>1, <1>i, RowLeft
    <3>4. QED
      BY <2>1, <2>3, <2>5, <3>2, <3>3 DEF BoardInv
  <2>6. QED
    BY <2>4, <2>5
<1>3. ASSUME NEW t \in Tabs, Board!Fail(t)
      PROVE  BoardInv'
  <2>1. /\ handling' = [handling EXCEPT ![t] = Board!Idle]
        /\ UNCHANGED <<account, profile, sync, joins, out>>
    BY <1>3 DEF Board!Fail
  <2>2. /\ handling' = [v \in Tabs |-> handling'[v]]
        /\ \A v \in Tabs : RequestSound(handling[v])'
    BY <2>1, <1>i, RowLeft DEF BoardInv
  <2>3. QED
    BY <2>1, <2>2 DEF BoardInv
<1>4. ASSUME Board!SyncBegin
      PROVE  BoardInv'
  <2>1. UNCHANGED <<account, profile, handling, joins, out>>
    BY <1>4 DEF Board!SyncBegin
  <2>2. /\ \A a : LET s == [op |-> "sync", account |-> a, copy |-> profile,
                            new |-> [Board!Reconciled(profile, a) EXCEPT !.recommended = FALSE]]
                  IN  s.new.participating \in {FALSE, s.copy.participating}
        /\ \A a : LET s == [op |-> "sync", account |-> a, copy |-> profile,
                            new |-> [profile EXCEPT !.recommended = FALSE]]
                  IN  s.new.participating \in {FALSE, s.copy.participating}
    <3>1. [profile EXCEPT !.recommended = FALSE].participating = profile.participating
      OBVIOUS
    <3>2. QED
      BY <3>1, ReconciledParticipation
  <2>3. sync'.new.participating \in {FALSE, sync'.copy.participating}
    BY <1>4, <2>2, Zenon DEF Board!SyncBegin
  <2>4. QED
    BY <2>1, <2>3 DEF BoardInv, RequestSound
<1>5. ASSUME Board!SyncCommit
      PROVE  BoardInv'
  <2>1. /\ sync # Board!Idle /\ sync' = Board!Idle
        /\ profile' = Board!Over(profile, sync.copy, sync.new)
        /\ UNCHANGED <<handling, joins, out>>
    BY <1>5 DEF Board!SyncCommit
  <2>2. /\ "participating" \in DOMAIN profile'
        /\ profile.participating = FALSE => profile'.participating = FALSE
    BY <2>1, OverParticipation DEF BoardInv
  <2>3. QED
    BY <2>1, <2>2 DEF BoardInv, RequestSound
<1>6. ASSUME Board!Recommend
      PROVE  BoardInv'
  <2>1. /\ profile' = [profile EXCEPT !.recommended = TRUE]
        /\ UNCHANGED <<handling, sync, joins, out>>
    BY <1>6 DEF Board!Recommend
  <2>2. DOMAIN profile' = DOMAIN profile /\ profile'.participating = profile.participating
    BY <2>1
  <2>3. QED
    BY <2>1, <2>2 DEF BoardInv, RequestSound
<1>7. ASSUME Board!Switch
      PROVE  BoardInv'
  BY <1>7 DEF Board!Switch, BoardInv, RequestSound
<1>8. CASE UNCHANGED Board!leaderboardVars
  BY <1>8 DEF Board!leaderboardVars, BoardInv, RequestSound
<1>9. QED
  BY <1>1, <1>2, <1>3, <1>4, <1>5, <1>6, <1>7, <1>8 DEF Board!Next

\* The invariant holds of every state.
LEMMA BoardHolds == ServicesSpec => []BoardInv
<1>1. Board!Init => BoardInv
  <2> SUFFICES ASSUME Board!Init
               PROVE  BoardInv
    OBVIOUS
  <2>1. "participating" \in DOMAIN Board!NewProfile
    BY DEF Board!NewProfile
  <2>2. "participating" \in DOMAIN profile
    BY <2>1 DEF Board!Init
  <2>3. QED
    BY <2>2 DEF Board!Init, BoardInv, RequestSound
<1>2. QED
  BY <1>1, BoardAlone, StepBoard, PTL DEF Board!LeaderboardSpec

(* Who withdrew or erased a participation that existed when it was asked   *)
(* is on no board until a join is committed, although no handler locks the *)
(* profile (services/leaderboard.py).                                      *)
THEOREM WithdrawalHolds == ServicesSpec => []WithdrawnUnlisted
<1>1. BoardInv => WithdrawnUnlisted
  BY DEF BoardInv, WithdrawnUnlisted, Board!WithdrawnUnlisted, Board!Listed
<1>2. QED
  BY <1>1, BoardHolds, PTL

-----------------------------------------------------------------------------
(* Calendar subscriptions: CalendarFeed.                                   *)
(* However refreshes, connections and removals interleave, the tags of the *)
(* row describe the events in the cache, and a calendar the owner removed  *)
(* stays removed.                                                          *)

\* In the composition, the calendar takes its own steps only.
LEMMA CalendarAlone == ServicesSpec => Spec
<1>1. ServicesInit => Init
  BY DEF ServicesInit
<1>2. [ServicesNext]_servicesVars => [Next]_vars
  BY DEF ServicesNext, servicesVars, Calendar, AdmissionStep, OutboxStep, GradesStep,
     SimulationStep, BoardStep, LearningStep, SecretsStep, EnvelopesStep
<1>3. QED
  BY <1>1, <1>2, PTL DEF ServicesSpec, Spec

(* The inductive invariant.  A refresh past its fetch knows the due        *)
(* instant, and the contents if there are new ones, that it will write;    *)
(* some link published last.                                               *)
CalendarInv ==
  /\ TypeOK
  /\ \A w \in Workers : /\ work[w].pc \in Locked => work[w].next \in Dues
                        /\ work[w].pc = "fetched" => work[w].got \in Contents
  /\ Feeds # {} => \E f \in Feeds : \A g \in Feeds : published[g] <= published[f]
  /\ TagsDescribeEvents

\* The contents a link shows now are contents.
LEMMA CurrentTyped ==
  ASSUME TypeOK, NEW f \in Feeds
  PROVE  Current(f) \in Contents
BY DEF TypeOK, Current, Contents

\* A row that is written keeps its type, and its tags name what is written.
LEMMA RefreshedTyped ==
  ASSUME CalendarInv, NEW w \in Workers, work[w].pc \in Locked, sub # NoSub
  PROVE  /\ Refreshed(w) \in Sub
         /\ Replaced(w) \in Contents \cup {NoContent}
         /\ Refreshed(w).digest = Replaced(w)
         /\ Refreshed(w).etag = Replaced(w)
<1>1. /\ sub \in Sub /\ events \in Contents \cup {NoContent}
      /\ sub.digest = events /\ sub.etag = events
      /\ work[w].next \in Dues
      /\ work[w].pc = "fetched" => work[w].got \in Contents
  BY DEF CalendarInv, TypeOK, TagsDescribeEvents
<1>2. CASE work[w].pc = "fetched"
  BY <1>1, <1>2 DEF Refreshed, Replaced, Sub
<1>3. CASE work[w].pc # "fetched"
  BY <1>1, <1>3 DEF Refreshed, Replaced, Sub
<1>4. QED
  BY <1>2, <1>3

(* What a step does to the refresh of one worker keeps the types and what  *)
(* is known of a refresh past its fetch.                                   *)
WorkSound(k) ==
  /\ k \in Work
  /\ k.pc \in Locked => k.seen \in Sub /\ k.next \in Dues
  /\ k.pc = "fetched" => k.got \in Contents

\* An idle worker's refresh, or one that ended, is sound.
LEMMA EndedSound ==
  ASSUME NEW pc \in {"idle", "claimed", "ready", "done", "lost"}, NEW d \in Dues \cup {NoSub}
  PROVE  WorkSound([Idle EXCEPT !.pc = pc, !.due = d])
BY DEF WorkSound, Idle, Work, Locked

\* Only the worker's own refresh changes.
LEMMA OneWorks ==
  ASSUME CalendarInv, NEW w \in Workers, NEW k, WorkSound(k), work' = [work EXCEPT ![w] = k]
  PROVE  /\ work' \in [Workers -> Work]
         /\ \A v \in Workers : WorkSound(work'[v])
<1>1. \A v \in Workers : WorkSound(work[v])
  BY DEF CalendarInv, TypeOK, WorkSound
<1>2. work \in [Workers -> Work] /\ k \in Work
  BY DEF CalendarInv, TypeOK, WorkSound
<1>3. QED
  BY <1>1, <1>2

\* The invariant of the next state, from what the steps disturb.
LEMMA NextSound ==
  ASSUME CalendarInv, work' \in [Workers -> Work], \A v \in Workers : WorkSound(work'[v]),
         sub' \in Sub \cup {NoSub}, events' \in Contents \cup {NoContent},
         disabled' \in BOOLEAN, session' \in [Sessions -> Session], job' \in [Dues -> Job],
         UNCHANGED published, TagsDescribeEvents'
  PROVE  CalendarInv'
BY DEF CalendarInv, TypeOK, WorkSound

\* Every step keeps the inductive invariant.
LEMMA CalendarStep == CalendarInv /\ [Next]_vars => CalendarInv'
<1> SUFFICES ASSUME CalendarInv, [Next]_vars
             PROVE  CalendarInv'
  OBVIOUS
<1>t. /\ sub \in Sub \cup {NoSub} /\ events \in Contents \cup {NoContent}
      /\ disabled \in BOOLEAN /\ published \in [Feeds -> 0..MaxPublications]
      /\ session \in [Sessions -> Session]
      /\ work \in [Workers -> Work]
      /\ job \in [Dues -> Job]
  BY DEF CalendarInv, TypeOK
<1>w. \A v \in Workers : WorkSound(work[v])
  BY DEF CalendarInv, TypeOK, WorkSound
<1>u. Unused \in SUBSET Dues
  BY DEF Unused
\* A step that touches neither the row nor the events keeps the tags.
<1>g. UNCHANGED <<sub, events>> => TagsDescribeEvents'
  BY DEF CalendarInv, TagsDescribeEvents
<1>1. CASE UNCHANGED vars
  BY <1>1, <1>t, <1>w, <1>g, NextSound DEF vars
<1>2. ASSUME NEW s \in Sessions, NEW f \in Feeds, Connect(s, f)
      PROVE  CalendarInv'
  <2>1. Current(f) \in Session
    BY CurrentTyped DEF Session, CalendarInv
  <2>2. session' \in [Sessions -> Session]
    BY <1>2, <1>t, <2>1 DEF Connect
  <2>3. QED
    BY <1>2, <1>t, <1>w, <1>g, <2>2, NextSound DEF Connect
<1>3. ASSUME NEW s \in Sessions, ConnectSave(s)
      PROVE  CalendarInv'
  <2> DEFINE got == session[s]
  <2>1. got \in Contents
    BY <1>3, <1>t DEF ConnectSave, Session
  <2>2. PICK d \in Dues : sub' = [feed |-> got.feed, digest |-> got, etag |-> got, due |-> d]
    BY <1>3, <1>u DEF ConnectSave
  <2>3. sub' \in Sub /\ sub' # NoSub /\ events' = got
    <3>1. got.feed \in Feeds
      BY <2>1 DEF Contents
    <3>2. sub' \in Sub
      BY <2>1, <2>2, <3>1 DEF Sub
    <3>3. QED
      BY <1>3, <3>2, NoneAssumption DEF ConnectSave
  <2>4. TagsDescribeEvents'
    BY <2>2, <2>3 DEF TagsDescribeEvents
  <2>5. session' \in [Sessions -> Session]
    BY <1>3, <1>t DEF ConnectSave, Session
  <2>6. QED
    BY <1>3, <1>t, <1>w, <2>1, <2>3, <2>4, <2>5, NextSound DEF ConnectSave
<1>4. CASE Disconnect
  <2>1. TagsDescribeEvents'
    BY <1>4 DEF Disconnect, TagsDescribeEvents
  <2>2. QED
    BY <1>4, <1>t, <1>w, <2>1, NextSound DEF Disconnect
<1>5. CASE EnqueueDue
  <2>1. job' \in [Dues -> Job]
    BY <1>5, <1>t DEF EnqueueDue, Job
  <2>2. QED
    BY <1>5, <1>t, <1>w, <1>g, <2>1, NextSound DEF EnqueueDue
<1>6. CASE ToggleDisabled
  BY <1>6, <1>t, <1>w, <1>g, NextSound DEF ToggleDisabled
<1>7. ASSUME NEW w \in Workers, CheckDue(w)
      PROVE  CalendarInv'
  <2> DEFINE pc == IF StillDue(w) THEN "ready" ELSE "done"
             k == [work[w] EXCEPT !.pc = pc]
  <2>1. work' = [work EXCEPT ![w] = k]
    BY <1>7, <1>t DEF CheckDue
  <2>2. WorkSound(k)
    <3>1. pc \in {"ready", "done"}
      OBVIOUS
    <3> HIDE DEF pc
    <3>2. QED
      BY <1>t, <3>1 DEF WorkSound, Work, Locked
  <2>3. QED
    BY <1>7, <1>t, <1>g, <2>1, <2>2, OneWorks, NextSound DEF CheckDue
<1>8. ASSUME NEW w \in Workers, BeginRefresh(w)
      PROVE  CalendarInv'
  <2>1. PICK k : work' = [work EXCEPT ![w] = k] /\ WorkSound(k)
    <3>1. CASE ~MayRefresh
      <4>1. work' = [work EXCEPT ![w] = [work[w] EXCEPT !.pc = "done"]]
        BY <1>8, <1>t, <3>1 DEF BeginRefresh
      <4>2. WorkSound([work[w] EXCEPT !.pc = "done"])
        BY <1>t DEF WorkSound, Work, Locked
      <4>3. QED
        BY <4>1, <4>2
    <3>2. CASE MayRefresh
      <4>1. PICK d \in Unused :
              work' = [work EXCEPT ![w].pc = "fetching", ![w].seen = sub, ![w].next = d]
        BY <1>8, <3>2 DEF BeginRefresh
      <4> DEFINE k == [[[work[w] EXCEPT !.pc = "fetching"] EXCEPT !.seen = sub] EXCEPT !.next = d]
      <4>2. work' = [work EXCEPT ![w] = k]
        BY <1>t, <4>1
      <4>3. sub \in Sub /\ d \in Dues
        BY <1>t, <1>u, <3>2 DEF MayRefresh
      <4>4. WorkSound(k)
        BY <1>t, <4>3 DEF WorkSound, Work, Locked
      <4>5. QED
        BY <4>2, <4>4
    <3>3. QED
      BY <3>1, <3>2
  <2>2. QED
    BY <1>8, <1>t, <1>g, <2>1, OneWorks, NextSound DEF BeginRefresh
<1>9. ASSUME NEW w \in Workers, NEW d \in Dues, ClaimCalendar(w, d)
      PROVE  CalendarInv'
  <2>1. job' \in [Dues -> Job]
    BY <1>9, <1>t DEF ClaimCalendar, Job
  <2>2. WorkSound([Idle EXCEPT !.pc = "claimed", !.due = d])
    BY EndedSound
  <2>3. QED
    BY <1>9, <1>t, <1>g, <2>1, <2>2, OneWorks, NextSound DEF ClaimCalendar
<1>10. ASSUME NEW w \in Workers, Fetch(w)
       PROVE  CalendarInv'
  <2> DEFINE c == Current(work[w].seen.feed)
  <2>1. work[w].seen \in Sub /\ work[w].next \in Dues
    BY <1>10, <1>w DEF Fetch, WorkSound, Locked
  <2>2. c \in Contents
    <3>1. work[w].seen.feed \in Feeds
      BY <2>1 DEF Sub
    <3>2. QED
      BY <3>1, CurrentTyped DEF CalendarInv
  <2>3. PICK k : work' = [work EXCEPT ![w] = k] /\ WorkSound(k)
    <3>1. CASE c = work[w].seen.etag \/ c = work[w].seen.digest
      <4>1. work' = [work EXCEPT ![w] = [work[w] EXCEPT !.pc = "kept"]]
        BY <1>10, <1>t, <3>1 DEF Fetch
      <4>2. WorkSound([work[w] EXCEPT !.pc = "kept"])
        BY <1>t, <2>1 DEF WorkSound, Work, Locked
      <4>3. QED
        BY <4>1, <4>2
    <3>2. CASE ~(c = work[w].seen.etag \/ c = work[w].seen.digest)
      <4> DEFINE k == [[work[w] EXCEPT !.pc = "fetched"] EXCEPT !.got = c]
      <4>1. work' = [work EXCEPT ![w] = k]
        BY <1>10, <1>t, <3>2 DEF Fetch
      <4>2. WorkSound(k)
        <5> HIDE DEF c
        <5> QED
          BY <1>t, <2>1, <2>2 DEF WorkSound, Work, Locked
      <4>3. QED
        BY <4>1, <4>2
    <3>3. QED
      BY <3>1, <3>2
  <2>4. QED
    BY <1>10, <1>t, <1>g, <2>3, OneWorks, NextSound DEF Fetch
<1>11. ASSUME NEW w \in Workers, FetchError(w)
       PROVE  CalendarInv'
  <2>1. work' = [work EXCEPT ![w] = [work[w] EXCEPT !.pc = "kept"]]
    BY <1>11, <1>t DEF FetchError
  <2>2. work[w].seen \in Sub /\ work[w].next \in Dues
    BY <1>11, <1>w DEF FetchError, WorkSound, Locked
  <2>3. WorkSound([work[w] EXCEPT !.pc = "kept"])
    BY <1>t, <2>2 DEF WorkSound, Work, Locked
  <2>4. QED
    BY <1>11, <1>t, <1>g, <2>1, <2>3, OneWorks, NextSound DEF FetchError
<1>12. ASSUME NEW w \in Workers, Save(w)
       PROVE  CalendarInv'
  <2> DEFINE pc == IF sub = NoSub THEN "lost" ELSE "done"
  <2>1. work' = [work EXCEPT ![w] = [Idle EXCEPT !.pc = pc, !.due = work[w].due]]
    BY <1>12 DEF Save
  <2>2. WorkSound([Idle EXCEPT !.pc = pc, !.due = work[w].due])
    <3>1. pc \in {"lost", "done"} /\ work[w].due \in Dues \cup {NoSub}
      BY <1>t DEF Work
    <3>2. QED
      BY <3>1, EndedSound
  <2>3. /\ sub' \in Sub \cup {NoSub} /\ events' \in Contents \cup {NoContent}
        /\ TagsDescribeEvents'
    <3>1. CASE sub = NoSub
      BY <1>12, <1>t, <1>g, <3>1 DEF Save
    <3>2. CASE sub # NoSub
      <4>1. sub' = Refreshed(w) /\ events' = Replaced(w) /\ work[w].pc \in Locked
        BY <1>12, <3>2 DEF Save
      <4>2. sub' \in Sub /\ events' \in Contents \cup {NoContent} /\ sub' # NoSub
            /\ sub'.digest = events' /\ sub'.etag = events'
        BY <3>2, <4>1, RefreshedTyped, NoneAssumption
      <4>3. QED
        BY <4>2 DEF TagsDescribeEvents
    <3>3. QED
      BY <3>1, <3>2
  <2>4. QED
    BY <1>12, <1>t, <2>1, <2>2, <2>3, OneWorks, NextSound DEF Save
<1>13. ASSUME NEW w \in Workers, FinishCalendar(w)
       PROVE  CalendarInv'
  <2>1. job' \in [Dues -> Job]
    <3>1. PICK status \in {"succeeded", "queued", "dead_letter"} :
            job' = IF job[work[w].due] = w THEN [job EXCEPT ![work[w].due] = status] ELSE job
      BY <1>13 DEF FinishCalendar
    <3>2. QED
      BY <1>t, <3>1 DEF Job, Ends
  <2>2. WorkSound(Idle)
    BY DEF WorkSound, Idle, Work, Locked
  <2>3. QED
    BY <1>13, <1>t, <1>g, <2>1, <2>2, OneWorks, NextSound DEF FinishCalendar
<1>14. ASSUME NEW w \in Workers, Crash(w)
       PROVE  CalendarInv'
  <2>1. WorkSound(Idle)
    BY DEF WorkSound, Idle, Work, Locked
  <2>2. QED
    BY <1>14, <1>t, <1>g, <2>1, OneWorks, NextSound DEF Crash
<1>15. ASSUME NEW d \in Dues, LeaseExpires(d)
       PROVE  CalendarInv'
  <2>1. job' \in [Dues -> Job]
    BY <1>15, <1>t DEF LeaseExpires, Job, Ends
  <2>2. QED
    BY <1>15, <1>t, <1>w, <1>g, <2>1, NextSound DEF LeaseExpires
<1>16. ASSUME NEW d \in Dues, Forget(d)
       PROVE  CalendarInv'
  <2>1. job' \in [Dues -> Job]
    BY <1>16, <1>t DEF Forget, Job
  <2>2. QED
    BY <1>16, <1>t, <1>w, <1>g, <2>1, NextSound DEF Forget
<1>17. ASSUME NEW f \in Feeds, Publish(f)
       PROVE  CalendarInv'
  <2> DEFINE Newest(n) == /\ \E g \in Feeds : published[g] = n
                          /\ \A g \in Feeds : published[g] <= n
  <2>1. PICK latest \in Feeds : \A g \in Feeds : published[g] <= published[latest]
    BY DEF CalendarInv
  <2>2. /\ published[latest] \in 0..MaxPublications /\ Newest(published[latest])
    BY <1>t, <2>1
  <2>3. NewestAt \in 0..MaxPublications /\ Newest(NewestAt)
    <3>1. NewestAt = CHOOSE n \in 0..MaxPublications : Newest(n)
      BY DEF NewestAt
    <3> HIDE DEF Newest
    <3>2. QED
      BY <2>2, <3>1
  <2>4. /\ NewestAt + 1 \in 0..MaxPublications
        /\ published' = [published EXCEPT ![f] = NewestAt + 1]
    BY <1>17, <2>3, BoundsAssumption DEF Publish
  <2>5. published' \in [Feeds -> 0..MaxPublications]
    BY <1>t, <2>4
  <2>6. \A g \in Feeds : published'[g] <= published'[f]
    BY <1>t, <2>3, <2>4
  <2>7. QED
    BY <1>17, <1>g, <2>5, <2>6 DEF Publish, CalendarInv, TypeOK
<1>18. QED
  BY <1>1, <1>2, <1>3, <1>4, <1>5, <1>6, <1>7, <1>8, <1>9, <1>10, <1>11, <1>12, <1>13, <1>14,
     <1>15, <1>16, <1>17 DEF Next

\* The invariant holds before anything is connected.
LEMMA CalendarInit == Init => CalendarInv
<1> SUFFICES ASSUME Init
             PROVE  CalendarInv
  OBVIOUS
<1>1. /\ published \in [Feeds -> 0..MaxPublications]
      /\ \A f \in Feeds : published[f] = 0
  BY BoundsAssumption DEF Init
<1>2. session \in [Sessions -> Session] /\ job \in [Dues -> Job]
  BY DEF Init, Session, Job
<1>3. Idle \in Work /\ Idle.pc = "idle"
  BY DEF Idle, Work
<1>4. work \in [Workers -> Work] /\ \A w \in Workers : work[w].pc = "idle"
  BY <1>3 DEF Init
<1>5. TypeOK
  BY <1>1, <1>2, <1>4 DEF Init, TypeOK, Locked
<1>6. TagsDescribeEvents
  BY DEF Init, TagsDescribeEvents
<1>7. QED
  BY <1>1, <1>4, <1>5, <1>6 DEF CalendarInv, Locked

(* The digest and the validators of the row always describe the events in  *)
(* the cache, so that a 304 keeps the right ones.                          *)
THEOREM TagsDescribe == ServicesSpec => []TagsDescribeEvents
<1>1. CalendarInv => TagsDescribeEvents
  BY DEF CalendarInv
<1>2. QED
  BY <1>1, CalendarAlone, CalendarInit, CalendarStep, PTL DEF Spec

(* A calendar that was removed comes back by a connection of its owner,    *)
(* never by a refresh in flight.                                           *)
THEOREM RemovalHolds == ServicesSpec => StaysErased
<1>1. ASSUME CalendarInv, [Next]_vars, sub = NoSub, sub' # NoSub
      PROVE  \E s \in Sessions : session[s] # NoContent /\ session'[s] = NoContent
  <2>1. session \in [Sessions -> Session]
    BY <1>1 DEF CalendarInv, TypeOK
  <2>2. ASSUME NEW s \in Sessions, ConnectSave(s)
        PROVE  session[s] # NoContent /\ session'[s] = NoContent
    BY <2>1, <2>2 DEF ConnectSave
  <2>3. ~UNCHANGED sub
    BY <1>1
  <2>4. \/ \E s \in Sessions : ConnectSave(s)
        \/ Disconnect
        \/ \E w \in Workers : Save(w)
    BY <1>1, <2>3 DEF Next, vars, Connect, EnqueueDue, ToggleDisabled, CheckDue, BeginRefresh,
       ClaimCalendar, Fetch, FetchError, FinishCalendar, Crash, LeaseExpires, Forget, Publish
  <2>5. ~Disconnect /\ ~\E w \in Workers : Save(w)
    BY <1>1 DEF Disconnect, Save
  <2>6. QED
    BY <2>2, <2>4, <2>5
<1>2. CalendarInv /\ [Next]_vars =>
        [sub = NoSub /\ sub' # NoSub =>
           \E s \in Sessions : session[s] # NoContent /\ session'[s] = NoContent]_vars
  BY <1>1
<1>3. QED
  BY <1>2, CalendarAlone, CalendarInit, CalendarStep, PTL DEF Spec, StaysErased

-----------------------------------------------------------------------------
(* The types of the imported grades, the simulations and the leaderboard,  *)
(* which the invariants above do not need.                                 *)

\* A note is announced once for each import at most.
GradeTypes ==
  /\ Grades!TypeOK
  /\ \A k \in GradeKeys : announced[k] \in Nat /\ announced[k] <= imports
  /\ note = [k \in GradeKeys |-> note[k]]

\* The two cardinalities are the same.
LEMMA GradesCount == \A S : Grades!Cardinality(S) = Cardinality(S)
BY DEF Grades!Cardinality, Cardinality

\* A row that an import leaves is absent or a note.
LEMMA MergedTyped ==
  ASSUME GradeTypes, NEW list \in Grades!Exports, NEW k \in GradeKeys
  PROVE  Grades!Merged(list)[k] = Grades!NoNote \/ Grades!Merged(list)[k] \in Grades!Note
<1>1. /\ imports + 1 \in Nat /\ (note[k] = Grades!NoNote \/ note[k] \in Grades!Note)
      /\ \A i \in DOMAIN list : list[i] \in Scores
  <2>1. imports \in 0 .. MaxImports
    BY DEF GradeTypes, Grades!TypeOK
  <2>2. \A i \in DOMAIN list : list[i] \in Scores
    BY DEF Grades!Exports
  <2>3. QED
    BY <2>1, <2>2 DEF GradeTypes, Grades!TypeOK
<1>2. Grades!Merged(list)[k] =
        IF k \in Grades!Inserted(list) \cup Grades!Updated(list)
        THEN [at |-> "listed", score |-> list[k], stamp |-> imports + 1]
        ELSE IF k \in Grades!Withdrawn(list)
             THEN [note[k] EXCEPT !.at = "archived", !.stamp = imports + 1] ELSE note[k]
  BY DEF Grades!Merged
<1>3. CASE k \in Grades!Inserted(list) \cup Grades!Updated(list)
  <2>1. k \in DOMAIN list
    BY <1>3 DEF Grades!Inserted, Grades!Updated
  <2>2. list[k] \in Scores
    BY <1>1, <2>1
  <2>3. QED
    BY <1>1, <1>2, <1>3, <2>2 DEF Grades!Note
<1>4. CASE k \notin Grades!Inserted(list) \cup Grades!Updated(list) /\ k \in Grades!Withdrawn(list)
  <2>1. note[k].at = "listed"
    BY <1>4 DEF Grades!Withdrawn
  <2>2. note[k] \in Grades!Note
    BY <1>1, <2>1, AbsentIs
  <2>3. [note[k] EXCEPT !.at = "archived", !.stamp = imports + 1] \in Grades!Note
    BY <1>1, <2>2 DEF Grades!Note
  <2>4. QED
    BY <1>2, <1>4, <2>3
<1>5. CASE k \notin Grades!Inserted(list) \cup Grades!Updated(list) /\ k \notin Grades!Withdrawn(list)
  BY <1>1, <1>2, <1>5
<1>6. QED
  BY <1>3, <1>4, <1>5

\* Every step of the imports keeps their types.
LEMMA GradesTyped ==
  GradeTypes /\ [Grades!Next]_(Grades!gradeVars) => GradeTypes'
<1> SUFFICES ASSUME GradeTypes, [Grades!Next]_(Grades!gradeVars) PROVE GradeTypes'
  OBVIOUS
<1>t. /\ export \in Grades!Exports /\ exports \in 0 .. MaxExports /\ imports \in 0 .. MaxImports
      /\ fetched = Grades!Nothing \/ (fetched.at = "fetched" /\ fetched.list \in Grades!Exports)
      /\ \A k \in GradeKeys : note[k] = Grades!NoNote \/ note[k] \in Grades!Note
      /\ courses \subseteq {Ue[k] : k \in GradeKeys} /\ Grades!Cardinality(courses) <= UeCap
      /\ changed \in BOOLEAN /\ announced \in [GradeKeys -> 0 .. MaxImports]
      /\ last \in Grades!Exports
      /\ \A k \in GradeKeys : announced[k] \in Nat /\ announced[k] <= imports
      /\ note = [k \in GradeKeys |-> note[k]]
      /\ MaxExports \in Nat /\ MaxImports \in Nat
  BY RowsAssumption DEF GradeTypes, Grades!TypeOK
<1>1. CASE Grades!Publish
  <2>1. /\ exports < MaxExports /\ exports' = exports + 1 /\ export' \in Grades!Exports
        /\ UNCHANGED <<fetched, note, courses, imports, changed, announced, last>>
    BY <1>1 DEF Grades!Publish
  <2>2. exports' \in 0 .. MaxExports
    BY <1>t, <2>1
  <2>3. QED
    BY <1>t, <2>1, <2>2 DEF GradeTypes, Grades!TypeOK
<1>2. CASE Grades!Fetch
  <2>1. /\ fetched' = [at |-> "fetched", list |-> export]
        /\ UNCHANGED <<export, exports, note, courses, imports, changed, announced, last>>
    BY <1>2 DEF Grades!Fetch
  <2>2. fetched'.at = "fetched" /\ fetched'.list \in Grades!Exports
    BY <1>t, <2>1
  <2>3. QED
    BY <1>t, <2>1, <2>2 DEF GradeTypes, Grades!TypeOK
<1>3. CASE Grades!Fail
  BY <1>t, <1>3 DEF GradeTypes, Grades!TypeOK, Grades!Fail
<1>4. CASE Grades!Import
  <2> DEFINE list == fetched.list
             known == courses \cup {Ue[k] : k \in DOMAIN list}
  <2>1. /\ fetched # Grades!Nothing /\ imports < MaxImports
        /\ Grades!Cardinality(known) <= UeCap /\ courses' = known
        /\ \E kept : note' = Grades!Purged(Grades!Merged(list), kept)
        /\ changed' = (Grades!Inserted(list) \cup Grades!Updated(list)
                         \cup Grades!Withdrawn(list) # {})
        /\ announced' = [k \in GradeKeys |-> IF k \in Grades!News(list) THEN announced[k] + 1
                                                                        ELSE announced[k]]
        /\ imports' = imports + 1 /\ fetched' = Grades!Nothing /\ last' = list
        /\ UNCHANGED <<export, exports>>
    BY <1>4 DEF Grades!Import
  <2>2. list \in Grades!Exports /\ DOMAIN list \subseteq GradeKeys
    BY <1>t, <2>1 DEF Grades!Exports
  <2>3. courses' \subseteq {Ue[k] : k \in GradeKeys} /\ Grades!Cardinality(courses') <= UeCap
    BY <1>t, <2>1, <2>2
  <2>4. imports' \in 0 .. MaxImports /\ imports' \in Nat
    BY <1>t, <2>1
  <2>5. \A k \in GradeKeys : /\ announced'[k] \in Nat /\ announced'[k] <= imports'
                             /\ announced'[k] \in 0 .. MaxImports
    BY <1>t, <2>1
  <2>6. announced' \in [GradeKeys -> 0 .. MaxImports]
    <3>1. announced' = [k \in GradeKeys |-> announced'[k]]
      BY <2>1
    <3>2. QED
      BY <2>5, <3>1
  <2>7. changed' \in BOOLEAN
    BY <2>1
  <2>8. /\ \A k \in GradeKeys : note'[k] = Grades!NoNote \/ note'[k] \in Grades!Note
        /\ note' = [k \in GradeKeys |-> note'[k]]
    <3>1. PICK kept : note' = Grades!Purged(Grades!Merged(list), kept)
      BY <2>1
    <3>2. \A k \in GradeKeys : Grades!Merged(list)[k] = Grades!NoNote
                               \/ Grades!Merged(list)[k] \in Grades!Note
      BY <2>2, MergedTyped
    <3> HIDE DEF list
    <3>3. note' = [k \in GradeKeys |->
                     IF k \in Grades!Archived(Grades!Merged(list)) \ kept THEN Grades!NoNote
                     ELSE Grades!Merged(list)[k]]
      BY <3>1 DEF Grades!Purged
    <3>4. QED
      BY <3>2, <3>3
  <2> HIDE DEF list, known
  <2>9. QED
    BY <1>t, <2>1, <2>2, <2>3, <2>4, <2>5, <2>6, <2>7, <2>8 DEF GradeTypes, Grades!TypeOK
<1>5. CASE UNCHANGED Grades!gradeVars
  BY <1>t, <1>5 DEF GradeTypes, Grades!TypeOK, Grades!gradeVars
<1>6. QED
  BY <1>1, <1>2, <1>3, <1>4, <1>5 DEF Grades!Next

\* The imports begin without notes.
LEMMA GradesTypedFirst == Grades!Init => GradeTypes
<1> SUFFICES ASSUME Grades!Init PROVE GradeTypes
  OBVIOUS
<1>1. /\ export \in Grades!Exports /\ exports = 0 /\ fetched = Grades!Nothing
      /\ note = [k \in GradeKeys |-> Grades!NoNote] /\ courses = {}
      /\ imports = 0 /\ changed = FALSE
      /\ announced = [k \in GradeKeys |-> 0] /\ last = <<>>
  BY DEF Grades!Init
<1>2. Grades!Cardinality(courses) <= UeCap
  BY <1>1, GradesCount, FS_EmptySet, RowsAssumption
<1>3. last \in Grades!Exports
  <2>1. last \in [{} -> Scores]
    BY <1>1
  <2>2. QED
    BY <2>1 DEF Grades!Exports
<1>4. exports \in 0 .. MaxExports /\ imports \in 0 .. MaxImports
  BY <1>1, RowsAssumption
<1>5. announced \in [GradeKeys -> 0 .. MaxImports]
      /\ \A k \in GradeKeys : announced[k] \in Nat /\ announced[k] <= imports
  BY <1>1, RowsAssumption
<1>6. QED
  BY <1>1, <1>2, <1>3, <1>4, <1>5 DEF GradeTypes, Grades!TypeOK

(* Rows of a scenario: with the UE of each of its assessments, and without *)
(* an official result for what the owner invented, for nothing else.       *)
RowsWell(rows) ==
  /\ DOMAIN rows \subseteq Simulation!Ids /\ Simulation!Closed(DOMAIN rows)
  /\ \A k \in DOMAIN rows : rows[k] \in Simulation!Row /\ (rows[k].base = Unset <=> k \in Extras)

\* A scenario that is there.
ScenarioTyped(x) ==
  scenario[x] # Simulation!NoScenario =>
    /\ scenario[x].version \in Nat \ {0} /\ scenario[x].version <= writes
    /\ scenario[x].revision \in Simulation!Sources \cup {Unset}
    /\ RowsWell(scenario[x].rows)

\* A scenario has not more versions than there were writes.
SimulationTypes ==
  /\ source \in Simulation!Sources /\ publications \in 0 .. MaxPublications
  /\ unused \subseteq Scenarios /\ writes \in 0 .. MaxWrites
  /\ \A x \in Scenarios : ScenarioTyped(x)

\* Official results are values of keys that hold their UE.
LEMMA SourcesTyped ==
  ASSUME NEW s \in Simulation!Sources
  PROVE  /\ DOMAIN s \subseteq Keys /\ Simulation!Closed(DOMAIN s)
         /\ \A k \in DOMAIN s : s[k] \in Values
BY DEF Simulation!Sources

\* A row, field by field.
LEMMA RowFields ==
  ASSUME NEW v \in Values, NEW b \in Values \cup {Unset}, NEW st \in Simulation!Statuses
  PROVE  [value |-> v, base |-> b, status |-> st] \in Simulation!Row
BY DEF Simulation!Row

\* What the fields of a row are.
LEMMA RowParts ==
  ASSUME NEW r \in Simulation!Row
  PROVE  r.value \in Values /\ r.base \in Values \cup {Unset} /\ r.status \in Simulation!Statuses
BY DEF Simulation!Row

\* The rows of an import.
LEMMA ImportedTyped ==
  ASSUME NEW s \in Simulation!Sources
  PROVE  RowsWell(Simulation!Imported(s))
<1> DEFINE rows == Simulation!Imported(s)
<1>1. /\ DOMAIN rows = DOMAIN s
      /\ \A k \in DOMAIN s : rows[k] = [value |-> s[k], base |-> s[k], status |-> "current"]
  BY DEF Simulation!Imported, Simulation!ImportedRow
<1> HIDE DEF rows
<1>2. "current" \in Simulation!Statuses
  BY DEF Simulation!Statuses
<1>3. ASSUME NEW k \in DOMAIN s
      PROVE  rows[k] \in Simulation!Row /\ rows[k].base \in Values /\ k \in Keys
  <2>1. s[k] \in Values /\ k \in Keys
    BY SourcesTyped
  <2>2. QED
    BY <1>1, <1>2, <2>1, RowFields
<1>4. \A k \in DOMAIN rows : rows[k].base # Unset /\ k \notin Extras
  BY <1>1, <1>3, RowsAssumption, SimulationAssumption
<1>5. QED
  BY <1>1, <1>3, <1>4, SourcesTyped DEF RowsWell, Simulation!Ids, rows

\* What an owner may type over rows that hold their UE: values, of rows that
\* do, displayed before or invented.
LEMMA DraftsTyped ==
  ASSUME NEW shown, NEW typed \in Simulation!Drafts(shown), DOMAIN shown \subseteq Simulation!Ids,
         Simulation!Closed(DOMAIN shown), \A k \in DOMAIN shown : shown[k] \in Values
  PROVE  /\ DOMAIN typed \subseteq Simulation!Ids /\ Simulation!Closed(DOMAIN typed)
         /\ \A k \in DOMAIN typed : typed[k] \in Values
<1> DEFINE Without(d) == [k \in {i \in DOMAIN shown : i # d /\ Owner[i] # d} |-> shown[k]]
           With(e, v) == [k \in DOMAIN shown \cup {e} |-> IF k = e THEN v ELSE shown[k]]
<1>1. \/ typed = shown
      \/ \E k \in DOMAIN shown, v \in Values : typed = [shown EXCEPT ![k] = v]
      \/ \E d \in DOMAIN shown : typed = Without(d)
      \/ \E e \in {j \in Extras \ DOMAIN shown : Owner[j] \in DOMAIN shown \cup {j}}, v \in Values :
            typed = With(e, v)
  <2> DEFINE Free == {j \in Extras \ DOMAIN shown : Owner[j] \in DOMAIN shown \cup {j}}
  <2>1. Simulation!Drafts(shown) =
          {shown} \cup {[shown EXCEPT ![k] = v] : k \in DOMAIN shown, v \in Values}
            \cup {Without(d) : d \in DOMAIN shown} \cup {With(e, v) : e \in Free, v \in Values}
    BY DEF Simulation!Drafts
  <2> HIDE DEF Without, With, Free
  <2>2. QED
    BY <2>1 DEF Free
<1>2. CASE typed = shown
  BY <1>2
<1>3. ASSUME NEW k \in DOMAIN shown, NEW v \in Values, typed = [shown EXCEPT ![k] = v]
      PROVE  DOMAIN typed = DOMAIN shown /\ \A j \in DOMAIN typed : typed[j] \in Values
  BY <1>3
<1>4. ASSUME NEW d \in DOMAIN shown, typed = Without(d)
      PROVE  /\ DOMAIN typed \subseteq DOMAIN shown /\ Simulation!Closed(DOMAIN typed)
             /\ \A k \in DOMAIN typed : typed[k] \in Values
  <2>1. /\ DOMAIN typed = {i \in DOMAIN shown : i # d /\ Owner[i] # d}
        /\ \A k \in DOMAIN typed : typed[k] = shown[k]
    BY <1>4
  <2>2. ASSUME NEW k \in DOMAIN typed PROVE Owner[k] \in DOMAIN typed
    <3>1. k \in DOMAIN shown /\ Owner[k] # d /\ Owner[k] \in DOMAIN shown
      BY <2>1, <2>2 DEF Simulation!Closed
    <3>2. Owner[Owner[k]] = Owner[k]
      BY <3>1, RowsAssumption DEF Simulation!Ids
    <3>3. QED
      BY <2>1, <3>1, <3>2
  <2>3. QED
    BY <2>1, <2>2 DEF Simulation!Closed
<1>5. ASSUME NEW e \in Extras \ DOMAIN shown, Owner[e] \in DOMAIN shown \cup {e},
             NEW v \in Values, typed = With(e, v)
      PROVE  /\ DOMAIN typed = DOMAIN shown \cup {e} /\ Simulation!Closed(DOMAIN typed)
             /\ \A k \in DOMAIN typed : typed[k] \in Values
  BY <1>5 DEF Simulation!Closed
<1> HIDE DEF Without, With
<1>6. QED
  BY <1>1, <1>2, <1>3, <1>4, <1>5 DEF Simulation!Ids

\* What each handler makes of typed rows is typed.
LEMMA SavedTyped ==
  ASSUME NEW rows, RowsWell(rows), NEW typed, DOMAIN typed \subseteq Simulation!Ids,
         Simulation!Closed(DOMAIN typed), \A k \in DOMAIN typed : typed[k] \in Values,
         \A k \in DOMAIN typed : k \in DOMAIN rows \/ k \in Extras
  PROVE  RowsWell(Simulation!Saved(rows, typed))
<1> DEFINE new == Simulation!Saved(rows, typed)
<1>1. /\ DOMAIN new = DOMAIN typed
      /\ \A k \in DOMAIN typed : k \notin DOMAIN rows => new[k] = Simulation!Simulated(typed[k])
      /\ \A k \in DOMAIN typed : k \in DOMAIN rows =>
            \E st \in {"current", rows[k].status} :
               new[k] = [rows[k] EXCEPT !.value = typed[k], !.status = st]
  BY DEF Simulation!Saved
<1> HIDE DEF new
<1>2. "current" \in Simulation!Statuses
  BY DEF Simulation!Statuses
<1>3. ASSUME NEW k \in DOMAIN typed
      PROVE  new[k] \in Simulation!Row /\ (new[k].base = Unset <=> k \in Extras)
  <2>1. CASE k \notin DOMAIN rows
    <3>1. k \in Extras /\ new[k] = [value |-> typed[k], base |-> Unset, status |-> "current"]
      BY <1>1, <2>1 DEF Simulation!Simulated
    <3>2. QED
      BY <1>2, <3>1, RowFields
  <2>2. CASE k \in DOMAIN rows
    <3>1. rows[k] \in Simulation!Row /\ (rows[k].base = Unset <=> k \in Extras)
      BY <2>2 DEF RowsWell
    <3>2. PICK st \in {"current", rows[k].status} :
            new[k] = [rows[k] EXCEPT !.value = typed[k], !.status = st]
      BY <1>1, <2>2
    <3>3. st \in Simulation!Statuses
      BY <1>2, <3>1, <3>2, RowParts
    <3>4. QED
      BY <3>1, <3>2, <3>3 DEF Simulation!Row
  <2>3. QED
    BY <2>1, <2>2
<1>4. QED
  BY <1>1, <1>3 DEF RowsWell, new

\* The rows of a scenario that is reset.
LEMMA ResetTyped ==
  ASSUME NEW rows, RowsWell(rows)
  PROVE  RowsWell(Simulation!Reset(rows))
<1> DEFINE new == Simulation!Reset(rows)
<1>1. /\ DOMAIN new = DOMAIN rows \cap Keys
      /\ \A k \in DOMAIN new : new[k] = Simulation!ResetRow(rows[k])
  BY DEF Simulation!Reset
<1> HIDE DEF new
<1>2. Simulation!Closed(DOMAIN new)
  BY <1>1, RowsAssumption DEF RowsWell, Simulation!Closed
<1>3. ASSUME NEW k \in DOMAIN new
      PROVE  new[k] \in Simulation!Row /\ (new[k].base = Unset <=> k \in Extras)
  <2>1. /\ k \in DOMAIN rows /\ k \notin Extras
        /\ rows[k] \in Simulation!Row /\ rows[k].base # Unset
    BY <1>1, <1>3, SimulationAssumption DEF RowsWell
  <2>2. PICK st \in {"current", rows[k].status} :
          new[k] = [rows[k] EXCEPT !.value = rows[k].base, !.status = st]
    BY <1>1 DEF Simulation!ResetRow
  <2>3. st \in Simulation!Statuses /\ rows[k].base \in Values
    BY <2>1, <2>2, RowParts DEF Simulation!Statuses
  <2>4. QED
    BY <2>1, <2>2, <2>3 DEF Simulation!Row
<1>4. QED
  BY <1>1, <1>2, <1>3 DEF RowsWell, new

\* The rows of a scenario that follows the official ones.
LEMMA RebasedTyped ==
  ASSUME NEW rows, RowsWell(rows), NEW s \in Simulation!Sources
  PROVE  RowsWell(Simulation!Rebased(rows, s))
<1> DEFINE new == Simulation!Rebased(rows, s)
<1>1. /\ DOMAIN new = DOMAIN rows \cup DOMAIN s
      /\ \A k \in DOMAIN new :
            new[k] = IF k \notin DOMAIN rows THEN Simulation!ImportedRow(s[k])
                     ELSE IF k \in Extras THEN rows[k]
                     ELSE IF k \notin DOMAIN s THEN [rows[k] EXCEPT !.status = "unavailable"]
                     ELSE Simulation!RebasedRow(rows[k], s[k])
  BY DEF Simulation!Rebased
<1> HIDE DEF new
<1>2. Simulation!Closed(DOMAIN new) /\ DOMAIN new \subseteq Simulation!Ids
  BY <1>1, SourcesTyped DEF RowsWell, Simulation!Closed, Simulation!Ids
<1>3. "current" \in Simulation!Statuses /\ "unavailable" \in Simulation!Statuses
      /\ "conflict" \in Simulation!Statuses
  BY DEF Simulation!Statuses
<1>4. \A k \in DOMAIN s : s[k] \in Values /\ s[k] # Unset /\ k \notin Extras
  BY SourcesTyped, RowsAssumption, SimulationAssumption
<1>5. \A k \in DOMAIN rows : rows[k] \in Simulation!Row /\ (rows[k].base = Unset <=> k \in Extras)
  BY DEF RowsWell
<1>6. ASSUME NEW k \in DOMAIN new
      PROVE  new[k] \in Simulation!Row /\ (new[k].base = Unset <=> k \in Extras)
  <2>1. CASE k \notin DOMAIN rows
    <3>1. k \in DOMAIN s /\ new[k] = [value |-> s[k], base |-> s[k], status |-> "current"]
      BY <1>1, <2>1 DEF Simulation!ImportedRow
    <3>2. QED
      BY <1>3, <1>4, <3>1, RowFields
  <2>2. CASE k \in DOMAIN rows /\ k \in Extras
    BY <1>1, <1>5, <2>2
  <2>3. CASE k \in DOMAIN rows /\ k \notin Extras /\ k \notin DOMAIN s
    <3>1. new[k] = [rows[k] EXCEPT !.status = "unavailable"]
      BY <1>1, <2>3
    <3>2. rows[k].value \in Values
      BY <1>5, <2>3, RowParts
    <3>3. QED
      BY <1>3, <1>5, <2>3, <3>1, <3>2 DEF Simulation!Row
  <2>4. CASE k \in DOMAIN rows /\ k \notin Extras /\ k \in DOMAIN s
    <3>1. PICK v \in {rows[k].value, s[k]} : \E st \in {"conflict", "current"} :
            new[k] = [value |-> v, base |-> s[k], status |-> st]
      BY <1>1, <2>4 DEF Simulation!RebasedRow
    <3>2. PICK st \in {"conflict", "current"} : new[k] = [value |-> v, base |-> s[k], status |-> st]
      BY <3>1
    <3>3. v \in Values /\ st \in Simulation!Statuses
      BY <1>3, <1>4, <1>5, <2>4, <3>1, <3>2, RowParts
    <3>4. QED
      BY <1>4, <2>4, <3>2, <3>3, RowFields
  <2>5. QED
    BY <2>1, <2>2, <2>3, <2>4
<1>7. QED
  BY <1>2, <1>6 DEF RowsWell, new

\* The rows of a scenario once a conflict is resolved.
LEMMA ResolvedTyped ==
  ASSUME NEW rows, RowsWell(rows), NEW k \in DOMAIN rows \cap Keys, NEW resolution
  PROVE  RowsWell(Simulation!Resolved(rows, k, resolution))
<1> DEFINE new == Simulation!Resolved(rows, k, resolution)
<1>1. /\ DOMAIN new = DOMAIN rows /\ \A j \in DOMAIN rows : j # k => new[j] = rows[j]
      /\ \E v \in {rows[k].base, rows[k].value} :
            new[k] = [rows[k] EXCEPT !.value = v, !.status = "current"]
  <2> DEFINE w == IF resolution = "source" THEN rows[k].base ELSE rows[k].value
             r == [rows[k] EXCEPT !.value = w, !.status = "current"]
  <2>1. new = [rows EXCEPT ![k] = r]
    BY DEF Simulation!Resolved
  <2>2. w \in {rows[k].base, rows[k].value}
    OBVIOUS
  <2> HIDE DEF w, new
  <2>3. DOMAIN new = DOMAIN rows /\ new[k] = r /\ \A j \in DOMAIN rows : j # k => new[j] = rows[j]
    <3> HIDE DEF r
    <3> QED BY <2>1
  <2>4. QED
    BY <2>2, <2>3
<1> HIDE DEF new
<1>2. k \in DOMAIN rows /\ k \notin Extras /\ rows[k] \in Simulation!Row /\ rows[k].base # Unset
  BY SimulationAssumption DEF RowsWell
<1>3. PICK v \in {rows[k].base, rows[k].value} :
        new[k] = [rows[k] EXCEPT !.value = v, !.status = "current"]
  BY <1>1
<1>4. v \in Values /\ "current" \in Simulation!Statuses
  BY <1>2, <1>3, RowParts DEF Simulation!Statuses
<1>5. new[k] \in Simulation!Row /\ new[k].base # Unset
  BY <1>2, <1>3, <1>4 DEF Simulation!Row
<1>6. QED
  BY <1>1, <1>2, <1>5 DEF RowsWell, new

\* A write of typed rows.
LEMMA WriteTyped ==
  ASSUME SimulationInv, SimulationTypes, NEW x \in Scenarios, NEW s, writes < MaxWrites, writes' = writes + 1,
         scenario' = [scenario EXCEPT ![x] = s], UNCHANGED <<source, publications>>,
         unused' \subseteq unused, s.version \in Nat \ {0}, s.version <= writes + 1,
         s.revision \in Simulation!Sources \cup {Unset}, RowsWell(s.rows)
  PROVE  SimulationTypes'
<1>1. writes \in 0 .. MaxWrites /\ writes' \in 0 .. MaxWrites
  BY RowsAssumption DEF SimulationTypes
<1>2. scenario'[x] = s /\ \A y \in Scenarios : y # x => scenario'[y] = scenario[y]
  BY DEF SimulationInv
<1>3. ASSUME NEW y \in Scenarios, y # x PROVE ScenarioTyped(y)'
  <2>1. scenario'[y] = scenario[y] /\ ScenarioTyped(y)
    BY <1>2, <1>3 DEF SimulationTypes
  <2>2. scenario[y].version \in Nat \ {0} /\ scenario[y].version <= writes
          => scenario[y].version <= writes'
    BY <1>1
  <2>3. QED
    BY <2>1, <2>2 DEF ScenarioTyped, RowsWell
<1>4. ScenarioTyped(x)'
  BY <1>2 DEF ScenarioTyped, RowsWell
<1>5. QED
  BY <1>1, <1>3, <1>4 DEF SimulationTypes

\* A handler that writes rows over those of a tab that is up to date.
LEMMA HandlerTyped ==
  ASSUME SimulationInv, SimulationTypes, NEW x \in Scenarios, NEW rows, NEW revision,
         scenario[x] # Simulation!NoScenario, Simulation!Write(x, rows, revision),
         revision \in Simulation!Sources \cup {Unset}, RowsWell(rows)
  PROVE  SimulationTypes'
<1> DEFINE s == [version |-> scenario[x].version + 1, revision |-> revision, rows |-> rows]
<1>1. /\ writes < MaxWrites /\ writes' = writes + 1
      /\ scenario' = [scenario EXCEPT ![x] = s]
      /\ UNCHANGED <<source, publications, unused>>
  BY DEF Simulation!Write
<1>2. scenario[x].version \in Nat \ {0} /\ scenario[x].version <= writes /\ writes \in 0 .. MaxWrites
  BY DEF SimulationTypes, ScenarioTyped
<1>3. s.version \in Nat \ {0} /\ s.version <= writes + 1 /\ s.revision = revision /\ s.rows = rows
  BY <1>2
<1> HIDE DEF s
<1>4. QED
  BY <1>1, <1>3, WriteTyped

\* Every step of the simulations keeps their types.
LEMMA SimulationTyped ==
  SimulationInv /\ SimulationTypes /\ [Simulation!Next]_(Simulation!simulationVars)
    => SimulationTypes'
<1> SUFFICES ASSUME SimulationInv, SimulationTypes,
                    [Simulation!Next]_(Simulation!simulationVars)
             PROVE  SimulationTypes'
  OBVIOUS
<1>t. /\ source \in Simulation!Sources /\ publications \in 0 .. MaxPublications
      /\ unused \subseteq Scenarios /\ writes \in 0 .. MaxWrites /\ MaxWrites \in Nat
      /\ \A x \in Scenarios : ScenarioTyped(x)
  BY RowsAssumption DEF SimulationTypes
<1>1. ASSUME NEW t \in Tabs, NEW x \in Scenarios, NEW i \in BOOLEAN,
             Simulation!CreateScenario(t, x, i)
      PROVE  SimulationTypes'
  <2> DEFINE s == IF i THEN [version |-> 1, revision |-> source, rows |-> Simulation!Imported(source)]
                       ELSE [version |-> 1, revision |-> Unset, rows |-> <<>>]
  <2>1. Simulation!Insert(t, x, s)
    BY <1>1 DEF Simulation!CreateScenario
  <2>2. RowsWell(<<>>)
    BY DEF RowsWell, Simulation!Closed
  <2>3. /\ s.version = 1 /\ s.revision \in Simulation!Sources \cup {Unset}
        /\ s.rows \in {<<>>, Simulation!Imported(source)}
    BY <1>t
  <2>4. RowsWell(s.rows)
    BY <1>t, <2>2, <2>3, ImportedTyped
  <2> HIDE DEF s
  <2>5. /\ writes < MaxWrites /\ writes' = writes + 1 /\ unused' = unused \ {x}
        /\ scenario' = [scenario EXCEPT ![x] = s] /\ UNCHANGED <<source, publications>>
    BY <2>1 DEF Simulation!Insert
  <2>6. s.version \in Nat \ {0} /\ s.version <= writes + 1 /\ unused' \subseteq unused
    BY <1>t, <2>3, <2>5
  <2>7. QED
    BY <2>3, <2>4, <2>5, <2>6, WriteTyped
<1>2. ASSUME NEW t \in Tabs, NEW x \in Scenarios, NEW y \in Scenarios,
             Simulation!DuplicateScenario(t, x, y)
      PROVE  SimulationTypes'
  <2> DEFINE s == [scenario[x] EXCEPT !.version = 1]
  <2>1. Simulation!Current(t, x) /\ Simulation!Insert(t, y, s)
    BY <1>2 DEF Simulation!DuplicateScenario
  <2>2. /\ scenario[x].version \in Nat \ {0}
        /\ scenario[x].revision \in Simulation!Sources \cup {Unset} /\ RowsWell(scenario[x].rows)
    BY <1>t, <2>1 DEF ScenarioTyped, Simulation!Current
  <2>3. s.version = 1 /\ s.revision = scenario[x].revision /\ s.rows = scenario[x].rows
    BY <2>2
  <2> HIDE DEF s
  <2>4. /\ writes < MaxWrites /\ writes' = writes + 1 /\ unused' = unused \ {y}
        /\ scenario' = [scenario EXCEPT ![y] = s] /\ UNCHANGED <<source, publications>>
    BY <2>1 DEF Simulation!Insert
  <2>5. s.version \in Nat \ {0} /\ s.version <= writes + 1 /\ unused' \subseteq unused
    BY <1>t, <2>3, <2>4
  <2>6. QED
    BY <2>2, <2>3, <2>4, <2>5, WriteTyped
<1>c. ASSUME NEW t \in Tabs, NEW x \in Scenarios, Simulation!Current(t, x)
      PROVE  /\ scenario[x] # Simulation!NoScenario /\ RowsWell(scenario[x].rows)
             /\ scenario[x].revision \in Simulation!Sources \cup {Unset}
             /\ tab[t].shown = Simulation!Shown(scenario[x])
  BY <1>t, <1>c, CurrentShows DEF ScenarioTyped
<1>3. ASSUME NEW t \in Tabs, NEW x \in Scenarios, Simulation!SaveScenario(t, x)
      PROVE  SimulationTypes'
  <2>1. PICK typed \in Simulation!Drafts(tab[t].shown) :
          Simulation!Write(x, Simulation!Saved(scenario[x].rows, typed), scenario[x].revision)
    BY <1>3 DEF Simulation!SaveScenario
  <2>2. Simulation!Current(t, x)
    BY <1>3 DEF Simulation!SaveScenario
  <2> DEFINE rows == scenario[x].rows
             shown == tab[t].shown
  <2>3. /\ DOMAIN shown = DOMAIN rows /\ \A k \in DOMAIN rows : shown[k] = rows[k].value
    <3>1. shown = [k \in DOMAIN rows |-> rows[k].value]
      BY <1>c, <2>2 DEF Simulation!Shown
    <3> HIDE DEF shown, rows
    <3>2. QED
      BY <3>1
  <2>4. /\ DOMAIN shown \subseteq Simulation!Ids /\ Simulation!Closed(DOMAIN shown)
        /\ \A k \in DOMAIN shown : shown[k] \in Values
    <3>1. RowsWell(rows)
      BY <1>c, <2>2
    <3> HIDE DEF rows, shown
    <3>2. QED
      BY <2>3, <3>1, RowParts DEF RowsWell
  <2>5. /\ DOMAIN typed \subseteq Simulation!Ids /\ Simulation!Closed(DOMAIN typed)
        /\ \A k \in DOMAIN typed : typed[k] \in Values
    BY <2>1, <2>4, DraftsTyped
  <2>6. \A k \in DOMAIN typed : k \in DOMAIN rows \/ k \in Extras
    BY <2>1, <2>3, DraftsInvent
  <2>7. RowsWell(Simulation!Saved(rows, typed))
    BY <1>c, <2>2, <2>5, <2>6, SavedTyped
  <2>8. QED
    BY <1>c, <2>1, <2>2, <2>7, HandlerTyped
<1>4. ASSUME NEW t \in Tabs, NEW x \in Scenarios, Simulation!ResetScenario(t, x)
      PROVE  SimulationTypes'
  BY <1>c, <1>4, ResetTyped, HandlerTyped DEF Simulation!ResetScenario
<1>5. ASSUME NEW t \in Tabs, NEW x \in Scenarios, Simulation!RebaseScenario(t, x)
      PROVE  SimulationTypes'
  BY <1>c, <1>t, <1>5, RebasedTyped, HandlerTyped DEF Simulation!RebaseScenario
<1>6. ASSUME NEW t \in Tabs, NEW x \in Scenarios, NEW r, Simulation!ResolveConflict(t, x, r)
      PROVE  SimulationTypes'
  <2>1. PICK k \in DOMAIN scenario[x].rows \cap Keys :
          Simulation!Write(x, Simulation!Resolved(scenario[x].rows, k, r), scenario[x].revision)
    BY <1>6 DEF Simulation!ResolveConflict
  <2>2. Simulation!Current(t, x)
    BY <1>6 DEF Simulation!ResolveConflict
  <2>3. QED
    BY <1>c, <2>1, <2>2, ResolvedTyped, HandlerTyped
<1>7. ASSUME NEW t \in Tabs, NEW x \in Scenarios, Simulation!DeleteScenario(t, x)
      PROVE  SimulationTypes'
  <2>1. /\ scenario' = [scenario EXCEPT ![x] = Simulation!NoScenario]
        /\ UNCHANGED <<source, publications, unused, writes>>
    BY <1>7 DEF Simulation!DeleteScenario
  <2>2. \A y \in Scenarios : scenario'[y] = Simulation!NoScenario \/ scenario'[y] = scenario[y]
    BY <2>1 DEF SimulationInv
  <2>3. \A y \in Scenarios : ScenarioTyped(y)'
    BY <1>t, <2>1, <2>2 DEF ScenarioTyped, RowsWell
  <2>4. QED
    BY <1>t, <2>1, <2>3 DEF SimulationTypes
<1>8. CASE UNCHANGED <<source, publications, scenario, unused, writes>>
  BY <1>t, <1>8 DEF SimulationTypes, ScenarioTyped, RowsWell
<1>9. CASE Simulation!Publish
  <2>1. /\ publications < MaxPublications /\ publications' = publications + 1
        /\ source' \in Simulation!Sources /\ UNCHANGED <<scenario, unused, writes>>
    BY <1>9 DEF Simulation!Publish
  <2>2. publications' \in 0 .. MaxPublications
    BY <1>t, <2>1, BoundsAssumption
  <2>3. QED
    BY <1>t, <2>1, <2>2 DEF SimulationTypes, ScenarioTyped, RowsWell
<1>10. ASSUME NEW t \in Tabs, NEW x \in Scenarios, Simulation!ReadScenario(t, x)
       PROVE  SimulationTypes'
  BY <1>8, <1>10 DEF Simulation!ReadScenario
<1>11. ASSUME NEW t \in Tabs, Simulation!ReadEntries(t)
       PROVE  SimulationTypes'
  BY <1>8, <1>11 DEF Simulation!ReadEntries
<1>12. CASE UNCHANGED Simulation!simulationVars
  BY <1>8, <1>12 DEF Simulation!simulationVars
<1>13. QED
  BY <1>1, <1>2, <1>3, <1>4, <1>5, <1>6, <1>7, <1>9, <1>10, <1>11, <1>12 DEF Simulation!Next

\* The simulations begin without scenarios.
LEMMA SimulationTypedFirst == Simulation!Init => SimulationTypes
BY RowsAssumption, BoundsAssumption
   DEF Simulation!Init, SimulationTypes, ScenarioTyped

\* With the tabs of the invariant, these are the types of the module.
LEMMA SimulationTypesAre == SimulationInv /\ SimulationTypes => Simulation!TypeOK
<1> SUFFICES ASSUME SimulationInv, SimulationTypes PROVE Simulation!TypeOK
  OBVIOUS
<1>1. \A t \in Tabs : tab[t].at \in {"blank", "opening", "open"}
  BY DEF SimulationInv, TabSound
<1>2. ASSUME NEW x \in Scenarios, scenario[x] # Simulation!NoScenario
      PROVE  /\ scenario[x].version \in 1 .. MaxWrites
             /\ scenario[x].revision \in Simulation!Sources \cup {Unset}
             /\ RowsWell(scenario[x].rows)
  <2>1. ScenarioTyped(x) /\ writes \in 0 .. MaxWrites
    BY DEF SimulationTypes
  <2>2. QED
    BY <1>2, <2>1, RowsAssumption DEF ScenarioTyped
<1>3. QED
  BY <1>1, <1>2 DEF SimulationTypes, Simulation!TypeOK, RowsWell

(* The joins that are committed and those that are about to be were asked. *)
Joining == {t \in Tabs : handling[t] # Board!Idle /\ handling[t].op = "join"}

BoardTypes ==
  /\ account \in Board!Account /\ profile \in Board!Profile
  /\ \A t \in Tabs : handling[t] = Board!Idle
                     \/ (handling[t].copy \in Board!Profile /\ handling[t].new \in Board!Profile)
  /\ sync = Board!Idle \/ /\ sync.copy \in Board!Profile /\ sync.new \in Board!Profile
                          /\ sync.account \in Board!Account
  /\ asked \in 0 .. MaxRequests /\ out \in BOOLEAN
  /\ IsFiniteSet(Joining) /\ joins + Cardinality(Joining) <= asked

\* What a handler makes of a row is a row.
LEMMA WrittenTyped ==
  ASSUME NEW p \in Board!Profile, NEW a \in Board!Account
  PROVE  /\ \A op \in Board!Operations : Board!Written(op, p, a) \in Board!Profile
         /\ Board!Reconciled(p, a) \in Board!Profile
         /\ [p EXCEPT !.recommended = FALSE] \in Board!Profile
<1>1. /\ Board!ResetForReconsent(p) \in Board!Profile
      /\ Board!Left(p) \in Board!Profile
      /\ Board!BasisRefreshed(p, a) \in Board!Profile
      /\ Board!Joined(p, a) \in Board!Profile
      /\ [p EXCEPT !.recommended = FALSE] \in Board!Profile
      /\ [p EXCEPT !.suspended = TRUE] \in Board!Profile
      /\ [p EXCEPT !.suspended = FALSE] \in Board!Profile
      /\ [p EXCEPT !.visible = "now"] \in Board!Profile
  <2>1. Board!ResetForReconsent(p) \in Board!Profile
    BY DEF Board!Profile, Board!ResetForReconsent
  <2>2. Board!Left(p) \in Board!Profile
    BY DEF Board!Profile, Board!Left
  <2>3. Board!BasisRefreshed(p, a) \in Board!Profile
    BY DEF Board!Profile, Board!Account, Board!BasisRefreshed
  <2>4. Board!Joined(p, a) \in Board!Profile
    BY DEF Board!Profile, Board!Account, Board!Joined
  <2>5. /\ [p EXCEPT !.recommended = FALSE] \in Board!Profile
        /\ [p EXCEPT !.suspended = TRUE] \in Board!Profile
        /\ [p EXCEPT !.suspended = FALSE] \in Board!Profile
        /\ [p EXCEPT !.visible = "now"] \in Board!Profile
    BY DEF Board!Profile
  <2>6. QED
    BY <2>1, <2>2, <2>3, <2>4, <2>5
<1>2. [Board!Left(p) EXCEPT !.suspended = FALSE] \in Board!Profile
  <2> DEFINE q == Board!Left(p)
  <2>1. q \in Board!Profile
    BY <1>1
  <2> HIDE DEF q
  <2>2. [q EXCEPT !.suspended = FALSE] \in Board!Profile
    BY <2>1 DEF Board!Profile
  <2>3. QED
    BY <2>2 DEF q
<1>3. [Board!BasisRefreshed(p, a) EXCEPT !.recommended = FALSE] \in Board!Profile
  <2> DEFINE q == Board!BasisRefreshed(p, a)
  <2>1. q \in Board!Profile
    BY <1>1
  <2> HIDE DEF q
  <2>2. [q EXCEPT !.recommended = FALSE] \in Board!Profile
    BY <2>1 DEF Board!Profile
  <2>3. QED
    BY <2>2 DEF q
<1>4. Board!Reconciled(p, a) \in Board!Profile
  BY <1>1, <1>3 DEF Board!Reconciled
<1>5. /\ Board!Written("join", p, a) = Board!Joined(p, a)
      /\ Board!Written("leave", p, a) = Board!Left(p)
      /\ Board!Written("erase", p, a) = Board!ResetForReconsent(p)
      /\ Board!Written("suspend", p, a) = [p EXCEPT !.suspended = TRUE]
      /\ Board!Written("restore", p, a) = [p EXCEPT !.suspended = FALSE]
      /\ Board!Written("withdraw", p, a) = [Board!Left(p) EXCEPT !.suspended = FALSE]
      /\ Board!Written("release", p, a) = [p EXCEPT !.visible = "now"]
      /\ Board!Written("refresh", p, a) = Board!BasisRefreshed(p, a)
  BY DEF Board!Written, Board!Erased
<1>6. ASSUME NEW op \in Board!Operations
      PROVE  Board!Written(op, p, a) \in Board!Profile
  <2>1. \/ op = "join" \/ op = "leave" \/ op = "erase" \/ op = "suspend" \/ op = "restore"
        \/ op = "withdraw" \/ op = "release" \/ op = "refresh"
    BY DEF Board!Operations
  <2>2. QED
    BY <1>1, <1>2, <1>5, <2>1
<1>7. QED
  BY <1>1, <1>4, <1>6

\* Columns of a row written over those of another make a row.
LEMMA OverTyped ==
  ASSUME NEW old \in Board!Profile, NEW copy, NEW new \in Board!Profile
  PROVE  Board!Over(old, copy, new) \in Board!Profile
<1> DEFINE r == Board!Over(old, copy, new)
           Columns == {"exists", "participating", "consent", "visible", "basis", "basisAt",
                       "recommended", "suspended"}
<1>1. DOMAIN old = Columns
  BY DEF Board!Profile
<1>2. r = [c \in Columns |-> IF new[c] = copy[c] THEN old[c] ELSE new[c]]
  BY <1>1 DEF Board!Over
<1>3. /\ r.exists \in BOOLEAN /\ r.participating \in BOOLEAN
      /\ r.consent \in {"old", "current", Unset} /\ r.visible \in {"later", "now", Unset}
      /\ r.basis \in Bases \cup {Unset} /\ r.basisAt \in Board!Generations \cup {Unset}
      /\ r.recommended \in BOOLEAN /\ r.suspended \in BOOLEAN
  <2>1. /\ r.exists \in {old.exists, new.exists}
        /\ r.participating \in {old.participating, new.participating}
        /\ r.consent \in {old.consent, new.consent} /\ r.visible \in {old.visible, new.visible}
        /\ r.basis \in {old.basis, new.basis} /\ r.basisAt \in {old.basisAt, new.basisAt}
        /\ r.recommended \in {old.recommended, new.recommended}
        /\ r.suspended \in {old.suspended, new.suspended}
    <3> HIDE DEF r
    <3> QED BY <1>2
  <2> HIDE DEF r
  <2>2. QED
    BY <2>1 DEF Board!Profile
<1> HIDE DEF r
<1>4. r = [exists |-> r.exists, participating |-> r.participating, consent |-> r.consent,
           visible |-> r.visible, basis |-> r.basis, basisAt |-> r.basisAt,
           recommended |-> r.recommended, suspended |-> r.suspended]
  BY <1>2
<1>5. QED
  BY <1>3, <1>4 DEF r, Board!Profile

\* Every step of the leaderboard keeps its types.
LEMMA BoardTyped ==
  BoardInv /\ BoardTypes /\ [Board!Next]_(Board!leaderboardVars) => BoardTypes'
<1> SUFFICES ASSUME BoardInv, BoardTypes, [Board!Next]_(Board!leaderboardVars)
             PROVE  BoardTypes'
  OBVIOUS
<1>t. /\ account \in Board!Account /\ profile \in Board!Profile
      /\ asked \in 0 .. MaxRequests /\ asked \in Nat /\ out \in BOOLEAN /\ MaxRequests \in Nat
      /\ joins \in Nat /\ handling = [t \in Tabs |-> handling[t]]
      /\ IsFiniteSet(Joining) /\ Cardinality(Joining) \in Nat
      /\ joins + Cardinality(Joining) <= asked
  BY RowsAssumption, FS_CardinalityType DEF BoardInv, BoardTypes
<1>r. \A t \in Tabs : handling[t] = Board!Idle
                      \/ (handling[t].copy \in Board!Profile /\ handling[t].new \in Board!Profile)
  BY DEF BoardTypes
<1>s. sync = Board!Idle \/ /\ sync.copy \in Board!Profile /\ sync.new \in Board!Profile
                           /\ sync.account \in Board!Account
  BY DEF BoardTypes
<1>1. ASSUME NEW t \in Tabs, NEW op \in Board!Operations, Board!Begin(t, op)
      PROVE  BoardTypes'
  <2> DEFINE r == [op |-> op, copy |-> profile, new |-> Board!Written(op, profile, account),
                   joins |-> joins]
  <2>1. /\ handling[t] = Board!Idle /\ asked < MaxRequests /\ asked' = asked + 1
        /\ handling' = [handling EXCEPT ![t] = r]
        /\ UNCHANGED <<account, profile, sync, joins, out>>
    BY <1>1 DEF Board!Begin
  <2>2. r.copy \in Board!Profile /\ r.new \in Board!Profile
    BY <1>t, WrittenTyped
  <2> HIDE DEF r
  <2>3. handling'[t] = r /\ \A v \in Tabs : v # t => handling'[v] = handling[v]
    BY <1>t, <2>1
  <2>4. Joining' \subseteq Joining \cup {t}
    BY <2>3 DEF Joining
  <2>5. IsFiniteSet(Joining') /\ Cardinality(Joining') <= Cardinality(Joining) + 1
    <3>1. IsFiniteSet(Joining \cup {t}) /\ Cardinality(Joining \cup {t}) <= Cardinality(Joining) + 1
      <4>1. /\ IsFiniteSet(Joining \cup {t})
            /\ Cardinality(Joining \cup {t}) = IF t \in Joining THEN Cardinality(Joining)
                                                                ELSE Cardinality(Joining) + 1
        BY <1>t, FS_AddElement
      <4>2. QED
        BY <1>t, <4>1
    <3>2. /\ IsFiniteSet(Joining') /\ Cardinality(Joining') <= Cardinality(Joining \cup {t})
      BY <2>4, <3>1, FS_Subset
    <3>3. Cardinality(Joining') \in Nat /\ Cardinality(Joining \cup {t}) \in Nat
      BY <3>1, <3>2, FS_CardinalityType
    <3>4. QED
      BY <1>t, <3>1, <3>2, <3>3
  <2>6. Cardinality(Joining') \in Nat
    BY <2>5, FS_CardinalityType
  <2>7. joins' + Cardinality(Joining') <= asked' /\ asked' \in 0 .. MaxRequests
    BY <1>t, <2>1, <2>5, <2>6
  <2>8. \A v \in Tabs : handling'[v] = Board!Idle
                        \/ (handling'[v].copy \in Board!Profile /\ handling'[v].new \in Board!Profile)
    BY <1>r, <2>2, <2>3
  <2>9. QED
    BY <1>t, <1>s, <2>1, <2>5, <2>7, <2>8 DEF BoardTypes
<1>e. ASSUME NEW t \in Tabs, handling[t] # Board!Idle, handling' = [handling EXCEPT ![t] = Board!Idle]
      PROVE  /\ \A v \in Tabs : handling'[v] = Board!Idle
                        \/ (handling'[v].copy \in Board!Profile /\ handling'[v].new \in Board!Profile)
             /\ Joining' = Joining \ {t} /\ IsFiniteSet(Joining') /\ Cardinality(Joining') \in Nat
             /\ Cardinality(Joining') <= Cardinality(Joining)
             /\ handling[t].op = "join" => Cardinality(Joining') = Cardinality(Joining) - 1
  <2>1. handling'[t] = Board!Idle /\ \A v \in Tabs : v # t => handling'[v] = handling[v]
    BY <1>t, <1>e
  <2>2. Joining' = Joining \ {t}
    BY <2>1 DEF Joining
  <2>3. handling[t].op = "join" => t \in Joining
    BY <1>e DEF Joining
  <2>4. /\ IsFiniteSet(Joining \ {t})
        /\ Cardinality(Joining \ {t}) = IF t \in Joining THEN Cardinality(Joining) - 1
                                                         ELSE Cardinality(Joining)
    BY <1>t, FS_RemoveElement
  <2>5. Cardinality(Joining \ {t}) \in Nat
    BY <2>4, FS_CardinalityType
  <2>6. Cardinality(Joining \ {t}) <= Cardinality(Joining)
    BY <1>t, <2>4
  <2>7. QED
    BY <1>r, <2>1, <2>2, <2>3, <2>4, <2>5, <2>6
<1>2. ASSUME NEW t \in Tabs, Board!Commit(t)
      PROVE  BoardTypes'
  <2>1. /\ handling[t] # Board!Idle /\ handling' = [handling EXCEPT ![t] = Board!Idle]
        /\ profile' = Board!Over(profile, handling[t].copy, handling[t].new)
        /\ joins' = IF handling[t].op = "join" THEN joins + 1 ELSE joins
        /\ out' \in {TRUE, FALSE, out}
        /\ UNCHANGED <<account, sync, asked>>
    BY <1>2 DEF Board!Commit
  <2>2. profile' \in Board!Profile
    BY <1>t, <1>r, <2>1, OverTyped
  <2>3. joins' + Cardinality(Joining') <= asked'
    <3>1. CASE handling[t].op = "join"
      BY <1>t, <1>e, <2>1, <3>1
    <3>2. CASE handling[t].op # "join"
      BY <1>t, <1>e, <2>1, <3>2
    <3>3. QED
      BY <3>1, <3>2
  <2>4. out' \in BOOLEAN
    BY <1>t, <2>1
  <2>5. QED
    BY <1>t, <1>s, <1>e, <2>1, <2>2, <2>3, <2>4 DEF BoardTypes
<1>3. ASSUME NEW t \in Tabs, Board!Fail(t)
      PROVE  BoardTypes'
  <2>1. /\ handling[t] # Board!Idle /\ handling' = [handling EXCEPT ![t] = Board!Idle]
        /\ UNCHANGED <<account, profile, sync, asked, joins, out>>
    BY <1>3 DEF Board!Fail
  <2>2. joins' + Cardinality(Joining') <= asked'
    BY <1>t, <1>e, <2>1
  <2>3. QED
    BY <1>t, <1>s, <1>e, <2>1, <2>2 DEF BoardTypes
<1>u. handling' = handling => Joining' = Joining
  BY DEF Joining
<1>4. CASE Board!SyncBegin
  <2>1. UNCHANGED <<account, profile, handling, asked, joins, out>>
    BY <1>4 DEF Board!SyncBegin
  <2>2. \E a, n : /\ sync' = [op |-> "sync", account |-> a, copy |-> profile, new |-> n]
                  /\ a \in Board!Account /\ n \in Board!Profile
    <3>1. CASE account.generation < MaxGenerations
               /\ \E b \in Bases, c \in BOOLEAN :
                    LET a == [account EXCEPT !.generation = @ + 1, !.basis = b, !.complete = c]
                    IN sync' = [op |-> "sync", account |-> a, copy |-> profile,
                                new |-> [Board!Reconciled(profile, a) EXCEPT !.recommended = FALSE]]
      <4>1. PICK b \in Bases, c \in BOOLEAN :
              LET a == [account EXCEPT !.generation = @ + 1, !.basis = b, !.complete = c]
              IN sync' = [op |-> "sync", account |-> a, copy |-> profile,
                          new |-> [Board!Reconciled(profile, a) EXCEPT !.recommended = FALSE]]
        BY <3>1
      <4> DEFINE a == [account EXCEPT !.generation = @ + 1, !.basis = b, !.complete = c]
                 n == Board!Reconciled(profile, a)
      <4>2. account.generation + 1 \in Board!Generations
        BY <1>t, <3>1, RowsAssumption DEF Board!Account, Board!Generations
      <4>3. a \in Board!Account
        BY <1>t, <4>2 DEF Board!Account
      <4> HIDE DEF a
      <4>4. n \in Board!Profile
        BY <1>t, <4>3, WrittenTyped
      <4> HIDE DEF n
      <4>5. [n EXCEPT !.recommended = FALSE] \in Board!Profile
        BY <4>4 DEF Board!Profile
      <4>6. sync' = [op |-> "sync", account |-> a, copy |-> profile,
                     new |-> [n EXCEPT !.recommended = FALSE]]
        BY <4>1 DEF a, n
      <4>7. QED
        BY <4>3, <4>5, <4>6
    <3>2. CASE \E c \in BOOLEAN :
                 LET a == [account EXCEPT !.complete = c /\ @]
                 IN sync' = [op |-> "sync", account |-> a, copy |-> profile,
                             new |-> [profile EXCEPT !.recommended = FALSE]]
      <4>1. PICK c \in BOOLEAN :
                 LET a == [account EXCEPT !.complete = c /\ @]
                 IN sync' = [op |-> "sync", account |-> a, copy |-> profile,
                             new |-> [profile EXCEPT !.recommended = FALSE]]
        BY <3>2
      <4> DEFINE a == [account EXCEPT !.complete = c /\ @]
      <4>2. a \in Board!Account
        BY <1>t DEF Board!Account
      <4> HIDE DEF a
      <4>3. [profile EXCEPT !.recommended = FALSE] \in Board!Profile
        BY <1>t DEF Board!Profile
      <4>4. sync' = [op |-> "sync", account |-> a, copy |-> profile,
                     new |-> [profile EXCEPT !.recommended = FALSE]]
        BY <4>1 DEF a
      <4>5. QED
        BY <4>2, <4>3, <4>4
    <3>3. QED
      BY <1>4, <3>1, <3>2 DEF Board!SyncBegin
  <2>3. sync'.copy \in Board!Profile /\ sync'.new \in Board!Profile /\ sync'.account \in Board!Account
    BY <1>t, <2>2
  <2>4. QED
    BY <1>t, <1>r, <1>u, <2>1, <2>3 DEF BoardTypes
<1>5. CASE Board!SyncCommit
  <2>1. /\ sync # Board!Idle /\ sync' = Board!Idle
        /\ profile' = Board!Over(profile, sync.copy, sync.new)
        /\ account' = [sync.account EXCEPT !.disabled = account.disabled]
        /\ UNCHANGED <<handling, asked, joins, out>>
    BY <1>5 DEF Board!SyncCommit
  <2>2. profile' \in Board!Profile
    BY <1>t, <1>s, <2>1, OverTyped
  <2>3. account' \in Board!Account
    BY <1>t, <1>s, <2>1 DEF Board!Account
  <2>4. QED
    BY <1>t, <1>r, <1>u, <2>1, <2>2, <2>3 DEF BoardTypes
<1>6. CASE Board!Recommend
  <2>1. /\ profile' = [profile EXCEPT !.recommended = TRUE]
        /\ UNCHANGED <<account, handling, sync, asked, joins, out>>
    BY <1>6 DEF Board!Recommend
  <2>2. profile' \in Board!Profile
    BY <1>t, <2>1 DEF Board!Profile
  <2>3. QED
    BY <1>t, <1>r, <1>s, <1>u, <2>1, <2>2 DEF BoardTypes
<1>7. CASE Board!Switch
  <2>1. /\ asked < MaxRequests /\ asked' = asked + 1
        /\ account' = [account EXCEPT !.disabled = ~@]
        /\ UNCHANGED <<profile, handling, sync, joins, out>>
    BY <1>7 DEF Board!Switch
  <2>2. account' \in Board!Account
    BY <1>t, <2>1 DEF Board!Account
  <2>3. asked' \in 0 .. MaxRequests /\ joins' + Cardinality(Joining') <= asked'
    BY <1>t, <1>u, <2>1
  <2>4. QED
    BY <1>t, <1>r, <1>s, <1>u, <2>1, <2>2, <2>3 DEF BoardTypes
<1>8. CASE UNCHANGED Board!leaderboardVars
  BY <1>t, <1>r, <1>s, <1>u, <1>8 DEF BoardTypes, Board!leaderboardVars
<1>9. QED
  BY <1>1, <1>2, <1>3, <1>4, <1>5, <1>6, <1>7, <1>8 DEF Board!Next

\* The leaderboard begins without requests.
LEMMA BoardTypedFirst == Board!Init => BoardTypes
<1> SUFFICES ASSUME Board!Init PROVE BoardTypes
  OBVIOUS
<1>1. account \in Board!Account
  <2>1. account \in [generation : {0}, basis : Bases, complete : BOOLEAN, disabled : {FALSE}]
    BY DEF Board!Init
  <2>2. 0 \in Board!Generations
    BY RowsAssumption DEF Board!Generations
  <2>3. QED
    BY <2>1, <2>2 DEF Board!Account
<1>2. Board!NewProfile \in Board!Profile
  BY DEF Board!NewProfile, Board!Profile
<1>3. profile \in Board!Profile
  <2>1. CASE profile = Board!NewProfile
    BY <1>2, <2>1
  <2>2. CASE profile = [Board!NewProfile EXCEPT !.exists = TRUE, !.participating = TRUE,
                          !.consent = "old", !.visible = "now", !.basis = account.basis, !.basisAt = 0]
    <3>1. account.basis \in Bases /\ 0 \in Board!Generations
      BY <1>1, RowsAssumption DEF Board!Account, Board!Generations
    <3>2. QED
      BY <2>2, <3>1 DEF Board!NewProfile, Board!Profile
  <2>3. QED
    BY <2>1, <2>2 DEF Board!Init
<1>4. Joining = {} /\ IsFiniteSet({}) /\ Cardinality({}) = 0
  BY FS_EmptySet DEF Board!Init, Joining
<1>5. /\ \A t \in Tabs : handling[t] = Board!Idle
      /\ sync = Board!Idle /\ asked = 0 /\ joins = 0 /\ out = FALSE
  BY DEF Board!Init
<1>6. asked \in 0 .. MaxRequests
  BY <1>5, RowsAssumption
<1>7. IsFiniteSet(Joining) /\ joins + Cardinality(Joining) <= asked
  BY <1>4, <1>5
<1>8. QED
  BY <1>1, <1>3, <1>5, <1>6, <1>7 DEF BoardTypes

\* These are the types of the module.
LEMMA BoardTypesAre == BoardInv /\ BoardTypes => Board!TypeOK
<1> SUFFICES ASSUME BoardInv, BoardTypes PROVE Board!TypeOK
  OBVIOUS
<1>1. Cardinality(Joining) \in Nat /\ joins \in Nat /\ asked \in 0 .. MaxRequests
      /\ joins + Cardinality(Joining) <= asked
  BY FS_CardinalityType DEF BoardInv, BoardTypes
<1>2. joins \in 0 .. MaxRequests
  BY <1>1, RowsAssumption
<1>3. QED
  BY <1>2 DEF BoardTypes, Board!TypeOK

(* Every row of the nine components has its type in every state: the       *)
(* columns of their tables and the fields of the requests under way.       *)
THEOREM TypesHold == ServicesSpec => []TypesOK
<1>1. ServicesSpec => [](focus \in Components)
  <2>1. ServicesInit => focus \in Components
    BY DEF ServicesInit
  <2>2. focus \in Components /\ [ServicesNext]_servicesVars => (focus \in Components)'
    BY DEF ServicesNext, servicesVars, Calendar, AdmissionStep, OutboxStep, GradesStep,
       SimulationStep, BoardStep, LearningStep, SecretsStep, EnvelopesStep
  <2>3. QED
    BY <2>1, <2>2, PTL DEF ServicesSpec
<1>2. ServicesSpec => []CalendarInv
  BY CalendarAlone, CalendarInit, CalendarStep, PTL DEF Spec
<1>3. ServicesSpec => []OutboxInv
  BY OutboxAlone, InitOutbox, StepOutbox, PTL DEF Outbox!Spec
<1>4. ServicesSpec => []GradeTypes
  BY GradesAlone, GradesTypedFirst, GradesTyped, PTL DEF Grades!GradeSpec
<1>5. ServicesSpec => []SimulationTypes
  BY SimulationAlone, SimulationHolds, SimulationTypedFirst, SimulationTyped, PTL
     DEF Simulation!SimulationSpec
<1>6. ServicesSpec => []BoardTypes
  BY BoardAlone, BoardHolds, BoardTypedFirst, BoardTyped, PTL DEF Board!LeaderboardSpec
<1>7. ServicesSpec => []SecretsInv
  BY SecretsAlone, InitSecrets, StepSecrets, PTL DEF Secrets!RotationSpec
<1>8. ServicesSpec => []EnvelopesProofs!KeptInv
  <2>1. MaxKeyGenerations \in Nat \ {0} /\ Absent \notin EnvelopesProofs!Generations
    BY SecretsAssumption DEF Hpke!Generations, EnvelopesProofs!Generations
  <2>2. EnvelopesProofs!HpkeSpec => []EnvelopesProofs!KeptInv
    BY <2>1, EnvelopesProofs!RotationKept
  <2>3. QED
    BY <2>2, EnvelopesAlone, PTL
<1>9. EnvelopesProofs!KeptInv => Hpke!TypeOK
  BY DEF EnvelopesProofs!KeptInv, EnvelopesProofs!TypeOK, Hpke!TypeOK,
     EnvelopesProofs!Generations, Hpke!Generations, EnvelopesProofs!NoRun, Hpke!NoRun
<1>10. ASSUME focus \in Components, TypeOK, Admission!TypeOK, Outbox!TypeOK, Grades!TypeOK,
              Simulation!TypeOK, Board!TypeOK, Progress!TypeOK, Secrets!TypeOK, Hpke!TypeOK
       PROVE  TypesOK
  BY <1>10, Zenon DEF Components, TypesOK
<1>11. ASSUME focus \in Components, CalendarInv, AdmissionInv, OutboxInv, GradeTypes,
              SimulationInv, SimulationTypes, BoardInv, BoardTypes, LearningInv, SecretsInv,
              EnvelopesProofs!KeptInv
       PROVE  TypesOK
  <2>1. TypeOK /\ Admission!TypeOK /\ Outbox!TypeOK /\ Grades!TypeOK
    BY <1>11 DEF CalendarInv, AdmissionInv, OutboxInv, GradeTypes
  <2>2. Simulation!TypeOK /\ Board!TypeOK
    BY <1>11, SimulationTypesAre, BoardTypesAre
  <2>3. Progress!TypeOK /\ Secrets!TypeOK /\ Hpke!TypeOK
    BY <1>9, <1>11 DEF LearningInv, SecretsInv
  <2>4. QED
    BY <1>10, <1>11, <2>1, <2>2, <2>3
<1>12. QED
  BY <1>1, <1>2, AdmissionHolds, <1>3, <1>4, SimulationHolds, <1>5, BoardHolds, <1>6,
     LearningHolds, <1>7, <1>8, <1>11, PTL
=============================================================================
