------------------------------ MODULE SchoolProofs -----------------------------
(***************************************************************************)
(* What holds of the components of Accounts that follow the school, for    *)
(* every value of the constants: the schedule of its synchronisations      *)
(* (SyncSchedule), the results it publishes (AcademicResults), the board   *)
(* of a promotion (Board) and the conversation with it (ImtConversation).  *)
(* What the code does with a loop, a sort or a sum is first shown to be    *)
(* what it is meant to be: the first open instant, the rows in their       *)
(* order, the total of the numbers.                                        *)
(***************************************************************************)
EXTENDS Accounts, FiniteSetTheorems, SequenceTheorems, NaturalsInduction, TLAPS

\* A set of numbers has a least one.
LEMMA LeastNumber ==
  ASSUME NEW S \in SUBSET Nat, S # {}
  PROVE  \E n \in S : \A m \in S : n <= m
<1> DEFINE below == {ss \in Nat \X Nat : ss[1] < ss[2]}
<1>1. IsWellFoundedOn(below, Nat)
  BY NatLessThanWellFounded, Zenon DEF OpToRel
<1> HIDE DEF below
<1>2. PICK n \in S : \A m \in S : <<m, n>> \notin below
  BY <1>1, WFMin, Zenon
<1>3. ASSUME NEW m \in S, m < n PROVE <<m, n>> \in below
  <2> DEFINE pair == <<m, n>>
  <2>1. pair \in Nat \X Nat /\ pair[1] < pair[2]
    BY <1>3
  <2> HIDE DEF pair
  <2>2. pair \in below
    BY <2>1, Zenon DEF below
  <2>3. QED
    BY <2>2 DEF pair
<1>4. \A m \in S : ~(m < n)
  BY <1>2, <1>3, Zenon
<1>5. QED
  BY <1>4

-----------------------------------------------------------------------------
(* The business window.                                                    *)

\* An instant is a slot of a day.
LEMMA Slots ==
  ASSUME NEW t \in Nat
  PROVE  /\ t \div Day \in Nat /\ t % Day \in 0 .. (Day - 1)
         /\ t = (t \div Day) * Day + (t % Day)
<1>1. Day \in Nat /\ Day > 0
  BY CalendarAssumption
<1>2. t \div Day \in Nat /\ t % Day \in 0 .. (Day - 1)
  BY <1>1
<1> DEFINE d == t \div Day  r == t % Day
<1>3. d \in Nat /\ r \in 0 .. (Day - 1) /\ d = t \div Day /\ r = t % Day
  BY <1>2
<1>4. t = d * Day + r
  <2> HIDE DEF d, r
  <2> QED BY <1>1, <1>3, SMTT(30)
<1>5. QED
  BY <1>2, <1>4

\* The slot of a day is an instant of it.
LEMMA Instants ==
  ASSUME NEW d \in Nat, NEW r \in 0 .. (Day - 1)
  PROVE  /\ d * Day + r \in Nat
         /\ (d * Day + r) \div Day = d /\ (d * Day + r) % Day = r
BY CalendarAssumption

\* The days of a week follow each other.
LEMMA NextDay ==
  ASSUME NEW d \in Nat
  PROVE  /\ d % Week \in 0 .. (Week - 1)
         /\ (d + 1) % Week = IF d % Week = Week - 1 THEN 0 ELSE (d % Week) + 1
<1> DEFINE q == d \div Week  w == d % Week
<1>1. Week \in Nat /\ Week > 0
  BY CalendarAssumption
<1>2. q \in Nat /\ w \in 0 .. (Week - 1) /\ q = d \div Week /\ w = d % Week
  BY <1>1
<1>3. d = q * Week + w
  <2> HIDE DEF q, w
  <2> QED BY <1>1, <1>2, SMTT(30)
<1>4. CASE w = Week - 1
  <2>1. d + 1 = (q + 1) * Week + 0
    BY <1>1, <1>2, <1>3, <1>4
  <2>2. ((q + 1) * Week + 0) % Week = 0
    BY <1>1, <1>2
  <2>3. QED
    BY <1>2, <1>4, <2>1, <2>2
<1>5. CASE w # Week - 1
  <2>1. d + 1 = q * Week + (w + 1) /\ w + 1 \in 0 .. (Week - 1)
    BY <1>1, <1>2, <1>3, <1>5
  <2>2. (q * Week + (w + 1)) % Week = w + 1
    <3> DEFINE v == w + 1
    <3>1. v \in 0 .. (Week - 1)
      BY <2>1
    <3>2. (q * Week + v) % Week = v
      <4> HIDE DEF v, q
      <4> QED BY <1>1, <1>2, <3>1
    <3>3. QED
      BY <3>2
  <2>3. QED
    BY <1>2, <1>5, <2>1, <2>2
<1>6. QED
  BY <1>4, <1>5

\* Later instants are not of an earlier day.
LEMMA DaysGrow ==
  ASSUME NEW t \in Nat, NEW u \in Nat, t <= u
  PROVE  /\ t \div Day <= u \div Day
         /\ t \div Day = u \div Day => t % Day <= u % Day
<1> DEFINE d == t \div Day  r == t % Day  e == u \div Day  s == u % Day
<1>1. /\ d \in Nat /\ e \in Nat /\ r \in 0 .. (Day - 1) /\ s \in 0 .. (Day - 1)
      /\ t = d * Day + r /\ u = e * Day + s
  BY Slots
<1> HIDE DEF d, r, e, s
<1>2. Day \in Nat
  BY CalendarAssumption
<1>3. e < d => e * Day + Day <= d * Day
  BY <1>1, <1>2
<1>4. d <= e
  BY <1>1, <1>2, <1>3
<1>5. d = e => r <= s
  BY <1>1, <1>2
<1>6. QED
  BY <1>4, <1>5 DEF d, r, e, s

\* What next_business_time does at one instant, with "rest" for later ones.
Moved(rest, t) ==
  IF ~Worked(t) THEN rest[NextOpening(t)]
  ELSE IF t % Day < Open THEN (t \div Day) * Day + Open
  ELSE IF t % Day >= Close THEN rest[NextOpening(t)]
  ELSE t

\* From here on, what i moves find.
Found(from) ==
  /\ DOMAIN from = 0 .. 8
  /\ \A i \in 1 .. 8, t \in Nat : from[i][t] = Moved(from[i - 1], t)

\* next_business_time finds what its eight moves find.
LEMMA MovesDefined == \E from : Found(from) /\ \A t : NextBusinessTime(t) = from[8][t]
<1> DEFINE Body(f) == [i \in 0 .. 8 |-> [t \in Nat |->
          IF i = 0 THEN t
          ELSE IF ~Worked(t) THEN f[i - 1][NextOpening(t)]
          ELSE IF t % Day < Open THEN (t \div Day) * Day + Open
          ELSE IF t % Day >= Close THEN f[i - 1][NextOpening(t)]
          ELSE t]]
<1> DEFINE Step(g) == [t \in Nat |-> Moved(g, t)]
<1> DEFINE g0 == [t \in Nat |-> t]
           g1 == Step(g0) g2 == Step(g1) g3 == Step(g2) g4 == Step(g3)
           g5 == Step(g4) g6 == Step(g5) g7 == Step(g6) g8 == Step(g7)
<1> DEFINE f0 == [i \in 0 .. 8 |-> CASE i = 0 -> g0 [] i = 1 -> g1 [] i = 2 -> g2 [] i = 3 -> g3
          [] i = 4 -> g4 [] i = 5 -> g5 [] i = 6 -> g6 [] i = 7 -> g7 [] i = 8 -> g8]
<1> DEFINE from == CHOOSE f : f = Body(f)
<1>1. \A i \in 1 .. 8 : f0[i] = Step(f0[i - 1])
  <2> HIDE DEF g0, g1, g2, g3, g4, g5, g6, g7, g8, Step
  <2>1. f0[0] = g0 /\ f0[1] = g1 /\ f0[2] = g2 /\ f0[3] = g3 /\ f0[4] = g4
    OBVIOUS
  <2>2. f0[5] = g5 /\ f0[6] = g6 /\ f0[7] = g7 /\ f0[8] = g8
    OBVIOUS
  <2> HIDE DEF f0
  <2>3. f0[1] = Step(f0[0]) /\ f0[2] = Step(f0[1]) /\ f0[3] = Step(f0[2]) /\ f0[4] = Step(f0[3])
    BY <2>1 DEF g1, g2, g3, g4
  <2>4. f0[5] = Step(f0[4]) /\ f0[6] = Step(f0[5]) /\ f0[7] = Step(f0[6]) /\ f0[8] = Step(f0[7])
    BY <2>1, <2>2 DEF g5, g6, g7, g8
  <2>5. \A i \in 1 .. 8 : i \in {1, 2, 3, 4, 5, 6, 7, 8}
    OBVIOUS
  <2>6. QED
    BY <2>3, <2>4, <2>5
<1>2. f0 = Body(f0)
  <2>1. DOMAIN f0 = 0 .. 8 /\ f0[0] = g0 /\ f0 = [i \in 0 .. 8 |-> f0[i]]
    OBVIOUS
  <2> HIDE DEF f0
  <2>2. ASSUME NEW i \in 0 .. 8 PROVE f0[i] = Body(f0)[i]
    <3>1. CASE i = 0
      BY <2>1, <3>1
    <3>2. CASE i # 0
      <4>1. Body(f0)[i] = [t \in Nat |-> Moved(f0[i - 1], t)]
        BY <3>2 DEF Moved
      <4>2. f0[i] = Step(f0[i - 1])
        BY <1>1, <3>2
      <4> HIDE DEF Body
      <4>3. QED
        BY <4>1, <4>2
    <3>3. QED
      BY <3>1, <3>2
  <2> HIDE DEF Body
  <2>3. DOMAIN Body(f0) = 0 .. 8 /\ Body(f0) = [i \in 0 .. 8 |-> Body(f0)[i]]
    BY DEF Body
  <2>4. QED
    BY <2>1, <2>2, <2>3
<1>3. from = Body(from)
  <2> HIDE DEF f0, Body
  <2>1. \E f : f = Body(f)
    BY <1>2
  <2>2. QED
    BY <2>1
<1>4. Found(from)
  <2> HIDE DEF from
  <2>1. DOMAIN from = 0 .. 8
    BY <1>3
  <2>2. ASSUME NEW i \in 1 .. 8, NEW t \in Nat PROVE from[i][t] = Moved(from[i - 1], t)
    <3>1. from[i] = Body(from)[i]
      BY <1>3
    <3>2. QED
      BY <3>1 DEF Moved
  <2>3. QED
    BY <2>1, <2>2 DEF Found
<1>5. \A t : NextBusinessTime(t) = from[8][t]
  BY DEF NextBusinessTime
<1>6. QED
  <2> HIDE DEF from
  <2>1. QED
    BY <1>4, <1>5

\* n is the first instant of the business window that is not before t.
FirstOpen(t, n) ==
  /\ n \in Nat /\ InWindow(n) /\ n >= t
  /\ \A u \in t .. n : InWindow(u) => u = n

Opening(d) == d * Day + Open

\* The next opening is the one of the next day.
LEMMA OpeningNext ==
  ASSUME NEW t \in Nat
  PROVE  /\ NextOpening(t) = Opening((t \div Day) + 1) /\ NextOpening(t) \in Nat
         /\ t < NextOpening(t)
<1>1. /\ t \div Day \in Nat /\ t % Day \in 0 .. (Day - 1)
      /\ t = (t \div Day) * Day + (t % Day)
  BY Slots
<1> DEFINE d == t \div Day  r == t % Day
<1>2. d \in Nat /\ r \in 0 .. (Day - 1) /\ t = d * Day + r /\ NextOpening(t) = (d + 1) * Day + Open
  BY <1>1 DEF NextOpening
<1> HIDE DEF d, r
<1>3. QED
  <2>1. (d + 1) * Day + Open = Opening(d + 1)
    BY DEF Opening
  <2>2. (d + 1) * Day = d * Day + Day
    BY <1>2, CalendarAssumption
  <2>3. d * Day \in Nat
    BY <1>2, CalendarAssumption
  <2>4. QED
    BY <1>2, <2>1, <2>2, <2>3, CalendarAssumption DEF d

\* Between an instant past the window of its day and the next opening there
\* is no instant of the window.
LEMMA NoneBetween ==
  ASSUME NEW t \in Nat, ~Worked(t) \/ t % Day >= Close,
         NEW u \in Nat, t <= u, InWindow(u)
  PROVE  NextOpening(t) <= u
<1> DEFINE d == t \div Day  e == u \div Day  s == u % Day
<1>1. d \in Nat /\ e \in Nat /\ s \in 0 .. (Day - 1) /\ u = e * Day + s
  BY Slots
<1>2. d <= e /\ (d = e => t % Day <= s)
  BY DaysGrow
<1>3. e % Week < Workdays /\ s >= Open /\ s < Close
  BY DEF InWindow, Worked
<1>4. d # e
  <2>1. CASE ~Worked(t)
    BY <1>3, <2>1 DEF Worked
  <2>2. CASE t % Day >= Close
    <3>1. t % Day \in Nat
      BY Slots
    <3>2. QED
      BY <1>1, <1>2, <1>3, <2>2, <3>1, CalendarAssumption
  <2>3. QED
    BY <2>1, <2>2
<1>5. NextOpening(t) = (d + 1) * Day + Open
  BY DEF NextOpening
<1>6. QED
  <2> HIDE DEF d, e, s
  <2>1. d + 1 <= e
    BY <1>1, <1>2, <1>4
  <2>2. (d + 1) * Day <= e * Day
    BY <1>1, <2>1, CalendarAssumption
  <2>3. (d + 1) * Day \in Nat /\ e * Day \in Nat
    BY <1>1, CalendarAssumption
  <2>4. QED
    BY <1>1, <1>3, <1>5, <2>2, <2>3, CalendarAssumption

\* What is first from the next opening on is first from t on.
LEMMA FirstCarried ==
  ASSUME NEW t \in Nat, ~Worked(t) \/ t % Day >= Close,
         NEW n, FirstOpen(NextOpening(t), n)
  PROVE  FirstOpen(t, n)
<1>1. NextOpening(t) \in Nat /\ t < NextOpening(t) /\ n \in Nat /\ n >= NextOpening(t)
  BY OpeningNext DEF FirstOpen
<1>2. ASSUME NEW u \in t .. n, InWindow(u) PROVE u = n
  <2>1. u \in Nat
    BY <1>1
  <2>2. NextOpening(t) <= u
    BY <1>2, <2>1, NoneBetween
  <2>3. QED
    BY <1>1, <1>2, <2>1, <2>2 DEF FirstOpen
<1>3. QED
  BY <1>1, <1>2 DEF FirstOpen

\* The slot, the day and the week of an opening.
LEMMA Openings ==
  ASSUME NEW d \in Nat
  PROVE  /\ Opening(d) \in Nat
         /\ Opening(d) \div Day = d /\ Opening(d) % Day = Open
         /\ Worked(Opening(d)) <=> d % Week < Workdays
<1>1. Open \in 0 .. (Day - 1)
  BY CalendarAssumption
<1>2. QED
  BY <1>1, Instants DEF Opening, Worked

(* Of an opening on a worked day, one move is enough; on a day off, one    *)
(* more than the days left of the week.                                    *)
WithinMoves(d, k) == d % Week < Workdays \/ Week - (d % Week) < k

OpeningsFound(from, k) ==
  \A d \in Nat : WithinMoves(d, k) => FirstOpen(Opening(d), from[k][Opening(d)])

\* A worked day opens its window itself.
LEMMA WorkedFound ==
  ASSUME NEW from, Found(from), NEW k \in 1 .. 8, NEW d \in Nat, d % Week < Workdays
  PROVE  FirstOpen(Opening(d), from[k][Opening(d)])
<1>1. /\ Opening(d) \in Nat /\ Opening(d) % Day = Open /\ Worked(Opening(d))
  BY Openings
<1>2. from[k][Opening(d)] = Opening(d)
  BY <1>1, CalendarAssumption DEF Found, Moved
<1>3. InWindow(Opening(d))
  BY <1>1, CalendarAssumption DEF InWindow
<1>4. QED
  BY <1>1, <1>2, <1>3 DEF FirstOpen

\* What k moves find, k + 1 moves find a day earlier.
LEMMA OneMoveMore ==
  ASSUME NEW from, Found(from), NEW k \in 1 .. 7, OpeningsFound(from, k)
  PROVE  OpeningsFound(from, k + 1)
<1> SUFFICES ASSUME NEW d \in Nat, WithinMoves(d, k + 1)
             PROVE  FirstOpen(Opening(d), from[k + 1][Opening(d)])
  BY DEF OpeningsFound
<1>1. k + 1 \in 1 .. 8 /\ (k + 1) - 1 = k
  OBVIOUS
<1>2. CASE d % Week < Workdays
  BY <1>1, <1>2, WorkedFound
<1>3. CASE ~(d % Week < Workdays)
  <2>1. /\ Opening(d) \in Nat /\ ~Worked(Opening(d)) /\ Opening(d) \div Day = d
    BY <1>3, Openings
  <2>2. NextOpening(Opening(d)) = Opening(d + 1)
    BY <2>1, OpeningNext
  <2>3. from[k + 1][Opening(d)] = from[k][Opening(d + 1)]
    BY <1>1, <2>1, <2>2 DEF Found, Moved
  <2>4. WithinMoves(d + 1, k)
    <3>1. /\ d % Week \in 0 .. (Week - 1)
          /\ (d + 1) % Week = IF d % Week = Week - 1 THEN 0 ELSE (d % Week) + 1
      BY NextDay
    <3>2. Week - (d % Week) < k + 1
      BY <1>3 DEF WithinMoves
    <3>3. QED
      BY <3>1, <3>2, CalendarAssumption DEF WithinMoves
  <2>5. FirstOpen(Opening(d + 1), from[k][Opening(d + 1)])
    BY <2>4 DEF OpeningsFound
  <2>6. QED
    BY <2>1, <2>2, <2>3, <2>5, FirstCarried
<1>4. QED
  BY <1>2, <1>3

\* Seven moves reach an open instant from the opening of any day.
LEMMA SevenMoves ==
  ASSUME NEW from, Found(from)
  PROVE  OpeningsFound(from, 7)
<1>1. OpeningsFound(from, 1)
  <2>1. ASSUME NEW d \in Nat, WithinMoves(d, 1)
        PROVE  FirstOpen(Opening(d), from[1][Opening(d)])
    <3>1. d % Week \in 0 .. (Week - 1)
      BY NextDay
    <3>2. d % Week < Workdays
      BY <2>1, <3>1, CalendarAssumption DEF WithinMoves
    <3>3. QED
      BY <3>2, WorkedFound
  <2>2. QED
    BY <2>1 DEF OpeningsFound
<1>2. \A k \in 1 .. 7 : OpeningsFound(from, k) => OpeningsFound(from, k + 1)
  BY OneMoveMore
<1>3. OpeningsFound(from, 2) /\ OpeningsFound(from, 3) /\ OpeningsFound(from, 4)
  <2>1. OpeningsFound(from, 1 + 1)
    BY <1>1, <1>2
  <2>2. OpeningsFound(from, 2 + 1)
    BY <1>2, <2>1
  <2>3. OpeningsFound(from, 3 + 1)
    BY <1>2, <2>2
  <2>4. QED
    BY <2>1, <2>2, <2>3
<1>4. OpeningsFound(from, 5) /\ OpeningsFound(from, 6) /\ OpeningsFound(from, 7)
  <2>1. OpeningsFound(from, 4 + 1)
    BY <1>2, <1>3
  <2>2. OpeningsFound(from, 5 + 1)
    BY <1>2, <2>1
  <2>3. OpeningsFound(from, 6 + 1)
    BY <1>2, <2>2
  <2>4. QED
    BY <2>1, <2>2, <2>3
<1>5. QED
  BY <1>4

(* next_business_time finds the first instant of the business window that  *)
(* is not before its candidate, whatever the hours and the days off.       *)
LEMMA NextIsFirst ==
  ASSUME NEW t \in Nat
  PROVE  FirstOpen(t, NextBusinessTime(t))
<1>1. PICK from : Found(from) /\ \A u : NextBusinessTime(u) = from[8][u]
  BY MovesDefined
<1>2. NextBusinessTime(t) = Moved(from[7], t)
  BY <1>1 DEF Found
<1>3. t \div Day \in Nat /\ t % Day \in 0 .. (Day - 1) /\ t = (t \div Day) * Day + (t % Day)
  BY Slots
<1>4. CASE ~Worked(t) \/ t % Day >= Close
  <2> DEFINE d == t \div Day
  <2>1. NextBusinessTime(t) = from[7][NextOpening(t)]
    BY <1>2, <1>3, <1>4, CalendarAssumption DEF Moved
  <2>2. NextOpening(t) = Opening(d + 1)
    BY OpeningNext
  <2>3. WithinMoves(d + 1, 7)
    <3>1. /\ d % Week \in 0 .. (Week - 1)
          /\ (d + 1) % Week = IF d % Week = Week - 1 THEN 0 ELSE (d % Week) + 1
      BY <1>3, NextDay
    <3>2. QED
      BY <3>1, CalendarAssumption DEF WithinMoves
  <2>4. FirstOpen(Opening(d + 1), from[7][Opening(d + 1)])
    BY <1>1, <1>3, <2>3, SevenMoves DEF OpeningsFound
  <2>5. QED
    BY <1>4, <2>1, <2>2, <2>4, FirstCarried
<1>5. CASE Worked(t) /\ t % Day < Open
  <2> DEFINE d == t \div Day  r == t % Day
  <2>1. NextBusinessTime(t) = Opening(d)
    BY <1>2, <1>5 DEF Moved, Opening
  <2>2. Opening(d) \in Nat /\ InWindow(Opening(d))
    <3>1. /\ Opening(d) \in Nat /\ Opening(d) % Day = Open
          /\ Worked(Opening(d)) <=> d % Week < Workdays
      BY <1>3, Openings
    <3>2. Worked(Opening(d))
      BY <1>5, <3>1 DEF Worked
    <3>3. QED
      BY <3>1, <3>2, CalendarAssumption DEF InWindow
  <2>3. t <= Opening(d)
    <3>1. d \in Nat /\ r \in Nat /\ r < Open /\ t = d * Day + r
      BY <1>3, <1>5
    <3> HIDE DEF d, r
    <3>2. d * Day \in Nat
      BY <3>1, CalendarAssumption
    <3>3. QED
      BY <3>1, <3>2, CalendarAssumption DEF Opening
  <2>4. ASSUME NEW u \in t .. Opening(d), InWindow(u) PROVE u = Opening(d)
    <3> DEFINE e == u \div Day  s == u % Day
    <3>1. u \in Nat /\ t <= u /\ u <= Opening(d)
      BY <2>2
    <3>2. e \in Nat /\ s \in 0 .. (Day - 1) /\ u = e * Day + s
      BY <3>1, Slots
    <3>3. d <= e /\ e <= Opening(d) \div Day
      BY <2>2, <3>1, DaysGrow
    <3>4. e = d
      BY <1>3, <3>2, <3>3, Openings
    <3>5. s >= Open
      BY <2>4 DEF InWindow
    <3>6. u = d * Day + s /\ s \in Nat
      BY <3>2, <3>4
    <3>7. d * Day \in Nat
      BY <1>3, CalendarAssumption
    <3>8. QED
      <4> HIDE DEF d, s
      <4> QED BY <3>1, <3>5, <3>6, <3>7, CalendarAssumption DEF Opening
  <2>5. QED
    BY <2>1, <2>2, <2>3, <2>4 DEF FirstOpen
<1>6. CASE InWindow(t)
  <2>1. NextBusinessTime(t) = t
    BY <1>2, <1>3, <1>6, CalendarAssumption DEF Moved, InWindow
  <2>2. QED
    BY <1>6, <2>1 DEF FirstOpen
<1>7. QED
  BY <1>3, <1>4, <1>5, <1>6, CalendarAssumption DEF InWindow

\* The next opening of the window is at most a week away.
LEMMA NextWithinWeek ==
  ASSUME NEW t \in Nat
  PROVE  NextBusinessTime(t) <= t + Week * Day
<1> DEFINE n == NextBusinessTime(t)  d == t \div Day  r == t % Day
           q == d \div Week  w == d % Week
<1>1. FirstOpen(t, n)
  BY NextIsFirst
<1>2. d \in Nat /\ r \in 0 .. (Day - 1) /\ t = d * Day + r
  BY Slots
<1>3. Week \in Nat /\ Week > 0 /\ Day \in Nat /\ Open \in Nat /\ Open < Day
  BY CalendarAssumption
<1>4. q \in Nat /\ w \in 0 .. (Week - 1) /\ d = q * Week + w
  <2>1. q \in Nat /\ w \in 0 .. (Week - 1) /\ q = d \div Week /\ w = d % Week
    BY <1>2, <1>3
  <2>2. d = q * Week + w
    <3> HIDE DEF d, q, w
    <3> QED BY <1>2, <1>3, <2>1, SMTT(30)
  <2>3. QED
    BY <2>1, <2>2
<1>5. ASSUME NEW e \in Nat, e % Week = 0, t <= Opening(e)
      PROVE  n <= Opening(e)
  <2>1. Opening(e) \in Nat /\ InWindow(Opening(e))
    <3>1. /\ Opening(e) \in Nat /\ Opening(e) % Day = Open
          /\ Worked(Opening(e))
      BY <1>5, Openings, CalendarAssumption
    <3>2. QED
      BY <3>1, CalendarAssumption DEF InWindow
  <2> HIDE DEF n
  <2>2. CASE n <= Opening(e)
    BY <2>2
  <2>3. CASE Opening(e) < n
    <3>1. Opening(e) \in t .. n
      BY <1>1, <1>5, <2>1, <2>3 DEF FirstOpen
    <3>2. QED
      BY <1>1, <2>1, <3>1 DEF FirstOpen
  <2>4. QED
    BY <1>1, <2>1, <2>2, <2>3 DEF FirstOpen
<1>6. n \in Nat
  BY <1>1 DEF FirstOpen
<1>7. CASE w = 0 /\ r <= Open
  <2>1. d % Week = 0 /\ t <= Opening(d)
    <3> HIDE DEF d, r
    <3>1. d * Day \in Nat
      BY <1>2, <1>3
    <3>2. t <= Opening(d)
      BY <1>2, <1>3, <1>7, <3>1 DEF Opening, r
    <3>3. QED
      BY <1>7, <3>2
  <2>2. n <= Opening(d)
    BY <1>2, <1>5, <2>1
  <2>3. Opening(d) <= t + Week * Day
    <3> HIDE DEF d, r
    <3>1. d * Day \in Nat /\ Day <= Week * Day
      BY <1>2, <1>3
    <3>2. QED
      BY <1>2, <1>3, <3>1 DEF Opening
  <2>4. QED
    <3>1. Opening(d) \in Nat
      BY <1>2, Openings
    <3>2. n <= t + Week * Day
      <4> DEFINE z == Week * Day
      <4>1. z \in Nat /\ Opening(d) <= t + z
        BY <1>3, <2>3
      <4> HIDE DEF n, d, z
      <4>2. n <= t + z
        BY <1>6, <2>2, <3>1, <4>1
      <4>3. QED
        BY <4>2 DEF z
    <3>3. QED
      BY <3>2
<1>8. CASE ~(w = 0 /\ r <= Open)
  <2> DEFINE e == (q + 1) * Week
  <2>1. e \in Nat /\ e % Week = 0 /\ e = d + (Week - w)
    <3>1. e % Week = 0
      <4> DEFINE p == q + 1
      <4>1. p \in Nat /\ e = p * Week
        BY <1>4
      <4>2. (p * Week + 0) % Week = 0
        <5> HIDE DEF p
        <5> QED BY <1>3, <4>1
      <4>3. p * Week + 0 = e
        <5> HIDE DEF p
        <5> QED BY <1>3, <4>1
      <4>4. QED
        <5> HIDE DEF p, e
        <5> QED BY <4>2, <4>3
    <3>2. e \in Nat /\ e = d + (Week - w)
      <4> HIDE DEF q, w, d
      <4> QED BY <1>2, <1>3, <1>4
    <3>3. QED
      BY <3>1, <3>2
  <2> HIDE DEF e, q
  <2>2. e * Day = d * Day + (Week - w) * Day
    <3> HIDE DEF d, w
    <3> QED BY <1>2, <1>3, <1>4, <2>1
  <2>3. /\ (Week - w) * Day \in Nat /\ (Week - w) * Day >= Day
        /\ (Week - w) * Day <= Week * Day
        /\ w # 0 => (Week - w) * Day <= Week * Day - Day
    <3> HIDE DEF w
    <3>1. Week - w >= 1 /\ Week - w <= Week /\ Week - w \in Nat
      BY <1>3, <1>4
    <3> DEFINE k == Week - w
    <3>2. k \in Nat /\ 1 <= k /\ k <= Week /\ (w # 0 => k <= Week - 1)
      BY <1>3, <1>4, <3>1
    <3> HIDE DEF k
    <3>3. k * Day \in Nat /\ Day <= k * Day /\ k * Day <= Week * Day
      BY <1>3, <3>2
    <3>4. w # 0 => k * Day <= (Week - 1) * Day
      BY <1>3, <3>2
    <3>5. (Week - 1) * Day = Week * Day - Day
      BY <1>3
    <3>6. QED
      BY <3>3, <3>4, <3>5 DEF k
  <2>4. d * Day \in Nat /\ e * Day \in Nat /\ Week * Day \in Nat
    <3> HIDE DEF d
    <3> QED BY <1>2, <1>3, <2>1
  <2>5. t <= Opening(e) /\ Opening(e) <= t + Week * Day
    <3> DEFINE x == d * Day  y == (Week - w) * Day  z == Week * Day  v == e * Day
    <3>1. /\ x \in Nat /\ y \in Nat /\ z \in Nat /\ v = x + y /\ Day <= y /\ y <= z
          /\ w # 0 => y <= z - Day
          /\ t = x + r /\ Opening(e) = v + Open
      BY <1>2, <2>2, <2>3, <2>4 DEF Opening
    <3>2. w \in Nat /\ r \in Nat /\ r < Day /\ (w = 0 => r > Open)
      BY <1>2, <1>3, <1>4, <1>8
    <3> HIDE DEF x, y, z, v, w, r
    <3>3. QED
      <4>1. t <= Opening(e) /\ Opening(e) <= t + z
        BY <1>3, <3>1, <3>2
      <4>2. QED
        BY <4>1 DEF z
  <2>6. n <= Opening(e) /\ Opening(e) \in Nat
    BY <1>5, <2>1, <2>5, Openings
  <2>7. QED
    <3>1. n <= t + Week * Day
      <4> HIDE DEF n
      <4> QED BY <1>6, <2>4, <2>5, <2>6
    <3>2. QED
      BY <3>1
<1>9. QED
  BY <1>7, <1>8

-----------------------------------------------------------------------------
(* The rows of the schedule.                                               *)

Longest == Intervals[Len(Intervals)]

\* A step of the cadence is positive and no longer than the last one.
LEMMA StepsTyped ==
  /\ Longest \in Nat /\ Steps # {}
  /\ \A s \in Steps : s \in Nat \ {0} /\ s <= Longest
<1>1. Intervals \in Seq(Nat \ {0}) /\ Intervals # <<>>
  BY ScheduleAssumption
<1>2. Len(Intervals) \in DOMAIN Intervals /\ DOMAIN Intervals = 1 .. Len(Intervals)
  BY <1>1
<1>3. \A i \in DOMAIN Intervals : Intervals[i] \in Nat \ {0}
  BY <1>1
<1>4. ASSUME NEW i \in DOMAIN Intervals PROVE Intervals[i] <= Longest
  <2>1. CASE i = Len(Intervals)
    BY <1>2, <1>3, <2>1 DEF Longest
  <2>2. CASE i # Len(Intervals)
    <3>1. i < Len(Intervals)
      BY <1>1, <1>2, <2>2
    <3>2. Intervals[i] < Intervals[Len(Intervals)]
      BY <1>2, <3>1, ScheduleAssumption
    <3>3. QED
      BY <1>2, <1>3, <3>2 DEF Longest
  <2>3. QED
    BY <2>1, <2>2
<1>5. QED
  BY <1>2, <1>3, <1>4 DEF Steps, Longest

\* How far from now an instant is ever asked for.
Reach == MaxClock + RetryAfter + Longest

\* What the schedule writes is an instant.
LEMMA InstantNext ==
  ASSUME NEW t \in Nat, t <= Reach
  PROVE  NextBusinessTime(t) \in Instant
<1>1. NextBusinessTime(t) \in Nat
  BY NextIsFirst DEF FirstOpen
<1>2. NextBusinessTime(t) <= t + Week * Day
  BY NextWithinWeek
<1>3. Week * Day \in Nat
  BY CalendarAssumption
<1>4. Longest \in Nat /\ MaxClock \in Nat /\ RetryAfter \in Nat
  BY StepsTyped, ScheduleAssumption
<1>5. Horizon = MaxClock + Week * Day + RetryAfter + Longest
  BY DEF Horizon, Longest
<1> DEFINE z == Week * Day
<1>6. NextBusinessTime(t) <= Horizon /\ Horizon \in Nat
  <2>1. z \in Nat /\ NextBusinessTime(t) <= t + z /\ Horizon = MaxClock + z + RetryAfter + Longest
    BY <1>2, <1>3, <1>5
  <2> HIDE DEF z
  <2>2. QED
    BY <1>1, <1>4, <2>1 DEF Reach
<1>7. QED
  BY <1>1, <1>6 DEF Instant

\* Now is an instant, and the asked interval of a row one of the steps.
LEMMA InstantNow ==
  ASSUME clock \in 0 .. MaxClock
  PROVE  clock \in Nat /\ clock \in Instant
<1>1. Horizon = MaxClock + Week * Day + RetryAfter + Longest
  BY DEF Horizon, Longest
<1> DEFINE z == Week * Day
<1>2. z \in Nat /\ Horizon = MaxClock + z + RetryAfter + Longest
  BY <1>1, CalendarAssumption
<1> HIDE DEF z
<1>3. QED
  BY <1>2, StepsTyped, ScheduleAssumption DEF Instant

\* The interval in force is one of the ladder.
LEMMA IntervalTyped ==
  ASSUME NEW r \in Row
  PROVE  Interval(r) \in Steps /\ Interval(r) \in Nat \ {0} /\ Interval(r) <= Longest
<1>1. Interval(r) \in Steps
  BY DEF Interval, Row
<1>2. QED
  BY <1>1, StepsTyped

\* The next wider interval is a step.
LEMMA WiderTyped ==
  ASSUME NEW s \in Steps
  PROVE  Wider(s) \in Steps
<1> DEFINE i == CHOOSE k \in DOMAIN Intervals : Intervals[k] = s
<1>1. \E k \in DOMAIN Intervals : Intervals[k] = s
  BY DEF Steps
<1>2. i \in DOMAIN Intervals /\ DOMAIN Intervals = 1 .. Len(Intervals) /\ Len(Intervals) \in Nat
  BY <1>1, ScheduleAssumption
<1>3. Wider(s) = Intervals[IF i < Len(Intervals) THEN i + 1 ELSE i]
  BY DEF Wider
<1> HIDE DEF i
<1>4. (IF i < Len(Intervals) THEN i + 1 ELSE i) \in DOMAIN Intervals
  BY <1>2
<1>5. QED
  BY <1>3, <1>4 DEF Steps

\* When an account that may be synchronised is due next is a number.
LEMMA DueTyped ==
  ASSUME NEW r \in Row, clock \in 0 .. MaxClock
  PROVE  NextAutoSyncAt(r, clock) \in Nat
<1> DEFINE t == IF r.nextAt # Unset THEN r.nextAt
                ELSE IF r.lastSync = Unset THEN clock
                ELSE IF InWindow(clock) THEN r.lastSync + Interval(r)
                ELSE Later(clock, r.lastSync + Interval(r))
<1>1. clock \in Nat /\ Interval(r) \in Nat
  BY InstantNow, IntervalTyped
<1>2. r.nextAt # Unset => r.nextAt \in Nat
  BY DEF Row, Instant
<1>3. r.lastSync # Unset => r.lastSync \in Nat
  BY DEF Row, Instant
<1>4. t \in Nat
  BY <1>1, <1>2, <1>3 DEF Later
<1>5. NextAutoSyncAt(r, clock) = NextBusinessTime(t)
  BY DEF NextAutoSyncAt
<1>6. QED
  <2> HIDE DEF t
  <2> QED BY <1>4, <1>5, NextIsFirst DEF FirstOpen

\* A cadence that starts afresh leaves a row.
LEMMA Restarted ==
  ASSUME NEW r \in Row, NEW s \in Steps, NEW k \in 0 .. 2
  PROVE  [r EXCEPT !.current = s, !.streak = k] \in Row
<1>1. [r EXCEPT !.current = s] \in Row
  BY DEF Row
<1>2. [[r EXCEPT !.current = s] EXCEPT !.streak = k] \in Row
  BY <1>1 DEF Row
<1>3. [r EXCEPT !.current = s, !.streak = k] = [[r EXCEPT !.current = s] EXCEPT !.streak = k]
  BY Zenon
<1>4. QED
  BY <1>2, <1>3

\* The cadence an execution leaves is a row.
LEMMA CadenceTyped ==
  ASSUME NEW r \in Row, clock \in 0 .. MaxClock, NEW changed, NEW actor
  PROVE  Cadence(r, changed, actor) \in Row
<1> DEFINE kept == IF ~r.adaptive \/ changed THEN [r EXCEPT !.current = r.interval, !.streak = 0]
                   ELSE IF actor # "automatic" THEN r
                   ELSE IF r.streak = 2 THEN [r EXCEPT !.current = Wider(@), !.streak = 0]
                   ELSE [r EXCEPT !.streak = @ + 1]
<1>1. kept \in Row
  <2>1. [r EXCEPT !.current = r.interval, !.streak = 0] \in Row
    <3>1. r.interval \in Steps /\ 0 \in 0 .. 2
      BY DEF Row
    <3>2. QED
      BY <3>1, Restarted
  <2>2. [r EXCEPT !.current = Wider(@), !.streak = 0] \in Row
    <3>1. Wider(r.current) \in Steps /\ 0 \in 0 .. 2
      BY WiderTyped DEF Row
    <3>2. QED
      BY <3>1, Restarted
  <2>3. r.streak # 2 => [r EXCEPT !.streak = @ + 1] \in Row
    BY DEF Row
  <2>4. QED
    BY <2>1, <2>2, <2>3
<1>2. Cadence(r, changed, actor) =
        [kept EXCEPT !.nextAt = NextBusinessTime(clock + Interval(kept)), !.lastSync = clock,
                     !.paused = FALSE]
  BY DEF Cadence
<1> HIDE DEF kept
<1>3. NextBusinessTime(clock + Interval(kept)) \in Instant
  BY <1>1, IntervalTyped, InstantNext, ScheduleAssumption, StepsTyped DEF Reach
<1>4. QED
  BY <1>1, <1>2, <1>3, InstantNow DEF Row

\* Columns written over a row leave a row.
LEMMA OverTyped ==
  ASSUME NEW old \in Row, NEW copy \in Row, NEW new \in Row
  PROVE  Over(old, copy, new) \in Row
BY DEF Over, Row

\* A deferred row, as far as the reach.
LEMMA DeferredTyped ==
  ASSUME NEW r \in Row, NEW t \in Nat, t <= Reach
  PROVE  Deferred(r, t) \in Row
BY InstantNext DEF Deferred, Row

\* A pulse asks no later than before, and in reach.
LEMMA PulsedTyped ==
  ASSUME NEW r \in Row, NEW jitter \in Nat, jitter <= r.interval, clock \in 0 .. MaxClock
  PROVE  /\ Pulsed(r, jitter) \in Row
         /\ r.nextAt # Unset => Pulsed(r, jitter).nextAt <= r.nextAt
<1> DEFINE candidate == NextBusinessTime(clock + jitter)
<1>1. r.interval \in Nat /\ r.interval <= Longest /\ Longest \in Nat
  BY StepsTyped DEF Row
<1>2. candidate \in Instant
  BY <1>1, InstantNext, ScheduleAssumption DEF Reach
<1>3. r.nextAt # Unset => r.nextAt \in Nat
  BY DEF Row, Instant
<1>4. Pulsed(r, jitter) = [r EXCEPT !.current = r.interval, !.streak = 0,
                 !.nextAt = IF @ # Unset /\ @ < candidate THEN @ ELSE candidate]
  BY DEF Pulsed
<1> HIDE DEF candidate
<1>5. candidate \in Nat
  BY <1>2 DEF Instant
<1> DEFINE q == [r EXCEPT !.current = r.interval, !.streak = 0]
           next == IF r.nextAt # Unset /\ r.nextAt < candidate THEN r.nextAt ELSE candidate
<1>6. q \in Row /\ q.nextAt = r.nextAt
  <2>1. r.interval \in Steps /\ 0 \in 0 .. 2
    BY DEF Row
  <2>2. q \in Row
    BY <2>1, Restarted
  <2>3. QED
    BY <2>2 DEF Row
<1>7. Pulsed(r, jitter) = [q EXCEPT !.nextAt = next]
  BY <1>4, Zenon
<1>8. next \in Instant \cup {Unset} /\ (r.nextAt # Unset => next <= r.nextAt)
  BY <1>2, <1>3, <1>5 DEF Row
<1> HIDE DEF q, next
<1>9. [q EXCEPT !.nextAt = next] \in Row /\ [q EXCEPT !.nextAt = next].nextAt = next
  BY <1>6, <1>8 DEF Row
<1>10. QED
  BY <1>7, <1>8, <1>9

-----------------------------------------------------------------------------
(* Whose turn it is.                                                       *)

\* An account that is due is late by a number.
LEMMA LateTyped ==
  ASSUME row \in [Accounts -> Row], clock \in 0 .. MaxClock, NEW a \in Due
  PROVE  a \in Accounts /\ Lateness(a) \in Nat /\ Interval(row[a]) \in Nat \ {0}
<1>1. a \in Accounts /\ row[a] \in Row /\ NextAutoSyncAt(row[a], clock) <= clock
  BY DEF Due, IsDue
<1>2. NextAutoSyncAt(row[a], clock) \in Nat /\ clock \in Nat
  BY <1>1, DueTyped
<1>3. QED
  BY <1>1, <1>2, IntervalTyped DEF Lateness

\* Proportional lateness, then age, orders the due accounts.
LEMMA BeforeOrders ==
  ASSUME row \in [Accounts -> Row], clock \in 0 .. MaxClock,
         NEW a \in Due, NEW b \in Due
  PROVE  a # b => Before(a, b) \/ Before(b, a)
<1> DEFINE la == Lateness(a)  lb == Lateness(b)  ia == Interval(row[a])  ib == Interval(row[b])
<1>1. /\ a \in Accounts /\ b \in Accounts /\ la \in Nat /\ lb \in Nat
      /\ ia \in Nat /\ ib \in Nat
  BY LateTyped
<1>2. la * ib \in Nat /\ lb * ia \in Nat
  <2> HIDE DEF la, lb, ia, ib
  <2> QED BY <1>1
<1>3. Rank[a] \in Nat /\ Rank[b] \in Nat /\ (a # b => Rank[a] # Rank[b])
  BY <1>1, ScheduleAssumption
<1>4. Before(a, b) <=> (la * ib > lb * ia \/ (la * ib = lb * ia /\ Rank[a] < Rank[b]))
  BY DEF Before
<1>5. Before(b, a) <=> (lb * ia > la * ib \/ (lb * ia = la * ib /\ Rank[b] < Rank[a]))
  BY DEF Before
<1> DEFINE x == la * ib  y == lb * ia
<1>6. x \in Nat /\ y \in Nat
  BY <1>2
<1> HIDE DEF x, y
<1>7. a # b => (x > y \/ (x = y /\ Rank[a] < Rank[b])) \/ (y > x \/ (y = x /\ Rank[b] < Rank[a]))
  BY <1>3, <1>6
<1>8. QED
  BY <1>4, <1>5, <1>7 DEF x, y

\* Fractions with positive denominators: what a product says of the next.
LEMMA ProductsCarry ==
  ASSUME NEW la \in Nat, NEW lb \in Nat, NEW lc \in Nat,
         NEW ia \in Nat \ {0}, NEW ib \in Nat \ {0}, NEW ic \in Nat \ {0},
         la * ib >= lb * ia, lb * ic >= lc * ib
  PROVE  /\ la * ic >= lc * ia
         /\ la * ic = lc * ia => la * ib = lb * ia /\ lb * ic = lc * ib
<1>1. (la * ib) * ic >= (lb * ia) * ic /\ (lb * ic) * ia >= (lc * ib) * ia
  <2>1. \A x, y \in Nat, z \in Nat : x >= y => x * z >= y * z
    OBVIOUS
  <2>2. la * ib \in Nat /\ lb * ia \in Nat /\ lb * ic \in Nat /\ lc * ib \in Nat
    OBVIOUS
  <2>3. QED
    BY <2>1, <2>2
<1>2. /\ (la * ib) * ic = (la * ic) * ib /\ (lb * ia) * ic = (lb * ic) * ia
      /\ (lc * ib) * ia = (lc * ia) * ib
  OBVIOUS
<1>3. la * ic \in Nat /\ lc * ia \in Nat /\ la * ib \in Nat /\ lb * ia \in Nat
      /\ lb * ic \in Nat /\ lc * ib \in Nat
  OBVIOUS
<1>4. (la * ic) * ib >= (lc * ia) * ib
  BY <1>1, <1>2, <1>3
<1>5. \A x, y \in Nat, z \in Nat \ {0} : /\ x * z >= y * z => x >= y
                                         /\ x * z = y * z => x = y
  OBVIOUS
<1>6. la * ic >= lc * ia
  BY <1>3, <1>4, <1>5
<1>7. ASSUME la * ic = lc * ia
      PROVE  la * ib = lb * ia /\ lb * ic = lc * ib
  <2>1. (la * ic) * ib = (lc * ia) * ib
    BY <1>7
  <2>2. (la * ib) * ic = (lb * ia) * ic /\ (lb * ic) * ia = (lc * ib) * ia
    BY <1>1, <1>2, <1>3, <2>1
  <2>3. QED
    BY <1>3, <1>5, <2>2
<1>8. QED
  BY <1>6, <1>7

\* Who precedes one that precedes a third precedes the third.
LEMMA BeforeCarries ==
  ASSUME row \in [Accounts -> Row], clock \in 0 .. MaxClock,
         NEW a \in Due, NEW b \in Due, NEW c \in Due, Before(a, b), Before(b, c)
  PROVE  Before(a, c)
<1> DEFINE la == Lateness(a)  lb == Lateness(b)  lc == Lateness(c)
           ia == Interval(row[a])  ib == Interval(row[b])  ic == Interval(row[c])
<1>1. /\ a \in Accounts /\ b \in Accounts /\ c \in Accounts
      /\ la \in Nat /\ lb \in Nat /\ lc \in Nat
      /\ ia \in Nat \ {0} /\ ib \in Nat \ {0} /\ ic \in Nat \ {0}
  BY LateTyped
<1>2. Rank[a] \in Nat /\ Rank[b] \in Nat /\ Rank[c] \in Nat
  BY <1>1, ScheduleAssumption
<1>3. /\ la * ib > lb * ia \/ (la * ib = lb * ia /\ Rank[a] < Rank[b])
      /\ lb * ic > lc * ib \/ (lb * ic = lc * ib /\ Rank[b] < Rank[c])
  BY DEF Before
<1>4. la * ic > lc * ia \/ (la * ic = lc * ia /\ Rank[a] < Rank[c])
  <2> HIDE DEF la, lb, lc, ia, ib, ic
  <2>1. /\ la * ib \in Nat /\ lb * ia \in Nat /\ lb * ic \in Nat /\ lc * ib \in Nat
        /\ la * ic \in Nat /\ lc * ia \in Nat
    BY <1>1
  <2>2. la * ib >= lb * ia /\ lb * ic >= lc * ib
    BY <1>3, <2>1
  <2>3. /\ la * ic >= lc * ia
        /\ la * ic = lc * ia => la * ib = lb * ia /\ lb * ic = lc * ib
    BY <1>1, <2>2, ProductsCarry
  <2>4. QED
    BY <1>2, <1>3, <2>1, <2>3
<1>5. QED
  BY <1>4 DEF Before

\* Of the accounts that are due, one comes before all the others.
LEMMA FirstComes ==
  ASSUME row \in [Accounts -> Row], clock \in 0 .. MaxClock,
         NEW S \in SUBSET Due, S # {}
  PROVE  First(S) \in S /\ \A b \in S \ {First(S)} : Before(First(S), b)
<1> DEFINE Led(T) == \E a \in T : \A b \in T \ {a} : Before(a, b)
           bad == {n \in Nat : \E T \in SUBSET Due : T # {} /\ Cardinality(T) = n /\ ~Led(T)}
<1>1. \A T \in SUBSET Due : IsFiniteSet(T) /\ Cardinality(T) \in Nat
  <2>1. \A T \in SUBSET Due : T \subseteq Accounts
    BY DEF Due
  <2>2. QED
    BY <2>1, FS_Subset, FS_CardinalityType, ScheduleAssumption
<1>2. bad = {}
  <2> SUFFICES ASSUME bad # {} PROVE FALSE
    OBVIOUS
  <2>1. PICK n \in bad : \A m \in bad : n <= m
    <3>1. bad \subseteq Nat
      OBVIOUS
    <3>2. QED
      <4> HIDE DEF bad
      <4> QED BY <3>1, LeastNumber
  <2>2. PICK T \in SUBSET Due : T # {} /\ Cardinality(T) = n /\ ~Led(T)
    BY <2>1
  <2>3. PICK x \in T : TRUE
    BY <2>2
  <2>4. Cardinality(T \ {x}) = n - 1 /\ n \in Nat /\ T \ {x} \in SUBSET Due
    BY <1>1, <2>2, <2>3, FS_RemoveElement
  <2>5. CASE T \ {x} = {}
    <3>1. \A b \in T \ {x} : Before(x, b)
      BY <2>5
    <3>2. Led(T)
      BY <2>3, <3>1
    <3>3. QED
      BY <2>2, <3>2
  <2>6. CASE T \ {x} # {}
    <3>1. Led(T \ {x})
      <4> SUFFICES ASSUME ~Led(T \ {x}) PROVE FALSE
        OBVIOUS
      <4>1. n - 1 \in Nat
        BY <1>1, <2>4
      <4>2. n - 1 \in bad
        <5> HIDE DEF Led
        <5> QED BY <2>4, <2>6, <4>1
      <4>3. QED
        <5> HIDE DEF bad
        <5> QED BY <2>1, <2>4, <4>2
    <3>2. PICK a \in T \ {x} : \A b \in (T \ {x}) \ {a} : Before(a, b)
      BY <3>1
    <3>3. Before(a, x) \/ Before(x, a)
      BY <2>2, <2>3, <3>2, BeforeOrders
    <3>4. CASE Before(a, x)
      <4>1. \A b \in T \ {a} : Before(a, b)
        BY <3>2, <3>4
      <4>2. QED
        BY <2>2, <3>2, <4>1
    <3>5. CASE Before(x, a)
      <4>1. ASSUME NEW b \in T \ {x} PROVE Before(x, b)
        <5>1. CASE b = a
          BY <3>5, <5>1
        <5>2. CASE b # a
          <6>1. Before(a, b)
            BY <3>2, <4>1, <5>2
          <6>2. QED
            BY <2>2, <2>3, <3>2, <3>5, <4>1, <6>1, BeforeCarries
        <5>3. QED
          BY <5>1, <5>2
      <4>2. QED
        BY <2>2, <2>3, <4>1
    <3>6. QED
      BY <3>3, <3>4, <3>5
  <2>7. QED
    BY <2>5, <2>6
<1>3. Led(S)
  <2> SUFFICES ASSUME ~Led(S) PROVE FALSE
    OBVIOUS
  <2>1. Cardinality(S) \in bad
    <3> HIDE DEF Led
    <3> QED BY <1>1
  <2>2. QED
    BY <1>2, <2>1
<1>4. QED
  BY <1>3 DEF First

(* The scheduler serves an account that is due; while others are due, it   *)
(* is not the one it served last.                                          *)
LEMMA TurnTaken ==
  ASSUME row \in [Accounts -> Row], clock \in 0 .. MaxClock, Due # {}
  PROVE  /\ Turn(Due) \in Due
         /\ \A a \in Due : a # Turn(Due) => Turn(Due) # lastServed
<1>1. Due \in SUBSET Due /\ First(Due) \in Due
  BY FirstComes
<1>2. IsFiniteSet(Due) /\ Cardinality(Due) \in Nat
  <2>1. Due \subseteq Accounts
    BY DEF Due
  <2>2. QED
    BY <2>1, FS_Subset, FS_CardinalityType, ScheduleAssumption
<1>3. CASE Cardinality(Due) > 1 /\ First(Due) = lastServed
  <2>1. Due \ {lastServed} # {}
    <3> SUFFICES ASSUME Due \ {lastServed} = {} PROVE FALSE
      OBVIOUS
    <3>1. Due = {lastServed}
      BY <1>1, <1>3
    <3>2. Cardinality({lastServed}) = 1
      BY FS_Singleton
    <3>3. QED
      BY <1>3, <3>1, <3>2
  <2>2. First(Due \ {lastServed}) \in Due \ {lastServed}
    <3>1. Due \ {lastServed} \in SUBSET Due
      OBVIOUS
    <3>2. QED
      BY <2>1, <3>1, FirstComes
  <2>3. Turn(Due) = First(Due \ {lastServed})
    BY <1>3 DEF Turn
  <2>4. QED
    BY <2>2, <2>3
<1>4. CASE ~(Cardinality(Due) > 1 /\ First(Due) = lastServed)
  <2>1. Turn(Due) = First(Due)
    BY <1>4 DEF Turn
  <2>2. ASSUME NEW a \in Due, a # First(Due) PROVE Cardinality(Due) > 1
    <3>1. {a, First(Due)} \subseteq Due /\ Cardinality({a, First(Due)}) = 2
      <4>1. IsFiniteSet({First(Due)}) /\ Cardinality({First(Due)}) = 1
        BY FS_Singleton
      <4>2. a \notin {First(Due)}
        BY <2>2
      <4>3. Cardinality({First(Due)} \cup {a}) = 1 + 1
        BY <4>1, <4>2, FS_AddElement
      <4>4. {First(Due)} \cup {a} = {a, First(Due)}
        OBVIOUS
      <4>5. QED
        BY <1>1, <4>3, <4>4
    <3>2. Cardinality({a, First(Due)}) <= Cardinality(Due)
      BY <1>2, <3>1, FS_Subset
    <3>3. QED
      BY <1>2, <3>1, <3>2
  <2>3. QED
    BY <1>1, <1>4, <2>1, <2>2
<1>5. QED
  BY <1>3, <1>4

-----------------------------------------------------------------------------
(* What holds of the schedule.                                             *)

Actors == {"automatic", "owner"}
Asked == {NoRequest} \cup [phase : {"queued"}, actor : Actors]
           \cup [phase : {"running"}, actor : Actors, copy : Row]

(* The inductive invariant: an execution works from a row, and who has     *)
(* just been picked has not been passed over.                              *)
ScheduleInv ==
  /\ TypeOK
  /\ request \in [Accounts -> Asked]
  /\ picked # Nobody => passedOver[picked] = 0

(* Of two accounts, one is passed over for the other, the one served last  *)
(* or the one picked and not noted yet, or for each crash of the scheduler *)
(* before it noted.                                                        *)
OtherServed(a) == \E b \in Accounts \ {a} : lastServed = b \/ picked = b
TurnsInv ==
  \A a \in Accounts : passedOver[a] <= crashes + (IF OtherServed(a) THEN 1 ELSE 0)

TwoAccounts == \A a, b, c \in Accounts : a = b \/ b = c \/ a = c

\* Before the first synchronisation.
LEMMA ScheduleInit ==
  Init => ScheduleInv /\ TurnsInv
<1> SUFFICES ASSUME Init PROVE ScheduleInv /\ TurnsInv
  OBVIOUS
<1>1. clock \in 0 .. MaxClock /\ changes \in 0 .. MaxEvents /\ crashes \in 0 .. MaxEvents
  BY ScheduleAssumption DEF Init
<1>2. row \in [Accounts -> Row]
  <2>1. Intervals[1] \in Steps
    <3>1. 1 \in DOMAIN Intervals
      BY ScheduleAssumption
    <3>2. QED
      BY <3>1 DEF Steps
  <2>2. QED
    BY <2>1 DEF Init, Row
<1>3. request \in [Accounts -> Asked] /\ \A a \in Accounts : request[a].phase = "none"
  BY DEF Init, Asked, NoRequest
<1>4. /\ lastServed = Nobody /\ picked = Nobody /\ pulseAt = Unset
      /\ passedOver = [a \in Accounts |-> 0] /\ crashes = 0
  BY DEF Init
<1>5. ScheduleInv
  BY <1>1, <1>2, <1>3, <1>4 DEF ScheduleInv, TypeOK
<1>6. TurnsInv
  BY <1>4, ScheduleAssumption DEF TurnsInv
<1>7. QED
  BY <1>5, <1>6

\* A request of an account that runs holds a row.
LEMMA RunningHolds ==
  ASSUME ScheduleInv, NEW a \in Accounts, request[a].phase = "running"
  PROVE  request[a].copy \in Row
<1>1. request[a] \in Asked
  BY DEF ScheduleInv
<1>2. request[a] \in [phase : {"running"}, actor : Actors, copy : Row]
  BY <1>1 DEF Asked, NoRequest
<1>3. QED
  BY <1>2

(* What is left to show of a step that has shown its rows and requests.    *)
LEMMA RowsLeft ==
  ASSUME ScheduleInv, row' \in [Accounts -> Row], request' \in [Accounts -> Asked],
         clock' \in 0 .. MaxClock, changes' \in 0 .. MaxEvents, crashes' = crashes,
         pulseAt' \in 0 .. MaxClock \cup {Unset},
         UNCHANGED <<lastServed, picked, passedOver>>
  PROVE  ScheduleInv'
<1>1. \A a \in Accounts : request'[a].phase \in {"none", "queued", "running"}
  <2>1. \A q \in Asked : q.phase \in {"none", "queued", "running"}
    BY DEF Asked, NoRequest
  <2>2. QED
    BY <2>1
<1>2. QED
  BY <1>1 DEF ScheduleInv, TypeOK

\* What the invariant says of each variable.
LEMMA ScheduleTypes ==
  ASSUME ScheduleInv
  PROVE  /\ clock \in 0 .. MaxClock /\ clock \in Nat /\ row \in [Accounts -> Row]
         /\ request \in [Accounts -> Asked] /\ pulseAt \in 0 .. MaxClock \cup {Unset}
         /\ changes \in 0 .. MaxEvents /\ crashes \in 0 .. MaxEvents
         /\ lastServed \in Accounts \cup {Nobody} /\ picked \in Accounts \cup {Nobody}
         /\ passedOver \in [Accounts -> Nat] /\ NoRequest \in Asked
BY ScheduleAssumption DEF ScheduleInv, TypeOK, Asked

\* A success writes its row, and pulls the cohort forward when it found a change.
LEMMA SucceedKeeps ==
  ASSUME ScheduleInv, NEW a \in Accounts, NEW changed \in BOOLEAN, Succeed(a, changed)
  PROVE  /\ ScheduleInv'
         /\ \A b \in Accounts \ {a} : row[b].nextAt # Unset => row'[b].nextAt <= row[b].nextAt
<1>1. PICK jitter \in [Accounts \ {a} -> Jitters] :
          /\ \A b \in Accounts \ {a} : jitter[b] <= row[b].interval
          /\ row' = [b \in Accounts |->
                CASE b = a -> Over(row[a], request[a].copy,
                                   Cadence(request[a].copy, changed, request[a].actor))
                  [] b # a /\ Pulses(changed) /\ Follows(row[b]) -> Pulsed(row[b], jitter[b])
                  [] OTHER -> row[b]]
  BY DEF Succeed
<1>2. /\ clock \in 0 .. MaxClock /\ row \in [Accounts -> Row] /\ request \in [Accounts -> Asked]
      /\ pulseAt \in 0 .. MaxClock \cup {Unset} /\ NoRequest \in Asked
      /\ changes \in 0 .. MaxEvents
  BY ScheduleTypes
<1>3. ASSUME NEW b \in Accounts \ {a}
      PROVE  row'[b] \in Row /\ (row[b].nextAt # Unset => row'[b].nextAt <= row[b].nextAt)
  <2>1. row[b] \in Row /\ jitter[b] \in Nat /\ jitter[b] <= row[b].interval
    BY <1>1, <1>2, ScheduleAssumption
  <2>2. CASE Pulses(changed) /\ Follows(row[b])
    <3>1. row'[b] = Pulsed(row[b], jitter[b])
      BY <1>1, <2>2
    <3>2. QED
      BY <1>2, <2>1, <3>1, PulsedTyped
  <2>3. CASE ~(Pulses(changed) /\ Follows(row[b]))
    <3>1. row'[b] = row[b]
      BY <1>1, <2>3
    <3>2. row[b].nextAt # Unset => row[b].nextAt \in Nat
      BY <2>1 DEF Row, Instant
    <3>3. QED
      BY <2>1, <3>1, <3>2
  <2>4. QED
    BY <2>2, <2>3
<1>4. row'[a] \in Row
  <2>1. request[a].copy \in Row
    BY RunningHolds DEF Succeed
  <2>2. row'[a] = Over(row[a], request[a].copy,
                       Cadence(request[a].copy, changed, request[a].actor))
    BY <1>1
  <2>3. QED
    BY <1>2, <2>1, <2>2, CadenceTyped, OverTyped
<1>5. row' \in [Accounts -> Row]
  <2>1. \A b \in Accounts : row'[b] \in Row
    BY <1>3, <1>4
  <2>2. row' = [b \in Accounts |-> row'[b]]
    BY <1>1
  <2>3. QED
    BY <2>1, <2>2
<1>6. request' \in [Accounts -> Asked]
  BY <1>2 DEF Succeed
<1>7. pulseAt' \in 0 .. MaxClock \cup {Unset}
  BY <1>2 DEF Succeed
<1>8. ScheduleInv'
  BY <1>2, <1>5, <1>6, <1>7, RowsLeft DEF Succeed
<1>9. QED
  BY <1>3, <1>8

\* A failure pauses its row or dates it again.
LEMMA FailKeeps ==
  ASSUME ScheduleInv, NEW a \in Accounts, NEW unusable \in BOOLEAN, Fail(a, unusable)
  PROVE  ScheduleInv'
<1> DEFINE failed == [row[a] EXCEPT !.lastSync = clock]
           candidate == clock + (Interval(row[a]) + 3) \div 4
           new == IF unusable THEN [failed EXCEPT !.paused = TRUE, !.nextAt = Unset]
                  ELSE IF request[a].actor = "automatic" THEN Deferred(failed, candidate)
                  ELSE failed
<1>1. /\ clock \in 0 .. MaxClock /\ row \in [Accounts -> Row] /\ request \in [Accounts -> Asked]
      /\ pulseAt \in 0 .. MaxClock \cup {Unset} /\ NoRequest \in Asked
      /\ changes \in 0 .. MaxEvents
  BY ScheduleTypes
<1>2. row' = [row EXCEPT ![a] = new] /\ request' = [request EXCEPT ![a] = NoRequest]
  BY DEF Fail
<1>3. row[a] \in Row /\ clock \in Instant /\ clock \in Nat
  BY <1>1, InstantNow
<1>4. failed \in Row
  BY <1>3 DEF Row
<1>5. candidate \in Nat /\ candidate <= Reach
  <2> DEFINE i == Interval(row[a])
  <2>1. i \in Nat \ {0} /\ i <= Longest /\ Longest \in Nat
    BY <1>3, IntervalTyped, StepsTyped
  <2> HIDE DEF i
  <2>2. (i + 3) \div 4 \in Nat /\ (i + 3) \div 4 <= i
    BY <2>1
  <2>3. clock + (i + 3) \div 4 \in Nat /\ clock + (i + 3) \div 4 <= Reach
    BY <1>1, <1>3, <2>1, <2>2, ScheduleAssumption DEF Reach
  <2>4. QED
    BY <2>3 DEF i
<1>6. [failed EXCEPT !.paused = TRUE, !.nextAt = Unset] \in Row
  <2> HIDE DEF failed
  <2> QED BY <1>4 DEF Row
<1>7. new \in Row
  <2> HIDE DEF failed, candidate
  <2> QED BY <1>4, <1>5, <1>6, DeferredTyped
<1> HIDE DEF new
<1>8. row' \in [Accounts -> Row] /\ request' \in [Accounts -> Asked]
  BY <1>1, <1>2, <1>7
<1>9. QED
  BY <1>1, <1>8, RowsLeft DEF Fail

\* A deferral dates its row again.
LEMMA DeferKeeps ==
  ASSUME ScheduleInv, NEW a \in Accounts, Defer(a)
  PROVE  ScheduleInv'
<1>1. /\ clock \in 0 .. MaxClock /\ row \in [Accounts -> Row] /\ request \in [Accounts -> Asked]
      /\ pulseAt \in 0 .. MaxClock \cup {Unset} /\ NoRequest \in Asked
      /\ changes \in 0 .. MaxEvents
  BY ScheduleTypes
<1>2. PICK wait \in 1 .. RetryAfter :
          row' = [row EXCEPT ![a] = IF request[a].actor = "automatic"
                                    THEN Deferred(row[a], clock + wait) ELSE row[a]]
  BY DEF Defer
<1>3. clock + wait \in Nat /\ clock + wait <= Reach
  BY <1>1, <1>2, StepsTyped, ScheduleAssumption DEF Reach
<1>4. row[a] \in Row /\ Deferred(row[a], clock + wait) \in Row
  BY <1>1, <1>3, DeferredTyped
<1>5. row' \in [Accounts -> Row]
  BY <1>1, <1>2, <1>4
<1>6. request' \in [Accounts -> Asked]
  BY <1>1 DEF Defer
<1>7. QED
  BY <1>1, <1>5, <1>6, RowsLeft DEF Defer

\* The owner chooses, and is counted.
LEMMA PreferKeeps ==
  ASSUME ScheduleInv, NEW a \in Accounts, NEW e \in BOOLEAN, NEW d \in BOOLEAN, NEW i \in Steps,
         Prefer(a, e, d, i)
  PROVE  ScheduleInv' /\ changes' # changes
<1>1. /\ clock \in 0 .. MaxClock /\ row \in [Accounts -> Row] /\ request \in [Accounts -> Asked]
      /\ pulseAt \in 0 .. MaxClock \cup {Unset}
      /\ changes \in 0 .. MaxEvents /\ crashes \in 0 .. MaxEvents
  BY ScheduleTypes
<1> DEFINE new == [row[a] EXCEPT !.enabled = e, !.adaptive = d, !.interval = i,
                    !.current = i, !.streak = 0, !.nextAt = Unset, !.paused = FALSE]
<1>2. row' = [row EXCEPT ![a] = new]
  BY DEF Prefer
<1>3. new \in Row
  <2>1. row[a] \in Row
    BY <1>1
  <2> DEFINE q1 == [row[a] EXCEPT !.enabled = e]
             q2 == [q1 EXCEPT !.adaptive = d]
             q3 == [q2 EXCEPT !.interval = i]
             q4 == [q3 EXCEPT !.current = i, !.streak = 0]
             q5 == [q4 EXCEPT !.nextAt = Unset]
  <2>2. q1 \in Row
    BY <2>1 DEF Row
  <2>3. q2 \in Row
    <3> HIDE DEF q1
    <3> QED BY <2>2 DEF Row
  <2>4. q3 \in Row
    <3> HIDE DEF q2
    <3> QED BY <2>3 DEF Row
  <2>5. q4 \in Row
    <3> HIDE DEF q3
    <3>1. 0 \in 0 .. 2
      OBVIOUS
    <3>2. QED
      BY <2>4, <3>1, Restarted
  <2>6. q5 \in Row
    <3> HIDE DEF q4
    <3> QED BY <2>5 DEF Row
  <2>7. [q5 EXCEPT !.paused = FALSE] \in Row
    <3> HIDE DEF q5
    <3> QED BY <2>6 DEF Row
  <2>8. new = [q5 EXCEPT !.paused = FALSE]
    BY Zenon
  <2>9. QED
    BY <2>7, <2>8
<1> HIDE DEF new
<1>4. row' \in [Accounts -> Row]
  BY <1>1, <1>2, <1>3
<1>5. changes' \in 0 .. MaxEvents /\ changes' # changes
  BY <1>1, ScheduleAssumption DEF Prefer
<1>6. QED
  BY <1>1, <1>4, <1>5, RowsLeft DEF Prefer

\* A manual request leaves the rows.
LEMMA AskKeeps ==
  ASSUME ScheduleInv, NEW a \in Accounts, Ask(a)
  PROVE  ScheduleInv'
<1>1. /\ clock \in 0 .. MaxClock /\ row \in [Accounts -> Row] /\ request \in [Accounts -> Asked]
      /\ pulseAt \in 0 .. MaxClock \cup {Unset}
      /\ changes \in 0 .. MaxEvents /\ crashes \in 0 .. MaxEvents
  BY ScheduleTypes
<1>2. [phase |-> "queued", actor |-> "owner"] \in Asked
  BY DEF Asked, Actors
<1>3. request' \in [Accounts -> Asked] /\ row' \in [Accounts -> Row]
  BY <1>1, <1>2 DEF Ask
<1>4. changes' \in 0 .. MaxEvents
  BY <1>1, ScheduleAssumption DEF Ask
<1>5. QED
  BY <1>1, <1>3, <1>4, RowsLeft DEF Ask

\* An execution starts from the row it was asked for.
LEMMA StartKeeps ==
  ASSUME ScheduleInv, NEW a \in Accounts, Start(a)
  PROVE  ScheduleInv'
<1>1. /\ clock \in 0 .. MaxClock /\ row \in [Accounts -> Row] /\ request \in [Accounts -> Asked]
      /\ pulseAt \in 0 .. MaxClock \cup {Unset} /\ NoRequest \in Asked
      /\ changes \in 0 .. MaxEvents
  BY ScheduleTypes
<1>2. request[a] \in Asked /\ request[a].phase = "queued" /\ row[a] \in Row
  BY <1>1 DEF Start
<1>3. request[a].actor \in Actors
  BY <1>2 DEF Asked, NoRequest
<1> DEFINE new == IF request[a].actor = "automatic" /\ ~IsDue(a) THEN NoRequest
                  ELSE [phase |-> "running", actor |-> request[a].actor, copy |-> row[a]]
<1>4. new \in Asked
  BY <1>1, <1>2, <1>3 DEF Asked
<1>5. request' = [request EXCEPT ![a] = new]
  BY DEF Start
<1> HIDE DEF new
<1>6. request' \in [Accounts -> Asked] /\ row' \in [Accounts -> Row]
  BY <1>1, <1>4, <1>5 DEF Start
<1>7. QED
  BY <1>1, <1>6, RowsLeft DEF Start

\* The scheduler picks among those due.
LEMMA PickKeeps ==
  ASSUME ScheduleInv, Pick
  PROVE  ScheduleInv'
<1>1. /\ clock \in 0 .. MaxClock /\ row \in [Accounts -> Row] /\ request \in [Accounts -> Asked]
      /\ pulseAt \in 0 .. MaxClock \cup {Unset} /\ passedOver \in [Accounts -> Nat]
      /\ changes \in 0 .. MaxEvents /\ crashes \in 0 .. MaxEvents
      /\ lastServed \in Accounts \cup {Nobody}
  BY ScheduleTypes
<1> DEFINE a == Turn(Due)
<1>2. a \in Due /\ a \in Accounts
  BY <1>1, TurnTaken DEF Pick, Due
<1> HIDE DEF a
<1>3. /\ picked' = a
      /\ request' = IF request[a].phase = "none"
                    THEN [request EXCEPT ![a] = [phase |-> "queued", actor |-> "automatic"]]
                    ELSE request
      /\ passedOver' = [b \in Accounts |-> IF b = a \/ b \notin Due THEN 0 ELSE passedOver[b] + 1]
  BY DEF Pick, a
<1>4. [phase |-> "queued", actor |-> "automatic"] \in Asked
  BY DEF Asked, Actors
<1>5. request' \in [Accounts -> Asked]
  BY <1>1, <1>2, <1>3, <1>4
<1>6. \A b \in Accounts : request'[b].phase \in {"none", "queued", "running"}
  <2>1. \A q \in Asked : q.phase \in {"none", "queued", "running"}
    BY DEF Asked, NoRequest
  <2>2. QED
    BY <1>5, <2>1
<1>7. passedOver' \in [Accounts -> Nat] /\ passedOver'[a] = 0
  BY <1>1, <1>2, <1>3
<1>8. QED
  BY <1>1, <1>2, <1>3, <1>5, <1>6, <1>7 DEF Pick, ScheduleInv, TypeOK

\* Every step keeps the invariant.
LEMMA ScheduleStep ==
  ScheduleInv /\ [Next]_scheduleVars => ScheduleInv'
<1> SUFFICES ASSUME ScheduleInv, [Next]_scheduleVars PROVE ScheduleInv'
  OBVIOUS
<1>1. CASE Pick
  BY <1>1, PickKeeps
<1>2. CASE Note
  BY <1>2, ScheduleAssumption DEF Note, ScheduleInv, TypeOK
<1>3. CASE SchedulerCrash
  <2>1. crashes' \in 0 .. MaxEvents /\ picked' = Nobody
    BY <1>3, ScheduleAssumption DEF SchedulerCrash, ScheduleInv, TypeOK
  <2>2. QED
    BY <1>3, <2>1 DEF SchedulerCrash, ScheduleInv, TypeOK
<1>4. CASE Tick
  <2>1. clock' \in 0 .. MaxClock
    BY <1>4, ScheduleAssumption DEF Tick, ScheduleInv, TypeOK
  <2>2. QED
    BY <1>4, <2>1 DEF Tick, ScheduleInv, TypeOK
<1>5. CASE \E a \in Accounts : Ask(a) \/ Start(a) \/ Defer(a)
  BY <1>5, AskKeeps, StartKeeps, DeferKeeps
<1>6. CASE \E a \in Accounts, b \in BOOLEAN : Succeed(a, b) \/ Fail(a, b)
  BY <1>6, SucceedKeeps, FailKeeps
<1>7. CASE \E a \in Accounts, e, d \in BOOLEAN, i \in Steps : Prefer(a, e, d, i)
  BY <1>7, PreferKeeps
<1>8. CASE UNCHANGED scheduleVars
  BY <1>8 DEF scheduleVars, ScheduleInv, TypeOK
<1>9. QED
  BY <1>1, <1>2, <1>3, <1>4, <1>5, <1>6, <1>7, <1>8 DEF Next

-----------------------------------------------------------------------------
(* Turns.                                                                  *)

\* Who is picked has waited its turn; the other of the two has been passed over once more.
LEMMA PickTurns ==
  ASSUME TwoAccounts, ScheduleInv, TurnsInv, Pick
  PROVE  TurnsInv'
<1>1. /\ clock \in 0 .. MaxClock /\ row \in [Accounts -> Row] /\ passedOver \in [Accounts -> Nat]
      /\ crashes \in Nat /\ lastServed \in Accounts \cup {Nobody}
  BY ScheduleTypes
<1> DEFINE x == Turn(Due)
<1>2. x \in Due /\ x \in Accounts /\ \A a \in Due : a # x => x # lastServed
  BY <1>1, TurnTaken DEF Pick, Due
<1> HIDE DEF x
<1>3. /\ picked' = x /\ picked = Nobody /\ lastServed' = lastServed /\ crashes' = crashes
      /\ passedOver' = [b \in Accounts |-> IF b = x \/ b \notin Due THEN 0 ELSE passedOver[b] + 1]
  BY DEF Pick, x
<1>4. ASSUME NEW a \in Accounts
      PROVE  passedOver'[a] <= crashes' + (IF OtherServed(a)' THEN 1 ELSE 0)
  <2>1. CASE a = x \/ a \notin Due
    BY <1>1, <1>3, <2>1
  <2>2. CASE a # x /\ a \in Due
    <3>1. passedOver'[a] = passedOver[a] + 1
      BY <1>3, <2>2
    <3>2. OtherServed(a)'
      BY <1>2, <1>3, <2>2 DEF OtherServed
    <3>3. ~OtherServed(a)
      <4>1. \A b \in Accounts \ {a} : b = x
        BY <1>2, <2>2 DEF TwoAccounts
      <4>2. QED
        BY <1>2, <1>3, <2>2, <4>1, ScheduleAssumption DEF OtherServed
    <3>4. passedOver[a] <= crashes
      BY <1>1, <3>3 DEF TurnsInv
    <3>5. QED
      BY <1>1, <1>3, <3>1, <3>2, <3>4
  <2>3. QED
    BY <2>1, <2>2
<1>5. QED
  BY <1>4 DEF TurnsInv

\* Once noted, who was served can be passed over for the other.
LEMMA NoteTurns ==
  ASSUME TwoAccounts, ScheduleInv, TurnsInv, Note
  PROVE  TurnsInv'
<1>1. /\ passedOver \in [Accounts -> Nat] /\ crashes \in Nat
      /\ picked \in Accounts \cup {Nobody} /\ picked # Nobody
  BY ScheduleTypes DEF Note
<1>2. passedOver[picked] = 0
  BY <1>1 DEF ScheduleInv
<1>3. ASSUME NEW a \in Accounts
      PROVE  passedOver[a] <= crashes + (IF OtherServed(a)' THEN 1 ELSE 0)
  <2>1. CASE a = picked
    BY <1>1, <1>2, <2>1
  <2>2. CASE a # picked
    <3>1. OtherServed(a)'
      BY <1>1, <2>2 DEF Note, OtherServed
    <3>2. passedOver[a] <= crashes + (IF OtherServed(a) THEN 1 ELSE 0)
      BY DEF TurnsInv
    <3>3. QED
      BY <1>1, <3>1, <3>2
  <2>3. QED
    BY <2>1, <2>2
<1>4. QED
  BY <1>3 DEF TurnsInv, Note

\* A scheduler that crashed before it noted may serve the same one again.
LEMMA CrashTurns ==
  ASSUME ScheduleInv, TurnsInv, SchedulerCrash
  PROVE  TurnsInv'
<1>1. passedOver \in [Accounts -> Nat] /\ crashes \in Nat
  BY ScheduleTypes
<1>2. crashes' = crashes + 1 /\ passedOver' = passedOver
  BY DEF SchedulerCrash
<1>3. \A a \in Accounts : passedOver[a] <= crashes + (IF OtherServed(a) THEN 1 ELSE 0)
  BY DEF TurnsInv
<1>4. QED
  BY <1>1, <1>2, <1>3 DEF TurnsInv

\* What the other steps leave.
LEMMA OtherTurns ==
  ASSUME TurnsInv, UNCHANGED <<passedOver, crashes, lastServed, picked>>
  PROVE  TurnsInv'
BY DEF TurnsInv, OtherServed

\* Every step keeps the turns.
LEMMA TurnsStep ==
  TwoAccounts /\ ScheduleInv /\ TurnsInv /\ [Next]_scheduleVars => TurnsInv'
<1> SUFFICES ASSUME TwoAccounts, ScheduleInv, TurnsInv, [Next]_scheduleVars PROVE TurnsInv'
  OBVIOUS
<1>1. CASE Pick
  BY <1>1, PickTurns
<1>2. CASE Note
  BY <1>2, NoteTurns
<1>3. CASE SchedulerCrash
  BY <1>3, CrashTurns
<1>4. CASE Tick
  BY <1>4, OtherTurns DEF Tick
<1>5. CASE \E a \in Accounts : Ask(a) \/ Start(a) \/ Defer(a)
  BY <1>5, OtherTurns DEF Ask, Start, Defer
<1>6. CASE \E a \in Accounts, b \in BOOLEAN : Succeed(a, b) \/ Fail(a, b)
  BY <1>6, OtherTurns DEF Succeed, Fail
<1>7. CASE \E a \in Accounts, e, d \in BOOLEAN, i \in Steps : Prefer(a, e, d, i)
  BY <1>7, OtherTurns DEF Prefer
<1>8. CASE UNCHANGED scheduleVars
  BY <1>8, OtherTurns DEF scheduleVars
<1>9. QED
  BY <1>1, <1>2, <1>3, <1>4, <1>5, <1>6, <1>7, <1>8 DEF Next

\* No one is passed over twice but by a crash.
LEMMA TurnsOnce ==
  ASSUME ScheduleInv, TurnsInv
  PROVE  PassedOverOnce
<1>1. passedOver \in [Accounts -> Nat] /\ crashes \in Nat
  BY ScheduleTypes
<1>2. \A a \in Accounts : passedOver[a] <= crashes + (IF OtherServed(a) THEN 1 ELSE 0)
  BY DEF TurnsInv
<1>3. QED
  BY <1>1, <1>2 DEF PassedOverOnce

\* The instants the schedule asks next_business_time about are numbers.
LEMMA BusinessTime ==
  ASSUME ScheduleInv
  PROVE  BusinessTimeIsFirst
<1>1. clock \in Nat /\ row \in [Accounts -> Row]
  BY ScheduleTypes
<1>2. ASSUME NEW t \in {clock} \cup {row[a].nextAt : a \in {b \in Accounts : row[b].nextAt # Unset}}
      PROVE  t \in Nat
  <2>1. CASE t = clock
    BY <1>1, <2>1
  <2>2. CASE \E a \in Accounts : row[a].nextAt # Unset /\ t = row[a].nextAt
    <3>1. PICK a \in Accounts : row[a].nextAt # Unset /\ t = row[a].nextAt
      BY <2>2
    <3>2. row[a] \in Row
      BY <1>1
    <3>3. t \in Instant
      BY <3>1, <3>2 DEF Row
    <3>4. QED
      BY <3>3 DEF Instant
  <2>3. QED
    BY <1>2, <2>1, <2>2
<1>3. QED
  BY <1>2, NextIsFirst DEF BusinessTimeIsFirst, FirstOpen

-----------------------------------------------------------------------------
(* Pulses.                                                                 *)

PulseStep ==
  \A a \in Accounts :
     row'[a] # row[a] /\ request'[a] = request[a] /\ changes' = changes /\ row[a].nextAt # Unset
       => row'[a].nextAt <= row[a].nextAt

\* The request of an account that runs ends with its execution.
LEMMA EndsRequest ==
  ASSUME ScheduleInv, NEW a \in Accounts, request[a].phase = "running",
         request' = [request EXCEPT ![a] = NoRequest]
  PROVE  request'[a] # request[a]
<1>1. request'[a] = NoRequest
  BY ScheduleTypes
<1>2. NoRequest.phase = "none"
  BY DEF NoRequest
<1>3. QED
  BY <1>1, <1>2

\* A step that is not of the account itself never dates it later.
LEMMA PulsesForward ==
  ScheduleInv /\ [Next]_scheduleVars => PulseStep
<1> SUFFICES ASSUME ScheduleInv, [Next]_scheduleVars, NEW a \in Accounts,
                    row'[a] # row[a], request'[a] = request[a], changes' = changes,
                    row[a].nextAt # Unset
             PROVE  row'[a].nextAt <= row[a].nextAt
  BY DEF PulseStep
<1>1. row \in [Accounts -> Row] /\ row' # row
  BY ScheduleTypes
<1>2. CASE Pick \/ Note \/ SchedulerCrash \/ Tick
  BY <1>1, <1>2 DEF Pick, Note, SchedulerCrash, Tick
<1>3. CASE \E c \in Accounts : Ask(c) \/ Start(c)
  BY <1>1, <1>3 DEF Ask, Start
<1>4. ASSUME NEW c \in Accounts, Defer(c)
      PROVE  FALSE
  <2>1. c # a
    BY <1>4, EndsRequest DEF Defer
  <2>2. row'[a] = row[a]
    BY <1>1, <1>4, <2>1 DEF Defer
  <2>3. QED
    BY <2>2
<1>5. ASSUME NEW c \in Accounts, NEW unusable \in BOOLEAN, Fail(c, unusable)
      PROVE  FALSE
  <2>1. c # a
    BY <1>5, EndsRequest DEF Fail
  <2>2. row'[a] = row[a]
    BY <1>1, <1>5, <2>1 DEF Fail
  <2>3. QED
    BY <2>2
<1>6. ASSUME NEW c \in Accounts, NEW changed \in BOOLEAN, Succeed(c, changed)
      PROVE  row'[a].nextAt <= row[a].nextAt
  <2>1. c # a
    BY <1>6, EndsRequest DEF Succeed
  <2>2. QED
    BY <1>6, <2>1, SucceedKeeps
<1>7. ASSUME NEW c \in Accounts, NEW e \in BOOLEAN, NEW d \in BOOLEAN, NEW i \in Steps,
             Prefer(c, e, d, i)
      PROVE  FALSE
  BY <1>7, PreferKeeps
<1>8. CASE UNCHANGED scheduleVars
  BY <1>1, <1>8 DEF scheduleVars
<1>9. QED
  BY <1>2, <1>3, <1>4, <1>5, <1>6, <1>7, <1>8 DEF Next

-----------------------------------------------------------------------------
(* The schedule among the accounts.                                        *)

\* In the composition, the schedule takes its own steps only.
LEMMA ScheduleAlone == AccountsSpec => ScheduleSpec
<1>1. AccountsInit => Init
  BY DEF AccountsInit
<1>2. [AccountsNext]_accountsVars => [Next]_scheduleVars
  BY DEF AccountsNext, accountsVars, Schedule, CredentialsStep, AccessStep, ThrottleStep,
     ConversationStep, MigrationStep, ReconciliationStep, KeysetStep, ResultsStep, BoardStep
<1>3. QED
  BY <1>1, <1>2, PTL DEF AccountsSpec, ScheduleSpec

(* An execution always works from a row, and whatever the executions, the  *)
(* pulses and the choices of the owner write over each other stays one.    *)
THEOREM ScheduleTyped == AccountsSpec => []TypeOK
<1>1. ScheduleInv => TypeOK
  BY DEF ScheduleInv
<1>2. QED
  BY <1>1, ScheduleAlone, ScheduleInit, ScheduleStep, PTL DEF ScheduleSpec

(* next_business_time gives the first instant of the business window that  *)
(* is not before the candidate, whatever the window, the working days, the *)
(* intervals and the number of accounts.                                   *)
THEOREM BusinessTimeHolds == AccountsSpec => []BusinessTimeIsFirst
<1>1. ScheduleInv => BusinessTimeIsFirst
  BY BusinessTime
<1>2. QED
  BY <1>1, ScheduleAlone, ScheduleInit, ScheduleStep, PTL DEF ScheduleSpec

(* Moreover, of two accounts, one that is due is passed over once at most, *)
(* and once more for each crash of the scheduler before it noted whom it   *)
(* served.                                                                 *)
THEOREM TurnsHold == TwoAccounts => (AccountsSpec => []TurnsFair)
<1>1. Init => ScheduleInv /\ TurnsInv
  BY ScheduleInit
<1>2. TwoAccounts /\ ScheduleInv /\ TurnsInv /\ [Next]_scheduleVars => (ScheduleInv /\ TurnsInv)'
  BY ScheduleStep, TurnsStep
<1>3. ScheduleInv /\ TurnsInv => TurnsFair
  BY BusinessTime, TurnsOnce DEF TurnsFair
<1> SUFFICES ASSUME TwoAccounts PROVE AccountsSpec => []TurnsFair
  OBVIOUS
<1>4. ScheduleInv /\ TurnsInv /\ [Next]_scheduleVars => (ScheduleInv /\ TurnsInv)'
  BY <1>2
<1>5. QED
  BY <1>1, <1>3, <1>4, ScheduleAlone, PTL DEF ScheduleSpec

(* A pulse brings the other accounts of the cohort forward and never makes *)
(* one of them wait longer, however their own executions interleave.       *)
THEOREM PulsesHold == AccountsSpec => PulseBringsForward
<1>1. ScheduleInv /\ [Next]_scheduleVars => [PulseStep]_scheduleVars
  BY PulsesForward
<1>2. QED
  BY <1>1, ScheduleAlone, ScheduleInit, ScheduleStep, PTL DEF ScheduleSpec, PulseBringsForward,
     PulseStep
-----------------------------------------------------------------------------
(* Sorted sets.                                                            *)

\* A strict order of the elements of a set, as a relation.
Orders(lt, S) ==
  /\ \A x \in S : <<x, x>> \notin lt
  /\ \A x, y \in S : x # y => <<x, y>> \in lt \/ <<y, x>> \in lt
  /\ \A x, y, z \in S : <<x, y>> \in lt /\ <<y, z>> \in lt => <<x, z>> \in lt

SortedBy(s, lt, S) ==
  /\ s \in [1 .. Cardinality(S) -> S]
  /\ \A i, j \in 1 .. Cardinality(S) : i < j => <<s[i], s[j]>> \in lt

\* A finite set that is ordered has a last element.
LEMMA LastElement ==
  ASSUME NEW S, IsFiniteSet(S), S # {}, NEW lt, Orders(lt, S)
  PROVE  \E x \in S : \A y \in S \ {x} : <<y, x>> \in lt
<1> DEFINE Ends(T) == \E x \in T : \A y \in T \ {x} : <<y, x>> \in lt
           bad == {n \in Nat : \E T \in SUBSET S : T # {} /\ Cardinality(T) = n /\ ~Ends(T)}
<1>1. \A T \in SUBSET S : IsFiniteSet(T) /\ Cardinality(T) \in Nat
  BY FS_Subset, FS_CardinalityType
<1>2. bad = {}
  <2> SUFFICES ASSUME bad # {} PROVE FALSE
    OBVIOUS
  <2>1. PICK n \in bad : \A m \in bad : n <= m
    <3>1. bad \subseteq Nat
      OBVIOUS
    <3>2. QED
      <4> HIDE DEF bad
      <4> QED BY <3>1, LeastNumber
  <2>2. PICK T \in SUBSET S : T # {} /\ Cardinality(T) = n /\ ~Ends(T)
    BY <2>1
  <2>3. PICK x \in T : TRUE
    BY <2>2
  <2>4. Cardinality(T \ {x}) = n - 1 /\ n \in Nat /\ T \ {x} \in SUBSET S
    BY <1>1, <2>2, <2>3, FS_RemoveElement
  <2>5. T \ {x} # {}
    <3> SUFFICES ASSUME T \ {x} = {} PROVE FALSE
      OBVIOUS
    <3>1. \A y \in T \ {x} : <<y, x>> \in lt
      OBVIOUS
    <3>2. Ends(T)
      BY <2>3, <3>1
    <3>3. QED
      BY <2>2, <3>2
  <2>6. Ends(T \ {x})
    <3> SUFFICES ASSUME ~Ends(T \ {x}) PROVE FALSE
      OBVIOUS
    <3>1. n - 1 \in Nat
      BY <1>1, <2>4
    <3>2. n - 1 \in bad
      <4> HIDE DEF Ends
      <4> QED BY <2>4, <2>5, <3>1
    <3>3. QED
      <4> HIDE DEF bad
      <4> QED BY <2>1, <2>4, <3>2
  <2>7. PICK a \in T \ {x} : \A y \in (T \ {x}) \ {a} : <<y, a>> \in lt
    BY <2>6
  <2>8. <<x, a>> \in lt \/ <<a, x>> \in lt
    BY <2>2, <2>3, <2>7 DEF Orders
  <2>9. CASE <<x, a>> \in lt
    <3>1. \A y \in T \ {a} : <<y, a>> \in lt
      BY <2>7, <2>9
    <3>2. QED
      BY <2>2, <2>7, <3>1
  <2>10. CASE <<a, x>> \in lt
    <3>1. ASSUME NEW y \in T \ {x} PROVE <<y, x>> \in lt
      <4>1. CASE y = a
        BY <2>10, <4>1
      <4>2. CASE y # a
        <5>1. <<y, a>> \in lt
          BY <2>7, <3>1, <4>2
        <5>2. QED
          BY <2>2, <2>3, <2>7, <2>10, <3>1, <5>1 DEF Orders
      <4>3. QED
        BY <4>1, <4>2
    <3>2. QED
      BY <2>2, <2>3, <3>1
  <2>11. QED
    BY <2>8, <2>9, <2>10
<1>3. Ends(S)
  <2> SUFFICES ASSUME ~Ends(S) PROVE FALSE
    OBVIOUS
  <2>1. Cardinality(S) \in bad
    <3> HIDE DEF Ends
    <3> QED BY <1>1
  <2>2. QED
    BY <1>2, <2>1
<1>4. QED
  BY <1>3

\* A finite set that is ordered can be sorted.
LEMMA Sortable ==
  ASSUME NEW S, IsFiniteSet(S), NEW lt, Orders(lt, S)
  PROVE  \E s : SortedBy(s, lt, S)
<1> DEFINE Sorts(T) == \E s : SortedBy(s, lt, T)
           bad == {n \in Nat : \E T \in SUBSET S : Cardinality(T) = n /\ ~Sorts(T)}
<1>1. \A T \in SUBSET S : IsFiniteSet(T) /\ Cardinality(T) \in Nat
  BY FS_Subset, FS_CardinalityType
<1>2. bad = {}
  <2> SUFFICES ASSUME bad # {} PROVE FALSE
    OBVIOUS
  <2>1. PICK n \in bad : \A m \in bad : n <= m
    <3>1. bad \subseteq Nat
      OBVIOUS
    <3>2. QED
      <4> HIDE DEF bad
      <4> QED BY <3>1, LeastNumber
  <2>2. PICK T \in SUBSET S : Cardinality(T) = n /\ ~Sorts(T)
    BY <2>1
  <2>3. T # {}
    <3> SUFFICES ASSUME T = {} PROVE FALSE
      OBVIOUS
    <3>1. Cardinality(T) = 0
      BY FS_EmptySet
    <3>2. SortedBy([i \in 1 .. 0 |-> i], lt, T)
      BY <3>1 DEF SortedBy
    <3>3. Sorts(T)
      BY <3>2
    <3>4. QED
      BY <2>2, <3>3
  <2>4. PICK x \in T : \A y \in T \ {x} : <<y, x>> \in lt
    <3>1. Orders(lt, T) /\ IsFiniteSet(T)
      BY <1>1, <2>2 DEF Orders
    <3>2. QED
      BY <2>3, <3>1, LastElement
  <2>5. Cardinality(T \ {x}) = n - 1 /\ n \in Nat /\ T \ {x} \in SUBSET S
    BY <1>1, <2>2, <2>4, FS_RemoveElement
  <2>6. n - 1 \in Nat
    BY <1>1, <2>5
  <2>7. Sorts(T \ {x})
    <3> SUFFICES ASSUME ~Sorts(T \ {x}) PROVE FALSE
      OBVIOUS
    <3>1. n - 1 \in bad
      <4> HIDE DEF Sorts
      <4> QED BY <2>5, <2>6
    <3>2. QED
      <4> HIDE DEF bad
      <4> QED BY <2>1, <2>5, <3>1
  <2>8. PICK s : SortedBy(s, lt, T \ {x})
    BY <2>7
  <2> DEFINE longer == [i \in 1 .. n |-> IF i = n THEN x ELSE s[i]]
  <2>9. /\ \A i \in 1 .. (n - 1) : s[i] \in T \ {x}
        /\ \A i, j \in 1 .. (n - 1) : i < j => <<s[i], s[j]>> \in lt
    BY <2>5, <2>8 DEF SortedBy
  <2>10. longer \in [1 .. n -> T]
    BY <2>4, <2>5, <2>9
  <2>11. ASSUME NEW i \in 1 .. n, NEW j \in 1 .. n, i < j PROVE <<longer[i], longer[j]>> \in lt
    <3>1. i \in 1 .. (n - 1) /\ longer[i] = s[i]
      BY <2>5, <2>11
    <3>2. CASE j = n
      BY <2>4, <2>9, <3>1, <3>2
    <3>3. CASE j # n
      <4>1. j \in 1 .. (n - 1) /\ longer[j] = s[j]
        BY <2>5, <3>3
      <4>2. QED
        BY <2>9, <2>11, <3>1, <4>1
    <3>4. QED
      BY <3>2, <3>3
  <2>12. SortedBy(longer, lt, T)
    <3> HIDE DEF longer
    <3> QED BY <2>2, <2>10, <2>11 DEF SortedBy
  <2>13. QED
    BY <2>2, <2>12
<1>3. Sorts(S)
  <2> SUFFICES ASSUME ~Sorts(S) PROVE FALSE
    OBVIOUS
  <2>1. Cardinality(S) \in bad
    <3> HIDE DEF Sorts
    <3> QED BY <1>1
  <2>2. QED
    BY <1>2, <2>1
<1>4. QED
  BY <1>3

\* A sorted sequence gives every element once.
LEMMA SortedCovers ==
  ASSUME NEW S, IsFiniteSet(S), NEW lt, Orders(lt, S), NEW s, SortedBy(s, lt, S)
  PROVE  /\ \A i, j \in 1 .. Cardinality(S) : s[i] = s[j] => i = j
         /\ \A x \in S : \E i \in 1 .. Cardinality(S) : s[i] = x
<1> DEFINE n == Cardinality(S)
<1>1. n \in Nat /\ s \in [1 .. n -> S] /\ \A i, j \in 1 .. n : i < j => <<s[i], s[j]>> \in lt
  BY FS_CardinalityType DEF SortedBy
<1> HIDE DEF n
<1>2. \A i, j \in 1 .. n : i < j => s[i] # s[j]
  BY <1>1 DEF Orders
<1>3. \A i, j \in 1 .. n : s[i] = s[j] => i = j
  <2> SUFFICES ASSUME NEW i \in 1 .. n, NEW j \in 1 .. n, s[i] = s[j], i # j PROVE FALSE
    OBVIOUS
  <2>1. i < j \/ j < i
    BY <1>1
  <2>2. QED
    BY <1>2, <2>1
<1>4. s \in Injection(1 .. n, S)
  BY <1>1, <1>3 DEF Injection, IsInjective
<1>5. IsFiniteSet(1 .. n) /\ Cardinality(1 .. n) = n
  BY <1>1, FS_Interval
<1>6. s \in Surjection(1 .. n, S)
  BY <1>4, <1>5, FS_Injection DEF n
<1>7. QED
  BY <1>3, <1>6 DEF Surjection, n

-----------------------------------------------------------------------------
(* The board of a promotion.                                               *)

\* Board counts as FiniteSets does.
LEMMA BoardCounts == \A S : Board!Cardinality(S) = Cardinality(S)
BY DEF Board!Cardinality, Cardinality

\* The two orders of the rows, as relations.
ByScore == {pq \in Participants \X Participants : Board!Before(pq[1], pq[2])}
ByName == {pq \in Participants \X Participants : Board!Named(pq[1], pq[2])}

\* Both orders of the board are strict orders of its participants.
LEMMA RowsOrdered ==
  ASSUME Board!TypeOK, NEW S \in SUBSET Participants
  PROVE  Orders(ByScore, S) /\ Orders(ByName, S)
<1>1. \A p \in Participants : score[p] \in Nat /\ Position[p] \in Nat
  BY BoardAssumption DEF Board!TypeOK
<1>2. \A p, q \in Participants : /\ <<p, q>> \in ByScore <=> Board!Before(p, q)
                                 /\ <<p, q>> \in ByName <=> Board!Named(p, q)
  BY DEF ByScore, ByName
<1>3. \A p, q \in Participants : p # q => Position[p] # Position[q]
  BY BoardAssumption
<1>4. Orders(ByScore, S)
  BY <1>1, <1>2, <1>3 DEF Orders, Board!Before
<1>5. Orders(ByName, S)
  BY <1>1, <1>2, <1>3 DEF Orders, Board!Named
<1>6. QED
  BY <1>4, <1>5

\* A sort gives what the order asks for.
LEMMA RankedSorted ==
  ASSUME Board!TypeOK
  PROVE  SortedBy(Board!Sorted(Board!Ranked, Board!Before), ByScore, Board!Ranked)
<1> DEFINE S == Board!Ranked
           sorted == Board!Sorted(Board!Ranked, Board!Before)
<1>1. S \in SUBSET Participants
  BY DEF Board!Ranked
<1>2. sorted = CHOOSE s \in [1 .. Cardinality(S) -> S] :
                 \A i, j \in DOMAIN s : i < j => Board!Before(s[i], s[j])
  BY BoardCounts DEF Board!Sorted
<1> HIDE DEF S, sorted
<1>3. ASSUME NEW s \in [1 .. Cardinality(S) -> S]
      PROVE  (\A i, j \in DOMAIN s : i < j => Board!Before(s[i], s[j])) <=> SortedBy(s, ByScore, S)
  BY <1>1 DEF SortedBy, ByScore
<1>4. \E s : SortedBy(s, ByScore, S)
  <2>1. IsFiniteSet(S) /\ Orders(ByScore, S)
    BY <1>1, RowsOrdered, FS_Subset, BoardAssumption
  <2>2. QED
    BY <2>1, Sortable
<1>5. \E s \in [1 .. Cardinality(S) -> S] :
         \A i, j \in DOMAIN s : i < j => Board!Before(s[i], s[j])
  <2>1. PICK s : SortedBy(s, ByScore, S)
    BY <1>4
  <2>2. s \in [1 .. Cardinality(S) -> S]
    BY <2>1 DEF SortedBy
  <2>3. QED
    BY <1>3, <2>1, <2>2
<1>6. sorted \in [1 .. Cardinality(S) -> S]
        /\ \A i, j \in DOMAIN sorted : i < j => Board!Before(sorted[i], sorted[j])
  BY <1>2, <1>5
<1>7. SortedBy(sorted, ByScore, S)
  BY <1>3, <1>6
<1>8. QED
  BY <1>7 DEF sorted, S

\* Who has no rank is sorted by name.
LEMMA OthersSorted ==
  ASSUME Board!TypeOK
  PROVE  SortedBy(Board!Sorted(Participants \ Board!Ranked, Board!Named), ByName,
                  Participants \ Board!Ranked)
<1> DEFINE S == Participants \ Board!Ranked
           sorted == Board!Sorted(Participants \ Board!Ranked, Board!Named)
<1>1. S \in SUBSET Participants
  OBVIOUS
<1>2. sorted = CHOOSE s \in [1 .. Cardinality(S) -> S] :
                 \A i, j \in DOMAIN s : i < j => Board!Named(s[i], s[j])
  BY BoardCounts DEF Board!Sorted
<1> HIDE DEF S, sorted
<1>3. ASSUME NEW s \in [1 .. Cardinality(S) -> S]
      PROVE  (\A i, j \in DOMAIN s : i < j => Board!Named(s[i], s[j])) <=> SortedBy(s, ByName, S)
  BY <1>1 DEF SortedBy, ByName
<1>4. \E s : SortedBy(s, ByName, S)
  <2>1. IsFiniteSet(S) /\ Orders(ByName, S)
    BY <1>1, RowsOrdered, FS_Subset, BoardAssumption
  <2>2. QED
    BY <2>1, Sortable
<1>5. \E s \in [1 .. Cardinality(S) -> S] :
         \A i, j \in DOMAIN s : i < j => Board!Named(s[i], s[j])
  <2>1. PICK s : SortedBy(s, ByName, S)
    BY <1>4
  <2>2. s \in [1 .. Cardinality(S) -> S]
    BY <2>1 DEF SortedBy
  <2>3. QED
    BY <1>3, <2>1, <2>2
<1>6. sorted \in [1 .. Cardinality(S) -> S]
        /\ \A i, j \in DOMAIN sorted : i < j => Board!Named(sorted[i], sorted[j])
  BY <1>2, <1>5
<1>7. SortedBy(sorted, ByName, S)
  BY <1>3, <1>6
<1>8. QED
  BY <1>7 DEF sorted, S

\* The rows open with the ranked, best score first; the others follow.
RowsSound(n) ==
  /\ n = Cardinality(Board!Ranked) /\ n \in Nat
  /\ 1 .. n \subseteq DOMAIN Board!Rows /\ DOMAIN Board!Rows \subseteq Nat \ {0}
  /\ \A i \in 1 .. n : Board!Rows[i] \in Board!Ranked
  /\ \A i \in DOMAIN Board!Rows : Board!Rows[i] \in Board!Ranked => i <= n
  /\ \A i, j \in 1 .. n : i < j => Board!Before(Board!Rows[i], Board!Rows[j])
  /\ \A p \in Board!Ranked : \E i \in 1 .. n : Board!Rows[i] = p

\* The rows of the board: the ranked by score, then each once.
LEMMA RowsAreSound ==
  ASSUME Board!TypeOK
  PROVE  RowsSound(Cardinality(Board!Ranked))
<1> DEFINE S == Board!Ranked
           T == Participants \ S
           n == Cardinality(S)
           m == Cardinality(T)
           best == Board!Sorted(Board!Ranked, Board!Before)
           rest == Board!Sorted(Participants \ Board!Ranked, Board!Named)
<1>1. S \subseteq Participants /\ T \subseteq Participants
  BY DEF Board!Ranked
<1>2. IsFiniteSet(S) /\ IsFiniteSet(T) /\ n \in Nat /\ m \in Nat
  BY <1>1, FS_Subset, FS_CardinalityType, BoardAssumption
<1>3. SortedBy(best, ByScore, S) /\ SortedBy(rest, ByName, T)
  BY RankedSorted, OthersSorted
<1>4. Board!Rows = best \o rest
  BY DEF Board!Rows
<1>5. Orders(ByScore, S)
  BY <1>1, RowsOrdered
<1> HIDE DEF S, T, n, m, best, rest
<1>6. /\ best \in [1 .. n -> S] /\ rest \in [1 .. m -> T]
      /\ \A i, j \in 1 .. n : i < j => <<best[i], best[j]>> \in ByScore
      /\ \A x \in S : \E i \in 1 .. n : best[i] = x
  BY <1>2, <1>3, <1>5, SortedCovers DEF SortedBy, n, m
<1>7. best \in Seq(S) /\ rest \in Seq(T) /\ Len(best) = n /\ Len(rest) = m
  BY <1>2, <1>6
<1>8. /\ DOMAIN (best \o rest) = 1 .. (n + m)
      /\ \A i \in 1 .. n : (best \o rest)[i] = best[i]
      /\ \A i \in (n + 1) .. (n + m) : (best \o rest)[i] = rest[i - n]
  BY <1>2, <1>7
<1> DEFINE R == best \o rest
<1> HIDE DEF R
<1>9. /\ DOMAIN R = 1 .. (n + m)
      /\ \A i \in 1 .. n : R[i] = best[i]
      /\ \A i \in (n + 1) .. (n + m) : R[i] = rest[i - n]
  BY <1>8 DEF R
<1>10. \A i \in 1 .. n : R[i] \in S
  BY <1>6, <1>9
<1>11. \A i \in DOMAIN R : R[i] \in S => i <= n
  <2> SUFFICES ASSUME NEW i \in DOMAIN R, R[i] \in S, i > n PROVE FALSE
    BY <1>2, <1>9
  <2>1. R[i] = rest[i - n] /\ i - n \in 1 .. m
    BY <1>2, <1>9
  <2>2. R[i] \in T
    BY <1>6, <2>1
  <2>3. QED
    BY <2>2 DEF T
<1>12. \A i, j \in 1 .. n : i < j => Board!Before(R[i], R[j])
  BY <1>6, <1>9 DEF ByScore
<1>13. \A p \in S : \E i \in 1 .. n : R[i] = p
  BY <1>6, <1>9
<1>14. 1 .. n \subseteq DOMAIN R /\ DOMAIN R \subseteq Nat \ {0}
  BY <1>2, <1>9
<1>15. QED
  BY <1>2, <1>4, <1>10, <1>11, <1>12, <1>13, <1>14 DEF RowsSound, n, S, R

\* The scores of the first i rows.
ScoresOf(i) == {score[Board!Rows[j]] : j \in 1 .. i}

\* What the rank counted along the rows does at one of them, after "rank".
Counted(rank, i) ==
  IF i = 0 THEN 0
  ELSE IF i > 1 /\ score[Board!Rows[i]] = score[Board!Rows[i - 1]] THEN rank[i - 1]
  ELSE rank[i - 1] + 1

\* One row more is one score more, unless it has the score of the row before.
LEMMA OneRowMore ==
  ASSUME Board!TypeOK, NEW n, RowsSound(n), NEW i \in 1 .. n
  PROVE  /\ Cardinality(ScoresOf(i)) = Counted([k \in 0 .. n |-> Cardinality(ScoresOf(k))], i)
         /\ IsFiniteSet(ScoresOf(i)) /\ Cardinality(ScoresOf(i)) \in Nat
<1> DEFINE R == Board!Rows
           counts == [k \in 0 .. n |-> Cardinality(ScoresOf(k))]
<1>1. n \in Nat /\ i - 1 \in 0 .. n /\ i \in Nat
  BY DEF RowsSound
<1>2. \A k \in 0 .. n : IsFiniteSet(ScoresOf(k)) /\ Cardinality(ScoresOf(k)) \in Nat
  <2> SUFFICES ASSUME NEW k \in 0 .. n
               PROVE  IsFiniteSet(ScoresOf(k)) /\ Cardinality(ScoresOf(k)) \in Nat
    OBVIOUS
  <2>1. IsFiniteSet(1 .. k)
    BY <1>1, FS_Interval
  <2>2. [j \in 1 .. k |-> score[R[j]]] \in Surjection(1 .. k, ScoresOf(k))
    BY DEF Surjection, ScoresOf
  <2>3. QED
    BY <2>1, <2>2, FS_Surjection, FS_CardinalityType
<1>3. \A p \in Participants : score[p] \in Nat
  BY BoardAssumption DEF Board!TypeOK
<1>4. \A j \in 1 .. n : R[j] \in Participants
  BY DEF RowsSound, Board!Ranked
<1>5. \A j, k \in 1 .. n : j < k => score[R[j]] >= score[R[k]]
  BY <1>3, <1>4 DEF RowsSound, Board!Before
<1>6. counts[i - 1] = Cardinality(ScoresOf(i - 1))
  BY <1>1
<1>7. ScoresOf(i) = ScoresOf(i - 1) \cup {score[R[i]]}
  <2>1. 1 .. i = (1 .. (i - 1)) \cup {i}
    BY <1>1
  <2>2. QED
    BY <2>1 DEF ScoresOf
<1>8. CASE i > 1 /\ score[R[i]] = score[R[i - 1]]
  <2>1. score[R[i]] \in ScoresOf(i - 1)
    BY <1>1, <1>8 DEF ScoresOf
  <2>2. ScoresOf(i) = ScoresOf(i - 1)
    BY <1>7, <2>1
  <2>3. QED
    BY <1>2, <1>6, <1>8, <2>2 DEF Counted
<1>9. CASE ~(i > 1 /\ score[R[i]] = score[R[i - 1]])
  <2>1. score[R[i]] \notin ScoresOf(i - 1)
    <3> SUFFICES ASSUME NEW j \in 1 .. (i - 1), score[R[i]] = score[R[j]] PROVE FALSE
      BY DEF ScoresOf
    <3>1. i > 1 /\ i - 1 \in 1 .. n /\ j \in 1 .. n
      BY <1>1
    <3>2. score[R[j]] >= score[R[i - 1]]
      <4>1. CASE j = i - 1
        BY <1>3, <1>4, <3>1, <4>1
      <4>2. CASE j # i - 1
        BY <1>1, <1>5, <3>1, <4>2
      <4>3. QED
        BY <4>1, <4>2
    <3>3. score[R[i - 1]] >= score[R[i]]
      BY <1>1, <1>5, <3>1
    <3>4. score[R[i - 1]] = score[R[i]]
      BY <1>3, <1>4, <3>1, <3>2, <3>3
    <3>5. QED
      BY <1>9, <3>1, <3>4
  <2>2. Cardinality(ScoresOf(i)) = Cardinality(ScoresOf(i - 1)) + 1
    BY <1>1, <1>2, <1>7, <2>1, FS_AddElement
  <2>3. QED
    BY <1>1, <1>2, <1>6, <1>9, <2>2 DEF Counted
<1>10. QED
  BY <1>8, <1>9

\* The dense rank of a row counts the scores down to it.
LEMMA DenseCounts ==
  ASSUME Board!TypeOK, NEW n, RowsSound(n)
  PROVE  \A i \in 0 .. n : Board!DenseRank[i] = Cardinality(ScoresOf(i))
<1> DEFINE Body(f) == [i \in 0 .. n |->
              IF i = 0 THEN 0
              ELSE IF i > 1 /\ score[Board!Rows[i]] = score[Board!Rows[i - 1]] THEN f[i - 1]
              ELSE f[i - 1] + 1]
           counts == [i \in 0 .. n |-> Cardinality(ScoresOf(i))]
           rank == CHOOSE f : f = Body(f)
<1>1. n \in Nat /\ n = Board!Cardinality(Board!Ranked)
  BY BoardCounts DEF RowsSound
<1>2. counts[0] = 0
  <2>1. ScoresOf(0) = {}
    BY DEF ScoresOf
  <2>2. QED
    BY <1>1, <2>1, FS_EmptySet
<1>3. counts = Body(counts)
  <2>1. ASSUME NEW i \in 0 .. n PROVE counts[i] = Body(counts)[i]
    <3>1. CASE i = 0
      BY <1>2, <3>1
    <3>2. CASE i # 0
      <4>1. i \in 1 .. n /\ counts[i] = Cardinality(ScoresOf(i))
        BY <1>1, <3>2
      <4>2. counts[i] = Counted(counts, i)
        BY <4>1, OneRowMore
      <4> HIDE DEF counts
      <4>3. QED
        BY <3>2, <4>2 DEF Counted
    <3>3. QED
      BY <3>1, <3>2
  <2> HIDE DEF Body
  <2>2. Body(counts) = [i \in 0 .. n |-> Body(counts)[i]]
    BY DEF Body
  <2>3. QED
    BY <2>1, <2>2
<1>4. Board!DenseRank = rank
  BY <1>1 DEF Board!DenseRank
<1>5. rank = Body(rank)
  <2> HIDE DEF counts, Body
  <2>1. \E f : f = Body(f)
    BY <1>3
  <2>2. QED
    BY <2>1
<1> HIDE DEF rank
<1>6. rank[0] = 0 /\ \A i \in 1 .. n : rank[i] = Counted(rank, i)
  <2>1. \A i \in 0 .. n : rank[i] = Body(rank)[i]
    BY <1>5
  <2>2. \A i \in 0 .. n : Body(rank)[i] = Counted(rank, i)
    BY DEF Counted
  <2> HIDE DEF Body
  <2>3. QED
    BY <1>1, <2>1, <2>2 DEF Counted
<1> DEFINE bad == {i \in 0 .. n : rank[i] # counts[i]}
<1>7. bad = {}
  <2> SUFFICES ASSUME bad # {} PROVE FALSE
    OBVIOUS
  <2>1. PICK i \in bad : \A j \in bad : i <= j
    <3>1. bad \in SUBSET Nat
      BY <1>1
    <3>2. QED
      <4> HIDE DEF bad
      <4> QED BY <3>1, LeastNumber
  <2>2. i \in 1 .. n
    BY <1>1, <1>2, <1>6, <2>1
  <2>3. rank[i - 1] = counts[i - 1]
    <3>1. i - 1 \in 0 .. n /\ ~(i <= i - 1)
      BY <1>1, <2>2
    <3>2. i - 1 \notin bad
      <4> HIDE DEF bad
      <4> QED BY <2>1, <3>1
    <3>3. QED
      BY <3>1, <3>2
  <2>4. counts[i] = Counted(counts, i)
    BY <2>2, OneRowMore
  <2>5. rank[i] = counts[i]
    <3> HIDE DEF counts
    <3> QED BY <1>6, <2>2, <2>3, <2>4 DEF Counted
  <2>6. QED
    BY <2>1, <2>5
<1>8. QED
  BY <1>4, <1>7

\* A rank is one more than the number of better scores.
LEMMA RanksAreDense ==
  ASSUME Board!TypeOK
  PROVE  Board!RanksDense
<1> DEFINE n == Cardinality(Board!Ranked)
<1>1. RowsSound(n)
  BY RowsAreSound
<1> HIDE DEF n
<1>2. n \in Nat /\ \A p \in Participants : score[p] \in Nat
  BY <1>1, BoardAssumption DEF RowsSound, Board!TypeOK
<1>3. \A j \in 1 .. n : Board!Rows[j] \in Board!Ranked /\ Board!Rows[j] \in Participants
  BY <1>1 DEF RowsSound, Board!Ranked
<1>4. ASSUME NEW p \in Board!Ranked
      PROVE  Board!RankOf(p) = 1 + Board!Cardinality({score[q] : q \in {r \in Board!Ranked : score[r] > score[p]}})
  <2> DEFINE better == {score[q] : q \in {r \in Board!Ranked : score[r] > score[p]}}
             i == CHOOSE k \in DOMAIN Board!Rows : Board!Rows[k] = p
  <2>1. p \in Participants /\ score[p] \in Nat
    BY <1>2, <1>4 DEF Board!Ranked
  <2>2. i \in 1 .. n /\ Board!Rows[i] = p
    <3>1. \E k \in DOMAIN Board!Rows : Board!Rows[k] = p
      BY <1>1, <1>4 DEF RowsSound
    <3>2. i \in DOMAIN Board!Rows /\ Board!Rows[i] = p
      BY <3>1
    <3>3. i \in Nat \ {0} /\ i <= n
      BY <1>1, <1>4, <3>2 DEF RowsSound
    <3>4. QED
      BY <1>2, <3>2, <3>3
  <2>3. Board!RankOf(p) = Board!DenseRank[i]
    BY <1>4 DEF Board!RankOf
  <2> HIDE DEF i
  <2>4. Board!DenseRank[i] = Cardinality(ScoresOf(i))
    BY <1>1, <1>2, <2>2, DenseCounts
  <2>5. ScoresOf(i) = better \cup {score[p]}
    <3>1. ASSUME NEW j \in 1 .. i PROVE score[Board!Rows[j]] \in better \cup {score[p]}
      <4>1. CASE j = i
        BY <2>2, <4>1
      <4>2. CASE j # i
        <5>1. j \in 1 .. n /\ j < i
          BY <1>2, <2>2, <4>2
        <5>2. Board!Before(Board!Rows[j], p)
          BY <1>1, <2>2, <5>1 DEF RowsSound
        <5>3. score[Board!Rows[j]] > score[p] \/ score[Board!Rows[j]] = score[p]
          BY <5>2 DEF Board!Before
        <5>4. QED
          BY <1>3, <5>1, <5>3
      <4>3. QED
        BY <4>1, <4>2
    <3>2. ASSUME NEW q \in Board!Ranked, score[q] > score[p] PROVE score[q] \in ScoresOf(i)
      <4>1. PICK k \in 1 .. n : Board!Rows[k] = q
        BY <1>1 DEF RowsSound
      <4>2. score[q] \in Nat
        BY <1>2 DEF Board!Ranked
      <4>3. k < i
        <5>1. ~Board!Before(p, q)
          BY <2>1, <3>2, <4>2 DEF Board!Before
        <5>2. ~(i < k)
          BY <1>1, <2>2, <4>1, <5>1 DEF RowsSound
        <5>3. i # k
          BY <2>1, <2>2, <3>2, <4>1, <4>2
        <5>4. QED
          BY <1>2, <2>2, <5>2, <5>3
      <4>4. QED
        BY <1>2, <2>2, <4>1, <4>3 DEF ScoresOf
    <3>3. score[p] \in ScoresOf(i)
      BY <1>2, <2>2 DEF ScoresOf
    <3>4. ScoresOf(i) \subseteq better \cup {score[p]}
      BY <3>1 DEF ScoresOf
    <3>5. better \subseteq ScoresOf(i)
      BY <3>2
    <3>6. QED
      BY <3>3, <3>4, <3>5
  <2>6. IsFiniteSet(better)
    <3>1. IsFiniteSet(ScoresOf(i)) /\ better \subseteq ScoresOf(i)
      BY <1>1, <2>2, <2>5, OneRowMore
    <3>2. QED
      BY <3>1, FS_Subset
  <2>7. score[p] \notin better
    BY <1>2, <2>1 DEF Board!Ranked
  <2>8. Cardinality(better \cup {score[p]}) = Cardinality(better) + 1 /\ Cardinality(better) \in Nat
    BY <2>6, <2>7, FS_AddElement, FS_CardinalityType
  <2>9. QED
    BY <2>3, <2>4, <2>5, <2>8, BoardCounts
<1>5. QED
  BY <1>4 DEF Board!RanksDense

-----------------------------------------------------------------------------
(* Grace.                                                                  *)

(* The inductive invariant: who is recommended a refresh was told so then  *)
(* or before, and never later than now.                                    *)
BoardInv ==
  /\ Board!TypeOK
  /\ \A p \in Participants : recommended[p] # Unset => told[p] # Unset /\ told[p] <= recommended[p]
  /\ \A p \in Participants : told[p] # Unset => told[p] <= hour

\* Before the first pulse.
LEMMA BoardInit == Board!Init => BoardInv
BY BoardAssumption DEF Board!Init, BoardInv, Board!TypeOK, Board!Times

\* The dates of the board are numbers.
LEMMA BoardDates ==
  ASSUME BoardInv
  PROVE  /\ hour \in Nat /\ hour <= MaxHour /\ MaxHour \in Nat /\ Unset \notin Nat
         /\ \A p \in Participants :
               /\ told[p] # Unset => told[p] \in Nat
               /\ recommended[p] # Unset => recommended[p] \in Nat
               /\ verified[p] # Unset => verified[p] \in Nat
<1>1. Board!Times \subseteq Nat /\ hour \in Board!Times
  BY BoardAssumption DEF BoardInv, Board!TypeOK, Board!Times
<1>2. QED
  BY <1>1, BoardAssumption, ScheduleAssumption DEF BoardInv, Board!TypeOK, Board!Times

\* An hour passes.
LEMMA TickKeeps ==
  ASSUME BoardInv, Board!Tick
  PROVE  BoardInv'
<1>1. hour' \in Board!Times /\ hour' = hour + 1
  BY BoardDates DEF Board!Times, Board!Tick
<1>2. UNCHANGED <<score, verified, recommended, pulsed, told>>
  BY DEF Board!Tick
<1>3. Board!TypeOK'
  BY <1>1, <1>2 DEF BoardInv, Board!TypeOK, Board!Times
<1>4. ASSUME NEW p \in Participants, told[p] # Unset PROVE told[p] <= hour + 1
  <2>1. told[p] <= hour
    BY <1>4 DEF BoardInv
  <2>2. QED
    BY <1>4, <2>1, BoardDates
<1>5. QED
  BY <1>1, <1>2, <1>3, <1>4 DEF BoardInv

\* A participant synchronises, and a change tells the others.
LEMMA SynchroniseKeeps ==
  ASSUME BoardInv, NEW p \in Participants, NEW value \in Values, NEW changed \in BOOLEAN,
         Board!Synchronise(p, value, changed)
  PROVE  BoardInv'
<1>1. Board!TypeOK'
  BY DEF BoardInv, Board!TypeOK, Board!Synchronise, Board!Times
<1>2. ASSUME NEW q \in Participants
      PROVE  /\ recommended'[q] # Unset => told'[q] # Unset /\ told'[q] <= recommended'[q]
             /\ told'[q] # Unset => told'[q] <= hour'
  <2>1. CASE q = p
    BY <2>1 DEF Board!Synchronise
  <2>2. CASE q # p
    <3>1. /\ recommended'[q] = IF Board!Emits(changed) THEN hour ELSE recommended[q]
          /\ told'[q] = IF Board!Emits(changed) /\ told[q] = Unset THEN hour ELSE told[q]
          /\ hour' = hour
      BY <2>2 DEF Board!Synchronise
    <3>2. /\ told[q] # Unset => told[q] \in Nat /\ told[q] <= hour
          /\ recommended[q] # Unset => told[q] # Unset /\ told[q] <= recommended[q]
      BY BoardDates DEF BoardInv
    <3>3. QED
      BY <3>1, <3>2, BoardDates
  <2>3. QED
    BY <2>1, <2>2
<1>3. QED
  BY <1>1, <1>2 DEF BoardInv

\* Every step of the board keeps the invariant.
LEMMA BoardKept == BoardInv /\ [Board!Next]_(Board!boardVars) => BoardInv'
<1> SUFFICES ASSUME BoardInv, [Board!Next]_(Board!boardVars) PROVE BoardInv'
  OBVIOUS
<1>1. CASE Board!Next
  BY <1>1, TickKeeps, SynchroniseKeeps DEF Board!Next
<1>2. CASE UNCHANGED Board!boardVars
  BY <1>2 DEF Board!boardVars, BoardInv, Board!TypeOK
<1>3. QED
  BY <1>1, <1>2

\* Who has no rank was verified HardStale ago or told Grace ago.
LEMMA GraceIsGiven ==
  ASSUME BoardInv
  PROVE  Board!GraceGiven
<1> SUFFICES ASSUME NEW p \in Participants \ Board!Ranked, verified[p] # Unset
             PROVE  \/ verified[p] + HardStale <= hour
                    \/ told[p] # Unset /\ told[p] + Grace <= hour
  BY DEF Board!GraceGiven
<1>1. Board!Freshness(p) = "stale"
  BY DEF Board!Ranked
<1>2. CASE verified[p] + HardStale <= hour
  BY <1>2
<1>3. CASE ~(verified[p] + HardStale <= hour)
  <2>1. recommended[p] # Unset /\ recommended[p] + Grace <= hour
    BY <1>1, <1>3 DEF Board!Freshness
  <2>2. told[p] # Unset /\ told[p] <= recommended[p]
    BY <2>1 DEF BoardInv
  <2>3. told[p] \in Nat /\ recommended[p] \in Nat /\ hour \in Nat /\ Grace \in Nat
    BY <2>1, <2>2, BoardDates, BoardAssumption
  <2>4. QED
    BY <2>1, <2>2, <2>3
<1>4. QED
  BY <1>2, <1>3

\* In the composition, the board takes its own steps only.
LEMMA BoardAlone == AccountsSpec => Board!Spec
<1>1. AccountsInit => Board!Init
  BY DEF AccountsInit
<1>2. [AccountsNext]_accountsVars => [Board!Next]_(Board!boardVars)
  BY DEF AccountsNext, accountsVars, Schedule, CredentialsStep, AccessStep, ThrottleStep,
     ConversationStep, MigrationStep, ReconciliationStep, KeysetStep, ResultsStep, BoardStep,
     boardVars, Board!boardVars
<1>3. QED
  BY <1>1, <1>2, PTL DEF AccountsSpec, Board!Spec

(* Of any number of participants, a rank is one more than the number of    *)
(* better scores among the ranked, and nobody who synchronised loses theirs *)
(* before HardStale, or Grace after the first pulse they did not answer.   *)
THEOREM BoardHolds == AccountsSpec => []Board!BoardSound
<1>1. BoardInv => Board!BoardSound
  BY RanksAreDense, GraceIsGiven DEF BoardInv, Board!BoardSound
<1>2. QED
  BY <1>1, BoardAlone, BoardInit, BoardKept, PTL DEF Board!Spec

-----------------------------------------------------------------------------
(* Sums over a finite set.                                                 *)

Some(T) == CHOOSE x \in T : TRUE

\* f sums v over every part of S, one chosen element at a time.
Sums(f, v, S) ==
  f = [T \in SUBSET S |-> IF T = {} THEN 0 ELSE v[Some(T)] + f[T \ {Some(T)}]]
IsTotal(n, v, S) == \E f : Sums(f, v, S) /\ n = f[S]

\* What holds of no element, and of a part when it does without its chosen
\* element, holds of every part.
LEMMA PartByPart ==
  ASSUME NEW S, IsFiniteSet(S), NEW P \in SUBSET SUBSET S, {} \in P,
         \A T \in SUBSET S : T # {} /\ T \ {Some(T)} \in P => T \in P
  PROVE  P = SUBSET S
<1> DEFINE bad == {n \in Nat : \E T \in SUBSET S : T \notin P /\ Cardinality(T) = n}
<1>1. \A T \in SUBSET S : IsFiniteSet(T) /\ Cardinality(T) \in Nat
  BY FS_Subset, FS_CardinalityType
<1>2. bad = {}
  <2> SUFFICES ASSUME bad # {} PROVE FALSE
    OBVIOUS
  <2>1. PICK n \in bad : \A m \in bad : n <= m
    <3>1. bad \subseteq Nat
      OBVIOUS
    <3>2. QED
      <4> HIDE DEF bad
      <4> QED BY <3>1, LeastNumber
  <2>2. PICK T \in SUBSET S : T \notin P /\ Cardinality(T) = n
    BY <2>1
  <2>3. T # {} /\ Some(T) \in T
    <3>1. T # {}
      BY <2>2
    <3>2. QED
      BY <3>1 DEF Some
  <2>4. Cardinality(T \ {Some(T)}) = n - 1 /\ n \in Nat /\ T \ {Some(T)} \in SUBSET S
    BY <1>1, <2>2, <2>3, FS_RemoveElement
  <2>5. n - 1 \in Nat /\ ~(n <= n - 1)
    BY <1>1, <2>4
  <2>6. T \ {Some(T)} \in P
    <3>1. n - 1 \notin bad
      <4> HIDE DEF bad
      <4> QED BY <2>1, <2>5
    <3>2. QED
      BY <2>4, <2>5, <3>1
  <2>7. QED
    BY <2>2, <2>3, <2>6
<1>3. QED
  BY <1>1, <1>2

\* The sums of the values exist.
LEMMA SumsExist ==
  ASSUME NEW S, IsFiniteSet(S), NEW v \in [S -> Int]
  PROVE  \E f : Sums(f, v, S)
<1> DEFINE Upto(f, k) ==
             /\ DOMAIN f = SUBSET S /\ f[{}] = 0
             /\ \A T \in SUBSET S : T # {} /\ Cardinality(T) <= k =>
                   f[T] = v[Some(T)] + f[T \ {Some(T)}]
           bad == {k \in Nat : ~\E f : Upto(f, k)}
<1>1. \A T \in SUBSET S : /\ IsFiniteSet(T) /\ Cardinality(T) \in Nat
                          /\ Cardinality(T) <= Cardinality(S)
  BY FS_Subset, FS_CardinalityType
<1>2. Cardinality(S) \in Nat
  BY <1>1
<1>3. bad = {}
  <2> SUFFICES ASSUME bad # {} PROVE FALSE
    OBVIOUS
  <2>1. PICK k \in bad : \A m \in bad : k <= m
    <3>1. bad \subseteq Nat
      OBVIOUS
    <3>2. QED
      <4> HIDE DEF bad
      <4> QED BY <3>1, LeastNumber
  <2>2. k \in Nat /\ ~\E f : Upto(f, k)
    <3> HIDE DEF Upto
    <3> QED BY <2>1
  <2>3. k # 0
    <3> SUFFICES ASSUME k = 0 PROVE FALSE
      OBVIOUS
    <3> DEFINE f0 == [T \in SUBSET S |-> 0]
    <3>1. \A T \in SUBSET S : Cardinality(T) <= 0 => T = {}
      BY <1>1, FS_EmptySet
    <3>2. DOMAIN f0 = SUBSET S /\ f0[{}] = 0
      OBVIOUS
    <3> HIDE DEF f0
    <3>3. Upto(f0, k)
      BY <3>1, <3>2
    <3>4. QED
      BY <2>2, <3>3
  <2>4. PICK f : Upto(f, k - 1)
    <3>1. k - 1 \in Nat /\ ~(k <= k - 1)
      BY <2>2, <2>3
    <3>2. k - 1 \notin bad
      <4> HIDE DEF bad
      <4> QED BY <2>1, <3>1
    <3>3. QED
      <4> HIDE DEF Upto
      <4> QED BY <3>1, <3>2
  <2> DEFINE g == [T \in SUBSET S |-> IF Cardinality(T) <= k - 1 THEN f[T]
                                      ELSE v[Some(T)] + f[T \ {Some(T)}]]
  <2>5. DOMAIN g = SUBSET S /\ g[{}] = 0
    <3>1. Cardinality({}) = 0 /\ 0 <= k - 1
      BY <2>2, <2>3, FS_EmptySet
    <3>2. QED
      BY <2>4, <3>1
  <2>6. ASSUME NEW T \in SUBSET S, T # {}, Cardinality(T) <= k
        PROVE  g[T] = v[Some(T)] + g[T \ {Some(T)}]
    <3>1. Some(T) \in T
      BY <2>6 DEF Some
    <3>2. Cardinality(T \ {Some(T)}) = Cardinality(T) - 1 /\ T \ {Some(T)} \in SUBSET S
      BY <1>1, <2>6, <3>1, FS_RemoveElement
    <3>3. Cardinality(T \ {Some(T)}) <= k - 1
      BY <1>1, <2>2, <2>6, <3>2
    <3>4. g[T \ {Some(T)}] = f[T \ {Some(T)}]
      BY <3>2, <3>3
    <3>5. CASE Cardinality(T) <= k - 1
      BY <2>4, <2>6, <3>4, <3>5
    <3>6. CASE ~(Cardinality(T) <= k - 1)
      BY <3>4, <3>6
    <3>7. QED
      BY <3>5, <3>6
  <2>7. Upto(g, k)
    <3> HIDE DEF g
    <3> QED BY <2>5, <2>6
  <2>8. QED
    <3> HIDE DEF g, Upto
    <3> QED BY <2>2, <2>7
<1>4. PICK f : Upto(f, Cardinality(S))
  <2>1. Cardinality(S) \notin bad
    BY <1>3
  <2>2. QED
    <3> HIDE DEF Upto
    <3> QED BY <1>2, <2>1
<1> DEFINE h == [T \in SUBSET S |-> f[T]]
<1>5. \A T \in SUBSET S : h[T] = IF T = {} THEN 0 ELSE v[Some(T)] + h[T \ {Some(T)}]
  <2>1. ASSUME NEW T \in SUBSET S
        PROVE  h[T] = IF T = {} THEN 0 ELSE v[Some(T)] + h[T \ {Some(T)}]
    <3>1. T \ {Some(T)} \in SUBSET S /\ h[T] = f[T] /\ h[T \ {Some(T)}] = f[T \ {Some(T)}]
      OBVIOUS
    <3> HIDE DEF h
    <3>2. CASE T = {}
      BY <1>4, <3>1, <3>2
    <3>3. CASE T # {}
      BY <1>1, <1>4, <3>1, <3>3
    <3>4. QED
      BY <3>2, <3>3
  <2>2. QED
    BY <2>1
<1>6. Sums(h, v, S)
  <2>1. h = [T \in SUBSET S |-> h[T]]
    OBVIOUS
  <2> HIDE DEF h
  <2>2. QED
    BY <1>5, <2>1 DEF Sums
<1>7. QED
  BY <1>6

\* What the sums are, part by part.
LEMMA SumsUnfold ==
  ASSUME NEW S, NEW v, NEW f, Sums(f, v, S)
  PROVE  /\ f[{}] = 0
         /\ \A T \in SUBSET S : T # {} =>
               Some(T) \in T /\ f[T] = v[Some(T)] + f[T \ {Some(T)}] /\ T \ {Some(T)} \in SUBSET S
<1>1. \A T \in SUBSET S : f[T] = IF T = {} THEN 0 ELSE v[Some(T)] + f[T \ {Some(T)}]
  BY DEF Sums
<1>2. \A T \in SUBSET S : T # {} => Some(T) \in T
  BY DEF Some
<1>3. QED
  BY <1>1, <1>2

\* A total of numbers is one, positive when they are and there are some.
LEMMA TotalTyped ==
  ASSUME NEW S, IsFiniteSet(S), NEW v \in [S -> Nat], NEW n, IsTotal(n, v, S)
  PROVE  n \in Nat /\ (S # {} /\ (\A x \in S : v[x] > 0) => n > 0)
<1>1. PICK f : Sums(f, v, S) /\ n = f[S]
  BY DEF IsTotal
<1> DEFINE P == {T \in SUBSET S : f[T] \in Nat}
<1>2. P = SUBSET S
  <2>1. {} \in P
    BY <1>1, SumsUnfold
  <2>2. ASSUME NEW T \in SUBSET S, T # {}, T \ {Some(T)} \in P PROVE T \in P
    <3>1. Some(T) \in S /\ f[T] = v[Some(T)] + f[T \ {Some(T)}]
      BY <1>1, <2>2, SumsUnfold
    <3>2. QED
      BY <2>2, <3>1
  <2>3. P \in SUBSET SUBSET S
    OBVIOUS
  <2> HIDE DEF P
  <2>4. QED
    BY <2>1, <2>2, <2>3, PartByPart
<1>3. ASSUME S # {}, \A x \in S : v[x] > 0 PROVE n > 0
  <2>1. /\ Some(S) \in S /\ f[S] = v[Some(S)] + f[S \ {Some(S)}]
        /\ S \ {Some(S)} \in SUBSET S
    BY <1>1, <1>3, SumsUnfold
  <2>2. f[S \ {Some(S)}] \in Nat /\ v[Some(S)] \in Nat /\ v[Some(S)] > 0
    BY <1>2, <1>3, <2>1
  <2>3. QED
    BY <1>1, <2>1, <2>2
<1>4. QED
  BY <1>1, <1>2, <1>3

\* Totals of values that lie between others lie between their totals.
LEMMA TotalsBetween ==
  ASSUME NEW S, IsFiniteSet(S), NEW v \in [S -> Nat], NEW w \in [S -> Nat], NEW u \in [S -> Nat],
         \A x \in S : v[x] <= w[x] /\ w[x] <= v[x] + u[x],
         NEW a, NEW b, NEW c, IsTotal(a, v, S), IsTotal(b, w, S), IsTotal(c, u, S)
  PROVE  a <= b /\ b <= a + c
<1>1. PICK f : Sums(f, v, S) /\ a = f[S]
  BY DEF IsTotal
<1>2. PICK g : Sums(g, w, S) /\ b = g[S]
  BY DEF IsTotal
<1>3. PICK h : Sums(h, u, S) /\ c = h[S]
  BY DEF IsTotal
<1> DEFINE P == {T \in SUBSET S : /\ f[T] \in Nat /\ g[T] \in Nat /\ h[T] \in Nat
                                  /\ f[T] <= g[T] /\ g[T] <= f[T] + h[T]}
<1>4. P = SUBSET S
  <2>1. {} \in P
    <3>1. f[{}] = 0 /\ g[{}] = 0 /\ h[{}] = 0
      BY <1>1, <1>2, <1>3, SumsUnfold
    <3>2. QED
      BY <3>1
  <2>2. ASSUME NEW T \in SUBSET S, T # {}, T \ {Some(T)} \in P PROVE T \in P
    <3> DEFINE x == Some(T)
               U == T \ {Some(T)}
    <3>1. /\ x \in S /\ f[T] = v[x] + f[U]
          /\ g[T] = w[x] + g[U] /\ h[T] = u[x] + h[U]
      BY <1>1, <1>2, <1>3, <2>2, SumsUnfold
    <3>2. /\ f[U] \in Nat /\ g[U] \in Nat /\ h[U] \in Nat
          /\ f[U] <= g[U] /\ g[U] <= f[U] + h[U]
      BY <2>2
    <3> HIDE DEF x, U
    <3>3. v[x] \in Nat /\ w[x] \in Nat /\ u[x] \in Nat /\ v[x] <= w[x] /\ w[x] <= v[x] + u[x]
      BY <3>1
    <3>4. /\ f[T] \in Nat /\ g[T] \in Nat /\ h[T] \in Nat
          /\ f[T] <= g[T] /\ g[T] <= f[T] + h[T]
      BY <3>1, <3>2, <3>3
    <3>5. QED
      BY <3>4
  <2>3. P \in SUBSET SUBSET S
    OBVIOUS
  <2> HIDE DEF P
  <2>4. QED
    BY <2>1, <2>2, <2>3, PartByPart
<1>5. S \in P
  BY <1>4
<1>6. QED
  BY <1>1, <1>2, <1>3, <1>5

-----------------------------------------------------------------------------
(* Roundings and grades.                                                   *)

\* Products by a positive number keep the order.
LEMMA ProductsOrdered ==
  ASSUME NEW d \in Nat \ {0}, NEW a \in Int, NEW b \in Int
  PROVE  /\ a <= b => a * d <= b * d
         /\ a * d < b * d + d => a <= b
<1>1. ASSUME a <= b PROVE a * d <= b * d
  <2>1. PICK k \in Nat : b = a + k
    <3>1. b - a \in Nat /\ b = a + (b - a)
      BY <1>1
    <3>2. QED
      BY <3>1
  <2>2. b * d = a * d + k * d /\ k * d \in Nat
    BY <2>1, SMTT(30)
  <2> DEFINE x == a * d  y == b * d  z == k * d
  <2>3. y = x + z /\ z \in Nat /\ x \in Int
    BY <2>2
  <2> HIDE DEF x, y, z
  <2>4. x <= y
    BY <2>3
  <2>5. QED
    BY <2>4 DEF x, y
<1>2. ASSUME ~(a <= b) PROVE ~(a * d < b * d + d)
  <2>1. PICK k \in Nat : a = b + 1 + k
    <3>1. a - b - 1 \in Nat /\ a = b + 1 + (a - b - 1)
      BY <1>2
    <3>2. QED
      BY <3>1
  <2>2. a * d = b * d + d + k * d /\ k * d \in Nat
    BY <2>1, SMTT(30)
  <2> DEFINE x == a * d  y == b * d  z == k * d
  <2>3. x = y + d + z /\ z \in Nat /\ y \in Int
    BY <2>2
  <2> HIDE DEF x, y, z
  <2>4. ~(x < y + d)
    BY <2>3
  <2>5. QED
    BY <2>4 DEF x, y
<1>3. QED
  BY <1>1, <1>2

\* A quotient and what is left.
LEMMA Divided ==
  ASSUME NEW n \in Nat, NEW d \in Nat \ {0}
  PROVE  n \div d \in Nat /\ n % d \in 0 .. (d - 1) /\ n = ((n \div d) * d) + (n % d)
<1> DEFINE q == n \div d
           r == n % d
<1>1. q \in Nat /\ r \in 0 .. (d - 1)
  BY SMTT(30)
<1>2. q = n \div d /\ r = n % d
  OBVIOUS
<1> HIDE DEF q, r
<1>3. q \in Int /\ r \in Int /\ d \in Nat /\ d > 0
  BY <1>1
<1>4. n = q * d + r
  BY <1>2, <1>3, SMTT(30)
<1>5. QED
  BY <1>1, <1>4 DEF q, r

\* Rounding half up: the quotient is within a half, above at a tie.
LEMMA RoundedUp ==
  ASSUME NEW n \in Nat, NEW d \in Nat \ {0}
  PROVE  /\ Results!HalfUp(n, d) \in Nat
         /\ 2 * n < 2 * (Results!HalfUp(n, d) * d) + d
         /\ 2 * (Results!HalfUp(n, d) * d) <= 2 * n + d
<1> DEFINE m == 2 * n + d
           e == 2 * d
           q == Results!HalfUp(n, d)
<1>1. m \in Nat /\ e \in Nat \ {0}
  OBVIOUS
<1>2. q = m \div e
  BY DEF Results!HalfUp
<1> HIDE DEF m, e, q
<1>3. q \in Nat /\ m % e \in 0 .. (e - 1) /\ m = (q * e) + (m % e)
  BY <1>1, <1>2, Divided
<1>4. q * e = 2 * (q * d)
  BY <1>3, SMTT(30) DEF e
<1> DEFINE x == q * d
           r == m % e
<1>5. x \in Nat
  BY <1>3
<1>6. m = 2 * x + r /\ r \in 0 .. (e - 1)
  BY <1>3, <1>4
<1> HIDE DEF x, r
<1>7. 2 * n < 2 * x + d /\ 2 * x <= 2 * n + d
  BY <1>5, <1>6 DEF m, e
<1>8. QED
  BY <1>3, <1>7 DEF q, x

\* Only one number is within a half so.
LEMMA RoundedOnce ==
  ASSUME NEW n \in Nat, NEW d \in Nat \ {0}, NEW q \in Int,
         2 * n < 2 * (q * d) + d, 2 * (q * d) <= 2 * n + d
  PROVE  q = Results!HalfUp(n, d)
<1> DEFINE p == Results!HalfUp(n, d)
<1>1. p \in Nat /\ 2 * n < 2 * (p * d) + d /\ 2 * (p * d) <= 2 * n + d
  BY RoundedUp
<1> HIDE DEF p
<1> DEFINE x == q * d
           y == p * d
<1>2. x \in Int /\ y \in Int
  BY <1>1, SMTT(30)
<1>3. 2 * n < 2 * x + d /\ 2 * x <= 2 * n + d /\ 2 * n < 2 * y + d /\ 2 * y <= 2 * n + d
  BY <1>1
<1> HIDE DEF x, y
<1>4. x < y + d /\ y < x + d
  BY <1>2, <1>3
<1>5. q <= p /\ p <= q
  BY <1>1, <1>4, ProductsOrdered DEF x, y
<1>6. QED
  BY <1>1, <1>5 DEF p

\* What is within a half, ties on both sides, is nearest.
LEMMA NearestIs ==
  ASSUME NEW n \in Nat, NEW d \in Nat \ {0}, NEW q \in Int,
         2 * n <= 2 * (q * d) + d, 2 * (q * d) <= 2 * n + d
  PROVE  q \in Results!Nearest(n, d)
<1> DEFINE k == n \div d
           r == n % d
<1>1. k \in Nat /\ r \in 0 .. (d - 1) /\ n = k * d + r
  BY Divided
<1>2. k = n \div d
  OBVIOUS
<1> HIDE DEF k, r
<1> DEFINE x == q * d
           y == k * d
<1>3. x \in Int /\ y \in Nat /\ (k + 1) * d = y + d /\ (q + 1) * d = x + d
  BY <1>1, SMTT(30)
<1>4. n = y + r /\ 2 * n <= 2 * x + d /\ 2 * x <= 2 * n + d
  BY <1>1
<1>5. q <= k + 1 /\ k <= q
  <2> DEFINE z == (k + 1) * d
  <2>1. z = y + d
    BY <1>3
  <2> HIDE DEF x, y, z
  <2>2. x < z + d /\ y < x + d
    BY <1>1, <1>3, <1>4, <2>1
  <2>3. QED
    BY <1>1, <2>2, ProductsOrdered DEF x, y, z
<1>6. 2 * (n - q * d) \in -d .. d
  <2> HIDE DEF x, y
  <2>1. 2 * (n - x) \in -d .. d
    BY <1>3, <1>4
  <2>2. QED
    BY <2>1 DEF x
<1>7. q = k \/ q = k + 1
  BY <1>1, <1>5
<1>8. QED
  BY <1>2, <1>6, <1>7 DEF Results!Nearest

\* Rounding half up gives a nearest number.
LEMMA UpIsNearest ==
  ASSUME NEW n \in Nat, NEW d \in Nat \ {0}
  PROVE  Results!HalfUp(n, d) \in Results!Nearest(n, d)
<1> DEFINE q == Results!HalfUp(n, d)
<1>1. q \in Nat /\ 2 * n < 2 * (q * d) + d /\ 2 * (q * d) <= 2 * n + d
  BY RoundedUp
<1> HIDE DEF q
<1> DEFINE x == q * d
<1>2. x \in Int
  BY <1>1, SMTT(30)
<1>3. 2 * n < 2 * x + d
  BY <1>1
<1> HIDE DEF x
<1>4. 2 * n <= 2 * x + d
  BY <1>2, <1>3
<1>5. QED
  BY <1>1, <1>4, NearestIs DEF x, q

\* It keeps the order, and a divisor more is one more.
LEMMA RoundedBetween ==
  ASSUME NEW n \in Nat, NEW m \in Nat, NEW d \in Nat \ {0}, n <= m
  PROVE  /\ Results!HalfUp(n, d) <= Results!HalfUp(m, d)
         /\ m <= n + d => Results!HalfUp(m, d) <= Results!HalfUp(n, d) + 1
<1> DEFINE p == Results!HalfUp(n, d)
           q == Results!HalfUp(m, d)
<1>1. /\ p \in Nat /\ 2 * n < 2 * (p * d) + d /\ 2 * (p * d) <= 2 * n + d
      /\ q \in Nat /\ 2 * m < 2 * (q * d) + d /\ 2 * (q * d) <= 2 * m + d
  BY RoundedUp
<1> HIDE DEF p, q
<1> DEFINE x == p * d
           y == q * d
           z == (p + 1) * d
<1>2. x \in Int /\ y \in Int /\ z = x + d
  BY <1>1, SMTT(30)
<1>3. /\ 2 * n < 2 * x + d /\ 2 * x <= 2 * n + d
      /\ 2 * m < 2 * y + d /\ 2 * y <= 2 * m + d
  BY <1>1
<1> HIDE DEF x, y, z
<1>4. x < y + d
  BY <1>2, <1>3
<1>5. m <= n + d => y < z + d
  BY <1>2, <1>3
<1>6. p <= q
  BY <1>1, <1>4, ProductsOrdered DEF x, y
<1>7. m <= n + d => q <= p + 1
  BY <1>1, <1>5, ProductsOrdered DEF y, z
<1>8. QED
  BY <1>6, <1>7 DEF p, q

\* Rounding half even gives a nearest number, the one half up or, at a tie,
\* the one below.
LEMMA RoundedEven ==
  ASSUME NEW n \in Nat, NEW d \in Nat \ {0}
  PROVE  /\ Results!HalfEven(n, d) \in Nat
         /\ Results!HalfEven(n, d) \in Results!Nearest(n, d)
         /\ Results!HalfUp(n, d) - Results!HalfEven(n, d) \in 0 .. 1
         /\ n \div d <= Results!HalfEven(n, d)
<1> DEFINE k == n \div d
           r == n % d
           up == Results!HalfUp(n, d)
           even == Results!HalfEven(n, d)
<1>1. k \in Nat /\ r \in 0 .. (d - 1) /\ n = k * d + r
  BY Divided
<1>2. up \in Nat /\ 2 * n < 2 * (up * d) + d /\ 2 * (up * d) <= 2 * n + d
  BY RoundedUp
<1>3. even = IF (2 * n) % (2 * d) = d THEN ((k + 1) \div 2) * 2 ELSE up
  BY DEF Results!HalfEven
<1>4. up \in Results!Nearest(n, d)
  BY UpIsNearest
<1>5. CASE (2 * n) % (2 * d) # d
  <2>1. k <= up
    <3> HIDE DEF k, up
    <3> DEFINE x == k * d
               y == up * d
    <3>1. x \in Int /\ y \in Int
      BY <1>1, <1>2, SMTT(30)
    <3>2. n = x + r /\ 2 * n < 2 * y + d
      BY <1>1, <1>2
    <3> HIDE DEF x, y, r
    <3>3. x < y + d
      BY <1>1, <3>1, <3>2
    <3>4. QED
      BY <1>1, <1>2, <3>3, ProductsOrdered DEF x, y
  <2>2. even = up
    BY <1>3, <1>5
  <2>3. QED
    BY <1>2, <1>4, <2>1, <2>2
<1>6. CASE (2 * n) % (2 * d) = d
  <2>1. even = ((k + 1) \div 2) * 2
    BY <1>3, <1>6
  <2>2. 2 * r = d
    <3> DEFINE m == 2 * n
               e == 2 * d
               j == m \div e
    <3>1. m \in Nat /\ e \in Nat \ {0} /\ m % e = d
      BY <1>6
    <3>2. j \in Nat /\ m = j * e + d
      <4> HIDE DEF m, e
      <4> QED BY <3>1, Divided
    <3> HIDE DEF j, k, r
    <3> DEFINE x == j * d
               y == k * d
               z == (k + 1) * d
               t == (j + 1) * d
    <3>3. x \in Nat /\ y \in Nat /\ j * e = 2 * x /\ z = y + d /\ t = x + d
      BY <1>1, <3>2, SMTT(30)
    <3>4. 2 * n = 2 * x + d /\ n = y + r
      BY <1>1, <3>2, <3>3
    <3>5. j <= k /\ k <= j
      <4> HIDE DEF x, y, z, t
      <4>1. x < y + d /\ y < x + d
        BY <1>1, <3>3, <3>4
      <4>2. QED
        BY <1>1, <3>2, <4>1, ProductsOrdered DEF x, y
    <3>6. x = y
      <4>1. j = k
        BY <1>1, <3>2, <3>5
      <4>2. QED
        BY <4>1
    <3>7. QED
      <4> HIDE DEF x, y, z, t
      <4> QED BY <1>1, <3>3, <3>4, <3>6
  <2> HIDE DEF k, r, up, even
  <2>3. even = k \/ even = k + 1
    BY <1>1, <2>1
  <2> DEFINE y == k * d
             z == (k + 1) * d
  <2>4. y \in Nat /\ z = y + d /\ n = y + r
    BY <1>1, SMTT(30)
  <2>5. even * d = y \/ even * d = z
    BY <2>3
  <2>6. 2 * n <= 2 * (even * d) + d /\ 2 * (even * d) <= 2 * n + d
    <3> DEFINE w == even * d
    <3>1. w = y \/ w = z
      BY <2>5
    <3> HIDE DEF w, y, z
    <3>2. 2 * n <= 2 * w + d /\ 2 * w <= 2 * n + d
      BY <1>1, <2>2, <2>4, <3>1
    <3>3. QED
      BY <3>2 DEF w
  <2>7. k + 1 = up
    <3>1. 2 * n < 2 * z + d /\ 2 * z <= 2 * n + d
      <4> HIDE DEF y, z
      <4> QED BY <1>1, <2>2, <2>4
    <3>2. k + 1 \in Int
      BY <1>1
    <3>3. QED
      BY <3>1, <3>2, RoundedOnce DEF up
  <2>8. even \in Nat
    BY <1>1, <2>3
  <2>9. even \in Results!Nearest(n, d)
    BY <2>6, <2>8, NearestIs
  <2>10. up - even \in 0 .. 1 /\ k <= even
    BY <1>1, <2>3, <2>7
  <2>11. QED
    BY <2>8, <2>9, <2>10 DEF up, even, k
<1>7. QED
  BY <1>5, <1>6

-----------------------------------------------------------------------------
(* The sums the four places compute.                                       *)

WeighedSum(S) == Results!MapThenSumSet(Results!Weighed, S)
WeightSum(S) == Results!MapThenSumSet(Results!Weight, S)
KeptSum(S) == Results!MapThenSumSet(Results!WeighedKept, S)
KeptWeights(S) == Results!MapThenSumSet(Results!Kept, S)
AverageSum(S) == Results!MapThenSumSet(Results!WeighedAverage, S)
PointSum(S) == Results!MapThenSumSet(Results!WeighedPoints, S)
CreditSum(S) == Results!MapThenSumSet(Results!CreditsOf, S)
ProjectedSum(S) == Results!MapThenSumSet(Results!ProjectedCredits, S)
ProjectedPointSum(S) == Results!MapThenSumSet(Results!ProjectedPoints, S)

\* The weighed scores of notes.
LEMMA WeighedSumTotal ==
  ASSUME NEW S, IsFiniteSet(S), \A x \in S : Results!Weighed(x) \in Nat
  PROVE  IsTotal(WeighedSum(S), [x \in S |-> Results!Weighed(x)], S)
<1> DEFINE v == [x \in S |-> Results!Weighed(x)]
           Body(f) == [T \in SUBSET S |->
                         IF T = {} THEN 0 ELSE Results!Weighed(Some(T)) + f[T \ {Some(T)}]]
           total == CHOOSE f : f = Body(f)
<1>1. v \in [S -> Int]
  OBVIOUS
<1>2. \A f : Body(f) = [T \in SUBSET S |-> IF T = {} THEN 0 ELSE v[Some(T)] + f[T \ {Some(T)}]]
  <2>1. \A T \in SUBSET S : T # {} => Some(T) \in S
    BY DEF Some
  <2>2. QED
    BY <2>1
<1>3. WeighedSum(S) = total[S]
  BY DEF WeighedSum, Some, Results!MapThenSumSet, Results!MapThenFoldSet
<1> HIDE DEF v, Body
<1>4. \A f : f = Body(f) <=> Sums(f, v, S)
  BY <1>2 DEF Sums
<1>5. \E f : f = Body(f)
  BY <1>1, <1>4, SumsExist
<1>6. total = Body(total)
  BY <1>5
<1> HIDE DEF total
<1>7. QED
  BY <1>3, <1>4, <1>6 DEF IsTotal, v

\* The coefficients of notes.
LEMMA WeightSumTotal ==
  ASSUME NEW S, IsFiniteSet(S), \A x \in S : Results!Weight(x) \in Nat
  PROVE  IsTotal(WeightSum(S), [x \in S |-> Results!Weight(x)], S)
<1> DEFINE v == [x \in S |-> Results!Weight(x)]
           Body(f) == [T \in SUBSET S |->
                         IF T = {} THEN 0 ELSE Results!Weight(Some(T)) + f[T \ {Some(T)}]]
           total == CHOOSE f : f = Body(f)
<1>1. v \in [S -> Int]
  OBVIOUS
<1>2. \A f : Body(f) = [T \in SUBSET S |-> IF T = {} THEN 0 ELSE v[Some(T)] + f[T \ {Some(T)}]]
  <2>1. \A T \in SUBSET S : T # {} => Some(T) \in S
    BY DEF Some
  <2>2. QED
    BY <2>1
<1>3. WeightSum(S) = total[S]
  BY DEF WeightSum, Some, Results!MapThenSumSet, Results!MapThenFoldSet
<1> HIDE DEF v, Body
<1>4. \A f : f = Body(f) <=> Sums(f, v, S)
  BY <1>2 DEF Sums
<1>5. \E f : f = Body(f)
  BY <1>1, <1>4, SumsExist
<1>6. total = Body(total)
  BY <1>5
<1> HIDE DEF total
<1>7. QED
  BY <1>3, <1>4, <1>6 DEF IsTotal, v

\* The scores of notes, weighed as a scenario keeps them.
LEMMA KeptSumTotal ==
  ASSUME NEW S, IsFiniteSet(S), \A x \in S : Results!WeighedKept(x) \in Nat
  PROVE  IsTotal(KeptSum(S), [x \in S |-> Results!WeighedKept(x)], S)
<1> DEFINE v == [x \in S |-> Results!WeighedKept(x)]
           Body(f) == [T \in SUBSET S |->
                         IF T = {} THEN 0 ELSE Results!WeighedKept(Some(T)) + f[T \ {Some(T)}]]
           total == CHOOSE f : f = Body(f)
<1>1. v \in [S -> Int]
  OBVIOUS
<1>2. \A f : Body(f) = [T \in SUBSET S |-> IF T = {} THEN 0 ELSE v[Some(T)] + f[T \ {Some(T)}]]
  <2>1. \A T \in SUBSET S : T # {} => Some(T) \in S
    BY DEF Some
  <2>2. QED
    BY <2>1
<1>3. KeptSum(S) = total[S]
  BY DEF KeptSum, Some, Results!MapThenSumSet, Results!MapThenFoldSet
<1> HIDE DEF v, Body
<1>4. \A f : f = Body(f) <=> Sums(f, v, S)
  BY <1>2 DEF Sums
<1>5. \E f : f = Body(f)
  BY <1>1, <1>4, SumsExist
<1>6. total = Body(total)
  BY <1>5
<1> HIDE DEF total
<1>7. QED
  BY <1>3, <1>4, <1>6 DEF IsTotal, v

\* The coefficients a scenario keeps.
LEMMA KeptWeightsTotal ==
  ASSUME NEW S, IsFiniteSet(S), \A x \in S : Results!Kept(x) \in Nat
  PROVE  IsTotal(KeptWeights(S), [x \in S |-> Results!Kept(x)], S)
<1> DEFINE v == [x \in S |-> Results!Kept(x)]
           Body(f) == [T \in SUBSET S |->
                         IF T = {} THEN 0 ELSE Results!Kept(Some(T)) + f[T \ {Some(T)}]]
           total == CHOOSE f : f = Body(f)
<1>1. v \in [S -> Int]
  OBVIOUS
<1>2. \A f : Body(f) = [T \in SUBSET S |-> IF T = {} THEN 0 ELSE v[Some(T)] + f[T \ {Some(T)}]]
  <2>1. \A T \in SUBSET S : T # {} => Some(T) \in S
    BY DEF Some
  <2>2. QED
    BY <2>1
<1>3. KeptWeights(S) = total[S]
  BY DEF KeptWeights, Some, Results!MapThenSumSet, Results!MapThenFoldSet
<1> HIDE DEF v, Body
<1>4. \A f : f = Body(f) <=> Sums(f, v, S)
  BY <1>2 DEF Sums
<1>5. \E f : f = Body(f)
  BY <1>1, <1>4, SumsExist
<1>6. total = Body(total)
  BY <1>5
<1> HIDE DEF total
<1>7. QED
  BY <1>3, <1>4, <1>6 DEF IsTotal, v

\* The averages of courses, weighed by their credits.
LEMMA AverageSumTotal ==
  ASSUME NEW S, IsFiniteSet(S), \A x \in S : Results!WeighedAverage(x) \in Nat
  PROVE  IsTotal(AverageSum(S), [x \in S |-> Results!WeighedAverage(x)], S)
<1> DEFINE v == [x \in S |-> Results!WeighedAverage(x)]
           Body(f) == [T \in SUBSET S |->
                         IF T = {} THEN 0 ELSE Results!WeighedAverage(Some(T)) + f[T \ {Some(T)}]]
           total == CHOOSE f : f = Body(f)
<1>1. v \in [S -> Int]
  OBVIOUS
<1>2. \A f : Body(f) = [T \in SUBSET S |-> IF T = {} THEN 0 ELSE v[Some(T)] + f[T \ {Some(T)}]]
  <2>1. \A T \in SUBSET S : T # {} => Some(T) \in S
    BY DEF Some
  <2>2. QED
    BY <2>1
<1>3. AverageSum(S) = total[S]
  BY DEF AverageSum, Some, Results!MapThenSumSet, Results!MapThenFoldSet
<1> HIDE DEF v, Body
<1>4. \A f : f = Body(f) <=> Sums(f, v, S)
  BY <1>2 DEF Sums
<1>5. \E f : f = Body(f)
  BY <1>1, <1>4, SumsExist
<1>6. total = Body(total)
  BY <1>5
<1> HIDE DEF total
<1>7. QED
  BY <1>3, <1>4, <1>6 DEF IsTotal, v

\* The points of courses, weighed.
LEMMA PointSumTotal ==
  ASSUME NEW S, IsFiniteSet(S), \A x \in S : Results!WeighedPoints(x) \in Nat
  PROVE  IsTotal(PointSum(S), [x \in S |-> Results!WeighedPoints(x)], S)
<1> DEFINE v == [x \in S |-> Results!WeighedPoints(x)]
           Body(f) == [T \in SUBSET S |->
                         IF T = {} THEN 0 ELSE Results!WeighedPoints(Some(T)) + f[T \ {Some(T)}]]
           total == CHOOSE f : f = Body(f)
<1>1. v \in [S -> Int]
  OBVIOUS
<1>2. \A f : Body(f) = [T \in SUBSET S |-> IF T = {} THEN 0 ELSE v[Some(T)] + f[T \ {Some(T)}]]
  <2>1. \A T \in SUBSET S : T # {} => Some(T) \in S
    BY DEF Some
  <2>2. QED
    BY <2>1
<1>3. PointSum(S) = total[S]
  BY DEF PointSum, Some, Results!MapThenSumSet, Results!MapThenFoldSet
<1> HIDE DEF v, Body
<1>4. \A f : f = Body(f) <=> Sums(f, v, S)
  BY <1>2 DEF Sums
<1>5. \E f : f = Body(f)
  BY <1>1, <1>4, SumsExist
<1>6. total = Body(total)
  BY <1>5
<1> HIDE DEF total
<1>7. QED
  BY <1>3, <1>4, <1>6 DEF IsTotal, v

\* The credits of courses.
LEMMA CreditSumTotal ==
  ASSUME NEW S, IsFiniteSet(S), \A x \in S : Results!CreditsOf(x) \in Nat
  PROVE  IsTotal(CreditSum(S), [x \in S |-> Results!CreditsOf(x)], S)
<1> DEFINE v == [x \in S |-> Results!CreditsOf(x)]
           Body(f) == [T \in SUBSET S |->
                         IF T = {} THEN 0 ELSE Results!CreditsOf(Some(T)) + f[T \ {Some(T)}]]
           total == CHOOSE f : f = Body(f)
<1>1. v \in [S -> Int]
  OBVIOUS
<1>2. \A f : Body(f) = [T \in SUBSET S |-> IF T = {} THEN 0 ELSE v[Some(T)] + f[T \ {Some(T)}]]
  <2>1. \A T \in SUBSET S : T # {} => Some(T) \in S
    BY DEF Some
  <2>2. QED
    BY <2>1
<1>3. CreditSum(S) = total[S]
  BY DEF CreditSum, Some, Results!MapThenSumSet, Results!MapThenFoldSet
<1> HIDE DEF v, Body
<1>4. \A f : f = Body(f) <=> Sums(f, v, S)
  BY <1>2 DEF Sums
<1>5. \E f : f = Body(f)
  BY <1>1, <1>4, SumsExist
<1>6. total = Body(total)
  BY <1>5
<1> HIDE DEF total
<1>7. QED
  BY <1>3, <1>4, <1>6 DEF IsTotal, v

\* The projected averages of courses, weighed.
LEMMA ProjectedSumTotal ==
  ASSUME NEW S, IsFiniteSet(S), \A x \in S : Results!ProjectedCredits(x) \in Nat
  PROVE  IsTotal(ProjectedSum(S), [x \in S |-> Results!ProjectedCredits(x)], S)
<1> DEFINE v == [x \in S |-> Results!ProjectedCredits(x)]
           Body(f) == [T \in SUBSET S |->
                         IF T = {} THEN 0 ELSE Results!ProjectedCredits(Some(T)) + f[T \ {Some(T)}]]
           total == CHOOSE f : f = Body(f)
<1>1. v \in [S -> Int]
  OBVIOUS
<1>2. \A f : Body(f) = [T \in SUBSET S |-> IF T = {} THEN 0 ELSE v[Some(T)] + f[T \ {Some(T)}]]
  <2>1. \A T \in SUBSET S : T # {} => Some(T) \in S
    BY DEF Some
  <2>2. QED
    BY <2>1
<1>3. ProjectedSum(S) = total[S]
  BY DEF ProjectedSum, Some, Results!MapThenSumSet, Results!MapThenFoldSet
<1> HIDE DEF v, Body
<1>4. \A f : f = Body(f) <=> Sums(f, v, S)
  BY <1>2 DEF Sums
<1>5. \E f : f = Body(f)
  BY <1>1, <1>4, SumsExist
<1>6. total = Body(total)
  BY <1>5
<1> HIDE DEF total
<1>7. QED
  BY <1>3, <1>4, <1>6 DEF IsTotal, v

\* The points of the projected grades, weighed.
LEMMA ProjectedPointSumTotal ==
  ASSUME NEW S, IsFiniteSet(S), \A x \in S : Results!ProjectedPoints(x) \in Nat
  PROVE  IsTotal(ProjectedPointSum(S), [x \in S |-> Results!ProjectedPoints(x)], S)
<1> DEFINE v == [x \in S |-> Results!ProjectedPoints(x)]
           Body(f) == [T \in SUBSET S |->
                         IF T = {} THEN 0 ELSE Results!ProjectedPoints(Some(T)) + f[T \ {Some(T)}]]
           total == CHOOSE f : f = Body(f)
<1>1. v \in [S -> Int]
  OBVIOUS
<1>2. \A f : Body(f) = [T \in SUBSET S |-> IF T = {} THEN 0 ELSE v[Some(T)] + f[T \ {Some(T)}]]
  <2>1. \A T \in SUBSET S : T # {} => Some(T) \in S
    BY DEF Some
  <2>2. QED
    BY <2>1
<1>3. ProjectedPointSum(S) = total[S]
  BY DEF ProjectedPointSum, Some, Results!MapThenSumSet, Results!MapThenFoldSet
<1> HIDE DEF v, Body
<1>4. \A f : f = Body(f) <=> Sums(f, v, S)
  BY <1>2 DEF Sums
<1>5. \E f : f = Body(f)
  BY <1>1, <1>4, SumsExist
<1>6. total = Body(total)
  BY <1>5
<1> HIDE DEF total
<1>7. QED
  BY <1>3, <1>4, <1>6 DEF IsTotal, v

-----------------------------------------------------------------------------
(* Grades.                                                                 *)

Scale == {"A", "B", "C", "D", "FX", "F"}

\* The scale of the grades, read off its definition.
LEMMA ScaleIs ==
  /\ DOMAIN Results!Floor = Scale
  /\ DOMAIN Results!Points = Scale \cup {"E"}
  /\ \A g \in Scale : Results!Floor[g] \in Nat
  /\ \A g \in DOMAIN Results!Points : Results!Points[g] \in Nat
  /\ \A g, h \in Scale : Results!Floor[g] <= Results!Floor[h] => Results!Points[g] <= Results!Points[h]
  /\ \A g \in Scale : Results!Floor[g] >= 1000 <=> g \in Results!Validating
  /\ Results!Validating \subseteq DOMAIN Results!Points /\ "E" \in Results!Validating
  /\ Results!Floor["D"] = 1000 /\ Results!Floor["F"] = 0
BY DEF Scale, Results!Floor, Results!Points, Results!Validating

\* The highest grade whose floor is reached.
LEMMA GradeIs ==
  ASSUME NEW n \in Nat, NEW d \in Nat \ {0}, NEW resit \in BOOLEAN,
         ~(resit /\ n >= Results!Floor["D"] * d)
  PROVE  LET g == Results!GradeOf(n, d, resit)
         IN  /\ g \in Scale /\ Results!Floor[g] * d <= n
             /\ \A h \in Scale : Results!Floor[h] * d <= n => Results!Floor[h] <= Results!Floor[g]
<1> DEFINE Highest(g) == /\ Results!Floor[g] * d <= n
                         /\ \A h \in Scale : Results!Floor[h] * d <= n =>
                               Results!Floor[h] <= Results!Floor[g]
<1>1. Results!GradeOf(n, d, resit) = CHOOSE g \in Scale : Highest(g)
  BY ScaleIs DEF Results!GradeOf
<1>2. \E g \in Scale : Highest(g)
  <2>1. /\ Results!Floor["A"] = 1700 /\ Results!Floor["B"] = 1400 /\ Results!Floor["C"] = 1200
        /\ Results!Floor["D"] = 1000 /\ Results!Floor["FX"] = 500 /\ Results!Floor["F"] = 0
    BY DEF Results!Floor
  <2>2. \A h \in Scale : h = "A" \/ h = "B" \/ h = "C" \/ h = "D" \/ h = "FX" \/ h = "F"
    BY DEF Scale
  <2>3. CASE 1700 * d <= n
    <3>1. Highest("A")
      BY <2>1, <2>2, <2>3
    <3>2. QED
      BY <3>1 DEF Scale
  <2>4. CASE ~(1700 * d <= n) /\ 1400 * d <= n
    <3>1. Highest("B")
      BY <2>1, <2>2, <2>4
    <3>2. QED
      BY <3>1 DEF Scale
  <2>5. CASE ~(1400 * d <= n) /\ 1200 * d <= n
    <3>1. Highest("C")
      BY <2>1, <2>2, <2>5
    <3>2. QED
      BY <3>1 DEF Scale
  <2>6. CASE ~(1200 * d <= n) /\ 1000 * d <= n
    <3>1. Highest("D")
      BY <2>1, <2>2, <2>6
    <3>2. QED
      BY <3>1 DEF Scale
  <2>7. CASE ~(1000 * d <= n) /\ 500 * d <= n
    <3>1. Highest("FX")
      BY <2>1, <2>2, <2>7
    <3>2. QED
      BY <3>1 DEF Scale
  <2>8. CASE ~(500 * d <= n)
    <3>1. Highest("F")
      BY <2>1, <2>2, <2>8
    <3>2. QED
      BY <3>1 DEF Scale
  <2>9. QED
    BY <2>3, <2>4, <2>5, <2>6, <2>7, <2>8
<1> DEFINE g == CHOOSE g \in Scale : Highest(g)
<1>3. g \in Scale /\ Highest(g)
  <2> HIDE DEF Highest
  <2> QED BY <1>2
<1> HIDE DEF g
<1>4. QED
  BY <1>1, <1>3 DEF g

\* A grade has points.
LEMMA GradeTyped ==
  ASSUME NEW n \in Nat, NEW d \in Nat \ {0}, NEW resit \in BOOLEAN
  PROVE  Results!GradeOf(n, d, resit) \in DOMAIN Results!Points
<1>1. CASE resit /\ n >= Results!Floor["D"] * d
  BY <1>1, ScaleIs DEF Results!GradeOf
<1>2. CASE ~(resit /\ n >= Results!Floor["D"] * d)
  BY <1>2, GradeIs, ScaleIs
<1>3. QED
  BY <1>1, <1>2

\* A grade validates from 10 on.
LEMMA GradeValidates ==
  ASSUME NEW n \in Nat, NEW resit \in BOOLEAN
  PROVE  Results!GradeOf(n, 1, resit) \in Results!Validating <=> n >= Results!Floor["D"]
<1>1. CASE resit /\ n >= Results!Floor["D"] * 1
  BY <1>1, ScaleIs DEF Results!GradeOf
<1>2. CASE ~(resit /\ n >= Results!Floor["D"] * 1)
  <2> DEFINE g == Results!GradeOf(n, 1, resit)
  <2>1. /\ g \in Scale /\ Results!Floor[g] * 1 <= n
        /\ \A h \in Scale : Results!Floor[h] * 1 <= n => Results!Floor[h] <= Results!Floor[g]
    BY <1>2, GradeIs
  <2> HIDE DEF g
  <2>2. Results!Floor[g] \in Nat /\ Results!Floor[g] <= n /\ "D" \in Scale
    BY <2>1, ScaleIs DEF Scale
  <2>3. n >= 1000 => Results!Floor[g] >= 1000
    BY <2>1, <2>2, ScaleIs
  <2>4. QED
    BY <2>1, <2>2, <2>3, ScaleIs DEF g
<1>3. QED
  BY <1>1, <1>2

\* The exact mean is not graded better than a number that is not below it.
LEMMA GradesCompared ==
  ASSUME NEW n \in Nat, NEW d \in Nat \ {0}, NEW m \in Nat, n \div d <= m
  PROVE  Results!Points[Results!GradeOf(n, d, FALSE)] <= Results!Points[Results!GradeOf(m, 1, FALSE)]
<1> DEFINE g == Results!GradeOf(n, d, FALSE)
           h == Results!GradeOf(m, 1, FALSE)
           k == n \div d
           r == n % d
           f == Results!Floor[g]
<1>0. 1 \in Nat \ {0} /\ FALSE \in BOOLEAN
  OBVIOUS
<1>1. g \in Scale /\ f * d <= n
  BY <1>0, GradeIs
<1>2. h \in Scale /\ \A j \in Scale : Results!Floor[j] * 1 <= m => Results!Floor[j] <= Results!Floor[h]
  <2>1. ~(FALSE /\ m >= Results!Floor["D"] * 1)
    OBVIOUS
  <2>2. QED
    BY <1>0, <2>1, GradeIs
<1>3. k \in Nat /\ r \in 0 .. (d - 1) /\ n = k * d + r /\ k <= m
  <2>1. k \in Nat /\ r \in 0 .. (d - 1) /\ n = k * d + r
    BY Divided
  <2>2. QED
    BY <2>1
<1>4. f \in Nat
  <2>1. g \in Scale
    BY <1>1
  <2> HIDE DEF g
  <2>2. QED
    BY <2>1, ScaleIs DEF f
<1> HIDE DEF k, r, f, g, h
<1>5. f <= k
  <2> DEFINE x == f * d
             y == k * d
  <2>1. x \in Nat /\ y \in Nat
    BY <1>3, <1>4
  <2>2. x <= n /\ n = y + r
    BY <1>1, <1>3
  <2> HIDE DEF x, y
  <2>3. x < y + d
    BY <1>3, <2>1, <2>2
  <2>4. QED
    BY <1>3, <1>4, <2>3, ProductsOrdered DEF x, y
<1>6. Results!Floor[g] <= m /\ Results!Floor[g] \in Nat
  BY <1>3, <1>4, <1>5 DEF f
<1>7. Results!Floor[g] <= Results!Floor[h]
  BY <1>1, <1>2, <1>6
<1>8. Results!Points[g] <= Results!Points[h]
  BY <1>1, <1>2, <1>7, ScaleIs
<1>9. QED
  BY <1>8 DEF g, h

-----------------------------------------------------------------------------
(* Notes and courses.                                                      *)

\* What the notes of a course are.
LEMMA NotesTyped ==
  ASSUME Results!TypeOK
  PROVE  /\ \A i \in DOMAIN notes :
               /\ i \in Nat /\ notes[i].course \in Courses /\ notes[i].score \in Nat
               /\ notes[i].resit \in BOOLEAN /\ notes[i].updated \in Nat
               /\ Results!Weight(i) \in Nat \ {0} /\ Results!Weighed(i) \in Nat
         /\ Results!Noted \subseteq Courses
         /\ \A c : /\ Results!NotesOf(c) \subseteq DOMAIN notes /\ IsFiniteSet(Results!NotesOf(c))
                   /\ Results!Resits(c) \subseteq Results!NotesOf(c)
                   /\ c \in Results!Noted <=> Results!NotesOf(c) # {}
<1>1. notes \in Seq(Results!Note)
  BY DEF Results!TypeOK
<1>2. ASSUME NEW i \in DOMAIN notes
      PROVE  /\ i \in Nat /\ notes[i].course \in Courses /\ notes[i].score \in Nat
             /\ notes[i].resit \in BOOLEAN /\ notes[i].updated \in Nat
             /\ Results!Weight(i) \in Nat \ {0}
  <2>1. i \in Nat /\ notes[i] \in Results!Note
    BY <1>1
  <2>2. /\ notes[i].course \in Courses /\ notes[i].score \in Scores /\ notes[i].resit \in BOOLEAN
        /\ notes[i].updated \in 1 .. MaxPublications /\ notes[i].coefficient \in Coefficients
    BY <2>1 DEF Results!Note
  <2>3. Results!Weight(i) = notes[i].coefficient
    BY DEF Results!Weight
  <2>4. notes[i].score \in Nat /\ notes[i].coefficient \in Nat \ {0}
    BY <2>2, ResultsAssumption
  <2>5. notes[i].updated \in Nat
    BY <2>2
  <2>6. QED
    BY <2>1, <2>2, <2>3, <2>4, <2>5
<1>3. \A i \in DOMAIN notes : Results!Weighed(i) \in Nat
  <2>1. ASSUME NEW i \in DOMAIN notes PROVE Results!Weighed(i) \in Nat
    <3>1. notes[i].score \in Nat /\ Results!Weight(i) \in Nat
      BY <1>2
    <3>2. QED
      BY <3>1 DEF Results!Weighed
  <2>2. QED
    BY <2>1
<1>4. IsFiniteSet(DOMAIN notes)
  BY <1>1, FS_Interval
<1>5. \A c : Results!NotesOf(c) \subseteq DOMAIN notes /\ IsFiniteSet(Results!NotesOf(c))
  BY <1>4, FS_Subset DEF Results!NotesOf
<1>6. QED
  BY <1>2, <1>3, <1>5 DEF Results!Noted, Results!NotesOf, Results!Resits

\* The resit that counts is one of them.
LatestAmong(i, S) ==
  \A j \in S : \/ notes[j].updated < notes[i].updated
               \/ notes[j].updated = notes[i].updated /\ j <= i

\* The resit that counts is a resit of the course.
LEMMA LatestIs ==
  ASSUME Results!TypeOK, NEW c, Results!Resits(c) # {}
  PROVE  Results!Latest(c) \in Results!Resits(c)
<1> DEFINE S == Results!Resits(c)
           lt == {ij \in S \X S : \/ notes[ij[1]].updated < notes[ij[2]].updated
                                  \/ notes[ij[1]].updated = notes[ij[2]].updated /\ ij[1] < ij[2]}
<1>1. IsFiniteSet(S) /\ \A i \in S : i \in Nat /\ notes[i].updated \in Nat
  BY NotesTyped, FS_Subset
<1>2. \A i, j \in S : <<i, j>> \in lt <=>
         \/ notes[i].updated < notes[j].updated
         \/ notes[i].updated = notes[j].updated /\ i < j
  OBVIOUS
<1>3. Results!Latest(c) = CHOOSE i \in S : LatestAmong(i, S)
  BY DEF Results!Latest, LatestAmong
<1>4. S # {}
  OBVIOUS
<1> HIDE DEF S, lt
<1>5. Orders(lt, S)
  BY <1>1, <1>2 DEF Orders
<1>6. PICK i \in S : \A j \in S \ {i} : <<j, i>> \in lt
  BY <1>1, <1>4, <1>5, LastElement
<1>7. ASSUME NEW j \in S
      PROVE  \/ notes[j].updated < notes[i].updated
             \/ notes[j].updated = notes[i].updated /\ j <= i
  <2>1. CASE j = i
    BY <1>1, <2>1
  <2>2. CASE j # i
    <3>1. <<j, i>> \in lt
      BY <1>6, <2>2
    <3>2. \/ notes[j].updated < notes[i].updated
          \/ notes[j].updated = notes[i].updated /\ j < i
      BY <1>2, <3>1
    <3>3. QED
      BY <1>1, <3>2
  <2>3. QED
    BY <2>1, <2>2
<1>8. LatestAmong(i, S)
  BY <1>7 DEF LatestAmong
<1>9. QED
  BY <1>3, <1>8 DEF S

\* The average of a course that has notes is a number.
LEMMA AverageTyped ==
  ASSUME Results!TypeOK, NEW c \in Courses
  PROVE  /\ c \in Results!Noted => Results!Average(c) \in Nat /\ Results!Average(c) # Unset
         /\ c \notin Results!Noted => Results!Average(c) = Unset
         /\ c \in Results!Noted => /\ WeighedSum(Results!NotesOf(c)) \in Nat
                                   /\ WeightSum(Results!NotesOf(c)) \in Nat \ {0}
<1> DEFINE S == Results!NotesOf(c)
<1>1. /\ IsFiniteSet(S) /\ (c \in Results!Noted <=> S # {})
      /\ \A i \in S : Results!Weighed(i) \in Nat /\ Results!Weight(i) \in Nat /\ Results!Weight(i) > 0
      /\ \A i \in S : notes[i].score \in Nat
      /\ Results!Resits(c) \subseteq S
  BY NotesTyped
<1>2. ASSUME S # {} PROVE WeighedSum(S) \in Nat /\ WeightSum(S) \in Nat \ {0}
  <2> HIDE DEF S
  <2>1. IsTotal(WeighedSum(S), [x \in S |-> Results!Weighed(x)], S)
    BY <1>1, WeighedSumTotal
  <2>2. IsTotal(WeightSum(S), [x \in S |-> Results!Weight(x)], S)
    BY <1>1, WeightSumTotal
  <2>3. WeighedSum(S) \in Nat
    BY <1>1, <2>1, TotalTyped
  <2>4. WeightSum(S) \in Nat /\ WeightSum(S) > 0
    <3> DEFINE v == [x \in S |-> Results!Weight(x)]
    <3>1. v \in [S -> Nat] /\ \A x \in S : v[x] > 0
      BY <1>1
    <3> HIDE DEF v
    <3>2. QED
      BY <1>1, <1>2, <2>2, <3>1, TotalTyped DEF v
  <2>5. QED
    BY <2>3, <2>4
<1>3. c \notin Results!Noted => Results!Average(c) = Unset
  BY <1>1 DEF Results!Average
<1>4. ASSUME c \in Results!Noted PROVE Results!Average(c) \in Nat
  <2>1. S # {}
    BY <1>1, <1>4
  <2>2. CASE Results!Resits(c) # {}
    <3>1. Results!Latest(c) \in S
      BY <1>1, <2>2, LatestIs
    <3>2. Results!Average(c) = notes[Results!Latest(c)].score
      BY <2>1, <2>2 DEF Results!Average
    <3>3. QED
      BY <1>1, <3>1, <3>2
  <2>3. CASE Results!Resits(c) = {}
    <3>1. Results!Average(c) = Results!HalfEven(WeighedSum(S), WeightSum(S))
      BY <2>1, <2>3 DEF Results!Average, WeighedSum, WeightSum
    <3>2. QED
      BY <1>2, <2>1, <3>1, RoundedEven
  <2>4. QED
    BY <2>2, <2>3
<1>5. QED
  BY <1>1, <1>2, <1>3, <1>4, ScheduleAssumption

\* A grade of the dashboard has points.
LEMMA GradesTyped ==
  ASSUME Results!TypeOK, NEW c \in Courses
  PROVE  /\ Results!OfficialGrade(c) # Unset => Results!OfficialGrade(c) \in DOMAIN Results!Points
         /\ Results!Grade(c) # Unset => Results!Grade(c) \in DOMAIN Results!Points
         /\ c \in Results!Noted => Results!Grade(c) # Unset
         /\ courses[c] # Unset => Results!CreditsOf(c) \in Nat \ {0}
<1>1. courses[c] # Unset => courses[c] \in Results!Course
  BY DEF Results!TypeOK
<1>2. Results!OfficialGrade(c) # Unset => Results!OfficialGrade(c) \in DOMAIN Results!Points
  BY <1>1, ResultsAssumption DEF Results!OfficialGrade, Results!Course
<1>3. courses[c] # Unset => Results!CreditsOf(c) \in Nat \ {0}
  BY <1>1, ResultsAssumption DEF Results!CreditsOf, Results!Course
<1>4. ASSUME Results!OfficialGrade(c) = Unset, Results!Average(c) # Unset
      PROVE  Results!Grade(c) \in DOMAIN Results!Points
  <2>1. Results!Average(c) \in Nat
    BY <1>4, AverageTyped
  <2>2. Results!Grade(c) = Results!GradeOf(Results!Average(c), 1, Results!Resits(c) # {})
    BY <1>4 DEF Results!Grade
  <2>3. 1 \in Nat \ {0} /\ (Results!Resits(c) # {}) \in BOOLEAN
    OBVIOUS
  <2>4. QED
    BY <2>1, <2>2, <2>3, GradeTyped
<1>5. Results!Grade(c) # Unset => Results!Grade(c) \in DOMAIN Results!Points
  BY <1>2, <1>4 DEF Results!Grade
<1>6. c \in Results!Noted => Results!Grade(c) # Unset
  BY <1>2, <1>4, AverageTyped, ResultsAssumption DEF Results!Grade
<1>7. QED
  BY <1>2, <1>3, <1>5, <1>6

-----------------------------------------------------------------------------
(* The four places agree.                                                  *)

\* The courses each place counts.
LEMMA CoursesCounted ==
  ASSUME Results!TypeOK
  PROVE  /\ Results!Averaged = {c \in Courses : courses[c] # Unset /\ c \in Results!Noted}
         /\ Results!GradedRows = Results!Graded
         /\ \A c \in Courses : courses[c] # Unset /\ c \in Results!Noted => c \in Results!Graded
         /\ Results!Eligible => /\ Results!Basis = Results!Averaged
                                /\ Results!Graded \subseteq Results!Noted =>
                                      Results!Basis = Results!Graded
<1>1. Results!Averaged = {c \in Courses : courses[c] # Unset /\ c \in Results!Noted}
  BY AverageTyped DEF Results!Averaged
<1>2. Results!GradedRows = Results!Graded
  BY DEF Results!GradedRows, Results!Graded, Results!WithCredits, Results!Imported
<1>3. \A c \in Courses : courses[c] # Unset /\ c \in Results!Noted => c \in Results!Graded
  BY GradesTyped DEF Results!Graded
<1>4. Results!Noted \subseteq Courses
  BY NotesTyped
<1>5. ASSUME Results!Eligible
      PROVE  /\ Results!Basis = Results!Averaged
             /\ Results!Graded \subseteq Results!Noted => Results!Basis = Results!Graded
  <2>1. Results!Basis = Results!Noted /\ \A c \in Results!Noted : courses[c] # Unset
    BY <1>5 DEF Results!Eligible, Results!Basis
  <2>2. QED
    BY <1>1, <1>3, <1>4, <2>1 DEF Results!Graded
<1>6. QED
  BY <1>1, <1>2, <1>3, <1>5

\* Where an account has a score, it is that of its dashboard.
LEMMA BoardAgreesWith ==
  ASSUME Results!TypeOK
  PROVE  Results!BoardAgrees
<1>1. /\ Results!BoardAverage = Results!Nearest(AverageSum(Results!Basis), CreditSum(Results!Basis))
      /\ Results!BoardGpa = Results!Nearest(PointSum(Results!Basis), CreditSum(Results!Basis))
      /\ Results!DashboardAverage =
            Results!Nearest(AverageSum(Results!Averaged), CreditSum(Results!Averaged))
      /\ Results!DashboardGpa = Results!Nearest(PointSum(Results!Graded), CreditSum(Results!Graded))
  BY DEF Results!BoardAverage, Results!BoardGpa, Results!DashboardAverage, Results!DashboardGpa,
     AverageSum, PointSum, CreditSum
<1>2. QED
  BY <1>1, CoursesCounted DEF Results!BoardAgrees

\* What the graded courses add up to.
LEMMA GradedSums ==
  ASSUME Results!TypeOK, NEW S \in SUBSET Results!Graded
  PROVE  /\ IsFiniteSet(S)
         /\ \A c \in S : Results!CreditsOf(c) \in Nat \ {0} /\ Results!WeighedPoints(c) \in Nat
         /\ IsTotal(CreditSum(S), [c \in S |-> Results!CreditsOf(c)], S)
         /\ IsTotal(PointSum(S), [c \in S |-> Results!WeighedPoints(c)], S)
         /\ PointSum(S) \in Nat /\ CreditSum(S) \in Nat /\ (S # {} => CreditSum(S) \in Nat \ {0})
<1>1. IsFiniteSet(S) /\ S \subseteq Courses
  BY FS_Subset, ResultsAssumption DEF Results!Graded
<1>2. ASSUME NEW c \in S
      PROVE  Results!CreditsOf(c) \in Nat \ {0} /\ Results!WeighedPoints(c) \in Nat
  <2>1. c \in Courses /\ courses[c] # Unset /\ Results!Grade(c) # Unset
    BY DEF Results!Graded
  <2>2. Results!CreditsOf(c) \in Nat \ {0} /\ Results!Points[Results!Grade(c)] \in Nat
    BY <2>1, GradesTyped, ScaleIs
  <2>3. QED
    BY <2>2 DEF Results!WeighedPoints
<1>3. IsTotal(CreditSum(S), [c \in S |-> Results!CreditsOf(c)], S)
  BY <1>1, <1>2, CreditSumTotal
<1>4. IsTotal(PointSum(S), [c \in S |-> Results!WeighedPoints(c)], S)
  BY <1>1, <1>2, PointSumTotal
<1>5. PointSum(S) \in Nat
  BY <1>1, <1>2, <1>4, TotalTyped
<1>6. CreditSum(S) \in Nat /\ (S # {} => CreditSum(S) > 0)
  <2> DEFINE v == [c \in S |-> Results!CreditsOf(c)]
  <2>1. v \in [S -> Nat] /\ \A x \in S : v[x] > 0
    BY <1>2
  <2> HIDE DEF v
  <2>2. QED
    BY <1>1, <1>3, <2>1, TotalTyped DEF v
<1>7. QED
  BY <1>1, <1>2, <1>3, <1>4, <1>5, <1>6

\* Half up is one of the nearest hundredths.
LEMMA ScenarioAgreesWith ==
  ASSUME Results!TypeOK
  PROVE  Results!ScenarioAgrees
<1> DEFINE S == Results!Graded
<1>1. /\ Results!ScenarioGpa = Results!HalfUp(PointSum(S), CreditSum(S))
      /\ Results!DashboardGpa = Results!Nearest(PointSum(S), CreditSum(S))
  <2>1. Results!ScenarioGpa =
          Results!HalfUp(PointSum(Results!GradedRows), CreditSum(Results!GradedRows))
    BY DEF Results!ScenarioGpa, PointSum, CreditSum
  <2>2. Results!DashboardGpa = Results!Nearest(PointSum(S), CreditSum(S))
    BY DEF Results!DashboardGpa, PointSum, CreditSum
  <2>3. QED
    BY <2>1, <2>2, CoursesCounted
<1>2. S # {} => PointSum(S) \in Nat /\ CreditSum(S) \in Nat \ {0}
  BY GradedSums
<1>3. QED
  BY <1>1, <1>2, UpIsNearest DEF Results!ScenarioAgrees

\* A course is validated by its grade, published or computed.
LEMMA GradesValidate ==
  ASSUME Results!TypeOK
  PROVE  Results!ValidatedByGrade
<1> SUFFICES ASSUME NEW c \in Courses
             PROVE  Results!Validated(c) <=> Results!Grade(c) \in Results!Validating
  BY DEF Results!ValidatedByGrade
<1>1. CASE Results!OfficialGrade(c) # Unset
  BY <1>1 DEF Results!Validated, Results!Grade
<1>2. CASE Results!OfficialGrade(c) = Unset /\ Results!Average(c) = Unset
  <2>1. Unset \notin Results!Validating
    BY ResultsAssumption, ScaleIs
  <2>2. QED
    BY <1>2, <2>1 DEF Results!Validated, Results!Grade
<1>3. CASE Results!OfficialGrade(c) = Unset /\ Results!Average(c) # Unset
  <2>1. Results!Average(c) \in Nat
    BY <1>3, AverageTyped
  <2>2. Results!Grade(c) = Results!GradeOf(Results!Average(c), 1, Results!Resits(c) # {})
    BY <1>3 DEF Results!Grade
  <2>3. Results!Validated(c) <=> Results!Average(c) >= Results!Floor["D"]
    BY <1>3 DEF Results!Validated
  <2>4. QED
    BY <2>1, <2>2, <2>3, GradeValidates
<1>4. QED
  BY <1>1, <1>2, <1>3

-----------------------------------------------------------------------------
(* A scenario of notes.                                                    *)

\* The last assessment is a resit when there is one.
LEMMA LastAssessment ==
  ASSUME Results!TypeOK, NEW c, Results!Resits(c) # {}
  PROVE  Results!Last(Results!Assessments(c)) \in Results!Resits(c)
<1> DEFINE S == Results!NotesOf(c)
           n == Cardinality(S)
           lt == {ij \in S \X S : Results!FirstAssessed(ij[1], ij[2])}
           s == Results!Assessments(c)
<1>1. /\ IsFiniteSet(S) /\ Results!Resits(c) \subseteq S
      /\ \A i \in S : i \in Nat /\ notes[i].resit \in BOOLEAN
  BY NotesTyped
<1>2. \A i \in S : i \in Results!Resits(c) <=> notes[i].resit
  BY DEF Results!Resits
<1>3. \A i, j \in S : <<i, j>> \in lt <=>
         \/ ~notes[i].resit /\ notes[j].resit
         \/ notes[i].resit = notes[j].resit /\ i < j
  BY DEF Results!FirstAssessed
<1>4. \A t : SortedBy(t, lt, S) <=>
         /\ t \in [1 .. n -> S]
         /\ \A i, j \in DOMAIN t : i < j => Results!FirstAssessed(t[i], t[j])
  <2>1. ASSUME NEW t, t \in [1 .. n -> S]
        PROVE  \A i, j \in 1 .. n : <<t[i], t[j]>> \in lt <=> Results!FirstAssessed(t[i], t[j])
    BY <2>1
  <2>2. QED
    <3> HIDE DEF lt, S
    <3> QED BY <2>1 DEF SortedBy
<1>5. s = CHOOSE t \in [1 .. n -> S] :
            \A i, j \in DOMAIN t : i < j => Results!FirstAssessed(t[i], t[j])
  BY DEF Results!Assessments, Results!Cardinality, Cardinality
<1> HIDE DEF S, lt, s
<1>6. Orders(lt, S)
  <2>1. \A x \in S : <<x, x>> \notin lt
    BY <1>1, <1>3
  <2>2. \A x, y \in S : x # y => <<x, y>> \in lt \/ <<y, x>> \in lt
    BY <1>1, <1>3
  <2>3. \A x, y, z \in S : <<x, y>> \in lt /\ <<y, z>> \in lt => <<x, z>> \in lt
    BY <1>1, <1>3
  <2>4. QED
    BY <2>1, <2>2, <2>3 DEF Orders
<1>7. SortedBy(s, lt, S)
  BY <1>1, <1>4, <1>5, <1>6, Sortable
<1>8. n \in Nat /\ s \in [1 .. n -> S] /\ \A i, j \in 1 .. n : i < j => <<s[i], s[j]>> \in lt
  BY <1>1, <1>7, FS_CardinalityType DEF SortedBy
<1>9. PICK k \in 1 .. n : s[k] \in S /\ notes[s[k]].resit
  <2>1. PICK r \in S : notes[r].resit
    BY <1>1, <1>2
  <2>2. PICK k \in 1 .. n : s[k] = r
    BY <1>1, <1>6, <1>7, SortedCovers
  <2>3. QED
    BY <2>1, <2>2
<1>10. Results!Last(s) = s[n] /\ n \in 1 .. n
  <2>1. Len(s) = n
    BY <1>8
  <2>2. n \in 1 .. n
    BY <1>8, <1>9
  <2>3. QED
    BY <2>1, <2>2 DEF Results!Last
<1>11. s[n] \in S
  BY <1>8, <1>10
<1>12. notes[s[n]].resit
  <2>1. CASE k = n
    BY <1>9, <2>1
  <2>2. CASE k # n
    <3>1. <<s[k], s[n]>> \in lt
      BY <1>8, <1>9, <1>10, <2>2
    <3>2. QED
      BY <1>1, <1>3, <1>9, <1>11, <3>1
  <2>3. QED
    BY <2>1, <2>2
<1>13. QED
  BY <1>2, <1>10, <1>11, <1>12 DEF s

\* A coefficient of whole hundredths is kept as it is.
LEMMA CoefficientKept ==
  ASSUME NEW i, Results!Weight(i) \in Nat \ {0}, Results!Weight(i) % 10 = 0
  PROVE  Results!Kept(i) = Results!Weight(i)
<1> DEFINE w == Results!Weight(i)
           q == w \div 10
<1>1. w \in Nat \ {0} /\ w % 10 = 0
  OBVIOUS
<1> HIDE DEF w
<1>2. q \in Nat /\ w = q * 10
  BY <1>1
<1> HIDE DEF q
<1>3. q = Results!HalfUp(w, 10)
  <2>1. 10 \in Nat \ {0} /\ q \in Int /\ w \in Nat
    BY <1>1, <1>2
  <2>2. 2 * w < 2 * (q * 10) + 10 /\ 2 * (q * 10) <= 2 * w + 10
    BY <1>1, <1>2
  <2>3. QED
    BY <2>1, <2>2, RoundedOnce
<1>4. Results!HalfUp(w, 10) * 10 = w /\ w # 0
  BY <1>1, <1>2, <1>3
<1>5. QED
  BY <1>4 DEF Results!Kept, w

\* A whole number is not rounded.
LEMMA WholeKept ==
  ASSUME NEW a \in Nat
  PROVE  Results!HalfUp(a, 1) = a /\ a \in Results!Nearest(a, 1)
<1>1. 1 \in Nat \ {0} /\ a \in Int
  OBVIOUS
<1>2. 2 * a < 2 * (a * 1) + 1 /\ 2 * (a * 1) <= 2 * a + 1
  OBVIOUS
<1>3. a = Results!HalfUp(a, 1)
  BY <1>1, <1>2, RoundedOnce
<1>4. QED
  BY <1>1, <1>3, UpIsNearest

\* Two totals of the same numbers are equal.
LEMMA TotalsEqual ==
  ASSUME NEW S, IsFiniteSet(S), NEW v \in [S -> Nat], NEW a, NEW b,
         IsTotal(a, v, S), IsTotal(b, v, S)
  PROVE  a = b
<1>1. a \in Nat /\ b \in Nat
  BY TotalTyped
<1>2. \A x \in S : v[x] <= v[x] /\ v[x] <= v[x] + v[x]
  OBVIOUS
<1>3. a <= b
  BY <1>2, TotalsBetween
<1>4. b <= a
  BY <1>2, TotalsBetween
<1>5. QED
  BY <1>1, <1>3, <1>4

\* Where a course is comparable, its projection is not below its average,
\* at most a hundredth above, and not better graded.
LEMMA CourseProjected ==
  ASSUME Results!TypeOK, NEW c \in Results!Noted, Results!Comparable(c)
  PROVE  /\ Results!Average(c) \in Results!Nearest(Results!Projected(c)[1], Results!Projected(c)[2])
         /\ Results!ProjectedAverage(c) - Results!Average(c) \in 0 .. 1
         /\ Results!Points[Results!ProjectedGrade(c)] <= Results!Points[Results!Grade(c)]
         /\ Results!Average(c) \in Nat /\ Results!ProjectedAverage(c) \in Nat
         /\ Results!ProjectedGrade(c) \in DOMAIN Results!Points
<1> DEFINE S == Results!NotesOf(c)
           a == Results!Average(c)
           resat == Results!Resits(c) # {}
<1>1. /\ c \in Courses /\ S # {} /\ IsFiniteSet(S) /\ Results!Resits(c) \subseteq S
      /\ \A i \in S : /\ Results!Weight(i) \in Nat \ {0} /\ Results!Weighed(i) \in Nat
                      /\ notes[i].score \in Nat
  BY NotesTyped
<1>2. /\ a \in Nat /\ a # Unset
      /\ WeighedSum(S) \in Nat /\ WeightSum(S) \in Nat \ {0}
  BY <1>1, AverageTyped
<1>3. Results!Grade(c) = Results!GradeOf(a, 1, resat)
  BY <1>2 DEF Results!Grade, Results!Comparable
<1>4. /\ Results!ProjectedAverage(c) =
            Results!HalfUp(Results!Projected(c)[1], Results!Projected(c)[2])
      /\ Results!ProjectedGrade(c) =
            Results!GradeOf(Results!Projected(c)[1], Results!Projected(c)[2], resat)
  BY DEF Results!ProjectedAverage, Results!ProjectedGrade
<1>5. 1 \in Nat \ {0} /\ resat \in BOOLEAN
  OBVIOUS
<1>6. CASE resat
  <2>1. Results!Latest(c) \in Results!Resits(c) /\ Results!Last(Results!Assessments(c)) \in Results!Resits(c)
    BY <1>6, LatestIs, LastAssessment
  <2>2. Results!Latest(c) = Results!Last(Results!Assessments(c))
    BY <2>1 DEF Results!Comparable
  <2>3. a = notes[Results!Latest(c)].score
    BY <1>1, <1>6 DEF Results!Average
  <2>4. Results!Projected(c) = <<a, 1>>
    BY <1>6, <2>2, <2>3 DEF Results!Projected
  <2> HIDE DEF a, resat
  <2>5. Results!ProjectedAverage(c) = a /\ Results!ProjectedGrade(c) = Results!Grade(c)
    BY <1>2, <1>3, <1>4, <2>4, WholeKept
  <2>6. Results!Grade(c) \in DOMAIN Results!Points
    BY <1>2, <1>3, <1>5, GradeTyped
  <2>7. Results!Points[Results!Grade(c)] \in Nat
    BY <2>6, ScaleIs
  <2>8. a \in Results!Nearest(Results!Projected(c)[1], Results!Projected(c)[2])
    BY <1>2, <2>4, WholeKept
  <2>9. a - a \in 0 .. 1 /\ Results!Points[Results!Grade(c)] <= Results!Points[Results!Grade(c)]
    BY <1>2, <2>7
  <2>10. QED
    BY <1>2, <2>5, <2>6, <2>8, <2>9 DEF a
<1>7. CASE ~resat
  <2> DEFINE n == WeighedSum(S)
             d == WeightSum(S)
  <2>1. \A i \in S : Results!Kept(i) = Results!Weight(i)
    BY <1>1, CoefficientKept DEF Results!Comparable
  <2>2. \A i \in S : Results!WeighedKept(i) = Results!Weighed(i)
    BY <2>1 DEF Results!WeighedKept, Results!Weighed
  <2>3. a = Results!HalfEven(n, d)
    BY <1>1, <1>7 DEF Results!Average, WeighedSum, WeightSum
  <2>4. Results!Projected(c) = <<KeptSum(S), KeptWeights(S)>>
    BY <1>7 DEF Results!Projected, KeptSum, KeptWeights
  <2> HIDE DEF S
  <2>5. KeptSum(S) = n
    <3> DEFINE v == [x \in S |-> Results!Weighed(x)]
    <3>1. IsTotal(n, v, S)
      BY <1>1, WeighedSumTotal
    <3>2. IsTotal(KeptSum(S), [x \in S |-> Results!WeighedKept(x)], S)
      BY <1>1, <2>2, KeptSumTotal
    <3>3. [x \in S |-> Results!WeighedKept(x)] = v /\ v \in [S -> Nat]
      BY <1>1, <2>2
    <3> HIDE DEF v, n
    <3>4. QED
      BY <1>1, <3>1, <3>2, <3>3, TotalsEqual
  <2>6. KeptWeights(S) = d
    <3> DEFINE v == [x \in S |-> Results!Weight(x)]
    <3>1. IsTotal(d, v, S)
      BY <1>1, WeightSumTotal
    <3>2. IsTotal(KeptWeights(S), [x \in S |-> Results!Kept(x)], S)
      BY <1>1, <2>1, KeptWeightsTotal
    <3>3. [x \in S |-> Results!Kept(x)] = v /\ v \in [S -> Nat]
      BY <1>1, <2>1
    <3> HIDE DEF v, d
    <3>4. QED
      BY <1>1, <3>1, <3>2, <3>3, TotalsEqual
  <2>7. Results!Projected(c)[1] = n /\ Results!Projected(c)[2] = d
    BY <2>4, <2>5, <2>6
  <2>8. n \in Nat /\ d \in Nat \ {0}
    BY <1>2
  <2> HIDE DEF n, d
  <2>9. /\ a \in Results!Nearest(n, d) /\ Results!HalfUp(n, d) - a \in 0 .. 1 /\ n \div d <= a
        /\ Results!HalfUp(n, d) \in Nat
    <3>1. Results!HalfUp(n, d) \in Nat
      BY <2>8, RoundedUp
    <3> HIDE DEF a
    <3>2. QED
      BY <2>3, <2>8, <3>1, RoundedEven
  <2>10. resat = FALSE
    BY <1>7
  <2> HIDE DEF a, resat
  <2>11. Results!Points[Results!GradeOf(n, d, FALSE)] <= Results!Points[Results!GradeOf(a, 1, FALSE)]
    BY <1>2, <2>8, <2>9, GradesCompared
  <2>12. Results!GradeOf(n, d, FALSE) \in DOMAIN Results!Points
    BY <1>5, <2>8, <2>10, GradeTyped
  <2>13. QED
    BY <1>2, <1>3, <1>4, <2>7, <2>9, <2>10, <2>11, <2>12 DEF a
<1>8. QED
  BY <1>6, <1>7

\* Where all courses are, so are the sums that the scenario starts with.
LEMMA RowsProjected ==
  ASSUME Results!TypeOK, Results!ProjectedRows # {},
         \A c \in Courses : Results!Comparable(c)
  PROVE  /\ \E average \in Results!DashboardAverage :
               Results!NotesScenarioAverage - average \in 0 .. 1
         /\ \E gpa \in Results!DashboardGpa : Results!NotesScenarioGpa <= gpa
<1> DEFINE R == Results!ProjectedRows
           credits == CreditSum(R)
<1>1. /\ R = {c \in Courses : courses[c] # Unset /\ c \in Results!Noted}
      /\ Results!Averaged = R /\ Results!Graded = R
  <2>1. Results!Noted \subseteq Courses
    BY NotesTyped
  <2>2. \A c \in Results!Noted : Results!ProjectedAverage(c) # Unset
    BY <2>1, CourseProjected, ScheduleAssumption
  <2>3. \A c \in Courses : c \notin Results!Noted => Results!ProjectedAverage(c) = Unset
    BY DEF Results!ProjectedAverage
  <2>4. R = {c \in Courses : courses[c] # Unset /\ c \in Results!Noted}
    BY <2>2, <2>3 DEF Results!ProjectedRows, Results!WithCredits, Results!Imported
  <2>5. Results!Averaged = R
    BY <2>4, CoursesCounted
  <2>6. \A c \in Courses : Results!Grade(c) # Unset => c \in Results!Noted
    BY AverageTyped DEF Results!Grade, Results!Comparable
  <2>7. \A c \in Courses : c \in Results!Noted => Results!Grade(c) # Unset
    BY GradesTyped
  <2>8. Results!Graded = R
    BY <2>4, <2>6, <2>7 DEF Results!Graded
  <2>9. QED
    BY <2>4, <2>5, <2>8
<1>2. R # {} /\ R \subseteq Courses /\ R \subseteq Results!Noted
  BY <1>1
<1>3. /\ Results!NotesScenarioAverage = Results!HalfUp(ProjectedSum(R), credits)
      /\ Results!NotesScenarioGpa = Results!HalfUp(ProjectedPointSum(R), credits)
  BY DEF Results!NotesScenarioAverage, Results!NotesScenarioGpa, ProjectedSum, ProjectedPointSum,
     CreditSum
<1>4. /\ Results!DashboardAverage =
            Results!Nearest(AverageSum(Results!Averaged), CreditSum(Results!Averaged))
      /\ Results!DashboardGpa =
            Results!Nearest(PointSum(Results!Graded), CreditSum(Results!Graded))
  BY DEF Results!DashboardAverage, Results!DashboardGpa, AverageSum, PointSum, CreditSum
<1>5. /\ Results!DashboardAverage = Results!Nearest(AverageSum(R), credits)
      /\ Results!DashboardGpa = Results!Nearest(PointSum(R), credits)
  BY <1>1, <1>4
<1>6. /\ IsFiniteSet(R) /\ credits \in Nat \ {0} /\ PointSum(R) \in Nat
      /\ \A c \in R : Results!CreditsOf(c) \in Nat \ {0} /\ Results!WeighedPoints(c) \in Nat
      /\ IsTotal(credits, [c \in R |-> Results!CreditsOf(c)], R)
      /\ IsTotal(PointSum(R), [c \in R |-> Results!WeighedPoints(c)], R)
  BY <1>1, <1>2, GradedSums
<1>7. ASSUME NEW c \in R
      PROVE  /\ Results!WeighedAverage(c) \in Nat /\ Results!ProjectedCredits(c) \in Nat
             /\ Results!ProjectedPoints(c) \in Nat
             /\ Results!WeighedAverage(c) <= Results!ProjectedCredits(c)
             /\ Results!ProjectedCredits(c) <= Results!WeighedAverage(c) + Results!CreditsOf(c)
             /\ Results!ProjectedPoints(c) <= Results!WeighedPoints(c)
  <2> DEFINE a == Results!Average(c)
             b == Results!ProjectedAverage(c)
             k == Results!CreditsOf(c)
             p == Results!Points[Results!ProjectedGrade(c)]
             q == Results!Points[Results!Grade(c)]
  <2>1. a \in Nat /\ b \in Nat /\ b - a \in 0 .. 1 /\ p <= q /\ p \in Nat
    BY <1>2, CourseProjected, ScaleIs
  <2>2. k \in Nat \ {0}
    BY <1>6
  <2>3. q \in Nat
    BY <1>2, GradesTyped, ScaleIs
  <2>4. /\ Results!WeighedAverage(c) = a * k /\ Results!ProjectedCredits(c) = b * k
        /\ Results!ProjectedPoints(c) = p * k /\ Results!WeighedPoints(c) = q * k
    BY DEF Results!WeighedAverage, Results!ProjectedCredits, Results!ProjectedPoints,
       Results!WeighedPoints
  <2> HIDE DEF a, b, k, p, q
  <2>5. a * k \in Nat /\ b * k \in Nat /\ p * k \in Nat
    BY <2>1, <2>2, SMTT(30)
  <2>6. a * k <= b * k /\ p * k <= q * k
    BY <2>1, <2>2, <2>3, ProductsOrdered
  <2>7. b * k <= a * k + k
    <3>1. b = a \/ b = a + 1
      BY <2>1
    <3>2. (a + 1) * k = a * k + k
      BY <2>1, <2>2, SMTT(30)
    <3>3. CASE b = a
      <4> DEFINE x == a * k
      <4>1. x \in Nat
        BY <2>5
      <4>2. x <= x + k
        <5> HIDE DEF x
        <5> QED BY <2>2, <4>1
      <4>3. QED
        BY <3>3, <4>2
    <3>4. CASE b = a + 1
      <4> DEFINE y == b * k
      <4>1. y \in Nat /\ y = a * k + k
        BY <2>5, <3>2, <3>4
      <4>2. y <= y
        <5> HIDE DEF y
        <5> QED BY <4>1
      <4>3. QED
        BY <4>1, <4>2
    <3>5. QED
      BY <3>1, <3>3, <3>4
  <2>8. QED
    BY <2>4, <2>5, <2>6, <2>7 DEF k
<1> HIDE DEF R
<1>8. \E average \in Results!DashboardAverage : Results!NotesScenarioAverage - average \in 0 .. 1
  <2> DEFINE n == AverageSum(R)
             m == ProjectedSum(R)
             v == [c \in R |-> Results!WeighedAverage(c)]
             w == [c \in R |-> Results!ProjectedCredits(c)]
             u == [c \in R |-> Results!CreditsOf(c)]
  <2>1. IsTotal(n, v, R)
    BY <1>6, <1>7, AverageSumTotal
  <2>2. IsTotal(m, w, R)
    BY <1>6, <1>7, ProjectedSumTotal
  <2>3. IsTotal(credits, u, R)
    BY <1>6
  <2>4. /\ v \in [R -> Nat] /\ w \in [R -> Nat] /\ u \in [R -> Nat]
        /\ \A c \in R : v[c] <= w[c] /\ w[c] <= v[c] + u[c]
    BY <1>6, <1>7
  <2> HIDE DEF credits, n, m, v, w, u
  <2>5. n <= m /\ m <= n + credits /\ n \in Nat /\ m \in Nat
    <3>1. n <= m /\ m <= n + credits
      BY <1>6, <2>1, <2>2, <2>3, <2>4, TotalsBetween
    <3>2. n \in Nat
      BY <1>6, <2>1, <2>4, TotalTyped
    <3>3. m \in Nat
      BY <1>6, <2>2, <2>4, TotalTyped
    <3>4. QED
      BY <3>1, <3>2, <3>3
  <2> DEFINE f == Results!HalfUp(n, credits)
             g == Results!HalfUp(m, credits)
  <2>6. f <= g /\ g <= f + 1 /\ f \in Nat /\ g \in Nat
    BY <1>6, <2>5, RoundedBetween, RoundedUp
  <2>7. f \in Results!Nearest(n, credits)
    BY <1>6, <2>5, UpIsNearest
  <2>8. g - f \in 0 .. 1
    <3> HIDE DEF f, g
    <3> QED BY <2>6
  <2>9. QED
    BY <1>3, <1>5, <2>7, <2>8 DEF n, m
<1>9. \E gpa \in Results!DashboardGpa : Results!NotesScenarioGpa <= gpa
  <2> DEFINE n == ProjectedPointSum(R)
             m == PointSum(R)
             v == [c \in R |-> Results!ProjectedPoints(c)]
             w == [c \in R |-> Results!WeighedPoints(c)]
  <2>1. IsTotal(n, v, R)
    BY <1>6, <1>7, ProjectedPointSumTotal
  <2>2. IsTotal(m, w, R)
    BY <1>6
  <2>3. /\ v \in [R -> Nat] /\ w \in [R -> Nat]
        /\ \A c \in R : v[c] <= w[c] /\ w[c] <= v[c] + w[c]
    <3>1. \A c \in R : /\ v[c] = Results!ProjectedPoints(c) /\ w[c] = Results!WeighedPoints(c)
                       /\ v[c] \in Nat /\ w[c] \in Nat
      BY <1>6, <1>7
    <3>2. v \in [R -> Nat] /\ w \in [R -> Nat]
      BY <1>6, <1>7
    <3>3. \A c \in R : v[c] <= w[c]
      BY <1>7, <3>1
    <3> HIDE DEF v, w
    <3>4. QED
      BY <3>1, <3>2, <3>3
  <2> HIDE DEF credits, n, m, v, w
  <2>4. n <= m
    BY <1>6, <2>1, <2>2, <2>3, TotalsBetween
  <2>5. n \in Nat /\ m \in Nat
    BY <1>6, <2>1, <2>2, <2>3, TotalTyped
  <2>6. Results!HalfUp(n, credits) <= Results!HalfUp(m, credits)
    BY <1>6, <2>4, <2>5, RoundedBetween
  <2>7. Results!HalfUp(m, credits) \in Results!Nearest(m, credits)
    BY <1>6, <2>5, UpIsNearest
  <2>8. QED
    BY <1>3, <1>5, <2>6, <2>7 DEF n, m
<1>10. QED
  BY <1>8, <1>9

\* Of the results of an account whose rows have their types, the four
\* places agree.
LEMMA PlacesAgree ==
  ASSUME Results!TypeOK
  PROVE  Results!ResultsAgree
<1>1. Results!ProjectionNeverBetter
  BY CourseProjected, RowsProjected DEF Results!ProjectionNeverBetter
<1>2. QED
  BY <1>1, BoardAgreesWith, ScenarioAgreesWith, GradesValidate DEF Results!ResultsAgree

-----------------------------------------------------------------------------
(* Publications.                                                           *)

\* Before the first publication.
LEMMA ResultsInit == Results!Init => Results!TypeOK
<1> SUFFICES ASSUME Results!Init PROVE Results!TypeOK
  OBVIOUS
<1>1. notes \in Seq(Results!Note) /\ Len(notes) <= MaxNotes
  BY ResultsAssumption DEF Results!Init
<1>2. courses \in [Courses -> Results!Course \cup {Unset}] /\ published \in 0 .. MaxPublications
  BY ResultsAssumption DEF Results!Init
<1>3. QED
  BY <1>1, <1>2 DEF Results!TypeOK

\* A publication keeps the notes and the rows of the courses what they are.
LEMMA ResultsKept ==
  ASSUME Results!TypeOK, [Results!Next]_(Results!resultsVars)
  PROVE  Results!TypeOK'
<1>1. /\ notes \in Seq(Results!Note) /\ Len(notes) \in Nat /\ Len(notes) <= MaxNotes
      /\ courses \in [Courses -> Results!Course \cup {Unset}]
      /\ published \in 0 .. MaxPublications /\ MaxPublications \in Nat /\ MaxNotes \in Nat
  BY ResultsAssumption DEF Results!TypeOK
<1>2. Results!Publication => published' \in 0 .. MaxPublications
                             /\ published + 1 \in 1 .. MaxPublications
  BY <1>1 DEF Results!Publication
<1> DEFINE Published == [course : Courses, score : Scores, coefficient : Coefficients,
                         resit : BOOLEAN, updated : {1}]
<1>3. ASSUME Results!Publication, NEW n \in Published
      PROVE  [n EXCEPT !.updated = published + 1] \in Results!Note
  BY <1>2, <1>3 DEF Results!Note
<1>4. ASSUME NEW n \in Published, Results!Detect(n) PROVE Results!TypeOK'
  <2>1. Results!Publication /\ [n EXCEPT !.updated = published + 1] \in Results!Note
    BY <1>3, <1>4 DEF Results!Detect
  <2>2. /\ notes' = Append(notes, [n EXCEPT !.updated = published + 1])
        /\ Len(notes) < MaxNotes /\ courses' = courses
    BY <1>4 DEF Results!Detect
  <2>3. notes' \in Seq(Results!Note) /\ Len(notes') <= MaxNotes
    <3> DEFINE x == [n EXCEPT !.updated = published + 1]
    <3> HIDE DEF x
    <3> QED BY <1>1, <2>1, <2>2 DEF x
  <2>4. QED
    BY <1>1, <1>2, <2>1, <2>2, <2>3 DEF Results!TypeOK
<1>5. ASSUME NEW n \in Published, NEW i \in DOMAIN notes, Results!Correct(i, n) PROVE Results!TypeOK'
  <2> DEFINE x == [n EXCEPT !.updated = published + 1]
  <2>1. Results!Publication /\ notes' = [notes EXCEPT ![i] = x] /\ courses' = courses
    BY <1>5 DEF Results!Correct
  <2>2. x \in Results!Note
    BY <1>3, <2>1
  <2> HIDE DEF x
  <2>3. notes' \in Seq(Results!Note) /\ Len(notes') = Len(notes)
    BY <1>1, <2>1, <2>2
  <2>4. QED
    BY <1>1, <1>2, <2>1, <2>3 DEF Results!TypeOK
<1>6. ASSUME NEW i \in DOMAIN notes, Results!Withdraw(i) PROVE Results!TypeOK'
  <2>1. /\ Results!Publication /\ courses' = courses
        /\ notes' = SubSeq(notes, 1, i - 1) \o SubSeq(notes, i + 1, Len(notes))
    BY <1>6 DEF Results!Withdraw, Results!RemoveAt
  <2>2. i \in 1 .. Len(notes)
    BY <1>1
  <2> DEFINE s == SubSeq(notes, 1, i - 1)
             t == SubSeq(notes, i + 1, Len(notes))
  <2>3. s \in Seq(Results!Note) /\ Len(s) = i - 1
    BY <1>1, <2>2
  <2>4. t \in Seq(Results!Note) /\ Len(t) = Len(notes) - i
    BY <1>1, <2>2
  <2> HIDE DEF s, t
  <2>5. s \o t \in Seq(Results!Note) /\ Len(s \o t) = Len(s) + Len(t)
    BY <2>3, <2>4
  <2>6. notes' \in Seq(Results!Note) /\ Len(notes') <= MaxNotes
    BY <1>1, <2>1, <2>2, <2>3, <2>4, <2>5 DEF s, t
  <2>7. QED
    BY <1>1, <1>2, <2>1, <2>6 DEF Results!TypeOK
<1>7. ASSUME NEW listed \in SUBSET Courses,
             NEW given \in [listed -> [credits : Credits, grade : Official \cup {Unset},
                                       current : {TRUE}]],
             Results!Refresh(listed, given)
      PROVE  Results!TypeOK'
  <2> DEFINE kept(c) == IF c \in listed THEN given[c]
                       ELSE IF courses[c] = Unset THEN Unset
                       ELSE [courses[c] EXCEPT !.current = FALSE]
  <2>1. Results!Publication /\ notes' = notes /\ courses' = [c \in Courses |-> kept(c)]
    BY <1>7 DEF Results!Refresh
  <2>2. ASSUME NEW c \in Courses PROVE kept(c) \in Results!Course \cup {Unset}
    <3>1. CASE c \in listed
      BY <3>1 DEF Results!Course
    <3>2. CASE c \notin listed /\ courses[c] # Unset
      <4>1. courses[c] \in Results!Course
        BY <1>1, <3>2
      <4>2. [courses[c] EXCEPT !.current = FALSE] \in Results!Course
        BY <4>1 DEF Results!Course
      <4>3. QED
        BY <3>2, <4>2
    <3>3. CASE c \notin listed /\ courses[c] = Unset
      BY <3>3
    <3>4. QED
      BY <3>1, <3>2, <3>3
  <2> HIDE DEF kept
  <2>3. courses' \in [Courses -> Results!Course \cup {Unset}]
    BY <2>1, <2>2
  <2>4. QED
    BY <1>1, <1>2, <2>1, <2>3 DEF Results!TypeOK
<1>8. CASE UNCHANGED Results!resultsVars
  BY <1>1, <1>8 DEF Results!resultsVars, Results!TypeOK
<1>9. CASE Results!Next
  BY <1>4, <1>5, <1>6, <1>7, <1>9 DEF Results!Next
<1>10. QED
  BY <1>8, <1>9

\* In the composition, the results take their own steps only.
LEMMA ResultsAlone == AccountsSpec => Results!Spec
<1>1. AccountsInit => Results!Init
  BY DEF AccountsInit
<1>2. [AccountsNext]_accountsVars => [Results!Next]_(Results!resultsVars)
  BY DEF AccountsNext, accountsVars, Schedule, CredentialsStep, AccessStep, ThrottleStep,
     ConversationStep, MigrationStep, ReconciliationStep, KeysetStep, ResultsStep, BoardStep,
     resultsVars, Results!resultsVars
<1>3. QED
  BY <1>1, <1>2, PTL DEF AccountsSpec, Results!Spec

(* Of any number of courses, notes and credits, the dashboard, the board   *)
(* and the two kinds of scenarios agree on the results of an account, each *)
(* with its own roundings, and the board stays sound.                      *)
THEOREM ResultsHold == AccountsSpec => []ResultsSound
<1>1. Results!TypeOK => Results!ResultsAgree
  BY PlacesAgree
<1>2. Results!TypeOK /\ [Results!Next]_(Results!resultsVars) => Results!TypeOK'
  BY ResultsKept
<1>3. AccountsSpec => []Results!ResultsAgree
  BY <1>1, <1>2, ResultsAlone, ResultsInit, PTL DEF Results!Spec
<1>4. Results!ResultsAgree /\ Board!BoardSound => ResultsSound
  BY DEF ResultsSound
<1>5. QED
  BY <1>3, <1>4, BoardHolds, PTL

-----------------------------------------------------------------------------
(* A conversation with the school: ImtConversation.                        *)

\* In the composition, the conversation takes its own steps only.
LEMMA ConversationAlone == AccountsSpec => Conversation!Spec
<1>1. AccountsInit => Conversation!Init
  BY DEF AccountsInit
<1>2. [AccountsNext]_accountsVars => [Conversation!Next]_(Conversation!imtVars)
  BY DEF AccountsNext, accountsVars, Schedule, CredentialsStep, AccessStep, ThrottleStep,
     ConversationStep, MigrationStep, ReconciliationStep, KeysetStep, ResultsStep, BoardStep,
     imtVars, Conversation!imtVars
<1>3. QED
  BY <1>1, <1>2, PTL DEF AccountsSpec, Conversation!Spec

Columns == {"kind", "profile", "hub", "at", "left", "posted", "late", "requests", "token",
            "entries", "results", "read", "stopped", "outcome"}
Outcomes == {"running", "done", "invalid", "upstream", "required"}

\* Stages of a sign-on, which a client without a password never reaches; those
\* in which a request is always under way; those with a token of HUB; those
\* that follow the export.
SignOnStages == {"entry", "provider", "saml", "cas", "signon"}
Signing == {"saml", "cas", "signon"}
Lending == {"user", "results", "logout"}
AfterEntries == Conversation!OfProfile \cup Conversation!OfHub

(* A password is never repeated by a redirection, a token never leaves     *)
(* HUB.                                                                    *)
WireFit(w) ==
  /\ DOMAIN w = {"method", "to", "carries", "sensitive", "allowed", "redirects"}
  /\ w.method \in {"GET", "POST"}
  /\ w.carries = "password" => w.sensitive = TRUE /\ w.method = "POST"
  /\ w.carries = "token" => w.allowed = {"hub"}
  /\ w.carries \in {"nothing", "password", "token"}

\* What a secret may have reached.
HeardFit ==
  /\ \A h \in heard : h[1] \in (IF h[2] = "password" THEN Conversation!Credential ELSE {"hub"})
  /\ client.kind = "session" => \A h \in heard : h[2] # "password"

\* The counters: what the gateway has not heard of yet is in the client.
CountsFit(c) == c.requests \in Nat /\ unreported \in Nat /\ unreported <= c.requests

\* Where a client may be, given what it has done.
StageFit(c) ==
  /\ c.at \in Conversation!Stages
  /\ c.kind = "session" => c.at \notin SignOnStages
  /\ c.token = "lent" => c.at \in Lending \/ c.stopped = TRUE
  /\ c.entries = TRUE => c.at \in AfterEntries \cup {"end"}
  /\ c.entries = TRUE => c.outcome # "upstream"

\* The inductive invariant of a conversation.
ImtInv ==
  /\ DOMAIN client = Columns /\ client.entries \in BOOLEAN /\ client.outcome \in Outcomes
  /\ CountsFit(client) /\ StageFit(client) /\ HeardFit
  /\ client.outcome = "running" <=> client.at # "end"
  /\ client.at = "end" => wire = Conversation!Silent /\ unreported = 0
  /\ client.at \in Signing => wire # Conversation!Silent
  /\ wire # Conversation!Silent => WireFit(wire) /\ (client.at = "logout" => client.token # "lent")

\* The client as a handler changes it before it goes on.
Variant(c) ==
  /\ DOMAIN c = Columns /\ c.kind = client.kind /\ c.entries \in BOOLEAN
  /\ c.outcome \in Outcomes /\ CountsFit(c)

\* The stages by their names.
LEMMA StageNames ==
  \A s \in {"entry", "provider", "saml", "cas", "report", "export", "end", "profile", "card",
           "home", "signon", "csrf", "login", "user", "results", "logout"} :
     s \in Conversation!Stages
BY DEF Conversation!Stages, Conversation!OfProfile, Conversation!OfHub

\* The client goes on with another request, or ends.
LEMMA GoesOn ==
  ASSUME ImtInv, NEW c, Variant(c), NEW to \in Conversation!Stages, Conversation!Continue(c, to),
         c.outcome = "running" \/ to = "end", to \notin Signing,
         c.kind = "session" => to \notin SignOnStages,
         c.token = "lent" => to \in Lending \/ c.stopped = TRUE,
         c.entries = TRUE => to \in AfterEntries \cup {"end"},
         c.entries = TRUE => c.outcome # "upstream"
  PROVE  ImtInv'
<1>1. PICK o : o = (IF to = "end" /\ c.outcome = "running" THEN "done" ELSE c.outcome)
  OBVIOUS
<1>2. PICK next : next = [c EXCEPT !.at = to, !.left = 0, !.posted = 0, !.outcome = o]
  OBVIOUS
<1>3. /\ DOMAIN next = Columns /\ next.at = to /\ next.outcome = o
      /\ next.kind = c.kind /\ next.entries = c.entries /\ next.token = c.token
      /\ next.stopped = c.stopped /\ next.requests = c.requests
  BY <1>2 DEF Variant, Columns
<1>4. /\ wire' = Conversation!Silent /\ heard' = heard
      /\ IF Conversation!Boundary(c.at, to)
         THEN client' = [next EXCEPT !.requests = 0, !.late = FALSE] /\ Conversation!Report(c, to)
         ELSE client' = next /\ UNCHANGED unreported
  <2>1. "outcome" \in DOMAIN c
    BY DEF Variant, Columns
  <2>2. next = [c EXCEPT !.at = to, !.left = 0, !.posted = 0,
                         !.outcome = IF to = "end" /\ @ = "running" THEN "done" ELSE @]
    BY <1>1, <1>2, <2>1
  <2>3. QED
    BY <2>2 DEF Conversation!Continue
<1>5. /\ DOMAIN client' = Columns /\ client'.at = to /\ client'.outcome = o
      /\ client'.kind = c.kind /\ client'.entries = c.entries /\ client'.token = c.token
      /\ client'.stopped = c.stopped
      /\ client'.requests \in {0, c.requests}
  BY <1>3, <1>4 DEF Columns
<1>6. /\ CountsFit(client)'
      /\ to = "end" => unreported' = 0
  <2>1. CASE Conversation!Boundary(c.at, to)
    <3>1. client'.requests = 0
      BY <1>3, <1>4, <2>1 DEF Columns
    <3>2. unreported' = 0
      BY <1>4, <2>1 DEF Conversation!Report, Conversation!Counted, Variant, CountsFit
    <3>3. QED
      BY <3>1, <3>2 DEF CountsFit
  <2>2. CASE ~Conversation!Boundary(c.at, to)
    BY <1>3, <1>4, <2>2 DEF Conversation!Boundary, Variant, CountsFit
  <2>3. QED
    BY <2>1, <2>2
<1>7. StageFit(client)'
  BY <1>1, <1>5 DEF StageFit, Variant
<1>8. HeardFit'
  BY <1>4, <1>5 DEF HeardFit, ImtInv, Variant
<1>9. client'.outcome \in Outcomes /\ (client'.outcome = "running" <=> client'.at # "end")
  BY <1>1, <1>5 DEF Variant, Outcomes
<1>10. QED
  BY <1>4, <1>5, <1>6, <1>7, <1>8, <1>9 DEF ImtInv, Variant

\* A failure of the client.
LEMMA FailsWell ==
  ASSUME ImtInv, NEW c, Variant(c), NEW why \in {"invalid", "upstream"}, Conversation!Failed(c, why),
         c.outcome = "running", c.token = client.token, c.entries = client.entries,
         client.stopped = TRUE => c.stopped = TRUE,
         client.at # "end",
         client.at = "logout" => c.token # "lent" \/ c.stopped = TRUE
  PROVE  ImtInv'
<1>s. /\ c.token = "lent" => client.at \in Lending \/ c.stopped = TRUE
      /\ c.entries = TRUE => client.at \in AfterEntries
      /\ c.kind = client.kind
  BY DEF ImtInv, StageFit, Variant
<1>1. CASE Conversation!Logged(why)
  <2>1. Conversation!Continue(c, Conversation!Skipped)
    BY <1>1 DEF Conversation!Failed
  <2>2. PICK to : to = Conversation!Skipped
    OBVIOUS
  <2>3. to \in {"logout", "end", "home"} /\ to \notin SignOnStages /\ to \notin Signing
    BY <2>2 DEF Conversation!Skipped, Conversation!AfterProfile, SignOnStages, Signing
  <2>4. c.token = "lent" => to \in Lending \/ c.stopped = TRUE
    BY <1>s, <2>2 DEF Conversation!Skipped, Lending
  <2>5. to \in AfterEntries \cup {"end"}
    BY <2>3 DEF AfterEntries, Conversation!OfHub
  <2>6. to \in Conversation!Stages
    BY <2>3, StageNames
  <2>7. QED
    BY <2>1, <2>2, <2>3, <2>4, <2>5, <2>6, GoesOn
<1>2. CASE ~Conversation!Logged(why) /\ ~(c.kind = "session" /\ why = "invalid")
  <2>1. PICK d : d = [c EXCEPT !.outcome = why]
    OBVIOUS
  <2>2. Conversation!Continue(d, "end")
    BY <1>2, <2>1 DEF Conversation!Failed
  <2>3. /\ DOMAIN d = Columns /\ d.kind = c.kind /\ d.entries = c.entries /\ d.token = c.token
        /\ d.requests = c.requests /\ d.stopped = c.stopped /\ d.outcome = why
    BY <2>1 DEF Variant, Columns
  <2>4. Variant(d)
    BY <2>3 DEF Variant, CountsFit, Outcomes
  <2>5. client.at \notin Conversation!OfHub /\ (why = "upstream" => client.at \notin AfterEntries)
    BY <1>2 DEF Conversation!Logged, AfterEntries
  <2>6. d.token = "lent" => d.stopped = TRUE
    BY <1>s, <2>3, <2>5 DEF Lending, Conversation!OfHub
  <2>7. d.entries = TRUE => d.outcome # "upstream"
    BY <1>s, <2>3, <2>5
  <2>8. QED
    BY <2>2, <2>4, <2>6, <2>7, StageNames, GoesOn DEF SignOnStages, Signing
<1>3. CASE ~Conversation!Logged(why) /\ c.kind = "session" /\ why = "invalid"
  <2>1. Conversation!Fallback(c)
    BY <1>3 DEF Conversation!Failed
  <2>2. CASE Conversation!Continue([c EXCEPT !.outcome = "required"], "end")
    <3>1. PICK d : d = [c EXCEPT !.outcome = "required"]
      OBVIOUS
    <3>2. /\ DOMAIN d = Columns /\ d.kind = c.kind /\ d.entries = c.entries /\ d.token = c.token
          /\ d.requests = c.requests /\ d.stopped = c.stopped /\ d.outcome = "required"
      BY <3>1 DEF Variant, Columns
    <3>3. Variant(d)
      BY <3>2 DEF Variant, CountsFit, Outcomes
    <3>4. client.at \notin Lending
      BY <1>3 DEF Conversation!Logged, Lending, Conversation!OfHub
    <3>5. d.token = "lent" => d.stopped = TRUE
      BY <1>s, <3>2, <3>4
    <3>6. QED
      BY <2>2, <3>1, <3>2, <3>3, <3>5, StageNames, GoesOn DEF SignOnStages, Signing
  <2>3. CASE /\ client' = Conversation!New("fallback", c.profile, c.hub)
             /\ Conversation!Report(c, "end") /\ wire' = Conversation!Silent /\ UNCHANGED heard
    <3>1. /\ DOMAIN client' = Columns /\ client'.kind = "fallback" /\ client'.at = "entry"
          /\ client'.requests = 0 /\ client'.token = "none" /\ client'.entries = FALSE
          /\ client'.outcome = "running"
      BY <2>3 DEF Conversation!New, Columns
    <3>2. unreported' = 0
      BY <2>3 DEF Conversation!Report, Conversation!Counted, Variant, CountsFit
    <3>3. CountsFit(client)' /\ StageFit(client)' /\ HeardFit'
      BY <2>3, <3>1, <3>2, StageNames DEF CountsFit, StageFit, HeardFit, ImtInv
    <3>4. QED
      BY <2>3, <3>1, <3>3 DEF ImtInv, Outcomes, Signing
  <2>4. QED
    BY <2>1, <2>2, <2>3 DEF Conversation!Fallback
<1>4. QED
  BY <1>1, <1>2, <1>3

\* A request leaves, or may not.
LEMMA Dispatches ==
  ASSUME ImtInv, NEW c, Variant(c), NEW w, Conversation!Dispatch(c, w), WireFit(w),
         c.outcome = "running", c.token = client.token, c.entries = client.entries,
         c.stopped = client.stopped, client.at # "end", c.at # "end", StageFit(c),
         w.carries = "password" => w.to \in Conversation!Credential /\ client.kind # "session",
         client.at = "logout" => w.to \in w.allowed \/ c.token # "lent"
  PROVE  ImtInv'
<1>1. PICK one : one = [c EXCEPT !.requests = @ + 1]
  OBVIOUS
<1>2. /\ DOMAIN one = Columns /\ one.kind = c.kind /\ one.at = c.at /\ one.entries = c.entries
      /\ one.token = c.token /\ one.requests = c.requests + 1 /\ one.stopped = c.stopped
      /\ one.outcome = "running"
  BY <1>1 DEF Variant, Columns
<1>3. CASE w.to \notin w.allowed
  BY <1>3, FailsWell DEF Conversation!Dispatch
<1>4. CASE w.to \in w.allowed /\ (one.requests > MaxRequests \/ c.late)
  <2>1. PICK d : d = [one EXCEPT !.stopped = TRUE]
    OBVIOUS
  <2>2. Conversation!Failed(d, "upstream")
    BY <1>1, <1>4, <2>1 DEF Conversation!Dispatch
  <2>3. /\ DOMAIN d = Columns /\ d.kind = c.kind /\ d.entries = c.entries
        /\ d.token = c.token /\ d.requests = c.requests + 1 /\ d.stopped = TRUE
        /\ d.outcome = "running"
    BY <1>2, <2>1 DEF Columns
  <2>4. Variant(d)
    BY <2>3 DEF Variant, CountsFit
  <2>5. QED
    BY <2>2, <2>3, <2>4, FailsWell
<1>5. CASE w.to \in w.allowed /\ ~(one.requests > MaxRequests \/ c.late)
  <2>1. /\ client' = [one EXCEPT !.token = IF c.at = "logout" THEN "asked" ELSE @]
        /\ wire' = w /\ unreported' = unreported + 1
        /\ heard' = (IF w.carries = "nothing" THEN heard ELSE heard \cup {<<w.to, w.carries>>})
    BY <1>1, <1>5 DEF Conversation!Dispatch
  <2>2. /\ DOMAIN client' = Columns /\ client'.kind = c.kind /\ client'.at = c.at
        /\ client'.entries = c.entries /\ client'.requests = c.requests + 1
        /\ client'.stopped = c.stopped /\ client'.outcome = "running"
        /\ client'.token = (IF c.at = "logout" THEN "asked" ELSE c.token)
    BY <1>2, <2>1 DEF Columns
  <2>3. CountsFit(client)'
    BY <2>1, <2>2 DEF CountsFit, Variant
  <2>4. StageFit(client)'
    BY <2>2 DEF StageFit
  <2>5. HeardFit'
    <3>1. w.carries = "token" => w.to = "hub"
      BY <1>5 DEF WireFit
    <3>2. \A h \in heard' : h \in heard \/ (h[1] = w.to /\ h[2] = w.carries /\ w.carries # "nothing")
      BY <2>1
    <3>3. QED
      BY <2>2, <3>1, <3>2 DEF HeardFit, ImtInv, Variant, WireFit
  <2>6. client'.at = "logout" => client'.token # "lent"
    BY <2>2
  <2>7. WireFit(wire)' /\ wire' # Conversation!Silent
    BY <2>1 DEF WireFit, Conversation!Silent
  <2>8. QED
    BY <2>2, <2>3, <2>4, <2>5, <2>6, <2>7 DEF ImtInv, Variant, Outcomes
<1>6. QED
  BY <1>3, <1>4, <1>5
\* A copy of the client whose counters of the sign-on moved.
Resembles(c) ==
  /\ Variant(c) /\ StageFit(c) /\ c.outcome = "running"
  /\ c.token = client.token /\ c.entries = client.entries /\ c.stopped = client.stopped

\* A sign-on follows a page.
LEMMA StepsWell ==
  ASSUME ImtInv, NEW c, Resembles(c), NEW w, Conversation!Step(c, w), WireFit(w),
         client.at \notin {"end", "logout"}, c.at # "end",
         w.carries = "password" => w.to \in Conversation!Credential /\ client.kind # "session"
  PROVE  ImtInv'
<1>1. PICK d : d = [c EXCEPT !.left = @ - 1]
  OBVIOUS
<1>2. /\ DOMAIN d = Columns /\ d.kind = c.kind /\ d.at = c.at /\ d.entries = c.entries
      /\ d.token = c.token /\ d.requests = c.requests /\ d.stopped = c.stopped
      /\ d.outcome = c.outcome
  BY <1>1 DEF Resembles, Variant, Columns
<1>3. Variant(d) /\ StageFit(d)
  BY <1>2 DEF Resembles, Variant, CountsFit, StageFit
<1>4. QED
  BY <1>1, <1>2, <1>3, Dispatches DEF Conversation!Step, Resembles

\* The requests of the client: what they carry.
LEMMA WiresFit ==
  ASSUME NEW to, NEW allowed
  PROVE  /\ WireFit(Conversation!Get(to, allowed))
         /\ Conversation!Get(to, allowed).carries = "nothing"
         /\ WireFit(Conversation!Post(to, allowed))
         /\ Conversation!Post(to, allowed).carries = "nothing"
         /\ WireFit(Conversation!Sensitive(Conversation!Post(to, allowed)))
         /\ Conversation!Sensitive(Conversation!Post(to, allowed)).carries = "nothing"
<1>1. PICK g : g = Conversation!Get(to, allowed)
  OBVIOUS
<1>2. /\ g = [method |-> "GET", to |-> to, carries |-> "nothing", sensitive |-> FALSE,
              allowed |-> allowed, redirects |-> 0]
      /\ g.carries = "nothing"
  BY <1>1 DEF Conversation!Get
<1>3. PICK p : p = Conversation!Post(to, allowed)
  OBVIOUS
<1>4. p = [g EXCEPT !.method = "POST"]
  BY <1>1, <1>3 DEF Conversation!Post
<1>5. p.carries = "nothing" /\ p.method = "POST" /\ DOMAIN p = DOMAIN g
  BY <1>2, <1>4
<1>6. PICK s : s = [p EXCEPT !.sensitive = TRUE]
  OBVIOUS
<1>7. s.carries = "nothing" /\ s.method = "POST" /\ DOMAIN s = DOMAIN g
  BY <1>2, <1>5, <1>6
<1>8. s = Conversation!Sensitive(Conversation!Post(to, allowed))
  BY <1>3, <1>6 DEF Conversation!Sensitive
<1>9. DOMAIN g = {"method", "to", "carries", "sensitive", "allowed", "redirects"} /\ g.method = "GET"
  BY <1>2
<1>10. WireFit(g) /\ WireFit(p) /\ WireFit(s)
  BY <1>2, <1>5, <1>7, <1>9 DEF WireFit
<1>11. QED
  BY <1>1, <1>2, <1>3, <1>5, <1>7, <1>8, <1>10

\* The form with the password.
LEMMA FillsIn ==
  ASSUME ImtInv, NEW c, Resembles(c), NEW action, Conversation!FillIn(c, action),
         client.at \notin {"end", "logout"}, c.at # "end", client.kind # "session"
  PROVE  ImtInv'
<1>1. CASE \E why \in {"invalid", "upstream"} : Conversation!Failed(c, why)
  BY <1>1, FailsWell DEF Resembles
<1>2. CASE /\ action \in Conversation!Credential
           /\ Conversation!Step([c EXCEPT !.posted = @ + 1],
                Conversation!Sensitive(Conversation!Bearing(
                   Conversation!Post(action, Conversation!Trusted), "password")))
  <2>1. PICK d : d = [c EXCEPT !.posted = @ + 1]
    OBVIOUS
  <2>2. /\ DOMAIN d = Columns /\ d.kind = c.kind /\ d.at = c.at /\ d.entries = c.entries
        /\ d.token = c.token /\ d.requests = c.requests /\ d.stopped = c.stopped
        /\ d.outcome = c.outcome
    BY <2>1 DEF Resembles, Variant, Columns
  <2>3. Resembles(d)
    BY <2>2 DEF Resembles, Variant, CountsFit, StageFit
  <2>4. PICK w : w = Conversation!Sensitive(Conversation!Bearing(
                   Conversation!Post(action, Conversation!Trusted), "password"))
    OBVIOUS
  <2>5. /\ w.carries = "password" /\ w.sensitive = TRUE /\ w.method = "POST" /\ w.to = action
        /\ DOMAIN w = {"method", "to", "carries", "sensitive", "allowed", "redirects"}
    BY <2>4 DEF Conversation!Sensitive, Conversation!Bearing, Conversation!Post, Conversation!Get
  <2>6. WireFit(w)
    BY <2>5 DEF WireFit
  <2>7. QED
    BY <1>2, <2>1, <2>2, <2>3, <2>4, <2>5, <2>6, StepsWell
<1>3. QED
  BY <1>1, <1>2 DEF Conversation!FillIn

\* The page of a protected service ends the sign-on.
LEMMA SignsOn ==
  ASSUME ImtInv, NEW c, Resembles(c), NEW look, Conversation!SignedOn(c, look),
         client.at \notin {"end", "logout"}, client.kind # "session",
         c.at \in {"cas", "signon"}, c.at = "cas" => client.at \in {"saml", "cas"}
  PROVE  ImtInv'
<1>s. c.token = "lent" => c.stopped = TRUE
  BY DEF Resembles, StageFit, Lending
<1>1. CASE c.at = "cas"
  <2>1. Conversation!Continue(c, Conversation!AfterCas)
    BY <1>1 DEF Conversation!SignedOn
  <2>2. c.entries # TRUE
    BY <1>1 DEF Resembles, ImtInv, StageFit, AfterEntries, Conversation!OfProfile, Conversation!OfHub
  <2>3. Conversation!AfterCas \in {"profile", "report"} /\ Conversation!AfterCas \notin Signing
    BY DEF Conversation!AfterCas, Signing
  <2>4. QED
    BY <1>s, <2>1, <2>2, <2>3, StageNames, GoesOn DEF Resembles, Variant
<1>2. CASE c.at = "signon" /\ Conversation!HubOpen(c)
  <2>1. CASE c.kind = "login"
    <3>1. PICK d : d = [c EXCEPT !.read = TRUE]
      OBVIOUS
    <3>2. /\ DOMAIN d = Columns /\ d.kind = c.kind /\ d.entries = c.entries /\ d.token = c.token
          /\ d.requests = c.requests /\ d.stopped = c.stopped /\ d.outcome = c.outcome
      BY <3>1 DEF Resembles, Variant, Columns
    <3>3. Variant(d)
      BY <3>2 DEF Resembles, Variant, CountsFit
    <3>4. Conversation!Continue(d, "end")
      BY <1>2, <2>1, <3>1 DEF Conversation!HubOpen
    <3>5. QED
      BY <1>s, <3>2, <3>3, <3>4, StageNames, GoesOn DEF Resembles, SignOnStages, Signing
  <2>2. CASE c.kind # "login"
    <3>1. Conversation!Continue(c, "csrf")
      BY <1>2, <2>2 DEF Conversation!HubOpen
    <3>2. "csrf" \in AfterEntries /\ "csrf" \notin SignOnStages /\ "csrf" \notin Signing
      BY DEF AfterEntries, Conversation!OfHub, SignOnStages, Signing
    <3>3. QED
      BY <1>s, <3>1, <3>2, StageNames, GoesOn DEF Resembles
  <2>3. QED
    BY <2>1, <2>2
<1>3. CASE Conversation!Failed(c, "upstream")
  BY <1>3, FailsWell DEF Resembles
<1>4. QED
  BY <1>1, <1>2, <1>3 DEF Conversation!SignedOn

\* A page of a sign-on.
LEMMA Examines ==
  ASSUME ImtInv, NEW c, Resembles(c), NEW look \in Conversation!Looks, NEW action,
         Conversation!Examine(c, look, action),
         client.at \notin {"end", "logout"}, client.kind # "session",
         c.at \in {"cas", "signon"}, c.at = "cas" => client.at \in {"saml", "cas"}
  PROVE  ImtInv'
<1>1. CASE Conversation!Failed(c, "upstream")
  BY <1>1, FailsWell DEF Resembles
<1>2. CASE Conversation!FillIn(c, action)
  BY <1>2, FillsIn
<1>3. CASE Conversation!SignedOn(c, look)
  BY <1>3, SignsOn
<1>4. CASE \E w : /\ Conversation!Step(c, w) /\ WireFit(w) /\ w.carries = "nothing"
  BY <1>4, StepsWell
<1>5. /\ WireFit(Conversation!Post("idp", Conversation!Trusted \ {"pass"}))
      /\ Conversation!Post("idp", Conversation!Trusted \ {"pass"}).carries = "nothing"
      /\ WireFit(Conversation!Sensitive(Conversation!Post(action, Conversation!Trusted)))
      /\ Conversation!Sensitive(Conversation!Post(action, Conversation!Trusted)).carries = "nothing"
      /\ WireFit(Conversation!Sensitive(Conversation!Post("idp", Conversation!Trusted)))
      /\ Conversation!Sensitive(Conversation!Post("idp", Conversation!Trusted)).carries = "nothing"
      /\ WireFit(Conversation!Get("idp", Conversation!Trusted))
      /\ Conversation!Get("idp", Conversation!Trusted).carries = "nothing"
  BY WiresFit
<1>6. \/ Conversation!Failed(c, "upstream") \/ Conversation!FillIn(c, action)
      \/ Conversation!SignedOn(c, look)
      \/ Conversation!Step(c, Conversation!Post("idp", Conversation!Trusted \ {"pass"}))
      \/ Conversation!Step(c, Conversation!Sensitive(Conversation!Post(action, Conversation!Trusted)))
      \/ Conversation!Step(c, Conversation!Sensitive(Conversation!Post("idp", Conversation!Trusted)))
      \/ Conversation!Step(c, Conversation!Get("idp", Conversation!Trusted))
  BY DEF Conversation!Examine, Conversation!Looks
<1>7. QED
  BY <1>1, <1>2, <1>3, <1>4, <1>5, <1>6

\* The client itself.
LEMMA ItselfFit == ASSUME ImtInv PROVE Variant(client)
BY DEF ImtInv, Variant

\* The client as it enters a sign-on.
LEMMA Enters ==
  ASSUME ImtInv, NEW stage, NEW look, client.at # "end", StageFit([client EXCEPT !.at = stage])
  PROVE  /\ Resembles(Conversation!Entering(stage, look))
         /\ Conversation!Entering(stage, look).at = stage
<1>1. PICK n : n = (IF look = "wayf" THEN MaxSteps + 1 ELSE MaxSteps)
  OBVIOUS
<1>2. PICK d : d = [client EXCEPT !.at = stage]
  OBVIOUS
<1>3. PICK c : c = [client EXCEPT !.at = stage, !.left = n]
  OBVIOUS
<1>4. /\ DOMAIN c = Columns /\ c.kind = client.kind /\ c.at = stage
      /\ c.entries = client.entries /\ c.token = client.token /\ c.requests = client.requests
      /\ c.stopped = client.stopped /\ c.outcome = client.outcome
      /\ d.kind = c.kind /\ d.at = stage /\ d.entries = c.entries /\ d.token = c.token
      /\ d.stopped = c.stopped /\ d.outcome = c.outcome
  BY <1>2, <1>3 DEF ImtInv, Columns
<1>5. Resembles(c)
  BY <1>2, <1>4 DEF ImtInv, Resembles, Variant, CountsFit, StageFit
<1>6. QED
  BY <1>1, <1>3, <1>4, <1>5 DEF Conversation!Entering

\* The address the code knows for the next request.
LEMMA KnownFits ==
  ASSUME ImtInv, client.at \notin Signing, client.at # "end"
  PROVE  /\ WireFit(Conversation!Known) /\ Conversation!Known.carries # "password"
         /\ client.at = "logout" => Conversation!Known.to \in Conversation!Known.allowed
<1>1. \A to, allowed : /\ WireFit(Conversation!Get(to, allowed))
                       /\ Conversation!Get(to, allowed).carries = "nothing"
                       /\ Conversation!Get(to, allowed).to = to
                       /\ Conversation!Get(to, allowed).allowed = allowed
                       /\ WireFit(Conversation!Post(to, allowed))
                       /\ Conversation!Post(to, allowed).carries = "nothing"
                       /\ Conversation!Post(to, allowed).to = to
                       /\ Conversation!Post(to, allowed).allowed = allowed
  <2>1. TAKE to, allowed
  <2>2. /\ Conversation!Get(to, allowed).to = to /\ Conversation!Get(to, allowed).allowed = allowed
        /\ Conversation!Post(to, allowed).to = to /\ Conversation!Post(to, allowed).allowed = allowed
    BY DEF Conversation!Get, Conversation!Post
  <2>3. QED
    BY <2>2, WiresFit
<1>2. \A w : WireFit(w) /\ w.allowed = {"hub"} /\ w.to = "hub" =>
        /\ WireFit(Conversation!Bearing(w, "token"))
        /\ Conversation!Bearing(w, "token").carries = "token"
        /\ Conversation!Bearing(w, "token").to = "hub"
        /\ Conversation!Bearing(w, "token").allowed = {"hub"}
  <2>1. TAKE w
  <2>2. HAVE WireFit(w) /\ w.allowed = {"hub"} /\ w.to = "hub"
  <2>3. PICK v : v = [w EXCEPT !.carries = "token"]
    OBVIOUS
  <2>4. /\ DOMAIN v = DOMAIN w /\ v.carries = "token" /\ v.to = "hub" /\ v.allowed = {"hub"}
        /\ v.method = w.method
    BY <2>2, <2>3 DEF WireFit
  <2>5. QED
    BY <2>2, <2>3, <2>4 DEF WireFit, Conversation!Bearing
<1>3. \/ client.at \in {"entry", "provider", "export"} \cup Conversation!OfProfile
      \/ client.at \in {"report", "home", "csrf", "login", "user", "results", "logout"}
  BY DEF ImtInv, StageFit, Conversation!Stages, Conversation!OfHub, Signing
<1>4. CASE client.at \in {"entry", "provider", "export"} \cup Conversation!OfProfile
  <2>1. Conversation!Known = Conversation!Get("pass", {"pass"})
    BY <1>4 DEF Conversation!Known, Conversation!OfProfile
  <2>2. QED
    BY <1>1, <1>4, <2>1 DEF Conversation!OfProfile
<1>5. CASE client.at \in {"report", "home", "csrf", "login"}
  <2>1. \E to, allowed : Conversation!Known \in {Conversation!Get(to, allowed),
                                                 Conversation!Post(to, allowed)}
    BY <1>5 DEF Conversation!Known, Conversation!OfProfile
  <2>2. QED
    BY <1>1, <1>5, <2>1
<1>6. CASE client.at \in {"user", "results"}
  <2>1. Conversation!Known = Conversation!Bearing(Conversation!Get("hub", {"hub"}), "token")
    BY <1>6 DEF Conversation!Known, Conversation!OfProfile
  <2>2. QED
    BY <1>1, <1>2, <2>1
<1>7. CASE client.at = "logout"
  <2>1. Conversation!Known = Conversation!Bearing(Conversation!Post("hub", {"hub"}), "token")
    BY <1>7 DEF Conversation!Known, Conversation!OfProfile
  <2>2. QED
    BY <1>1, <1>2, <2>1
<1>8. QED
  BY <1>3, <1>4, <1>5, <1>6, <1>7

\* A redirection that the code follows carries no password.
LEMMA RedirectedFits ==
  ASSUME ImtInv, wire # Conversation!Silent, NEW to, NEW keeps \in BOOLEAN,
         ~Conversation!RepeatsSecret(keeps)
  PROVE  /\ WireFit(Conversation!Redirected(to, keeps))
         /\ Conversation!Redirected(to, keeps).carries # "password"
<1>1. WireFit(wire)
  BY DEF ImtInv
<1>2. PICK next : next = [wire EXCEPT !.to = to, !.redirects = @ + 1]
  OBVIOUS
<1>3. /\ DOMAIN next = DOMAIN wire /\ next.method = wire.method /\ next.carries = wire.carries
      /\ next.sensitive = wire.sensitive /\ next.allowed = wire.allowed
  BY <1>1, <1>2 DEF WireFit
<1>4. CASE keeps \/ wire.method = "GET"
  <2>1. Conversation!Redirected(to, keeps) = next
    BY <1>2, <1>4 DEF Conversation!Redirected
  <2>2. wire.carries # "password"
    BY <1>1, <1>4 DEF WireFit, Conversation!RepeatsSecret
  <2>3. QED
    BY <1>1, <1>3, <2>1, <2>2 DEF WireFit
<1>5. CASE ~(keeps \/ wire.method = "GET")
  <2>1. PICK v : v = [next EXCEPT !.method = "GET", !.sensitive = FALSE,
                         !.carries = IF @ = "password" THEN "nothing" ELSE @]
    OBVIOUS
  <2>2. Conversation!Redirected(to, keeps) = v
    BY <1>2, <1>5, <2>1 DEF Conversation!Redirected
  <2>3. /\ DOMAIN v = DOMAIN wire /\ v.method = "GET" /\ v.allowed = wire.allowed
        /\ v.carries = (IF wire.carries = "password" THEN "nothing" ELSE wire.carries)
    BY <1>1, <1>3, <2>1 DEF WireFit
  <2>4. QED
    BY <1>1, <2>2, <2>3 DEF WireFit
<1>6. QED
  BY <1>4, <1>5

\* An answer of the stage "at" that only leads to another request.
LEMMA Answers ==
  ASSUME ImtInv, NEW to \in Conversation!Stages, client.at # "end",
         Conversation!Continue(client, to), to \notin Signing,
         client.kind = "session" => to \notin SignOnStages,
         client.at \notin Lending \/ to \in Lending \/ client.token # "lent",
         client.at \in AfterEntries => to \in AfterEntries \cup {"end"}
  PROVE  ImtInv'
<1>1. Variant(client) /\ client.outcome = "running"
  BY ItselfFit DEF ImtInv
<1>2. client.token = "lent" => to \in Lending \/ client.stopped = TRUE
  BY DEF ImtInv, StageFit
<1>3. client.entries = TRUE => to \in AfterEntries \cup {"end"}
  BY DEF ImtInv, StageFit
<1>4. QED
  BY <1>1, <1>2, <1>3, GoesOn

\* A failure of the client as it stands.
LEMMA FailsItself ==
  ASSUME ImtInv, wire # Conversation!Silent, NEW why \in {"invalid", "upstream"},
         Conversation!Fail(why)
  PROVE  ImtInv'
<1>1. Variant(client) /\ client.at # "end" /\ client.outcome = "running"
  BY ItselfFit DEF ImtInv
<1>2. client.at = "logout" => client.token # "lent"
  BY DEF ImtInv
<1>3. QED
  BY <1>1, <1>2, FailsWell DEF Conversation!Fail

\* Nothing starts but in the state the invariant describes.
LEMMA InitImt == Conversation!Init => ImtInv
<1> SUFFICES ASSUME Conversation!Init PROVE ImtInv
  OBVIOUS
<1>1. \E kind \in {"login", "import", "session", "fallback"}, p, h \in BOOLEAN :
         client = Conversation!New(kind, p, h)
  <2>1. CASE \E kind \in {"login", "import"} : client = Conversation!New(kind, TRUE, TRUE)
    <3>1. PICK k \in {"login", "import"} : client = Conversation!New(k, TRUE, TRUE)
      BY <2>1
    <3>2. k \in {"login", "import", "session", "fallback"} /\ TRUE \in BOOLEAN
      OBVIOUS
    <3> WITNESS k \in {"login", "import", "session", "fallback"},
                TRUE \in BOOLEAN, TRUE \in BOOLEAN
    <3>3. QED
      BY <3>1
  <2>2. CASE \E kind \in {"session", "fallback"}, p \in BOOLEAN, h \in BOOLEAN :
               client = Conversation!New(kind, p, h)
    BY <2>2
  <2>3. QED
    BY <2>1, <2>2 DEF Conversation!Init
<1>p. PICK kind \in {"login", "import", "session", "fallback"}, p \in BOOLEAN, h \in BOOLEAN :
         client = Conversation!New(kind, p, h)
  BY <1>1
<1>2. /\ DOMAIN client = Columns /\ client.kind = kind /\ client.requests = 0
      /\ client.token = "none" /\ client.entries = FALSE /\ client.outcome = "running"
      /\ client.at = (IF kind = "session" THEN "report" ELSE "entry")
  BY <1>p DEF Conversation!New, Columns
<1>3. wire = Conversation!Silent /\ heard = {} /\ unreported = 0
  BY DEF Conversation!Init
<1>4. StageFit(client)
  BY <1>2, StageNames DEF StageFit, SignOnStages
<1>5. CountsFit(client) /\ HeardFit
  BY <1>2, <1>3 DEF CountsFit, HeardFit
<1>6. client.at # "end" /\ client.at \notin Signing /\ client.outcome \in Outcomes
  BY <1>2 DEF Signing, Outcomes
<1>7. QED
  BY <1>2, <1>3, <1>4, <1>5, <1>6 DEF ImtInv

\* The requests that the code addresses itself, and those it is sent to.
LEMMA AsksWell ==
  ASSUME ImtInv, Conversation!Ask \/ Conversation!Redirect \/ Conversation!Break
  PROVE  ImtInv'
<1>1. Variant(client)
  BY ItselfFit
<1>2. CASE Conversation!Ask
  <2>1. /\ client.outcome = "running" /\ wire = Conversation!Silent
        /\ Conversation!Dispatch(client, Conversation!Known)
    BY <1>2 DEF Conversation!Ask, Conversation!Running
  <2>2. client.at # "end" /\ client.at \notin Signing /\ StageFit(client)
    BY <2>1 DEF ImtInv
  <2>3. /\ WireFit(Conversation!Known) /\ Conversation!Known.carries # "password"
        /\ client.at = "logout" => Conversation!Known.to \in Conversation!Known.allowed
    BY <2>2, KnownFits
  <2>4. QED
    BY <1>1, <2>1, <2>2, <2>3, Dispatches
<1>3. CASE Conversation!Redirect
  <2>1. wire # Conversation!Silent
    BY <1>3 DEF Conversation!Redirect
  <2>2. CASE Conversation!Fail("upstream")
    BY <2>1, <2>2, FailsItself
  <2>3. CASE \E to \in Conversation!Origins, keeps \in BOOLEAN :
                /\ ~Conversation!RepeatsSecret(keeps)
                /\ Conversation!Dispatch(client, Conversation!Redirected(to, keeps))
    <3>1. PICK to \in Conversation!Origins, keeps \in BOOLEAN :
                /\ ~Conversation!RepeatsSecret(keeps)
                /\ Conversation!Dispatch(client, Conversation!Redirected(to, keeps))
      BY <2>3
    <3>2. /\ WireFit(Conversation!Redirected(to, keeps))
          /\ Conversation!Redirected(to, keeps).carries # "password"
      BY <2>1, <3>1, RedirectedFits
    <3>3. /\ client.outcome = "running" /\ client.at # "end" /\ StageFit(client)
          /\ client.at = "logout" => client.token # "lent"
      BY <2>1 DEF ImtInv
    <3>4. QED
      BY <1>1, <3>1, <3>2, <3>3, Dispatches
  <2>4. QED
    BY <1>3, <2>2, <2>3 DEF Conversation!Redirect
<1>4. CASE Conversation!Break
  BY <1>4, FailsItself DEF Conversation!Break
<1>5. QED
  BY <1>2, <1>3, <1>4

\* The pages of a sign-on.
LEMMA SignsWell ==
  ASSUME ImtInv, \/ Conversation!FollowProvider \/ Conversation!EnterCas \/ Conversation!GoOn
                 \/ Conversation!OpenHub
  PROVE  ImtInv'
<1>1. Variant(client) /\ (client.at # "end" => client.outcome = "running")
  BY ItselfFit DEF ImtInv
<1>2. CASE Conversation!FollowProvider
  <2>1. wire # Conversation!Silent /\ client.at = "provider"
    BY <1>2 DEF Conversation!FollowProvider, Conversation!Answered
  <2>2. CASE Conversation!Fail("upstream")
    BY <2>1, <2>2, FailsItself
  <2>3. CASE \E action \in Conversation!Credential, form \in BOOLEAN :
               Conversation!Dispatch([client EXCEPT !.at = "saml"],
                  IF form THEN Conversation!Sensitive(Conversation!Post(action, Conversation!Trusted))
                          ELSE Conversation!Get(action, Conversation!Trusted))
    <3>1. PICK action, w : /\ Conversation!Dispatch([client EXCEPT !.at = "saml"], w)
             /\ w \in {Conversation!Sensitive(Conversation!Post(action, Conversation!Trusted)),
                       Conversation!Get(action, Conversation!Trusted)}
      BY <2>3
    <3>2. WireFit(w) /\ w.carries = "nothing"
      BY <3>1, WiresFit
    <3>3. PICK c : c = [client EXCEPT !.at = "saml"]
      OBVIOUS
    <3>4. /\ DOMAIN c = Columns /\ c.kind = client.kind /\ c.at = "saml"
          /\ c.entries = client.entries /\ c.token = client.token
          /\ c.requests = client.requests /\ c.stopped = client.stopped
          /\ c.outcome = client.outcome
      BY <3>3 DEF ImtInv, Columns
    <3>5. c.token = "lent" => c.stopped = TRUE
      BY <2>1, <3>4 DEF ImtInv, StageFit, Lending
    <3>6. c.kind # "session" /\ c.entries # TRUE
      BY <2>1, <3>4 DEF ImtInv, StageFit, SignOnStages, AfterEntries, Conversation!OfProfile,
         Conversation!OfHub
    <3>7. Variant(c) /\ StageFit(c)
      BY <3>4, <3>5, <3>6, StageNames DEF ImtInv, Variant, CountsFit, StageFit
    <3>8. QED
      BY <1>1, <2>1, <3>1, <3>2, <3>3, <3>4, <3>7, Dispatches
  <2>4. QED
    BY <1>2, <2>2, <2>3 DEF Conversation!FollowProvider
<1>3. CASE Conversation!EnterCas
  <2>1. PICK look \in Conversation!Looks, action \in Conversation!Origins :
           Conversation!Examine(Conversation!Entering("cas", look), look, action)
    BY <1>3 DEF Conversation!EnterCas
  <2>2. client.at = "saml"
    BY <1>3 DEF Conversation!EnterCas, Conversation!Answered
  <2>3. client.kind # "session" /\ client.entries # TRUE
    BY <2>2 DEF ImtInv, StageFit, SignOnStages, AfterEntries, Conversation!OfProfile,
       Conversation!OfHub
  <2>4. client.token = "lent" => client.stopped = TRUE
    BY <2>2 DEF ImtInv, StageFit, Lending
  <2>5. PICK d : d = [client EXCEPT !.at = "cas"]
    OBVIOUS
  <2>6. /\ d.kind = client.kind /\ d.at = "cas" /\ d.entries = client.entries
        /\ d.token = client.token /\ d.stopped = client.stopped /\ d.outcome = client.outcome
    BY <2>5 DEF ImtInv, Columns
  <2>7. StageFit(d)
    BY <2>3, <2>4, <2>6, StageNames DEF StageFit
  <2>8. /\ Resembles(Conversation!Entering("cas", look))
        /\ Conversation!Entering("cas", look).at = "cas"
    BY <2>2, <2>5, <2>7, Enters
  <2>9. QED
    BY <2>1, <2>2, <2>3, <2>8, Examines
<1>4. CASE Conversation!GoOn
  <2>1. PICK look \in Conversation!Looks, action \in Conversation!Origins :
           Conversation!Examine(client, look, action)
    BY <1>4 DEF Conversation!GoOn
  <2>2. client.at \in {"cas", "signon"}
    BY <1>4 DEF Conversation!GoOn, Conversation!Answered, Conversation!SignOns
  <2>3. client.kind # "session"
    BY <2>2 DEF ImtInv, StageFit, SignOnStages
  <2>4. Resembles(client)
    BY <1>1, <2>2 DEF Resembles, ImtInv
  <2>5. QED
    BY <2>1, <2>2, <2>3, <2>4, Examines
<1>5. CASE Conversation!OpenHub
  <2>1. wire # Conversation!Silent /\ client.at = "home"
    BY <1>5 DEF Conversation!OpenHub, Conversation!Answered
  <2>2. client.token = "lent" => client.stopped = TRUE
    BY <2>1 DEF ImtInv, StageFit, Lending
  <2>3. CASE Conversation!HubOpen(client)
    <3>1. CASE client.kind = "login"
      <4>1. PICK d : d = [client EXCEPT !.read = TRUE]
        OBVIOUS
      <4>2. /\ DOMAIN d = Columns /\ d.kind = client.kind /\ d.entries = client.entries
            /\ d.token = client.token /\ d.requests = client.requests
            /\ d.stopped = client.stopped /\ d.outcome = client.outcome
        BY <4>1 DEF ImtInv, Columns
      <4>3. Variant(d)
        BY <1>1, <4>2 DEF Variant, CountsFit
      <4>4. Conversation!Continue(d, "end")
        BY <2>3, <3>1, <4>1 DEF Conversation!HubOpen
      <4>5. d.entries = TRUE => d.outcome # "upstream"
        BY <4>2 DEF ImtInv, StageFit
      <4>6. QED
        BY <2>2, <4>2, <4>3, <4>4, <4>5, StageNames, GoesOn DEF SignOnStages, Signing
    <3>2. CASE client.kind # "login"
      <4>1. Conversation!Continue(client, "csrf")
        BY <2>3, <3>2 DEF Conversation!HubOpen
      <4>2. QED
        BY <2>1, <4>1, StageNames, Answers DEF Signing, SignOnStages, Lending, AfterEntries,
           Conversation!OfHub
    <3>3. QED
      BY <3>1, <3>2
  <2>4. CASE Conversation!Fail("upstream")
    BY <2>1, <2>4, FailsItself
  <2>5. CASE \E look \in Conversation!Looks, action \in Conversation!Origins :
               /\ client.kind # "session"
               /\ Conversation!Examine(Conversation!Entering("signon", look), look, action)
    <3>1. PICK look \in Conversation!Looks, action \in Conversation!Origins :
               /\ client.kind # "session"
               /\ Conversation!Examine(Conversation!Entering("signon", look), look, action)
      BY <2>5
    <3>2. PICK d : d = [client EXCEPT !.at = "signon"]
      OBVIOUS
    <3>3. /\ d.kind = client.kind /\ d.at = "signon" /\ d.entries = client.entries
          /\ d.token = client.token /\ d.stopped = client.stopped /\ d.outcome = client.outcome
      BY <3>2 DEF ImtInv, Columns
    <3>4. "signon" \in AfterEntries
      BY DEF AfterEntries, Conversation!OfHub
    <3>5. StageFit(d)
      BY <2>2, <3>1, <3>3, <3>4, StageNames DEF StageFit, ImtInv
    <3>6. /\ Resembles(Conversation!Entering("signon", look))
          /\ Conversation!Entering("signon", look).at = "signon"
      BY <2>1, <3>2, <3>5, Enters
    <3>7. QED
      BY <2>1, <3>1, <3>6, Examines
  <2>6. QED
    BY <1>5, <2>3, <2>4, <2>5 DEF Conversation!OpenHub
<1>6. QED
  BY <1>2, <1>3, <1>4, <1>5

\* The places to which an answer leads.
LEMMA Leads ==
  /\ Conversation!AfterProfile \in {"home", "end"}
  /\ Conversation!AfterExport \in {"profile", "home", "end"}
BY DEF Conversation!AfterProfile, Conversation!AfterExport

\* The reading of PASS and of HUB.
LEMMA ReadsWell ==
  ASSUME ImtInv,
         \/ Conversation!OpenEntry \/ Conversation!OpenReport \/ Conversation!ReadExport
         \/ Conversation!OpenProfile \/ Conversation!ReadCard \/ Conversation!SessionLost
         \/ Conversation!ReadCsrf \/ Conversation!TakeToken \/ Conversation!ReadUser
         \/ Conversation!ReadResults \/ Conversation!ReturnToken
  PROVE  ImtInv'
<1>1. Variant(client) /\ (client.at # "end" => client.outcome = "running")
  BY ItselfFit DEF ImtInv
<1>2. CASE Conversation!OpenEntry
  <2>1. client.at = "entry" /\ Conversation!Continue(client, "provider")
    BY <1>2 DEF Conversation!OpenEntry, Conversation!Answered
  <2>2. client.kind # "session"
    BY <2>1 DEF ImtInv, StageFit, SignOnStages
  <2>3. QED
    BY <2>1, <2>2, StageNames, Answers DEF Signing, Lending, AfterEntries, Conversation!OfHub,
       Conversation!OfProfile
<1>3. CASE Conversation!OpenReport
  <2>1. client.at = "report" /\ Conversation!Continue(client, "export")
    BY <1>3 DEF Conversation!OpenReport, Conversation!Answered
  <2>2. QED
    BY <2>1, StageNames, Answers DEF Signing, SignOnStages, Lending, AfterEntries,
       Conversation!OfHub, Conversation!OfProfile
<1>4. CASE Conversation!ReadExport
  <2>1. client.at = "export"
    BY <1>4 DEF Conversation!ReadExport, Conversation!Answered
  <2>2. PICK d : d = [client EXCEPT !.entries = TRUE]
    OBVIOUS
  <2>3. PICK to : to = Conversation!AfterExport
    OBVIOUS
  <2>4. Conversation!Continue(d, to)
    BY <1>4, <2>2, <2>3 DEF Conversation!ReadExport
  <2>5. /\ DOMAIN d = Columns /\ d.kind = client.kind /\ d.entries = TRUE
        /\ d.token = client.token /\ d.requests = client.requests
        /\ d.stopped = client.stopped /\ d.outcome = "running"
    BY <1>1, <2>1, <2>2 DEF ImtInv, Columns
  <2>6. Variant(d)
    BY <1>1, <2>5 DEF Variant, CountsFit, Outcomes
  <2>7. to \in {"profile", "home", "end"}
    BY <2>3, Leads
  <2>8. d.token = "lent" => d.stopped = TRUE
    BY <2>1, <2>5 DEF ImtInv, StageFit, Lending
  <2>9. /\ to \in AfterEntries \cup {"end"} /\ to \notin Signing /\ to \notin SignOnStages
        /\ to \in Conversation!Stages
    BY <2>7, StageNames DEF AfterEntries, Conversation!OfHub, Conversation!OfProfile, Signing,
       SignOnStages
  <2>10. QED
    BY <2>4, <2>5, <2>6, <2>8, <2>9, GoesOn
<1>5. CASE Conversation!OpenProfile
  <2>1. client.at = "profile" /\ Conversation!Continue(client, "card")
    BY <1>5 DEF Conversation!OpenProfile, Conversation!Answered
  <2>2. QED
    BY <2>1, StageNames, Answers DEF Signing, SignOnStages, Lending, AfterEntries,
       Conversation!OfHub, Conversation!OfProfile
<1>6. CASE Conversation!ReadCard
  <2>1. PICK to : to = Conversation!AfterProfile
    OBVIOUS
  <2>2. client.at = "card" /\ Conversation!Continue(client, to) /\ to \in {"home", "end"}
    BY <1>6, <2>1, Leads DEF Conversation!ReadCard, Conversation!Answered
  <2>3. QED
    BY <2>2, StageNames, Answers DEF Signing, SignOnStages, Lending, AfterEntries,
       Conversation!OfHub, Conversation!OfProfile
<1>7. CASE Conversation!SessionLost
  BY <1>7, FailsItself DEF Conversation!SessionLost, Conversation!Answered
<1>8. CASE Conversation!ReadCsrf
  <2>1. client.at = "csrf" /\ Conversation!Continue(client, "login")
    BY <1>8 DEF Conversation!ReadCsrf, Conversation!Answered
  <2>2. QED
    BY <2>1, StageNames, Answers DEF Signing, SignOnStages, Lending, AfterEntries,
       Conversation!OfHub, Conversation!OfProfile
<1>9. CASE Conversation!TakeToken
  <2>1. client.at = "login"
    BY <1>9 DEF Conversation!TakeToken, Conversation!Answered
  <2>2. PICK d : d = [client EXCEPT !.token = "lent"]
    OBVIOUS
  <2>3. Conversation!Continue(d, "user")
    BY <1>9, <2>2 DEF Conversation!TakeToken
  <2>4. /\ DOMAIN d = Columns /\ d.kind = client.kind /\ d.entries = client.entries
        /\ d.requests = client.requests /\ d.outcome = "running"
    BY <1>1, <2>1, <2>2 DEF ImtInv, Columns
  <2>5. Variant(d)
    BY <1>1, <2>4 DEF Variant, CountsFit, Outcomes
  <2>6. /\ "user" \in AfterEntries /\ "user" \in Lending /\ "user" \notin Signing
        /\ "user" \notin SignOnStages /\ "user" \in Conversation!Stages
    BY StageNames DEF AfterEntries, Lending, Conversation!OfHub, Signing, SignOnStages
  <2>7. QED
    BY <2>3, <2>4, <2>5, <2>6, GoesOn
<1>10. CASE Conversation!ReadUser
  <2>1. client.at = "user" /\ Conversation!Continue(client, "results")
    BY <1>10 DEF Conversation!ReadUser, Conversation!Answered
  <2>2. QED
    BY <2>1, StageNames, Answers DEF Signing, SignOnStages, Lending, AfterEntries,
       Conversation!OfHub, Conversation!OfProfile
<1>11. CASE Conversation!ReadResults
  <2>1. client.at = "results"
    BY <1>11 DEF Conversation!ReadResults, Conversation!Answered
  <2>2. PICK d : d = [client EXCEPT !.results = TRUE]
    OBVIOUS
  <2>3. Conversation!Continue(d, "logout")
    BY <1>11, <2>2 DEF Conversation!ReadResults
  <2>4. /\ DOMAIN d = Columns /\ d.kind = client.kind /\ d.entries = client.entries
        /\ d.requests = client.requests /\ d.outcome = "running"
    BY <1>1, <2>1, <2>2 DEF ImtInv, Columns
  <2>5. Variant(d)
    BY <1>1, <2>4 DEF Variant, CountsFit, Outcomes
  <2>6. /\ "logout" \in AfterEntries /\ "logout" \in Lending /\ "logout" \notin Signing
        /\ "logout" \notin SignOnStages /\ "logout" \in Conversation!Stages
    BY StageNames DEF AfterEntries, Lending, Conversation!OfHub, Signing, SignOnStages
  <2>7. QED
    BY <2>3, <2>4, <2>5, <2>6, GoesOn
<1>12. CASE Conversation!ReturnToken
  <2>1. client.at = "logout" /\ wire # Conversation!Silent
    BY <1>12 DEF Conversation!ReturnToken, Conversation!Answered
  <2>2. PICK d : d = [client EXCEPT !.read = client.results]
    OBVIOUS
  <2>3. Conversation!Continue(d, "end")
    BY <1>12, <2>2 DEF Conversation!ReturnToken
  <2>4. /\ DOMAIN d = Columns /\ d.kind = client.kind /\ d.entries = client.entries
        /\ d.token = client.token /\ d.requests = client.requests /\ d.outcome = "running"
    BY <1>1, <2>1, <2>2 DEF ImtInv, Columns
  <2>5. Variant(d) /\ d.token # "lent"
    BY <1>1, <2>1, <2>4 DEF Variant, CountsFit, Outcomes, ImtInv
  <2>6. QED
    BY <2>3, <2>4, <2>5, StageNames, GoesOn DEF Signing, SignOnStages
<1>13. QED
  BY <1>2, <1>3, <1>4, <1>5, <1>6, <1>7, <1>8, <1>9, <1>10, <1>11, <1>12

\* Every step of a conversation keeps the invariant.
LEMMA StepImt == ImtInv /\ [Conversation!Next]_(Conversation!imtVars) => ImtInv'
<1> SUFFICES ASSUME ImtInv, [Conversation!Next]_(Conversation!imtVars) PROVE ImtInv'
  OBVIOUS
<1>1. CASE UNCHANGED Conversation!imtVars
  BY <1>1 DEF Conversation!imtVars, ImtInv, HeardFit, CountsFit, StageFit, WireFit
<1>2. CASE Conversation!Expire
  <2>1. /\ client' = [client EXCEPT !.late = TRUE] /\ wire' = wire /\ heard' = heard
        /\ unreported' = unreported
    BY <1>2 DEF Conversation!Expire
  <2>2. /\ DOMAIN client' = Columns /\ client'.kind = client.kind /\ client'.at = client.at
        /\ client'.entries = client.entries /\ client'.token = client.token
        /\ client'.requests = client.requests /\ client'.stopped = client.stopped
        /\ client'.outcome = client.outcome
    BY <2>1 DEF ImtInv, Columns
  <2>3. CountsFit(client)' /\ StageFit(client)' /\ HeardFit'
    BY <2>1, <2>2 DEF ImtInv, CountsFit, StageFit, HeardFit
  <2>4. QED
    BY <2>1, <2>2, <2>3 DEF ImtInv, WireFit
<1>3. CASE Conversation!Next /\ ~Conversation!Expire
  BY <1>3, AsksWell, SignsWell, ReadsWell DEF Conversation!Next
<1>4. QED
  BY <1>1, <1>2, <1>3

\* A secret reaches only those it is meant for, the token of HUB is asked back,
\* every request is counted and the notes that were read are kept, whatever
\* pages, redirections and errors the school answers with.
THEOREM ConversationHolds == AccountsSpec => []ConversationSound
<1>1. Conversation!Spec => []ImtInv
  BY InitImt, StepImt, PTL DEF Conversation!Spec
<1>2. ImtInv => ConversationSound
  <2>1. ASSUME ImtInv PROVE ConversationSound
    <3>1. Conversation!SecretsKept
      BY <2>1 DEF ImtInv, HeardFit, Conversation!SecretsKept
    <3>2. client.outcome # "running" => client.at = "end"
      BY <2>1 DEF ImtInv
    <3>3. Conversation!TokenAskedBack
      BY <2>1, <3>2 DEF ImtInv, StageFit, Lending, Conversation!TokenAskedBack, Conversation!Running
    <3>4. Conversation!RequestsReported
      BY <2>1, <3>2 DEF ImtInv, Conversation!RequestsReported, Conversation!Running
    <3>5. Conversation!NotesKept
      BY <2>1 DEF ImtInv, StageFit, Outcomes, Conversation!NotesKept, Conversation!Running
    <3>6. QED
      BY <3>1, <3>3, <3>4, <3>5 DEF ConversationSound, Conversation!ConversationSound
  <2>2. QED
    BY <2>1
<1>3. QED
  BY <1>1, <1>2, ConversationAlone, PTL

-----------------------------------------------------------------------------
(* The types of a conversation.                                            *)

\* A client whose requests are not bounded yet: the budget is looked at after
\* one more was counted.
Draft ==
  [kind : {"login", "import", "session", "fallback"}, profile : BOOLEAN, hub : BOOLEAN,
   at : Conversation!Stages, left : 0 .. MaxSteps + 1, posted : 0 .. 1, late : BOOLEAN,
   requests : Nat, token : {"none", "lent", "asked"}, entries : BOOLEAN, results : BOOLEAN,
   read : BOOLEAN, stopped : BOOLEAN, outcome : Outcomes]

\* A request that may lead out of the school, before its address is looked at.
Loose ==
  [method : {"GET", "POST"}, to : Conversation!Origins, carries : {"nothing", "password", "token"},
   sensitive : BOOLEAN, allowed : SUBSET Conversation!Trusted, redirects : 0 .. MaxRedirects]

\* The request too many was not sent: what it was for was skipped.
Budgeted ==
  client.requests <= MaxRequests
  \/ /\ client.requests = MaxRequests + 1 /\ wire = Conversation!Silent
     /\ client.at \in {"home", "logout"}

ImtTypes ==
  /\ client \in Draft /\ Budgeted
  /\ wire = Conversation!Silent \/ wire \in Conversation!Wire
  /\ heard \subseteq Conversation!Origins \X {"password", "token"}

\* The client goes on with another request, or ends.
LEMMA GoesOnTyped ==
  ASSUME ImtTypes, NEW c \in Draft, NEW to \in Conversation!Stages, Conversation!Continue(c, to),
         \/ to = "end" \/ c.requests <= MaxRequests
         \/ to \in {"home", "logout"} /\ c.requests = MaxRequests + 1
  PROVE  ImtTypes'
<1>1. PICK o : o = (IF to = "end" /\ c.outcome = "running" THEN "done" ELSE c.outcome)
  OBVIOUS
<1>2. PICK next : next = [c EXCEPT !.at = to, !.left = 0, !.posted = 0, !.outcome = o]
  OBVIOUS
<1>3. PICK again : again = [next EXCEPT !.requests = 0, !.late = FALSE]
  OBVIOUS
<1>4. o \in Outcomes /\ 0 \in 0 .. MaxSteps + 1 /\ MaxRequests \in Nat
  BY <1>1, BoundsAssumption DEF Draft, Outcomes
<1>5. next \in Draft /\ next.requests = c.requests /\ next.at = to
  <2>1. \A left \in 0 .. MaxSteps + 1, posted \in 0 .. 1 :
          [c EXCEPT !.at = to, !.left = left, !.posted = posted, !.outcome = o] \in Draft
    BY <1>4 DEF Draft
  <2>2. 0 \in 0 .. 1
    OBVIOUS
  <2>3. next \in Draft
    BY <1>2, <1>4, <2>1, <2>2
  <2>4. QED
    BY <1>2, <2>3 DEF Draft
<1>6. again \in Draft /\ again.requests = 0
  BY <1>3, <1>5 DEF Draft
<1>7. /\ wire' = Conversation!Silent /\ heard' = heard
      /\ IF Conversation!Boundary(c.at, to) THEN client' = again ELSE client' = next
  BY <1>1, <1>2, <1>3 DEF Conversation!Continue, Draft
<1>8. CASE Conversation!Boundary(c.at, to)
  <2>1. client' \in Draft /\ client'.requests <= MaxRequests
    BY <1>4, <1>6, <1>7, <1>8
  <2>2. QED
    BY <1>7, <2>1 DEF ImtTypes, Budgeted
<1>9. CASE ~Conversation!Boundary(c.at, to)
  <2>1. client' = next /\ to # "end"
    BY <1>7, <1>9 DEF Conversation!Boundary
  <2>2. QED
    BY <1>5, <1>7, <2>1 DEF ImtTypes, Budgeted
<1>10. QED
  BY <1>8, <1>9

\* A failure of the client, which may have counted one request too many.
LEMMA FailsTyped ==
  ASSUME ImtTypes, NEW c \in Draft, NEW why \in {"invalid", "upstream"},
         Conversation!Failed(c, why),
         c.requests <= MaxRequests + 1 \/ client.at \in {"home", "logout"}
  PROVE  ImtTypes'
<1>0. MaxRequests \in Nat /\ c.requests \in Nat
  BY BoundsAssumption DEF Draft
<1>1. CASE Conversation!Logged(why)
  <2>1. Conversation!Continue(c, Conversation!Skipped)
    BY <1>1 DEF Conversation!Failed
  <2>2. /\ Conversation!Skipped \in {"logout", "end", "home"}
        /\ client.at \in {"home", "logout"} => Conversation!Skipped = "end"
    BY DEF Conversation!Skipped, Conversation!AfterProfile, Conversation!OfHub
  <2>3. PICK to : to = Conversation!Skipped
    OBVIOUS
  <2>4. to \in Conversation!Stages
    BY <2>2, <2>3, StageNames
  <2>5. \/ to = "end" \/ c.requests <= MaxRequests
        \/ to \in {"home", "logout"} /\ c.requests = MaxRequests + 1
    BY <1>0, <2>2, <2>3
  <2>6. QED
    BY <2>1, <2>3, <2>4, <2>5, GoesOnTyped
\* The conversation ends in an outcome.
<1>e. ASSUME NEW o \in Outcomes, Conversation!Continue([c EXCEPT !.outcome = o], "end")
      PROVE  ImtTypes'
  <2>1. [c EXCEPT !.outcome = o] \in Draft
    BY DEF Draft
  <2>2. QED
    BY <1>e, <2>1, StageNames, GoesOnTyped
<1>2. CASE ~Conversation!Logged(why) /\ ~(c.kind = "session" /\ why = "invalid")
  BY <1>2, <1>e DEF Conversation!Failed, Outcomes
<1>3. CASE ~Conversation!Logged(why) /\ c.kind = "session" /\ why = "invalid"
  <2>1. Conversation!Fallback(c)
    BY <1>3 DEF Conversation!Failed
  <2>2. CASE Conversation!Continue([c EXCEPT !.outcome = "required"], "end")
    BY <2>2, <1>e DEF Outcomes
  <2>3. CASE /\ client' = Conversation!New("fallback", c.profile, c.hub)
             /\ wire' = Conversation!Silent /\ UNCHANGED heard
    <3>1. c.profile \in BOOLEAN /\ c.hub \in BOOLEAN /\ 0 \in 0 .. MaxSteps + 1
      BY BoundsAssumption DEF Draft
    <3>2. "entry" \in Conversation!Stages
      BY StageNames
    <3>3. client' \in Draft /\ client'.requests = 0
      BY <2>3, <3>1, <3>2 DEF Conversation!New, Draft, Outcomes
    <3>4. QED
      BY <1>0, <2>3, <3>3 DEF ImtTypes, Budgeted
  <2>4. QED
    BY <2>1, <2>2, <2>3 DEF Conversation!Fallback
<1>4. QED
  BY <1>1, <1>2, <1>3

\* A request leaves, or may not.
LEMMA DispatchesTyped ==
  ASSUME ImtTypes, NEW c \in Draft, NEW w \in Loose, Conversation!Dispatch(c, w),
         c.requests = client.requests
  PROVE  ImtTypes'
<1>1. PICK one : one = [c EXCEPT !.requests = @ + 1]
  OBVIOUS
<1>2. /\ one \in Draft /\ one.requests = c.requests + 1 /\ c.requests \in Nat
      /\ MaxRequests \in Nat
  BY <1>1, BoundsAssumption DEF Draft
<1>3. c.requests + 1 <= MaxRequests + 1 \/ client.at \in {"home", "logout"}
  BY <1>2 DEF ImtTypes, Budgeted
<1>4. CASE w.to \notin w.allowed
  <2>1. Conversation!Failed(c, "upstream")
    BY <1>4 DEF Conversation!Dispatch
  <2>2. c.requests <= MaxRequests + 1 \/ client.at \in {"home", "logout"}
    BY <1>2, <1>3
  <2>3. QED
    BY <2>1, <2>2, FailsTyped
<1>5. CASE w.to \in w.allowed /\ (one.requests > MaxRequests \/ c.late)
  <2>1. PICK d : d = [one EXCEPT !.stopped = TRUE]
    OBVIOUS
  <2>2. Conversation!Failed(d, "upstream")
    BY <1>1, <1>5, <2>1 DEF Conversation!Dispatch
  <2>3. d \in Draft /\ d.requests = c.requests + 1
    BY <1>2, <2>1 DEF Draft
  <2>4. QED
    BY <1>3, <2>2, <2>3, FailsTyped
<1>6. CASE w.to \in w.allowed /\ ~(one.requests > MaxRequests \/ c.late)
  <2>1. PICK t : t = (IF c.at = "logout" THEN "asked" ELSE one.token)
    OBVIOUS
  <2>2. /\ client' = [one EXCEPT !.token = t] /\ wire' = w
        /\ heard' = (IF w.carries = "nothing" THEN heard ELSE heard \cup {<<w.to, w.carries>>})
    BY <1>1, <1>2, <1>6, <2>1 DEF Conversation!Dispatch, Draft
  <2>3. t \in {"none", "lent", "asked"}
    BY <1>2, <2>1 DEF Draft
  <2>4. client' \in Draft /\ client'.requests = one.requests
    BY <1>2, <2>2, <2>3 DEF Draft
  <2>5. wire' \in Conversation!Wire
    BY <1>6, <2>2 DEF Loose, Conversation!Wire
  <2>6. heard' \subseteq Conversation!Origins \X {"password", "token"}
    BY <2>2 DEF ImtTypes, Loose
  <2>7. client'.requests <= MaxRequests
    BY <1>2, <1>6, <2>4
  <2>8. QED
    BY <2>4, <2>5, <2>6, <2>7 DEF ImtTypes, Budgeted
<1>7. QED
  BY <1>4, <1>5, <1>6

\* The requests of the client have their type.
LEMMA WiresTyped ==
  ASSUME NEW to \in Conversation!Origins, NEW allowed \in SUBSET Conversation!Trusted
  PROVE  /\ Conversation!Get(to, allowed) \in Loose /\ Conversation!Post(to, allowed) \in Loose
         /\ Conversation!Sensitive(Conversation!Post(to, allowed)) \in Loose
         /\ \A what \in {"nothing", "password", "token"} :
              /\ Conversation!Bearing(Conversation!Get(to, allowed), what) \in Loose
              /\ Conversation!Bearing(Conversation!Post(to, allowed), what) \in Loose
              /\ Conversation!Sensitive(Conversation!Bearing(Conversation!Post(to, allowed), what))
                   \in Loose
<1>1. Conversation!Get(to, allowed) \in Loose
  BY BoundsAssumption DEF Conversation!Get, Loose
<1>2. \A w \in Loose : [w EXCEPT !.method = "POST"] \in Loose
  BY DEF Loose
<1>3. \A w \in Loose : Conversation!Sensitive(w) \in Loose
  BY DEF Loose, Conversation!Sensitive
<1>4. \A w \in Loose : \A what \in {"nothing", "password", "token"} :
         Conversation!Bearing(w, what) \in Loose
  BY DEF Loose, Conversation!Bearing
<1>5. QED
  BY <1>1, <1>2, <1>3, <1>4 DEF Conversation!Post

\* The address the code knows has its type.
LEMMA KnownTyped ==
  ASSUME ImtInv, client.at \notin Signing, client.at # "end"
  PROVE  Conversation!Known \in Loose
<1>1. /\ "pass" \in Conversation!Origins /\ "hub" \in Conversation!Origins
      /\ {"pass"} \in SUBSET Conversation!Trusted /\ {"hub"} \in SUBSET Conversation!Trusted
      /\ Conversation!Trusted \in SUBSET Conversation!Trusted
  BY DEF Conversation!Origins, Conversation!Trusted
<1>2. \/ client.at \in {"entry", "provider", "export"} \cup Conversation!OfProfile
      \/ client.at \in {"report", "home", "csrf", "login", "user", "results", "logout"}
  BY DEF ImtInv, StageFit, Conversation!Stages, Conversation!OfHub, Signing
<1>3. \/ Conversation!Known = Conversation!Get("pass", {"pass"})
      \/ Conversation!Known = Conversation!Get("pass", Conversation!Trusted)
      \/ Conversation!Known = Conversation!Get("hub", Conversation!Trusted)
      \/ Conversation!Known = Conversation!Get("hub", {"hub"})
      \/ Conversation!Known = Conversation!Post("hub", {"hub"})
      \/ Conversation!Known = Conversation!Bearing(Conversation!Get("hub", {"hub"}), "token")
      \/ Conversation!Known = Conversation!Bearing(Conversation!Post("hub", {"hub"}), "token")
  BY <1>2 DEF Conversation!Known, Conversation!OfProfile
<1>4. QED
  BY <1>1, <1>3, WiresTyped

\* A redirection the code follows has its type.
LEMMA RedirectedTyped ==
  ASSUME ImtTypes, wire # Conversation!Silent, wire.redirects < MaxRedirects,
         NEW to \in Conversation!Origins, NEW keeps \in BOOLEAN
  PROVE  Conversation!Redirected(to, keeps) \in Loose
<1>1. wire \in Loose
  BY DEF ImtTypes, Conversation!Wire, Loose, Conversation!Origins
<1>2. PICK next : next = [wire EXCEPT !.to = to, !.redirects = @ + 1]
  OBVIOUS
<1>3. wire.redirects + 1 \in 0 .. MaxRedirects
  BY <1>1, BoundsAssumption DEF Loose
<1>4. next \in Loose
  BY <1>1, <1>2, <1>3 DEF Loose
<1>5. PICK s : s = (IF next.carries = "password" THEN "nothing" ELSE next.carries)
  OBVIOUS
<1>6. s \in {"nothing", "password", "token"}
  BY <1>4, <1>5 DEF Loose
<1>7. [next EXCEPT !.method = "GET", !.sensitive = FALSE, !.carries = s] \in Loose
  BY <1>4, <1>6 DEF Loose
<1>8. Conversation!Redirected(to, keeps) \in {next,
         [next EXCEPT !.method = "GET", !.sensitive = FALSE, !.carries = s]}
  BY <1>2, <1>4, <1>5 DEF Conversation!Redirected, Loose
<1>9. QED
  BY <1>4, <1>7, <1>8

\* A sign-on follows a page.
LEMMA PageTyped ==
  ASSUME ImtTypes, NEW c \in Draft, c.left # 0, c.requests = client.requests,
         NEW w \in Loose, Conversation!Step(c, w)
  PROVE  ImtTypes'
<1>1. PICK d : d = [c EXCEPT !.left = @ - 1]
  OBVIOUS
<1>2. c.left - 1 \in 0 .. MaxSteps + 1
  BY BoundsAssumption DEF Draft
<1>3. d \in Draft /\ d.requests = c.requests
  BY <1>1, <1>2 DEF Draft
<1>4. QED
  BY <1>1, <1>3, DispatchesTyped DEF Conversation!Step

\* A page of a sign-on.
LEMMA ExaminesTyped ==
  ASSUME ImtTypes, wire # Conversation!Silent, NEW c \in Draft, c.requests = client.requests,
         NEW look \in Conversation!Looks, NEW action \in Conversation!Origins,
         Conversation!Examine(c, look, action)
  PROVE  ImtTypes'
<1>0. c.requests <= MaxRequests /\ c.requests \in Nat /\ MaxRequests \in Nat
  BY BoundsAssumption DEF ImtTypes, Budgeted, Draft
<1>f. ASSUME NEW why \in {"invalid", "upstream"}, Conversation!Failed(c, why)
      PROVE  ImtTypes'
  <2>1. c.requests <= MaxRequests + 1
    BY <1>0
  <2>2. QED
    BY <1>f, <2>1, FailsTyped
<1>1. /\ "idp" \in Conversation!Origins
      /\ Conversation!Trusted \in SUBSET Conversation!Trusted
      /\ Conversation!Trusted \ {"pass"} \in SUBSET Conversation!Trusted
  BY DEF Conversation!Origins, Conversation!Trusted, Conversation!Credential
<1>2. CASE c.left = 0
  BY <1>2, <1>f DEF Conversation!Examine
<1>3. CASE c.left # 0
  <2>1. ASSUME NEW w \in Loose, Conversation!Step(c, w)
        PROVE  ImtTypes'
    BY <1>3, <2>1, PageTyped
  <2>2. CASE Conversation!FillIn(c, action)
    <3>1. PICK w : w = Conversation!Sensitive(Conversation!Bearing(
                     Conversation!Post(action, Conversation!Trusted), "password"))
      OBVIOUS
    <3>2. w \in Loose
      BY <1>1, <3>1, WiresTyped
    <3>3. PICK d : d = [c EXCEPT !.posted = @ + 1]
      OBVIOUS
    <3>4. CASE ~Conversation!AskedAgain(c) /\ Conversation!Step(d, w)
      <4>1. c.posted + 1 \in 0 .. 1
        BY <3>4 DEF Draft, Conversation!AskedAgain
      <4>2. d \in Draft /\ d.requests = c.requests /\ d.left = c.left
        BY <3>3, <4>1 DEF Draft
      <4>3. QED
        BY <1>3, <3>2, <3>4, <4>2, PageTyped
    <3>5. QED
      BY <2>2, <3>1, <3>3, <3>4, <1>f DEF Conversation!FillIn
  <2>3. CASE Conversation!SignedOn(c, look)
    <3>1. CASE Conversation!Continue(c, Conversation!AfterCas)
      <4>1. Conversation!AfterCas \in Conversation!Stages
        BY StageNames DEF Conversation!AfterCas
      <4>2. QED
        BY <1>0, <3>1, <4>1, GoesOnTyped
    <3>2. CASE Conversation!HubOpen(c)
      <4>1. [c EXCEPT !.read = TRUE] \in Draft
        BY DEF Draft
      <4>2. \/ Conversation!Continue([c EXCEPT !.read = TRUE], "end")
            \/ Conversation!Continue(c, "csrf")
        BY <3>2 DEF Conversation!HubOpen
      <4>3. QED
        BY <1>0, <4>1, <4>2, StageNames, GoesOnTyped
    <3>3. QED
      BY <2>3, <3>1, <3>2, <1>f DEF Conversation!SignedOn
  <2>4. \/ Conversation!Failed(c, "upstream") \/ Conversation!FillIn(c, action)
        \/ Conversation!SignedOn(c, look)
        \/ Conversation!Step(c, Conversation!Post("idp", Conversation!Trusted \ {"pass"}))
        \/ Conversation!Step(c, Conversation!Sensitive(Conversation!Post(action, Conversation!Trusted)))
        \/ Conversation!Step(c, Conversation!Sensitive(Conversation!Post("idp", Conversation!Trusted)))
        \/ Conversation!Step(c, Conversation!Get("idp", Conversation!Trusted))
    BY DEF Conversation!Examine, Conversation!Looks
  <2>5. /\ Conversation!Post("idp", Conversation!Trusted \ {"pass"}) \in Loose
        /\ Conversation!Sensitive(Conversation!Post(action, Conversation!Trusted)) \in Loose
        /\ Conversation!Sensitive(Conversation!Post("idp", Conversation!Trusted)) \in Loose
        /\ Conversation!Get("idp", Conversation!Trusted) \in Loose
    BY <1>1, WiresTyped
  <2>6. QED
    BY <1>f, <2>1, <2>2, <2>3, <2>4, <2>5
<1>4. QED
  BY <1>2, <1>3

\* The client as it enters a sign-on.
LEMMA EntersTyped ==
  ASSUME ImtTypes, NEW stage \in Conversation!Stages, NEW look
  PROVE  /\ Conversation!Entering(stage, look) \in Draft
         /\ Conversation!Entering(stage, look).requests = client.requests
<1>1. PICK n : n = (IF look = "wayf" THEN MaxSteps + 1 ELSE MaxSteps)
  OBVIOUS
<1>2. n \in 0 .. MaxSteps + 1 /\ client \in Draft
  BY <1>1, BoundsAssumption DEF ImtTypes
<1>3. PICK c : c = [client EXCEPT !.at = stage, !.left = n]
  OBVIOUS
<1>4. c \in Draft /\ c.requests = client.requests
  BY <1>2, <1>3 DEF Draft
<1>5. QED
  BY <1>1, <1>3, <1>4 DEF Conversation!Entering

\* Every step keeps the types of a conversation.
LEMMA StepImtTypes ==
  ImtInv /\ ImtTypes /\ [Conversation!Next]_(Conversation!imtVars) => ImtTypes'
<1> SUFFICES ASSUME ImtInv, ImtTypes, [Conversation!Next]_(Conversation!imtVars)
             PROVE  ImtTypes'
  OBVIOUS
<1>t. client \in Draft /\ client.requests \in Nat /\ MaxRequests \in Nat
      /\ (wire # Conversation!Silent => client.requests <= MaxRequests)
  BY BoundsAssumption DEF ImtTypes, Budgeted, Draft
\* An answer leads to another request.
<1>c. ASSUME wire # Conversation!Silent, NEW c \in Draft, c.requests = client.requests,
             NEW to \in Conversation!Stages, Conversation!Continue(c, to)
      PROVE  ImtTypes'
  BY <1>c, <1>t, GoesOnTyped
\* A failure of the client as it stands.
<1>f. ASSUME wire # Conversation!Silent, NEW why \in {"invalid", "upstream"},
             Conversation!Fail(why)
      PROVE  ImtTypes'
  <2>1. client.requests <= MaxRequests + 1
    BY <1>f, <1>t
  <2>2. QED
    BY <1>f, <1>t, <2>1, FailsTyped DEF Conversation!Fail
<1>1. CASE Conversation!Ask
  <2>1. /\ Conversation!Dispatch(client, Conversation!Known)
        /\ client.outcome = "running" /\ wire = Conversation!Silent
    BY <1>1 DEF Conversation!Ask, Conversation!Running
  <2>2. client.at \notin Signing /\ client.at # "end"
    BY <2>1 DEF ImtInv
  <2>3. Conversation!Known \in Loose
    BY <2>2, KnownTyped
  <2>4. QED
    BY <1>t, <2>1, <2>3, DispatchesTyped
<1>2. CASE Conversation!Redirect
  <2>1. wire # Conversation!Silent
    BY <1>2 DEF Conversation!Redirect
  <2>2. PICK to \in Conversation!Origins, keeps \in BOOLEAN :
           IF wire.redirects >= MaxRedirects \/ Conversation!RepeatsSecret(keeps)
           THEN Conversation!Fail("upstream")
           ELSE Conversation!Dispatch(client, Conversation!Redirected(to, keeps))
    BY <1>2 DEF Conversation!Redirect
  <2>3. CASE wire.redirects >= MaxRedirects \/ Conversation!RepeatsSecret(keeps)
    BY <1>f, <2>1, <2>2, <2>3
  <2>4. CASE ~(wire.redirects >= MaxRedirects \/ Conversation!RepeatsSecret(keeps))
    <3>1. wire.redirects < MaxRedirects
      BY <2>1, <2>4, BoundsAssumption DEF ImtTypes, Conversation!Wire
    <3>2. Conversation!Redirected(to, keeps) \in Loose
      BY <2>1, <3>1, RedirectedTyped
    <3>3. QED
      BY <1>t, <2>2, <2>4, <3>2, DispatchesTyped
  <2>5. QED
    BY <2>3, <2>4
<1>3. CASE Conversation!Break
  BY <1>3, <1>f DEF Conversation!Break
<1>4. CASE Conversation!Expire
  <2>1. client' = [client EXCEPT !.late = TRUE] /\ UNCHANGED <<wire, heard>>
    BY <1>4 DEF Conversation!Expire
  <2>2. client' \in Draft /\ client'.requests = client.requests /\ client'.at = client.at
    BY <1>t, <2>1 DEF Draft
  <2>3. QED
    BY <2>1, <2>2 DEF ImtTypes, Budgeted
<1>5. CASE Conversation!OpenEntry \/ Conversation!OpenReport \/ Conversation!OpenProfile
           \/ Conversation!ReadCard \/ Conversation!ReadCsrf \/ Conversation!ReadUser
  <2>1. /\ wire # Conversation!Silent
        /\ \E to \in {"provider", "export", "card", Conversation!AfterProfile, "login", "results"} :
             Conversation!Continue(client, to)
    BY <1>5 DEF Conversation!OpenEntry, Conversation!OpenReport, Conversation!OpenProfile,
       Conversation!ReadCard, Conversation!ReadCsrf, Conversation!ReadUser, Conversation!Answered
  <2>2. {"provider", "export", "card", Conversation!AfterProfile, "login", "results"}
          \subseteq Conversation!Stages
    BY StageNames, Leads
  <2>3. QED
    BY <1>c, <1>t, <2>1, <2>2
<1>6. CASE Conversation!ReadExport \/ Conversation!TakeToken \/ Conversation!ReadResults
           \/ Conversation!ReturnToken
  <2>1. /\ wire # Conversation!Silent
        /\ \E to \in {Conversation!AfterExport, "user", "logout", "end"} :
             \E c \in {[client EXCEPT !.entries = TRUE], [client EXCEPT !.token = "lent"],
                       [client EXCEPT !.results = TRUE], [client EXCEPT !.read = client.results]} :
                Conversation!Continue(c, to)
    BY <1>6 DEF Conversation!ReadExport, Conversation!TakeToken, Conversation!ReadResults,
       Conversation!ReturnToken, Conversation!Answered
  <2>2. {Conversation!AfterExport, "user", "logout", "end"} \subseteq Conversation!Stages
    BY StageNames, Leads
  <2>3. /\ [client EXCEPT !.entries = TRUE] \in Draft
        /\ [client EXCEPT !.entries = TRUE].requests = client.requests
    BY <1>t DEF Draft
  <2>4. /\ [client EXCEPT !.token = "lent"] \in Draft
        /\ [client EXCEPT !.token = "lent"].requests = client.requests
    BY <1>t DEF Draft
  <2>5. /\ [client EXCEPT !.results = TRUE] \in Draft
        /\ [client EXCEPT !.results = TRUE].requests = client.requests
    BY <1>t DEF Draft
  <2>6. /\ [client EXCEPT !.read = client.results] \in Draft
        /\ [client EXCEPT !.read = client.results].requests = client.requests
    BY <1>t DEF Draft
  <2>7. QED
    BY <1>c, <2>1, <2>2, <2>3, <2>4, <2>5, <2>6
<1>7. CASE Conversation!SessionLost
  BY <1>7, <1>f DEF Conversation!SessionLost, Conversation!Answered
<1>8. CASE Conversation!FollowProvider
  <2>1. wire # Conversation!Silent
    BY <1>8 DEF Conversation!FollowProvider, Conversation!Answered
  <2>2. PICK action \in Conversation!Origins, form \in BOOLEAN :
          IF action \notin Conversation!Credential THEN Conversation!Fail("upstream")
          ELSE Conversation!Dispatch([client EXCEPT !.at = "saml"],
                 IF form THEN Conversation!Sensitive(Conversation!Post(action, Conversation!Trusted))
                 ELSE Conversation!Get(action, Conversation!Trusted))
    BY <1>8 DEF Conversation!FollowProvider
  <2>3. CASE Conversation!Fail("upstream")
    BY <1>f, <2>1, <2>3
  <2>4. ASSUME NEW w \in {Conversation!Sensitive(Conversation!Post(action, Conversation!Trusted)),
                          Conversation!Get(action, Conversation!Trusted)},
               Conversation!Dispatch([client EXCEPT !.at = "saml"], w)
        PROVE  ImtTypes'
    <3>1. w \in Loose
      BY WiresTyped
    <3>2. "saml" \in Conversation!Stages
      BY StageNames
    <3>3. /\ [client EXCEPT !.at = "saml"] \in Draft
          /\ [client EXCEPT !.at = "saml"].requests = client.requests
      BY <1>t, <3>2 DEF Draft
    <3>4. QED
      BY <2>4, <3>1, <3>3, DispatchesTyped
  <2>5. QED
    BY <2>2, <2>3, <2>4
<1>9. CASE Conversation!EnterCas
  <2>1. PICK look \in Conversation!Looks, action \in Conversation!Origins :
           Conversation!Examine(Conversation!Entering("cas", look), look, action)
    BY <1>9 DEF Conversation!EnterCas
  <2>2. wire # Conversation!Silent
    BY <1>9 DEF Conversation!EnterCas, Conversation!Answered
  <2>3. QED
    BY <2>1, <2>2, StageNames, EntersTyped, ExaminesTyped
<1>10. CASE Conversation!GoOn
  <2>1. PICK look \in Conversation!Looks, action \in Conversation!Origins :
           Conversation!Examine(client, look, action)
    BY <1>10 DEF Conversation!GoOn
  <2>2. wire # Conversation!Silent
    BY <1>10 DEF Conversation!GoOn, Conversation!Answered
  <2>3. QED
    BY <1>t, <2>1, <2>2, ExaminesTyped
<1>11. CASE Conversation!OpenHub
  <2>1. wire # Conversation!Silent
    BY <1>11 DEF Conversation!OpenHub, Conversation!Answered
  <2>2. CASE Conversation!HubOpen(client)
    <3>1. /\ [client EXCEPT !.read = TRUE] \in Draft
          /\ [client EXCEPT !.read = TRUE].requests = client.requests
      BY <1>t DEF Draft
    <3>2. \/ Conversation!Continue([client EXCEPT !.read = TRUE], "end")
          \/ Conversation!Continue(client, "csrf")
      BY <2>2 DEF Conversation!HubOpen
    <3>3. QED
      BY <1>c, <1>t, <2>1, <3>1, <3>2, StageNames
  <2>3. CASE Conversation!Fail("upstream")
    BY <1>f, <2>1, <2>3
  <2>4. ASSUME NEW look \in Conversation!Looks, NEW action \in Conversation!Origins,
               Conversation!Examine(Conversation!Entering("signon", look), look, action)
        PROVE  ImtTypes'
    BY <2>1, <2>4, StageNames, EntersTyped, ExaminesTyped
  <2>5. QED
    BY <1>11, <2>2, <2>3, <2>4 DEF Conversation!OpenHub
<1>12. CASE UNCHANGED Conversation!imtVars
  BY <1>12 DEF ImtTypes, Budgeted, Conversation!imtVars
<1>13. QED
  BY <1>1, <1>2, <1>3, <1>4, <1>5, <1>6, <1>7, <1>8, <1>9, <1>10, <1>11, <1>12
  DEF Conversation!Next

\* Every row of a conversation has its type.
LEMMA ConversationTyped == AccountsSpec => []Conversation!TypeOK
<1>1. ASSUME Conversation!Init
      PROVE  ImtTypes
  <2>1. PICK kind \in {"login", "import", "session", "fallback"}, p \in BOOLEAN, h \in BOOLEAN :
           client = Conversation!New(kind, p, h)
    <3>1. CASE \E kind \in {"login", "import"} : client = Conversation!New(kind, TRUE, TRUE)
      <4>1. PICK kind \in {"login", "import"} : client = Conversation!New(kind, TRUE, TRUE)
        BY <3>1
      <4>2. PICK p \in BOOLEAN, h \in BOOLEAN : p = TRUE /\ h = TRUE
        OBVIOUS
      <4>3. client = Conversation!New(kind, p, h)
        BY <4>1, <4>2
      <4>4. QED
        BY <4>3
    <3>2. CASE \E kind \in {"session", "fallback"}, p \in BOOLEAN, h \in BOOLEAN :
                 client = Conversation!New(kind, p, h)
      BY <3>2
    <3>3. QED
      BY <1>1, <3>1, <3>2 DEF Conversation!Init
  <2>2. PICK stage : stage = (IF kind = "session" THEN "report" ELSE "entry")
    OBVIOUS
  <2>3. stage \in Conversation!Stages /\ 0 \in 0 .. MaxSteps + 1 /\ MaxRequests \in Nat
    BY <2>2, StageNames, BoundsAssumption
  <2>4. client \in Draft /\ client.requests = 0
    BY <2>1, <2>2, <2>3 DEF Conversation!New, Draft, Outcomes
  <2>5. wire = Conversation!Silent /\ heard = {}
    BY <1>1 DEF Conversation!Init
  <2>6. QED
    BY <2>3, <2>4, <2>5 DEF ImtTypes, Budgeted
<1>2. ImtInv /\ ImtTypes => Conversation!TypeOK
  <2> SUFFICES ASSUME ImtInv, ImtTypes
               PROVE  Conversation!TypeOK
    OBVIOUS
  <2>1. client.requests \in 0 .. MaxRequests + 1
    BY BoundsAssumption DEF ImtTypes, Budgeted, Draft
  <2>2. client \in Conversation!Client
    BY <2>1 DEF ImtTypes, Draft, Outcomes, Conversation!Client
  <2>3. unreported \in Nat
    BY DEF ImtInv, CountsFit
  <2>4. QED
    BY <2>2, <2>3 DEF ImtTypes, Conversation!TypeOK
<1>3. QED
  BY <1>1, <1>2, ConversationAlone, InitImt, StepImt, StepImtTypes, PTL DEF Conversation!Spec
=============================================================================
