------------------------------- MODULE Board -------------------------------
(***************************************************************************)
(* The board of one promotion (services/leaderboard.py, board_view): who   *)
(* has a rank, and which, as participants synchronise, as new notes of     *)
(* theirs recommend a refresh to the others (services/cohort_pulse.py) and *)
(* as time passes.                                                         *)
(***************************************************************************)
EXTENDS Integers, Sequences, FiniteSets

CONSTANTS
    Participants,
    Position,      \* where their names sort
    Values,        \* scores
    Unset,
    HardStale, Grace, Cooldown,
    MaxNow         \* bound

VARIABLES
    now,
    score,        \* score[p]: the average or the GPA
    verified,     \* last_successful_sync_at
    recommended,  \* refresh_recommended_at
    pulsed,       \* last_emitted_at of the promotion
    told          \* first pulse since the last synchronisation, a history

boardVars == <<now, score, verified, recommended, pulsed, told>>

Times == 0 .. MaxNow

TypeOK ==
    /\ now \in Times /\ score \in [Participants -> Values]
    /\ verified \in [Participants -> Times \cup {Unset}]
    /\ recommended \in [Participants -> Times \cup {Unset}]
    /\ told \in [Participants -> Times \cup {Unset}]
    /\ pulsed \in Times \cup {Unset}

Init ==
    /\ now = 0 /\ score \in [Participants -> Values]
    /\ verified = [p \in Participants |-> Unset]
    /\ recommended = [p \in Participants |-> Unset]
    /\ told = [p \in Participants |-> Unset]
    /\ pulsed = Unset

-----------------------------------------------------------------------------

Tick ==
    /\ now < MaxNow /\ now' = now + 1
    /\ UNCHANGED <<score, verified, recommended, pulsed, told>>

Emits(changed) == changed /\ (pulsed = Unset \/ pulsed + Cooldown <= now)

\* sync_account: the score (a grade of COMPETENCES may move it alone), the
\* pulse if the notes changed, the recommendation met.
Synchronise(p, value, changed) ==
    /\ score' = [score EXCEPT ![p] = value]
    /\ verified' = [verified EXCEPT ![p] = now]
    /\ recommended' = [q \in Participants |->
          IF q = p THEN Unset ELSE IF Emits(changed) THEN now ELSE recommended[q]]
    /\ told' = [q \in Participants |->
          IF q = p THEN Unset ELSE IF Emits(changed) /\ told[q] = Unset THEN now ELSE told[q]]
    /\ pulsed' = IF Emits(changed) THEN now ELSE pulsed
    /\ UNCHANGED now

Next ==
    \/ Tick
    \/ \E p \in Participants, value \in Values, changed \in BOOLEAN : Synchronise(p, value, changed)

Spec == Init /\ [][Next]_boardVars

-----------------------------------------------------------------------------

\* leaderboard_freshness.
Freshness(p) ==
    IF verified[p] = Unset \/ verified[p] + HardStale <= now THEN "stale"
    ELSE IF recommended[p] = Unset \/ recommended[p] <= verified[p] THEN "current"
    ELSE IF recommended[p] + Grace <= now THEN "stale"
    ELSE "recommended"

Ranked == {p \in Participants : Freshness(p) # "stale"}

\* Mutant: sorted by name.
BeforeByName(p, q) == Position[p] < Position[q]

Before(p, q) ==
    \/ score[p] > score[q]
    \/ score[p] = score[q] /\ Position[p] < Position[q]
Named(p, q) == Position[p] < Position[q]

\* The members of a set, sorted.
Sorted(S, before(_, _)) ==
    CHOOSE s \in [1 .. Cardinality(S) -> S] : \A i, j \in DOMAIN s : i < j => before(s[i], s[j])

\* The rows, and the dense rank counted along them.
Rows == Sorted(Ranked, Before) \o Sorted(Participants \ Ranked, Named)
DenseRank ==
    LET rank[i \in 0 .. Cardinality(Ranked)] ==
            IF i = 0 THEN 0
            ELSE IF i > 1 /\ score[Rows[i]] = score[Rows[i - 1]] THEN rank[i - 1]
            ELSE rank[i - 1] + 1
    IN rank
RankOf(p) ==
    LET i == CHOOSE i \in DOMAIN Rows : Rows[i] = p
    IN IF p \in Ranked THEN DenseRank[i] ELSE Unset

-----------------------------------------------------------------------------

(* A rank is one more than the number of better scores among the ranked,   *)
(* whoever is stale: equal scores share it and none is skipped.            *)
RanksDense ==
    \A p \in Ranked :
        RankOf(p) = 1 + Cardinality({score[q] : q \in {r \in Ranked : score[r] > score[p]}})

(* Once verified, a participant is without a rank only HardStale after     *)
(* that, or Grace after the first pulse they did not answer: a late pulse, *)
(* its cooldown or the order of the others never cost a rank earlier.      *)
GraceGiven ==
    \A p \in Participants \ Ranked : verified[p] # Unset =>
        \/ verified[p] + HardStale <= now
        \/ told[p] # Unset /\ told[p] + Grace <= now

BoardSound == RanksDense /\ GraceGiven

(* docs/leaderboard.md: a participant who did not synchronise in time is   *)
(* without a rank until they do.                                           *)
RankEarned ==
    [][\A p \in Participants : p \notin Ranked /\ p \in Ranked' => verified'[p] # verified[p]]_boardVars
=============================================================================
