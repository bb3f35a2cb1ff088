-------------------------- MODULE AcademicResults --------------------------
(***************************************************************************)
(* What is computed from the published notes of one account, in four       *)
(* places: the dashboard (services/dashboard.py), the score of the         *)
(* leaderboard (services/leaderboard.py) and the results of the two kinds  *)
(* of scenarios when nothing in them has been changed since their import   *)
(* (services/simulations.py, services/note_simulations.py).                *)
(*                                                                         *)
(* Scores, averages and points are whole hundredths, coefficients whole    *)
(* thousandths.  Each place rounds in its own way; a quotient of floats is *)
(* rounded to a nearest hundredth, either one at a tie.                    *)
(***************************************************************************)
EXTENDS Integers, Sequences, FiniteSetsExt, SequencesExt

CONSTANTS
    Courses,
    Scores, Coefficients, Credits, Official,   \* values that PASS and COMPETENCES publish
    Unset,
    MaxNotes, MaxPublications   \* bounds

VARIABLES
    notes,     \* the notes in the order of their detection
    courses,   \* courses[c]: the ue_settings row of COMPETENCES
    published  \* publications so far

resultsVars == <<notes, courses, published>>

Note == [course : Courses, score : Scores, coefficient : Coefficients, resit : BOOLEAN,
         updated : 1 .. MaxPublications]
\* current: it is of the last generation.
Course == [credits : Credits, grade : Official \cup {Unset}, current : BOOLEAN]

TypeOK ==
    /\ notes \in Seq(Note) /\ Len(notes) <= MaxNotes
    /\ courses \in [Courses -> Course \cup {Unset}]
    /\ published \in 0 .. MaxPublications

Init ==
    /\ notes = <<>> /\ published = 0
    /\ courses = [c \in Courses |-> Unset]

-----------------------------------------------------------------------------
(* Publications.                                                           *)

Publication == published < MaxPublications /\ published' = published + 1

Detect(note) ==
    /\ Publication /\ Len(notes) < MaxNotes
    /\ notes' = Append(notes, [note EXCEPT !.updated = published + 1])
    /\ UNCHANGED courses

\* A published note changes, which dates it.
Correct(i, note) ==
    LET dated(n) == [n EXCEPT !.updated = published + 1]
    IN  /\ Publication /\ dated(note) # dated(notes[i])
        /\ notes' = [notes EXCEPT ![i] = dated(note)]
        /\ UNCHANGED courses

\* Archived: none of the four reads it any more.
Withdraw(i) ==
    /\ Publication
    /\ notes' = RemoveAt(notes, i)
    /\ UNCHANGED courses

\* apply_competency_ues: a course that is no longer listed keeps its row.
Refresh(listed, table) ==
    /\ Publication
    /\ courses' = [c \in Courses |->
          IF c \in listed THEN table[c]
          ELSE IF courses[c] = Unset THEN Unset ELSE [courses[c] EXCEPT !.current = FALSE]]
    /\ UNCHANGED notes

Next ==
    \/ \E note \in [course : Courses, score : Scores, coefficient : Coefficients,
                    resit : BOOLEAN, updated : {1}] :
          Detect(note) \/ \E i \in DOMAIN notes : Correct(i, note)
    \/ \E i \in DOMAIN notes : Withdraw(i)
    \/ \E listed \in SUBSET Courses :
          \E table \in [listed -> [credits : Credits, grade : Official \cup {Unset}, current : {TRUE}]] :
              Refresh(listed, table)

Spec == Init /\ [][Next]_resultsVars

-----------------------------------------------------------------------------
(* Arithmetic and grades.                                                  *)

HalfUp(n, d) == (2 * n + d) \div (2 * d)
HalfEven(n, d) == IF (2 * n) % (2 * d) = d THEN ((n \div d + 1) \div 2) * 2 ELSE HalfUp(n, d)
Nearest(n, d) == {q \in {n \div d, n \div d + 1} : 2 * (n - q * d) \in -d .. d}

Floor == [A |-> 1700, B |-> 1400, C |-> 1200, D |-> 1000, FX |-> 500, F |-> 0]
Points == [A |-> 400, B |-> 380, C |-> 350, D |-> 300, E |-> 250, FX |-> 0, F |-> 0]
Validating == {"A", "B", "C", "D", "E"}

\* grade_for_average, of n \div d.
GradeOf(n, d, resit) ==
    IF resit /\ n >= Floor["D"] * d THEN "E"
    ELSE CHOOSE g \in DOMAIN Floor : /\ Floor[g] * d <= n
                                     /\ \A h \in DOMAIN Floor : Floor[h] * d <= n => Floor[h] <= Floor[g]

Noted == {notes[i].course : i \in DOMAIN notes}
NotesOf(c) == {i \in DOMAIN notes : notes[i].course = c}
Resits(c) == {i \in NotesOf(c) : notes[i].resit}
Weight(i) == notes[i].coefficient
Weighed(i) == notes[i].score * Weight(i)

-----------------------------------------------------------------------------
(* The dashboard.                                                          *)

\* The resit that changed last, ties to the one detected last.
Latest(c) ==
    CHOOSE i \in Resits(c) : \A j \in Resits(c) :
        \/ notes[j].updated < notes[i].updated
        \/ notes[j].updated = notes[i].updated /\ j <= i

\* calculate_ues.
Average(c) ==
    IF NotesOf(c) = {} THEN Unset
    ELSE IF Resits(c) # {} THEN notes[Latest(c)].score
    ELSE HalfEven(MapThenSumSet(Weighed, NotesOf(c)), MapThenSumSet(Weight, NotesOf(c)))

OfficialGrade(c) == IF courses[c] = Unset THEN Unset ELSE courses[c].grade
Grade(c) ==
    IF OfficialGrade(c) # Unset THEN OfficialGrade(c)
    ELSE IF Average(c) = Unset THEN Unset
    ELSE GradeOf(Average(c), 1, Resits(c) # {})

Validated(c) ==
    IF OfficialGrade(c) # Unset THEN OfficialGrade(c) \in Validating
    ELSE Average(c) # Unset /\ Average(c) >= Floor["D"]

CreditsOf(c) == courses[c].credits
WeighedAverage(c) == Average(c) * CreditsOf(c)
WeighedPoints(c) == Points[Grade(c)] * CreditsOf(c)
Averaged == {c \in Courses : courses[c] # Unset /\ Average(c) # Unset}
Graded == {c \in Courses : courses[c] # Unset /\ Grade(c) # Unset}

\* weighted_average, for the average and for the GPA.
DashboardAverage ==
    Nearest(MapThenSumSet(WeighedAverage, Averaged), MapThenSumSet(CreditsOf, Averaged))
DashboardGpa ==
    Nearest(MapThenSumSet(WeighedPoints, Graded), MapThenSumSet(CreditsOf, Graded))

-----------------------------------------------------------------------------
(* The leaderboard.                                                        *)

\* _official_ects_basis: the courses of the current generation.
Basis == {c \in Noted : courses[c] # Unset /\ courses[c].current}

\* Mutant: courses without ECTS are left out of the score.
EligibleSome == Basis # {}

\* calculate_raw_pass_score, LeaderboardScore.eligible.
Eligible == Noted # {} /\ Basis = Noted
BoardAverage == Nearest(MapThenSumSet(WeighedAverage, Basis), MapThenSumSet(CreditsOf, Basis))
BoardGpa == Nearest(MapThenSumSet(WeighedPoints, Basis), MapThenSumSet(CreditsOf, Basis))

-----------------------------------------------------------------------------
(* Scenarios just imported.                                                *)

\* _academic_source, the same courses for both kinds.
Imported == {c \in Courses : c \in Noted \/ courses[c] # Unset}
WithCredits == {c \in Imported : courses[c] # Unset}

\* A scenario of grades: _aggregate over the rows of the dashboard.
GradedRows == {c \in WithCredits : Grade(c) # Unset}
ScenarioGpa ==
    HalfUp(MapThenSumSet(WeighedPoints, GradedRows), MapThenSumSet(CreditsOf, GradedRows))

\* A scenario of notes: the assessments, resits last.
FirstAssessed(i, j) ==
    \/ ~notes[i].resit /\ notes[j].resit
    \/ notes[i].resit = notes[j].resit /\ i < j
Assessments(c) ==
    CHOOSE s \in [1 .. Cardinality(NotesOf(c)) -> NotesOf(c)] :
        \A i, j \in DOMAIN s : i < j => FirstAssessed(s[i], s[j])

\* Two decimals of a coefficient are kept, 1 when none is left.
Kept(i) == LET c == HalfUp(Weight(i), 10) * 10 IN IF c = 0 THEN 1000 ELSE c
WeighedKept(i) == notes[i].score * Kept(i)

\* _ue_projection: the last resit, else the exact mean.
Projected(c) ==
    IF Resits(c) # {} THEN <<notes[Last(Assessments(c))].score, 1>>
    ELSE <<MapThenSumSet(WeighedKept, NotesOf(c)), MapThenSumSet(Kept, NotesOf(c))>>
ProjectedAverage(c) == IF c \in Noted THEN HalfUp(Projected(c)[1], Projected(c)[2]) ELSE Unset
ProjectedGrade(c) == GradeOf(Projected(c)[1], Projected(c)[2], Resits(c) # {})

\* _aggregate_without_semesters.
ProjectedCredits(c) == ProjectedAverage(c) * CreditsOf(c)
ProjectedPoints(c) == Points[ProjectedGrade(c)] * CreditsOf(c)
ProjectedRows == {c \in WithCredits : ProjectedAverage(c) # Unset}
NotesScenarioAverage ==
    HalfUp(MapThenSumSet(ProjectedCredits, ProjectedRows), MapThenSumSet(CreditsOf, ProjectedRows))
NotesScenarioGpa ==
    HalfUp(MapThenSumSet(ProjectedPoints, ProjectedRows), MapThenSumSet(CreditsOf, ProjectedRows))

-----------------------------------------------------------------------------

(* An account on the board has there the average that its dashboard shows, *)
(* and the same GPA unless COMPETENCES grades a course without notes.      *)
BoardAgrees ==
    Eligible =>
        /\ BoardAverage = DashboardAverage
        /\ Graded \subseteq Noted => BoardGpa = DashboardGpa

(* A scenario of grades starts at the GPA of the dashboard, whatever the   *)
(* roundings on the way.                                                   *)
ScenarioAgrees == Graded # {} => ScenarioGpa \in DashboardGpa

(* Where COMPETENCES gives no grade and there is one resit at most, a      *)
(* scenario of notes starts at the average of the dashboard, a hundredth   *)
(* above at a tie, and never with a better grade: it grades the exact      *)
(* mean, the dashboard the rounded one.  When all courses are such, its    *)
(* global average is at most a hundredth above, and its GPA not better.    *)
Comparable(c) ==
    /\ OfficialGrade(c) = Unset /\ \A i, j \in Resits(c) : i = j
    /\ \A i \in NotesOf(c) : Weight(i) % 10 = 0
ProjectionNeverBetter ==
    /\ \A c \in Noted : Comparable(c) =>
          /\ Average(c) \in Nearest(Projected(c)[1], Projected(c)[2])
          /\ ProjectedAverage(c) - Average(c) \in 0 .. 1
          /\ Points[ProjectedGrade(c)] <= Points[Grade(c)]
    /\ ProjectedRows # {} /\ (\A c \in Courses : Comparable(c)) =>
          /\ \E average \in DashboardAverage : NotesScenarioAverage - average \in 0 .. 1
          /\ \E gpa \in DashboardGpa : NotesScenarioGpa <= gpa

(* A course is validated exactly when its grade says so.                   *)
ValidatedByGrade == \A c \in Courses : Validated(c) <=> Grade(c) \in Validating

ResultsAgree == BoardAgrees /\ ScenarioAgrees /\ ProjectionNeverBetter /\ ValidatedByGrade
=============================================================================
