---------------------------- MODULE GradeImport ----------------------------
(***************************************************************************)
(* The grades of one account (services/sync.py, apply_pass_entries): each  *)
(* synchronisation compares the export of PASS with the notes it keeps,    *)
(* announces those it inserts, archives those that are no longer listed,   *)
(* and tells the cadence and the cohort whether anything changed.          *)
(*                                                                         *)
(* A note is recognised by pass_source_key: its course, label, coefficient *)
(* and kind, never its score.  Archived notes are kept up to a number, the *)
(* least recently archived go.  An import that fails writes nothing.       *)
(***************************************************************************)
EXTENDS Naturals, FiniteSets

CONSTANTS
    Keys,         \* what pass_source_key tells apart
    Ue,           \* Ue[k]: the course of k
    Scores,
    UeCap,        \* MAX_UE_SETTINGS_PER_ACCOUNT
    ArchiveCap,   \* MAX_ARCHIVED_PASS_NOTES_PER_ACCOUNT
    MaxExports, MaxImports   \* bounds

VARIABLES
    export,     \* what PASS lists: scores by key
    exports,    \* times the school changed it
    fetched,    \* the export a synchronisation is about to apply
    note,       \* note[k]: the row
    courses,    \* UE that have a row in ue_settings
    imports,    \* imports committed
    changed,    \* the last import reported a change
    announced,  \* announced[k]: note:new events
    last        \* the export applied last, a history

gradeVars == <<export, exports, fetched, note, courses, imports, changed, announced, last>>

Exports == UNION {[S -> Scores] : S \in SUBSET Keys}
Nothing == [at |-> "nothing"]
NoNote == [at |-> "absent"]
\* stamp: updated_at, the number of the import that wrote the row.
Note == [at : {"listed", "archived"}, score : Scores, stamp : Nat]

TypeOK ==
    /\ export \in Exports /\ exports \in 0 .. MaxExports /\ imports \in 0 .. MaxImports
    /\ fetched = Nothing \/ (fetched.at = "fetched" /\ fetched.list \in Exports)
    /\ \A k \in Keys : note[k] = NoNote \/ note[k] \in Note
    /\ courses \subseteq {Ue[k] : k \in Keys} /\ Cardinality(courses) <= UeCap
    /\ changed \in BOOLEAN /\ announced \in [Keys -> 0 .. MaxImports] /\ last \in Exports

Init ==
    /\ export \in Exports /\ exports = 0
    /\ fetched = Nothing
    /\ note = [k \in Keys |-> NoNote] /\ courses = {}
    /\ imports = 0 /\ changed = FALSE
    /\ announced = [k \in Keys |-> 0] /\ last = <<>>

-----------------------------------------------------------------------------

\* PASS lists, corrects or withdraws results.
Publish ==
    /\ exports < MaxExports /\ exports' = exports + 1
    /\ export' \in Exports \ {export}
    /\ UNCHANGED <<fetched, note, courses, imports, changed, announced, last>>

\* parse_pass_export: one entry per key, the last line of it that PASS lists.
Fetch ==
    /\ fetched = Nothing
    /\ fetched' = [at |-> "fetched", list |-> export]
    /\ UNCHANGED <<export, exports, note, courses, imports, changed, announced, last>>

Fail ==
    /\ fetched # Nothing
    /\ fetched' = Nothing
    /\ UNCHANGED <<export, exports, note, courses, imports, changed, announced, last>>

Archived(notes) == {k \in Keys : notes[k].at = "archived"}
Inserted(list) == {k \in DOMAIN list : note[k] = NoNote}
Withdrawn(list) == {k \in Keys \ DOMAIN list : note[k].at = "listed"}

\* Mutant: a row that is listed again is not compared with what it said.
UpdatedAlways(list) == {k \in DOMAIN list : note[k] # NoNote}

Updated(list) ==
    {k \in DOMAIN list : note[k] # NoNote /\ (note[k].at = "archived" \/ note[k].score # list[k])}

Merged(list) ==
    [k \in Keys |->
        IF k \in Inserted(list) \cup Updated(list)
        THEN [at |-> "listed", score |-> list[k], stamp |-> imports + 1]
        ELSE IF k \in Withdrawn(list) THEN [note[k] EXCEPT !.at = "archived", !.stamp = imports + 1]
        ELSE note[k]]

\* Sets of archived notes that may remain: the most recent ones.
Kept(notes) ==
    {S \in SUBSET Archived(notes) :
        /\ Cardinality(S) = IF Cardinality(Archived(notes)) < ArchiveCap
                            THEN Cardinality(Archived(notes)) ELSE ArchiveCap
        /\ \A k \in S, j \in Archived(notes) \ S : notes[k].stamp >= notes[j].stamp}

Purged(notes, kept) ==
    [k \in Keys |-> IF k \in Archived(notes) \ kept THEN NoNote ELSE notes[k]]

\* The import of a first login announces nothing.
News(list) == IF imports = 0 THEN {} ELSE Inserted(list)

Import ==
    LET list == fetched.list
        known == courses \cup {Ue[k] : k \in DOMAIN list}
    IN  /\ fetched # Nothing /\ imports < MaxImports
        /\ Cardinality(known) <= UeCap
        /\ \E kept \in Kept(Merged(list)) : note' = Purged(Merged(list), kept)
        /\ courses' = known
        /\ changed' = (Inserted(list) \cup Updated(list) \cup Withdrawn(list) # {})
        /\ announced' = [k \in Keys |-> IF k \in News(list) THEN announced[k] + 1 ELSE announced[k]]
        /\ imports' = imports + 1
        /\ fetched' = Nothing /\ last' = list
        /\ UNCHANGED <<export, exports>>

Next == Publish \/ Fetch \/ Fail \/ Import

GradeSpec == Init /\ [][Next]_gradeVars

-----------------------------------------------------------------------------

(* docs/automatic-sync.md: an execution without change widens the adaptive *)
(* interval, a note added, changed or archived resets it.  An import       *)
(* reports a change exactly when its export differs from the one imported  *)
(* before, through archives, purges and results that come back.            *)
ChangeMeansDifferent == imports' # imports => (changed' <=> last' # last)

(* A note is announced once, and once more only if its row was purged, so  *)
(* that a correction or a result that comes back is no news.               *)
NewsAreNew ==
    \A k \in Keys : announced'[k] # announced[k] => note[k] = NoNote /\ k \notin DOMAIN last

(* What the owner and the cadence are told of every import is true.        *)
ImportHonest == [][ChangeMeansDifferent /\ NewsAreNew]_gradeVars
=============================================================================
