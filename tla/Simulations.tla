---------------------------- MODULE Simulations ----------------------------
(***************************************************************************)
(* The simulations of one account: scenarios of hypothetical results that  *)
(* start from the official ones and are rebased on them when they change   *)
(* (services/simulations.py, and services/note_simulations.py, where a UE  *)
(* also holds assessments).                                                *)
(*                                                                         *)
(* Several tabs edit the same scenario.  A tab sends back everything it    *)
(* displays, with the version it read; each handler locks the scenario     *)
(* before it compares the version.  Reading does not lock: the scenario    *)
(* and its rows come from two statements.                                  *)
(***************************************************************************)
EXTENDS Naturals, FiniteSets

CONSTANTS
    Scenarios,     \* identifiers of scenarios, each used once
    Keys,          \* UE and assessments the school may publish
    Extras,        \* rows an owner may invent
    Owner,         \* Owner[k]: the UE of an assessment, or the UE k itself
    Values, Unset, \* what a row says; a column that is NULL
    Tabs,
    Kind,          \* "gpa" or "notes"
    ScenarioCap,   \* MAX_SIMULATION_SCENARIOS_PER_ACCOUNT
    RowCap,        \* rows a scenario may have
    MaxWrites, MaxPublications   \* bounds

Ids == Keys \cup Extras
Statuses == {"current", "conflict", "unavailable"}
NoScenario == [version |-> 0]

VARIABLES
    source,     \* the official results: published keys and what they say
    published,  \* times the school changed them
    scenario,   \* scenario[x]: the row and its entries
    unused,     \* identifiers not given yet
    writes,     \* scenarios created and written so far
    tab         \* what a tab displays

simulationVars == <<source, published, scenario, unused, writes, tab>>

\* A set of rows holds the UE of each of its assessments.
Closed(S) == \A k \in S : Owner[k] \in S
Sources == UNION {[S -> Values] : S \in {T \in SUBSET Keys : Closed(T)}}
Row == [value : Values, base : Values \cup {Unset}, status : Statuses]

Shown(s) == [k \in DOMAIN s.rows |-> s.rows[k].value]
Blank == [at |-> "blank"]

TypeOK ==
    /\ source \in Sources /\ published \in 0 .. MaxPublications
    /\ unused \subseteq Scenarios /\ writes \in 0 .. MaxWrites
    /\ \A x \in Scenarios : scenario[x] = NoScenario \/
          /\ scenario[x].version \in 1 .. MaxWrites
          /\ scenario[x].revision \in Sources \cup {Unset}
          /\ DOMAIN scenario[x].rows \subseteq Ids /\ Closed(DOMAIN scenario[x].rows)
          /\ \A k \in DOMAIN scenario[x].rows :
                scenario[x].rows[k] \in Row /\ (scenario[x].rows[k].base = Unset <=> k \in Extras)
    /\ \A t \in Tabs : tab[t].at \in {"blank", "opening", "open"}

Init ==
    /\ source \in Sources /\ published = 0
    /\ scenario = [x \in Scenarios |-> NoScenario]
    /\ unused = Scenarios /\ writes = 0
    /\ tab = [t \in Tabs |-> Blank]

-----------------------------------------------------------------------------
(* The rows of a scenario.                                                 *)

Modified(row) == row.value # row.base

\* _imported_entry, _imported_ue, _imported_assessment.
ImportedRow(value) == [value |-> value, base |-> value, status |-> "current"]
Imported(s) == [k \in DOMAIN s |-> ImportedRow(s[k])]
Simulated(value) == [value |-> value, base |-> Unset, status |-> "current"]

\* Mutant: a hypothesis in conflict keeps the result it was made against.
RebasedKeepsBase(row, value) ==
    IF Modified(row) /\ value # row.base THEN [row EXCEPT !.status = "conflict"]
    ELSE ImportedRow(value)

\* A row still published: an untouched one follows, a hypothesis stays.
RebasedRow(row, value) ==
    [value |-> IF Modified(row) THEN row.value ELSE value,
     base |-> value,
     status |-> IF Modified(row) /\ value # row.base THEN "conflict" ELSE "current"]

\* A UE that is no longer published takes its assessments with it; one that
\* is, brings those that are new.
Rebased(rows, s) ==
    [k \in DOMAIN rows \cup DOMAIN s |->
        IF k \notin DOMAIN rows THEN ImportedRow(s[k])
        ELSE IF k \in Extras THEN rows[k]
        ELSE IF k \notin DOMAIN s THEN [rows[k] EXCEPT !.status = "unavailable"]
        ELSE RebasedRow(rows[k], s[k])]

\* What was typed replaces what was there; a row not sent is removed.
Saved(rows, typed) ==
    [k \in DOMAIN typed |->
        IF k \notin DOMAIN rows THEN Simulated(typed[k])
        ELSE [rows[k] EXCEPT
                !.value = typed[k],
                !.status = IF k \in Keys /\ @ # "unavailable" /\ typed[k] = rows[k].base
                           THEN "current" ELSE @]]

ResetRow(row) == [row EXCEPT !.value = row.base,
                             !.status = IF @ = "unavailable" THEN @ ELSE "current"]
Reset(rows) == [k \in DOMAIN rows \cap Keys |-> ResetRow(rows[k])]

\* resolve_ue_conflict, resolve_assessment_conflict, resolve_conflict.
Resolved(rows, k, resolution) ==
    [rows EXCEPT ![k] = [@ EXCEPT
        !.value = IF resolution = "source" THEN rows[k].base ELSE rows[k].value,
        !.status = "current"]]

\* _validate_capacity, asked of every save, but only of the rebase of notes.
Fits(rows) == Cardinality(DOMAIN rows) <= RowCap
RebaseFits(rows) == Kind = "gpa" \/ Fits(rows)

-----------------------------------------------------------------------------
(* The handlers.  A tab displays what the response of its request says.    *)

Display(t, x) == tab' = [tab EXCEPT ![t] = [at |-> "open", of |-> x,
                            version |-> scenario'[x].version, shown |-> Shown(scenario'[x])]]

Live == {x \in Scenarios : scenario[x] # NoScenario}

\* Mutant: the version sent is not compared.
DisplayedBy(t, x) == tab[t].at = "open" /\ tab[t].of = x /\ scenario[x] # NoScenario

\* The request of the tab passes the version check.
Current(t, x) ==
    /\ tab[t].at = "open" /\ tab[t].of = x /\ scenario[x] # NoScenario
    /\ tab[t].version = scenario[x].version

Write(x, rows, revision) ==
    /\ writes < MaxWrites /\ writes' = writes + 1
    /\ scenario' = [scenario EXCEPT ![x] =
                      [version |-> @.version + 1, revision |-> revision, rows |-> rows]]
    /\ UNCHANGED <<source, published, unused>>

Insert(t, x, s) ==
    /\ writes < MaxWrites /\ writes' = writes + 1
    /\ x \in unused /\ Cardinality(Live) < ScenarioCap
    /\ scenario' = [scenario EXCEPT ![x] = s]
    /\ unused' = unused \ {x}
    /\ Display(t, x)
    /\ UNCHANGED <<source, published>>

CreateScenario(t, x, import) ==
    Insert(t, x, IF import THEN [version |-> 1, revision |-> source, rows |-> Imported(source)]
                 ELSE [version |-> 1, revision |-> Unset, rows |-> <<>>])

DuplicateScenario(t, x, y) ==
    /\ Current(t, x)
    /\ Insert(t, y, [scenario[x] EXCEPT !.version = 1])

\* What an owner may send: the rows displayed, one of them changed, without
\* one of them, or with one more.
Drafts(shown) ==
    {shown}
    \cup {[shown EXCEPT ![k] = v] : k \in DOMAIN shown, v \in Values}
    \cup {[k \in {i \in DOMAIN shown : i # d /\ Owner[i] # d} |-> shown[k]] : d \in DOMAIN shown}
    \cup {[k \in DOMAIN shown \cup {e} |-> IF k = e THEN v ELSE shown[k]] :
             e \in {j \in Extras \ DOMAIN shown : Owner[j] \in DOMAIN shown \cup {j}}, v \in Values}

SaveScenario(t, x) ==
    /\ Current(t, x)
    /\ \E typed \in Drafts(tab[t].shown) :
          /\ Fits(typed)
          /\ Write(x, Saved(scenario[x].rows, typed), scenario[x].revision)
    /\ Display(t, x)

ResetScenario(t, x) ==
    Current(t, x) /\ Write(x, Reset(scenario[x].rows), scenario[x].revision) /\ Display(t, x)

RebaseScenario(t, x) ==
    /\ Current(t, x) /\ RebaseFits(Rebased(scenario[x].rows, source))
    /\ Write(x, Rebased(scenario[x].rows, source), source)
    /\ Display(t, x)

ResolveConflict(t, x, resolution) ==
    /\ Current(t, x)
    /\ \E k \in DOMAIN scenario[x].rows \cap Keys :
          Write(x, Resolved(scenario[x].rows, k, resolution), scenario[x].revision)
    /\ Display(t, x)

DeleteScenario(t, x) ==
    /\ Current(t, x)
    /\ scenario' = [scenario EXCEPT ![x] = NoScenario]
    /\ tab' = [tab EXCEPT ![t] = Blank]
    /\ UNCHANGED <<source, published, unused, writes>>

\* get_scenario: the row, then its entries.
ReadScenario(t, x) ==
    /\ tab[t].at # "opening" /\ scenario[x] # NoScenario
    /\ tab' = [tab EXCEPT ![t] = [at |-> "opening", of |-> x, version |-> scenario[x].version]]
    /\ UNCHANGED <<source, published, scenario, unused, writes>>

ReadEntries(t) ==
    /\ tab[t].at = "opening"
    /\ LET x == tab[t].of IN
          tab' = [tab EXCEPT ![t] =
             IF scenario[x] = NoScenario
             THEN [at |-> "open", of |-> x, version |-> @.version, shown |-> <<>>]
             ELSE [at |-> "open", of |-> x, version |-> @.version, shown |-> Shown(scenario[x])]]
    /\ UNCHANGED <<source, published, scenario, unused, writes>>

\* A synchronisation changes the official results.
Publish ==
    /\ published < MaxPublications /\ published' = published + 1
    /\ source' \in Sources \ {source}
    /\ UNCHANGED <<scenario, unused, writes, tab>>

Next ==
    \/ \E t \in Tabs, x \in Scenarios :
          \/ \E i \in BOOLEAN : CreateScenario(t, x, i)
          \/ \E y \in Scenarios : DuplicateScenario(t, x, y)
          \/ SaveScenario(t, x) \/ ResetScenario(t, x) \/ RebaseScenario(t, x)
          \/ \E r \in {"source", "hypothesis"} : ResolveConflict(t, x, r)
          \/ DeleteScenario(t, x) \/ ReadScenario(t, x)
    \/ \E t \in Tabs : ReadEntries(t)
    \/ Publish

SimulationSpec == Init /\ [][Next]_simulationVars

-----------------------------------------------------------------------------

(* A tab changes or deletes a scenario only from its latest contents: what *)
(* another tab saved meanwhile is never overwritten unseen, although a     *)
(* page reads the scenario and its rows in two statements.                 *)
NoUnseenOverwrite ==
    [][\A x \in Live, t \in Tabs :
          scenario'[x] # scenario[x] /\ tab'[t] # tab[t]
             => tab[t].at = "open" /\ tab[t].of = x /\ tab[t].shown = Shown(scenario[x])]_simulationVars

(* When a scenario offers no rebase, since its revision is the official    *)
(* one, every published row it holds is compared with the official result, *)
(* through copies, withdrawals and results that come back.                 *)
BaselineOfficial ==
    \A x \in Live : scenario[x].revision = source =>
       \A k \in DOMAIN scenario[x].rows \cap DOMAIN source : scenario[x].rows[k].base = source[k]

(* docs/simulations.md: the resolution of a conflict is never automatic.   *)
(* While the hypothesis still contradicts the official result, the rebase  *)
(* that some other publication calls for does not end the conflict.        *)
ConflictKept ==
    [][\A x \in Live, k \in Keys :
          /\ k \in DOMAIN scenario[x].rows /\ Modified(scenario[x].rows[k])
          /\ scenario[x].rows[k].status = "conflict"
          /\ scenario'[x] # NoScenario /\ scenario'[x].revision # scenario[x].revision
          => scenario'[x].rows[k].status # "current"]_simulationVars
=============================================================================
