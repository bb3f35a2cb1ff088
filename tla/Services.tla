------------------------------ MODULE Services ------------------------------
(***************************************************************************)
(* The components around the synchronisation, which share no state: the    *)
(* calendar and the admission of its connections, the Telegram outbox, the *)
(* imported grades, the simulations, the leaderboard, the learning         *)
(* progress and the two rotations of keys.  "focus" is chosen once, in the *)
(* initial state; the other components stay in theirs.                     *)
(***************************************************************************)
EXTENDS CalendarFeed

CONSTANTS
    \* ConnectAdmission, and Learning:
    Requests, Nobody, Window, MinDelay, Limit, Retention, MaxTime, MaxTries,
    \* Notifications:
    Messages, NoClaim, MaxAttempts, LeaseTime, Backoff, SucceededRetention, DeadRetention,
    MaxRows,
    \* GradeImport:
    GradeKeys, Ue, Scores, UeCap, ArchiveCap, MaxExports, MaxImports,
    \* Simulations:
    Scenarios, Keys, Extras, Owner, Values, Unset, Tabs, Kind, ScenarioCap, RowCap, MaxWrites,
    \* Leaderboard:
    Bases, MaxGenerations, MaxRequests,
    \* Learning:
    Courses, Hints, Grants, Absent, AttemptCap, ProgressCap, HintCap, MaxRecorded, MaxClock,
    \* KeyRotation and HpkeRotation:
    Accounts, Order, Plain, Batches, Limits, MaxKeys, MaxGifts, Sealed, MaxKeyGenerations

VARIABLES
    focus,
    now, tries, connect, lock,
    wanted, withdrawn, sending, arrived, outbox, claim,
    export, exports, fetched, note, courses, imports, changed, announced, last,
    source, publications, scenario, unused, writes, tab,
    account, profile, handling, sync, asked, joins, out,
    clock, student, grant, attempts, recorded, progress, request, holder,
    stored, gifts, write, readable, command, idle,
    row, keyset, service, run, empty

Admission == INSTANCE ConnectAdmission
Outbox == INSTANCE Notifications WITH job <- outbox
Grades == INSTANCE GradeImport WITH Keys <- GradeKeys
Simulation == INSTANCE Simulations WITH published <- publications
Board == INSTANCE Leaderboard WITH request <- handling, withdrawn <- out
Progress == INSTANCE Learning WITH Contents <- Courses, MaxAttempts <- MaxRecorded
Secrets == INSTANCE KeyRotation WITH Values <- Plain
Hpke == INSTANCE HpkeRotation WITH
    Envelopes <- Sealed, MaxGenerations <- MaxKeyGenerations

(* A finite number of accounts have secrets, and what stands for no secret *)
(* is none.                                                                *)
ASSUME SecretsAssumption ==
    /\ IsFiniteSet(Accounts) /\ Absent \notin Secrets!Envelope
    /\ MaxKeys \in Nat \ {0} /\ MaxGifts \in Nat
    /\ MaxKeyGenerations \in Nat \ {0} /\ Absent \notin Hpke!Generations

(* The assumptions of DurableJobs on the rows of the outbox; a finite      *)
(* number of workers.                                                      *)
ASSUME OutboxAssumption ==
    /\ IsFiniteSet(Workers)
    /\ MaxAttempts \in Nat \ {0} /\ LeaseTime \in Nat \ {0}
    /\ Backoff \in [1 .. MaxAttempts -> Nat \ {0}]
    /\ SucceededRetention \in Nat /\ DeadRetention \in Nat
    /\ NoClaim \notin Outbox!Queue!Claim

(* The delay between two connections is shorter than the window in which   *)
(* they are counted (calendar_feed.py); the courses and their hints are    *)
(* those of a finite catalog.                                              *)
ASSUME LimitsAssumption ==
    /\ Nobody \notin Requests /\ MaxTime \in Nat /\ MaxTries \in Nat
    /\ Window \in Nat /\ MinDelay \in Nat /\ MinDelay <= Window /\ Limit \in Nat \ {0}
    /\ IsFiniteSet(Courses) /\ IsFiniteSet(Hints) /\ (\A h \in SUBSET Hints : h # Absent)
    /\ AttemptCap \in Nat /\ ProgressCap \in Nat /\ HintCap \in Nat
    /\ MaxRecorded \in Nat /\ MaxClock \in Nat

(* What an owner invents is no key the school may publish: lineage keys    *)
(* open with "manual:" for one and "source:" for the other                 *)
(* (services/simulations.py).                                              *)
ASSUME SimulationAssumption == Keys \cap Extras = {}

(* An assessment belongs to a UE, one that is published to one that is; a  *)
(* NULL is no value.  The bounds are numbers.                              *)
ASSUME RowsAssumption ==
    /\ Owner \in [Keys \cup Extras -> Keys \cup Extras]
    /\ \A k \in Keys \cup Extras : Owner[Owner[k]] = Owner[k]
    /\ \A k \in Keys : Owner[k] \in Keys
    /\ Unset \notin Values /\ MaxWrites \in Nat
    /\ MaxGenerations \in Nat /\ MaxRequests \in Nat
    /\ UeCap \in Nat /\ MaxExports \in Nat /\ MaxImports \in Nat

admissionVars == <<now, tries, connect, lock>>
outboxVars == <<wanted, withdrawn, sending, arrived, outbox, claim>>
gradeVars == <<export, exports, fetched, note, courses, imports, changed, announced, last>>
simulationVars == <<source, publications, scenario, unused, writes, tab>>
boardVars == <<account, profile, handling, sync, asked, joins, out>>
learningVars == <<clock, student, grant, attempts, recorded, progress, request, holder>>
secretVars == <<stored, gifts, write, readable, command, idle>>
envelopeVars == <<row, keyset, service, run, empty>>

Components == {"calendar", "admission", "outbox", "grades", "simulation", "board",
               "learning", "secrets", "envelopes"}

AnyBasis == CHOOSE b \in Bases : TRUE

\* A component out of focus has one initial state.
ServicesInit ==
    /\ focus \in Components
    /\ Init /\ Admission!Init /\ Outbox!Init /\ Secrets!Init /\ Hpke!Init
    /\ Grades!Init /\ (focus # "grades" => export = <<>>)
    /\ Simulation!Init /\ (focus # "simulation" => source = <<>>)
    /\ Board!Init
    /\ (focus # "board" => ~profile.exists /\ ~account.complete /\ account.basis = AnyBasis)
    /\ Progress!Init /\ (focus # "learning" => ~student)

Calendar ==
    /\ focus = "calendar" /\ Next
    /\ UNCHANGED <<focus, admissionVars, outboxVars, gradeVars, simulationVars, boardVars,
                   learningVars, secretVars, envelopeVars>>
AdmissionStep ==
    /\ focus = "admission" /\ Admission!Next
    /\ UNCHANGED <<focus, vars, outboxVars, gradeVars, simulationVars, boardVars,
                   learningVars, secretVars, envelopeVars>>
OutboxStep ==
    /\ focus = "outbox" /\ Outbox!Next
    /\ UNCHANGED <<focus, vars, admissionVars, gradeVars, simulationVars, boardVars,
                   learningVars, secretVars, envelopeVars>>
GradesStep ==
    /\ focus = "grades" /\ Grades!Next
    /\ UNCHANGED <<focus, vars, admissionVars, outboxVars, simulationVars, boardVars,
                   learningVars, secretVars, envelopeVars>>
SimulationStep ==
    /\ focus = "simulation" /\ Simulation!Next
    /\ UNCHANGED <<focus, vars, admissionVars, outboxVars, gradeVars, boardVars,
                   learningVars, secretVars, envelopeVars>>
BoardStep ==
    /\ focus = "board" /\ Board!Next
    /\ UNCHANGED <<focus, vars, admissionVars, outboxVars, gradeVars, simulationVars,
                   learningVars, secretVars, envelopeVars>>
LearningStep ==
    /\ focus = "learning" /\ Progress!Next
    /\ UNCHANGED <<focus, vars, admissionVars, outboxVars, gradeVars, simulationVars, boardVars,
                   secretVars, envelopeVars>>
SecretsStep ==
    /\ focus = "secrets" /\ Secrets!Next
    /\ UNCHANGED <<focus, vars, admissionVars, outboxVars, gradeVars, simulationVars, boardVars,
                   learningVars, envelopeVars>>
EnvelopesStep ==
    /\ focus = "envelopes" /\ Hpke!Next
    /\ UNCHANGED <<focus, vars, admissionVars, outboxVars, gradeVars, simulationVars, boardVars,
                   learningVars, secretVars>>

ServicesNext == \/ Calendar \/ AdmissionStep \/ OutboxStep \/ GradesStep \/ SimulationStep
          \/ BoardStep \/ LearningStep \/ SecretsStep \/ EnvelopesStep
servicesVars == <<focus, vars, admissionVars, outboxVars, gradeVars, simulationVars, boardVars,
            learningVars, secretVars, envelopeVars>>
ServicesSpec == ServicesInit /\ [][ServicesNext]_servicesVars

(* Every row of the nine components has its type.                          *)
TypesOK ==
    CASE focus = "calendar" -> TypeOK
      [] focus = "admission" -> Admission!TypeOK
      [] focus = "outbox" -> Outbox!TypeOK
      [] focus = "grades" -> Grades!TypeOK
      [] focus = "simulation" -> Simulation!TypeOK
      [] focus = "board" -> Board!TypeOK
      [] focus = "learning" -> Progress!TypeOK
      [] focus = "secrets" -> Secrets!TypeOK
      [] focus = "envelopes" -> Hpke!TypeOK

(* Notifications.                                                          *)
OutboxHonest == Outbox!OutboxHonest
(* GradeImport.                                                            *)
ImportHonest == Grades!ImportHonest
(* Simulations.                                                            *)
BaselineOfficial == Simulation!BaselineOfficial
NoUnseenOverwrite == Simulation!NoUnseenOverwrite
(* Leaderboard.                                                            *)
WithdrawnUnlisted == Board!WithdrawnUnlisted

(* Learning and ConnectAdmission: no owner gets past a counted limit by    *)
(* sending several requests at once.                                       *)
LimitsKept == Progress!LimitsKept /\ Admission!ConnectsSpaced

(* KeyRotation and HpkeRotation: every stored secret can be opened with a  *)
(* key that is kept, through both rotations.                               *)
SecretsOpen == Secrets!RetirementSafe /\ Hpke!EnvelopesKept
=============================================================================
