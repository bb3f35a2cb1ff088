------------------------------ MODULE Accounts ------------------------------
(***************************************************************************)
(* Ten components around an account that share no state: the schedule, the *)
(* credentials, the accesses, the throttle, a conversation with the        *)
(* school, the migration of the stored sessions, the reconciliation of the *)
(* sequence, the directory of the keys, the results computed from an       *)
(* account's notes and the board of a promotion.  "focus" is chosen once,  *)
(* in the initial state; the other components stay in theirs.              *)
(***************************************************************************)
EXTENDS SyncSchedule

CONSTANTS
    Tabs, MaxEnrolments, MaxSessions, MaxInterventions,
    Requests, Challenges, MaxObjects, MaxMoves,
    AccountCap, ShareCap, OwnerCap, ActiveCap, RetainedCap,
    Logins, Clients, Targets, MaxTime, MaxAttempts, TargetDelays, ClientDelays,
    Window, AttemptLimit, Decay, Quiet, Retention,
    MaxTargetStates, MaxClientStates, StormTotal, StormTargets, StormClients, StormPause,
    MaxSteps, MaxRedirects, MaxRequests,
    Stored, OldStored, Reusers, MaxSnapshots,
    Writers, Operators, MaxValue,
    Hands, MaxGenerations,
    Courses, Scores, Coefficients, Credits, Official, MaxNotes, MaxPublications,
    Participants, Position, Values, HardStale, Grace, Cooldown, MaxHour

VARIABLES
    focus,
    account, credential, session, serials, worker, leased, slot, tabs, scheduler,
    runtime, interventions,
    person, sessions, tokens, passkeys, challenges, requests, serial, revocations,
    now, attempts, targetRows, pairRows, clientRows, systemUntil, logins,
    client, wire, heard, unreported,
    stored, latest, reuser, command, drained, revoked,
    rows, sequence, revision, writer, table, advisory, operator,
    manifest, files, litter, lock, hand, drawn, sealed, ordered,
    notes, courses, published,
    hour, score, verified, recommended, pulsed, told

Credentials == INSTANCE Credentials
Access == INSTANCE Access
AuthThrottle == INSTANCE AuthThrottle WITH MaxClock <- MaxTime, Never <- Unset
Conversation == INSTANCE ImtConversation
Migration == INSTANCE SessionMigration WITH Sessions <- Stored, Old <- OldStored,
    Workers <- Reusers, NoSession <- Nobody, session <- stored, worker <- reuser
Reconciliation == INSTANCE OperationalSequence WITH NoHolder <- Nobody
Keyset == INSTANCE Keyset
Results == INSTANCE AcademicResults
Board == INSTANCE Board WITH MaxNow <- MaxHour, now <- hour

(* OperationalSequence.                                                    *)
ASSUME SequenceAssumption == MaxValue \in Nat \ {0} /\ Nobody \notin Operators

(* AuthThrottle: the limits are numbers, and one attempt at least is let   *)
(* through (services/auth_protection.py).                                  *)
ASSUME ThrottleAssumption ==
    /\ IsFiniteSet(Logins) /\ AttemptLimit \in Nat \ {0}
    /\ Window \in Nat /\ StormPause \in Nat
    /\ ClientDelays \in Seq(Nat) /\ ClientDelays # <<>>
    /\ TargetDelays \in Seq(Nat) /\ TargetDelays # <<>>

(* What bounds the components is a number.                                 *)
ASSUME BoundsAssumption ==
    /\ MaxEnrolments \in Nat \ {0} /\ MaxSessions \in Nat \ {0} /\ MaxInterventions \in Nat
    /\ MaxObjects \in Nat /\ MaxMoves \in Nat
    /\ MaxTime \in Nat /\ MaxAttempts \in Nat
    /\ MaxSteps \in Nat /\ MaxRedirects \in Nat /\ MaxRequests \in Nat
    /\ MaxSnapshots \in Nat \ {0}

(* Keyset: there is a generation to draw, and a free lock is nobody's.      *)
ASSUME KeysetAssumption == MaxGenerations \in Nat \ {0} /\ Nobody \notin Hands

(* AcademicResults: what validate_pass_entries and apply_competency_ues let *)
(* in (services/sync.py), of coefficients and credits that are not zero    *)
(* once rounded to what their columns hold; Unset is no grade.             *)
ASSUME ResultsAssumption ==
    /\ IsFiniteSet(Courses) /\ Scores \subseteq Nat
    /\ Coefficients \subseteq Nat \ {0} /\ Credits \subseteq Nat \ {0}
    /\ Official \subseteq DOMAIN Results!Points /\ Unset \notin DOMAIN Results!Points
    /\ MaxNotes \in Nat /\ MaxPublications \in Nat

(* Board: no two participants sort to one place; the sorts are stable, so   *)
(* that namesakes keep their order in the query (services/leaderboard.py).  *)
ASSUME BoardAssumption ==
    /\ IsFiniteSet(Participants) /\ Values \subseteq Nat
    /\ Position \in [Participants -> Nat]
    /\ \A p, q \in Participants : Position[p] = Position[q] => p = q
    /\ HardStale \in Nat /\ Grace \in Nat /\ Cooldown \in Nat /\ MaxHour \in Nat

credentialsVars == <<account, credential, session, serials, worker, leased, slot, tabs,
    scheduler, runtime, interventions>>
accessVars == <<person, sessions, tokens, passkeys, challenges, requests, serial, revocations>>
throttleVars == <<now, attempts, targetRows, pairRows, clientRows, systemUntil, logins>>
imtVars == <<client, wire, heard, unreported>>
migrationVars == <<stored, latest, reuser, command, drained, revoked>>
sequenceVars == <<rows, sequence, revision, writer, table, advisory, operator>>
directoryVars == <<manifest, files, litter, lock, hand, drawn, sealed, ordered>>
resultsVars == <<notes, courses, published>>
boardVars == <<hour, score, verified, recommended, pulsed, told>>

AccountsInit ==
    /\ focus \in {"schedule", "credentials", "access", "throttle", "conversation",
                  "migration", "reconciliation", "keyset", "results", "board"}
    /\ IF focus = "conversation" THEN TRUE ELSE client = Conversation!New("login", TRUE, TRUE)
    /\ IF focus = "reconciliation" THEN TRUE
       ELSE rows = {} /\ sequence = [last |-> 1, called |-> FALSE]
    /\ IF focus = "keyset" THEN TRUE ELSE manifest = Keyset!Missing
    /\ Init /\ Credentials!Init /\ Access!Init /\ AuthThrottle!Init
    /\ Conversation!Init /\ Migration!Init /\ Reconciliation!Init
    /\ Keyset!Init /\ Results!Init /\ Board!Init
    /\ focus # "board" => \A p \in Participants : score[p] = 1
    /\ focus # "credentials" => credential.state = "none" /\ ~account.ownerFile
    /\ focus # "reconciliation" => \A o \in Operators : operator[o].mode = "check"
    /\ focus # "migration" => \A s \in Stored : stored[s].jar = Migration!None

Schedule ==
    /\ focus = "schedule" /\ Next
    /\ UNCHANGED <<focus, credentialsVars, accessVars, throttleVars, imtVars, migrationVars,
                   sequenceVars, directoryVars, resultsVars, boardVars>>
CredentialsStep ==
    /\ focus = "credentials" /\ Credentials!Next
    /\ UNCHANGED <<focus, scheduleVars, accessVars, throttleVars, imtVars, migrationVars,
                   sequenceVars, directoryVars, resultsVars, boardVars>>
AccessStep ==
    /\ focus = "access" /\ Access!Next
    /\ UNCHANGED <<focus, scheduleVars, credentialsVars, throttleVars, imtVars, migrationVars,
                   sequenceVars, directoryVars, resultsVars, boardVars>>
ThrottleStep ==
    /\ focus = "throttle" /\ AuthThrottle!Next
    /\ UNCHANGED <<focus, scheduleVars, credentialsVars, accessVars, imtVars, migrationVars,
                   sequenceVars, directoryVars, resultsVars, boardVars>>
ConversationStep ==
    /\ focus = "conversation" /\ Conversation!Next
    /\ UNCHANGED <<focus, scheduleVars, credentialsVars, accessVars, throttleVars, migrationVars,
                   sequenceVars, directoryVars, resultsVars, boardVars>>
MigrationStep ==
    /\ focus = "migration" /\ Migration!Next
    /\ UNCHANGED <<focus, scheduleVars, credentialsVars, accessVars, throttleVars, imtVars,
                   sequenceVars, directoryVars, resultsVars, boardVars>>
ReconciliationStep ==
    /\ focus = "reconciliation" /\ Reconciliation!Next
    /\ UNCHANGED <<focus, scheduleVars, credentialsVars, accessVars, throttleVars, imtVars,
                   migrationVars, directoryVars, resultsVars, boardVars>>
KeysetStep ==
    /\ focus = "keyset" /\ Keyset!Next
    /\ UNCHANGED <<focus, scheduleVars, credentialsVars, accessVars, throttleVars, imtVars,
                   migrationVars, sequenceVars, resultsVars, boardVars>>
ResultsStep ==
    /\ focus = "results" /\ Results!Next
    /\ UNCHANGED <<focus, scheduleVars, credentialsVars, accessVars, throttleVars, imtVars,
                   migrationVars, sequenceVars, directoryVars, boardVars>>
BoardStep ==
    /\ focus = "board" /\ Board!Next
    /\ UNCHANGED <<focus, scheduleVars, credentialsVars, accessVars, throttleVars, imtVars,
                   migrationVars, sequenceVars, directoryVars, resultsVars>>

AccountsNext ==
    \/ Schedule \/ CredentialsStep \/ AccessStep \/ ThrottleStep
    \/ ConversationStep \/ MigrationStep \/ ReconciliationStep \/ KeysetStep
    \/ ResultsStep \/ BoardStep
accountsVars == <<focus, scheduleVars, credentialsVars, accessVars, throttleVars, imtVars,
                  migrationVars, sequenceVars, directoryVars, resultsVars, boardVars>>
AccountsSpec == AccountsInit /\ [][AccountsNext]_accountsVars

(* Every row of the components has its type.                               *)
TypesOK ==
    CASE focus = "schedule" -> TypeOK
      [] focus = "credentials" -> Credentials!TypeOK
      [] focus = "access" -> Access!TypeOK
      [] focus = "throttle" -> AuthThrottle!TypeOK
      [] focus = "conversation" -> Conversation!TypeOK
      [] focus = "migration" -> Migration!TypeOK
      [] focus = "reconciliation" -> Reconciliation!TypeOK
      [] focus = "keyset" -> Keyset!TypeOK
      [] focus = "results" -> Results!TypeOK
      [] focus = "board" -> Board!TypeOK

(* Schedule.                                                               *)
TurnsFair == BusinessTimeIsFirst /\ PassedOverOnce
(* Credentials.                                                            *)
(* What a worker brings back late is fenced: the enrolment, its            *)
(* replacement and the session the owner opened meanwhile stay; only the   *)
(* owner consents.                                                         *)
CredentialsFenced ==
    /\ Credentials!CommitFenced /\ Credentials!ReplacementIntact
    /\ Credentials!OwnerSessionKept /\ Credentials!ConsentIsOwners
(* Access.                                                                 *)
SpentOnce == Access!SpentOnce
LateLoginDead == Access!LateLoginDead
(* AuthThrottle.                                                           *)
AttemptsBounded == AuthThrottle!AttemptsBounded
BlocksRunOut == AuthThrottle!BlocksRunOut
(* ImtConversation.                                                        *)
ConversationSound == Conversation!SecretsKept /\ Conversation!ConversationSound
(* SessionMigration.                                                       *)
SessionsSound == Migration!SessionsSound
(* OperationalSequence.                                                    *)
SequenceSound == Reconciliation!SequenceSound
(* Keyset.                                                                 *)
KeysetSafe == Keyset!KeysetSafe
(* AcademicResults and Board.                                              *)
ResultsSound == Results!ResultsAgree /\ Board!BoardSound
=============================================================================
