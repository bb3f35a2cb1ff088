---------------------------- MODULE Credentials ----------------------------
(***************************************************************************)
(* The stored IMT credential of one account, its PASS session and its      *)
(* synchronisation mode, shared by the isolated sync worker, the owner's   *)
(* browser tabs, the administrator, the operator and the scheduler.        *)
(*                                                                         *)
(* A database transaction is one action.  A handler that reads the account *)
(* before an await or before a row lock is two: what it read is kept in    *)
(* "seen", because the ORM writes only the columns whose value differs     *)
(* from the one it loaded (Flushed) and a row lock does not refresh an     *)
(* object already loaded.  An envelope is the number of the enrolment that *)
(* sealed it; a PASS session is a serial number.                           *)
(***************************************************************************)
EXTENDS Naturals

CONSTANTS
    Tabs,           \* concurrent requests of the owner
    MaxEnrolments,  \* bound on enrolments explored
    MaxSessions,    \* bound on PASS sessions explored
    MaxInterventions \* bound on the owner's requests and outside events explored

VARIABLES
    account,     \* the account row
    credential,  \* its ImtSyncCredential row
    session,     \* its active PASS session row; id 0 when there is none
    serials,     \* envelopes sealed and sessions stored so far
    worker,      \* the synchronisation that runs, if any
    leased,      \* its request still holds the account's lease
    slot,        \* who holds the PASS operation slot
    tabs,        \* the owner's requests under way
    scheduler,   \* the pause the scheduler decided to write and has not written
    runtime,     \* the settings allow the autonomous runtime
    interventions \* requests of the owner and outside events so far

vars == <<account, credential, session, serials, worker, leased, slot, tabs, scheduler, runtime,
          interventions>>

Modes == {"manual", "session_only", "autonomous"}
Pauses == {"none", "reauth_required", "credential_invalid", "credential_key_unavailable",
           "autonomous_runtime_unavailable"}
AutonomousActors == {"automatic", "owner"}
Vacant == "vacant"

Account == [disabled : BOOLEAN, enabled : BOOLEAN, mode : Modes, consented : BOOLEAN,
            paused : Pauses, ownerFile : BOOLEAN]
Credential == [state : {"none", "active", "invalid", "revoked"}, generation : Nat,
               envelope : 0 .. MaxEnrolments]
NoSession == [id |-> 0, expired |-> FALSE]

NoSnapshot == [generation |-> 0, envelope |-> 0]

\* What an idle worker and an idle tab remember: nothing.
Idle == [at |-> "idle", permitted |-> FALSE, autonomous |-> FALSE, paused |-> FALSE,
         stored |-> 0, snapshot |-> NoSnapshot]
TabIdle == [at |-> "idle"]
Resting == "resting"

\* A new account, or one that enrolled and chose the autonomous mode.
Init ==
    /\ \E f \in BOOLEAN :
          \/ /\ account = [disabled |-> FALSE, enabled |-> FALSE, mode |-> "manual",
                           consented |-> FALSE, paused |-> "none", ownerFile |-> f]
             /\ credential = [state |-> "none", generation |-> 0, envelope |-> 0]
             /\ serials = [enrolments |-> 0, sessions |-> 0]
             /\ session = NoSession
          \/ /\ account = [disabled |-> FALSE, enabled |-> TRUE, mode |-> "autonomous",
                           consented |-> TRUE, paused |-> "none", ownerFile |-> f]
             /\ credential = [state |-> "active", generation |-> 1, envelope |-> 1]
             /\ serials = [enrolments |-> 1, sessions |-> 1]
             /\ session = [id |-> 1, expired |-> FALSE]
    /\ worker = Idle /\ leased = FALSE /\ slot = Vacant
    /\ tabs = [t \in Tabs |-> TabIdle]
    /\ scheduler = Resting
    /\ runtime = TRUE /\ interventions = 0

-----------------------------------------------------------------------------
(* Rows.                                                                   *)

\* What a flush writes: the fields changed since the object was loaded.
Flushed(row, seen, new) == [f \in DOMAIN row |-> IF new[f] # seen[f] THEN new[f] ELSE row[f]]

Paused(row, reason) == [row EXCEPT !.paused = reason]
IsAutonomous(row) == row.enabled /\ row.mode = "autonomous"
LiveSession == session.id # 0 /\ ~session.expired

Revoked(c) ==
    IF c.state \in {"none", "revoked"} THEN c
    ELSE [state |-> "revoked", generation |-> c.generation + 1, envelope |-> 0]
\* Mutant: the envelope that was refused is kept.
InvalidatedOnly(c) == [c EXCEPT !.state = "invalid", !.generation = @ + 1]

Invalidated(c) == [state |-> "invalid", generation |-> c.generation + 1, envelope |-> 0]

\* The snapshot the worker took still names the credential row.
\* Mutant: the compare-and-swap looks at the state of the row only.
StateIsCurrent(snapshot) == credential.state = "active"

SnapshotIsCurrent(snapshot) ==
    /\ credential.state = "active"
    /\ credential.generation = snapshot.generation
    /\ credential.envelope = snapshot.envelope

Snapshot == [generation |-> credential.generation, envelope |-> credential.envelope]

Intervention == interventions < MaxInterventions /\ interventions' = interventions + 1

CanStoreSession == serials.sessions < MaxSessions
\* Ends whichever row is active and inserts the new one.
StoreSession ==
    /\ CanStoreSession
    /\ session' = [id |-> serials.sessions + 1, expired |-> FALSE]
    /\ serials' = [serials EXCEPT !.sessions = @ + 1]
KeepSession == UNCHANGED <<session, serials>>

\* Only the session itself, and only while it is the active one.
EndSession(id) == session' = IF session.id = id THEN NoSession ELSE session

-----------------------------------------------------------------------------
(* The worker.                                                             *)

Current == /\ ~account.disabled /\ IsAutonomous(account) /\ account.consented
           /\ worker.permitted
           /\ leased /\ slot = "worker"

\* assert_autonomous_state_current, on rows read afresh.
\* Mutant: a session opened meanwhile is not looked for.
CurrentDespiteSession(snapshot) == Current /\ SnapshotIsCurrent(snapshot)

StillCurrent(snapshot) == Current /\ SnapshotIsCurrent(snapshot) /\ ~LiveSession

FreeSlot(holder) == slot' = IF slot = holder THEN Vacant ELSE slot
At(step) == worker' = [worker EXCEPT !.at = step]
Failing == worker' = [Idle EXCEPT !.at = "failing"]
ReauthRequired == worker' = [Idle EXCEPT !.at = "required"]
PauseIfAutonomous(reason) ==
    account' = IF IsAutonomous(account) THEN Paused(account, reason) ELSE account

Others == UNCHANGED <<tabs, scheduler, runtime, interventions>>

Due == /\ account.enabled /\ account.consented /\ account.paused = "none"
       /\ account.mode = "autonomous" => runtime

StartSync(actor) ==
    /\ worker.at = "idle" /\ ~account.disabled
    /\ actor = "automatic" => Due
    /\ worker' = [Idle EXCEPT !.at = "gate", !.permitted = actor \in AutonomousActors,
                               !.autonomous = IsAutonomous(account),
                               !.paused = account.paused # "none"]
    /\ leased' = TRUE
    /\ UNCHANGED <<account, credential, session, serials, slot>> /\ Others

RuntimeUnavailable ==
    /\ worker.at = "gate" /\ worker.autonomous /\ ~runtime
    /\ PauseIfAutonomous("autonomous_runtime_unavailable")
    /\ Failing
    /\ UNCHANGED <<credential, session, serials, leased, slot>> /\ Others

PassesGate == worker.at = "gate" /\ (worker.autonomous => runtime)

LoadSession ==
    /\ PassesGate
    /\ \/ /\ (~account.disabled /\ LiveSession)
          /\ worker' = [worker EXCEPT !.at = "reserve", !.stored = session.id]
          /\ UNCHANGED session
       \/ \* disabled, none, or an expired or unreadable row, which is ended
          /\ worker' = [worker EXCEPT !.at = "reserve"]
          /\ session' = IF account.disabled THEN session ELSE NoSession
    /\ UNCHANGED <<account, credential, serials, leased, slot>> /\ Others

SessionKeyUnavailable ==
    /\ PassesGate /\ ~account.disabled /\ LiveSession
    /\ account' = Paused(account, "credential_key_unavailable")
    /\ Failing
    /\ UNCHANGED <<credential, session, serials, leased, slot>> /\ Others

ReserveOperation ==
    /\ worker.at = "reserve" /\ slot = Vacant
    /\ slot' = "worker"
    /\ At(IF worker.stored # 0 THEN "fetch" ELSE "fallback")
    /\ UNCHANGED <<account, credential, session, serials, leased>> /\ Others

\* Busy, or refused by a quota: the request is skipped.
DeferSync ==
    /\ worker.at = "reserve"
    /\ worker' = Idle /\ leased' = FALSE
    /\ UNCHANGED <<account, credential, session, serials, slot>> /\ Others

FetchReused(answer) ==
    /\ worker.at = "fetch"
    /\ IF answer = "entries" THEN At("reused") ELSE Failing
    /\ UNCHANGED <<account, credential, session, serials, leased, slot>> /\ Others

SessionRefused ==
    /\ worker.at = "fetch"
    /\ EndSession(worker.stored)
    /\ IF worker.autonomous \/ account.ownerFile
       THEN At("fallback") ELSE ReauthRequired
    /\ UNCHANGED <<account, credential, serials, leased, slot>> /\ Others

LoadSnapshot ==
    /\ worker.at = "fallback" /\ worker.autonomous
    /\ IF ~runtime
       THEN PauseIfAutonomous("autonomous_runtime_unavailable") /\ Failing
       ELSE IF ~Current THEN Failing /\ UNCHANGED account
       ELSE IF credential.state # "active"
       THEN account' = Paused(account, "credential_invalid") /\ Failing
       ELSE worker' = [worker EXCEPT !.at = "open", !.snapshot = Snapshot] /\ UNCHANGED account
    /\ UNCHANGED <<credential, session, serials, leased, slot>> /\ Others

OwnerFallback ==
    /\ worker.at = "fallback" /\ ~worker.autonomous
    /\ IF account.ownerFile THEN At("file") ELSE ReauthRequired
    /\ UNCHANGED <<account, credential, session, serials, leased, slot>> /\ Others

\* invalidate_autonomous_credential: nothing happens to a newer credential.
Invalidate(snapshot) ==
    IF SnapshotIsCurrent(snapshot)
    THEN /\ credential' = Invalidated(credential)
         /\ account' = IF account.mode = "autonomous"
                       THEN Paused(account, "credential_invalid") ELSE account
    ELSE UNCHANGED <<credential, account>>

OpenEnvelope(outcome) ==
    /\ worker.at = "open"
    /\ CASE outcome = "opened" ->
              /\ IF StillCurrent(worker.snapshot) THEN At("sso") ELSE Failing
              /\ UNCHANGED <<account, credential>>
         [] outcome = "key_unavailable" ->
              /\ PauseIfAutonomous("credential_key_unavailable") /\ Failing
              /\ UNCHANGED credential
         [] outcome = "altered" -> Invalidate(worker.snapshot) /\ Failing
    /\ UNCHANGED <<session, serials, leased, slot>> /\ Others

SsoRefused ==
    /\ worker.at = "sso"
    /\ Invalidate(worker.snapshot) /\ Failing
    /\ UNCHANGED <<session, serials, leased, slot>> /\ Others

FetchFails ==
    /\ worker.at \in {"sso", "file"}
    /\ Failing
    /\ UNCHANGED <<account, credential, session, serials, leased, slot>> /\ Others

Finished == worker' = Idle /\ leased' = FALSE /\ FreeSlot("worker")

\* The answer of an SSO, checked and written under the rows' locks.
CommitSso(reusable) ==
    /\ worker.at = "sso"
    /\ IF StillCurrent(worker.snapshot)
       THEN /\ IF reusable THEN StoreSession ELSE KeepSession
            /\ account' = Paused(account, "none")
            /\ Finished
       ELSE /\ Failing
            /\ UNCHANGED <<account, session, serials, leased, slot>>
    /\ UNCHANGED credential /\ Others

\* Entries read with the stored session.  The account object is the one loaded
\* when the run started: its pause is cleared if it was paused then.
CommitReused(reusable) ==
    /\ worker.at = "reused"
    /\ IF reusable /\ ~session.expired
       THEN UNCHANGED session ELSE EndSession(worker.stored)
    /\ account' = IF worker.paused THEN Paused(account, "none") ELSE account
    /\ Finished
    /\ UNCHANGED <<credential, serials>> /\ Others

CommitOwnerFile(reusable) ==
    /\ worker.at = "file"
    /\ IF reusable THEN StoreSession ELSE KeepSession
    /\ account' = IF worker.paused THEN Paused(account, "none") ELSE account
    /\ Finished
    /\ UNCHANGED credential /\ Others

RecordFailure ==
    /\ worker.at \in {"failing", "required"}
    /\ account' = IF leased /\ worker.at = "required"
                  THEN Paused(account, "reauth_required") ELSE account
    /\ Finished
    /\ UNCHANGED <<credential, session, serials>> /\ Others

\* The request is recovered by a later one; the operation's lease runs out.
LoseLease ==
    /\ leased /\ leased' = FALSE
    /\ UNCHANGED <<account, credential, session, serials, worker, slot, tabs, scheduler, runtime>>
    /\ Intervention
LoseSlot ==
    /\ slot # Vacant /\ slot' = Vacant
    /\ UNCHANGED <<account, credential, session, serials, worker, leased, tabs, scheduler, runtime>>
    /\ Intervention

-----------------------------------------------------------------------------
(* The owner.                                                              *)

WorkerAside == UNCHANGED <<worker, leased, scheduler, runtime>>
Resumes == WorkerAside /\ UNCHANGED interventions
Done(t) == tabs' = [tabs EXCEPT ![t] = TabIdle]

\* The request loads the account before any lock.
AskMode(t, mode) ==
    /\ tabs[t].at = "idle" /\ ~account.disabled
    /\ mode = "autonomous" => runtime
    /\ tabs' = [tabs EXCEPT ![t] = [at |-> "mode", mode |-> mode, seen |-> account]]
    /\ UNCHANGED <<account, credential, session, serials, slot>> /\ WorkerAside /\ Intervention

\* set_sync_mode on the account object loaded as "seen".  "setup" is the
\* first choice of a mode, which dates the consent again.
ModeSet(seen, mode, setup) ==
    LET pause == IF mode = "session_only" /\ ~LiveSession /\ ~seen.ownerFile
                 THEN "reauth_required" ELSE "none"
        dated == setup \/ ~seen.enabled \/ ~seen.consented
        row == Flushed(account, seen,
                       [seen EXCEPT !.enabled = mode # "manual", !.mode = mode,
                                    !.paused = pause, !.consented = mode # "manual"])
    IN [row EXCEPT !.consented = IF mode # "manual" /\ dated THEN TRUE ELSE @]

SetMode(t, setup) ==
    /\ tabs[t].at = "mode"
    /\ IF tabs[t].mode = "autonomous"
       THEN /\ account' = IF credential.state = "active"
                          THEN ModeSet(tabs[t].seen, "autonomous", setup) ELSE account
            /\ UNCHANGED credential
       ELSE /\ credential' = Revoked(credential)
            /\ account' = ModeSet(tabs[t].seen, tabs[t].mode, setup)
    /\ Done(t)
    /\ UNCHANGED <<session, serials, slot>> /\ Resumes

\* A password is verified at PASS: an enrolment, a reconnection or a login.
\* "authority" is TRUE while the account's access generation is the one read.
AskVerification(t, kind) ==
    /\ tabs[t].at = "idle" /\ ~account.disabled /\ slot = Vacant
    /\ kind = "enroll" => runtime
    /\ slot' = t
    /\ tabs' = [tabs EXCEPT ![t] =
                  [at |-> "verifying", kind |-> kind, authority |-> TRUE,
                   paused |-> account.paused # "none", enabled |-> account.enabled]]
    /\ UNCHANGED <<account, credential, session, serials>> /\ WorkerAside /\ Intervention

Verified(t) ==
    /\ tabs[t].at = "verifying"
    /\ tabs' = [tabs EXCEPT ![t].at = "verified"]
    /\ FreeSlot(t)
    /\ UNCHANGED <<account, credential, session, serials>> /\ Resumes

VerificationFails(t) ==
    /\ tabs[t].at = "verifying"
    /\ Done(t) /\ FreeSlot(t)
    /\ UNCHANGED <<account, credential, session, serials>> /\ Resumes

Holding(t, kind) == tabs[t].at = "verified" /\ tabs[t].kind = kind

\* The account and the credential are locked and read afresh.
Enroll(t) ==
    /\ Holding(t, "enroll")
    /\ IF account.disabled THEN UNCHANGED <<account, credential, session, serials>>
       ELSE /\ serials.enrolments < MaxEnrolments /\ CanStoreSession
            /\ serials' = [enrolments |-> serials.enrolments + 1,
                           sessions |-> serials.sessions + 1]
            /\ credential' = [state |-> "active", generation |-> credential.generation + 1,
                              envelope |-> serials'.enrolments]
            /\ session' = [id |-> serials'.sessions, expired |-> FALSE]
            /\ account' = Paused(account, "none")
    /\ Done(t)
    /\ UNCHANGED slot /\ Resumes

\* A reconnection writes on the account object loaded before the await.
Reconnect(t, reusable) ==
    /\ Holding(t, "reconnect")
    /\ account' = IF reusable
                  THEN IF tabs[t].paused THEN Paused(account, "none") ELSE account
                  ELSE IF tabs[t].enabled THEN Paused(account, "reauth_required") ELSE account
    /\ IF reusable THEN StoreSession ELSE KeepSession
    /\ Done(t)
    /\ UNCHANGED <<credential, slot>> /\ Resumes

Login(t, reusable) ==
    /\ Holding(t, "login")
    /\ IF account.disabled \/ ~tabs[t].authority THEN UNCHANGED account /\ KeepSession
       ELSE IF reusable THEN account' = Paused(account, "none") /\ StoreSession
       ELSE /\ account' = IF account.enabled THEN Paused(account, "reauth_required") ELSE account
            /\ KeepSession
    /\ Done(t)
    /\ UNCHANGED <<credential, slot>> /\ Resumes

TabsAside == UNCHANGED <<tabs, slot>> /\ WorkerAside /\ Intervention

DeleteCredential ==
    /\ ~account.disabled
    /\ credential' = Revoked(credential)
    /\ account' = IF account.mode # "autonomous" THEN account
                  ELSE [ModeSet(account, "session_only", FALSE)
                          EXCEPT !.paused = IF LiveSession THEN @ ELSE "reauth_required"]
    /\ UNCHANGED <<session, serials>> /\ TabsAside

PurgePassAccess ==
    /\ ~account.disabled
    /\ credential' = Revoked(credential)
    /\ session' = NoSession
    /\ account' = ModeSet(account, "manual", FALSE)
    /\ UNCHANGED serials /\ TabsAside

-----------------------------------------------------------------------------
(* Administrator, operator, scheduler and time.                            *)

Outside == UNCHANGED <<worker, leased, scheduler, runtime>> /\ Intervention

\* Logins that read the access generation before it moved are turned away.
MoveGeneration ==
    tabs' = [t \in Tabs |-> IF tabs[t].at \in {"verifying", "verified"}
                            THEN [tabs[t] EXCEPT !.authority = FALSE] ELSE tabs[t]]

DisableAccount ==
    /\ account' = [account EXCEPT !.disabled = TRUE, !.paused = "reauth_required"]
    /\ session' = NoSession
    /\ IF account.disabled THEN UNCHANGED tabs ELSE MoveGeneration
    /\ UNCHANGED <<credential, serials, slot>> /\ Outside

EnableAccount ==
    /\ account' = [account EXCEPT !.disabled = FALSE]
    /\ IF account.disabled THEN MoveGeneration ELSE UNCHANGED tabs
    /\ UNCHANGED <<credential, session, serials, slot>> /\ Outside

RevokeAccess ==
    /\ account' = Paused(account, "reauth_required")
    /\ session' = NoSession
    /\ MoveGeneration
    /\ UNCHANGED <<credential, serials, slot>> /\ Outside

RevokePassSession ==
    /\ account' = Paused(account, "reauth_required")
    /\ session' = NoSession
    /\ UNCHANGED <<credential, serials>> /\ UNCHANGED <<tabs, slot>> /\ Outside

\* revoke_all_sync_credentials, for the credential and the account.
RevokeAll ==
    /\ credential' = IF credential.state = "active" THEN Revoked(credential) ELSE credential
    /\ account' = IF account.mode # "autonomous" THEN account
                  ELSE [account EXCEPT !.enabled = LiveSession,
                          !.mode = IF LiveSession THEN "session_only" ELSE "manual",
                          !.consented = @ /\ LiveSession, !.paused = "none"]
    /\ UNCHANGED <<session, serials>> /\ UNCHANGED <<tabs, slot>> /\ Outside

\* reconcile_autonomous_schedule_state reads without a lock and writes, in the
\* same transaction, the pause that differs from the one it read.
Reconciled ==
    IF ~runtime THEN "autonomous_runtime_unavailable"
    ELSE IF credential.state # "active" THEN "credential_invalid"
    ELSE IF account.paused = "autonomous_runtime_unavailable" THEN "none"
    ELSE account.paused

ReconcileRead ==
    /\ scheduler = Resting
    /\ account.enabled /\ account.consented /\ ~account.disabled /\ account.mode = "autonomous"
    /\ Reconciled # account.paused /\ scheduler' = Reconciled
    /\ UNCHANGED <<account, credential, session, serials, worker, leased, slot, tabs, runtime,
                   interventions>>

ReconcileWrite ==
    /\ scheduler # Resting
    /\ account' = Paused(account, scheduler)
    /\ scheduler' = Resting
    /\ UNCHANGED <<credential, session, serials, worker, leased, slot, tabs, runtime,
                   interventions>>

SessionRunsOut ==
    /\ LiveSession /\ session' = [session EXCEPT !.expired = TRUE]
    /\ UNCHANGED <<account, credential, serials>> /\ UNCHANGED <<tabs, slot>> /\ Outside

CleanupSessions ==
    /\ session.expired /\ session' = NoSession
    /\ UNCHANGED <<account, credential, serials>> /\ UNCHANGED <<tabs, slot>> /\ Outside

SwitchRuntime ==
    /\ runtime' = ~runtime
    /\ UNCHANGED <<account, credential, session, serials, worker, leased, slot, tabs, scheduler>>
    /\ Intervention

WorkerStep ==
    \/ \E actor \in {"automatic", "owner", "admin"} : StartSync(actor)
    \/ RuntimeUnavailable \/ LoadSession \/ SessionKeyUnavailable
    \/ ReserveOperation \/ DeferSync
    \/ \E answer \in {"entries", "failure"} : FetchReused(answer)
    \/ SessionRefused \/ LoadSnapshot \/ OwnerFallback
    \/ \E outcome \in {"opened", "key_unavailable", "altered"} : OpenEnvelope(outcome)
    \/ SsoRefused \/ FetchFails
    \/ \E reusable \in BOOLEAN : \/ CommitSso(reusable)
                                 \/ CommitReused(reusable)
                                 \/ CommitOwnerFile(reusable)
    \/ RecordFailure

OwnerStep ==
    \/ \E t \in Tabs :
          \/ \E mode \in Modes : AskMode(t, mode)
          \/ \E setup \in BOOLEAN : SetMode(t, setup)
          \/ \E kind \in {"enroll", "reconnect", "login"} : AskVerification(t, kind)
          \/ Verified(t) \/ VerificationFails(t)
          \/ Enroll(t)
          \/ \E reusable \in BOOLEAN : Reconnect(t, reusable) \/ Login(t, reusable)
    \/ DeleteCredential \/ PurgePassAccess

Environment ==
    \/ DisableAccount \/ EnableAccount \/ RevokeAccess \/ RevokePassSession \/ RevokeAll
    \/ ReconcileRead \/ ReconcileWrite
    \/ SessionRunsOut \/ CleanupSessions \/ SwitchRuntime
    \/ LoseLease \/ LoseSlot

Next == WorkerStep \/ OwnerStep \/ Environment

Spec == Init /\ [][Next]_vars

-----------------------------------------------------------------------------
(* Properties.                                                             *)

\* Every row has its type, and an envelope is kept exactly while the
\* credential is active (the constraints of migration 0027).
TypeOK ==
    /\ account \in Account
    /\ credential \in Credential
    /\ (credential.envelope # 0) <=> (credential.state = "active")
    /\ session \in [id : 0 .. MaxSessions, expired : BOOLEAN]
    /\ serials \in [enrolments : 0 .. MaxEnrolments, sessions : 0 .. MaxSessions]
    /\ leased \in BOOLEAN /\ runtime \in BOOLEAN
    /\ slot \in Tabs \cup {"worker", Vacant}
    /\ worker.at \in {"idle", "gate", "reserve", "fetch", "reused", "fallback", "open",
                      "sso", "file", "failing", "required"}
    /\ \A t \in Tabs : tabs[t].at \in {"idle", "mode", "verifying", "verified"}
    /\ scheduler \in Pauses \cup {Resting} /\ interventions \in 0 .. MaxInterventions

SsoOutcome == worker.at = "sso" /\ worker' # worker /\ worker'.at = "idle"

\* What an autonomous SSO brought back is applied only while the envelope it
\* used is the stored one, for an enabled autonomous account: an enrolment, a
\* deletion or a revocation that came in during the network call wins, even
\* when another credential is active again at the end.
CommitFenced ==
    [][SsoOutcome =>
          /\ credential.envelope = worker.snapshot.envelope
          /\ IsAutonomous(account) /\ ~account.disabled]_vars

\* A run that fails late never invalidates a credential enrolled after the one
\* it used.
ReplacementIntact ==
    [][credential.state = "active" /\ credential'.state = "invalid"
          => credential.envelope = worker.snapshot.envelope]_vars

\* The worker of an account without a password file ends or replaces no live
\* session but the one it loaded: the session the owner opens meanwhile stays.
OwnerSessionKept ==
    [][session' # session /\ worker.at # "gate" /\ LiveSession /\ WorkerStep
          => worker.at = "file" \/ session.id = worker.stored]_vars

\* A consent is dated by an action of the owner, never by the scheduler, the
\* worker or the administrator.
ConsentIsOwners == [][account'.consented /\ ~account.consented => OwnerStep]_vars

\* The choice of an automatic mode is recorded with its date, whichever
\* requests of the owner overlap.
EnabledConsented == account.enabled => account.consented
=============================================================================
