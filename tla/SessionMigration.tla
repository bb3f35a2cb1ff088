-------------------------- MODULE SessionMigration --------------------------
(***************************************************************************)
(* The stored PASS sessions while their format changes and after a restore *)
(* of the database: the migration of the legacy envelopes to HPKE and the  *)
(* revocation of every session (legacy_pass_session_migration.py), beside  *)
(* the workers and the web application, which store, refresh and end       *)
(* sessions (pass_sessions.py).                                            *)
(*                                                                         *)
(* An UPDATE writes the columns that differ from what the transaction read *)
(* and fails as a whole when a row breaks a CHECK of pass_service_sessions. *)
(* A snapshot is the n-th content of a session's cookie jar.               *)
(***************************************************************************)
EXTENDS Naturals, FiniteSets

CONSTANTS
    Sessions,     \* rows of pass_service_sessions, of one account
    Old,          \* those that exist when the migration is first run
    Workers,      \* synchronisations that reuse a session
    MaxSnapshots, \* bound: refreshments of a session
    NoSession

VARIABLES
    session,  \* the rows
    latest,   \* the last snapshot put into each session, a history
    worker,   \* the session a synchronisation has loaded
    command,  \* the revocation: what it read without a lock
    drained,  \* a migration has reported that no legacy row remains
    revoked   \* sessions a committed revocation has read, a history

migrationVars == <<session, latest, worker, command, drained, revoked>>

Snapshots == 1 .. MaxSnapshots
None == 0

Row == [state : {"absent", "active", "expired", "revoked", "invalid"},
        jar : {None} \cup Snapshots, hpke : {None} \cup Snapshots]
NoRow == [state |-> "absent", jar |-> None, hpke |-> None]

TypeOK ==
    /\ session \in [Sessions -> Row] /\ latest \in [Sessions -> {None} \cup Snapshots]
    /\ worker \in [Workers -> Sessions \cup {NoSession}]
    /\ command \in [busy : BOOLEAN, read : [Sessions -> Row]]
    /\ drained \in BOOLEAN /\ revoked \subseteq Sessions

\* Mutant: the table has no CHECK.
AdmittedAlways(row) == TRUE

\* ck_pass_service_sessions_single_ciphertext, _active_ciphertext and
\* _inactive_no_ciphertext.
Admitted(row) ==
    /\ row.jar = None \/ row.hpke = None
    /\ row.state = "active" <=> (row.jar # None \/ row.hpke # None)

Resting == [busy |-> FALSE, read |-> [s \in Sessions |-> NoRow]]

\* At most one session of the account is active (the unique index).
Init ==
    /\ \E s \in Old, row \in {[NoRow EXCEPT !.state = "active", !.jar = 1],
                              [NoRow EXCEPT !.state = "active", !.hpke = 1]} :
          session = [t \in Sessions |-> IF t = s THEN row
                                        ELSE IF t \in Old THEN [NoRow EXCEPT !.state = "revoked"]
                                        ELSE NoRow]
    /\ latest = [s \in Sessions |-> IF s \in Old THEN 1 ELSE None]
    /\ worker = [w \in Workers |-> NoSession]
    /\ command = Resting /\ drained = FALSE /\ revoked = {}

-----------------------------------------------------------------------------
(* The sessions in use.                                                    *)

Live(s) == session[s].state = "active"

\* _clear_row, _end_session.
Ended(state) == [NoRow EXCEPT !.state = state]

\* invalidate_service_session, purge_account_service_sessions, the local
\* expiry met by load, refresh, cleanup and the migration.
EndSession(s) ==
    /\ Live(s)
    /\ \E state \in {"expired", "revoked", "invalid"} :
          session' = [session EXCEPT ![s] = Ended(state)]
    /\ UNCHANGED <<latest, worker, command, drained, revoked>>

\* load_service_session: a legacy envelope is refused.
LoadSession(w, s) ==
    /\ worker[w] = NoSession /\ Live(s) /\ session[s].hpke # None
    /\ worker' = [worker EXCEPT ![w] = s]
    /\ UNCHANGED <<session, latest, command, drained, revoked>>

\* Mutant: the row is not read again.
RefreshableAlways(s) == TRUE

Refreshable(s) == Live(s)

\* refresh_service_session: under the row's lock, if it is still active.
RefreshSession(w) ==
    LET s == worker[w] IN
    /\ s # NoSession
    /\ worker' = [worker EXCEPT ![w] = NoSession]
    /\ IF Refreshable(s) /\ latest[s] < MaxSnapshots
       THEN /\ latest' = [latest EXCEPT ![s] = @ + 1]
            /\ session' = [session EXCEPT ![s] =
                   [state |-> "active", jar |-> None, hpke |-> latest[s] + 1]]
       ELSE UNCHANGED <<session, latest>>
    /\ UNCHANGED <<command, drained, revoked>>

\* store_service_session: the active rows end, a new one has the HPKE format.
StoreSession(s) ==
    /\ session[s].state = "absent"
    /\ session' = [t \in Sessions |->
           IF t = s THEN [NoRow EXCEPT !.state = "active", !.hpke = 1]
           ELSE IF Live(t) THEN Ended("revoked") ELSE session[t]]
    /\ latest' = [latest EXCEPT ![s] = 1]
    /\ UNCHANGED <<worker, command, drained, revoked>>

-----------------------------------------------------------------------------
(* migrate_legacy_service_sessions: one transaction per row, under its     *)
(* lock; a row that others hold or that fails is left for another run.     *)

Migrated(row) == [row EXCEPT !.jar = None, !.hpke = row.jar]

MigrateRow(s) ==
    /\ Live(s) /\ session[s].jar # None
    /\ session' = [session EXCEPT ![s] = Migrated(session[s])]
    /\ UNCHANGED <<latest, worker, command, drained, revoked>>

\* The rows are counted once more at the end of a run, a dry run as well.
CountRemaining ==
    /\ \A s \in Sessions : session[s].jar = None
    /\ drained' = TRUE
    /\ UNCHANGED <<session, latest, worker, command, revoked>>

-----------------------------------------------------------------------------
(* revoke_all_service_sessions.                                            *)

\* The rows with a ciphertext are read, without a lock.
ReadAll ==
    /\ ~command.busy
    /\ command' = [busy |-> TRUE, read |-> [s \in Sessions |->
           IF session[s].jar # None \/ session[s].hpke # None THEN session[s] ELSE NoRow]]
    /\ UNCHANGED <<session, latest, worker, drained, revoked>>

Read == {s \in Sessions : command.read[s] # NoRow}

\* Only the columns that the read row had are set to NULL.
Written(s) ==
    [state |-> "revoked",
     jar  |-> IF command.read[s].jar # None THEN None ELSE session[s].jar,
     hpke |-> IF command.read[s].hpke # None THEN None ELSE session[s].hpke]

\* All rows, or none when one breaks a CHECK.
RevokeAll ==
    LET after == [s \in Sessions |-> IF s \in Read THEN Written(s) ELSE session[s]] IN
    /\ command.busy /\ command' = Resting
    /\ IF \A s \in Read : Admitted(after[s])
       THEN session' = after /\ revoked' = revoked \cup Read
       ELSE UNCHANGED <<session, revoked>>
    /\ UNCHANGED <<latest, worker, drained>>

Next ==
    \/ \E s \in Sessions : EndSession(s) \/ StoreSession(s) \/ MigrateRow(s)
    \/ \E w \in Workers, s \in Sessions : LoadSession(w, s)
    \/ \E w \in Workers : RefreshSession(w)
    \/ CountRemaining \/ ReadAll \/ RevokeAll

Spec == Init /\ [][Next]_migrationVars

-----------------------------------------------------------------------------
\* A session that a revocation has read stays dead, whatever a worker that
\* had loaded it writes back or the migration rewrites meanwhile.
RevokedStaysDead == \A s \in revoked : session[s] = Ended("revoked")

\* An active session holds its last snapshot, in one format: no writer that
\* raced another brings an older jar back, and none loses it.
LatestKept ==
    \A s \in Sessions :
        {session[s].jar, session[s].hpke} \ {None} = (IF Live(s) THEN {latest[s]} ELSE {})

\* Once a run has counted no legacy row, none comes back.
DrainedForGood == drained => \A s \in Sessions : session[s].jar = None

SessionsSound == RevokedStaysDead /\ LatestKept /\ DrainedForGood
=============================================================================
