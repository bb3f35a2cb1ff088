------------------------------ MODULE Learning ------------------------------
(***************************************************************************)
(* What one account keeps of the learning catalog: its progress, its       *)
(* attempts and the grants an administrator gave it (routers/learning.py,  *)
(* learning/access.py, the grants of routers/admin.py).                    *)
(*                                                                         *)
(* A request resolves the access of its account, gives the database back   *)
(* while the catalog loads, and only then locks the account's row, counts  *)
(* and writes in one transaction.  Neither the access nor the catalog is   *)
(* looked at again.  The limits are counted, no constraint of the database *)
(* holds them: only the lock keeps two requests from counting the same.    *)
(***************************************************************************)
EXTENDS Naturals, FiniteSets

CONSTANTS
    Requests, Contents, Hints,
    Grants,                             \* rows of learning_access_grants
    Nobody, Absent,
    AttemptCap, ProgressCap, HintCap,   \* limits.py
    MaxAttempts, MaxClock               \* bounds: attempts ever recorded, time

VARIABLES
    clock,
    student,   \* the profile gives access: audience, fresh status, not disabled
    grant,     \* grant[g]: the row
    attempts,  \* rows of learning_attempts
    recorded,  \* attempts ever recorded, names the rows
    progress,  \* progress[c]: hints opened in c, Absent without a row
    request,   \* request[r]
    holder     \* the transaction that holds the account's row

learningVars == <<clock, student, grant, attempts, recorded, progress, request, holder>>

NoGrant == [until |-> 0, revoked |-> FALSE]
Attempt == [id : 1 .. MaxAttempts, content : Contents]
Progress == [Contents -> (SUBSET Hints) \cup {Absent}]

\* An attempt with or without a hint, an update of the progress with or
\* without opened_hint_ids, the erasure, a new grant.
Asked ==
    [what : {"attempt"}, content : Contents, hints : {{}} \cup {{h} : h \in Hints}]
    \cup [what : {"progress"}, content : Contents,
          hints : {H \in SUBSET Hints : Cardinality(H) <= HintCap} \cup {Absent}]
    \cup [what : {"reset", "grant"}]

\* What a transaction reads once it has the lock.
Seen == [attempts : 0 .. MaxAttempts, progress : Progress, granted : BOOLEAN]

Idle == [at |-> "idle"]
Request ==
    {Idle} \cup [at : {"resolved"}, asked : Asked] \cup [at : {"locked"}, asked : Asked, seen : Seen]

TypeOK ==
    /\ clock \in 0 .. MaxClock /\ student \in BOOLEAN
    /\ grant \in [Grants -> [until : 0 .. MaxClock, revoked : BOOLEAN]]
    /\ recorded \in 0 .. MaxAttempts /\ attempts \subseteq Attempt
    /\ \A t \in attempts : t.id <= recorded
    /\ progress \in Progress
    /\ request \in [Requests -> Request]
    /\ holder \in Requests \cup {Nobody}

Init ==
    /\ clock = 0 /\ student \in BOOLEAN
    /\ grant = [g \in Grants |-> NoGrant]
    /\ attempts = {} /\ recorded = 0
    /\ progress = [c \in Contents |-> Absent]
    /\ request = [r \in Requests |-> Idle]
    /\ holder = Nobody

-----------------------------------------------------------------------------

Active(g) == grant[g].until > clock /\ ~grant[g].revoked
Granted == \E g \in Grants : Active(g)
Entitled == student \/ Granted

\* require_learning_action, require_learning_progress_erasure, or an
\* administrator; the erasure is open to an account without access.
Resolve(r) ==
    /\ request[r] = Idle
    /\ \E a \in Asked :
          /\ a.what \in {"attempt", "progress"} => Entitled
          /\ request' = [request EXCEPT ![r] = [at |-> "resolved", asked |-> a]]
    /\ UNCHANGED <<clock, student, grant, attempts, recorded, progress, holder>>

\* Mutant: the row is read without FOR UPDATE.
LockNothing(r) == holder' = r

\* _lock_account, _get_account_for_update.
Lock(r) == holder = Nobody /\ holder' = r

Read(r) ==
    /\ request[r].at = "resolved"
    /\ Lock(r)
    /\ request' = [request EXCEPT ![r] =
          [at |-> "locked", asked |-> request[r].asked,
           seen |-> [attempts |-> Cardinality(attempts), progress |-> progress,
                     granted |-> Granted]]]
    /\ UNCHANGED <<clock, student, grant, attempts, recorded, progress>>

Row(c, seen) == IF seen.progress[c] = Absent THEN {} ELSE seen.progress[c]
RowsFull(c, seen) ==
    /\ seen.progress[c] = Absent
    /\ Cardinality({d \in Contents : seen.progress[d] # Absent}) >= ProgressCap

\* create_learning_attempt: 409 when the attempts, the rows or the hints of
\* the row are as many as they may be.
RecordAttempt(a, seen) ==
    LET hints == Row(a.content, seen) \cup a.hints
    IN  /\ seen.attempts < AttemptCap /\ ~RowsFull(a.content, seen)
        /\ a.hints \subseteq Row(a.content, seen) \/ Cardinality(Row(a.content, seen)) < HintCap
        /\ recorded < MaxAttempts /\ recorded' = recorded + 1
        /\ attempts' = attempts \cup {[id |-> recorded + 1, content |-> a.content]}
        /\ progress' = [progress EXCEPT ![a.content] = hints]
        /\ grant' = grant

\* update_learning_progress
UpdateProgress(a, seen) ==
    /\ ~RowsFull(a.content, seen)
    /\ progress' = [progress EXCEPT ![a.content] =
          IF a.hints = Absent THEN Row(a.content, seen) ELSE a.hints]
    /\ UNCHANGED <<attempts, recorded, grant>>

\* reset_learning_progress
ResetProgress ==
    /\ attempts' = {} /\ progress' = [c \in Contents |-> Absent]
    /\ UNCHANGED <<recorded, grant>>

\* create_account_learning_grant: one active grant per audience.
CreateGrant(seen) ==
    /\ ~seen.granted
    /\ \E g \in Grants, t \in clock + 1 .. MaxClock :
          /\ grant[g] = NoGrant
          /\ grant' = [grant EXCEPT ![g] = [until |-> t, revoked |-> FALSE]]
    /\ UNCHANGED <<attempts, recorded, progress>>

Write(r) ==
    LET a == request[r].asked
        seen == request[r].seen
    IN  /\ request[r].at = "locked"
        /\ \/ a.what = "attempt" /\ RecordAttempt(a, seen)
           \/ a.what = "progress" /\ UpdateProgress(a, seen)
           \/ a.what = "reset" /\ ResetProgress
           \/ a.what = "grant" /\ CreateGrant(seen)
        /\ request' = [request EXCEPT ![r] = Idle] /\ holder' = Nobody
        /\ UNCHANGED <<clock, student>>

\* The catalog is not available, a limit answers 409, the request dies.
GiveUp(r) ==
    /\ request[r] # Idle
    /\ request' = [request EXCEPT ![r] = Idle]
    /\ holder' = IF holder = r THEN Nobody ELSE holder
    /\ UNCHANGED <<clock, student, grant, attempts, recorded, progress>>

\* revoke_account_learning_grant: locks the grant, not the account.
RevokeGrant(g) ==
    /\ grant[g] # NoGrant /\ ~grant[g].revoked
    /\ grant' = [grant EXCEPT ![g].revoked = TRUE]
    /\ UNCHANGED <<clock, student, attempts, recorded, progress, request, holder>>

\* The status is verified again, goes stale, or the account is disabled.
ChangeStatus ==
    /\ student' = ~student
    /\ UNCHANGED <<clock, grant, attempts, recorded, progress, request, holder>>

Tick ==
    /\ clock < MaxClock /\ clock' = clock + 1
    /\ UNCHANGED <<student, grant, attempts, recorded, progress, request, holder>>

Next ==
    \/ \E r \in Requests : Resolve(r) \/ Read(r) \/ Write(r) \/ GiveUp(r)
    \/ \E g \in Grants : RevokeGrant(g)
    \/ ChangeStatus \/ Tick

LearningSpec == Init /\ [][Next]_learningVars

-----------------------------------------------------------------------------

Rows == {c \in Contents : progress[c] # Absent}

(* However the requests of an account interleave, its attempts, its rows   *)
(* of progress and the hints of each stay within their limits, at most one *)
(* grant is active, and every attempt has the row that shows it.           *)
LimitsKept ==
    /\ Cardinality(attempts) <= AttemptCap
    /\ Cardinality(Rows) <= ProgressCap
    /\ \A c \in Rows : Cardinality(progress[c]) <= HintCap
    /\ \A g, h \in Grants : Active(g) /\ Active(h) => g = h
    /\ \A t \in attempts : t.content \in Rows
=============================================================================
