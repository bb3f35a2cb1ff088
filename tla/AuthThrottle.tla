---------------------------- MODULE AuthThrottle ----------------------------
(***************************************************************************)
(* The throttle before an IMT password reaches the identity provider       *)
(* (services/auth_protection.py), as perform_login_operation uses it: the  *)
(* check, the attempt, and the outcome recorded afterwards.                *)
(*                                                                         *)
(* assert_auth_allowed and record_auth_outcome each run whole under        *)
(* _AUTH_LOCK in the one API process, so each is one action; between them  *)
(* the login waits for the gateway and for PASS, and other logins of the   *)
(* same client go on.  Only an administrator's clear_target_cooldown runs  *)
(* outside the lock; it is taken between two of their transactions.        *)
(***************************************************************************)
EXTENDS Naturals, FiniteSets, Sequences

CONSTANTS
    Logins,          \* logins under way at once
    Clients,         \* client_ref
    Targets,         \* target_ref
    Never,           \* a date that is NULL
    MaxClock,        \* bound on the clock
    MaxAttempts,     \* bound on the attempts recorded
    TargetDelays, ClientDelays,          \* sequences of delays
    Window, AttemptLimit,                \* CLIENT_WINDOW, CLIENT_ATTEMPT_LIMIT
    Decay, Quiet, Retention,             \* 24 hours, 7 days, 30 days
    MaxTargetStates, MaxClientStates,
    StormTotal, StormTargets, StormClients, StormPause

VARIABLES
    now,          \* the clock
    attempts,     \* auth_attempts, in order
    targetRows,   \* scope "target": rows by target_ref, telemetry
    pairRows,     \* scope "target_client": rows by <<target_ref, client_ref>>
    clientRows,   \* scope "client": rows by client_ref
    systemUntil,  \* pass_system_state.auth_blocked_until
    logins        \* a login past its check: its target and client

throttleVars == <<now, attempts, targetRows, pairRows, clientRows, systemUntil, logins>>

Times == 0 .. MaxClock
Latest(S) == CHOOSE t \in S : \A u \in S : u <= t
Longest(delays) == Latest({delays[i] : i \in DOMAIN delays})
Dates == 0 .. MaxClock + Latest({Longest(TargetDelays), Longest(ClientDelays), StormPause})

\* auth_throttle_states: the columns the three scopes use.
Row == [failures : 0 .. MaxAttempts, failedAt : Times \cup {Never},
        succeededAt : Times \cup {Never}, level : 0 .. Len(ClientDelays) - 1,
        escalatedAt : Times \cup {Never}, until : Dates \cup {Never}]
NewRow == [failures |-> 0, failedAt |-> Never, succeededAt |-> Never,
           level |-> 0, escalatedAt |-> Never, until |-> Never]

\* The rows of a scope: a function whose domain is the references that have one.
AreRows(rows, references) ==
    /\ DOMAIN rows \subseteq references
    /\ \A k \in DOMAIN rows : rows[k] \in Row

Attempt == [target : Targets, client : Clients, outcome : {"success", "invalid", "upstream"},
            at : Times]
Idle == [phase |-> "idle"]

TypeOK ==
    /\ now \in Times
    /\ attempts \in Seq(Attempt) /\ Len(attempts) <= MaxAttempts
    /\ AreRows(targetRows, Targets)
    /\ AreRows(pairRows, Targets \X Clients)
    /\ AreRows(clientRows, Clients)
    /\ systemUntil \in Dates \cup {Never}
    /\ \A l \in Logins : logins[l] = Idle \/
          logins[l] \in [phase : {"checked", "running"}, target : Targets, client : Clients]

Init ==
    /\ now = 0
    /\ attempts = <<>>
    /\ targetRows = <<>> /\ pairRows = <<>> /\ clientRows = <<>>
    /\ systemUntil = Never
    /\ logins = [l \in Logins |-> Idle]

-----------------------------------------------------------------------------

After(date, instant) == date # Never /\ date > instant
Before(date, instant) == date = Never \/ date < instant
Since(date, span) == date # Never /\ date + span >= now

Blocked(row) == After(row.until, now)

\* The rows of a scope nobody used for 30 days go.
Fresh(rows) ==
    {k \in DOMAIN rows : \/ Blocked(rows[k])
                         \/ Since(rows[k].failedAt, Retention)
                         \/ Since(rows[k].succeededAt, Retention)
                         \/ Since(rows[k].escalatedAt, Retention)}

LastUse(row) ==
    IF row.escalatedAt # Never THEN row.escalatedAt
    ELSE IF row.failedAt # Never THEN row.failedAt ELSE row.succeededAt

Restricted(rows, kept) == [k \in kept |-> rows[k]]

\* Mutant: the oldest rows make room, blocked or not.
PrunedBlindly(rows, maximum) ==
    LET fresh == Fresh(rows)
        overflow == Cardinality(fresh) + 1 - maximum
    IN {Restricted(rows, kept) : kept \in
          {fresh \ gone : gone \in
             {g \in SUBSET fresh :
                /\ Cardinality(g) = IF overflow > 0 THEN overflow ELSE 0
                /\ \A k \in g, j \in fresh \ g : LastUse(rows[k]) <= LastUse(rows[j])}}}

\* _prune_throttle_states: then, in a full scope, the rows that block nobody
\* make room, the longest unused first; the order of equal dates is open.
Pruned(rows, maximum) ==
    LET fresh == Fresh(rows)
        overflow == Cardinality(fresh) + 1 - maximum
        free == {k \in fresh : ~Blocked(rows[k])}
        count == IF overflow <= 0 THEN 0
                 ELSE IF overflow < Cardinality(free) THEN overflow ELSE Cardinality(free)
    IN {Restricted(rows, fresh \ gone) : gone \in
          {g \in SUBSET free :
             /\ Cardinality(g) = count
             /\ \A k \in g, j \in free \ g : LastUse(rows[k]) <= LastUse(rows[j])}}

With(rows, key, row) == [k \in DOMAIN rows \cup {key} |-> IF k = key THEN row ELSE rows[k]]

-----------------------------------------------------------------------------
(* assert_auth_allowed.                                                    *)

Refused(t, c) ==
    \/ <<t, c>> \in DOMAIN pairRows /\ Blocked(pairRows[<<t, c>>])
    \/ c \in DOMAIN clientRows /\ Blocked(clientRows[c])
    \/ After(systemUntil, now)

Indices == DOMAIN attempts
Answered(c) ==
    {i \in Indices : /\ attempts[i].client = c /\ attempts[i].outcome \in {"success", "invalid"}
                     /\ attempts[i].at + Window >= now}

\* Mutant: a successful login does not count against its client.
AtLimitOfFailures(c) ==
    Cardinality({i \in Answered(c) : attempts[i].outcome = "invalid"}) >= AttemptLimit

AtLimit(c) == Cardinality(Answered(c)) >= AttemptLimit

\* The login may go on to the gateway.
Allow(l, t, c) ==
    /\ logins[l] = Idle
    /\ ~Refused(t, c) /\ ~AtLimit(c)
    /\ logins' = [logins EXCEPT ![l] = [phase |-> "checked", target |-> t, client |-> c]]
    /\ UNCHANGED <<now, attempts, targetRows, pairRows, clientRows, systemUntil>>

\* A client at its limit is blocked, for longer each time within seven days.
\* In a scope full of blocked clients a new one is refused and nothing kept.
Escalate(t, c) ==
    /\ ~Refused(t, c) /\ AtLimit(c)
    /\ \E rows \in Pruned(clientRows, MaxClientStates) :
          /\ c \in DOMAIN clientRows \/ Cardinality(DOMAIN rows) < MaxClientStates
          /\ LET row == IF c \in DOMAIN rows THEN rows[c] ELSE NewRow
                 last == Len(ClientDelays) - 1
                 level == IF ~Since(row.escalatedAt, Quiet) THEN 0
                          ELSE IF row.level < last THEN row.level + 1 ELSE last
             IN clientRows' = With(rows, c,
                  [row EXCEPT !.level = level, !.escalatedAt = now,
                              !.until = now + ClientDelays[level + 1]])
    /\ UNCHANGED <<now, attempts, targetRows, pairRows, systemUntil, logins>>

-----------------------------------------------------------------------------
(* perform_login_operation between the check and the outcome.              *)

Reserve(l) ==
    /\ logins[l].phase = "checked"
    /\ logins' = [logins EXCEPT ![l].phase = "running"]
    /\ UNCHANGED <<now, attempts, targetRows, pairRows, clientRows, systemUntil>>

\* reserve_pass_operation refuses: nothing is recorded.
RefusedByGateway(l) ==
    /\ logins[l].phase = "checked"
    /\ logins' = [logins EXCEPT ![l] = Idle]
    /\ UNCHANGED <<now, attempts, targetRows, pairRows, clientRows, systemUntil>>

-----------------------------------------------------------------------------
(* record_auth_outcome.                                                    *)

Failed(row) ==
    LET failures == 1 + IF Since(row.failedAt, Decay) THEN row.failures ELSE 0
    IN [row EXCEPT !.failures = failures, !.failedAt = now,
                   !.until = now + TargetDelays[IF failures < Len(TargetDelays)
                                                THEN failures ELSE Len(TargetDelays)]]
Cleared(row) == [row EXCEPT !.failures = 0, !.until = Never, !.succeededAt = now]

\* What the outcome leaves of a scope; a failure adds a row if there is room.
Outcomes(rows, key, outcome) ==
    CASE outcome = "success" /\ key \in DOMAIN rows -> {With(rows, key, Cleared(rows[key]))}
      [] outcome = "invalid" /\ key \in DOMAIN rows -> {With(rows, key, Failed(rows[key]))}
      [] outcome = "invalid" /\ key \notin DOMAIN rows ->
            {IF Cardinality(DOMAIN p) < MaxTargetStates THEN With(p, key, Failed(NewRow)) ELSE p :
                p \in Pruned(rows, MaxTargetStates)}
      [] OTHER -> {rows}

\* Many upstream failures, of many targets and clients: a storm.
Storm(all) ==
    LET recent == {i \in DOMAIN all : all[i].outcome = "upstream" /\ all[i].at + Window >= now}
    IN /\ Cardinality(recent) >= StormTotal
       /\ Cardinality({all[i].target : i \in recent}) >= StormTargets
       /\ Cardinality({all[i].client : i \in recent}) >= StormClients

Record(l, outcome) ==
    LET t == logins[l].target
        c == logins[l].client
        all == Append(attempts, [target |-> t, client |-> c, outcome |-> outcome, at |-> now])
    IN /\ logins[l].phase = "running" /\ Len(attempts) < MaxAttempts
       /\ attempts' = all
       /\ targetRows' \in Outcomes(targetRows, t, outcome)
       /\ pairRows' \in Outcomes(pairRows, <<t, c>>, outcome)
       /\ systemUntil' = IF outcome = "upstream" /\ Storm(all) THEN now + StormPause
                         ELSE systemUntil
       /\ logins' = [logins EXCEPT ![l] = Idle]
       /\ UNCHANGED <<now, clientRows>>

\* An administrator lifts the waiting time of a target, for every client.
ClearTargetCooldown(t) ==
    /\ targetRows' = IF t \in DOMAIN targetRows
                     THEN [targetRows EXCEPT ![t] = [@ EXCEPT !.failures = 0, !.until = Never,
                                                              !.failedAt = Never]]
                     ELSE targetRows
    /\ pairRows' = Restricted(pairRows, {p \in DOMAIN pairRows : p[1] # t})
    /\ <<targetRows, pairRows>>' # <<targetRows, pairRows>>
    /\ UNCHANGED <<now, attempts, clientRows, systemUntil, logins>>

Tick == /\ now < MaxClock /\ now' = now + 1
        /\ UNCHANGED <<attempts, targetRows, pairRows, clientRows, systemUntil, logins>>

Next ==
    \/ \E l \in Logins, t \in Targets, c \in Clients : Allow(l, t, c)
    \/ \E t \in Targets, c \in Clients : Escalate(t, c)
    \/ \E l \in Logins : Reserve(l) \/ RefusedByGateway(l)
    \/ \E l \in Logins, o \in {"success", "invalid", "upstream"} : Record(l, o)
    \/ \E t \in Targets : ClearTargetCooldown(t)
    \/ Tick

ThrottleSpec == Init /\ [][Next]_throttleVars

-----------------------------------------------------------------------------

(* The check reads what other logins of the client have recorded, not what *)
(* they are about to: within fifteen minutes PASS answers a client at most *)
(* CLIENT_ATTEMPT_LIMIT times, plus once for each other login that was     *)
(* past its check.                                                         *)
AttemptsBounded ==
    \A c \in Clients : Cardinality(Answered(c)) < AttemptLimit + Cardinality(Logins)

(* A client's block, or the block of everyone after a storm, runs to its   *)
(* end: no login in flight, no success, no full table and no administrator *)
(* shortens it.                                                            *)
BlocksRunOut ==
    [][/\ \A c \in DOMAIN clientRows : Blocked(clientRows[c]) =>
             c \in DOMAIN clientRows' /\ clientRows'[c].until >= clientRows[c].until
       /\ After(systemUntil, now) => systemUntil' >= systemUntil]_throttleVars
=============================================================================
