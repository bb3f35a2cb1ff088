-------------------------- MODULE ConnectAdmission --------------------------
(***************************************************************************)
(* The admission of the calendar connections of one account                *)
(* (calendar_feed.py, _reserve_connect_attempt): under an advisory lock a  *)
(* request counts the attempts of the last hour and inserts its own, which *)
(* counts whatever becomes of it, even if the request dies in the fetch.   *)
(* The clock may advance between the count and the insertion.              *)
(***************************************************************************)
EXTENDS Naturals, Sequences

CONSTANTS
    Requests, Nobody,
    Window, MinDelay, Limit,  \* CALENDAR_CONNECT_*
    Retention,                \* CALENDAR_FETCH_ATTEMPT_RETENTION
    MaxTime, MaxTries         \* bounds: time, attempts kept

VARIABLES
    now,
    tries,    \* attempted_at of the attempts of kind "connect", in order
    connect,  \* connect[r]: where the request is
    lock      \* holder of the advisory lock

admissionVars == <<now, tries, connect, lock>>

TypeOK ==
    /\ now \in 0 .. MaxTime
    /\ tries \in Seq(0 .. MaxTime) /\ Len(tries) <= MaxTries
    /\ connect \in [Requests -> {"idle", "admitted", "reserved"}]
    /\ lock \in Requests \cup {Nobody}

Init ==
    /\ now = 0 /\ tries = <<>>
    /\ connect = [r \in Requests |-> "idle"] /\ lock = Nobody

-----------------------------------------------------------------------------

Recent == {i \in DOMAIN tries : tries[i] + Window >= now}

\* assert_connect_allowed
Allowed ==
    /\ \A i \in Recent : tries[i] + MinDelay <= now
    /\ Len(tries) < Limit \/ Len(tries) - Limit + 1 \notin Recent

\* Refused, the request ends and leaves nothing.
Admit(r) ==
    /\ connect[r] = "idle" /\ lock = Nobody
    /\ Allowed
    /\ connect' = [connect EXCEPT ![r] = "admitted"] /\ lock' = r
    /\ UNCHANGED <<now, tries>>

Reserve(r) ==
    /\ connect[r] = "admitted" /\ Len(tries) < MaxTries
    /\ tries' = Append(tries, now)
    /\ connect' = [connect EXCEPT ![r] = "reserved"] /\ lock' = Nobody
    /\ UNCHANGED now

\* The fetch and _finalize_connect_attempt, or the death of the request: the
\* outcome changes, "upstream" until then, the attempt stays.
End(r) ==
    /\ connect[r] # "idle"
    /\ connect' = [connect EXCEPT ![r] = "idle"]
    /\ lock' = IF lock = r THEN Nobody ELSE lock
    /\ UNCHANGED <<now, tries>>

\* cleanup_fetch_attempts
Cleanup ==
    /\ tries # <<>> /\ tries[1] + Retention < now
    /\ tries' = Tail(tries)
    /\ UNCHANGED <<now, connect, lock>>

Tick ==
    /\ now < MaxTime /\ now' = now + 1
    /\ UNCHANGED <<tries, connect, lock>>

Next ==
    \/ \E r \in Requests : Admit(r) \/ Reserve(r) \/ End(r)
    \/ Cleanup \/ Tick

AdmissionSpec == Init /\ [][Next]_admissionVars

-----------------------------------------------------------------------------

(* Two attempts of an account are MinDelay apart and no hour holds more    *)
(* than Limit of them, so many tabs as the owner may use.                  *)
ConnectsSpaced ==
    /\ \A i \in 2 .. Len(tries) : tries[i] >= tries[i - 1] + MinDelay
    /\ \A i \in Limit + 1 .. Len(tries) : tries[i] > tries[i - Limit] + Window
=============================================================================
