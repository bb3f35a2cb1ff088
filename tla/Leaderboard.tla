---------------------------- MODULE Leaderboard ----------------------------
(***************************************************************************)
(* The participation of one account in the leaderboard                     *)
(* (services/leaderboard.py): its owner joins, leaves and erases; an       *)
(* administrator suspends, restores, withdraws, erases and releases;       *)
(* synchronisations renew the basis of the score or end the participation; *)
(* other accounts of the promotion recommend a refresh.                    *)
(*                                                                         *)
(* No handler locks the profile.  Each one reads the row, computes, and at *)
(* its commit writes the columns that differ from what it read, whatever   *)
(* the row has become.  A request is therefore two actions.                *)
(***************************************************************************)
EXTENDS Naturals

CONSTANTS
    Tabs,      \* requests of the owner and of administrators
    Unset,     \* a column that is NULL
    Bases,     \* what the official ECTS of the courses may be
    MaxGenerations, MaxRequests   \* bounds

VARIABLES
    account,   \* what PASS and COMPETENCES say, and is_disabled
    profile,   \* the leaderboard_profiles row
    request,   \* request[t]: what t read and is about to write
    sync,      \* the same for the synchronisation
    asked,     \* requests so far
    joins,     \* participations committed, a history
    withdrawn  \* the last wish known is to be out of it, a history

leaderboardVars == <<account, profile, request, sync, asked, joins, withdrawn>>

Generations == 0 .. MaxGenerations
Account == [generation : Generations, basis : Bases, complete : BOOLEAN, disabled : BOOLEAN]
Profile == [exists : BOOLEAN, participating : BOOLEAN, consent : {"old", "current", Unset},
            visible : {"later", "now", Unset}, basis : Bases \cup {Unset},
            basisAt : Generations \cup {Unset}, recommended : BOOLEAN, suspended : BOOLEAN]
Idle == [op |-> "none"]

NewProfile == [exists |-> FALSE, participating |-> FALSE, consent |-> Unset, visible |-> Unset,
               basis |-> Unset, basisAt |-> Unset, recommended |-> FALSE, suspended |-> FALSE]

TypeOK ==
    /\ account \in Account /\ profile \in Profile
    /\ \A t \in Tabs : request[t] = Idle \/ (request[t].copy \in Profile /\ request[t].new \in Profile)
    /\ sync = Idle \/ (sync.copy \in Profile /\ sync.new \in Profile /\ sync.account \in Account)
    /\ asked \in 0 .. MaxRequests /\ joins \in 0 .. MaxRequests /\ withdrawn \in BOOLEAN

\* A new account, or one whose consent was given to an earlier text.
Init ==
    /\ account \in [generation : {0}, basis : Bases, complete : BOOLEAN, disabled : {FALSE}]
    /\ \/ profile = NewProfile
       \/ profile = [NewProfile EXCEPT !.exists = TRUE, !.participating = TRUE, !.consent = "old",
                                       !.visible = "now", !.basis = account.basis, !.basisAt = 0]
    /\ request = [t \in Tabs |-> Idle] /\ sync = Idle
    /\ asked = 0 /\ joins = 0 /\ withdrawn = FALSE

-----------------------------------------------------------------------------
(* What the handlers make of the row they read.                            *)

\* _has_current_consent, _basis_is_current.
Consents(p) == p.consent = "current"
BasisIsCurrent(p, a) == p.basis # Unset /\ p.basisAt = a.generation

\* _reset_participation_for_reconsent.
ResetForReconsent(p) ==
    [p EXCEPT !.participating = FALSE, !.visible = Unset, !.consent = Unset, !.basis = Unset,
              !.basisAt = Unset, !.recommended = FALSE]

Joined(p, a) ==
    [p EXCEPT !.exists = TRUE, !.participating = TRUE, !.visible = "later", !.consent = "current",
              !.basis = a.basis, !.basisAt = a.generation, !.recommended = FALSE]

Left(p) == [p EXCEPT !.participating = FALSE, !.visible = Unset]

Erased(p) == ResetForReconsent(p)

BasisRefreshed(p, a) == [p EXCEPT !.basis = a.basis, !.basisAt = a.generation]

\* reconcile_participating_leaderboard_basis, with the courses as fetched.
Reconciled(p, a) ==
    IF ~p.participating THEN p
    ELSE IF ~Consents(p) \/ ~a.complete THEN ResetForReconsent(p)
    ELSE [BasisRefreshed(p, a) EXCEPT !.recommended = FALSE]

Operations == {"join", "leave", "erase", "suspend", "restore", "withdraw", "release", "refresh"}

\* The conditions of each handler, on the row it reads.
Permitted(op, p, a) ==
    CASE op = "join" -> /\ ~a.disabled /\ a.complete /\ ~p.suspended
                        /\ ~(p.participating /\ Consents(p) /\ BasisIsCurrent(p, a))
      [] op = "leave" -> ~a.disabled /\ p.exists /\ p.participating
      [] op = "erase" -> p.exists
      [] op = "refresh" -> p.participating /\ Consents(p) /\ a.complete
      [] op = "release" -> p.participating
      [] OTHER -> p.exists

Written(op, p, a) ==
    CASE op = "join" -> Joined(p, a)
      [] op = "leave" -> Left(p)
      [] op = "erase" -> Erased(p)
      [] op = "suspend" -> [p EXCEPT !.suspended = TRUE]
      [] op = "restore" -> [p EXCEPT !.suspended = FALSE]
      [] op = "withdraw" -> [Left(p) EXCEPT !.suspended = FALSE]
      [] op = "release" -> [p EXCEPT !.visible = "now"]
      [] op = "refresh" -> BasisRefreshed(p, a)

\* board_view: the rows of the board.
Listed(p, a) ==
    /\ p.participating /\ ~p.suspended /\ ~a.disabled
    /\ Consents(p) /\ BasisIsCurrent(p, a)

-----------------------------------------------------------------------------

\* Mutant: the whole row is written back.
OverAll(old, copy, new) == new

\* The columns of the copy that changed are written over the row.
Over(old, copy, new) ==
    [column \in DOMAIN old |-> IF new[column] = copy[column] THEN old[column] ELSE new[column]]

Begin(t, op) ==
    /\ request[t] = Idle /\ asked < MaxRequests
    /\ Permitted(op, profile, account)
    /\ asked' = asked + 1
    /\ request' = [request EXCEPT ![t] =
          [op |-> op, copy |-> profile, new |-> Written(op, profile, account), joins |-> joins]]
    /\ UNCHANGED <<account, profile, sync, joins, withdrawn>>

Leaves == {"leave", "erase", "withdraw"}

\* A row inserted twice violates the primary key: the second request fails.
Commit(t) ==
    LET r == request[t] IN
    /\ r # Idle /\ ~(~r.copy.exists /\ profile.exists)
    /\ profile' = Over(profile, r.copy, r.new)
    /\ joins' = IF r.op = "join" THEN joins + 1 ELSE joins
    /\ withdrawn' = IF r.op = "join" THEN FALSE
                    ELSE IF r.op \in Leaves /\ r.joins = joins THEN TRUE ELSE withdrawn
    /\ request' = [request EXCEPT ![t] = Idle]
    /\ UNCHANGED <<account, sync, asked>>

Fail(t) ==
    /\ request[t] # Idle
    /\ request' = [request EXCEPT ![t] = Idle]
    /\ UNCHANGED <<account, profile, sync, asked, joins, withdrawn>>

\* The synchronisation applies what it fetched: with or without a table of
\* COMPETENCES, and new notes may lack their ECTS.
SyncBegin ==
    /\ sync = Idle /\ ~account.disabled
    /\ \/ /\ account.generation < MaxGenerations
          /\ \E b \in Bases, c \in BOOLEAN :
                LET a == [account EXCEPT !.generation = @ + 1, !.basis = b, !.complete = c]
                IN sync' = [op |-> "sync", account |-> a, copy |-> profile,
                            new |-> [Reconciled(profile, a) EXCEPT !.recommended = FALSE]]
       \/ \E c \in BOOLEAN :
             LET a == [account EXCEPT !.complete = c /\ @]
             IN sync' = [op |-> "sync", account |-> a, copy |-> profile,
                         new |-> [profile EXCEPT !.recommended = FALSE]]
    /\ UNCHANGED <<account, profile, request, asked, joins, withdrawn>>

SyncCommit ==
    /\ sync # Idle /\ sync' = Idle
    /\ profile' = Over(profile, sync.copy, sync.new)
    /\ account' = [sync.account EXCEPT !.disabled = account.disabled]
    /\ UNCHANGED <<request, asked, joins, withdrawn>>

\* emit_cohort_pulse of another account of the promotion.
Recommend ==
    /\ profile.participating /\ ~profile.recommended
    /\ profile' = [profile EXCEPT !.recommended = TRUE]
    /\ UNCHANGED <<account, request, sync, asked, joins, withdrawn>>

\* The administrator disables or enables the account.
Switch ==
    /\ asked < MaxRequests /\ asked' = asked + 1
    /\ account' = [account EXCEPT !.disabled = ~@]
    /\ UNCHANGED <<profile, request, sync, joins, withdrawn>>

Next ==
    \/ \E t \in Tabs : (\E op \in Operations : Begin(t, op)) \/ Commit(t) \/ Fail(t)
    \/ SyncBegin \/ SyncCommit \/ Recommend \/ Switch

LeaderboardSpec == Init /\ [][Next]_leaderboardVars

-----------------------------------------------------------------------------

(* Once the owner or an administrator has withdrawn or erased a            *)
(* participation that existed when they asked, the profile is on no board  *)
(* until a join is committed, whatever synchronisation, refresh of the     *)
(* basis or join writes back the row it read before.                       *)
WithdrawnUnlisted == withdrawn => ~Listed(profile, account)
=============================================================================
