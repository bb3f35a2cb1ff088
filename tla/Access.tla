------------------------------- MODULE Access -------------------------------
(***************************************************************************)
(* Access to one account: logins with the IMT password, a shared token or  *)
(* a passkey, the web sessions they open, and the access generation that   *)
(* an administrator moves to end them all.                                 *)
(*                                                                         *)
(* A login first checks its factor without a lock and later inserts its    *)
(* session, stamped with the generation of the factor; an IMT login spends *)
(* the time between the two at the identity provider and takes the row     *)
(* lock afterwards.  A request and its session carry "born", the number of *)
(* revocations there had been when the factor was checked: the properties  *)
(* compare it with the number there are now, the code does not have it.    *)
(***************************************************************************)
EXTENDS Naturals, FiniteSets

CONSTANTS
    Requests,       \* concurrent requests
    Challenges,     \* WebAuthn challenges issued for a login
    MaxObjects,     \* bound on sessions, tokens and passkeys created
    MaxMoves,       \* bound on moves of the access generation
    AccountCap,     \* MAX_SESSIONS_PER_ACCOUNT
    ShareCap,       \* MAX_SESSIONS_PER_SHARE_TOKEN
    OwnerCap,       \* MAX_OWNER_SESSIONS_PER_ACCOUNT
    ActiveCap,      \* MAX_ACTIVE_SHARE_TOKENS_PER_ACCOUNT
    RetainedCap     \* MAX_RETAINED_SHARE_TOKENS_PER_ACCOUNT

VARIABLES
    person,      \* [exists, disabled, generation, imports]
    sessions,    \* the account's web sessions
    tokens,      \* its share tokens
    passkeys,    \* its passkeys
    challenges,  \* the challenges not consumed
    requests,    \* requests under way
    serial,      \* objects created so far
    revocations  \* times an administrator ended all accesses

vars == <<person, sessions, tokens, passkeys, challenges, requests, serial, revocations>>

None == 0
Generation == 0 .. MaxMoves + 1
Session == [id : 1 .. MaxObjects, method : {"imt", "passkey", "token"}, factor : 0 .. MaxObjects,
            challenge : Challenges \cup {None}, generation : Generation, born : 0 .. MaxMoves]
Token == [id : 1 .. MaxObjects, generation : Generation, revoked : BOOLEAN]
Passkey == [id : 1 .. MaxObjects, generation : Generation]

Free == [kind |-> "free"]

Init ==
    /\ person = [exists |-> FALSE, disabled |-> FALSE, generation |-> 0, imports |-> 0]
    /\ sessions = {} /\ tokens = {} /\ passkeys = {}
    /\ challenges = Challenges
    /\ requests = [r \in Requests |-> Free]
    /\ serial = 0 /\ revocations = 0

-----------------------------------------------------------------------------

Admitted == person.exists /\ ~person.disabled
Fits == serial < MaxObjects

\* get_auth_context lets the session through.
Usable(s) ==
    /\ Admitted /\ s.generation = person.generation
    /\ s.method = "token" =>
          \E t \in tokens : t.id = s.factor /\ ~t.revoked /\ t.generation = s.generation

\* The sessions that survive a pruning that keeps "keep" of a scope: the last
\* seen ones, and any of them may be these.
Prunings(all, scope, keep) ==
    {(all \ scope) \cup kept : kept \in
        {k \in SUBSET scope : Cardinality(k) =
            IF Cardinality(scope) < keep THEN Cardinality(scope) ELSE keep}}

\* create_web_session: the account's sessions are pruned, then those of the
\* share token or of the owner, and the new one is added.
Inserted(s) ==
    /\ Fits /\ serial' = serial + 1
    /\ \E left \in Prunings(sessions, sessions, AccountCap - 1) :
          \E rest \in IF s.method = "token"
                      THEN Prunings(left, {x \in left : x.method = "token" /\ x.factor = s.factor},
                                    ShareCap - 1)
                      ELSE Prunings(left, {x \in left : x.method = "imt"}, OwnerCap - 1) :
             sessions' = rest \cup {s}

NewSession(method, factor, challenge, generation, born) ==
    [id |-> serial + 1, method |-> method, factor |-> factor, challenge |-> challenge,
     generation |-> generation, born |-> born]

End(r) == requests' = [requests EXCEPT ![r] = Free]
Begin(r, request) == requests[r] = Free /\ requests' = [requests EXCEPT ![r] = request]

-----------------------------------------------------------------------------
(* IMT login.                                                              *)

\* capture_imt_login_authority: primitives only, before the identity provider.
CaptureAuthority(r) ==
    /\ ~person.disabled
    /\ Begin(r, [kind |-> "imt", first |-> ~person.exists,
                 generation |-> person.generation, born |-> revocations])
    /\ UNCHANGED <<person, sessions, tokens, passkeys, challenges, serial, revocations>>

Admits(request) ==
    /\ IF request.first
       THEN person.exists => person.generation = 1
       ELSE person.generation = request.generation
    /\ ~person.disabled

\* Mutant: the authority captured before the identity provider decides
\* whether the account is created and its grades imported.
FinalizeImportsAgain(r) ==
    LET request == requests[r]
        row == IF request.first
               THEN [person EXCEPT !.exists = TRUE, !.generation = 1, !.imports = @ + 1]
               ELSE person
    IN /\ request.kind = "imt" /\ Admits(request)
       /\ person' = row
       /\ Inserted(NewSession("imt", None, None, row.generation, request.born))
       /\ End(r)
       /\ UNCHANGED <<tokens, passkeys, challenges, revocations>>

\* lock_imt_login_account and finalize_imt_login, one transaction.
FinalizeLogin(r) ==
    LET request == requests[r]
        row == IF person.exists THEN person
               ELSE [person EXCEPT !.exists = TRUE, !.generation = 1, !.imports = @ + 1]
    IN /\ request.kind = "imt" /\ Admits(request)
       /\ person' = row
       /\ Inserted(NewSession("imt", None, None, row.generation, request.born))
       /\ End(r)
       /\ UNCHANGED <<tokens, passkeys, challenges, revocations>>

RejectLogin(r) ==
    /\ requests[r].kind = "imt"
    /\ End(r)
    /\ UNCHANGED <<person, sessions, tokens, passkeys, challenges, serial, revocations>>

-----------------------------------------------------------------------------
(* Logins with a factor of the account.                                    *)

CheckToken(r, t) ==
    /\ Admitted /\ ~t.revoked /\ t.generation = person.generation
    /\ Begin(r, [kind |-> "token", factor |-> t, born |-> revocations])
    /\ UNCHANGED <<person, sessions, tokens, passkeys, challenges, serial, revocations>>

\* The token's last use is written with the session: the row must be there.
InsertTokenSession(r) ==
    /\ requests[r].kind = "token"
    /\ IF \E t \in tokens : t.id = requests[r].factor.id
       THEN Inserted(NewSession("token", requests[r].factor.id, None,
                                requests[r].factor.generation, requests[r].born))
       ELSE UNCHANGED <<sessions, serial>>
    /\ End(r)
    /\ UNCHANGED <<person, tokens, passkeys, challenges, revocations>>

\* authenticate_passkey deletes the challenge it answers, whatever follows.
Consumed(c) == c \in challenges /\ challenges' = challenges \ {c}

CheckPasskey(r, c, p) ==
    /\ Consumed(c)
    /\ IF Admitted /\ p.generation = person.generation
       THEN Begin(r, [kind |-> "passkey", factor |-> p, challenge |-> c, born |-> revocations])
       ELSE requests[r] = Free /\ UNCHANGED requests
    /\ UNCHANGED <<person, sessions, tokens, passkeys, serial, revocations>>

\* Mutant: the session takes the generation of the account now.
InsertPasskeySessionNow(r) ==
    /\ requests[r].kind = "passkey"
    /\ Inserted(NewSession("passkey", requests[r].factor.id, requests[r].challenge,
                           person.generation, requests[r].born))
    /\ End(r)
    /\ UNCHANGED <<person, tokens, passkeys, challenges, revocations>>

\* The passkey's counter is written with the session.  When its row is gone
\* the transaction fails, and the challenge comes back with the rollback.
InsertPasskeySession(r) ==
    /\ requests[r].kind = "passkey"
    /\ IF \E p \in passkeys : p.id = requests[r].factor.id
       THEN /\ Inserted(NewSession("passkey", requests[r].factor.id, requests[r].challenge,
                                   requests[r].factor.generation, requests[r].born))
            /\ UNCHANGED challenges
       ELSE /\ challenges' = challenges \cup {requests[r].challenge}
            /\ UNCHANGED <<sessions, serial>>
    /\ End(r)
    /\ UNCHANGED <<person, tokens, passkeys, revocations>>

-----------------------------------------------------------------------------
(* Factors, created and deleted from a session of the owner.               *)

Primary(s) == Usable(s) /\ s.method # "token"

\* The request is let through, and its session object is kept.
AskFactor(r, s, kind) ==
    /\ Primary(s)
    /\ Begin(r, [kind |-> kind, session |-> s])
    /\ UNCHANGED <<person, sessions, tokens, passkeys, challenges, serial, revocations>>

OfTokens(set) == {s \in sessions : s.method = "token" /\ s.factor \in {t.id : t \in set}}

\* _cleanup_token_retention keeps the newest tokens, revoked ones included.
Stale == {t \in tokens : Cardinality({u \in tokens : u.id > t.id}) >= RetainedCap}

CreateToken(r) ==
    LET kept == tokens \ Stale
    IN /\ requests[r].kind = "create_token" /\ Fits
       /\ IF Cardinality({t \in kept : ~t.revoked}) < ActiveCap
          THEN /\ tokens' = kept \cup {[id |-> serial + 1, revoked |-> FALSE,
                                        generation |-> requests[r].session.generation]}
               /\ sessions' = sessions \ OfTokens(Stale)
               /\ serial' = serial + 1
          ELSE UNCHANGED <<tokens, sessions, serial>>
       /\ End(r)
       /\ UNCHANGED <<person, passkeys, challenges, revocations>>

ListTokens ==
    /\ Stale # {} /\ \E s \in sessions : Usable(s)
    /\ tokens' = tokens \ Stale /\ sessions' = sessions \ OfTokens(Stale)
    /\ UNCHANGED <<person, passkeys, challenges, requests, serial, revocations>>

RegisterPasskey(r) ==
    /\ requests[r].kind = "register" /\ Fits
    /\ passkeys' = passkeys \cup {[id |-> serial + 1,
                                   generation |-> requests[r].session.generation]}
    /\ serial' = serial + 1 /\ End(r)
    /\ UNCHANGED <<person, sessions, tokens, challenges, revocations>>

RevokeToken(t) ==
    /\ ~t.revoked /\ \E s \in sessions : Usable(s)
    /\ tokens' = (tokens \ {t}) \cup {[t EXCEPT !.revoked = TRUE]}
    /\ sessions' = sessions \ OfTokens({t})
    /\ UNCHANGED <<person, passkeys, challenges, requests, serial, revocations>>

Stamped(set, generation) == {[x EXCEPT !.generation = generation] : x \in set}

\* delete_passkey: the generation moves, the passkey sessions go and every
\* other session, token and passkey of the account follows.
DeletePasskey(p) ==
    LET next == person.generation + 1
    IN /\ person.generation <= MaxMoves /\ \E s \in sessions : Primary(s)
       /\ person' = [person EXCEPT !.generation = next]
       /\ sessions' = Stamped({s \in sessions : s.method # "passkey"}, next)
       /\ tokens' = Stamped(tokens, next)
       /\ passkeys' = Stamped(passkeys \ {p}, next)
       /\ UNCHANGED <<challenges, requests, serial, revocations>>

Logout(s) ==
    /\ sessions' = sessions \ {s}
    /\ UNCHANGED <<person, tokens, passkeys, challenges, requests, serial, revocations>>

\* get_auth_context deletes the session it refuses for its account or its
\* generation, and leaves the one refused for its token.
PresentRefused(s) ==
    /\ ~Admitted \/ s.generation # person.generation
    /\ Logout(s)

-----------------------------------------------------------------------------
(* The administrator.                                                      *)

AllTokensRevoked == {[t EXCEPT !.revoked = TRUE] : t \in tokens}
Moves == person.generation <= MaxMoves

Disable ==
    /\ person.exists
    /\ IF person.disabled THEN UNCHANGED <<person, revocations>>
       ELSE /\ Moves /\ revocations' = revocations + 1
            /\ person' = [person EXCEPT !.disabled = TRUE, !.generation = @ + 1]
    /\ sessions' = {} /\ tokens' = AllTokensRevoked
    /\ UNCHANGED <<passkeys, challenges, requests, serial>>

Enable ==
    /\ person.exists /\ person.disabled /\ Moves
    /\ person' = [person EXCEPT !.disabled = FALSE, !.generation = @ + 1]
    /\ UNCHANGED <<sessions, tokens, passkeys, challenges, requests, serial, revocations>>

RevokeAccess ==
    /\ person.exists /\ Moves
    /\ person' = [person EXCEPT !.generation = @ + 1]
    /\ sessions' = {} /\ tokens' = AllTokensRevoked /\ passkeys' = {}
    /\ revocations' = revocations + 1
    /\ UNCHANGED <<challenges, requests, serial>>

Next ==
    \/ \E r \in Requests :
          \/ CaptureAuthority(r) \/ FinalizeLogin(r) \/ RejectLogin(r)
          \/ \E t \in tokens : CheckToken(r, t)
          \/ InsertTokenSession(r)
          \/ \E c \in Challenges, p \in passkeys : CheckPasskey(r, c, p)
          \/ InsertPasskeySession(r)
          \/ \E s \in sessions, kind \in {"create_token", "register"} : AskFactor(r, s, kind)
          \/ CreateToken(r) \/ RegisterPasskey(r)
    \/ ListTokens \/ \E t \in tokens : RevokeToken(t)
    \/ \E p \in passkeys : DeletePasskey(p)
    \/ \E s \in sessions : Logout(s) \/ PresentRefused(s)
    \/ Disable \/ Enable \/ RevokeAccess

Spec == Init /\ [][Next]_vars

-----------------------------------------------------------------------------
(* Properties.                                                             *)

\* Every row has its type.
TypeOK ==
    /\ person.generation \in Generation /\ person.imports \in Nat
    /\ sessions \subseteq Session /\ tokens \subseteq Token /\ passkeys \subseteq Passkey
    /\ challenges \subseteq Challenges
    /\ revocations \in 0 .. MaxMoves

\* A login whose factor was checked before all accesses were ended opens
\* nothing when its session is inserted after.
LateLoginDead ==
    [][\A s \in sessions' \ sessions :
          (s.id = serial' /\ serial' # serial /\ Usable(s)') => s.born = revocations]_vars

\* However many first logins of a person overlap, the account is created and
\* its grades are imported once; however many answers to a challenge overlap,
\* it opens one session.
ImportedOnce == person.imports <= 1
ChallengeOnce ==
    \A s, u \in sessions : s.challenge = u.challenge /\ s.challenge # None => s = u
SpentOnce == ImportedOnce /\ ChallengeOnce
=============================================================================
