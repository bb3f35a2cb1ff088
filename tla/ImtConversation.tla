-------------------------- MODULE ImtConversation --------------------------
(***************************************************************************)
(* A conversation of the application with the services of the school:      *)
(* ImtPassClient (services/imt.py), driven by perform_login_operation and  *)
(* perform_sync_operation (services/pass_gateway.py).  It signs on through *)
(* CAS and the identity provider, reads the report and the export of PASS  *)
(* and the student's file, then HUB, whose interface lends a token that    *)
(* must be handed back.                                                    *)
(*                                                                         *)
(* The school answers anything: any page, a redirection to any place, an   *)
(* error, nothing before the deadline.  A page is what the code looks for  *)
(* in it, an address its origin.  Sizes, cookies, paths within an origin   *)
(* and what the notes say are left out.                                    *)
(***************************************************************************)
EXTENDS Naturals

CONSTANTS
    MaxSteps,       \* steps of _complete_cas, 8
    MaxRedirects,   \* MAX_REDIRECTS, 8
    MaxRequests     \* MAX_REQUESTS_PER_OPERATION, 40

VARIABLES
    client,    \* the ImtPassClient, and how far its caller is
    wire,      \* the request under way
    heard,     \* who received a secret, a history
    unreported \* requests sent and not counted by the gateway, a history

imtVars == <<client, wire, heard, unreported>>

Credential == {"cas", "idp"}
Trusted == Credential \cup {"pass", "hub"}
Origins == Trusted \cup {"elsewhere"}

SignOns == {"cas", "signon"}
OfProfile == {"profile", "card"}
OfHub == {"home", "signon", "csrf", "login", "user", "results", "logout"}
Stages == {"entry", "provider", "saml", "cas", "report", "export", "end"} \cup OfProfile \cup OfHub

\* What the code looks for in a page, in its order.
Looks == {"wayf", "password", "form", "proceed", "link", "pass", "hub", "plain"}

\* login, import: perform_login_operation, for a known and for a new account;
\* session: the stored cookies alone; fallback: the password of a credential.
Client ==
    [kind : {"login", "import", "session", "fallback"},
     profile : BOOLEAN, hub : BOOLEAN,      \* what is to be read as well
     at : Stages,                           \* the request that is next, or under way
     left : 0 .. MaxSteps + 1,              \* pages _complete_cas may still examine
     posted : 0 .. 1,                       \* the password was sent in this sign-on
     late : BOOLEAN,                        \* the deadline of the operation has passed
     requests : 0 .. MaxRequests + 1,
     token : {"none", "lent", "asked"},     \* asked: its return was asked for
     entries : BOOLEAN,                     \* the export is parsed
     results : BOOLEAN,                     \* the results of HUB are parsed
     read : BOOLEAN,                        \* last_competency_succeeded
     stopped : BOOLEAN,                     \* budget or deadline stopped a request, a history
     outcome : {"running", "done", "invalid", "upstream", "required"}]

Silent == [method |-> "none"]
Wire == [method : {"GET", "POST"}, to : Trusted, carries : {"nothing", "password", "token"},
         sensitive : BOOLEAN, allowed : SUBSET Trusted, redirects : 0 .. MaxRedirects]

TypeOK ==
    /\ client \in Client /\ (wire = Silent \/ wire \in Wire)
    /\ heard \subseteq Origins \X {"password", "token"} /\ unreported \in Nat

\* A client for a kind of conversation.
New(kind, profile, hub) ==
    [kind |-> kind, profile |-> profile, hub |-> hub,
     at |-> IF kind = "session" THEN "report" ELSE "entry", left |-> 0, posted |-> 0,
     late |-> FALSE, requests |-> 0, token |-> "none", entries |-> FALSE, results |-> FALSE,
     read |-> FALSE, stopped |-> FALSE, outcome |-> "running"]

Init ==
    /\ \/ \E kind \in {"login", "import"} : client = New(kind, TRUE, TRUE)
       \/ \E kind \in {"session", "fallback"}, p \in BOOLEAN, h \in BOOLEAN :
             client = New(kind, p, h)
    /\ wire = Silent /\ heard = {} /\ unreported = 0

-----------------------------------------------------------------------------
(* From one request to the next.                                           *)

AfterProfile == IF client.hub THEN "home" ELSE "end"
AfterExport == IF client.profile THEN "profile" ELSE AfterProfile
AfterCas == IF client.kind = "login" THEN "profile" ELSE "report"

\* Mutant: the requests of the sign-on are not counted before the next
\* operation starts from zero.
SignOnUncounted(c, to) == IF to = "end" THEN c.requests ELSE 0

\* The gateway adds the requests of an operation that ends.
Counted(c, to) == c.requests

\* An operation of the client ends between the two requests; the next one has
\* a budget and a deadline of its own.
Boundary(from, to) ==
    \/ to = "end"
    \/ from = "cas" /\ client.kind \in {"login", "import"}
    \/ from \in OfProfile /\ to \notin OfProfile /\ client.kind = "login"

Report(c, to) ==
    unreported' = IF unreported < Counted(c, to) THEN 0 ELSE unreported - Counted(c, to)

\* c goes on with another request, or ends.
Continue(c, to) ==
    LET next == [c EXCEPT !.at = to, !.left = 0, !.posted = 0,
                          !.outcome = IF to = "end" /\ @ = "running" THEN "done" ELSE @]
    IN  /\ wire' = Silent /\ UNCHANGED heard
        /\ IF Boundary(c.at, to)
           THEN client' = [next EXCEPT !.requests = 0, !.late = FALSE] /\ Report(c, to)
           ELSE client' = next /\ UNCHANGED unreported

-----------------------------------------------------------------------------
(* Failures; "invalid" stands for ImtAuthenticationError.                  *)

\* Mutant: an error of HUB is the caller's.
LoggedNever(why) == client.at \in OfProfile /\ (client.kind = "login" \/ why = "upstream")

\* The caller only logs it, and goes on without.
Logged(why) ==
    \/ client.at \in OfHub
    \/ client.at \in OfProfile /\ (client.kind = "login" \/ why = "upstream")

\* Mutant: the token is not handed back when reading with it fails.
SkippedNoReturn == IF client.at \in OfHub THEN "end" ELSE AfterProfile

\* fetch_competency_ues_authenticated: finally, it hands the token back.
Skipped ==
    IF client.at \in {"user", "results"} THEN "logout"
    ELSE IF client.at \in OfHub THEN "end" ELSE AfterProfile

\* perform_sync_operation: the stored session is over; a new client takes a
\* password, where there is one.
Fallback(c) ==
    \/ Continue([c EXCEPT !.outcome = "required"], "end")
    \/ /\ client' = New("fallback", c.profile, c.hub) /\ Report(c, "end")
       /\ wire' = Silent /\ UNCHANGED heard

Failed(c, why) ==
    IF Logged(why) THEN Continue(c, Skipped)
    ELSE IF c.kind = "session" /\ why = "invalid" THEN Fallback(c)
    ELSE Continue([c EXCEPT !.outcome = why], "end")

Fail(why) == Failed(client, why)

-----------------------------------------------------------------------------
(* _request.                                                               *)

Get(to, allowed) == [method |-> "GET", to |-> to, carries |-> "nothing", sensitive |-> FALSE,
                     allowed |-> allowed, redirects |-> 0]
Post(to, allowed) == [Get(to, allowed) EXCEPT !.method = "POST"]
Sensitive(w) == [w EXCEPT !.sensitive = TRUE]
Bearing(w, what) == [w EXCEPT !.carries = what]

\* One more request leaves c, unless its address, the budget or the deadline
\* forbids it.
Dispatch(c, w) ==
    LET one == [c EXCEPT !.requests = @ + 1] IN
    IF w.to \notin w.allowed THEN Failed(c, "upstream")
    ELSE IF one.requests > MaxRequests \/ c.late
         THEN Failed([one EXCEPT !.stopped = TRUE], "upstream")
    ELSE /\ client' = [one EXCEPT !.token = IF c.at = "logout" THEN "asked" ELSE @]
         /\ wire' = w /\ unreported' = unreported + 1
         /\ heard' = IF w.carries = "nothing" THEN heard ELSE heard \cup {<<w.to, w.carries>>}

\* The requests whose address the code knows.
Known ==
    CASE client.at \in {"entry", "provider", "export"} \cup OfProfile -> Get("pass", {"pass"})
      [] client.at = "report" -> Get("pass", Trusted)
      [] client.at = "home" -> Get("hub", Trusted)
      [] client.at = "csrf" -> Get("hub", {"hub"})
      [] client.at = "login" -> Post("hub", {"hub"})
      [] client.at \in {"user", "results"} -> Bearing(Get("hub", {"hub"}), "token")
      [] client.at = "logout" -> Bearing(Post("hub", {"hub"}), "token")

Running == client.outcome = "running"

Ask == Running /\ wire = Silent /\ Dispatch(client, Known)

\* Mutant: a body is repeated wherever a 307 or a 308 asks for it.
RepeatsSecretNever(keeps) == FALSE

\* A 307 or a 308 would repeat a body that must not be.
RepeatsSecret(keeps) == wire.sensitive /\ wire.method = "POST" /\ keeps

\* keeps: the method and the body stay, as after 307 and 308.
Redirected(to, keeps) ==
    LET next == [wire EXCEPT !.to = to, !.redirects = @ + 1] IN
    IF keeps \/ wire.method = "GET" THEN next
    ELSE [next EXCEPT !.method = "GET", !.sensitive = FALSE,
                      !.carries = IF @ = "password" THEN "nothing" ELSE @]

Redirect ==
    /\ wire # Silent
    /\ \E to \in Origins, keeps \in BOOLEAN :
          IF wire.redirects >= MaxRedirects \/ RepeatsSecret(keeps) THEN Fail("upstream")
          ELSE Dispatch(client, Redirected(to, keeps))

\* An error status, a network error, too much data, an unexpected content, an
\* answer read after the deadline.
Break == wire # Silent /\ Fail("upstream")

Expire ==
    /\ Running /\ ~client.late
    /\ client' = [client EXCEPT !.late = TRUE]
    /\ UNCHANGED <<wire, heard, unreported>>

-----------------------------------------------------------------------------
(* _complete_cas: c examines one more page; action is where it leads.      *)

Step(c, w) == Dispatch([c EXCEPT !.left = @ - 1], w)

\* Mutant: the form is filled in as often as it is shown.
AskedAgainNever(c) == FALSE

\* The password form again: the password is wrong.
AskedAgain(c) == c.posted > 0

FillIn(c, action) ==
    IF AskedAgain(c) THEN Failed(c, "invalid")
    ELSE IF action \notin Credential THEN Failed(c, "upstream")
    ELSE Step([c EXCEPT !.posted = @ + 1], Sensitive(Bearing(Post(action, Trusted), "password")))

\* prime_competency_session has what it wanted.
HubOpen(c) == IF c.kind = "login" THEN Continue([c EXCEPT !.read = TRUE], "end")
              ELSE Continue(c, "csrf")

\* A page of a protected service ends the sign-on.
SignedOn(c, look) ==
    IF c.at = "cas" THEN Continue(c, AfterCas)
    ELSE IF look = "hub" THEN HubOpen(c) ELSE Failed(c, "upstream")

Examine(c, look, action) ==
    IF c.left = 0 THEN Failed(c, "upstream")
    ELSE CASE look = "wayf" -> IF action = "idp" THEN Step(c, Post("idp", Trusted \ {"pass"}))
                               ELSE Failed(c, "upstream")
           [] look = "password" -> FillIn(c, action)
           [] look = "form" -> Step(c, Sensitive(Post(action, Trusted)))
           [] look = "proceed" -> IF action = "idp" THEN Step(c, Sensitive(Post("idp", Trusted)))
                                  ELSE Failed(c, "upstream")
           [] look = "link" -> IF action = "idp" THEN Step(c, Get("idp", Trusted))
                               ELSE Failed(c, "upstream")
           [] look \in {"pass", "hub"} -> SignedOn(c, look)
           [] look = "plain" -> Failed(c, "upstream")

\* The choice of an identity provider before the loop is no step of it.
Entering(stage, look) ==
    [client EXCEPT !.at = stage, !.left = IF look = "wayf" THEN MaxSteps + 1 ELSE MaxSteps]

-----------------------------------------------------------------------------
(* A good answer, in time, and what the code does with it at once.         *)

Answered(stage) == wire # Silent /\ ~client.late /\ client.at = stage

OpenEntry == Answered("entry") /\ Continue(client, "provider")

\* authenticate: the first form of the provider's page, or its direct link.
FollowProvider ==
    /\ Answered("provider")
    /\ \E action \in Origins, form \in BOOLEAN :
          IF action \notin Credential THEN Fail("upstream")
          ELSE Dispatch([client EXCEPT !.at = "saml"],
                        IF form THEN Sensitive(Post(action, Trusted)) ELSE Get(action, Trusted))

EnterCas ==
    /\ Answered("saml")
    /\ \E look \in Looks, action \in Origins : Examine(Entering("cas", look), look, action)

GoOn ==
    /\ \E stage \in SignOns : Answered(stage)
    /\ \E look \in Looks, action \in Origins : Examine(client, look, action)

OpenReport == Answered("report") /\ Continue(client, "export")
ReadExport == Answered("export") /\ Continue([client EXCEPT !.entries = TRUE], AfterExport)
OpenProfile == Answered("profile") /\ Continue(client, "card")
ReadCard == Answered("card") /\ Continue(client, AfterProfile)

\* The report or the student's file asks for a password: the session is lost.
SessionLost == (Answered("report") \/ Answered("profile")) /\ Fail("invalid")

\* _complete_hub_sso, with the password in hand or without.
OpenHub ==
    /\ Answered("home")
    /\ \/ HubOpen(client)
       \/ \E look \in Looks \ {"hub"}, action \in Origins :
             IF client.kind = "session" THEN Fail("upstream")
             ELSE Examine(Entering("signon", look), look, action)

ReadCsrf == Answered("csrf") /\ Continue(client, "login")
TakeToken == Answered("login") /\ Continue([client EXCEPT !.token = "lent"], "user")
ReadUser == Answered("user") /\ Continue(client, "results")
ReadResults == Answered("results") /\ Continue([client EXCEPT !.results = TRUE], "logout")
ReturnToken ==
    /\ Answered("logout")
    /\ Continue([client EXCEPT !.read = client.results], "end")

Next ==
    \/ Ask \/ Redirect \/ Break \/ Expire
    \/ OpenEntry \/ FollowProvider \/ EnterCas \/ GoOn
    \/ OpenReport \/ ReadExport \/ OpenProfile \/ ReadCard \/ SessionLost
    \/ OpenHub \/ ReadCsrf \/ TakeToken \/ ReadUser \/ ReadResults \/ ReturnToken

Spec == Init /\ [][Next]_imtVars

-----------------------------------------------------------------------------
\* The password reaches CAS and the identity provider only, once per sign-on,
\* and the token of HUB reaches HUB only, wherever the pages and the
\* redirections lead.
SecretsKept ==
    /\ \A h \in heard : h[1] \in (IF h[2] = "password" THEN Credential ELSE {"hub"})
    /\ client.kind = "session" => heard \cap (Origins \X {"password"}) = {}

\* The client asks HUB to take its token back whatever fails meanwhile, unless
\* the operation runs out of time or of requests.
TokenAskedBack == ~Running /\ client.token = "lent" => client.stopped

\* When the conversation is over, every request sent is in the number by
\* which the gateway keeps its daily budget.
RequestsReported == ~Running => unreported = 0

\* Notes that were read survive whatever HUB does: only a lost session of
\* PASS takes them.
NotesKept == client.entries /\ ~Running => client.outcome \in {"done", "invalid", "required"}

ConversationSound == TokenAskedBack /\ RequestsReported /\ NotesKept
=============================================================================
