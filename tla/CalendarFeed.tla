---------------------------- MODULE CalendarFeed ----------------------------
(***************************************************************************)
(* The private course calendar of one account: calendar_feed.py (connect,  *)
(* disconnect, refresh) and the calendar half of jobs.py.                  *)
(*                                                                         *)
(* A refresh and a connection both read, fetch without any lock on the     *)
(* rows, and write afterwards; the file lock of _calendar_lock keeps only  *)
(* refreshes apart.  There is no clock: next_refresh_at falls due, a lease  *)
(* expires and the attempts of a job are used up at any moment (the queue  *)
(* itself is DurableJobs).  A due instant is a token, the key of its job;  *)
(* a fetch is shorter than the refresh interval, so that an instant other  *)
(* than a job's own is a later one.                                        *)
(*                                                                         *)
(* The INPASS server is outside: it publishes contents and answers with an *)
(* ETag that names them, or fails.  The limits on connection attempts and  *)
(* the parser are not modelled here, and the statements of one commit (the *)
(* row loaded, the events deleted, the flush) are one step.                *)
(***************************************************************************)
EXTENDS Naturals, FiniteSets

CONSTANTS
  Feeds,            \* private links of the owner
  Dues,             \* bound: due instants in use at once
  Workers,          \* calendar worker processes
  Sessions,         \* web requests of the owner
  MaxPublications,  \* bound: times the contents change
  NoSub, NoContent

ASSUME BoundsAssumption == MaxPublications \in Nat

VARIABLES
  sub,        \* the row of calendar_subscriptions, or NoSub
  events,     \* the contents cached in calendar_events, or NoContent
  disabled,   \* account.is_disabled
  published,  \* published[f]: the date of the contents of link f
  session,    \* session[s]: a connection in progress
  work,       \* work[w]: a refresh in progress
  job         \* job[d]: the calendar job of due instant d

vars == <<sub, events, disabled, published, session, work, job>>

Contents == [feed: Feeds, at: 0..MaxPublications]
NewestAt == CHOOSE n \in 0..MaxPublications :
              /\ \E f \in Feeds : published[f] = n
              /\ \A f \in Feeds : published[f] <= n
Current(f) == [feed |-> f, at |-> published[f]]

(* digest and etag are contents: content_digest and the validators name    *)
(* them.  due: next_refresh_at.                                            *)
Sub == [feed: Feeds, digest: Contents, etag: Contents, due: Dues]
ASSUME NoneAssumption == NoSub \notin Sub /\ NoContent \notin Contents

(* No row, queued, running under a worker's claim, or ended.               *)
Ends == {"succeeded", "dead_letter"}
Job  == {"absent", "queued"} \cup Workers \cup Ends

(* claimed: before _process_calendar_job; ready: before the file lock;     *)
(* fetching, fetched, kept: under the lock, with new contents or with none *)
(* to write; done, lost: before finish_job.                                *)
(* seen is the row as the session loaded it; next is the due instant that  *)
(* the refresh computed when it began.                                     *)
Locked == {"fetching", "fetched", "kept"}
Work == [pc: {"idle", "claimed", "ready", "done", "lost"} \cup Locked,
         due: Dues \cup {NoSub}, seen: Sub \cup {NoSub},
         got: Contents \cup {NoContent}, next: Dues \cup {NoSub}]
Idle == [pc |-> "idle", due |-> NoSub, seen |-> NoSub, got |-> NoContent, next |-> NoSub]

(* session[s]: the contents a connection fetched and has not saved yet. *)
Session == Contents \cup {NoContent}

Init ==
  /\ sub = NoSub /\ events = NoContent /\ disabled = FALSE
  /\ published = [f \in Feeds |-> 0]
  /\ session = [s \in Sessions |-> NoContent]
  /\ work = [w \in Workers |-> Idle]
  /\ job = [d \in Dues |-> "absent"]

-----------------------------------------------------------------------------
(* now + CALENDAR_REFRESH_INTERVAL is an instant nobody uses yet.          *)
Unused == {d \in Dues : /\ job[d] = "absent"
                        /\ sub = NoSub \/ sub.due # d
                        /\ \A w \in Workers : d \notin {work[w].due, work[w].next}}

(* connect_feed up to the fetch, which succeeds (otherwise the connection  *)
(* is given up and leaves nothing but its attempt).                        *)
Connect(s, f) ==
  /\ session[s] = NoContent /\ ~disabled
  /\ session' = [session EXCEPT ![s] = Current(f)]
  /\ UNCHANGED <<sub, events, disabled, published, work, job>>

(* Its commit: the row and the events are written whatever they were.      *)
ConnectSave(s) ==
  LET got == session[s]
  IN  /\ got # NoContent
      /\ \E d \in Unused :
           sub' = [feed |-> got.feed, digest |-> got, etag |-> got, due |-> d]
      /\ events' = got
      /\ session' = [session EXCEPT ![s] = NoContent]
      /\ UNCHANGED <<disabled, published, work, job>>

(* disconnect_feed: the events go with the row (ON DELETE CASCADE). *)
Disconnect ==
  /\ sub # NoSub
  /\ sub' = NoSub /\ events' = NoContent
  /\ UNCHANGED <<disabled, published, session, work, job>>

-----------------------------------------------------------------------------
(* enqueue_due_calendar_jobs: one job per due instant, unless the instant  *)
(* has a row already, in whatever status.                                  *)
EnqueueDue ==
  /\ sub # NoSub /\ ~disabled
  /\ job[sub.due] = "absent"
  /\ job' = [job EXCEPT ![sub.due] = "queued"]
  /\ UNCHANGED <<sub, events, disabled, published, session, work>>

ClaimCalendar(w, d) ==
  /\ work[w].pc = "idle" /\ job[d] = "queued"
  /\ job' = [job EXCEPT ![d] = w]
  /\ work' = [work EXCEPT ![w] = [Idle EXCEPT !.pc = "claimed", !.due = d]]
  /\ UNCHANGED <<sub, events, disabled, published, session>>

(* A failed attempt goes back to the queue or to the dead letters;         *)
(* _recover_expired_jobs does so when a lease ran out.                     *)
LeaseExpires(d) ==
  /\ job[d] \in Workers
  /\ \E status \in {"queued", "dead_letter"} : job' = [job EXCEPT ![d] = status]
  /\ UNCHANGED <<sub, events, disabled, published, session, work>>

(* An operator whose comment opens with "Mutant:" is a slip the properties *)
(* below must notice; no definition of the specification uses it.          *)

LockBusy == \E v \in Workers : work[v].pc \in Locked

(* _process_calendar_job: nothing to do for a row that is gone, or was     *)
(* refreshed or connected since.                                           *)
StillDue(w) == sub # NoSub /\ sub.due = work[w].due

CheckDue(w) ==
  /\ work[w].pc = "claimed"
  /\ work' = [work EXCEPT ![w].pc = IF StillDue(w) THEN "ready" ELSE "done"]
  /\ UNCHANGED <<sub, events, disabled, published, session, job>>

(* Mutant: the row is not looked at again under the lock. *)
MayRefreshGone == ~LockBusy /\ ~disabled

(* refresh_subscription up to the fetch: a busy lock, a row that is gone   *)
(* and a disabled account end it, and _process_calendar_job takes it for   *)
(* done.                                                                   *)
MayRefresh == ~LockBusy /\ ~disabled /\ sub # NoSub

BeginRefresh(w) ==
  /\ work[w].pc = "ready"
  /\ IF ~MayRefresh THEN work' = [work EXCEPT ![w].pc = "done"]
     ELSE \E d \in Unused :
            work' = [work EXCEPT ![w].pc = "fetching", ![w].seen = sub, ![w].next = d]
  /\ UNCHANGED <<sub, events, disabled, published, session, job>>

(* fetch_feed: a 304 for the validators of the row, or a digest known      *)
(* already, leaves nothing to write.                                       *)
Fetch(w) ==
  LET seen == work[w].seen
      c == Current(seen.feed)
  IN  /\ work[w].pc = "fetching"
      /\ work' = IF c = seen.etag \/ c = seen.digest
                 THEN [work EXCEPT ![w].pc = "kept"]
                 ELSE [work EXCEPT ![w].pc = "fetched", ![w].got = c]
      /\ UNCHANGED <<sub, events, disabled, published, session, job>>

(* A CalendarFeedError (the server, its answer or the parser): the last    *)
(* valid events are kept, and only the due instant moves on.               *)
FetchError(w) ==
  /\ work[w].pc = "fetching"
  /\ work' = [work EXCEPT ![w].pc = "kept"]
  /\ UNCHANGED <<sub, events, disabled, published, session, job>>

(* Mutant: the whole row is written as it was loaded. *)
RefreshedWhole(w) ==
  LET k == work[w]
      new == IF k.pc = "fetched" THEN k.got ELSE k.seen.digest
  IN  [sub EXCEPT !.due = k.next, !.digest = new, !.etag = new]

(* The columns the session found changed: the row is updated, the others   *)
(* keep what another transaction wrote meanwhile.                          *)
Refreshed(w) ==
  LET k == work[w]
  IN  IF k.pc = "fetched" THEN [sub EXCEPT !.due = k.next, !.digest = k.got, !.etag = k.got]
      ELSE [sub EXCEPT !.due = k.next]

(* _replace_events, only for contents the session did not know. *)
Replaced(w) == IF work[w].pc = "fetched" THEN work[w].got ELSE events

(* Mutant: the row is inserted again when it is gone. *)
SaveUpserts(w) ==
  /\ work[w].pc \in Locked \ {"fetching"}
  /\ work' = [work EXCEPT ![w] = [Idle EXCEPT !.pc = "done", !.due = work[w].due]]
  /\ sub' = IF sub = NoSub THEN work[w].seen ELSE Refreshed(w)
  /\ events' = IF sub = NoSub THEN work[w].seen.digest ELSE Replaced(w)
  /\ UNCHANGED <<disabled, published, session, job>>

(* The commit of refresh_subscription.  The row is gone if the owner       *)
(* disconnected: the update matches nothing, SQLAlchemy raises, and the    *)
(* transaction is rolled back.                                             *)
Save(w) ==
  /\ work[w].pc \in Locked \ {"fetching"}
  /\ work' = [work EXCEPT ![w] = [Idle EXCEPT !.pc = IF sub = NoSub THEN "lost" ELSE "done",
                                              !.due = work[w].due]]
  /\ IF sub = NoSub THEN UNCHANGED <<sub, events>>
     ELSE sub' = Refreshed(w) /\ events' = Replaced(w)
  /\ UNCHANGED <<disabled, published, session, job>>

(* finish_job, for the claim that still holds the key. *)
FinishCalendar(w) ==
  LET d == work[w].due
  IN  /\ work[w].pc \in {"done", "lost"}
      /\ \E status \in IF work[w].pc = "done" THEN {"succeeded"}
                                              ELSE {"queued", "dead_letter"} :
           job' = IF job[d] = w THEN [job EXCEPT ![d] = status] ELSE job
      /\ work' = [work EXCEPT ![w] = Idle]
      /\ UNCHANGED <<sub, events, disabled, published, session>>

Crash(w) ==
  /\ work[w].pc # "idle"
  /\ work' = [work EXCEPT ![w] = Idle]
  /\ UNCHANGED <<sub, events, disabled, published, session, job>>

(* cleanup_durable_state; the retention outlasts every claim.              *)
Forget(d) ==
  /\ job[d] \in Ends
  /\ \A w \in Workers : work[w].due # d
  /\ job' = [job EXCEPT ![d] = "absent"]
  /\ UNCHANGED <<sub, events, disabled, published, session, work>>

(* admin.py disables and enables the account. *)
ToggleDisabled ==
  /\ disabled' = ~disabled
  /\ UNCHANGED <<sub, events, published, session, work, job>>

(* INPASS publishes new contents. *)
Publish(f) ==
  /\ NewestAt < MaxPublications
  /\ published' = [published EXCEPT ![f] = NewestAt + 1]
  /\ UNCHANGED <<sub, events, disabled, session, work, job>>

Next ==
  \/ \E s \in Sessions : ConnectSave(s) \/ \E f \in Feeds : Connect(s, f)
  \/ Disconnect \/ EnqueueDue \/ ToggleDisabled
  \/ \E w \in Workers : \/ CheckDue(w) \/ BeginRefresh(w) \/ \E d \in Dues : ClaimCalendar(w, d)
                        \/ Fetch(w) \/ FetchError(w) \/ Save(w)
                        \/ FinishCalendar(w) \/ Crash(w)
  \/ \E d \in Dues : LeaseExpires(d) \/ Forget(d)
  \/ \E f \in Feeds : Publish(f)

Spec == Init /\ [][Next]_vars

-----------------------------------------------------------------------------
(* Types of the rows, the sessions and the refreshes in memory; a refresh  *)
(* fetches only with a row it loaded, whoever removed it before.           *)
TypeOK ==
  /\ sub \in Sub \cup {NoSub} /\ events \in Contents \cup {NoContent}
  /\ disabled \in BOOLEAN /\ published \in [Feeds -> 0..MaxPublications]
  /\ session \in [Sessions -> Session]
  /\ work \in [Workers -> Work]
  /\ \A w \in Workers : work[w].pc \in Locked => work[w].seen \in Sub
  /\ job \in [Dues -> Job]

(* The digest and the validators of the row always describe the events in  *)
(* the cache, whichever refresh and connection wrote last: otherwise a 304 *)
(* or an equal digest would keep other events for ever.                    *)
TagsDescribeEvents ==
  IF sub = NoSub THEN events = NoContent
  ELSE sub.digest = events /\ sub.etag = events

(* docs/calendars.md: removing the calendar erases the link and every      *)
(* event.  No refresh in flight brings them back: only a connection does.  *)
StaysErased ==
  [][sub = NoSub /\ sub' # NoSub =>
       \E s \in Sessions : session[s] # NoContent /\ session'[s] = NoContent]_vars

(* docs/calendars.md: the scheduler adds a job for every due instant.  A   *)
(* job acknowledged as done has moved the due instant of an account that   *)
(* is enabled: otherwise its key is spent and no job is added again.       *)
DueNotSpent ==
  sub # NoSub /\ ~disabled => job[sub.due] # "succeeded"
=============================================================================
