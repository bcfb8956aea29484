------------------------------ MODULE Webhooks ------------------------------
(***************************************************************************)
(* The webhook delivery engine: events become delivery rows, drains post    *)
(* them, and the settings page and the JSON API change endpoints and rows   *)
(* meanwhile.                                                               *)
(*                                                                          *)
(* The engine's own loop is one drain at a time, but every test delivery and *)
(* every replay through the API starts another drain on a goroutine of its  *)
(* own (sendSoon).  A drain works from copies: of the due rows, read once,  *)
(* and of the endpoint, read again before each POST.  One SQL statement is  *)
(* one step; the INSERT of a delivery and the prune that follows it change  *)
(* nothing a reader between them could tell, and are one step too.          *)
(***************************************************************************)
EXTENDS Naturals, FiniteSets, FiniteSetsExt

CONSTANTS
  Endpoints,   \* webhook_endpoints rows that ever exist
  Loop,        \* the drain of drainLoop
  Soon,        \* bound: drains of sendSoon at one time
  Ladder,      \* len(retryLadder)
  Batch,       \* webhookBatch
  Keep,        \* webhookDeliveryKeep
  MaxRows,     \* bound: delivery rows ever written
  MaxReplays,  \* bound: replays
  MaxEdits,    \* bound: pauses, resumes and PATCHes
  MaxFaults    \* bound: restarts and failed database statements

ASSUME EndpointsAssumption == Endpoints # {}
ASSUME DrainersAssumption == Loop \notin Soon /\ IsFiniteSet(Soon)
ASSUME SizesAssumption ==
  /\ {Ladder, Batch, Keep} \subseteq Nat \ {0}
  /\ {MaxRows, MaxReplays, MaxEdits, MaxFaults} \subseteq Nat

Drainers == {Loop} \cup Soon
Rows == 1..MaxRows
Awaiting == {"pending", "failed"}
NoEdit == [kind |-> "none"]

VARIABLES
  there,     \* there[e]: "no" before it is created, then "yes", then "deleted"
  on,        \* on[e]: column active
  given,     \* given[e]: auto_disabled_at is set
  mailed,    \* mailed[e]: failure_email_at is less than a day old
  licensed,  \* the verdict of the licence gate
  row,       \* row[d]: status, attempts and next_attempt_at <= now, NoRow when there is none
  of,        \* of[d]: the endpoint of row d
  last,      \* the last id given out
  fan,       \* endpoints an event being fired still has to be queued for
  edit,      \* the settings or API request that has read an endpoint and will write it
  wpc,       \* wpc[w]: where drain w stands
  batch,     \* batch[w]: copies of the due rows w has not reached
  job,       \* job[w]: the delivery w is at, with what it read
  posts,     \* history: POSTs begun per row, counted up to Ladder
  mails,     \* history: failure mails per endpoint in its current day
  replays, edits, faults

endpointVars == <<there, on, given, mailed>>
rowVars == <<row, of, last>>
drainVars == <<wpc, batch, job>>
bounds == <<replays, edits, faults>>
vars == <<endpointVars, licensed, rowVars, fan, edit, drainVars, posts, mails, bounds>>

\* attempts and next_attempt_at are read again only while another attempt is coming.
Settled(to) == [status |-> to, tries |-> 0, due |-> FALSE]
NoRow == Settled("none")
NoJob == [id |-> 0, tries |-> 0, mailDue |-> FALSE]

Init ==
  /\ there = [e \in Endpoints |-> "no"]
  /\ on = [e \in Endpoints |-> FALSE]
  /\ given = [e \in Endpoints |-> FALSE]
  /\ mailed = [e \in Endpoints |-> FALSE]
  /\ licensed \in BOOLEAN
  /\ row = [d \in Rows |-> NoRow]
  /\ of = [d \in Rows |-> CHOOSE e \in Endpoints : TRUE]
  /\ last = 0 /\ fan = {} /\ edit = NoEdit
  /\ wpc = [w \in Drainers |-> "idle"]
  /\ batch = [w \in Drainers |-> {}]
  /\ job = [w \in Drainers |-> NoJob]
  /\ posts = [d \in Rows |-> 0]
  /\ mails = [e \in Endpoints |-> 0]
  /\ replays = 0 /\ edits = 0 /\ faults = 0

Fault == faults < MaxFaults /\ faults' = faults + 1

-----------------------------------------------------------------------------
(* Delivery rows *)

\* The last n of a set of ids; the prune deletes all others of the endpoint.
Newest(S, n) == {d \in S : Cardinality({x \in S : x > d}) < n}
Oldest(S, n) == {d \in S : Cardinality({x \in S : x < d}) < n}

RowsOf(e) == {d \in Rows : row[d] # NoRow /\ of[d] = e}

\* A new row, or one that is replayed, keeps its delivery id and starts over.
Fresh == [status |-> "pending", tries |-> 0, due |-> TRUE]

EnqueueWebhookDelivery(e) ==
  /\ last < MaxRows /\ last' = last + 1
  /\ of' = [of EXCEPT ![last'] = e]
  /\ LET kept == Newest(RowsOf(e) \cup {last'}, Keep) IN
       row' = [d \in Rows |-> IF d = last' THEN Fresh
                              ELSE IF d \in RowsOf(e) \ kept THEN NoRow ELSE row[d]]

\* fire: the active endpoints that want the event, as listed now.
Fire ==
  /\ fan = {}
  /\ \E wanted \in SUBSET Endpoints : fan' = {e \in wanted : there[e] = "yes" /\ on[e]}
  /\ fan' # {} /\ last + Cardinality(fan') <= MaxRows
  /\ UNCHANGED <<endpointVars, licensed, rowVars, edit, drainVars, posts, mails, bounds>>

\* queue: an endpoint deleted since has no rows (foreign key).  That error, or any
\* other of the INSERT, is logged and the event is lost for this endpoint.
Queue(e) ==
  /\ e \in fan
  /\ fan' = fan \ {e}
  /\ \/ there[e] = "yes" /\ EnqueueWebhookDelivery(e) /\ UNCHANGED faults
     \/ there[e] # "yes" /\ UNCHANGED <<rowVars, faults>>
     \/ Fault /\ UNCHANGED rowVars
  /\ UNCHANGED <<endpointVars, licensed, edit, drainVars, posts, mails, replays, edits>>

StartSoon == \E w \in Soon : wpc[w] = "idle" /\ wpc' = [wpc EXCEPT ![w] = "start"]

\* handleTestWebhook: a ping goes to the endpoint whether it is active or not.
TestWebhook(e) ==
  /\ there[e] = "yes"
  /\ EnqueueWebhookDelivery(e)
  /\ StartSoon
  /\ UNCHANGED <<endpointVars, licensed, fan, edit, batch, job, posts, mails, bounds>>

ReplayWebhookDelivery(d) == row' = [row EXCEPT ![d] = Fresh]

\* Through the API with a drain of its own, from the settings page without.
Replay(d) ==
  /\ row[d] # NoRow /\ replays < MaxReplays /\ replays' = replays + 1
  /\ ReplayWebhookDelivery(d)
  /\ StartSoon \/ UNCHANGED wpc
  /\ UNCHANGED <<endpointVars, licensed, of, last, fan, edit, batch, job, posts, mails, edits, faults>>

\* The delay of the ladder is over.
TimerFires(d) ==
  /\ row[d].status = "failed" /\ ~row[d].due
  /\ row' = [row EXCEPT ![d].due = TRUE]
  /\ UNCHANGED <<endpointVars, licensed, of, last, fan, edit, drainVars, posts, mails, bounds>>

-----------------------------------------------------------------------------
(* Drains *)

DueRows == {d \in Rows : row[d].status \in Awaiting /\ row[d].due}

\* Faulty: the newest first.
DueWebhookDeliveries_newest == {[id |-> d, tries |-> row[d].tries] : d \in Newest(DueRows, Batch)}

DueWebhookDeliveries == {[id |-> d, tries |-> row[d].tries] : d \in Oldest(DueRows, Batch)}

Begins(w) == wpc[w] = "start" \/ (w = Loop /\ wpc[w] = "idle")

Drain(w) ==
  /\ Begins(w) /\ licensed /\ DueRows # {}
  /\ batch' = [batch EXCEPT ![w] = DueWebhookDeliveries]
  /\ wpc' = [wpc EXCEPT ![w] = "pick"]
  /\ UNCHANGED <<endpointVars, licensed, rowVars, fan, edit, job, posts, mails, bounds>>

\* No licence, or nothing due.
DrainNothing(w) ==
  /\ wpc[w] = "start" /\ (~licensed \/ DueRows = {})
  /\ wpc' = [wpc EXCEPT ![w] = "idle"]
  /\ UNCHANGED <<endpointVars, licensed, rowVars, fan, edit, batch, job, posts, mails, bounds>>

Head(w) == CHOOSE r \in batch[w] : \A x \in batch[w] : r.id <= x.id
Live(d) == there[of[d]] = "yes" /\ on[of[d]]

\* Where w goes when it is done with a row and rest is left: to the next, or home.
Onward(w, rest) ==
  /\ wpc' = [wpc EXCEPT ![w] = IF rest = {} THEN "idle" ELSE "pick"]
  /\ job' = [job EXCEPT ![w] = NoJob]

\* A paused or deleted endpoint, or one that could not be read: the row stays as it is.
Skip(w) ==
  /\ wpc[w] = "pick"
  /\ \/ ~Live(Head(w).id) /\ UNCHANGED faults
     \/ Fault
  /\ batch' = [batch EXCEPT ![w] = @ \ {Head(w)}]
  /\ Onward(w, batch[w] \ {Head(w)})
  /\ UNCHANGED <<endpointVars, licensed, rowVars, fan, edit, posts, mails, replays, edits>>

Post(w) ==
  /\ wpc[w] = "pick" /\ Live(Head(w).id)
  /\ batch' = [batch EXCEPT ![w] = @ \ {Head(w)}]
  /\ wpc' = [wpc EXCEPT ![w] = "post"]
  /\ job' = [job EXCEPT ![w] = [id |-> Head(w).id, tries |-> Head(w).tries,
                                mailDue |-> ~mailed[of[Head(w).id]]]]
  /\ posts' = [posts EXCEPT ![Head(w).id] = IF @ < Ladder THEN @ + 1 ELSE @]
  /\ UNCHANGED <<endpointVars, licensed, rowVars, fan, edit, mails, bounds>>

\* Written over whatever the row says by now, unless it is gone; a failed save is
\* logged and the copy carries on.
SaveWebhookDelivery(d, r) ==
  \/ row' = [row EXCEPT ![d] = IF @ = NoRow THEN NoRow ELSE r] /\ UNCHANGED faults
  \/ Fault /\ UNCHANGED row

\* Faulty: gives up one attempt early.
Exhausted_early(n) == n + 1 >= Ladder

Exhausted(n) == n >= Ladder

Answered(w, r) ==
  /\ wpc[w] = "post"
  /\ SaveWebhookDelivery(job[w].id, r)
  /\ UNCHANGED <<endpointVars, licensed, of, last, fan, edit, batch, posts, mails, replays, edits>>

Accepted(w) == Answered(w, Settled("ok")) /\ Onward(w, batch[w])
Gone(w) == Answered(w, Settled("dead")) /\ wpc' = [wpc EXCEPT ![w] = "notify"] /\ UNCHANGED job

\* Any other answer, or none in time.
Refused(w) == LET n == job[w].tries + 1 IN
  \/ /\ ~Exhausted(n)
     /\ Answered(w, [status |-> "failed", tries |-> n, due |-> FALSE])
     /\ Onward(w, batch[w])
  \/ /\ Exhausted(n)
     /\ Answered(w, Settled("dead"))
     /\ wpc' = [wpc EXCEPT ![w] = "disable"] /\ UNCHANGED job

\* UPDATE of an endpoint that may be deleted by now.
If(e, f, b) == [f EXCEPT ![e] = IF there[e] = "yes" THEN b ELSE @]

AutoDisableWebhookEndpoint(e) ==
  /\ on' = If(e, on, FALSE)
  /\ given' = If(e, given, TRUE)

Disable(w) ==
  /\ wpc[w] = "disable"
  /\ \/ AutoDisableWebhookEndpoint(of[job[w].id]) /\ UNCHANGED faults
     \/ Fault /\ UNCHANGED <<on, given>>
  /\ wpc' = [wpc EXCEPT ![w] = "notify"]
  /\ UNCHANGED <<there, mailed, licensed, rowVars, fan, edit, batch, job, posts, mails, replays, edits>>

\* Faulty: the mail goes out and the stamp stays old.
MarkWebhookFailureEmail_none(e) == UNCHANGED mailed

MarkWebhookFailureEmail(e) == mailed' = If(e, mailed, TRUE)

\* Whether a mail is due was read with the endpoint, before the POST.  No stamp, no
\* mail; and none is sent while there is no account to send it from.
NotifyFailure(w) ==
  /\ wpc[w] = "notify"
  /\ LET e == of[job[w].id] IN
     \/ /\ job[w].mailDue
        /\ MarkWebhookFailureEmail(e)
        /\ mails' = [mails EXCEPT ![e] = @ + 1]
        /\ UNCHANGED faults
     \/ job[w].mailDue /\ Fault /\ UNCHANGED <<mailed, mails>>
     \/ UNCHANGED <<mailed, mails, faults>>
  /\ Onward(w, batch[w])
  /\ UNCHANGED <<there, on, given, licensed, rowVars, fan, edit, batch, posts, replays, edits>>

-----------------------------------------------------------------------------
(* Endpoints, the licence, the clock, the process *)

CreateWebhook(e) ==
  /\ there[e] = "no"
  /\ there' = [there EXCEPT ![e] = "yes"]
  /\ on' \in {[on EXCEPT ![e] = b] : b \in BOOLEAN}
  /\ UNCHANGED <<given, mailed, licensed, rowVars, fan, edit, drainVars, posts, mails, bounds>>

\* Pause, resume and PATCH read the whole endpoint first ...
EditRead(e, kind) ==
  /\ edit = NoEdit /\ there[e] = "yes"
  /\ edits < MaxEdits /\ edits' = edits + 1
  /\ edit' = [kind |-> kind, ep |-> e, on |-> on[e], given |-> given[e]]
  /\ UNCHANGED <<endpointVars, licensed, rowVars, fan, drainVars, posts, mails, replays, faults>>

\* Faulty: resuming leaves the stamp.
Edited_stamped(c) == [on |-> c.kind # "pause" /\ (c.kind = "resume" \/ c.on), given |-> c.given]

Edited(c) ==
  CASE c.kind = "pause"  -> [on |-> FALSE, given |-> c.given]
    [] c.kind = "resume" -> [on |-> TRUE, given |-> FALSE]
    [] c.kind = "patch"  -> [on |-> c.on, given |-> c.given]

\* ... and write all of it back.
EditWrite ==
  /\ edit # NoEdit /\ edit' = NoEdit
  /\ on' = If(edit.ep, on, Edited(edit).on)
  /\ given' = If(edit.ep, given, Edited(edit).given)
  /\ UNCHANGED <<there, mailed, licensed, rowVars, fan, drainVars, posts, mails, bounds>>

DeleteWebhook(e) ==
  /\ there[e] = "yes"
  /\ there' = [there EXCEPT ![e] = "deleted"]
  /\ row' = [d \in Rows |-> IF of[d] = e THEN NoRow ELSE row[d]]
  /\ on' = [on EXCEPT ![e] = FALSE]
  /\ given' = [given EXCEPT ![e] = FALSE]
  /\ mailed' = [mailed EXCEPT ![e] = FALSE]
  /\ UNCHANGED <<licensed, of, last, fan, edit, drainVars, posts, mails, bounds>>

LicenceTurns ==
  /\ licensed' = ~licensed
  /\ UNCHANGED <<endpointVars, rowVars, fan, edit, drainVars, posts, mails, bounds>>

\* A day has gone by since the failure mail.
DayPasses(e) ==
  /\ mailed[e]
  /\ mailed' = [mailed EXCEPT ![e] = FALSE]
  /\ mails' = [mails EXCEPT ![e] = 0]
  /\ UNCHANGED <<there, on, given, licensed, rowVars, fan, edit, drainVars, posts, bounds>>

Restart ==
  /\ Fault
  /\ fan' = {} /\ edit' = NoEdit
  /\ wpc' = [w \in Drainers |-> "idle"]
  /\ batch' = [w \in Drainers |-> {}]
  /\ job' = [w \in Drainers |-> NoJob]
  /\ UNCHANGED <<endpointVars, licensed, rowVars, posts, mails, replays, edits>>

-----------------------------------------------------------------------------

Step(w) ==
  \/ Drain(w) \/ DrainNothing(w) \/ Skip(w) \/ Post(w)
  \/ Accepted(w) \/ Gone(w) \/ Refused(w) \/ Disable(w) \/ NotifyFailure(w)

User == \E e \in Endpoints :
  \/ TestWebhook(e) \/ CreateWebhook(e) \/ DeleteWebhook(e)
  \/ \E kind \in {"pause", "resume", "patch"} : EditRead(e, kind)

Next ==
  \/ Fire \/ User \/ EditWrite \/ LicenceTurns \/ Restart
  \/ \E e \in Endpoints : Queue(e) \/ DayPasses(e)
  \/ \E d \in Rows : Replay(d) \/ TimerFires(d)
  \/ \E w \in Drainers : Step(w)

Spec == Init /\ [][Next]_vars

\* Every drain goroutine runs; a POST ends within webhookTimeout.
FairSpec == Spec /\ \A w \in Drainers : WF_vars(Step(w))

-----------------------------------------------------------------------------

TypeOK ==
  /\ there \in [Endpoints -> {"no", "yes", "deleted"}]
  /\ on \in [Endpoints -> BOOLEAN] /\ given \in [Endpoints -> BOOLEAN]
  /\ mailed \in [Endpoints -> BOOLEAN] /\ licensed \in BOOLEAN
  /\ row \in [Rows -> [status : Awaiting \cup {"none", "ok", "dead"}, tries : 0..Ladder, due : BOOLEAN]]
  /\ of \in [Rows -> Endpoints]
  /\ last \in 0..MaxRows /\ fan \in SUBSET Endpoints
  /\ edit \in {NoEdit} \cup [kind : {"pause", "resume", "patch"}, ep : Endpoints, on : BOOLEAN, given : BOOLEAN]
  /\ wpc \in [Drainers -> {"idle", "start", "pick", "post", "disable", "notify"}]
  /\ batch \in [Drainers -> SUBSET [id : Rows, tries : 0..Ladder]]
  /\ job \in [Drainers -> [id : Rows \cup {0}, tries : 0..Ladder, mailDue : BOOLEAN]]
  /\ posts \in [Rows -> 0..Ladder] /\ mails \in [Endpoints -> Nat]
  /\ replays \in 0..MaxReplays /\ edits \in 0..MaxEdits /\ faults \in 0..MaxFaults

\* An endpoint the engine gave up on is off: no stale pause, PATCH or resume leaves it
\* firing with the "auto-disabled" stamp on.
GivenUpIsOff == \A e \in Endpoints : given[e] => ~on[e]

\* Overlapping drains and replays overwrite each other's attempts column, yet no
\* endpoint is switched off before its receiver was asked once for every rung of the
\* ladder about one and the same delivery.
LadderIsClimbed == \A w \in Drainers : wpc[w] = "disable" => posts[job[w].id] >= Ladder

\* "At most one per endpoint per day" (FailureEmailDue, notifyFailure): false of the
\* code, as the endpoint was read before the POST and the stamp is written after it.
OneMailADay == \A e \in Endpoints : mails[e] <= 1

\* What holds instead: drains that overlap may each find the endpoint unstamped, so a
\* day has at most one failure mail for each drain that can run at a time.
OneMailPerDrain == \A e \in Endpoints : mails[e] <= Cardinality(Drainers)

IsDue(d) == d \in DueRows /\ Live(d)

\* Older due rows of endpoints that are off fill every batch.
Blocked(d) == Cardinality({x \in DueRows : x < d /\ ~Live(x)}) >= Batch

\* A due delivery of an active endpoint is attempted, unless a backlog of paused
\* endpoints as large as a batch lies before it.
DueIsAttempted == \A d \in Rows : IsDue(d) ~> (~IsDue(d) \/ ~licensed \/ Blocked(d))

\* A fresh delivery is drained when it is queued, whatever other endpoints do.
FreshIsSent == \A d \in Rows : IsDue(d) ~> (~IsDue(d) \/ ~licensed)

=============================================================================
