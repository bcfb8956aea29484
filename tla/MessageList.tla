---------------------------- MODULE MessageList ----------------------------
(***************************************************************************)
(* The message list of the browser and the "Syncing..." spinner over it     *)
(* (web/static/js/app.js, the event stream of internal/server/server.go).   *)
(* A list is known by how much mail the database held when it was rendered. *)
(* htmx keeps one background request of the list element in flight and one  *)
(* waiting; an answer replaces the element, and with it goes whatever was   *)
(* waiting for it or still on its way to it.                                *)
(***************************************************************************)
EXTENDS Naturals, Sequences

CONSTANTS
  MaxMail,    \* bound: times mail is stored
  MaxPasses,  \* bound: syncs that start
  MaxLoss,    \* bound: streams that break and list requests that fail
  MaxAsk,     \* bound: folder clicks, tabs shown again, marks of a message
  Backlog     \* lossyBuffer: events the hub keeps for one browser

ListAssumption ==
  /\ MaxMail \in Nat /\ MaxPasses \in Nat /\ MaxLoss \in Nat /\ MaxAsk \in Nat
  /\ Backlog \in Nat \ {0}

VARIABLES
  mail,      \* how much mail the database holds
  syncing,   \* AnySyncing
  news,      \* mail was stored that no new-mail event followed yet
  stream,    \* [up, closed, told]: the event stream, whether EventSource has given
             \* it up (readyState CLOSED), and the status it wrote last
  events,    \* the events the hub holds for it
  list,      \* the mail the list on screen was rendered with
  spin,      \* the body carries mimux-syncing
  told,      \* mimuxSyncing
  await,     \* smAwaitList
  fetch,     \* the list element's own request: [at, mail, moved]
  again,     \* a refresh waits for it
  click,     \* a folder click's request
  limits,    \* what is left of the bounds
  owed,      \* history: the mail there was when the browser was told the sync is over
  broken     \* history: the last list request failed

serverVars  == <<mail, syncing, news>>
streamVars  == <<stream, events>>
spinnerVars == <<spin, told, await, owed>>
listVars    == <<serverVars, streamVars, list, spinnerVars, fetch, again, click, limits, broken>>

Nothing == [at |-> "none", mail |-> 0, moved |-> FALSE]
Asked   == [Nothing EXCEPT !.at = "sent"]

Init ==
  /\ mail = 0 /\ news = FALSE
  /\ syncing \in BOOLEAN
  /\ stream = [up |-> TRUE, closed |-> FALSE, told |-> syncing] /\ events = <<>>
  /\ list = 0
  /\ spin = syncing /\ told = syncing /\ await = FALSE
  /\ fetch = Nothing /\ again = FALSE /\ click = Nothing
  /\ limits = [mail |-> MaxMail, pass |-> MaxPasses, loss |-> MaxLoss, ask |-> MaxAsk]
  /\ owed = 0
  /\ broken = FALSE

Use(what) == limits[what] > 0 /\ limits' = [limits EXCEPT ![what] = @ - 1]

-----------------------------------------------------------------------------
(* The server *)

\* Faulty: a full backlog keeps growing.
Broadcast_unbounded(e) ==
  events' = IF ~stream.up THEN events ELSE Append(events, e)

\* The hub hands an event to the stream; a full backlog loses its oldest.
Broadcast(e) ==
  events' = IF ~stream.up THEN events
            ELSE Append(IF Len(events) < Backlog THEN events ELSE Tail(events), e)

\* An account starts its pass.
SyncStarts ==
  /\ Use("pass")
  /\ syncing' = TRUE
  /\ Broadcast("sync-status")
  /\ UNCHANGED <<mail, news, stream, list, spinnerVars, fetch, again, click, broken>>

Store ==
  /\ syncing /\ Use("mail")
  /\ mail' = mail + 1 /\ news' = TRUE
  /\ UNCHANGED <<syncing, streamVars, list, spinnerVars, fetch, again, click, broken>>

\* signalListChanged: at the end of one account's pass, or of a folder's.
Announce ==
  /\ news
  /\ news' = FALSE
  /\ Broadcast("new-mail")
  /\ UNCHANGED <<mail, syncing, stream, list, spinnerVars, fetch, again, click, limits, broken>>

\* The last account is done; each announced its mail before its status.
SyncEnds ==
  /\ syncing /\ ~news
  /\ syncing' = FALSE
  /\ Broadcast("sync-status")
  /\ UNCHANGED <<mail, news, stream, list, spinnerVars, fetch, again, click, limits, broken>>

\* What else refreshes lists: a message sent in the background, a move undone.
OtherEvent ==
  /\ Use("ask") /\ Broadcast("new-mail")
  /\ UNCHANGED <<serverVars, stream, list, spinnerVars, fetch, again, click, broken>>

-----------------------------------------------------------------------------
(* The browser *)

\* mimux:refresh: the list element asks, or the ask waits for its request.
Refresh ==
  IF fetch.at = "none" THEN fetch' = Asked /\ UNCHANGED again
                       ELSE again' = TRUE /\ UNCHANGED fetch

\* setSyncing: a sync that is over leaves the spinner until a list has come.
SetSyncing(on) ==
  IF on THEN /\ told' = TRUE /\ await' = FALSE /\ spin' = TRUE
             /\ UNCHANGED <<fetch, again, owed>>
  ELSE IF ~told THEN UNCHANGED <<spinnerVars, fetch, again>>
  ELSE /\ told' = FALSE /\ await' = TRUE /\ owed' = mail
       /\ Refresh
       /\ UNCHANGED spin

\* handleEvents writes the status as it is when it writes.
Receive ==
  /\ stream.up /\ events # <<>>
  /\ events' = Tail(events)
  /\ IF Head(events) = "sync-status"
       THEN stream' = [stream EXCEPT !.told = syncing] /\ SetSyncing(syncing)
       ELSE Refresh /\ UNCHANGED <<stream, spinnerVars>>
  /\ UNCHANGED <<serverVars, list, click, limits, broken>>

\* Faulty: the keepalive is only ever a ping.
KeepAlive_ping == stream.up /\ UNCHANGED listVars

\* The ticker restates a status that has drifted from what was written.
KeepAlive ==
  /\ stream.up /\ events = <<>> /\ stream.told # syncing
  /\ stream' = [stream EXCEPT !.told = syncing]
  /\ SetSyncing(syncing)
  /\ UNCHANGED <<serverVars, events, list, click, limits, broken>>

\* The connection drops, and EventSource tries again; or it gives up, when what
\* answers its retry is not a stream (a login page, an error).
StreamBreaks ==
  /\ stream.up /\ Use("loss")
  /\ \E given \in BOOLEAN : stream' = [stream EXCEPT !.up = FALSE, !.closed = given]
  /\ events' = <<>>
  /\ UNCHANGED <<serverVars, list, spinnerVars, fetch, again, click, broken>>

\* The browser's retry, or the connection connect has begun, is answered: the open
\* listener refreshes, then the status the stream begins with is obeyed as in
\* SetSyncing.  A closed stream "will never retry on its own".
Reconnect ==
  /\ ~stream.up /\ ~stream.closed
  /\ stream' = [up |-> TRUE, closed |-> FALSE, told |-> syncing]
  /\ told' = syncing
  /\ spin' = (spin \/ syncing)
  /\ await' = (~syncing /\ (await \/ told))
  /\ owed' = IF told /\ ~syncing THEN mail ELSE owed
  /\ fetch' = IF fetch.at = "none" THEN Asked ELSE fetch
  /\ again' = (again \/ fetch.at # "none" \/ (told /\ ~syncing))
  /\ UNCHANGED <<serverVars, events, list, click, limits, broken>>

\* visibilitychange, an undo or a pull: a refresh nobody announced.  The first of
\* them also connects anew when the stream is closed.
Shown ==
  /\ Use("ask") /\ Refresh
  /\ stream' \in {stream, [stream EXCEPT !.closed = FALSE]}
  /\ UNCHANGED <<serverVars, events, list, spinnerVars, click, broken>>

FolderClick ==
  /\ click.at = "none" /\ Use("ask")
  /\ click' = Asked
  /\ UNCHANGED <<serverVars, streamVars, list, spinnerVars, fetch, again, broken>>

\* A choice of read or unread makes the lists under way obsolete.
Mark ==
  /\ fetch.at # "none" /\ ~fetch.moved /\ Use("ask")
  /\ fetch' = [fetch EXCEPT !.moved = TRUE]
  /\ UNCHANGED <<serverVars, streamVars, list, spinnerVars, again, click, broken>>

RenderFetch ==
  /\ fetch.at = "sent"
  /\ fetch' = [fetch EXCEPT !.at = "rendered", !.mail = mail]
  /\ UNCHANGED <<serverVars, streamVars, list, spinnerVars, again, click, limits, broken>>

RenderClick ==
  /\ click.at = "sent"
  /\ click' = [click EXCEPT !.at = "rendered", !.mail = mail]
  /\ UNCHANGED <<serverVars, streamVars, list, spinnerVars, fetch, again, limits, broken>>

\* Faulty: the replaced element's other request is shown when it arrives.
Swap_both(r) ==
  /\ list' = r.mail /\ broken' = FALSE
  /\ spin' = (spin /\ ~await) /\ await' = FALSE
  /\ fetch' = IF r = fetch THEN Nothing ELSE fetch
  /\ click' = IF r = click THEN Nothing ELSE click
  /\ again' = FALSE
  /\ UNCHANGED <<serverVars, streamVars, told, owed, limits>>

\* An answer takes the list's place: any list settles the spinner's debt, and
\* what was under way to the old element is lost with it.
Swap(r) ==
  /\ list' = r.mail /\ broken' = FALSE
  /\ spin' = (spin /\ ~await) /\ await' = FALSE
  /\ fetch' = Nothing /\ click' = Nothing /\ again' = FALSE
  /\ UNCHANGED <<serverVars, streamVars, told, owed, limits>>

\* The element stays: the refresh that waited is sent.
SendWaiting == fetch' = (IF again THEN Asked ELSE Nothing) /\ again' = FALSE

\* Faulty: a list thrown away leaves the debt to the next list.
Discard_owing == UNCHANGED <<spin, await>>

\* A list thrown away settles the debt too, unless a sync is running.
Discard == IF told THEN UNCHANGED <<spin, await>> ELSE spin' = FALSE /\ await' = FALSE

FetchArrives ==
  /\ fetch.at = "rendered"
  /\ IF ~fetch.moved THEN Swap(fetch)
     ELSE /\ Discard /\ SendWaiting
          /\ UNCHANGED <<serverVars, streamVars, list, told, owed, click, limits, broken>>

ClickArrives == click.at = "rendered" /\ Swap(click)

\* An error page or no answer at all: an error status still passes beforeSwap.
FetchFails ==
  /\ fetch.at # "none" /\ Use("loss")
  /\ \/ fetch.moved /\ Discard
     \/ UNCHANGED <<spin, await>>
  /\ SendWaiting
  /\ broken' = TRUE
  /\ UNCHANGED <<serverVars, streamVars, list, told, owed, click>>

ClickFails ==
  /\ click.at # "none" /\ Use("loss")
  /\ click' = Nothing
  /\ UNCHANGED <<serverVars, streamVars, list, spinnerVars, fetch, again, broken>>

Next ==
  \/ SyncStarts \/ Store \/ Announce \/ SyncEnds \/ OtherEvent
  \/ Receive \/ KeepAlive \/ StreamBreaks \/ Reconnect
  \/ Shown \/ FolderClick \/ Mark
  \/ RenderFetch \/ RenderClick \/ FetchArrives \/ ClickArrives \/ FetchFails \/ ClickFails

\* The server ends its passes and writes its events, a browser that is reconnecting
\* succeeds and gets an answer to every request.  Nobody has to show the tab again.
Fairness ==
  /\ WF_listVars(Announce) /\ WF_listVars(SyncEnds)
  /\ WF_listVars(Receive) /\ WF_listVars(KeepAlive) /\ WF_listVars(Reconnect)
  /\ WF_listVars(RenderFetch) /\ WF_listVars(FetchArrives)
  /\ WF_listVars(RenderClick) /\ WF_listVars(ClickArrives)

Spec == Init /\ [][Next]_listVars /\ Fairness

-----------------------------------------------------------------------------
RequestType == [at : {"none", "sent", "rendered"}, mail : Nat, moved : BOOLEAN]

TypeOK ==
  /\ mail \in Nat /\ syncing \in BOOLEAN /\ news \in BOOLEAN
  /\ stream \in [up : BOOLEAN, closed : BOOLEAN, told : BOOLEAN]
  /\ events \in Seq({"sync-status", "new-mail"}) /\ Len(events) <= Backlog
  /\ list \in Nat /\ owed \in Nat
  /\ {spin, told, await, again, broken} \subseteq BOOLEAN
  /\ fetch \in RequestType /\ click \in RequestType

\* However the answers of the list's own refreshes and of folder clicks arrive,
\* the list on screen is never replaced by one that was rendered before it.
ListNeverGoesBack == [][list' >= list]_listVars

\* The spinner is on exactly while the browser believes in a sync or waits for a
\* list, and it waits only while a list is under way or the last one failed.
SpinnerHasAReason ==
  /\ spin <=> (told \/ await)
  /\ await => (fetch.at # "none" \/ broken)
  /\ told => ~await

\* Whatever the stream loses, the browser learns in the end whether a sync runs,
\* unless EventSource has given up and nobody shows the tab again.
StatusArrives == <>[](told = syncing \/ stream.closed)

\* The list is refreshed before the spinner goes, "so it never vanishes ahead of
\* the mail it was promising" (app.js, above mimuxSyncing). The code breaks this one
\* (README, Divergences kept as definitions).
SpinnerKeepsItsPromise == ~spin => list >= owed

=============================================================================
