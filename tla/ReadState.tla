----------------------------- MODULE ReadState -----------------------------
(***************************************************************************)
(* Read and unread in the browser (web/static/js/app.js).  A press changes  *)
(* the row at once and is written to the server by a POST that waits for    *)
(* the earlier POSTs of its row; until the server has answered, and until   *)
(* a list asked for after that has arrived, the choice is kept as an        *)
(* override over whatever the server renders.  Meanwhile lists that were    *)
(* rendered earlier arrive, the event stream repeats what this or another   *)
(* tab wrote, and a POST may be refused or lose its answer.                 *)
(*                                                                          *)
(* Mails are the members of one conversation, shown as one list row whose   *)
(* id names its newest message, so it changes when mail joins.  The counter *)
(* readRevision is kept as what it is compared for: whether it moved since  *)
(* a list request left.  A list lost because another one replaced its       *)
(* element never arrives (module MessageList has that half).                *)
(***************************************************************************)
EXTENDS Naturals, Sequences, FiniteSets, SequencesExt

CONSTANTS
  Mails,       \* members of the conversation
  MaxPresses,  \* bound: choices made in this tab
  MaxEvents,   \* bound: refreshes, folder clicks, joining mail, other tabs' writes, failing POSTs
  MaxWire      \* bound: events on the stream

ASSUME MailsAssumption == Mails # {} /\ IsFiniteSet(Mails)
ASSUME BoundsAssumption == MaxPresses \in Nat /\ MaxEvents \in Nat /\ MaxWire \in Nat

VARIABLES
  stored,    \* stored[m]: is_read in the database
  joined,    \* messages that joined the conversation
  pushes,    \* pushes[m]: background SetRead calls whose event is still to come
  here,      \* the list on screen shows the conversation
  shown,     \* shown[m]: what the row says of m, TRUE is read
  row,       \* id of the conversation's row on screen
  chain,     \* chain[m]: its entry in readChanges and the entries before it that
             \* its failure may bring back, newest last; <<>> when there is none
  queueKey,  \* queueKey[m]: its entry in readQueueKeys, m when there is none
  posts,     \* POSTs not finished yet, in the order they were made
  undo,      \* messages the Undo of the newest toast marks unread, {} without one
  bg,        \* the background list request in flight
  nav,       \* the list request of a folder click in flight
  wire,      \* read-state events on the stream
  left,      \* what is left of the bounds
  wish,      \* history: wish[m] holds the choice of this tab the server owes
  unseen,    \* history: mails whose row may be behind until it agrees again (see AtRestShowsStored)
  crossed    \* history: mails that had POSTs under two row ids at once

server  == <<stored, joined, pushes, wire>>
screen  == <<here, shown, row>>
intent  == <<chain, queueKey, posts, undo>>
history == <<wish, unseen, crossed>>
vars    == <<server, screen, intent, bg, nav, left, history>>

NoRequest == [at |-> "none", moved |-> FALSE, settled |-> {}, to |-> TRUE,
              read |-> [m \in Mails |-> FALSE], row |-> 0]

Init ==
  /\ stored \in [Mails -> BOOLEAN]
  /\ joined = 0
  /\ pushes = [m \in Mails |-> 0]
  /\ here = TRUE /\ shown = stored /\ row = 0
  /\ chain = [m \in Mails |-> <<>>]
  /\ queueKey = [m \in Mails |-> m]
  /\ posts = <<>>
  /\ undo = {}
  /\ bg = NoRequest /\ nav = NoRequest
  /\ wire = <<>>
  /\ left = [press |-> MaxPresses, event |-> MaxEvents]
  /\ wish = [m \in Mails |-> {}]
  /\ unseen = {}
  /\ crossed = {}

Spend(what) == left[what] > 0 /\ left' = [left EXCEPT ![what] = @ - 1]

Overrides(m) == chain[m] # <<>>
Change(m)    == Last(chain[m])
Pending(m)   == Overrides(m) /\ Change(m).pending

\* Faulty: an answer asked for before the change still retires overrides.
Moved_never(r) == r

\* readRevision++, as the requests in flight will see it.
Moved(r) == [r EXCEPT !.moved = @ \/ r.at # "none"]

\* A list request remembers the overrides that are settled when it leaves.
Ask(to, c) == [NoRequest EXCEPT !.at = "sent", !.to = to,
                 !.settled = {m \in Mails : c[m] # <<>> /\ ~Last(c[m]).pending}]

\* The refresh event: the list element asks again, one request at a time.
Refreshed(r, c) == IF r.at = "none" THEN Ask(here, c) ELSE r

\* applyReadState on the rows there are.
Applied(ms, read) == [m \in Mails |-> IF here /\ m \in ms THEN read ELSE shown[m]]

-----------------------------------------------------------------------------
(* markRead *)

\* A POST waits for those of the same key: the row's id while there is a row.
KeyOf(m) == IF here THEN row ELSE queueKey[m]

WasRead(m) == IF Overrides(m) THEN Change(m).read ELSE IF here THEN shown[m] ELSE TRUE

\* The change object of press n: it remembers what it replaced.
NewChange(n, m, read) == [n |-> n, read |-> read, pending |-> TRUE, failed |-> FALSE, was |-> WasRead(m)]

\* The waiting POSTs of m under another key than the one it takes now.
Crosses(m, key) == \E i \in DOMAIN posts : m \in posts[i].ids /\ posts[i].key # key

\* One choice about the messages ms, persisted by one POST.
MarkRead(ms, key, read) ==
  /\ chain' = [m \in Mails |->
       IF m \in ms THEN Append(chain[m], NewChange(left.press, m, read)) ELSE chain[m]]
  /\ shown' = Applied(ms, read)
  /\ queueKey' = [m \in Mails |-> IF m \in ms THEN key ELSE queueKey[m]]
  /\ posts' = Append(posts, [n |-> left.press, ids |-> ms, read |-> read, key |-> key, at |-> "waits"])
  /\ bg' = Moved(bg) /\ nav' = Moved(nav)
  /\ wish' = [m \in Mails |-> IF m \in ms THEN {read} ELSE wish[m]]
  /\ crossed' = crossed \cup {m \in ms : Crosses(m, key)}

\* data-unread: a sub-row carries one message, the row the whole conversation.
RowUnread(ms) == \E m \in ms : ~shown[m]

\* The u key, a double click or the menu on one message, or on the whole row.
\* The list is under the Unread filter, where a choice of read offers Undo; a
\* toast that expires is one that is never pressed.
Press(ms) ==
  LET read == RowUnread(ms) IN
  /\ here
  /\ Spend("press")
  /\ MarkRead(ms, row, read)
  /\ undo' = IF read THEN {m \in ms : ~WasRead(m)} ELSE undo
  /\ UNCHANGED <<server, here, row, unseen>>

PressOne   == \E m \in Mails : Press({m})
PressWhole == Cardinality(Mails) > 1 /\ Press(Mails)

\* Undo marks the messages unread again one by one; the last press of the toast
\* is modelled message by message because the calls follow each other in one task.
Undo == \E m \in undo :
  /\ Spend("press")
  /\ MarkRead({m}, KeyOf(m), FALSE)
  /\ undo' = undo \ {m}
  /\ unseen' = IF here \/ Overrides(m) THEN unseen ELSE unseen \cup {m}
  /\ UNCHANGED <<server, here, row>>

-----------------------------------------------------------------------------
(* The POST, on the wire and at the server *)

\* Faulty: every POST leaves at once.
First_any(i) == posts[i].at = "waits"

\* A POST leaves when no earlier one of its key is unfinished.
First(i) == \A j \in 1..(i - 1) : posts[j].key # posts[i].key

\* handleMarkRead: the rows are written, the IMAP half runs in the background.
PostStored(i) ==
  /\ posts[i].at = "waits" /\ First(i)
  /\ stored' = [m \in Mails |-> IF m \in posts[i].ids THEN posts[i].read ELSE stored[m]]
  /\ pushes' = [m \in Mails |-> IF m \in posts[i].ids THEN pushes[m] + 1 ELSE pushes[m]]
  /\ posts' = [posts EXCEPT ![i].at = "stored"]
  /\ UNCHANGED <<joined, wire, screen, chain, queueKey, undo, bg, nav, left, history>>

\* Where the change of press n stands in a chain, 0 when it was replaced.
At(c, n) == SelectInSeq(c, LAMBDA d : d.n = n)

\* A settled change: nothing can bring back what was before it any more.
Settled(c, n) == IF At(c, n) = 0 THEN c ELSE [SubSeq(c, At(c, n), Len(c)) EXCEPT ![1].pending = FALSE]

\* The answer was good.  A row that is not on screen is fetched when it was
\* marked unread.
PostAnswered(i) ==
  LET p == posts[i] IN
  /\ p.at = "stored"
  /\ chain' = [m \in Mails |-> IF m \in p.ids THEN Settled(chain[m], p.n) ELSE chain[m]]
  /\ posts' = RemoveAt(posts, i)
  /\ bg' = IF ~p.read /\ ~here THEN Refreshed(Moved(bg), chain') ELSE Moved(bg)
  /\ nav' = Moved(nav)
  /\ UNCHANGED <<server, screen, queueKey, undo, left, history>>

\* readChanges after press n failed: an older change is only marked, the newest
\* is taken back together with those below it that have failed before.
Failed(c, n) ==
  IF At(c, n) = 0 THEN c ELSE [c EXCEPT ![At(c, n)].failed = TRUE, ![At(c, n)].pending = FALSE]
Kept(c) == CHOOSE k \in 0..Len(c) : (k = 0 \/ ~c[k].failed) /\ \A i \in (k + 1)..Len(c) : c[i].failed
Newest(c, n) == c # <<>> /\ Last(c).n = n

\* The POST was refused, or its answer got lost after the server had obeyed.
\* The row shows the change below, or what it showed before the failed ones.
PostFails(i) ==
  LET p    == posts[i]
      back == {m \in p.ids : Newest(chain[m], p.n)}
      done == [m \in Mails |-> IF m \in p.ids THEN Failed(chain[m], p.n) ELSE chain[m]]
  IN
  /\ p.at = "waits" => First(i)
  /\ Spend("event")
  /\ chain' = [m \in Mails |-> IF m \in back THEN SubSeq(done[m], 1, Kept(done[m])) ELSE done[m]]
  /\ shown' = [m \in Mails |->
       IF here /\ m \in back
         THEN IF Kept(done[m]) = 0 THEN done[m][1].was ELSE done[m][Kept(done[m])].read
         ELSE shown[m]]
  /\ posts' = RemoveAt(posts, i)
  /\ bg' = Moved(bg) /\ nav' = Moved(nav)
  /\ wish' = [m \in Mails |-> IF m \in back THEN {} ELSE wish[m]]
  /\ unseen' = IF p.at = "stored" THEN unseen \cup p.ids ELSE unseen
  /\ UNCHANGED <<server, here, row, queueKey, undo, crossed>>

-----------------------------------------------------------------------------
(* The event stream *)

\* Another tab marks m.  It overrules a choice of this tab the server already has.
OtherWrites(m) ==
  /\ Spend("event")
  /\ stored' = [stored EXCEPT ![m] = ~@]
  /\ pushes' = [pushes EXCEPT ![m] = @ + 1]
  /\ wish' = [wish EXCEPT ![m] = IF \E i \in DOMAIN posts : m \in posts[i].ids /\ posts[i].at = "waits"
                                 THEN @ ELSE {}]
  /\ unseen' = unseen \cup {m}
  /\ UNCHANGED <<joined, wire, screen, intent, bg, nav, crossed>>

\* The row, what a refused POST would put back, or an event or a list on its way
\* may say something else than the database.
Behind(m) ==
  \/ \E r \in {bg, nav} : r.at = "rendered" /\ r.read[m] # stored[m]
  \/ ~here \/ shown[m] # stored[m] \/ Pending(m)
  \/ \E i \in DOMAIN wire : wire[i] = [m |-> m, read |-> ~stored[m]]

\* setRead after the IMAP command: the event carries the flag as it is now.
\* A command that fails announces nothing, not even over an older event that
\* was shown or is on its way.
PushDone(m) ==
  /\ pushes[m] > 0
  /\ pushes' = [pushes EXCEPT ![m] = @ - 1]
  /\ \/ /\ Len(wire) < MaxWire
        /\ wire' = Append(wire, [m |-> m, read |-> stored[m]])
        /\ UNCHANGED unseen
     \/ /\ unseen' = IF Behind(m) THEN unseen \cup {m} ELSE unseen
        /\ UNCHANGED wire
  /\ UNCHANGED <<stored, joined, screen, intent, bg, nav, left, wish, crossed>>

\* read-state: a choice whose POST is pending stands, anything else is replaced.
EventArrives ==
  LET e == Head(wire)
      override == [n |-> 0, read |-> e.read, pending |-> FALSE, failed |-> FALSE, was |-> e.read]
  IN
  /\ wire # <<>>
  /\ wire' = Tail(wire)
  /\ IF Pending(e.m)
       THEN UNCHANGED <<chain, shown, bg, nav>>
       ELSE /\ chain' = [chain EXCEPT ![e.m] = <<override>>]
            /\ shown' = Applied({e.m}, e.read)
            /\ bg' = IF ~e.read /\ ~here THEN Refreshed(Moved(bg), chain') ELSE Moved(bg)
            /\ nav' = Moved(nav)
  /\ UNCHANGED <<stored, joined, pushes, here, row, queueKey, posts, undo, left, wish, crossed>>
  /\ unseen' = IF Pending(e.m) THEN unseen \cup {e.m} ELSE {m \in unseen : Behind(m)'}

-----------------------------------------------------------------------------
(* Lists *)

\* New mail, a finished sync, a reconnect, a tab shown again.
Refresh ==
  /\ bg.at = "none"
  /\ Spend("event")
  /\ bg' = Ask(here, chain)
  /\ UNCHANGED <<server, screen, intent, nav, history>>

Navigate(to) ==
  /\ nav.at = "none"
  /\ Spend("event")
  /\ nav' = Ask(to, chain)
  /\ UNCHANGED <<server, screen, intent, bg, history>>

\* A message joins the conversation: the next list names the row after it.
Join ==
  /\ Spend("event")
  /\ joined' = joined + 1
  /\ UNCHANGED <<stored, pushes, wire, screen, intent, bg, nav, history>>

Rendered(r) == [r EXCEPT !.at = "rendered", !.read = stored, !.row = joined]

RenderBg  == bg.at = "sent" /\ bg' = Rendered(bg) /\ UNCHANGED <<server, screen, intent, nav, left, history>>
RenderNav == nav.at = "sent" /\ nav' = Rendered(nav) /\ UNCHANGED <<server, screen, intent, bg, left, history>>

\* Faulty: the overrides that stay are not applied over the new rows.
Swap_bare(r) ==
  LET retired == IF r.moved THEN {} ELSE r.settled IN
  /\ chain' = [m \in Mails |-> IF m \in retired THEN <<>> ELSE chain[m]]
  /\ here' = r.to
  /\ row' = IF r.to THEN r.row ELSE row
  /\ shown' = IF r.to THEN r.read ELSE shown
  /\ bg' = NoRequest /\ nav' = NoRequest
  /\ UNCHANGED <<server, queueKey, posts, undo, left, wish, crossed>>
  /\ unseen' = {m \in unseen : Behind(m)'}

\* The rows of a response: the overrides it retires go, those that stay are
\* applied over it.  The element both requests belonged to is gone.
Swap(r) ==
  LET retired == IF r.moved THEN {} ELSE r.settled IN
  /\ chain' = [m \in Mails |-> IF m \in retired THEN <<>> ELSE chain[m]]
  /\ here' = r.to
  /\ row' = IF r.to THEN r.row ELSE row
  /\ shown' = [m \in Mails |->
       IF ~r.to THEN shown[m] ELSE IF chain'[m] # <<>> THEN Change(m).read ELSE r.read[m]]
  /\ bg' = NoRequest /\ nav' = NoRequest
  /\ UNCHANGED <<server, queueKey, posts, undo, left, wish, crossed>>
  /\ unseen' = {m \in unseen : Behind(m)'}

\* A background list older than a choice is thrown away.
BgArrives ==
  /\ bg.at = "rendered"
  /\ IF bg.moved
       THEN bg' = NoRequest /\ UNCHANGED <<server, screen, intent, nav, left, history>>
       ELSE Swap(bg)

\* Navigation is shown in any case.
NavArrives == nav.at = "rendered" /\ Swap(nav)

Next ==
  \/ PressOne \/ PressWhole \/ Undo
  \/ \E i \in DOMAIN posts : PostStored(i) \/ PostAnswered(i) \/ PostFails(i)
  \/ \E m \in Mails : OtherWrites(m) \/ PushDone(m)
  \/ EventArrives \/ Refresh \/ Join
  \/ \E to \in BOOLEAN : Navigate(to)
  \/ RenderBg \/ RenderNav \/ BgArrives \/ NavArrives

Spec == Init /\ [][Next]_vars

-----------------------------------------------------------------------------
ChangeType == [n : Nat, read : BOOLEAN, pending : BOOLEAN, failed : BOOLEAN, was : BOOLEAN]
RequestType == [at : {"none", "sent", "rendered"}, moved : BOOLEAN, settled : SUBSET Mails,
                to : BOOLEAN, read : [Mails -> BOOLEAN], row : Nat]

\* The types of the variables, and that a pending override belongs to a POST
\* that is under way.
TypeOK ==
  /\ stored \in [Mails -> BOOLEAN] /\ joined \in Nat /\ pushes \in [Mails -> Nat]
  /\ here \in BOOLEAN /\ shown \in [Mails -> BOOLEAN] /\ row \in Nat
  /\ chain \in [Mails -> Seq(ChangeType)]
  /\ \A m \in Mails : Pending(m) => \E i \in DOMAIN posts : m \in posts[i].ids /\ posts[i].n = Change(m).n
  /\ bg \in RequestType /\ nav \in RequestType
  /\ undo \subseteq Mails /\ unseen \subseteq Mails /\ crossed \subseteq Mails

\* Whatever list or event arrives, a row shows the override of its message:
\* no response generated earlier takes a choice off the screen (app.js, the
\* comment on readChanges).
OverridesAreShown == here => \A m \in Mails : Overrides(m) => shown[m] = Change(m).read

\* A choice made last is the one the server ends up with, however many were
\* made before it and whichever of those failed, unless another tab overruled
\* it or the row changed its id under a waiting POST.
LastPressWins == \A m \in Mails \ crossed :
  (\A i \in DOMAIN posts : m \notin posts[i].ids) => wish[m] \subseteq {stored[m]}

\* The same without the exception: "Undo updates immediately but persists
\* after the original write" (app_triage_test.mjs). The code breaks this one
\* (README, Divergences kept as definitions).
UndoPersistsLast == \A m \in Mails :
  (\A i \in DOMAIN posts : m \notin posts[i].ids) => wish[m] \subseteq {stored[m]}

Quiet(m) ==
  /\ \A i \in DOMAIN posts : m \notin posts[i].ids
  /\ pushes[m] = 0
  /\ \A i \in DOMAIN wire : wire[i].m # m

\* With nothing under way the row tells what the database holds.  Only another
\* tab's write that never announced itself, an event ignored under a pending
\* choice or overtaken by a write that announced nothing, a POST obeyed
\* without an answer, or an Undo made with the row off the screen, whose
\* failure would put back a guess (markRead has no row to ask and takes the
\* message for read), leaves it behind, and only until the row agrees again.
AtRestShowsStored == here => \A m \in Mails \ (unseen \cup crossed) : Quiet(m) => shown[m] = stored[m]

=============================================================================
