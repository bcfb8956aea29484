----------------------------- MODULE ReadingPane -----------------------------
(***************************************************************************)
(* The reading pane and the browser's history (web/static/js/app.js over    *)
(* htmx). Opening a message puts a skeleton in the pane and sends a         *)
(* request; several may be in flight and answer in any order. An answer     *)
(* saves a copy of the page as it stands under the address it leaves, then  *)
(* pushes the message's address; Back and Forward put such a copy in the    *)
(* place of the whole body, so that the answers still under way find their  *)
(* pane gone. The list's address is 0, a message's is its number.           *)
(***************************************************************************)
EXTENDS Naturals, Sequences

CONSTANTS
  Messages,     \* the messages that can be opened: numbers above 0
  MaxOpens,     \* bound: requests for the pane
  MaxTurns      \* bound: Back, Forward, closing and reloading

PaneAssumption ==
  Messages \subseteq Nat \ {0} /\ MaxOpens \in Nat /\ MaxTurns \in Nat

VARIABLES
  pane,      \* [shows, of, hint]: what is in it, and the request that brought it
  opens,     \* requests, in the order they were sent: [msg, at, live, push, timer]
  entries,   \* the session history
  pos,       \* the entry the address bar shows
  hpath,     \* the address htmx believes the page to be at
  cache,     \* htmx's copies of the pane, by address
  turns      \* what is left of MaxTurns

paneVars == <<pane, opens, entries, pos, hpath, cache, turns>>

List == 0
Paths == Messages \cup {List}
NothingShown == [shows |-> "nothing", of |-> 0, hint |-> FALSE]

Init ==
  /\ pane = NothingShown /\ opens = <<>>
  /\ entries = <<List>> /\ pos = 1 /\ hpath = List
  /\ cache = [p \in Paths |-> NothingShown]
  /\ turns = MaxTurns

Turn == turns > 0 /\ turns' = turns - 1

-----------------------------------------------------------------------------
\* htmx:beforeRequest: the skeleton of a new request, its hint's timer armed.
Ask(m, before, push) ==
  /\ Len(before) < MaxOpens
  /\ opens' = Append(before, [msg |-> m, at |-> "sent", live |-> TRUE, push |-> push, timer |-> TRUE])
  /\ pane' = [shows |-> "skeleton", of |-> Len(before) + 1, hint |-> FALSE]

\* A row is clicked, in whatever state the pane is.
Open(m) == Ask(m, opens, TRUE) /\ UNCHANGED <<entries, pos, hpath, cache, turns>>

\* The copy htmx keeps: timers and requests know only the original.
Copy == [pane EXCEPT !.of = IF pane.shows = "skeleton" THEN 0 ELSE @]
Save == cache' = [cache EXCEPT ![hpath] = Copy]

PushUrl(m) ==
  /\ entries' = Append(SubSeq(entries, 1, pos), m)
  /\ pos' = pos + 1 /\ hpath' = m

\* READING_WAIT_MS are over: the skeleton says what it waits for.
WaitedLong(n) ==
  /\ opens[n].timer
  /\ opens' = [opens EXCEPT ![n].timer = FALSE]
  /\ pane' = [pane EXCEPT !.hint = @ \/ (pane.shows = "skeleton" /\ pane.of = n)]
  /\ UNCHANGED <<entries, pos, hpath, cache, turns>>

\* Faulty: one timer for all requests, which the first answer clears.
Over_global(n) ==
  opens' = [k \in DOMAIN opens |->
    [opens[k] EXCEPT !.timer = FALSE, !.at = IF k = n THEN "over" ELSE @]]

\* htmx:afterRequest reaches the document only from a page that is still there.
Over(n) == opens' = [opens EXCEPT ![n].at = "over", ![n].timer = @ /\ ~opens[n].live]

\* A request without an answer is reported on the row that sent it only, and by then a
\* refresh may have taken that row out of the document.
Unheard(n) == opens' = [opens EXCEPT ![n].at = "over"]

\* The answer: the page is saved and the address pushed even when the pane it
\* was for is gone.
Answer(n) ==
  /\ opens[n].at = "sent"
  /\ Over(n)
  /\ IF opens[n].push THEN Save /\ PushUrl(opens[n].msg)
                      ELSE UNCHANGED <<cache, entries, pos, hpath>>
  /\ pane' = IF opens[n].live THEN [shows |-> "message", of |-> n, hint |-> FALSE] ELSE pane
  /\ UNCHANGED turns

\* An error status replaces a skeleton, whichever request put it there.
ErrorStatus(n) ==
  /\ opens[n].at = "sent"
  /\ Over(n)
  /\ pane' = IF opens[n].live /\ pane.shows = "skeleton"
             THEN [shows |-> "error", of |-> n, hint |-> FALSE] ELSE pane
  /\ UNCHANGED <<entries, pos, hpath, cache, turns>>

\* No connection: htmx reports the end of the request without `failed`, and the
\* skeleton stays.
NoAnswer(n) ==
  /\ opens[n].at = "sent"
  /\ Over(n) \/ Unheard(n)
  /\ UNCHANGED <<pane, entries, pos, hpath, cache, turns>>

-----------------------------------------------------------------------------
\* closeReadingPane: the address loses its message without htmx being told.
ClosePane == pane' = NothingShown /\ entries' = [entries EXCEPT ![pos] = List]

\* Escape, the back button of the pane, or the answer to an archive, a delete or
\* a move: it closes what is on screen by then.
Close ==
  /\ pane.shows # "nothing" /\ Turn
  /\ ClosePane
  /\ UNCHANGED <<opens, pos, hpath, cache>>

\* Faulty: a page is put back as it was saved.
Restored_asSaved(p, shown) == shown

\* historyRestore: the list's address never comes back with a filled pane.
Restored(p, shown) == IF p = List THEN NothingShown ELSE shown

\* Back or Forward to entry k. htmx keeps three pages: a page it has no copy of
\* comes from the server, its pane empty.
Travel(k) ==
  /\ k \in DOMAIN entries /\ k # pos /\ Turn
  /\ Save
  /\ \E shown \in {cache'[entries[k]], NothingShown} : pane' = Restored(entries[k], shown)
  /\ pos' = k /\ hpath' = entries[k]
  /\ opens' = [n \in DOMAIN opens |-> [opens[n] EXCEPT !.live = FALSE]]
  /\ UNCHANGED entries

\* A reload forgets the requests; a message's address asks for it again.
Reload ==
  /\ Turn
  /\ LET gone == [n \in DOMAIN opens |-> [opens[n] EXCEPT !.at = "over", !.live = FALSE, !.timer = FALSE]]
     IN IF entries[pos] = List THEN pane' = NothingShown /\ opens' = gone
        ELSE Ask(entries[pos], gone, FALSE)
  /\ hpath' = entries[pos]
  /\ UNCHANGED <<entries, pos, cache>>

Next ==
  \/ \E m \in Messages : Open(m)
  \/ \E n \in DOMAIN opens : WaitedLong(n) \/ Answer(n) \/ ErrorStatus(n) \/ NoAnswer(n)
  \/ Close \/ Reload
  \/ \E k \in DOMAIN entries : Travel(k)

Spec == Init /\ [][Next]_paneVars

-----------------------------------------------------------------------------
PaneType == [shows : {"nothing", "skeleton", "message", "error"}, of : 0..MaxOpens, hint : BOOLEAN]

TypeOK ==
  /\ pane \in PaneType /\ cache \in [Paths -> PaneType]
  /\ opens \in Seq([msg : Messages, at : {"sent", "over"}, live : BOOLEAN,
                    push : BOOLEAN, timer : BOOLEAN])
  /\ Len(opens) <= MaxOpens
  /\ entries \in Seq(Paths) /\ pos \in DOMAIN entries /\ hpath \in Paths
  /\ turns \in 0..MaxTurns

\* Whatever was saved, pushed or answered late, at the list's address the pane
\* holds nothing an earlier page left there, and no message that has an address:
\* on a phone it would cover the list. (A thread that a reload asks for can land
\* there, when it is closed while it loads.)
ListIsNotCovered ==
  entries[pos] = List /\ pane.shows # "nothing" =>
    /\ pane.of # 0 /\ opens[pane.of].live
    /\ pane.shows = "message" => ~opens[pane.of].push

\* A request that is still on its way behind the skeleton on screen will say
\* what it waits for, whatever the requests sent before or after it did.
WaitIsExplained ==
  \A n \in DOMAIN opens :
    pane.shows = "skeleton" /\ pane.of = n /\ opens[n].at = "sent" => pane.hint \/ opens[n].timer

\* A skeleton on screen always explains itself or is about to: an unexplained one
\* is "the one thing this hint exists to prevent" (app.js, above readingWaits). The code
\* breaks this one (README, Divergences kept as definitions).
SkeletonIsExplained ==
  pane.shows = "skeleton" => pane.hint \/ \E n \in DOMAIN opens : n = pane.of /\ opens[n].timer
=============================================================================
