---------------------------- MODULE Screen_proofs ----------------------------
(***************************************************************************)
(* Theorems about what Page shows: the list, the reading pane, the compose  *)
(* window, its text and its signatures; and the types of every part. As in  *)
(* Page_proofs, each is proved of the part's own steps, which are all the   *)
(* page's steps that move the part's variables.                             *)
(***************************************************************************)
EXTENDS Page_proofs

-----------------------------------------------------------------------------
(* The list: MessageList *)

\* Seen from the list, the page's steps are the list's or none.
LEMMA ListMoves == Spec => List!Init /\ [][List!Next]_List!listVars
<1>1. Init => List!Init
  BY DEF Init
<1>2. [Next]_pageVars => [List!Next]_List!listVars
  BY DEF Next, pageVars, listPart, List!listVars, List!serverVars, List!streamVars, List!spinnerVars
<1> QED
  BY <1>1, <1>2, PTL DEF Spec

\* A request carries mail the database held once the list on screen was rendered.
Newer(r) == r.at = "rendered" => list <= r.mail /\ r.mail <= mail

\* The types these facts speak of.
ListTyped ==
  /\ mail \in Nat /\ list \in Nat
  /\ fetch \in List!RequestType /\ click \in List!RequestType

\* The answers under way are newer than the list they would replace.
InOrder == list <= mail /\ Newer(fetch) /\ Newer(click)

\* The spinner's debts: the list it waits for is under way, or its request failed.
Debts == List!SpinnerHasAReason /\ {told, await, spin, broken} \subseteq BOOLEAN

ListInv == ListTyped /\ InOrder /\ Debts

LEMMA AskedType ==
  /\ List!Nothing \in List!RequestType /\ List!Nothing.at = "none"
  /\ List!Asked \in List!RequestType /\ List!Asked.at = "sent"
<1>1. List!Nothing \in List!RequestType /\ List!Nothing.at = "none"
  BY DEF List!Nothing, List!RequestType
<1>2. PICK r : r = List!Nothing
  OBVIOUS
<1>3. [r EXCEPT !.at = "sent"] \in List!RequestType /\ [r EXCEPT !.at = "sent"].at = "sent"
  BY <1>1, <1>2 DEF List!RequestType
<1>4. List!Asked = [r EXCEPT !.at = "sent"]
  BY <1>2 DEF List!Asked
<1> QED
  BY <1>1, <1>3, <1>4

LEMMA ListInit == ASSUME List!Init, syncing \in BOOLEAN PROVE ListInv
<1> USE AskedType
<1>1. ListTyped /\ InOrder
  BY DEF List!Init, ListTyped, InOrder, Newer
<1>2. Debts
  BY DEF List!Init, Debts, List!SpinnerHasAReason
<1> QED
  BY <1>1, <1>2 DEF ListInv

\* Steps that leave the list, its requests and the spinner alone.
LEMMA ListRests ==
  ASSUME ListInv, UNCHANGED <<list, spin, told, await, fetch, click, broken>>,
         mail' \in Nat, mail <= mail'
  PROVE  ListInv'
<1>1. ListTyped'
  BY DEF ListInv, ListTyped
<1>2. InOrder'
  BY DEF ListInv, ListTyped, InOrder, Newer, List!RequestType
<1>3. Debts'
  BY DEF ListInv, Debts, List!SpinnerHasAReason
<1> QED
  BY <1>1, <1>2, <1>3 DEF ListInv

\* A request of the list is sent, is none any more, or waits for its answer.
LEMMA FetchMoves ==
  ASSUME ListTyped, InOrder, UNCHANGED <<mail, list, click>>,
         fetch' \in {fetch, List!Nothing, List!Asked}
  PROVE  ListTyped' /\ InOrder'
<1>1. fetch' \in List!RequestType
  BY AskedType DEF ListTyped
<1>2. fetch' = fetch \/ fetch'.at # "rendered"
  BY AskedType
<1>3. Newer(fetch)' /\ Newer(click)'
  BY <1>2 DEF InOrder, Newer
<1> QED
  BY <1>1, <1>3 DEF ListTyped, InOrder

LEMMA RefreshAsks ==
  ASSUME List!Refresh
  PROVE  fetch' \in {fetch, List!Asked} /\ (fetch' = fetch => fetch.at # "none")
                    /\ fetch'.at # "none"
  BY AskedType DEF List!Refresh

LEMMA StatusSets ==
  ASSUME ListInv, NEW on \in BOOLEAN, List!SetSyncing(on), UNCHANGED <<mail, list, click, broken>>
  PROVE  ListInv'
<1>1. fetch' \in {fetch, List!Asked}
  BY RefreshAsks DEF List!SetSyncing, List!spinnerVars
<1>2. ListTyped' /\ InOrder'
  BY <1>1, FetchMoves DEF ListInv
<1>3. Debts'
  <2> USE DEF ListInv, Debts, List!SpinnerHasAReason
  <2>1. CASE on
    BY <2>1 DEF List!SetSyncing
  <2>2. CASE ~on /\ ~told
    BY <2>2 DEF List!SetSyncing, List!spinnerVars
  <2>3. CASE ~on /\ told
    BY <2>3, RefreshAsks DEF List!SetSyncing
  <2> QED
    BY <2>1, <2>2, <2>3
<1> QED
  BY <1>2, <1>3 DEF ListInv

\* An answer that takes the list's place was rendered after it.
LEMMA SwapIsNewer ==
  ASSUME ListInv, NEW r \in List!RequestType, r.at = "rendered", Newer(r), List!Swap(r)
  PROVE  ListInv' /\ list' >= list
<1>1. list' = r.mail /\ list' \in Nat /\ list <= list' /\ list' <= mail /\ mail' = mail
  BY DEF List!Swap, List!serverVars, Newer, ListInv, ListTyped, List!RequestType
<1>2. fetch' = List!Nothing /\ click' = List!Nothing
  BY DEF List!Swap
<1>3. ListTyped' /\ InOrder'
  BY <1>1, <1>2, AskedType DEF ListInv, ListTyped, InOrder, Newer
<1>4. Debts'
  BY DEF List!Swap, ListInv, Debts, List!SpinnerHasAReason
<1> QED
  BY <1>1, <1>3, <1>4 DEF ListInv, ListTyped

LEMMA ListStepInv == ASSUME ListInv, [List!Next]_List!listVars, syncing \in BOOLEAN
                  PROVE  ListInv' /\ list' >= list /\ syncing' \in BOOLEAN
<1> USE AskedType
<1>0. mail \in Nat /\ list \in Nat /\ mail <= mail /\ list >= list
  BY DEF ListInv, ListTyped
<1>1. CASE List!SyncStarts \/ List!Announce \/ List!SyncEnds \/ List!OtherEvent \/ List!StreamBreaks
  BY <1>0, <1>1, ListRests DEF List!SyncStarts, List!Announce, List!SyncEnds, List!OtherEvent,
     List!StreamBreaks, List!serverVars, List!spinnerVars, List!streamVars
<1>2. CASE List!Store
  BY <1>0, <1>2, ListRests DEF List!Store, List!spinnerVars
<1>3. CASE List!Receive
  <2>1. CASE Head(events) = "sync-status"
    BY <1>0, <1>3, <2>1, StatusSets DEF List!Receive, List!serverVars
  <2>2. CASE Head(events) # "sync-status"
    <3>1. List!Refresh /\ UNCHANGED <<mail, syncing, list, spin, told, await, click, broken>>
      BY <1>3, <2>2 DEF List!Receive, List!serverVars, List!spinnerVars
    <3>2. ListTyped' /\ InOrder'
      BY <3>1, RefreshAsks, FetchMoves DEF ListInv
    <3>3. Debts'
      BY <3>1, RefreshAsks DEF ListInv, Debts, List!SpinnerHasAReason
    <3> QED
      BY <1>0, <3>1, <3>2, <3>3 DEF ListInv
  <2> QED
    BY <2>1, <2>2
<1>4. CASE List!KeepAlive
  BY <1>0, <1>4, StatusSets DEF List!KeepAlive, List!serverVars
<1>5. CASE List!Reconnect
  <2>1. UNCHANGED <<mail, syncing, list, click, broken>> /\ fetch' \in {fetch, List!Asked}
        /\ fetch'.at # "none"
    BY <1>5 DEF List!Reconnect, List!serverVars
  <2>2. ListTyped' /\ InOrder'
    BY <2>1, FetchMoves DEF ListInv
  <2>3. told' = syncing /\ spin' = (spin \/ syncing) /\ await' = (~syncing /\ (await \/ told))
    BY <1>5 DEF List!Reconnect
  <2>4. Debts'
    BY <2>1, <2>3 DEF ListInv, Debts, List!SpinnerHasAReason
  <2> QED
    BY <1>0, <2>1, <2>2, <2>4 DEF ListInv
<1>6. CASE List!Shown
  <2>1. List!Refresh /\ UNCHANGED <<mail, syncing, list, spin, told, await, click, broken>>
    BY <1>6 DEF List!Shown, List!serverVars, List!spinnerVars
  <2>2. ListTyped' /\ InOrder'
    BY <2>1, RefreshAsks, FetchMoves DEF ListInv
  <2>3. Debts'
    BY <2>1, RefreshAsks DEF ListInv, Debts, List!SpinnerHasAReason
  <2> QED
    BY <1>0, <2>1, <2>2, <2>3 DEF ListInv
<1>7. CASE List!FolderClick \/ List!ClickFails
  <2>1. UNCHANGED <<mail, syncing, list, spin, told, await, fetch>>
        /\ click' \in {List!Asked, List!Nothing} /\ UNCHANGED broken
    BY <1>7 DEF List!FolderClick, List!ClickFails, List!serverVars, List!spinnerVars
  <2>4. click' \in List!RequestType /\ click'.at # "rendered"
    <3>1. List!Asked \in List!RequestType /\ List!Asked.at # "rendered"
      OBVIOUS
    <3>2. List!Nothing \in List!RequestType /\ List!Nothing.at # "rendered"
      OBVIOUS
    <3> HIDE AskedType
    <3> QED
      BY <2>1, <3>1, <3>2
  <2>2. ListTyped' /\ InOrder'
    BY <2>1, <2>4 DEF ListInv, ListTyped, InOrder, Newer
  <2>3. Debts'
    BY <2>1 DEF ListInv, Debts, List!SpinnerHasAReason
  <2> QED
    BY <1>0, <2>1, <2>2, <2>3 DEF ListInv
<1>8. CASE List!Mark
  <2>1. UNCHANGED <<mail, syncing, list, spin, told, await, click, broken>>
        /\ fetch' = [fetch EXCEPT !.moved = TRUE]
    BY <1>8 DEF List!Mark, List!serverVars, List!spinnerVars
  <2>2. fetch' \in List!RequestType /\ fetch'.at = fetch.at /\ fetch'.mail = fetch.mail
    BY <2>1 DEF ListInv, ListTyped, List!RequestType
  <2>3. ListTyped' /\ InOrder'
    BY <2>1, <2>2 DEF ListInv, ListTyped, InOrder, Newer
  <2>4. Debts'
    BY <2>1, <2>2 DEF ListInv, Debts, List!SpinnerHasAReason
  <2> QED
    BY <1>0, <2>1, <2>3, <2>4 DEF ListInv
<1>9. CASE List!RenderFetch
  <2>1. UNCHANGED <<mail, syncing, list, spin, told, await, click, broken>>
        /\ fetch' = [fetch EXCEPT !.at = "rendered", !.mail = mail]
    BY <1>9 DEF List!RenderFetch, List!serverVars, List!spinnerVars
  <2>2. fetch' \in List!RequestType /\ fetch'.at = "rendered" /\ fetch'.mail = mail
    BY <2>1 DEF ListInv, ListTyped, List!RequestType
  <2>3. ListTyped' /\ InOrder'
    BY <2>1, <2>2 DEF ListInv, ListTyped, InOrder, Newer
  <2>4. Debts'
    BY <2>1, <2>2 DEF ListInv, Debts, List!SpinnerHasAReason
  <2> QED
    BY <1>0, <2>1, <2>3, <2>4 DEF ListInv
<1>10. CASE List!RenderClick
  <2>1. UNCHANGED <<mail, syncing, list, spin, told, await, fetch, broken>>
        /\ click' = [click EXCEPT !.at = "rendered", !.mail = mail]
    BY <1>10 DEF List!RenderClick, List!serverVars, List!spinnerVars
  <2>2. click' \in List!RequestType /\ click'.at = "rendered" /\ click'.mail = mail
    BY <2>1 DEF ListInv, ListTyped, List!RequestType
  <2>3. ListTyped' /\ InOrder'
    BY <2>1, <2>2 DEF ListInv, ListTyped, InOrder, Newer
  <2>4. Debts'
    BY <2>1 DEF ListInv, Debts, List!SpinnerHasAReason
  <2> QED
    BY <1>0, <2>1, <2>3, <2>4 DEF ListInv
<1>11. CASE List!FetchArrives
  <2>1. CASE ~fetch.moved
    <3>1. List!Swap(fetch) /\ fetch.at = "rendered" /\ Newer(fetch) /\ fetch \in List!RequestType
      BY <1>11, <2>1 DEF List!FetchArrives, ListInv, ListTyped, InOrder
    <3> QED
      BY <3>1, SwapIsNewer DEF List!Swap, List!serverVars
  <2>2. CASE fetch.moved
    <3>1. List!Discard /\ List!SendWaiting /\ UNCHANGED <<mail, syncing, list, told, click, broken>>
      BY <1>11, <2>2 DEF List!FetchArrives, List!serverVars
    <3>2. ListTyped' /\ InOrder'
      BY <3>1, FetchMoves DEF List!SendWaiting, ListInv
    <3>3. Debts'
      BY <3>1 DEF List!Discard, ListInv, Debts, List!SpinnerHasAReason
    <3> QED
      BY <1>0, <3>1, <3>2, <3>3 DEF ListInv
  <2> QED
    BY <2>1, <2>2
<1>12. CASE List!ClickArrives
  <2>1. List!Swap(click) /\ click.at = "rendered" /\ Newer(click) /\ click \in List!RequestType
    BY <1>12 DEF List!ClickArrives, ListInv, ListTyped, InOrder
  <2> QED
    BY <2>1, SwapIsNewer DEF List!Swap, List!serverVars
<1>13. CASE List!FetchFails
  <2>1. List!SendWaiting /\ broken' = TRUE /\ UNCHANGED <<mail, syncing, list, told, click>>
        /\ (List!Discard \/ UNCHANGED <<spin, await>>)
    BY <1>13 DEF List!FetchFails, List!serverVars
  <2>2. ListTyped' /\ InOrder'
    BY <2>1, FetchMoves DEF List!SendWaiting, ListInv
  <2>3. Debts'
    <3> USE DEF ListInv, Debts, List!SpinnerHasAReason
    <3>1. CASE UNCHANGED <<spin, await>>
      BY <2>1, <3>1
    <3>2. CASE List!Discard
      BY <2>1, <3>2 DEF List!Discard
    <3> QED
      BY <2>1, <3>1, <3>2
  <2> QED
    BY <1>0, <2>1, <2>2, <2>3 DEF ListInv
<1>14. CASE UNCHANGED List!listVars
  BY <1>0, <1>14, ListRests DEF List!listVars, List!serverVars, List!spinnerVars
<1> QED
  BY <1>1, <1>2, <1>3, <1>4, <1>5, <1>6, <1>7, <1>8, <1>9, <1>10, <1>11, <1>12, <1>13, <1>14
  DEF List!Next

\* However the answers of the list's own refreshes and of folder clicks arrive
\* (app.js, the list's htmx:beforeSwap), the list on screen is never replaced by an older one,
\* for any amount of mail, passes, losses and clicks.
THEOREM NeverBack == Spec => ListNeverGoesBack
<1>1. List!Init => ListInv /\ syncing \in BOOLEAN
  BY ListInit DEF List!Init
<1>2. ListInv /\ syncing \in BOOLEAN /\ [List!Next]_List!listVars => (ListInv /\ syncing \in BOOLEAN)'
  BY ListStepInv
<1>3. ListInv /\ syncing \in BOOLEAN /\ [List!Next]_List!listVars => [list' >= list]_List!listVars
  BY ListStepInv
<1>4. List!ListNeverGoesBack <=> ListNeverGoesBack
  BY Zenon DEF ListNeverGoesBack
<1>5. [][list' >= list]_List!listVars <=> List!ListNeverGoesBack
  BY PTL DEF List!ListNeverGoesBack
<1> QED
  BY <1>1, <1>2, <1>3, <1>4, <1>5, ListMoves, PTL

\* The spinner is on exactly while the browser believes in a sync or waits for a list, and
\* it waits only while a list is under way or the last one failed (setSyncing and the
\* listeners that settle smAwaitList in app.js): no order of events leaves it turning for nothing.
THEOREM SpinnerSettles == Spec => []List!SpinnerHasAReason
<1>1. List!Init => ListInv /\ syncing \in BOOLEAN
  BY ListInit DEF List!Init
<1>2. ListInv /\ syncing \in BOOLEAN /\ [List!Next]_List!listVars => (ListInv /\ syncing \in BOOLEAN)'
  BY ListStepInv
<1>3. ListInv => List!SpinnerHasAReason
  BY DEF ListInv, Debts
<1> QED
  BY <1>1, <1>2, <1>3, ListMoves, PTL

-----------------------------------------------------------------------------
(* The reading pane: ReadingPane *)

\* Seen from the pane, the page's steps are the pane's or none.
LEMMA PaneMoves == Spec => Pane!Spec
<1>1. Init => Pane!Init
  BY DEF Init
<1>2. [Next]_pageVars => [Pane!Next]_Pane!paneVars
  BY DEF Next, pageVars, panePart, Pane!paneVars
<1> QED
  BY <1>1, <1>2, PTL DEF Spec, Pane!Spec

Request == [msg : Messages, at : {"sent", "over"}, live : BOOLEAN, push : BOOLEAN, timer : BOOLEAN]

\* What is in a pane, whether on screen or in a copy.
Content == [shows : {"nothing", "skeleton", "message", "error"}, of : Nat, hint : BOOLEAN]

\* The types the facts below speak of; the pane names a request that was made, or none.
PaneTyped ==
  /\ opens \in Seq(Request) /\ entries \in Seq(Pane!Paths) /\ pos \in DOMAIN entries
  /\ hpath \in Pane!Paths
  /\ pane \in Content /\ pane.of <= Len(opens)
  /\ cache \in [Pane!Paths -> Content]

\* No copy waits for a request: a skeleton in it is nobody's.
CopiesAreNobodys == \A p \in Pane!Paths : cache[p].shows = "skeleton" => cache[p].of = 0

\* Nor does a copy name a request that is still to be made.
CopiesAreOld == \A p \in Pane!Paths : cache[p].of <= Len(opens)

PaneInv == PaneTyped /\ CopiesAreNobodys /\ CopiesAreOld
           /\ Pane!ListIsNotCovered /\ Pane!WaitIsExplained

LEMMA NothingIsContent == Pane!NothingShown \in Content /\ Pane!NothingShown.shows = "nothing"
                          /\ Pane!NothingShown.of = 0
  BY DEF Pane!NothingShown, Content

LEMMA PaneInit == ASSUME Pane!Init PROVE PaneInv
<1> USE NothingIsContent
<1>1. opens \in Seq(Request) /\ Len(opens) = 0 /\ entries \in Seq(Pane!Paths) /\ pos \in DOMAIN entries
      /\ hpath \in Pane!Paths
  BY DEF Pane!Init, Pane!Paths, Pane!List
<1>2. pane \in Content /\ pane.of = 0 /\ pane.shows = "nothing"
      /\ cache \in [Pane!Paths -> Content]
      /\ \A p \in Pane!Paths : cache[p].of = 0
  BY DEF Pane!Init
<1> QED
  BY <1>1, <1>2 DEF PaneInv, PaneTyped, CopiesAreNobodys, CopiesAreOld, Pane!ListIsNotCovered, Pane!WaitIsExplained

\* A request is asked for over a history of requests of which none is under way
\* to the skeleton it brings.
LEMMA AskShows ==
  ASSUME Pane!PaneAssumption, NEW m \in Messages, NEW past \in Seq(Request), NEW p \in BOOLEAN, Pane!Ask(m, past, p)
  PROVE  /\ opens' \in Seq(Request) /\ Len(opens') = Len(past) + 1
         /\ pane' \in Content /\ pane'.shows = "skeleton" /\ pane'.of = Len(past) + 1
         /\ opens'[Len(past) + 1].live /\ opens'[Len(past) + 1].timer
<1> DEFINE r == [msg |-> m, at |-> "sent", live |-> TRUE, push |-> p, timer |-> TRUE]
<1>1. r \in Request /\ r.live /\ r.timer
  BY DEF Request
<1>2. opens' = Append(past, r)
  BY DEF Pane!Ask
<1>3. pane' = [shows |-> "skeleton", of |-> Len(past) + 1, hint |-> FALSE]
  BY DEF Pane!Ask
<1> HIDE DEF r
<1>4. opens' \in Seq(Request) /\ Len(opens') = Len(past) + 1 /\ opens'[Len(past) + 1] = r
  BY <1>1, <1>2, AppendProperties
<1>5. Len(past) \in Nat
  OBVIOUS
<1> QED
  BY <1>1, <1>3, <1>4, <1>5 DEF Content

\* A copy of the page is saved under the address htmx believes in.
LEMMA Saved ==
  ASSUME PaneTyped, CopiesAreNobodys, CopiesAreOld, Pane!Save
  PROVE  /\ cache' \in [Pane!Paths -> Content]
         /\ \A p \in Pane!Paths : /\ cache'[p].shows = "skeleton" => cache'[p].of = 0
                                  /\ cache'[p].of <= Len(opens)
<1>1. Pane!Copy \in Content /\ (Pane!Copy.shows = "skeleton" => Pane!Copy.of = 0) /\ Pane!Copy.of <= Len(opens)
  <2>1. PICK c : c = Pane!Copy
    OBVIOUS
  <2>2. PICK n \in Nat : n = IF pane.shows = "skeleton" THEN 0 ELSE pane.of
    BY DEF PaneTyped, Content
  <2>3. c = [pane EXCEPT !.of = n]
    BY <2>1, <2>2 DEF Pane!Copy
  <2>4. c \in Content /\ c.shows = pane.shows /\ c.of = n
    BY <2>3 DEF PaneTyped, Content
  <2>5. n <= Len(opens) /\ (pane.shows = "skeleton" => n = 0)
    <3>1. Len(opens) \in Nat
      BY DEF PaneTyped
    <3> QED
      BY <2>2, <3>1 DEF PaneTyped
  <2> QED
    BY <2>1, <2>4, <2>5
<1>2. cache' = [cache EXCEPT ![hpath] = Pane!Copy]
  BY DEF Pane!Save
<1>3. \A p \in Pane!Paths : cache'[p] \in {cache[p], Pane!Copy}
  BY <1>2 DEF PaneTyped
<1>4. cache' \in [Pane!Paths -> Content]
  BY <1>1, <1>2 DEF PaneTyped
<1> QED
  BY <1>1, <1>3, <1>4 DEF CopiesAreNobodys, CopiesAreOld

\* A step on one request changes nothing of the others and neither its message nor
\* whether it is live and pushes an address.
SameRequests(n) ==
  /\ opens' \in Seq(Request) /\ Len(opens') = Len(opens)
  /\ \A k \in 1..Len(opens) : opens'[k].live = opens[k].live /\ opens'[k].push = opens[k].push
  /\ \A k \in 1..Len(opens) : k # n => opens'[k] = opens[k]

LEMMA OverEnds ==
  ASSUME PaneTyped, NEW n \in DOMAIN opens, Pane!Over(n) \/ Pane!Unheard(n)
  PROVE  SameRequests(n) /\ opens'[n].at = "over"
<1>1. n \in 1..Len(opens) /\ opens[n] \in Request /\ Len(opens) \in Nat
  BY DEF PaneTyped
<1>2. opens[n].timer \in BOOLEAN
  BY <1>1 DEF Request
<1>3. PICK t \in BOOLEAN : opens' = [opens EXCEPT ![n] = [opens[n] EXCEPT !.at = "over", !.timer = t]]
  <2>1. CASE Pane!Over(n)
    <3>1. PICK t \in BOOLEAN : t = (opens[n].timer /\ ~opens[n].live)
      OBVIOUS
    <3> QED
      BY <2>1, <3>1 DEF Pane!Over, PaneTyped
  <2>2. CASE Pane!Unheard(n)
    <3>1. PICK t \in BOOLEAN : t = opens[n].timer
      BY <1>2
    <3>2. [opens[n] EXCEPT !.at = "over"] = [opens[n] EXCEPT !.at = "over", !.timer = t]
      BY <1>1, <3>1 DEF Request
    <3> QED
      BY <2>2, <3>2 DEF Pane!Unheard, PaneTyped
  <2> QED
    BY <2>1, <2>2
<1>4. PICK r : r = [opens[n] EXCEPT !.at = "over", !.timer = t]
  OBVIOUS
<1>5. r \in Request /\ r.at = "over" /\ r.live = opens[n].live /\ r.push = opens[n].push
  BY <1>1, <1>4 DEF Request
<1>6. opens' = [opens EXCEPT ![n] = r]
  BY <1>3, <1>4
<1>7. opens' \in Seq(Request) /\ Len(opens') = Len(opens)
      /\ \A k \in 1..Len(opens) : opens'[k] = IF k = n THEN r ELSE opens[k]
  BY <1>1, <1>5, <1>6, ExceptSeq DEF PaneTyped
<1> QED
  BY <1>1, <1>5, <1>7 DEF SameRequests

\* Where the requests are the same and the pane shows what it showed, only the
\* skeleton's own explanation can change.
LEMMA PaneKept ==
  ASSUME PaneInv, NEW n \in DOMAIN opens, SameRequests(n), pane' \in Content,
         pane'.shows = pane.shows, pane'.of = pane.of, pane.hint => pane'.hint,
         pane.shows = "skeleton" /\ pane.of = n /\ opens'[n].at = "sent" => pane'.hint \/ opens'[n].timer,
         UNCHANGED <<entries, pos, hpath, cache>>
  PROVE  PaneInv'
<1>1. PaneTyped'
  BY DEF PaneInv, PaneTyped, SameRequests
<1>2. CopiesAreNobodys' /\ CopiesAreOld'
  BY DEF PaneInv, CopiesAreNobodys, CopiesAreOld, SameRequests
<1>3. Pane!ListIsNotCovered'
  <2>1. Len(opens) \in Nat /\ pane.of \in Nat /\ pane.of <= Len(opens)
    BY DEF PaneInv, PaneTyped, Content
  <2>2. pane.of # 0 => pane.of \in 1..Len(opens)
    BY <2>1
  <2> QED
    BY <2>2 DEF PaneInv, Pane!ListIsNotCovered, SameRequests
<1>4. Pane!WaitIsExplained'
  <2>1. DOMAIN opens' = DOMAIN opens /\ DOMAIN opens = 1..Len(opens)
    BY DEF SameRequests, PaneInv, PaneTyped
  <2> QED
    BY <2>1 DEF PaneInv, Pane!WaitIsExplained, SameRequests
<1> QED
  BY <1>1, <1>2, <1>3, <1>4 DEF PaneInv

LEMMA PaneOpened ==
  ASSUME Pane!PaneAssumption, PaneInv, NEW m \in Messages, NEW past \in Seq(Request), NEW p \in BOOLEAN,
         Pane!Ask(m, past, p), Len(past) = Len(opens),
         UNCHANGED <<entries, pos, cache>>, hpath' \in Pane!Paths
  PROVE  PaneInv'
<1>0. Len(opens) \in Nat
  BY DEF PaneInv, PaneTyped
<1>a. /\ opens' \in Seq(Request) /\ Len(opens') = Len(opens) + 1 /\ DOMAIN opens' = 1..Len(opens')
      /\ pane' \in Content /\ pane'.shows = "skeleton" /\ pane'.of = Len(opens) + 1
      /\ opens'[Len(opens) + 1].live /\ opens'[Len(opens) + 1].timer
  BY AskShows
<1>1. PaneTyped'
  BY <1>0, <1>a DEF PaneInv, PaneTyped
<1>2. CopiesAreNobodys' /\ CopiesAreOld'
  <2>1. \A q \in Pane!Paths : cache[q].of \in Nat /\ cache[q].of <= Len(opens)
    BY DEF PaneInv, PaneTyped, CopiesAreOld, Content
  <2> QED
    BY <1>0, <1>a, <2>1 DEF PaneInv, CopiesAreNobodys, CopiesAreOld
<1>3. Pane!ListIsNotCovered'
  BY <1>0, <1>a DEF Pane!ListIsNotCovered
<1>4. Pane!WaitIsExplained'
  BY <1>a DEF Pane!WaitIsExplained
<1> QED
  BY <1>1, <1>2, <1>3, <1>4 DEF PaneInv

\* A reload forgets a request.
Forgotten(r) == [r EXCEPT !.at = "over", !.live = FALSE, !.timer = FALSE]

LEMMA ForgottenIsOver == ASSUME NEW r \in Request PROVE Forgotten(r) \in Request
  BY DEF Forgotten, Request

LEMMA AllForgotten ==
  ASSUME NEW past \in Seq(Request)
  PROVE  LET gone == [n \in DOMAIN past |-> Forgotten(past[n])]
         IN gone \in Seq(Request) /\ Len(gone) = Len(past)
<1>1. PICK gone : gone = [n \in 1..Len(past) |-> Forgotten(past[n])]
  OBVIOUS
<1>2. \A n \in 1..Len(past) : Forgotten(past[n]) \in Request
  BY ForgottenIsOver
<1>3. gone \in [1..Len(past) -> Request] /\ Len(past) \in Nat
  BY <1>1, <1>2
<1>4. gone \in Seq(Request) /\ Len(gone) = Len(past)
  BY <1>3
<1> QED
  BY <1>1, <1>4

LEMMA PaneStep == ASSUME Pane!PaneAssumption, PaneInv, [Pane!Next]_Pane!paneVars PROVE PaneInv'
<1> USE NothingIsContent
<1>0. /\ Len(opens) \in Nat /\ DOMAIN opens = 1..Len(opens)
      /\ pane.of \in Nat /\ pane.of <= Len(opens) /\ (pane.of # 0 => pane.of \in DOMAIN opens)
  BY DEF PaneInv, PaneTyped, Content
<1>00. /\ DOMAIN entries = 1..Len(entries) /\ Len(entries) \in Nat /\ pos \in 1..Len(entries)
       /\ \A k \in DOMAIN entries : entries[k] \in Pane!Paths
  BY DEF PaneInv, PaneTyped
<1>000. Pane!List \in Pane!Paths /\ Pane!List \notin Messages /\ Messages \subseteq Pane!Paths
  BY DEF Pane!Paths, Pane!List, Pane!PaneAssumption
<1>1. ASSUME NEW m \in Messages, Pane!Open(m) PROVE PaneInv'
  BY <1>1, PaneOpened DEF Pane!Open, PaneInv, PaneTyped
<1>2. ASSUME NEW n \in DOMAIN opens, Pane!WaitedLong(n) PROVE PaneInv'
  <2>1. PICK h \in BOOLEAN : h = (pane.hint \/ (pane.shows = "skeleton" /\ pane.of = n))
    OBVIOUS
  <2>2. pane' = [pane EXCEPT !.hint = h]
    BY <1>2, <2>1 DEF Pane!WaitedLong
  <2>3. pane' \in Content /\ pane'.shows = pane.shows /\ pane'.of = pane.of /\ pane'.hint = h
    BY <2>2 DEF PaneInv, PaneTyped, Content
  <2>4. PICK r : r = [opens[n] EXCEPT !.timer = FALSE]
    OBVIOUS
  <2>5. r \in Request /\ r.live = opens[n].live /\ r.push = opens[n].push
    <3>1. opens[n] \in Request
      BY DEF PaneInv, PaneTyped
    <3> QED
      BY <2>4, <3>1 DEF Request
  <2>6. opens' = [opens EXCEPT ![n] = r]
    BY <1>2, <2>4 DEF Pane!WaitedLong
  <2>7. opens' \in Seq(Request) /\ Len(opens') = Len(opens)
        /\ \A k \in 1..Len(opens) : opens'[k] = IF k = n THEN r ELSE opens[k]
    BY <1>0, <2>5, <2>6, ExceptSeq DEF PaneInv, PaneTyped
  <2>8. SameRequests(n)
    BY <1>0, <2>5, <2>7 DEF SameRequests
  <2>9. UNCHANGED <<entries, pos, hpath, cache>>
    BY <1>2 DEF Pane!WaitedLong
  <2> QED
    BY <2>1, <2>3, <2>8, <2>9, PaneKept
<1>3. ASSUME NEW n \in DOMAIN opens, Pane!Answer(n) PROVE PaneInv'
  <2>1. SameRequests(n) /\ opens'[n].at = "over"
    BY <1>3, OverEnds DEF Pane!Answer, PaneInv
  <2>2. /\ cache' \in [Pane!Paths -> Content]
        /\ \A p \in Pane!Paths : /\ cache'[p].shows = "skeleton" => cache'[p].of = 0
                                 /\ cache'[p].of <= Len(opens)
    <3>1. CASE opens[n].push
      BY <1>3, <3>1, Saved DEF Pane!Answer, PaneInv
    <3>2. CASE ~opens[n].push
      BY <1>3, <3>2 DEF Pane!Answer, PaneInv, PaneTyped, CopiesAreNobodys, CopiesAreOld
    <3> QED
      BY <3>1, <3>2
  <2>3. /\ pane' \in Content /\ pane'.of <= Len(opens)
        /\ IF opens[n].live THEN pane'.shows = "message" /\ pane'.of = n ELSE pane' = pane
    <3>1. CASE opens[n].live
      <4>1. pane' = [shows |-> "message", of |-> n, hint |-> FALSE]
        BY <1>3, <3>1 DEF Pane!Answer
      <4> QED
        BY <1>0, <3>1, <4>1 DEF Content
    <3>2. CASE ~opens[n].live
      BY <1>0, <1>3, <3>2 DEF Pane!Answer, PaneInv, PaneTyped
    <3> QED
      BY <3>1, <3>2
  <2>4. /\ entries' \in Seq(Pane!Paths) /\ pos' \in DOMAIN entries' /\ hpath' \in Pane!Paths
        /\ IF opens[n].push THEN entries'[pos'] # Pane!List ELSE UNCHANGED <<entries, pos>>
    <3>1. CASE opens[n].push
      <4>0. opens[n] \in Request
        BY DEF PaneInv, PaneTyped
      <4>1. PICK m \in Messages : m = opens[n].msg
        BY <4>0 DEF Request
      <4>2. entries' = Append(SubSeq(entries, 1, pos), m) /\ pos' = pos + 1 /\ hpath' = m
        BY <1>3, <3>1, <4>1 DEF Pane!Answer, Pane!PushUrl
      <4>3. SubSeq(entries, 1, pos) \in Seq(Pane!Paths) /\ Len(SubSeq(entries, 1, pos)) = pos
        BY <1>00, SubSeqProperties DEF PaneInv, PaneTyped
      <4>4. PICK a \in Seq(Pane!Paths) : a = SubSeq(entries, 1, pos) /\ Len(a) = pos
        BY <4>3
      <4>5. Append(a, m) \in Seq(Pane!Paths) /\ Len(Append(a, m)) = pos + 1 /\ Append(a, m)[pos + 1] = m
        BY <1>000, <4>4, AppendProperties
      <4>6. entries' \in Seq(Pane!Paths) /\ Len(entries') = pos + 1 /\ entries'[pos + 1] = m
        BY <4>2, <4>4, <4>5
      <4> QED
        BY <1>00, <1>000, <3>1, <4>2, <4>6
    <3>2. CASE ~opens[n].push
      BY <1>3, <3>2 DEF Pane!Answer, PaneInv, PaneTyped
    <3> QED
      BY <3>1, <3>2
  <2>5. PaneTyped' /\ CopiesAreNobodys' /\ CopiesAreOld'
    BY <2>1, <2>2, <2>3, <2>4 DEF PaneTyped, CopiesAreNobodys, CopiesAreOld, SameRequests
  <2>6. Pane!ListIsNotCovered'
    BY <1>0, <2>1, <2>3, <2>4 DEF PaneInv, Pane!ListIsNotCovered, SameRequests
  <2>7. Pane!WaitIsExplained'
    <3>1. DOMAIN opens' = DOMAIN opens
      BY <1>0, <2>1 DEF SameRequests
    <3> QED
      BY <1>0, <2>1, <2>3, <3>1 DEF PaneInv, Pane!WaitIsExplained, SameRequests
  <2> QED
    BY <2>5, <2>6, <2>7 DEF PaneInv
<1>4. ASSUME NEW n \in DOMAIN opens, Pane!ErrorStatus(n) PROVE PaneInv'
  <2>1. SameRequests(n) /\ opens'[n].at = "over"
    BY <1>4, OverEnds DEF Pane!ErrorStatus, PaneInv
  <2>2. UNCHANGED <<entries, pos, hpath, cache>>
    BY <1>4 DEF Pane!ErrorStatus
  <2>3. CASE opens[n].live /\ pane.shows = "skeleton"
    <3>1. pane' = [shows |-> "error", of |-> n, hint |-> FALSE]
      BY <1>4, <2>3 DEF Pane!ErrorStatus
    <3>2. pane' \in Content /\ pane'.shows = "error" /\ pane'.of = n /\ n \in Nat /\ n <= Len(opens)
      BY <1>0, <3>1 DEF Content
    <3>3. PaneTyped' /\ CopiesAreNobodys' /\ CopiesAreOld'
      BY <2>1, <2>2, <3>2 DEF PaneInv, PaneTyped, CopiesAreNobodys, CopiesAreOld, SameRequests
    <3>4. Pane!ListIsNotCovered'
      BY <1>0, <2>1, <2>2, <2>3, <3>2 DEF Pane!ListIsNotCovered, SameRequests
    <3>5. Pane!WaitIsExplained'
      BY <3>2 DEF Pane!WaitIsExplained
    <3> QED
      BY <3>3, <3>4, <3>5 DEF PaneInv
  <2>4. CASE ~(opens[n].live /\ pane.shows = "skeleton")
    <3>1. pane' = pane
      BY <1>4, <2>4 DEF Pane!ErrorStatus
    <3> QED
      BY <2>1, <2>2, <3>1, PaneKept DEF PaneInv, PaneTyped
  <2> QED
    BY <2>3, <2>4
<1>5. ASSUME NEW n \in DOMAIN opens, Pane!NoAnswer(n) PROVE PaneInv'
  <2>1. SameRequests(n) /\ opens'[n].at = "over"
    BY <1>5, OverEnds DEF Pane!NoAnswer, PaneInv
  <2>2. UNCHANGED <<pane, entries, pos, hpath, cache>>
    BY <1>5 DEF Pane!NoAnswer
  <2> QED
    BY <2>1, <2>2, PaneKept DEF PaneInv, PaneTyped
<1>6. CASE Pane!Close
  <2>1. pane' = Pane!NothingShown /\ entries' = [entries EXCEPT ![pos] = Pane!List]
        /\ UNCHANGED <<opens, pos, hpath, cache>>
    BY <1>6 DEF Pane!Close, Pane!ClosePane
  <2>2. entries' \in Seq(Pane!Paths) /\ Len(entries') = Len(entries)
    BY <1>00, <1>000, <2>1, ExceptSeq DEF PaneInv, PaneTyped
  <2>3. PaneTyped' /\ CopiesAreNobodys' /\ CopiesAreOld'
    BY <1>0, <1>00, <2>1, <2>2 DEF PaneInv, PaneTyped, CopiesAreNobodys, CopiesAreOld
  <2>4. Pane!ListIsNotCovered' /\ Pane!WaitIsExplained'
    BY <2>1 DEF Pane!ListIsNotCovered, Pane!WaitIsExplained
  <2> QED
    BY <2>3, <2>4 DEF PaneInv
<1>7. CASE Pane!Reload
  <2> DEFINE gone == [n \in DOMAIN opens |-> Forgotten(opens[n])]
  <2>1. gone \in Seq(Request) /\ Len(gone) = Len(opens)
    BY AllForgotten DEF PaneInv, PaneTyped
  <2>2. UNCHANGED <<entries, pos, cache>> /\ hpath' \in Pane!Paths
    <3>1. UNCHANGED <<entries, pos, cache>> /\ hpath' = entries[pos]
      BY <1>7, Zenon DEF Pane!Reload
    <3> QED
      BY <1>00, <3>1
  <2>3. CASE entries[pos] = Pane!List
    <3>1. pane' = Pane!NothingShown /\ opens' = gone
      BY <1>7, <2>3, Zenon DEF Pane!Reload, Forgotten
    <3> HIDE DEF gone
    <3>2. PaneTyped' /\ CopiesAreNobodys' /\ CopiesAreOld'
      BY <1>0, <2>1, <2>2, <3>1 DEF PaneInv, PaneTyped, CopiesAreNobodys, CopiesAreOld
    <3>3. Pane!ListIsNotCovered' /\ Pane!WaitIsExplained'
      BY <3>1 DEF Pane!ListIsNotCovered, Pane!WaitIsExplained
    <3> QED
      BY <3>2, <3>3 DEF PaneInv
  <2>4. CASE entries[pos] # Pane!List
    <3>1. PICK m \in Messages : m = entries[pos]
      BY <1>00, <2>4 DEF Pane!Paths
    <3>2. Pane!Ask(m, gone, FALSE)
      BY <1>7, <2>4, <3>1, Zenon DEF Pane!Reload, Forgotten
    <3> HIDE DEF gone
    <3> QED
      BY <2>1, <2>2, <3>2, PaneOpened
  <2> QED
    BY <2>3, <2>4
<1>8. ASSUME NEW k \in DOMAIN entries, Pane!Travel(k) PROVE PaneInv'
  <2>1. /\ cache' \in [Pane!Paths -> Content]
        /\ \A p \in Pane!Paths : /\ cache'[p].shows = "skeleton" => cache'[p].of = 0
                                 /\ cache'[p].of <= Len(opens)
    BY <1>8, Saved DEF Pane!Travel, PaneInv
  <2>2. PICK s \in {cache'[entries[k]], Pane!NothingShown} : pane' = Pane!Restored(entries[k], s)
    BY <1>8 DEF Pane!Travel
  <2>3. s \in Content /\ (s.shows = "skeleton" => s.of = 0) /\ s.of <= Len(opens)
    BY <1>0, <1>00, <2>1, <2>2
  <2>4. IF entries[k] = Pane!List THEN pane' = Pane!NothingShown ELSE pane' = s
    BY <2>2 DEF Pane!Restored
  <2>5. pos' = k /\ hpath' = entries[k] /\ UNCHANGED entries
    BY <1>8 DEF Pane!Travel
  <2>6. opens' \in Seq(Request) /\ Len(opens') = Len(opens)
    <3>1. opens' = [n \in 1..Len(opens) |-> [opens[n] EXCEPT !.live = FALSE]]
      BY <1>0, <1>8 DEF Pane!Travel
    <3>2. ASSUME NEW n \in 1..Len(opens) PROVE [opens[n] EXCEPT !.live = FALSE] \in Request
      <4>1. opens[n] \in Request
        BY DEF PaneInv, PaneTyped
      <4> QED
        BY <4>1 DEF Request
    <3>3. opens' \in [1..Len(opens) -> Request]
      BY <3>1, <3>2
    <3> QED
      BY <1>0, <3>3
  <2>7. pane' \in Content /\ pane'.of <= Len(opens) /\ (pane'.shows = "skeleton" => pane'.of = 0)
        /\ (entries[k] = Pane!List => pane'.shows = "nothing")
    BY <1>0, <2>3, <2>4
  <2>8. PaneTyped' /\ CopiesAreNobodys' /\ CopiesAreOld'
    BY <1>00, <2>1, <2>5, <2>6, <2>7 DEF PaneInv, PaneTyped, CopiesAreNobodys, CopiesAreOld
  <2>9. Pane!ListIsNotCovered'
    BY <2>5, <2>7 DEF Pane!ListIsNotCovered
  <2>10. Pane!WaitIsExplained'
    <3>1. DOMAIN opens' = 1..Len(opens)
      BY <2>6
    <3> QED
      BY <1>0, <2>7, <3>1 DEF Pane!WaitIsExplained
  <2> QED
    BY <2>8, <2>9, <2>10 DEF PaneInv
<1>9. CASE UNCHANGED Pane!paneVars
  <2>1. UNCHANGED <<pane, opens, entries, pos, hpath, cache>>
    BY <1>9 DEF Pane!paneVars
  <2> QED
    BY <2>1 DEF PaneInv, PaneTyped, CopiesAreNobodys, CopiesAreOld, Pane!ListIsNotCovered, Pane!WaitIsExplained
<1> QED
  BY <1>1, <1>2, <1>3, <1>4, <1>5, <1>6, <1>7, <1>8, <1>9 DEF Pane!Next

\* Whatever is saved, pushed or answered late (app.js, historyRestore and closeReadingPane),
\* nothing an earlier page left covers the list, for any messages, opens and turns.
THEOREM NotCovered == Spec => []ListIsNotCovered
<1>0. Pane!PaneAssumption
  BY PartsAssumption
<1>1. Pane!Init => PaneInv
  BY PaneInit
<1>2. PaneInv /\ [Pane!Next]_Pane!paneVars => PaneInv'
  BY <1>0, PaneStep
<1>3. PaneInv => ListIsNotCovered
  BY DEF PaneInv, ListIsNotCovered
<1> QED
  BY <1>1, <1>2, <1>3, PaneMoves, PTL DEF Pane!Spec

\* A request on its way behind the skeleton on screen says what it waits for, or its timer
\* will (app.js, readingWaits), whatever the other requests and the history do.
THEOREM WaitExplained == Spec => []WaitIsExplained
<1>0. Pane!PaneAssumption
  BY PartsAssumption
<1>1. Pane!Init => PaneInv
  BY PaneInit
<1>2. PaneInv /\ [Pane!Next]_Pane!paneVars => PaneInv'
  BY <1>0, PaneStep
<1>3. PaneInv => WaitIsExplained
  BY DEF PaneInv, WaitIsExplained
<1> QED
  BY <1>1, <1>2, <1>3, PaneMoves, PTL DEF Pane!Spec

-----------------------------------------------------------------------------
(* The compose window: Compose *)

\* Seen from the window, the page's steps are the window's or none.
LEMMA WindowMoves == Spec => Window!Spec
<1>1. Init => Window!Init
  BY DEF Init
<1>2. [Next]_pageVars => [Window!Next]_Window!composeVars
  BY DEF Next, pageVars, windowPart, Window!composeVars
<1> QED
  BY <1>1, <1>2, PTL DEF Spec, Window!Spec

\* A window; only one that is open has a guard.
FormType == {w \in [no : 0..MaxForms, text : Nat, base : Nat, guard : BOOLEAN, items : Seq(Int),
                    draft : Nat] : w.guard => w.no # 0}
SaveType == [at : {"none", "sent", "made", "stored"}, text : Nat, items : Seq(Int), draft : Nat]
SendType == [at : {"none", "sent", "ok", "refused"}, no : 0..MaxForms, text : Nat, items : Seq(Int), draft : Nat]
Line     == [no : Window!Forms, text : Nat, files : Seq(Int), gone : BOOLEAN]
Mail     == [no : Window!Forms, files : Seq(Int)]
LeftType == [forms : 0..MaxForms, edits : Nat, files : Nat, saves : Nat, sends : Nat, faults : Nat]

\* The windows there were so far.
Used == MaxForms - left.forms

\* The types the facts below speak of. Whatever names a draft names one there is.
WindowTyped ==
  /\ form \in FormType /\ form.draft <= Len(drafts)
  /\ saves \in [Window!Forms -> SaveType] /\ (\A f \in Window!Forms : saves[f].draft <= Len(drafts))
  /\ send \in SendType /\ send.draft <= Len(drafts) /\ (send.at # "none" => send.no # 0)
  /\ drafts \in Seq(Line) /\ sent \in Seq(Mail)
  /\ left \in LeftType /\ attach \in Nat

\* A window still to come has left no trace.
Untraced ==
  /\ form.no <= Used
  /\ \A f \in Window!Forms : saves[f].at # "none" => f <= Used
  /\ send.at # "none" => send.no <= Used
  /\ \A d \in DOMAIN drafts : drafts[d].no <= Used
  /\ \A m \in DOMAIN sent : sent[m].no <= Used

\* A window that is being sent is locked while it is on screen.
IsLocked == send.at # "none" /\ form.no = send.no => sending

Clear(f) == f \notin lost /\ f \notin crossed
Lines(f) == {d \in DOMAIN drafts : drafts[d].no = f}
Sent(f)  == \E m \in DOMAIN sent : sent[m].no = f

\* What may still write window f's draft knows the draft it has.
Knows(f, d) ==
  /\ saves[f].at # "none" => d = saves[f].draft
  /\ send.at \in {"sent", "refused"} /\ send.no = f => d = send.draft
  /\ form.no = f => d = form.draft \/ saves[f].at = "made" \/ (send.at = "refused" /\ send.no = f)

\* A window that went out has nothing left that could write a draft.
Finished(f) ==
  /\ \A d \in Lines(f) : drafts[d].gone
  /\ saves[f].at = "none"
  /\ send.at # "none" /\ send.no = f => send.at = "ok"
  /\ form.no = f => send.at = "ok" /\ send.no = f

\* What holds of a window none of whose answers was lost and that nothing crossed.
Story(f) ==
  /\ send.at # "none" /\ send.no = f => saves[f].at = "none"
  /\ \A d \in Lines(f) : Knows(f, d)
  /\ \A d, e \in Lines(f) : d = e
  /\ Sent(f) => Finished(f)

Stories == \A f \in Window!Forms : Clear(f) => Story(f)

WindowInv == WindowTyped /\ Untraced /\ IsLocked /\ Stories

LEMMA WindowInit == ASSUME Window!ComposeAssumption, Window!Init PROVE WindowInv
<1>1. form = [no |-> 0, text |-> 0, base |-> 0, guard |-> FALSE, items |-> <<>>, draft |-> 0]
  BY DEF Window!Init, Window!NoForm
<1>2. form \in FormType /\ form.draft = 0 /\ form.no = 0
  BY <1>1 DEF FormType, Window!ComposeAssumption
<1>3. Window!NoSave \in SaveType /\ Window!NoSave.at = "none" /\ Window!NoSave.draft = 0
  BY DEF Window!NoSave, SaveType
<1>4. saves \in [Window!Forms -> SaveType] /\ \A f \in Window!Forms : saves[f].at = "none" /\ saves[f].draft = 0
  BY <1>3 DEF Window!Init
<1>5. send \in SendType /\ send.at = "none" /\ send.draft = 0
  BY DEF Window!Init, Window!NoSend, SendType, Window!ComposeAssumption
<1>6. drafts \in Seq(Line) /\ Len(drafts) = 0 /\ sent \in Seq(Mail) /\ Len(sent) = 0
      /\ DOMAIN drafts = {} /\ DOMAIN sent = {}
  BY DEF Window!Init
<1>7. left \in LeftType /\ left.forms = MaxForms /\ attach \in Nat
  BY DEF Window!Init, LeftType, Window!ComposeAssumption
<1>8. WindowTyped
  BY <1>2, <1>4, <1>5, <1>6, <1>7 DEF WindowTyped
<1>9. Untraced /\ IsLocked
  BY <1>2, <1>4, <1>5, <1>6, <1>7 DEF Untraced, IsLocked, Used, Window!ComposeAssumption
<1>10. Stories
  BY <1>5, <1>6 DEF Stories, Story, Lines, Sent
<1> QED
  BY <1>8, <1>9, <1>10 DEF WindowInv

-----------------------------------------------------------------------------
\* The parts of a step

LEMMA Spending ==
  ASSUME left \in LeftType,
         NEW what \in {"edits", "files", "saves", "sends", "faults"}, Window!Spend(what)
  PROVE  left' \in LeftType /\ left'.forms = left.forms
  BY DEF Window!Spend, LeftType

LEMMA SpendingForms ==
  ASSUME MaxForms \in Nat, left \in LeftType, Window!Spend("forms")
  PROVE  left' \in LeftType /\ left'.forms = left.forms - 1 /\ left.forms \in 1..MaxForms
  BY DEF Window!Spend, LeftType

\* No window is on screen, and none is locked.
LEMMA NoWindow == ASSUME Window!ComposeAssumption
                  PROVE  Window!NoForm \in FormType /\ Window!NoForm.no = 0 /\ Window!NoForm.draft = 0
  BY DEF Window!NoForm, FormType, Window!ComposeAssumption

LEMMA NoneSaved == Window!NoSave \in SaveType /\ Window!NoSave.at = "none" /\ Window!NoSave.draft = 0
  BY DEF Window!NoSave, SaveType

LEMMA NoneSent == ASSUME Window!ComposeAssumption
                  PROVE  Window!NoSend \in SendType /\ Window!NoSend.at = "none" /\ Window!NoSend.draft = 0
  BY DEF Window!NoSend, SendType, Window!ComposeAssumption

\* The save of window g becomes s.
SaveIs(g, s) ==
  /\ saves' \in [Window!Forms -> SaveType] /\ saves'[g] = s
  /\ \A f \in Window!Forms : f # g => saves'[f] = saves[f]

LEMMA SaveBecomes ==
  ASSUME saves \in [Window!Forms -> SaveType], NEW g \in Window!Forms, NEW s \in SaveType,
         saves' = [saves EXCEPT ![g] = s]
  PROVE  SaveIs(g, s)
  BY DEF SaveIs

\* A save goes out with the window as it is.
Leaves(w) == \E s \in SaveType : s.at = "sent" /\ s.draft = w.draft /\ SaveIs(w.no, s)

LEMMA Issued ==
  ASSUME saves \in [Window!Forms -> SaveType], NEW w \in FormType, w.no # 0, Window!IssueSave(w)
  PROVE  Leaves(w) /\ attach' \in Nat
<1>1. w.no \in Window!Forms /\ w.items \in Seq(Int) /\ w.text \in Nat /\ w.draft \in Nat
  BY DEF FormType, Window!Forms
<1>2. PICK s : s = [at |-> "sent", text |-> w.text, items |-> w.items, draft |-> w.draft]
  OBVIOUS
<1>3. s \in SaveType /\ s.at = "sent" /\ s.draft = w.draft
  BY <1>1, <1>2 DEF SaveType
<1>4. saves' = [saves EXCEPT ![w.no] = s]
  BY <1>2 DEF Window!IssueSave
<1>5. attach' \in Nat
  BY <1>1 DEF Window!IssueSave
<1> QED
  BY <1>1, <1>3, <1>4, <1>5, SaveBecomes DEF Leaves

\* The rows after a save or a refused send wrote one of window no: at most one is new,
\* and none changes hands.
Written(r, no) ==
  /\ drafts' \in Seq(Line)
  /\ Len(drafts') = IF r.draft = 0 THEN Len(drafts) + 1 ELSE Len(drafts)
  /\ \A d \in 1..Len(drafts) : drafts'[d].no = drafts[d].no /\ drafts'[d].gone = drafts[d].gone
  /\ r.draft = 0 => drafts'[Len(drafts) + 1].no = no

LEMMA Writes ==
  ASSUME drafts \in Seq(Line), NEW r, r.text \in Nat, r.items \in Seq(Int), r.draft \in 0..Len(drafts),
         NEW no \in Window!Forms, Window!Upsert(r, no)
  PROVE  Written(r, no)
<1>0. Len(drafts) \in Nat /\ DOMAIN drafts = 1..Len(drafts)
  OBVIOUS
<1>1. CASE r.draft = 0
  <2>1. PICK l : l = [no |-> no, text |-> r.text, files |-> r.items, gone |-> FALSE]
    OBVIOUS
  <2>2. l \in Line /\ l.no = no
    BY <2>1 DEF Line
  <2>3. drafts' = Append(drafts, l)
    BY <1>1, <2>1 DEF Window!Upsert
  <2>4. /\ Append(drafts, l) \in Seq(Line) /\ Len(Append(drafts, l)) = Len(drafts) + 1
        /\ \A d \in 1..Len(drafts) : Append(drafts, l)[d] = drafts[d]
        /\ Append(drafts, l)[Len(drafts) + 1] = l
    BY <2>2, AppendProperties
  <2> QED
    BY <1>1, <2>2, <2>3, <2>4 DEF Written
<1>2. CASE r.draft # 0 /\ drafts[r.draft].gone
  <2>1. drafts' = drafts
    BY <1>2 DEF Window!Upsert
  <2> QED
    BY <1>2, <2>1 DEF Written
<1>3. CASE r.draft # 0 /\ ~drafts[r.draft].gone
  <2> DEFINE d == r.draft
  <2>0. d \in 1..Len(drafts) /\ drafts[d] \in Line
    BY <1>0, <1>3
  <2>1. PICK fs \in Seq(Int) : fs = drafts[d].files \o r.items
    <3>1. drafts[d].files \in Seq(Int)
      BY <2>0 DEF Line
    <3>2. PICK a \in Seq(Int), b \in Seq(Int) : a = drafts[d].files /\ b = r.items
      BY <3>1
    <3>3. a \o b \in Seq(Int)
      BY ConcatProperties
    <3> QED
      BY <3>2, <3>3
  <2>2. PICK t \in Nat : t = r.text
    OBVIOUS
  <2>3. PICK l : l = [drafts[d] EXCEPT !.text = t, !.files = fs]
    OBVIOUS
  <2>4. l \in Line /\ l.no = drafts[d].no /\ l.gone = drafts[d].gone
    BY <2>0, <2>3 DEF Line
  <2>5. drafts' = [drafts EXCEPT ![d] = l]
    <3>1. drafts' = [drafts EXCEPT ![d].text = t, ![d].files = @ \o r.items]
      BY <1>3, <2>2, Zenon DEF Window!Upsert
    <3>2. PICK b : b = r.items
      OBVIOUS
    <3>3. drafts' = [drafts EXCEPT ![d].text = t, ![d].files = @ \o b]
      BY <3>1, <3>2
    <3>4. fs = drafts[d].files \o b
      BY <2>1, <3>2
    <3> HIDE DEF d
    <3> QED
      BY <1>0, <2>0, <2>3, <3>3, <3>4
  <2> HIDE DEF d
  <2>6. /\ [drafts EXCEPT ![d] = l] \in Seq(Line) /\ Len([drafts EXCEPT ![d] = l]) = Len(drafts)
        /\ \A e \in 1..Len(drafts) : [drafts EXCEPT ![d] = l][e] = IF e = d THEN l ELSE drafts[e]
    BY <2>0, <2>4, ExceptSeq
  <2>7. \A e \in 1..Len(drafts) : drafts'[e].no = drafts[e].no /\ drafts'[e].gone = drafts[e].gone
    BY <2>4, <2>5, <2>6
  <2> QED
    BY <1>3, <2>5, <2>6, <2>7 DEF Written, d
<1> QED
  BY <1>1, <1>2, <1>3

\* A step that leaves the rows, the messages and the send alone: on screen is the window
\* that was, or none; its saves go out, or are over.
LEMMA Screens ==
  ASSUME Window!ComposeAssumption, WindowInv,
         UNCHANGED <<send, drafts, sent>>, left' \in LeftType, left'.forms = left.forms,
         attach' \in Nat, lost \subseteq lost', crossed \subseteq crossed',
         form' \in FormType, form'.draft <= Len(drafts), form'.no \in {0, form.no},
         form'.no # 0 => sending' = sending,
         saves' \in [Window!Forms -> SaveType],
         \A f \in Window!Forms :
           /\ saves'[f].draft <= Len(drafts)
           /\ saves'[f] = saves[f] \/ saves'[f].at = "none" \/ (f = form.no /\ ~sending)
           /\ Clear(f)' => \A d \in Lines(f) :
                /\ saves'[f].at # "none" => d = saves'[f].draft
                /\ form'.no = f => d = form'.draft \/ saves'[f].at = "made"
                                   \/ (send.at = "refused" /\ send.no = f)
  PROVE  WindowInv'
<1>1. WindowTyped'
  BY DEF WindowInv, WindowTyped
<1>0. left.forms \in 0..MaxForms /\ MaxForms \in Nat /\ form.no \in Nat /\ Used \in Nat /\ Used' = Used
      /\ Window!Forms = 1..MaxForms
  <2>1. left \in LeftType /\ form \in FormType /\ MaxForms \in Nat
    BY DEF WindowInv, WindowTyped, Window!ComposeAssumption
  <2>2. left.forms \in 0..MaxForms /\ form.no \in 0..MaxForms
    BY <2>1 DEF LeftType, FormType
  <2> QED
    BY <2>1, <2>2 DEF Used, Window!Forms
<1>2. Untraced'
  BY <1>0 DEF WindowInv, Untraced
<1>3. IsLocked'
  BY <1>0 DEF WindowInv, WindowTyped, IsLocked
<1>4. ASSUME NEW f \in Window!Forms, Clear(f)' PROVE Story(f)'
  <2>1. Clear(f)
    BY <1>4 DEF Clear
  <2>2. Story(f)
    BY <2>1 DEF WindowInv, Stories
  <2>3. Lines(f)' = Lines(f) /\ Sent(f)' = Sent(f) /\ f # 0
    BY <1>0 DEF Lines, Sent
  <2>4. send.at # "none" /\ send.no = f => saves'[f].at = "none"
    BY <2>2 DEF Story, WindowInv, IsLocked
  <2>5. \A d \in Lines(f) : Knows(f, d)'
    BY <1>4, <2>2, <2>3 DEF Knows, Story
  <2>6. Sent(f) => Finished(f)'
    <3>1. Sent(f) => Finished(f)
      BY <2>2 DEF Story
    <3>2. Finished(f) /\ form.no = f => sending
      BY DEF Finished, WindowInv, IsLocked
    <3>3. Finished(f) => saves'[f].at = "none"
      BY <3>2 DEF Finished
    <3> QED
      BY <2>3, <3>1, <3>3 DEF Finished
  <2> QED
    BY <2>2, <2>3, <2>4, <2>5, <2>6 DEF Story
<1> QED
  BY <1>1, <1>2, <1>3, <1>4 DEF WindowInv, Stories

\* Nothing but the window on screen changes, and it stays the same one or goes.
LEMMA OnScreen ==
  ASSUME Window!ComposeAssumption, WindowInv,
         UNCHANGED <<saves, send, drafts, sent, attach, lost, crossed>>,
         left' \in LeftType, left'.forms = left.forms, form' \in FormType,
         \/ form'.no = form.no /\ form'.draft = form.draft /\ sending' = sending
         \/ form'.no = 0 /\ form'.draft = 0
  PROVE  WindowInv'
<1>1. form'.draft <= Len(drafts) /\ (form'.no # 0 => sending' = sending) /\ form'.no \in {0, form.no}
  BY DEF WindowInv, WindowTyped
<1>2. ASSUME NEW f \in Window!Forms, Clear(f)', NEW d \in Lines(f)
      PROVE  /\ saves'[f].at # "none" => d = saves'[f].draft
             /\ form'.no = f => d = form'.draft \/ saves'[f].at = "made"
                                \/ (send.at = "refused" /\ send.no = f)
  <2>1. Knows(f, d)
    BY <1>2 DEF WindowInv, Stories, Story, Clear
  <2>2. f # 0
    BY DEF Window!Forms
  <2> QED
    BY <2>1, <2>2 DEF Knows
<1>3. \A f \in Window!Forms : saves'[f].draft <= Len(drafts)
  BY DEF WindowInv, WindowTyped
<1>4. saves' \in [Window!Forms -> SaveType] /\ attach' \in Nat
  BY DEF WindowInv, WindowTyped
<1> QED
  BY <1>1, <1>2, <1>3, <1>4, Screens

\* A save that leaves, with the draft every row of this window is.
LEMMA SaveLeaves ==
  ASSUME Window!ComposeAssumption, WindowInv,
         UNCHANGED <<send, drafts, sent>>, left' \in LeftType, left'.forms = left.forms,
         attach' \in Nat, lost \subseteq lost', crossed \subseteq crossed',
         form' \in FormType, form'.draft <= Len(drafts), form'.no = form.no, form.no # 0,
         ~sending, sending' = sending, Leaves(form'),
         Clear(form.no)' => \A d \in Lines(form.no) : d = form'.draft
  PROVE  WindowInv'
<1>1. PICK s \in SaveType : s.at = "sent" /\ s.draft = form'.draft /\ SaveIs(form.no, s)
  BY DEF Leaves
<1>2. form.no \in Window!Forms
  BY DEF FormType, Window!Forms
<1>3. ASSUME NEW f \in Window!Forms, Clear(f)', NEW d \in Lines(f)
      PROVE  /\ saves'[f].at # "none" => d = saves'[f].draft
             /\ form'.no = f => d = form'.draft \/ saves'[f].at = "made"
                                \/ (send.at = "refused" /\ send.no = f)
  <2>1. Knows(f, d)
    BY <1>3 DEF WindowInv, Stories, Story, Clear
  <2>2. CASE f = form.no
    BY <1>1, <1>3, <2>2 DEF SaveIs
  <2>3. CASE f # form.no
    BY <1>1, <2>1, <2>3 DEF SaveIs, Knows
  <2> QED
    BY <2>2, <2>3
<1>4. \A f \in Window!Forms : /\ saves'[f].draft <= Len(drafts)
                              /\ saves'[f] = saves[f] \/ (f = form.no /\ ~sending)
  BY <1>1 DEF SaveIs, WindowInv, WindowTyped
<1>5. saves' \in [Window!Forms -> SaveType] /\ form'.no \in {0, form.no}
  BY <1>1 DEF SaveIs
<1> QED
  BY <1>3, <1>4, <1>5, Screens

\* A save is pressed: it leaves, or waits for the one that is under way.
LEMMA Pressed ==
  ASSUME Window!ComposeAssumption, WindowInv,
         UNCHANGED <<send, drafts, sent, lost, crossed>>, left' \in LeftType, left'.forms = left.forms,
         form' \in FormType, form'.no = form.no, form'.draft = form.draft, form.no # 0,
         ~sending, sending' = sending, Window!PressSave
  PROVE  WindowInv'
<1>0. form.no \in Window!Forms /\ form.draft <= Len(drafts)
  BY DEF WindowInv, WindowTyped, FormType, Window!Forms
<1>1. CASE saves[form.no].at = "none"
  <2>1. Leaves(form') /\ attach' \in Nat
    <3>1. Window!IssueSave(form')
      BY <1>1 DEF Window!PressSave
    <3> QED
      BY <3>1, Issued DEF WindowInv, WindowTyped
  <2>2. ASSUME Clear(form.no), NEW d \in Lines(form.no) PROVE d = form.draft
    <3>1. Knows(form.no, d)
      BY <1>0, <2>2 DEF WindowInv, Stories, Story
    <3>2. ~(send.at = "refused" /\ send.no = form.no)
      BY DEF WindowInv, IsLocked
    <3> QED
      BY <1>1, <3>1, <3>2 DEF Knows
  <2> QED
    BY <1>0, <2>1, <2>2, SaveLeaves DEF Clear
<1>2. CASE saves[form.no].at # "none"
  <2>1. UNCHANGED <<saves, attach>>
    BY <1>2 DEF Window!PressSave
  <2> QED
    BY <2>1, OnScreen
<1> QED
  BY <1>1, <1>2

\* A save that is over, of a window whose rows the one on screen knows if it is that one.
LEMMA SaveIsOver ==
  ASSUME Window!ComposeAssumption, WindowInv, NEW g \in Window!Forms,
         saves' = [saves EXCEPT ![g] = Window!NoSave],
         UNCHANGED <<send, drafts, sent>>, left' \in LeftType, left'.forms = left.forms,
         attach' \in Nat, lost \subseteq lost', crossed \subseteq crossed',
         form' \in FormType, form'.draft <= Len(drafts), form'.no \in {0, form.no},
         form'.no # 0 => sending' = sending,
         \A f \in Window!Forms : form'.no = f /\ Clear(f)' =>
           IF f = g THEN \A d \in Lines(f) : d = form'.draft \/ (send.at = "refused" /\ send.no = f)
                    ELSE form'.draft = form.draft
  PROVE  WindowInv'
<1>1. SaveIs(g, Window!NoSave) /\ Window!NoSave.at = "none" /\ Window!NoSave.draft = 0
  BY NoneSaved, SaveBecomes DEF WindowInv, WindowTyped
<1>2. ASSUME NEW f \in Window!Forms, Clear(f)', NEW d \in Lines(f)
      PROVE  /\ saves'[f].at # "none" => d = saves'[f].draft
             /\ form'.no = f => d = form'.draft \/ saves'[f].at = "made"
                                \/ (send.at = "refused" /\ send.no = f)
  <2>1. Knows(f, d) /\ f # 0
    BY <1>2 DEF WindowInv, Stories, Story, Clear, Window!Forms
  <2>2. CASE f = g
    BY <1>1, <1>2, <2>2 DEF SaveIs
  <2>3. CASE f # g
    BY <1>1, <1>2, <2>1, <2>3 DEF SaveIs, Knows
  <2> QED
    BY <2>2, <2>3
<1>3. ASSUME NEW f \in Window!Forms
      PROVE  saves'[f].draft <= Len(drafts) /\ (saves'[f] = saves[f] \/ saves'[f].at = "none")
  <2>1. 0 <= Len(drafts) /\ saves[f].draft <= Len(drafts)
    BY DEF WindowInv, WindowTyped
  <2> QED
    BY <1>1, <2>1 DEF SaveIs
<1>4. saves' \in [Window!Forms -> SaveType]
  BY <1>1 DEF SaveIs
<1> QED
  BY <1>2, <1>3, <1>4, Screens

LEMMA Removed == ASSUME NEW s \in Seq(Int), NEW i \in DOMAIN s PROVE Dropped(s, i) \in Seq(Int)
<1>1. SubSeq(s, 1, i - 1) \in Seq(Int) /\ SubSeq(s, i + 1, Len(s)) \in Seq(Int)
  BY SubSeqProperties
<1>2. PICK a \in Seq(Int), b \in Seq(Int) : a = SubSeq(s, 1, i - 1) /\ b = SubSeq(s, i + 1, Len(s))
  BY <1>1
<1>3. a \o b \in Seq(Int)
  BY ConcatProperties
<1> QED
  BY <1>2, <1>3 DEF Dropped

\* The user's hand on the window, its guard and its save buttons.
LEMMA HandStep ==
  ASSUME Window!ComposeAssumption, WindowInv,
         \/ Window!AskWindow \/ Window!Type \/ Window!Pick
         \/ \E i \in DOMAIN form.items : Window!RemoveFile(i)
         \/ Window!Close \/ Window!GuardKeep \/ Window!GuardDiscard \/ Window!GuardSave \/ Window!Save
  PROVE  WindowInv'
<1>0. form \in FormType /\ form.text \in Nat /\ form.items \in Seq(Int) /\ left \in LeftType
      /\ left.files \in Nat /\ MaxFiles \in Nat
  BY DEF WindowInv, WindowTyped, FormType, LeftType, Window!ComposeAssumption
<1>1. CASE Window!AskWindow
  BY <1>0, <1>1, OnScreen DEF Window!AskWindow
<1>2. CASE Window!Type
  <2>0. PICK n \in Nat : n = form.text + 1
    BY <1>0
  <2>1. form' = [form EXCEPT !.text = n]
    BY <1>2, <2>0 DEF Window!Type
  <2>2. form' \in FormType /\ form'.no = form.no /\ form'.draft = form.draft
    BY <1>0, <2>1 DEF FormType
  <2>3. left' \in LeftType /\ left'.forms = left.forms
    BY <1>0, <1>2, Spending DEF Window!Type
  <2> QED
    BY <1>2, <2>2, <2>3, OnScreen DEF Window!Type
<1>3. CASE Window!Pick
  <2>1. PICK its \in Seq(Int) : its = Append(form.items, MaxFiles - left.files + 1)
    <3>1. PICK a \in Seq(Int), n \in Int : a = form.items /\ n = MaxFiles - left.files + 1
      BY <1>0
    <3>2. Append(a, n) \in Seq(Int)
      BY AppendProperties
    <3> QED
      BY <3>1, <3>2
  <2>2. form' = [form EXCEPT !.items = its]
    BY <1>3, <2>1 DEF Window!Pick
  <2>3. form' \in FormType /\ form'.no = form.no /\ form'.draft = form.draft
    BY <1>0, <2>2 DEF FormType
  <2>4. left' \in LeftType /\ left'.forms = left.forms
    BY <1>0, <1>3, Spending DEF Window!Pick
  <2> QED
    BY <1>3, <2>3, <2>4, OnScreen DEF Window!Pick
<1>4. ASSUME NEW i \in DOMAIN form.items, Window!RemoveFile(i) PROVE WindowInv'
  <2>1. PICK its \in Seq(Int) : its = Dropped(form.items, i)
    BY <1>0, Removed
  <2>2. form' = [form EXCEPT !.items = its]
    BY <1>4, <2>1 DEF Window!RemoveFile, Dropped
  <2>3. form' \in FormType /\ form'.no = form.no /\ form'.draft = form.draft
    BY <1>0, <2>2 DEF FormType
  <2> QED
    BY <1>0, <1>4, <2>3, OnScreen DEF Window!RemoveFile
<1>5. CASE Window!Close
  <2>1. UNCHANGED <<saves, send, drafts, sent, left, attach, lost, crossed>>
    BY <1>5 DEF Window!Close
  <2>2. CASE form' = [form EXCEPT !.guard = TRUE] /\ UNCHANGED sending
    <3>1. form.no # 0
      BY <1>5 DEF Window!Close, Window!InHand, Window!IsOpen
    <3>2. form' \in FormType /\ form'.no = form.no /\ form'.draft = form.draft
      BY <1>0, <2>2, <3>1 DEF FormType
    <3> QED
      BY <1>0, <2>1, <2>2, <3>2, OnScreen
  <2>3. CASE form' = Window!NoForm
    BY <1>0, <2>1, <2>3, NoWindow, OnScreen
  <2> QED
    BY <1>5, <2>2, <2>3 DEF Window!Close, Window!ForceClose
<1>6. CASE Window!GuardKeep
  <2>1. form' = [form EXCEPT !.guard = FALSE]
    BY <1>6 DEF Window!GuardKeep
  <2>2. form' \in FormType /\ form'.no = form.no /\ form'.draft = form.draft
    BY <1>0, <2>1 DEF FormType
  <2> QED
    BY <1>0, <1>6, <2>2, OnScreen DEF Window!GuardKeep
<1>7. CASE Window!GuardDiscard
  BY <1>0, <1>7, NoWindow, OnScreen DEF Window!GuardDiscard, Window!ForceClose
<1>8. CASE Window!GuardSave
  <2>1. form' = [form EXCEPT !.guard = FALSE]
    BY <1>8 DEF Window!GuardSave
  <2>2. form' \in FormType /\ form'.no = form.no /\ form'.draft = form.draft
    BY <1>0, <2>1 DEF FormType
  <2>3. left' \in LeftType /\ left'.forms = left.forms
    BY <1>0, <1>8, Spending DEF Window!GuardSave
  <2>4. form.no # 0
    <3>1. form.guard
      BY <1>8 DEF Window!GuardSave
    <3> QED
      BY <1>0, <3>1 DEF FormType
  <2> QED
    BY <1>8, <2>2, <2>3, <2>4, Pressed DEF Window!GuardSave
<1>9. CASE Window!Save
  <2>1. left' \in LeftType /\ left'.forms = left.forms
    BY <1>0, <1>9, Spending DEF Window!Save
  <2> QED
    BY <1>0, <1>9, <2>1, Pressed DEF Window!Save, Window!IsOpen, Window!Locked
<1> QED
  BY <1>1, <1>2, <1>3, <1>4, <1>5, <1>6, <1>7, <1>8, <1>9

LEMMA ArrivesStep == ASSUME Window!ComposeAssumption, WindowInv, Window!WindowArrives PROVE WindowInv'
<1>1. MaxForms \in Nat /\ left \in LeftType /\ left.forms \in 0..MaxForms /\ Window!Forms = 1..MaxForms
      /\ form.no \in Nat
  <2>1. MaxForms \in Nat /\ left \in LeftType /\ form \in FormType
    BY DEF Window!ComposeAssumption, WindowInv, WindowTyped
  <2> QED
    BY <2>1 DEF LeftType, Window!Forms, FormType
<1>2. left' \in LeftType /\ left'.forms = left.forms - 1 /\ left.forms \in 1..MaxForms
  BY <1>1, SpendingForms DEF Window!WindowArrives
<1>3. PICK n \in Nat : n = MaxForms - left.forms + 1
  BY <1>1
<1>4. n = Used + 1 /\ Used' = Used + 1 /\ Used \in Nat /\ n \in 1..MaxForms
  BY <1>1, <1>2, <1>3 DEF Used
<1>5. form' \in FormType /\ form'.no = n /\ form'.draft = 0
  <2>1. PICK w : w = Window!NoForm
    OBVIOUS
  <2>2. w \in FormType /\ w.draft = 0 /\ ~w.guard
    BY <2>1, NoWindow DEF Window!NoForm
  <2>3. form' = [w EXCEPT !.no = n]
    BY <1>3, <2>1 DEF Window!WindowArrives
  <2> QED
    BY <1>4, <2>2, <2>3 DEF FormType
<1>6. UNCHANGED <<attach, saves, send, drafts, sent, lost, crossed>>
  BY DEF Window!WindowArrives
<1>7. WindowTyped'
  BY <1>2, <1>5, <1>6 DEF WindowInv, WindowTyped
<1>m. /\ \A d \in DOMAIN drafts : drafts[d].no \in Nat /\ drafts[d].no <= Used
      /\ \A m \in DOMAIN sent : sent[m].no \in Nat /\ sent[m].no <= Used
  <2>1. \A d \in DOMAIN drafts : drafts[d] \in Line
    BY DEF WindowInv, WindowTyped
  <2>2. \A m \in DOMAIN sent : sent[m] \in Mail
    BY DEF WindowInv, WindowTyped
  <2>3. \A d \in DOMAIN drafts : drafts[d].no \in Nat
    BY <1>1, <2>1 DEF Line
  <2>4. \A m \in DOMAIN sent : sent[m].no \in Nat
    BY <1>1, <2>2 DEF Mail
  <2> QED
    BY <2>3, <2>4 DEF WindowInv, Untraced
<1>8. Untraced' /\ IsLocked'
  <2>1. /\ \A f \in Window!Forms : saves[f].at # "none" => f <= Used
        /\ send.at # "none" => send.no <= Used
    BY DEF WindowInv, Untraced
  <2>2. send.at # "none" => send.no \in Nat
    BY DEF WindowInv, WindowTyped, SendType
  <2>4. Untraced'
    BY <1>1, <1>4, <1>5, <1>6, <1>m, <2>1, <2>2 DEF Untraced
  <2>5. IsLocked'
    BY <1>4, <1>5, <1>6, <2>1, <2>2 DEF IsLocked
  <2> QED
    BY <2>4, <2>5
<1>9. ASSUME NEW f \in Window!Forms, Clear(f)' PROVE Story(f)'
  <2>1. Story(f)
    BY <1>6, <1>9 DEF WindowInv, Stories, Clear
  <2>2. Lines(f)' = Lines(f) /\ Sent(f)' = Sent(f)
    BY <1>6 DEF Lines, Sent
  <2>3. CASE f = n
    <3>1. Lines(f) = {} /\ ~Sent(f)
      <4>1. \A d \in DOMAIN drafts : drafts[d].no # n
        BY <1>4, <1>m
      <4>2. \A m \in DOMAIN sent : sent[m].no # n
        BY <1>4, <1>m
      <4> QED
        BY <2>3, <4>1, <4>2 DEF Lines, Sent
    <3> QED
      BY <1>6, <2>1, <2>2, <3>1 DEF Story
  <2>4. CASE f # n
    BY <1>5, <1>6, <2>1, <2>2, <2>4 DEF Story, Knows, Finished
  <2> QED
    BY <2>3, <2>4
<1> QED
  BY <1>7, <1>8, <1>9 DEF WindowInv, Stories

\* Whose the rows are after one was written.
LEMMA LinesWritten ==
  ASSUME drafts \in Seq(Line), NEW r, NEW no \in Window!Forms, Written(r, no), NEW f
  PROVE  /\ Lines(f)' = IF r.draft = 0 /\ f = no THEN Lines(f) \cup {Len(drafts) + 1} ELSE Lines(f)
         /\ \A d \in Lines(f) : drafts'[d].gone = drafts[d].gone /\ d \in 1..Len(drafts)
<1>1. Len(drafts) \in Nat /\ DOMAIN drafts = 1..Len(drafts) /\ DOMAIN drafts' = 1..Len(drafts')
  BY DEF Written
<1>2. \A d \in 1..Len(drafts) : drafts'[d].no = drafts[d].no /\ drafts'[d].gone = drafts[d].gone
  BY DEF Written
<1>3. CASE r.draft = 0
  <2>1. DOMAIN drafts' = 1..Len(drafts) \cup {Len(drafts) + 1} /\ drafts'[Len(drafts) + 1].no = no
    BY <1>1, <1>3 DEF Written
  <2> QED
    BY <1>1, <1>2, <1>3, <2>1 DEF Lines
<1>4. CASE r.draft # 0
  <2>1. DOMAIN drafts' = 1..Len(drafts)
    BY <1>1, <1>4 DEF Written
  <2> QED
    BY <1>1, <1>2, <1>4, <2>1 DEF Lines
<1> QED
  BY <1>3, <1>4

\* A row written takes no window's mark away and gives only its own.
LEMMA UntracedWritten ==
  ASSUME Window!ComposeAssumption, WindowInv, NEW r, NEW no \in Window!Forms, no <= Used, Written(r, no),
         left' = left
  PROVE  /\ \A d \in DOMAIN drafts' : drafts'[d].no <= Used'
         /\ Len(drafts') \in Nat /\ Len(drafts) <= Len(drafts')
<1>1. Len(drafts) \in Nat /\ Len(drafts') \in Nat /\ DOMAIN drafts = 1..Len(drafts)
      /\ DOMAIN drafts' = 1..Len(drafts') /\ Used' = Used
  BY DEF Written, WindowInv, WindowTyped, Used
<1>2. \A d \in 1..Len(drafts) : drafts'[d].no <= Used
  BY <1>1 DEF Written, WindowInv, Untraced
<1>3. CASE r.draft = 0
  <2>1. Len(drafts') = Len(drafts) + 1 /\ drafts'[Len(drafts) + 1].no = no
    BY <1>3 DEF Written
  <2> QED
    BY <1>1, <1>2, <2>1
<1>4. CASE r.draft # 0
  <2>1. Len(drafts') = Len(drafts)
    BY <1>4 DEF Written
  <2> QED
    BY <1>1, <1>2, <2>1
<1> QED
  BY <1>3, <1>4

LEMMA StoreSaveStep ==
  ASSUME Window!ComposeAssumption, WindowInv, NEW g \in Window!Forms, Window!StoreSave(g)
  PROVE  WindowInv'
<1>1. saves[g] \in SaveType /\ saves[g].at = "sent" /\ saves[g].draft \in 0..Len(drafts) /\ Len(drafts) \in Nat
      /\ saves[g].text \in Nat /\ saves[g].items \in Seq(Int)
  <2>1. saves[g] \in SaveType /\ saves[g].draft <= Len(drafts) /\ Len(drafts) \in Nat
    BY DEF WindowInv, WindowTyped
  <2>2. saves[g].at = "sent"
    BY DEF Window!StoreSave
  <2> QED
    BY <2>1, <2>2 DEF SaveType
<1>2. Written(saves[g], g)
  <2>1. Window!Upsert(saves[g], g)
    BY DEF Window!StoreSave
  <2> QED
    BY <1>1, <2>1, Writes DEF WindowInv, WindowTyped
<1>3. UNCHANGED <<form, sending, send, sent, left, attach, lost, crossed>>
  BY DEF Window!StoreSave
<1>4. PICK s \in SaveType :
        /\ s.at = IF saves[g].draft = 0 THEN "made" ELSE "stored"
        /\ s.draft = IF saves[g].draft = 0 THEN Len(drafts) + 1 ELSE saves[g].draft
        /\ SaveIs(g, s)
  <2>1. PICK a \in {"made", "stored"} : a = IF saves[g].draft = 0 THEN "made" ELSE "stored"
    OBVIOUS
  <2>2. PICK d \in Nat : d = IF saves[g].draft = 0 THEN Len(drafts) + 1 ELSE saves[g].draft
    BY <1>1
  <2>3. PICK s : s = [saves[g] EXCEPT !.at = a, !.draft = d]
    OBVIOUS
  <2>4. s \in SaveType /\ s.at = a /\ s.draft = d
    BY <1>1, <2>3 DEF SaveType
  <2>5. saves' = [saves EXCEPT ![g].at = a, ![g].draft = IF saves[g].draft = 0 THEN Len(drafts) + 1 ELSE @]
    BY <2>1, Zenon DEF Window!StoreSave
  <2>6. saves' = [saves EXCEPT ![g] = s]
    BY <1>1, <2>2, <2>3, <2>5 DEF WindowInv, WindowTyped
  <2> QED
    BY <2>1, <2>2, <2>4, <2>6, SaveBecomes DEF WindowInv, WindowTyped
<1>5. g <= Used
  BY <1>1 DEF WindowInv, Untraced
<1>6. /\ \A d \in DOMAIN drafts' : drafts'[d].no <= Used' /\ Len(drafts') \in Nat
      /\ Len(drafts) <= Len(drafts') /\ Used' = Used
  BY <1>2, <1>3, <1>5, UntracedWritten DEF Used
<1>7. WindowTyped'
  <2>1. s.draft <= Len(drafts')
    BY <1>1, <1>2, <1>4 DEF Written
  <2>2. \A f \in Window!Forms : saves'[f].draft <= Len(drafts')
    <3>1. ASSUME NEW f \in Window!Forms, f # g PROVE saves'[f].draft <= Len(drafts')
      <4>1. saves'[f] = saves[f] /\ saves[f] \in SaveType /\ saves[f].draft <= Len(drafts)
        BY <1>4, <3>1 DEF SaveIs, WindowInv, WindowTyped
      <4>2. saves[f].draft \in Nat
        BY <4>1 DEF SaveType
      <4> QED
        BY <1>1, <1>6, <4>1, <4>2
    <3> QED
      BY <1>4, <2>1, <3>1 DEF SaveIs
  <2>3. form.draft <= Len(drafts') /\ send.draft <= Len(drafts')
    <3>1. form.draft \in Nat /\ send.draft \in Nat
      BY DEF WindowInv, WindowTyped, FormType, SendType
    <3> QED
      BY <1>1, <1>6, <3>1 DEF WindowInv, WindowTyped
  <2>4. drafts' \in Seq(Line) /\ saves' \in [Window!Forms -> SaveType]
    BY <1>2, <1>4 DEF Written, SaveIs
  <2> QED
    BY <1>3, <2>2, <2>3, <2>4 DEF WindowInv, WindowTyped
<1>8. Untraced' /\ IsLocked'
  <2>1. \A f \in Window!Forms : saves'[f].at # "none" => f <= Used
    BY <1>4, <1>5 DEF SaveIs, WindowInv, Untraced
  <2> QED
    BY <1>3, <1>6, <2>1 DEF WindowInv, Untraced, IsLocked
<1>9. ASSUME NEW f \in Window!Forms, Clear(f)' PROVE Story(f)'
  <2>1. Story(f)
    BY <1>3, <1>9 DEF WindowInv, Stories, Clear
  <2>2. Sent(f)' = Sent(f)
    BY <1>3 DEF Sent
  <2>3. /\ Lines(f)' = IF saves[g].draft = 0 /\ f = g THEN Lines(f) \cup {Len(drafts) + 1} ELSE Lines(f)
        /\ \A d \in Lines(f) : drafts'[d].gone = drafts[d].gone /\ d \in 1..Len(drafts)
    BY <1>2, LinesWritten DEF WindowInv, WindowTyped
  <2>4. CASE f = g
    <3>1. ~(send.at # "none" /\ send.no = f) /\ ~Sent(f)
      BY <1>1, <2>1, <2>4 DEF Story, Finished
    <3>2. \A d \in Lines(f) : d = saves[f].draft
      BY <1>1, <2>1, <2>4 DEF Story, Knows
    <3>3. \A d \in Lines(f)' : d = s.draft
      BY <1>1, <1>4, <2>3, <2>4, <3>2
    <3>4. \A d \in Lines(f)' : form.no = f => d = form.draft \/ s.at = "made"
      <4>1. CASE saves[g].draft = 0
        BY <1>4, <4>1
      <4>2. CASE saves[g].draft # 0
        BY <1>1, <2>1, <2>3, <2>4, <3>1, <4>2 DEF Story, Knows
      <4> QED
        BY <4>1, <4>2
    <3>5. saves'[f] = s
      BY <1>4, <2>4 DEF SaveIs
    <3>6. \A d \in Lines(f)' : Knows(f, d)'
      BY <1>3, <3>1, <3>3, <3>4, <3>5 DEF Knows
    <3> QED
      BY <1>3, <2>2, <3>1, <3>3, <3>6 DEF Story
  <2>5. CASE f # g
    <3>1. Lines(f)' = Lines(f) /\ saves'[f] = saves[f]
      BY <1>4, <2>3, <2>5 DEF SaveIs
    <3>2. \A d \in Lines(f) : Knows(f, d)'
      BY <1>3, <2>1, <3>1 DEF Story, Knows
    <3>3. Sent(f) => Finished(f)'
      BY <1>3, <2>1, <2>3, <3>1 DEF Story, Finished
    <3> QED
      BY <1>3, <2>1, <2>2, <3>1, <3>2, <3>3 DEF Story
  <2> QED
    BY <2>4, <2>5
<1> QED
  BY <1>7, <1>8, <1>9 DEF WindowInv, Stories

LEMMA SaveAnsweredStep ==
  ASSUME Window!ComposeAssumption, WindowInv, NEW g \in Window!Forms, Window!SaveAnswered(g)
  PROVE  WindowInv'
<1>0. form \in FormType /\ form.draft <= Len(drafts) /\ saves[g] \in SaveType /\ saves[g].draft <= Len(drafts)
      /\ left \in LeftType /\ Len(drafts) \in Nat /\ attach \in Nat
  BY DEF WindowInv, WindowTyped
<1>1. saves[g].at \in {"made", "stored"} /\ UNCHANGED <<send, drafts, sent, left, lost>>
      /\ crossed' = IF Window!IsOpen /\ g # form.no THEN crossed \cup {form.no} ELSE crossed
  BY DEF Window!SaveAnswered
<1>2. CASE ~Window!IsOpen
  <2>1. saves' = [saves EXCEPT ![g] = Window!NoSave] /\ attach' = 0 /\ UNCHANGED <<form, sending>>
    BY <1>2 DEF Window!SaveAnswered
  <2>2. form'.no = 0 /\ form'.no \in {0, form.no} /\ crossed \subseteq crossed' /\ lost \subseteq lost'
    BY <1>1, <1>2, <2>1 DEF Window!IsOpen
  <2>3. \A f \in Window!Forms : form'.no # f
    BY <2>2 DEF Window!Forms
  <2> QED
    BY <1>0, <1>1, <2>1, <2>2, <2>3, SaveIsOver
<1>3. CASE Window!IsOpen /\ closing /\ ~sending
  <2>1. saves' = [saves EXCEPT ![g] = Window!NoSave] /\ attach' = 0 /\ form' = Window!NoForm
    BY <1>3 DEF Window!SaveAnswered, Window!ForceClose
  <2>2. form' \in FormType /\ form'.no = 0 /\ form'.no \in {0, form.no} /\ form'.draft <= Len(drafts)
        /\ crossed \subseteq crossed' /\ lost \subseteq lost'
    BY <1>0, <1>1, <2>1, NoWindow
  <2>3. \A f \in Window!Forms : form'.no # f
    BY <2>2 DEF Window!Forms
  <2> QED
    BY <1>0, <1>1, <2>1, <2>2, <2>3, SaveIsOver
<1>4. CASE Window!IsOpen /\ ~(closing /\ ~sending)
  <2>1. PICK n \in Nat : n = Window!NewDraft(g) /\ n <= Len(drafts)
                         /\ n = IF saves[g].at = "made" THEN saves[g].draft ELSE form.draft
    BY <1>0 DEF Window!NewDraft, SaveType, FormType
  <2>2. PICK its \in Seq(Int) : its = SubSeq(form.items, attach + 1, Len(form.items))
    <3>1. PICK a \in Seq(Int) : a = form.items
      BY <1>0 DEF FormType
    <3>2. SubSeq(a, attach + 1, Len(a)) \in Seq(Int)
      BY <1>0, SubSeqProperties
    <3> QED
      BY <3>1, <3>2
  <2>3. PICK w : w = [form EXCEPT !.base = form.text, !.draft = Window!NewDraft(g),
                                  !.items = SubSeq(@, attach + 1, Len(@))]
    OBVIOUS
  <2>4. w \in FormType /\ w.no = form.no /\ w.draft = n
    <3>1. w = [form EXCEPT !.base = form.text, !.draft = n, !.items = its]
      BY <2>1, <2>2, <2>3
    <3> QED
      BY <1>0, <3>1 DEF FormType
  <2>5. /\ form' = w /\ UNCHANGED sending
        /\ IF waiting /\ g = w.no /\ ~Window!Locked
             THEN Window!AfterSave(g, w)
             ELSE saves' = [saves EXCEPT ![g] = Window!NoSave] /\ attach' = 0
    BY <1>4, <2>3, Zenon DEF Window!SaveAnswered
  <2>6. form.no \in Window!Forms /\ form.no # 0
    BY <1>0, <1>4 DEF Window!IsOpen, FormType, Window!Forms
  <2>7. ASSUME g = form.no, Clear(g), NEW d \in Lines(g)
        PROVE  d = n
    <3>1. Knows(g, d) /\ ~(send.at # "none" /\ send.no = g)
      BY <1>1, <2>7 DEF WindowInv, Stories, Story
    <3> QED
      BY <1>1, <2>1, <2>7, <3>1 DEF Knows
  <2>8. CASE waiting /\ g = w.no /\ ~Window!Locked
    <3>1. Window!IssueSave(w)
      BY <2>5, <2>8 DEF Window!AfterSave
    <3>2. Leaves(form') /\ attach' \in Nat
      BY <2>4, <2>5, <2>6, <3>1, Issued DEF WindowInv, WindowTyped
    <3> QED
      BY <1>0, <1>1, <2>1, <2>4, <2>5, <2>6, <2>7, <2>8, <3>2, SaveLeaves DEF Clear, Window!Locked
  <2>9. CASE ~(waiting /\ g = w.no /\ ~Window!Locked)
    <3>1. saves' = [saves EXCEPT ![g] = Window!NoSave] /\ attach' = 0
      BY <2>5, <2>9
    <3>2. ASSUME NEW f \in Window!Forms, form'.no = f, Clear(f)'
          PROVE  IF f = g THEN \A d \in Lines(f) : d = form'.draft \/ (send.at = "refused" /\ send.no = f)
                          ELSE form'.draft = form.draft
      <4>1. f = form.no /\ (g = form.no => Clear(g))
        BY <1>1, <2>4, <2>5, <3>2 DEF Clear
      <4>2. f = g
        BY <1>1, <1>4, <3>2, <4>1 DEF Clear
      <4> QED
        BY <2>4, <2>5, <2>7, <4>1, <4>2
    <3>3. lost \subseteq lost' /\ crossed \subseteq crossed' /\ form' \in FormType /\ form'.draft <= Len(drafts)
          /\ form'.no \in {0, form.no} /\ sending' = sending
      BY <1>1, <2>1, <2>4, <2>5
    <3> QED
      BY <1>0, <1>1, <3>1, <3>2, <3>3, SaveIsOver
  <2> QED
    BY <2>8, <2>9
<1> QED
  BY <1>2, <1>3, <1>4

LEMMA SaveFailsStep ==
  ASSUME Window!ComposeAssumption, WindowInv, NEW g \in Window!Forms, Window!SaveFails(g)
  PROVE  WindowInv'
<1>0. form \in FormType /\ form.draft <= Len(drafts) /\ left \in LeftType /\ attach \in Nat
  BY DEF WindowInv, WindowTyped
<1>1. /\ saves[g].at # "none" /\ UNCHANGED <<form, sending, send, drafts, sent, crossed>>
      /\ lost' = IF saves[g].at = "sent" THEN lost ELSE lost \cup {g}
      /\ Window!AfterSave(g, form)
  BY DEF Window!SaveFails
<1>2. left' \in LeftType /\ left'.forms = left.forms
  BY <1>0, Spending DEF Window!SaveFails
<1>3. ASSUME g = form.no, Clear(g)', NEW d \in Lines(g)
      PROVE  d = form.draft \/ (send.at = "refused" /\ send.no = g)
  <2>1. saves[g].at = "sent" /\ Clear(g)
    BY <1>1, <1>3 DEF Clear
  <2>2. Knows(g, d)
    BY <1>3, <2>1 DEF WindowInv, Stories, Story
  <2> QED
    BY <1>3, <2>1, <2>2 DEF Knows
<1>4. CASE waiting /\ g = form.no /\ ~Window!Locked
  <2>1. Window!IssueSave(form)
    BY <1>1, <1>4 DEF Window!AfterSave
  <2>2. form.no # 0
    BY <1>4 DEF Window!Forms
  <2>3. Leaves(form') /\ attach' \in Nat
    BY <1>0, <1>1, <2>1, <2>2, Issued DEF WindowInv, WindowTyped
  <2>4. ~(send.at = "refused" /\ send.no = form.no)
    BY <1>4 DEF WindowInv, IsLocked, Window!Locked
  <2> QED
    BY <1>0, <1>1, <1>2, <1>3, <1>4, <2>2, <2>3, <2>4, SaveLeaves DEF Window!Locked
<1>5. CASE ~(waiting /\ g = form.no /\ ~Window!Locked)
  <2>1. saves' = [saves EXCEPT ![g] = Window!NoSave] /\ UNCHANGED attach
    BY <1>1, <1>5 DEF Window!AfterSave
  <2>2. lost \subseteq lost' /\ crossed \subseteq crossed' /\ form'.no \in {0, form.no}
    BY <1>1
  <2>3. ASSUME NEW f \in Window!Forms, form'.no = f, Clear(f)'
        PROVE  IF f = g THEN \A d \in Lines(f) : d = form'.draft \/ (send.at = "refused" /\ send.no = f)
                        ELSE form'.draft = form.draft
    BY <1>1, <1>3, <2>3
  <2> QED
    BY <1>0, <1>1, <1>2, <2>1, <2>2, <2>3, SaveIsOver
<1> QED
  BY <1>4, <1>5

\* A step of the send alone, under way for a window that was or is on screen.
LEMMA SendStep == ASSUME Window!ComposeAssumption, WindowInv, Window!Send PROVE WindowInv'
<1>0. form \in FormType /\ left \in LeftType /\ form.draft <= Len(drafts)
  BY DEF WindowInv, WindowTyped
<1>1. form.no # 0 /\ ~sending /\ send.at = "none" /\ sending' = TRUE
      /\ crossed' = (IF saves[form.no].at = "none" THEN crossed ELSE crossed \cup {form.no})
      /\ UNCHANGED <<form, attach, saves, drafts, sent, lost>>
  BY DEF Window!Send, Window!InHand, Window!IsOpen
<1>2. left' \in LeftType /\ left'.forms = left.forms
  BY <1>0, Spending DEF Window!Send
<1>3. send' \in SendType /\ send'.at = "sent" /\ send'.no = form.no /\ send'.draft = form.draft
  <2>1. send' = [at |-> "sent", no |-> form.no, text |-> form.text, items |-> form.items, draft |-> form.draft]
    BY DEF Window!Send
  <2>2. form.no \in 0..MaxForms /\ form.text \in Nat /\ form.items \in Seq(Int) /\ form.draft \in Nat
    BY <1>0 DEF FormType
  <2> QED
    BY <2>1, <2>2 DEF SendType
<1>4. WindowTyped'
  BY <1>0, <1>1, <1>2, <1>3 DEF WindowInv, WindowTyped
<1>5. Untraced' /\ IsLocked'
  BY <1>1, <1>2, <1>3 DEF WindowInv, Untraced, Used, IsLocked
<1>6. ASSUME NEW f \in Window!Forms, Clear(f)' PROVE Story(f)'
  <2>1. Story(f) /\ Lines(f)' = Lines(f) /\ Sent(f)' = Sent(f)
    BY <1>1, <1>6 DEF WindowInv, Stories, Clear, Lines, Sent
  <2>2. f = form.no => saves[f].at = "none"
    BY <1>1, <1>6 DEF Clear
  <2>3. \A d \in Lines(f) : Knows(f, d)'
    BY <1>1, <1>3, <2>1, <2>2 DEF Story, Knows
  <2>4. Sent(f) => Finished(f)'
    BY <1>1, <1>3, <2>1 DEF Story, Finished
  <2> QED
    BY <1>1, <1>3, <2>1, <2>2, <2>3, <2>4 DEF Story
<1> QED
  BY <1>4, <1>5, <1>6 DEF WindowInv, Stories

LEMMA RefuseStep == ASSUME Window!ComposeAssumption, WindowInv, Window!RefuseSend PROVE WindowInv'
<1>0. send \in SendType /\ left \in LeftType /\ form \in FormType /\ Len(drafts) \in Nat
      /\ send.draft <= Len(drafts) /\ form.draft <= Len(drafts) /\ send.at = "sent" /\ send.no # 0
  BY DEF WindowInv, WindowTyped, Window!RefuseSend
<1>1. send.no \in Window!Forms /\ send.text \in Nat /\ send.items \in Seq(Int) /\ send.draft \in 0..Len(drafts)
      /\ form.draft \in Nat
  BY <1>0 DEF SendType, FormType, Window!Forms
<1>2. UNCHANGED <<form, sending, attach, saves, sent, lost, crossed>>
  BY DEF Window!RefuseSend
<1>3. left' \in LeftType /\ left'.forms = left.forms /\ Used' = Used
  BY <1>0, Spending DEF Window!RefuseSend, Used
<1>4. send.no <= Used
  BY <1>0 DEF WindowInv, Untraced
<1>5. CASE send' = [send EXCEPT !.at = "refused"] /\ UNCHANGED drafts
  <2>1. send' \in SendType /\ send'.at = "refused" /\ send'.no = send.no /\ send'.draft = send.draft
    BY <1>0, <1>5 DEF SendType
  <2>2. WindowTyped' /\ Untraced' /\ IsLocked'
    BY <1>0, <1>2, <1>3, <1>4, <1>5, <2>1 DEF WindowInv, WindowTyped, Untraced, IsLocked
  <2>3. ASSUME NEW f \in Window!Forms, Clear(f)' PROVE Story(f)'
    <3>1. Story(f) /\ Lines(f)' = Lines(f) /\ Sent(f)' = Sent(f)
      BY <1>2, <1>5, <2>3 DEF WindowInv, Stories, Clear, Lines, Sent
    <3>2. \A d \in Lines(f) : Knows(f, d)'
      BY <1>0, <1>2, <2>1, <3>1 DEF Story, Knows
    <3>3. Sent(f) => Finished(f)'
      BY <1>0, <1>2, <1>5, <2>1, <3>1 DEF Story, Finished
    <3> QED
      BY <1>0, <1>2, <2>1, <3>1, <3>2, <3>3 DEF Story
  <2> QED
    BY <2>2, <2>3 DEF WindowInv, Stories
<1>6. CASE /\ send' = [send EXCEPT !.at = "refused", !.draft = IF @ = 0 THEN Len(drafts) + 1 ELSE @]
           /\ Window!Upsert(send, send.no)
  <2>1. Written(send, send.no)
    BY <1>1, <1>6, Writes DEF WindowInv, WindowTyped
  <2>2. PICK n \in Nat : n = IF send.draft = 0 THEN Len(drafts) + 1 ELSE send.draft
    BY <1>0, <1>1
  <2>3. send' = [send EXCEPT !.at = "refused", !.draft = n]
    BY <1>6, <2>2
  <2>4. send' \in SendType /\ send'.at = "refused" /\ send'.no = send.no /\ send'.draft = n
    BY <1>0, <2>3 DEF SendType
  <2>5. drafts' \in Seq(Line) /\ Len(drafts') \in Nat /\ Len(drafts) <= Len(drafts') /\ n <= Len(drafts')
    BY <1>0, <1>1, <2>1, <2>2 DEF Written
  <2>6. \A d \in DOMAIN drafts' : drafts'[d].no <= Used
    <3>1. Len(drafts) \in Nat /\ DOMAIN drafts' = 1..Len(drafts')
      BY <1>0, <2>5
    <3>2. \A d \in 1..Len(drafts) : drafts'[d].no <= Used
      BY <2>1 DEF Written, WindowInv, WindowTyped, Untraced
    <3>3. \A d \in 1..Len(drafts') : d \in 1..Len(drafts) \/ (send.draft = 0 /\ d = Len(drafts) + 1)
      BY <1>0, <2>1 DEF Written
    <3> QED
      BY <1>4, <2>1, <3>1, <3>2, <3>3 DEF Written
  <2>7. \A f \in Window!Forms : saves[f].draft <= Len(drafts')
    <3>1. \A f \in Window!Forms : saves[f].draft \in Nat /\ saves[f].draft <= Len(drafts)
      BY DEF WindowInv, WindowTyped, SaveType
    <3> QED
      BY <1>0, <2>5, <3>1
  <2>8. WindowTyped'
    BY <1>0, <1>1, <1>2, <1>3, <2>4, <2>5, <2>7 DEF WindowInv, WindowTyped
  <2>9. Untraced' /\ IsLocked'
    BY <1>0, <1>2, <1>3, <1>4, <2>4, <2>6 DEF WindowInv, Untraced, IsLocked
  <2>10. ASSUME NEW f \in Window!Forms, Clear(f)' PROVE Story(f)'
    <3>1. Story(f) /\ Sent(f)' = Sent(f)
      BY <1>2, <2>10 DEF WindowInv, Stories, Clear, Sent
    <3>2. /\ Lines(f)' = IF send.draft = 0 /\ f = send.no THEN Lines(f) \cup {Len(drafts) + 1} ELSE Lines(f)
          /\ \A d \in Lines(f) : drafts'[d].gone = drafts[d].gone /\ d \in 1..Len(drafts)
      BY <1>1, <2>1, LinesWritten DEF WindowInv, WindowTyped
    <3>3. CASE f = send.no
      <4>1. saves[f].at = "none" /\ ~Sent(f) /\ \A d \in Lines(f) : d = send.draft
        BY <1>0, <3>1, <3>3 DEF Story, Knows, Finished
      <4>2. \A d \in Lines(f)' : d = n
        BY <1>0, <1>1, <2>2, <3>2, <3>3, <4>1
      <4>3. \A d \in Lines(f)' : Knows(f, d)'
        BY <1>2, <2>4, <3>3, <4>1, <4>2 DEF Knows
      <4> QED
        BY <1>2, <3>1, <4>1, <4>2, <4>3 DEF Story
    <3>4. CASE f # send.no
      <4>1. Lines(f)' = Lines(f)
        BY <3>2, <3>4
      <4>2. \A d \in Lines(f) : Knows(f, d)'
        BY <1>2, <2>4, <3>1, <3>4 DEF Story, Knows
      <4>3. Sent(f) => Finished(f)'
        BY <1>2, <2>4, <3>1, <3>2, <3>4, <4>1 DEF Story, Finished
      <4> QED
        BY <1>2, <2>4, <3>1, <3>4, <4>1, <4>2, <4>3 DEF Story
    <3> QED
      BY <3>3, <3>4
  <2> QED
    BY <2>8, <2>9, <2>10 DEF WindowInv, Stories
<1> QED
  BY <1>5, <1>6 DEF Window!RefuseSend

\* The row that went out is gone with it.
Gone(l, b) == [l EXCEPT !.gone = @ \/ b]

LEMMA GoneLine == ASSUME NEW l \in Line, NEW b \in BOOLEAN
                  PROVE  Gone(l, b) \in Line /\ Gone(l, b).no = l.no /\ (l.gone \/ b => Gone(l, b).gone)
<1>1. PICK c \in BOOLEAN : c = (l.gone \/ b)
  OBVIOUS
<1>2. PICK k : k = [l EXCEPT !.gone = c]
  OBVIOUS
<1>3. k \in Line /\ k.no = l.no /\ k.gone = c
  BY <1>2 DEF Line
<1>4. k = Gone(l, b)
  BY <1>1, <1>2 DEF Gone
<1> QED
  BY <1>1, <1>3, <1>4

LEMMA StoreSendStep == ASSUME Window!ComposeAssumption, WindowInv, Window!StoreSend PROVE WindowInv'
<1>0. send \in SendType /\ send.at = "sent" /\ send.no # 0 /\ send.draft <= Len(drafts) /\ Len(drafts) \in Nat
      /\ drafts \in Seq(Line) /\ sent \in Seq(Mail) /\ DOMAIN drafts = 1..Len(drafts)
  BY DEF WindowInv, WindowTyped, Window!StoreSend
<1>1. send.no \in Window!Forms /\ send.items \in Seq(Int) /\ send.draft \in 0..Len(drafts) /\ send.no <= Used
  BY <1>0 DEF SendType, Window!Forms, WindowInv, Untraced
<1>2. UNCHANGED <<form, sending, attach, saves, left, lost, crossed>>
  BY DEF Window!StoreSend
<1>3. send' \in SendType /\ send'.at = "ok" /\ send'.no = send.no /\ send'.draft = send.draft
  <2>1. send' = [send EXCEPT !.at = "ok"]
    BY DEF Window!StoreSend
  <2> QED
    BY <1>0, <2>1 DEF SendType
<1>4. PICK m \in Mail : m.no = send.no /\ sent' = Append(sent, m)
  <2>1. Window!Kept(send.draft) \in Seq(Int)
    <3>1. CASE send.draft = 0 \/ drafts[send.draft].gone
      BY <3>1 DEF Window!Kept
    <3>2. CASE ~(send.draft = 0 \/ drafts[send.draft].gone)
      <4>1. drafts[send.draft] \in Line
        BY <1>0, <1>1, <3>2
      <4> QED
        BY <3>2, <4>1 DEF Window!Kept, Line
    <3> QED
      BY <3>1, <3>2
  <2>2. PICK a \in Seq(Int), b \in Seq(Int) : a = Window!Kept(send.draft) /\ b = send.items
    BY <1>1, <2>1
  <2>3. PICK c \in Seq(Int) : c = a \o b
    BY ConcatProperties
  <2>4. PICK m : m = [no |-> send.no, files |-> c]
    OBVIOUS
  <2>5. m \in Mail /\ m.no = send.no
    BY <1>1, <2>4 DEF Mail
  <2>6. sent' = Append(sent, m)
    BY <2>2, <2>3, <2>4 DEF Window!StoreSend
  <2> QED
    BY <2>5, <2>6
<1>5. /\ sent' \in Seq(Mail) /\ DOMAIN sent' = 1..(Len(sent) + 1) /\ Len(sent) \in Nat
      /\ \A i \in 1..Len(sent) : sent'[i] = sent[i]
      /\ sent'[Len(sent) + 1] = m
  <2>1. /\ Append(sent, m) \in Seq(Mail) /\ Len(Append(sent, m)) = Len(sent) + 1
        /\ \A i \in 1..Len(sent) : Append(sent, m)[i] = sent[i]
        /\ Append(sent, m)[Len(sent) + 1] = m
    BY <1>0, AppendProperties
  <2> QED
    BY <1>0, <1>4, <2>1
<1>6. /\ drafts' \in Seq(Line) /\ Len(drafts') = Len(drafts) /\ DOMAIN drafts' = DOMAIN drafts
      /\ \A d \in 1..Len(drafts) : /\ drafts'[d].no = drafts[d].no
                                   /\ drafts[d].gone \/ d = send.draft => drafts'[d].gone
  <2>1. drafts' = [d \in DOMAIN drafts |-> Gone(drafts[d], d = send.draft)]
    BY Zenon DEF Window!StoreSend, Gone
  <2>2. drafts' = [d \in 1..Len(drafts) |-> Gone(drafts[d], d = send.draft)]
    BY <1>0, <2>1
  <2>3. ASSUME NEW d \in 1..Len(drafts)
        PROVE  /\ drafts'[d] \in Line /\ drafts'[d].no = drafts[d].no
               /\ drafts[d].gone \/ d = send.draft => drafts'[d].gone
    <3>1. PICK b \in BOOLEAN : b = (d = send.draft)
      OBVIOUS
    <3>2. drafts[d] \in Line
      BY <1>0
    <3>3. drafts'[d] = Gone(drafts[d], b)
      BY <2>2, <3>1
    <3> QED
      BY <3>1, <3>2, <3>3, GoneLine
  <2>4. drafts' \in [1..Len(drafts) -> Line]
    BY <2>2, <2>3
  <2> QED
    BY <1>0, <2>3, <2>4
<1>7. WindowTyped'
  BY <1>0, <1>2, <1>3, <1>5, <1>6 DEF WindowInv, WindowTyped
<1>8. Untraced' /\ IsLocked'
  <2>1. \A i \in DOMAIN sent' : sent'[i].no <= Used
    <3>1. \A i \in 1..(Len(sent) + 1) : i \in 1..Len(sent) \/ i = Len(sent) + 1
      BY <1>5
    <3>2. \A i \in 1..Len(sent) : sent[i].no <= Used
      BY <1>0 DEF WindowInv, Untraced
    <3> QED
      BY <1>1, <1>4, <1>5, <3>1, <3>2
  <2>2. \A d \in DOMAIN drafts' : drafts'[d].no <= Used
    BY <1>0, <1>6 DEF WindowInv, Untraced
  <2>3. Used' = Used
    BY <1>2 DEF Used
  <2> QED
    BY <1>0, <1>2, <1>3, <2>1, <2>2, <2>3 DEF WindowInv, Untraced, IsLocked
<1>9. ASSUME NEW f \in Window!Forms, Clear(f)' PROVE Story(f)'
  <2>1. Story(f)
    BY <1>2, <1>9 DEF WindowInv, Stories, Clear
  <2>2. Lines(f)' = Lines(f) /\ Lines(f) \subseteq 1..Len(drafts)
    BY <1>0, <1>6 DEF Lines
  <2>3. Sent(f)' <=> Sent(f) \/ f = send.no
    <3>1. \A i \in 1..(Len(sent) + 1) : i \in 1..Len(sent) \/ i = Len(sent) + 1
      BY <1>5
    <3>2. DOMAIN sent = 1..Len(sent) /\ 1..Len(sent) \subseteq 1..(Len(sent) + 1) /\ Len(sent) + 1 \in 1..(Len(sent) + 1)
      BY <1>0, <1>5
    <3> QED
      BY <1>4, <1>5, <3>1, <3>2 DEF Sent
  <2>4. \A d \in Lines(f) : Knows(f, d)'
    BY <1>0, <1>2, <1>3, <2>1 DEF Story, Knows
  <2>5. CASE f = send.no
    <3>1. saves[f].at = "none" /\ \A d \in Lines(f) : d = send.draft
      BY <1>0, <2>1, <2>5 DEF Story, Knows
    <3>2. \A d \in Lines(f) : drafts'[d].gone
      BY <1>6, <2>2, <3>1
    <3>3. Finished(f)'
      BY <1>2, <1>3, <2>2, <2>5, <3>1, <3>2 DEF Finished
    <3> QED
      BY <1>2, <2>1, <2>2, <2>4, <3>1, <3>3 DEF Story
  <2>6. CASE f # send.no
    <3>1. Sent(f) => Finished(f)
      BY <2>1 DEF Story
    <3>2. Finished(f) => Finished(f)'
      BY <1>2, <1>3, <1>6, <2>2, <2>6, <1>0 DEF Finished
    <3> QED
      BY <1>2, <1>3, <2>1, <2>2, <2>3, <2>4, <2>6, <3>1, <3>2 DEF Story
  <2> QED
    BY <2>5, <2>6
<1> QED
  BY <1>7, <1>8, <1>9 DEF WindowInv, Stories

\* The send is over: the window goes, stays, or is back with the draft it has by then.
LEMMA SendOver ==
  ASSUME Window!ComposeAssumption, WindowInv,
         Window!SendAnswered \/ Window!SendFails
  PROVE  WindowInv'
<1>0. send \in SendType /\ form \in FormType /\ left \in LeftType /\ MaxForms \in Nat
      /\ send.draft <= Len(drafts) /\ form.draft <= Len(drafts) /\ Len(drafts) \in Nat
  BY DEF WindowInv, WindowTyped, Window!ComposeAssumption
<1>1. send' = Window!NoSend /\ UNCHANGED <<attach, saves, drafts, sent, crossed>>
      /\ send.at # "none" /\ send.no # 0 /\ lost \subseteq lost'
  BY DEF Window!SendAnswered, Window!SendFails, WindowInv, WindowTyped
<1>2. send' \in SendType /\ send'.at = "none" /\ send'.draft = 0
  BY <1>1, NoneSent
<1>3. left' \in LeftType /\ left'.forms = left.forms /\ Used' = Used
  BY <1>0, Spending DEF Window!SendAnswered, Window!SendFails, Used
<1>4. /\ form' \in FormType /\ form'.draft <= Len(drafts) /\ form'.no <= Used
      /\ \/ form'.no = 0 /\ send.at = "ok" /\ lost' = lost
         \/ form'.no = send.no /\ form'.draft = send.draft /\ send.at = "refused" /\ lost' = lost
         \/ form' = form /\ (send.at = "sent" \/ send.no \in lost')
  <2>0. Used \in Nat
    BY <1>0 DEF Used, LeftType
  <2>1. CASE Window!SendAnswered /\ send.at = "ok"
    <3>1. form' = Window!NoForm /\ lost' = lost
      BY <2>1 DEF Window!SendAnswered, Window!ForceClose
    <3> QED
      BY <1>0, <2>0, <2>1, <3>1, NoWindow
  <2>2. CASE Window!SendAnswered /\ send.at # "ok"
    <3>1. PICK w : w = Window!NoForm
      OBVIOUS
    <3>2. w \in FormType /\ ~w.guard
      BY <3>1, NoWindow DEF Window!NoForm
    <3>3. form' = [w EXCEPT !.no = send.no, !.text = send.text, !.base = send.text, !.draft = send.draft]
      BY <2>2, <3>1 DEF Window!SendAnswered
    <3>4. send.no \in 0..MaxForms /\ send.text \in Nat /\ send.draft \in Nat
      BY <1>0 DEF SendType
    <3>5. form' \in FormType /\ form'.no = send.no /\ form'.draft = send.draft
      BY <3>2, <3>3, <3>4 DEF FormType
    <3>6. send.at = "refused" /\ lost' = lost /\ send.no <= Used
      BY <1>1, <2>2 DEF Window!SendAnswered, WindowInv, Untraced
    <3> QED
      BY <1>0, <3>5, <3>6
  <2>3. CASE Window!SendFails
    BY <1>0, <2>3 DEF Window!SendFails, WindowInv, Untraced
  <2> QED
    BY <2>1, <2>2, <2>3
<1>5. WindowTyped'
  <2>1. 0 <= Len(drafts)
    BY <1>0
  <2> QED
    BY <1>1, <1>2, <1>3, <1>4, <2>1 DEF WindowInv, WindowTyped
<1>6. Untraced' /\ IsLocked'
  BY <1>1, <1>2, <1>3, <1>4 DEF WindowInv, Untraced, IsLocked
<1>7. ASSUME NEW f \in Window!Forms, Clear(f)' PROVE Story(f)'
  <2>1. Story(f) /\ Lines(f)' = Lines(f) /\ Sent(f)' = Sent(f) /\ f # 0
    BY <1>1, <1>7 DEF WindowInv, Stories, Clear, Lines, Sent, Window!Forms
  <2>2. \A d \in Lines(f) : Knows(f, d)'
    <3>1. ASSUME NEW d \in Lines(f) PROVE Knows(f, d)'
      <4>1. Knows(f, d)
        BY <2>1 DEF Story
      <4>2. saves'[f] = saves[f]
        BY <1>1
      <4>3. form'.no = f => d = form'.draft \/ saves[f].at = "made"
        <5>1. CASE form'.no = 0
          BY <2>1, <5>1
        <5>2. CASE form'.no = send.no /\ form'.draft = send.draft /\ send.at = "refused"
          BY <4>1, <5>2 DEF Knows
        <5>3. CASE form' = form /\ (send.at = "sent" \/ send.no \in lost')
          BY <1>7, <4>1, <5>3 DEF Knows, Clear
        <5> QED
          BY <1>4, <5>1, <5>2, <5>3
      <4> QED
        BY <1>2, <4>1, <4>2, <4>3 DEF Knows
    <3> QED
      BY <3>1
  <2>3. Sent(f) => Finished(f)'
    <3>1. ASSUME Finished(f) PROVE form'.no # f
      <4>1. CASE form'.no = 0
        BY <2>1, <4>1
      <4>2. CASE form'.no = send.no /\ send.at = "refused"
        BY <3>1, <4>2 DEF Finished
      <4>3. CASE form' = form /\ (send.at = "sent" \/ send.no \in lost')
        BY <1>7, <3>1, <4>3 DEF Finished, Clear
      <4> QED
        BY <1>4, <4>1, <4>2, <4>3
    <3>2. Sent(f) => Finished(f)
      BY <2>1 DEF Story
    <3> QED
      BY <1>1, <1>2, <2>1, <3>1, <3>2 DEF Finished
  <2> QED
    BY <1>2, <2>1, <2>2, <2>3 DEF Story
<1> QED
  BY <1>5, <1>6, <1>7 DEF WindowInv, Stories

LEMMA WindowStep ==
  ASSUME Window!ComposeAssumption, WindowInv, [Window!Next]_Window!composeVars
  PROVE  WindowInv'
<1>1. CASE UNCHANGED Window!composeVars
  BY <1>1 DEF Window!composeVars, WindowInv, WindowTyped, Untraced, Used, IsLocked, Stories, Story, Clear,
     Lines, Sent, Knows, Finished
<1>2. CASE \/ Window!AskWindow \/ Window!Type \/ Window!Pick
           \/ \E i \in DOMAIN form.items : Window!RemoveFile(i)
           \/ Window!Close \/ Window!GuardKeep \/ Window!GuardDiscard \/ Window!GuardSave \/ Window!Save
  BY <1>2, HandStep
<1>3. CASE Window!WindowArrives
  BY <1>3, ArrivesStep
<1>4. ASSUME NEW f \in Window!Forms,
             Window!StoreSave(f) \/ Window!SaveAnswered(f) \/ Window!SaveFails(f)
      PROVE  WindowInv'
  BY <1>4, StoreSaveStep, SaveAnsweredStep, SaveFailsStep
<1>5. CASE Window!Send
  BY <1>5, SendStep
<1>6. CASE Window!StoreSend
  BY <1>6, StoreSendStep
<1>7. CASE Window!RefuseSend
  BY <1>7, RefuseStep
<1>8. CASE Window!SendAnswered \/ Window!SendFails
  BY <1>8, SendOver
<1> QED
  BY <1>1, <1>2, <1>3, <1>4, <1>5, <1>6, <1>7, <1>8 DEF Window!Next

\* A window makes one draft, and a message that went out leaves none of its own
\* (handleComposeDraft, handleComposeSend and the listeners of the window in app.js),
\* for any number of windows, edits, saves, sends and faults, with the exceptions the property names.
THEOREM NoDraftLeft == Spec => []SentLeavesNoDraft
<1>0. Window!ComposeAssumption
  BY PartsAssumption
<1>1. Window!Init => WindowInv
  BY <1>0, WindowInit
<1>2. WindowInv /\ [Window!Next]_Window!composeVars => WindowInv'
  BY <1>0, WindowStep
<1>3. WindowInv => SentLeavesNoDraft
  <2> SUFFICES ASSUME WindowInv PROVE SentLeavesNoDraft
    OBVIOUS
  <2>0. drafts \in Seq(Line) /\ sent \in Seq(Mail)
    BY DEF WindowInv, WindowTyped
  <2>1. ASSUME NEW d \in DOMAIN drafts PROVE drafts[d].no \in Window!Forms
    <3>1. drafts[d] \in Line
      BY <2>0
    <3> QED
      BY <3>1 DEF Line
  <2>2. ASSUME NEW m \in DOMAIN sent PROVE sent[m].no \in Window!Forms
    <3>1. sent[m] \in Mail
      BY <2>0
    <3> QED
      BY <3>1 DEF Mail
  <2>5. \A f \in Window!Forms : Clear(f) => Story(f)
    BY DEF WindowInv, Stories
  <2>3. Window!OneDraftEach
    <3> SUFFICES ASSUME NEW d \in DOMAIN drafts, NEW e \in DOMAIN drafts, drafts[d].no = drafts[e].no,
                        drafts[d].no \notin lost \cup crossed
                 PROVE  d = e
      BY Zenon DEF Window!OneDraftEach
    <3>1. Story(drafts[d].no) /\ d \in Lines(drafts[d].no) /\ e \in Lines(drafts[d].no)
      BY <2>1, <2>5 DEF Clear, Lines
    <3> QED
      BY <3>1 DEF Story
  <2>4. Window!SentLeavesNoDraft
    <3> SUFFICES ASSUME NEW m \in DOMAIN sent, sent[m].no \notin lost \cup crossed,
                        NEW d \in DOMAIN drafts, drafts[d].no = sent[m].no
                 PROVE  drafts[d].gone
      BY Zenon DEF Window!SentLeavesNoDraft
    <3>1. Story(sent[m].no) /\ d \in Lines(sent[m].no) /\ Sent(sent[m].no)
      BY <2>2, <2>5 DEF Clear, Lines, Sent
    <3> QED
      BY <3>1 DEF Story, Finished
  <2> QED
    BY <2>3, <2>4 DEF SentLeavesNoDraft
<1> QED
  BY <1>1, <1>2, <1>3, WindowMoves, PTL DEF Window!Spec

-----------------------------------------------------------------------------
(* The text of the message: ComposeBody *)

\* Seen from the text, the page's steps are the text's or none.
LEMMA BodyMoves == Spec => Body!Spec
<1>1. Init => Body!Init
  BY DEF Init
<1>2. [Next]_pageVars => [Body!Next]_Body!bodyVars
  BY DEF Next, pageVars, bodyPart, Body!bodyVars
<1> QED
  BY <1>1, <1>2, PTL DEF Spec, Body!Spec

\* A text with every word that was written, except those in the way of something else.
Full(t) == {"words", "sigs"} \subseteq DOMAIN t /\ (1..written) \ swallowed \subseteq t.words

\* So is the text in the window, and the one that a conversion would bring.
Complete == written \in Nat /\ Full(text) /\ (convert.at = "sent" => Full(convert.text))

\* A conversion, if one is under way, is to the format that is chosen, and none waits.
Agreed == "format" \notin overlaps =>
            /\ ~another
            /\ IF convert.at = "none" THEN mode = wrote /\ sigMode = wrote ELSE convert.to = mode

BodyInv == Complete /\ Agreed /\ convert.at \in {"none", "sent"}

LEMMA SameWords ==
  ASSUME NEW t, NEW s, {"words", "sigs"} \subseteq DOMAIN t
  PROVE  LET u == [t EXCEPT !.sigs = s]
         IN u.words = t.words /\ {"words", "sigs"} \subseteq DOMAIN u
  OBVIOUS

\* Neither taking a signature out nor putting one in touches a word.
LEMMA SigningKeepsWords ==
  ASSUME NEW t, {"words", "sigs"} \subseteq DOMAIN t, NEW format, NEW known, NEW variant, NEW f, NEW skip
  PROVE  LET u == Body!Signed(t, format, known, variant, f, skip).text
         IN u.words = t.words /\ {"words", "sigs"} \subseteq DOMAIN u
<1>1. PICK bare : bare = Body!Unsigned(t, format, known)
  OBVIOUS
<1>2. bare.words = t.words /\ {"words", "sigs"} \subseteq DOMAIN bare
  <2>1. \E s : bare = [t EXCEPT !.sigs = s] \/ bare = t
    BY <1>1, Zenon DEF Body!Unsigned
  <2> QED
    BY <2>1, SameWords
<1>3. PICK s : s = Body!Signed(t, format, known, variant, f, skip)
  OBVIOUS
<1>4. \E x : s.text = bare \/ s.text = [bare EXCEPT !.sigs = x]
  <2>1. \/ \E y : s = [text |-> bare, known |-> y]
        \/ \E x, y : s = [text |-> [bare EXCEPT !.sigs = x], known |-> y]
    BY <1>1, <1>3, Zenon DEF Body!Signed
  <2> QED
    BY <2>1
<1> QED
  BY <1>2, <1>3, <1>4, SameWords

\* A conversion shows every word it was given.
LEMMA ShownIsFull ==
  ASSUME NEW t, Full(t), NEW old, NEW new, NEW u \in Body!Shown(t, old, new)
  PROVE  Full(u)
<1>1. u = t \/ u = Body!AsText(t)
  BY Zenon DEF Body!Shown
<1>2. CASE u = Body!AsText(t)
  <2>1. \E w, s : u = [words |-> t.words \cup w, sigs |-> s]
    BY <1>2, Zenon DEF Body!AsText
  <2> QED
    BY <2>1 DEF Full
<1> QED
  BY <1>1, <1>2

LEMMA BodyInit == ASSUME Body!Init PROVE BodyInv
<1>1. convert.at = "none" /\ another = FALSE /\ mode = wrote /\ sigMode = wrote /\ written \in Nat
  BY DEF Body!Init, Body!NoConversion
<1>2. PICK p : p = [words |-> 1..written, sigs |-> <<>>]
  OBVIOUS
<1>3. p.words = 1..written /\ {"words", "sigs"} \subseteq DOMAIN p
  BY <1>2
<1>4. \/ text = Body!Signed(p, mode, Body!NoSig, mode, from, FALSE).text
      \/ \E s : text = [p EXCEPT !.sigs = s]
  BY <1>2, Zenon DEF Body!Init
<1>5. text.words = 1..written /\ {"words", "sigs"} \subseteq DOMAIN text
  <2>1. CASE text = Body!Signed(p, mode, Body!NoSig, mode, from, FALSE).text
    <3>1. PICK k, no : k = Body!NoSig /\ no = FALSE
      OBVIOUS
    <3>2. text = Body!Signed(p, mode, k, mode, from, no).text
      BY <2>1, <3>1
    <3> QED
      BY <1>3, <3>2, SigningKeepsWords
  <2>2. CASE \E s : text = [p EXCEPT !.sigs = s]
    BY <1>3, <2>2
  <2> QED
    BY <1>4, <2>1, <2>2
<1>6. Full(text)
  BY <1>5 DEF Full
<1>7. Complete
  BY <1>1, <1>6 DEF Complete
<1>8. Agreed
  BY <1>1 DEF Agreed
<1> QED
  BY <1>1, <1>7, <1>8 DEF BodyInv

LEMMA Signs ==
  ASSUME BodyInv, NEW f, NEW skip, Body!Apply(f, skip),
         UNCHANGED <<mode, wrote, sigMode, convert, another, written, swallowed>>
  PROVE  BodyInv'
<1>1. text' = Body!Signed(text, wrote, sigText, sigMode, f, skip).text
  BY Zenon DEF Body!Apply
<1>2. Full(text)'
  BY <1>1, SigningKeepsWords DEF BodyInv, Complete, Full
<1>3. Complete'
  BY <1>2 DEF BodyInv, Complete, Full
<1>4. "format" \in overlaps' <=> "format" \in overlaps
  BY DEF Body!Apply, Body!Crossing
<1>5. Agreed'
  BY <1>4 DEF BodyInv, Agreed
<1> QED
  BY <1>3, <1>5 DEF BodyInv

\* A new word is in the text, or among those something else is in the way of.
LEMMA NewWordKept ==
  ASSUME BodyInv, Body!NewWord, UNCHANGED Body!writingVars,
         {"words", "sigs"} \subseteq DOMAIN text',
         \/ /\ text'.words = text.words \cup {written'}
            /\ swallowed' = swallowed \cup Body!Raced
         \/ /\ text'.words = text.words
            /\ swallowed' = swallowed \cup {written'}
  PROVE  BodyInv'
<1>1. written' = written + 1 /\ written \in Nat /\ UNCHANGED <<mode, wrote, sigMode, convert, another, overlaps>>
  BY DEF Body!NewWord, Body!writingVars, BodyInv, Complete
<1>2. 1..written' = 1..written \cup {written'}
  BY <1>1
<1>3. swallowed \subseteq swallowed'
  OBVIOUS
<1>4. Full(text)'
  BY <1>2, <1>3 DEF BodyInv, Complete, Full
<1>5. convert.at = "sent" => written' \in swallowed'
  BY DEF Body!Raced
<1>6. convert'.at = "sent" => Full(convert.text)'
  BY <1>1, <1>2, <1>3, <1>5 DEF BodyInv, Complete, Full
<1>7. Complete'
  BY <1>1, <1>4, <1>6 DEF Complete
<1>8. Agreed'
  BY <1>1 DEF BodyInv, Agreed
<1> QED
  BY <1>1, <1>7, <1>8 DEF BodyInv

\* The conversion that waited leaves with the text as it is, or none does.
LEMMA NextConversion ==
  ASSUME written \in Nat, Full(text)', UNCHANGED <<written, mode>>, another' = FALSE,
         convert' = (IF another THEN Body!Ask(text', mode) ELSE Body!NoConversion)
  PROVE  /\ Complete' /\ convert'.at \in {"none", "sent"}
         /\ ~another => convert'.at = "none"
         /\ convert'.at = "sent" => convert'.to = mode'
<1>1. CASE another
  <2>1. convert' = [at |-> "sent", to |-> mode, text |-> text']
    BY <1>1 DEF Body!Ask
  <2>2. convert'.at = "sent" /\ convert'.to = mode /\ convert'.text = text'
    BY <2>1
  <2> QED
    BY <1>1, <2>2 DEF Complete, Full
<1>2. CASE ~another
  BY <1>2 DEF Body!NoConversion, Complete
<1> QED
  BY <1>1, <1>2

LEMMA BodyStep == ASSUME BodyInv, [Body!Next]_Body!bodyVars PROVE BodyInv'
<1>1. ASSUME NEW f \in Addresses, Body!ChooseFrom(f) PROVE BodyInv'
  BY <1>1, Signs DEF Body!ChooseFrom
<1>2. CASE Body!ToggleSignature
  BY <1>2, Signs DEF Body!ToggleSignature
<1>3. CASE Body!Write
  <2>1. text' = [text EXCEPT !.words = @ \cup {written'}] /\ swallowed' = swallowed \cup Body!Raced
        /\ Body!NewWord /\ UNCHANGED Body!writingVars
    BY <1>3 DEF Body!Write
  <2>2. text'.words = text.words \cup {written'} /\ {"words", "sigs"} \subseteq DOMAIN text'
    BY <2>1 DEF BodyInv, Complete, Full
  <2> QED
    BY <2>1, <2>2, NewWordKept
<1>4. ASSUME NEW i \in DOMAIN text.sigs, Body!WriteInside(i) PROVE BodyInv'
  <2>0. {"words", "sigs"} \subseteq DOMAIN text /\ Body!NewWord /\ UNCHANGED Body!writingVars
    BY <1>4 DEF BodyInv, Complete, Full, Body!WriteInside
  <2>1. CASE text.sigs[i].as = "block"
    <3>1. text' = [text EXCEPT !.sigs[i].holds = @ \cup {written'}] /\ swallowed' = swallowed \cup {written'}
      BY <1>4, <2>1 DEF Body!WriteInside
    <3>2. \E s : text' = [text EXCEPT !.sigs = s]
      BY <3>1, Zenon
    <3>3. text'.words = text.words /\ {"words", "sigs"} \subseteq DOMAIN text'
      BY <2>0, <3>2, SameWords
    <3> QED
      BY <2>0, <3>1, <3>3, NewWordKept
  <2>2. CASE text.sigs[i].as # "block"
    <3>1. text' = [text EXCEPT !.sigs[i].as = "loose", !.words = @ \cup {written'}]
          /\ swallowed' = swallowed \cup Body!Raced
      BY <1>4, <2>2 DEF Body!WriteInside
    <3>2. PICK s : text' = [text EXCEPT !.sigs = s, !.words = @ \cup {written'}]
      BY <3>1, Zenon
    <3>3. text'.words = text.words \cup {written'} /\ {"words", "sigs"} \subseteq DOMAIN text'
      BY <2>0, <3>2
    <3> QED
      BY <2>0, <3>1, <3>3, NewWordKept
  <2> QED
    BY <2>1, <2>2
<1>5. ASSUME NEW m \in Body!Formats, Body!ChooseFormat(m) PROVE BodyInv'
  <2>1. /\ mode' = m /\ UNCHANGED <<wrote, sigMode, text, written, swallowed>>
        /\ overlaps' = overlaps \cup Body!Crossing("format")
    BY <1>5 DEF Body!ChooseFormat
  <2>2. CASE convert.at = "none"
    <3>1. convert' = [at |-> "sent", to |-> m, text |-> text] /\ UNCHANGED another
      BY <1>5, <2>2 DEF Body!ChooseFormat, Body!Ask
    <3>2. convert'.at = "sent" /\ convert'.to = m /\ convert'.text = text
      BY <3>1
    <3>3. overlaps' = overlaps
      BY <2>1, <2>2 DEF Body!Crossing
    <3> QED
      BY <2>1, <3>1, <3>2, <3>3 DEF BodyInv, Complete, Full, Agreed
  <2>3. CASE convert.at # "none"
    <3>1. UNCHANGED convert /\ "format" \in overlaps'
      BY <1>5, <2>1, <2>3 DEF Body!ChooseFormat, Body!Crossing
    <3> QED
      BY <2>1, <3>1 DEF BodyInv, Complete, Full, Agreed
  <2> QED
    BY <2>2, <2>3
<1>6. CASE Body!KeepFormat
  <2>1. /\ mode' = wrote /\ UNCHANGED <<wrote, sigMode, text, convert, another, written, swallowed>>
        /\ overlaps' = overlaps \cup Body!Crossing("format")
    BY <1>6 DEF Body!KeepFormat
  <2>2. "format" \notin overlaps' => convert.at = "none" /\ "format" \notin overlaps
    BY <2>1 DEF Body!Crossing
  <2> QED
    BY <2>1, <2>2 DEF BodyInv, Complete, Full, Agreed
<1>7. CASE Body!Converted
  <2>1. /\ convert.at = "sent" /\ text' \in Body!Shown(convert.text, wrote, convert.to)
        /\ wrote' = convert.to /\ sigMode' = mode /\ another' = FALSE
        /\ UNCHANGED <<mode, written, swallowed, overlaps>>
        /\ convert' = (IF another THEN Body!Ask(text', mode) ELSE Body!NoConversion)
    BY <1>7, Zenon DEF Body!Converted, Body!Rewired
  <2>2. Full(text')
    BY <2>1, ShownIsFull DEF BodyInv, Complete
  <2>3. Full(text)' /\ written \in Nat
    BY <2>1, <2>2 DEF Full, BodyInv, Complete
  <2>4. /\ Complete' /\ convert'.at \in {"none", "sent"} /\ (~another => convert'.at = "none")
        /\ (convert'.at = "sent" => convert'.to = mode')
    BY <2>1, <2>3, NextConversion
  <2>5. Agreed'
    BY <2>1, <2>4 DEF BodyInv, Agreed
  <2> QED
    BY <2>4, <2>5 DEF BodyInv
<1>8. CASE Body!ConvertFails
  <2>1. /\ text' = text /\ another' = FALSE /\ "format" \in overlaps'
        /\ UNCHANGED <<mode, written, swallowed>>
        /\ convert' = (IF another THEN Body!Ask(text', mode) ELSE Body!NoConversion)
    BY <1>8 DEF Body!ConvertFails, Body!Unswapped
  <2>2. Full(text)' /\ written \in Nat
    BY <2>1 DEF Full, BodyInv, Complete
  <2>3. Complete' /\ convert'.at \in {"none", "sent"}
    BY <2>1, <2>2, NextConversion
  <2> QED
    BY <2>1, <2>3 DEF BodyInv, Agreed
<1>9. CASE Body!SendFails
  <2>1. /\ text' \in Body!Shown(text, wrote, mode) /\ wrote' = mode /\ sigMode' = mode
        /\ convert' = Body!NoConversion /\ another' = FALSE /\ UNCHANGED <<mode, written, swallowed>>
    BY <1>9, Zenon DEF Body!SendFails
  <2>2. Full(text')
    BY <2>1, ShownIsFull DEF BodyInv, Complete
  <2>3. Full(text)' /\ written \in Nat
    BY <2>1, <2>2 DEF Full, BodyInv, Complete
  <2>4. convert'.at = "none"
    BY <2>1 DEF Body!NoConversion
  <2> QED
    BY <2>1, <2>3, <2>4 DEF BodyInv, Complete, Agreed
<1>10. CASE UNCHANGED Body!bodyVars
  BY <1>10 DEF Body!bodyVars, BodyInv, Complete, Full, Agreed
<1> QED
  BY <1>1, <1>2, <1>3, <1>4, <1>5, <1>6, <1>7, <1>8, <1>9, <1>10 DEF Body!Next

\* No choice of format, identity or signature loses a word (applyComposeSignature and
\* onComposeFormatChange in app.js), and a text at rest goes out under the format it is in, for
\* any identities, words and choices, with the exceptions the two properties name.
THEOREM WordsStay == Spec => [](Body!WordsAreKept /\ Body!FormatsAgree)
<1>1. Body!Init => BodyInv
  BY BodyInit
<1>2. BodyInv /\ [Body!Next]_Body!bodyVars => BodyInv'
  BY BodyStep
<1>3. BodyInv => Body!WordsAreKept /\ Body!FormatsAgree
  BY DEF BodyInv, Complete, Full, Agreed, Body!WordsAreKept, Body!FormatsAgree
<1> QED
  BY <1>1, <1>2, <1>3, BodyMoves, PTL DEF Body!Spec

-----------------------------------------------------------------------------
(* The signatures of a text: ComposeBody *)

\* The places of the signatures that stand as they were inserted.
Stand(s) == {i \in DOMAIN s : s[i].as # "loose"}

\* Rich text carries marked blocks, a textarea blocks of text.
OfKind(s, format) == \A i \in DOMAIN s : s[i].as # (IF format = "html" THEN "text" ELSE "block")

KnownType == [of : Addresses, var : Body!Formats] \cup {Body!NoSig}
Inserted(s, known) == \E i \in DOMAIN s : Body!Is(s[i], known)

\* At most one of those that stand is not among the n that came with the text: the one the
\* script can take out again.
Few(s, format, known, n) ==
  Cardinality(Stand(s)) <= IF format = "html" \/ Inserted(s, known) THEN n + 1 ELSE n

\* A marked block is of the identity, and one whose signature goes under the message.
Mine(s, f, skip) == \A i \in DOMAIN s : s[i].as = "block" => s[i].of = f /\ f \in Linked /\ ~skip

LEMMA BodyCount == \A S : Body!Cardinality(S) = Cardinality(S)
  BY Zenon DEF Body!Cardinality, Cardinality
LEMMA BodyAt == \A s, I : Body!At(s, I) = At(s, I)
  BY Zenon DEF Body!At, At, Body!Ascending, Ascending, Body!Cardinality, Cardinality

LEMMA StandFinite ==
  ASSUME NEW X, NEW s \in Seq(X)
  PROVE  IsFiniteSet(Stand(s)) /\ Cardinality(Stand(s)) \in Nat
<1>1. IsFiniteSet(DOMAIN s)
  <2>1. DOMAIN s = 1..Len(s) /\ Len(s) \in Nat
    OBVIOUS
  <2> QED
    BY <2>1, FS_Interval
<1>2. Stand(s) \in SUBSET DOMAIN s
  BY DEF Stand
<1>3. IsFiniteSet(Stand(s))
  BY <1>1, <1>2, FS_Subset
<1> QED
  BY <1>3, FS_CardinalityType

\* One more signature makes at most one more.
LEMMA StandAppend ==
  ASSUME NEW X, NEW s \in Seq(X), NEW x \in X, NEW r, r = Append(s, x)
  PROVE  Cardinality(Stand(r)) <= Cardinality(Stand(s)) + 1
<1>1. /\ r \in Seq(X) /\ Len(r) = Len(s) + 1 /\ Len(s) \in Nat
      /\ \A i \in 1..Len(s) : r[i] = s[i]
  BY AppendProperties
<1>2. PICK z : z = Len(s) + 1
  OBVIOUS
<1>3. Stand(r) \in SUBSET (Stand(s) \cup {z})
  BY <1>1, <1>2 DEF Stand
<1>4. PICK S : S = Stand(s)
  OBVIOUS
<1>5. IsFiniteSet(S) /\ Cardinality(S) \in Nat
  BY <1>4, StandFinite
<1>6. IsFiniteSet(S \cup {z}) /\ Cardinality(S \cup {z}) <= Cardinality(S) + 1 /\ Cardinality(S \cup {z}) \in Nat
  BY <1>5, FS_AddElement, FS_CardinalityType
<1>7. Cardinality(Stand(r)) <= Cardinality(S \cup {z}) /\ Cardinality(Stand(r)) \in Nat
  <2>1. Stand(r) \in SUBSET (S \cup {z})
    BY <1>3, <1>4
  <2>2. IsFiniteSet(Stand(r)) /\ Cardinality(Stand(r)) \in Nat
    BY <1>1, StandFinite
  <2> QED
    BY <1>6, <2>1, <2>2, FS_Subset
<1> QED
  BY <1>4, <1>5, <1>6, <1>7

\* One that stands taken out leaves one less.
LEMMA StandDropped ==
  ASSUME NEW X, NEW s \in Seq(X), NEW i \in DOMAIN s, s[i].as # "loose", NEW r, r = Dropped(s, i), NEW n \in Nat,
         Cardinality(Stand(s)) <= n + 1
  PROVE  Cardinality(Stand(r)) <= n
<1>1. r \in Seq(X)
  BY Without
<1>2. PICK f \in Injection(DOMAIN r, DOMAIN s \ {i}) : \A j \in DOMAIN r : r[j] = s[f[j]]
  <2>1. Among(r, s, i)
    BY Without
  <2> QED
    BY <2>1, Zenon DEF Among
<1>3. f \in [DOMAIN r -> DOMAIN s \ {i}] /\ \A j, l \in DOMAIN r : f[j] = f[l] => j = l
  BY DEF Injection, IsInjective
<1>4. PICK S : S = Stand(s)
  OBVIOUS
<1>5. PICK R : R = Stand(r)
  OBVIOUS
<1>6. i \in S /\ R \subseteq DOMAIN r /\ \A j \in R : f[j] \in S \ {i}
  BY <1>2, <1>3, <1>4, <1>5 DEF Stand
<1>7. PICK g : g = [j \in R |-> f[j]]
  OBVIOUS
<1>8. g \in Injection(R, S \ {i})
  BY <1>3, <1>6, <1>7 DEF Injection, IsInjective
<1>9. IsFiniteSet(S) /\ Cardinality(S) \in Nat /\ IsFiniteSet(R) /\ Cardinality(R) \in Nat
  BY <1>1, <1>4, <1>5, StandFinite
<1>10. IsFiniteSet(S \ {i}) /\ Cardinality(S \ {i}) = Cardinality(S) - 1
  BY <1>6, <1>9, FS_RemoveElement
<1>11. Cardinality(R) <= Cardinality(S \ {i})
  BY <1>8, <1>9, <1>10, FS_Injection
<1> QED
  BY <1>4, <1>5, <1>9, <1>10, <1>11

LEMMA TextParts ==
  ASSUME NEW t \in Body!TextType
  PROVE  t.words \subseteq 1..MaxWords /\ t.sigs \in Seq(Body!SigType) /\ DOMAIN t.sigs = 1..Len(t.sigs)
         /\ \A i \in DOMAIN t.sigs : t.sigs[i] \in Body!SigType
<1>1. t.words \subseteq 1..MaxWords /\ t.sigs \in Seq(Body!SigType)
  BY DEF Body!TextType
<1>2. PICK X : X = Body!SigType
  OBVIOUS
<1>3. PICK s \in Seq(X) : s = t.sigs
  BY <1>1, <1>2
<1>4. DOMAIN s = 1..Len(s) /\ \A i \in DOMAIN s : s[i] \in X
  OBVIOUS
<1> QED
  BY <1>1, <1>2, <1>3, <1>4

LEMMA WithSigs ==
  ASSUME NEW t \in Body!TextType, NEW s \in Seq(Body!SigType), NEW u, u = [t EXCEPT !.sigs = s]
  PROVE  u \in Body!TextType /\ u.sigs = s /\ u.words = t.words
<1>1. PICK S : S = Seq(Body!SigType)
  OBVIOUS
<1>2. t \in [words : SUBSET (1..MaxWords), sigs : S]
  BY <1>1 DEF Body!TextType
<1>3. u \in [words : SUBSET (1..MaxWords), sigs : S] /\ u.sigs = s /\ u.words = t.words
  BY <1>1, <1>2
<1> QED
  BY <1>1, <1>3 DEF Body!TextType

\* The text without the signature: nothing the script inserted is left of it.
Bare(u, t, format, known) ==
  /\ u \in Body!TextType /\ u.words = t.words
  /\ \A i \in DOMAIN u.sigs : u.sigs[i].as # "block" /\ (format = "html" => u.sigs[i].as # "text")
  /\ \A n \in Nat : Few(t.sigs, format, known, n) => Cardinality(Stand(u.sigs)) <= n

LEMMA UnsignedBlocks ==
  ASSUME NEW t \in Body!TextType, NEW known, OfKind(t.sigs, "html"), NEW u, u = Body!Unsigned(t, "html", known)
  PROVE  Bare(u, t, "html", known)
<1>1. PICK s : s = t.sigs
  OBVIOUS
<1>2. PICK X : X = Body!SigType
  OBVIOUS
<1>3. s \in Seq(X) /\ DOMAIN s = 1..Len(s)
  BY <1>1, <1>2, TextParts
<1>4. PICK I : I = {i \in DOMAIN s : s[i].as # "block"}
  OBVIOUS
<1>5. PICK r : r = At(s, I)
  OBVIOUS
<1>6. I \in SUBSET DOMAIN s
  BY <1>4
<1>7. r \in Seq(X) /\ \A k \in DOMAIN r : \E i \in I : r[k] = s[i]
  BY <1>3, <1>5, <1>6, AtPlaces
<1>8. \A k \in DOMAIN r : r[k].as # "block" /\ r[k].as # "text"
  BY <1>1, <1>4, <1>7 DEF OfKind
<1>9. u = [t EXCEPT !.sigs = r]
  <2>1. u = [t EXCEPT !.sigs = Body!Unmarked(@)]
    BY Zenon DEF Body!Unsigned
  <2>2. Body!Unmarked(t.sigs) = r
    BY <1>1, <1>4, <1>5, BodyAt, Zenon DEF Body!Unmarked
  <2> QED
    BY <2>1, <2>2
<1>10. u \in Body!TextType /\ u.sigs = r /\ u.words = t.words
  BY <1>2, <1>7, <1>9, WithSigs
<1>11. Stand(r) = {}
  <2>1. \A k \in DOMAIN r : r[k].as = "loose"
    <3>1. \A k \in DOMAIN r : r[k] \in Body!SigType
      BY <1>2, <1>7
    <3> QED
      BY <1>8, <3>1 DEF Body!SigType
  <2> QED
    BY <2>1 DEF Stand
<1>12. Cardinality(Stand(r)) = 0
  BY <1>11, FS_EmptySet
<1> QED
  BY <1>8, <1>10, <1>12 DEF Bare

LEMMA UnsignedText ==
  ASSUME NEW t \in Body!TextType, NEW format, format # "html", NEW known, OfKind(t.sigs, format),
         NEW u, u = Body!Unsigned(t, format, known)
  PROVE  Bare(u, t, format, known)
<1>1. PICK s : s = t.sigs
  OBVIOUS
<1>2. PICK X : X = Body!SigType
  OBVIOUS
<1>3. s \in Seq(X) /\ DOMAIN s = 1..Len(s)
  BY <1>1, <1>2, TextParts
<1>4. \A i \in DOMAIN s : s[i].as # "block"
  BY <1>1 DEF OfKind
<1>5. CASE ~Inserted(s, known)
  <2>1. u = t
    BY <1>1, <1>5, Zenon DEF Body!Unsigned, Inserted
  <2>2. \A n \in Nat : Few(t.sigs, format, known, n) => Cardinality(Stand(u.sigs)) <= n
    BY <1>1, <1>5, <2>1 DEF Few
  <2> QED
    BY <1>1, <1>4, <2>1, <2>2 DEF Bare
<1>6. CASE Inserted(s, known)
  <2> DEFINE I == {i \in DOMAIN s : Body!Is(s[i], known)}
  <2>1. PICK v : v = CHOOSE x \in I : \A y \in I : x <= y
    OBVIOUS
  <2>2. I # {} /\ I \in SUBSET Nat
    BY <1>3, <1>6 DEF Inserted
  <2>3. v \in I
    <3>1. \E x \in I : \A y \in I : x <= y
      <4> HIDE DEF I
      <4> QED
        BY <2>2, Smallest
    <3> HIDE DEF I
    <3> QED
      BY <2>1, <3>1
  <2>4. v \in DOMAIN s /\ Body!Is(s[v], known)
    BY <1>3, <2>3
  <2>5. PICK r : r = Dropped(s, v)
    OBVIOUS
  <2>6. u = [t EXCEPT !.sigs = r]
    <3>1. u = [t EXCEPT !.sigs = SubSeq(@, 1, v - 1) \o SubSeq(@, v + 1, Len(@))]
      BY <1>1, <2>1, <2>2, Zenon DEF Body!Unsigned
    <3>2. SubSeq(s, 1, v - 1) \o SubSeq(s, v + 1, Len(s)) = r
      BY <2>5, Zenon DEF Dropped
    <3> QED
      BY <1>1, <3>1, <3>2
  <2>7. r \in Seq(X) /\ \A j \in DOMAIN r : \E k \in DOMAIN s \ {v} : r[j] = s[k]
    <3>1. r \in Seq(X)
      BY <1>3, <2>4, <2>5, Without
    <3>2. \A j \in DOMAIN r : \E k \in DOMAIN s \ {v} : r[j] = s[k]
      <4>1. Among(r, s, v)
        BY <1>3, <2>4, <2>5, Without
      <4>2. PICK m \in Injection(DOMAIN r, DOMAIN s \ {v}) : \A j \in DOMAIN r : r[j] = s[m[j]]
        BY <4>1, Zenon DEF Among
      <4> QED
        BY <4>2 DEF Injection
    <3> QED
      BY <3>1, <3>2
  <2>8. u \in Body!TextType /\ u.sigs = r /\ u.words = t.words
    BY <1>2, <2>6, <2>7, WithSigs
  <2>9. \A i \in DOMAIN r : r[i].as # "block"
    BY <1>4, <2>7
  <2>10. ASSUME NEW n \in Nat, Few(t.sigs, format, known, n) PROVE Cardinality(Stand(r)) <= n
    <3>1. Cardinality(Stand(s)) <= n + 1
      BY <1>1, <1>6, <2>10 DEF Few
    <3>2. s[v].as # "loose"
      BY <2>4 DEF Body!Is
    <3> QED
      BY <1>3, <2>4, <2>5, <3>1, <3>2, StandDropped
  <2> QED
    BY <2>8, <2>9, <2>10 DEF Bare
<1> QED
  BY <1>5, <1>6

MadeSig(g, f, v, as) == g \in Body!SigType /\ g.as = as /\ g.of = f /\ g.var = v

LEMMA SigMade ==
  ASSUME NEW f \in Addresses, NEW v \in Body!Formats, NEW as \in {"block", "text", "loose"}, NEW g, g = Body!Sig(f, v, as)
  PROVE  MadeSig(g, f, v, as)
<1>1. PICK none \in SUBSET (1..MaxWords) : none = {}
  OBVIOUS
<1>2. g = [of |-> f, var |-> v, as |-> as, holds |-> none]
  BY <1>1, Zenon DEF Body!Sig
<1>3. g.as = as /\ g.of = f /\ g.var = v
  BY <1>2
<1>4. PICK A, B, C, D : A = Addresses /\ B = Body!Formats /\ C = {"block", "text", "loose"} /\ D = SUBSET (1..MaxWords)
  OBVIOUS
<1>5. f \in A /\ v \in B /\ as \in C /\ none \in D
  BY <1>4
<1>6. g \in [of : A, var : B, as : C, holds : D]
  BY ONLY <1>2, <1>5
<1> QED
  BY <1>3, <1>4, <1>6, Zenon DEF Body!SigType, MadeSig

\* What Signed makes of a text: signed at most once more, with what applies to the identity.
SignedWell(r, t, format, known, f, skip) ==
  /\ r.text \in Body!TextType /\ r.text.words = t.words /\ r.known \in KnownType
  /\ OfKind(r.text.sigs, format) /\ Mine(r.text.sigs, f, skip)
  /\ r.known # Body!NoSig => r.known.of = f /\ f \in Linked /\ ~skip
  /\ \A n \in Nat : Few(t.sigs, format, known, n) => Few(r.text.sigs, format, r.known, n)

LEMMA SignedFacts ==
  ASSUME NEW t \in Body!TextType, NEW format \in Body!Formats, NEW known, NEW variant \in Body!Formats,
         NEW f \in Addresses, NEW skip, OfKind(t.sigs, format), NEW r, r = Body!Signed(t, format, known, variant, f, skip)
  PROVE  SignedWell(r, t, format, known, f, skip)
<1>1. PICK bare : bare = Body!Unsigned(t, format, known)
  OBVIOUS
<1>2. Bare(bare, t, format, known)
  BY <1>1, UnsignedBlocks, UnsignedText
<1>3. /\ bare \in Body!TextType /\ bare.words = t.words
      /\ \A i \in DOMAIN bare.sigs : bare.sigs[i].as # "block" /\ (format = "html" => bare.sigs[i].as # "text")
      /\ \A n \in Nat : Few(t.sigs, format, known, n) => Cardinality(Stand(bare.sigs)) <= n
  BY <1>2 DEF Bare
<1>4. CASE f \notin Linked \/ skip
  <2>1. r = [text |-> bare, known |-> Body!NoSig]
    BY <1>1, <1>4, Zenon DEF Body!Signed
  <2>2. r.text = bare /\ r.known = Body!NoSig
    BY <2>1
  <2>3. ASSUME NEW n \in Nat, Few(t.sigs, format, known, n) PROVE Few(r.text.sigs, format, r.known, n)
    <3>1. Cardinality(Stand(bare.sigs)) <= n /\ Cardinality(Stand(bare.sigs)) \in Nat
      BY <1>3, <2>3, TextParts, StandFinite
    <3> QED
      BY <2>2, <3>1 DEF Few
  <2>4. OfKind(bare.sigs, format) /\ Mine(bare.sigs, f, skip)
    BY <1>3 DEF OfKind, Mine
  <2> QED
    BY <1>3, <2>2, <2>3, <2>4 DEF SignedWell, KnownType
<1>5. CASE ~(f \notin Linked \/ skip)
  <2>1. PICK as \in {"block", "text", "loose"} : as = IF format = "html" THEN "block" ELSE "text"
    OBVIOUS
  <2>2. PICK g : g = Body!Sig(f, variant, as)
    OBVIOUS
  <2>3. g \in Body!SigType /\ g.as = as /\ g.of = f /\ g.var = variant
    <3>1. MadeSig(g, f, variant, as)
      BY <2>2, SigMade
    <3> QED
      BY <3>1 DEF MadeSig
  <2>4. PICK X : X = Body!SigType
    OBVIOUS
  <2>5. PICK s \in Seq(X) : s = bare.sigs
    BY <1>3, <2>4, TextParts
  <2>6. PICK q : q = Append(s, g)
    OBVIOUS
  <2>7. /\ q \in Seq(X) /\ Len(q) = Len(s) + 1 /\ Len(s) \in Nat
        /\ \A i \in 1..Len(s) : q[i] = s[i]
        /\ q[Len(s) + 1] = g
    BY <2>3, <2>4, <2>6, AppendProperties
  <2>8. DOMAIN q = 1..Len(s) + 1 /\ DOMAIN s = 1..Len(s)
    BY <2>7
  <2>9. \A i \in DOMAIN q : q[i] = g \/ \E j \in DOMAIN s : q[i] = s[j]
    BY <2>7, <2>8
  <2>10. Len(s) + 1 \in DOMAIN q
    BY <2>7, <2>8
  <2>11. PICK k : k = [of |-> f, var |-> variant]
    OBVIOUS
  <2>12. PICK known2 : known2 = IF format = "html" THEN Body!NoSig ELSE k
    OBVIOUS
  <2>13. r.text = [bare EXCEPT !.sigs = q] /\ r.known = known2
    <3>1. CASE format = "html"
      <4>1. r = [text |-> [bare EXCEPT !.sigs = Append(@, g)], known |-> Body!NoSig]
        BY <1>1, <1>5, <2>1, <2>2, <3>1, Zenon DEF Body!Signed
      <4>2. r.text = [bare EXCEPT !.sigs = Append(@, g)] /\ r.known = Body!NoSig
        BY <4>1
      <4> QED
        BY <2>5, <2>6, <2>12, <3>1, <4>2
    <3>2. CASE format # "html"
      <4>1. r = [text |-> [bare EXCEPT !.sigs = Append(@, g)], known |-> k]
        BY <1>1, <1>5, <2>1, <2>2, <2>11, <3>2, Zenon DEF Body!Signed
      <4>2. r.text = [bare EXCEPT !.sigs = Append(@, g)] /\ r.known = k
        BY <4>1
      <4> QED
        BY <2>5, <2>6, <2>12, <3>2, <4>2
    <3> QED
      BY <3>1, <3>2
  <2>14. r.text \in Body!TextType /\ r.text.sigs = q /\ r.text.words = t.words
    BY <1>3, <2>4, <2>7, <2>13, WithSigs
  <2>15. known2 \in KnownType /\ (known2 # Body!NoSig => known2.of = f /\ f \in Linked /\ ~skip)
    BY <1>5, <2>11, <2>12 DEF KnownType
  <2>16. OfKind(q, format) /\ Mine(q, f, skip)
    <3>1. \A j \in DOMAIN s : s[j].as # "block" /\ (format = "html" => s[j].as # "text")
      BY <1>3, <2>5
    <3> QED
      BY <1>5, <2>1, <2>3, <2>9, <3>1 DEF OfKind, Mine
  <2>17. ASSUME NEW n \in Nat, Few(t.sigs, format, known, n) PROVE Few(q, format, known2, n)
    <3>1. Cardinality(Stand(s)) <= n /\ Cardinality(Stand(s)) \in Nat
      BY <1>3, <2>5, <2>17, StandFinite
    <3>2. Cardinality(Stand(q)) <= Cardinality(Stand(s)) + 1 /\ Cardinality(Stand(q)) \in Nat
      BY <2>3, <2>4, <2>6, <2>7, StandAppend, StandFinite
    <3>3. format = "html" \/ Inserted(q, known2)
      <4> SUFFICES ASSUME format # "html" PROVE Inserted(q, known2)
        OBVIOUS
      <4>1. Body!Is(g, known2)
        BY <2>1, <2>3, <2>11, <2>12 DEF Body!Is
      <4> QED
        BY <2>7, <2>10, <4>1 DEF Inserted
    <3> QED
      BY <3>1, <3>2, <3>3 DEF Few
  <2> QED
    BY <2>13, <2>14, <2>15, <2>16, <2>17 DEF SignedWell
<1> QED
  BY <1>4, <1>5

\* A converted text carries no mark, and one that a textarea keeps no other than it had.
ShownWell(u, t, old, new) ==
  /\ u \in Body!TextType /\ OfKind(u.sigs, new) /\ \A i \in DOMAIN u.sigs : u.sigs[i].as # "block"
  /\ \A n \in Nat, known \in KnownType : Few(t.sigs, old, known, n) => Few(u.sigs, new, known, n)

LEMMA AsTextFacts ==
  ASSUME Body!BodyAssumption, NEW t \in Body!TextType, NEW u, u = Body!AsText(t)
  PROVE  u \in Body!TextType /\ \A i \in DOMAIN u.sigs : u.sigs[i].as = "loose"
<1>1. PICK X : X = Body!SigType
  OBVIOUS
<1>2. PICK s \in Seq(X) : s = t.sigs
  BY <1>1, TextParts
<1>3. DOMAIN s = 1..Len(s) /\ Len(s) \in Nat /\ \A i \in DOMAIN s : s[i] \in X
  OBVIOUS
<1>4. PICK q : q = [i \in DOMAIN s |-> Body!Sig(s[i].of, s[i].var, "loose")]
  OBVIOUS
<1>5. PICK w : w = t.words \cup Body!Held(t)
  OBVIOUS
<1>6. w \subseteq 1..MaxWords
  <2>1. \A i \in DOMAIN s : s[i].holds \subseteq 1..MaxWords
    BY <1>1, <1>3 DEF Body!SigType
  <2>2. Body!Held(t) \subseteq 1..MaxWords
    BY <1>2, <2>1 DEF Body!Held
  <2> QED
    BY <1>5, <2>2, TextParts
<1>7. ASSUME NEW i \in DOMAIN s PROVE q[i] \in X /\ q[i].as = "loose"
  <2>1. PICK f \in Addresses : f = s[i].of
    BY <1>1, <1>3 DEF Body!SigType
  <2>2. PICK v \in Body!Formats : v = s[i].var
    BY <1>1, <1>3 DEF Body!SigType
  <2>3. PICK as \in {"block", "text", "loose"} : as = "loose"
    OBVIOUS
  <2>4. q[i] = Body!Sig(f, v, as)
    BY <1>4, <2>1, <2>2, <2>3
  <2>5. MadeSig(q[i], f, v, as)
    BY <2>4, SigMade
  <2> QED
    BY <1>1, <2>3, <2>5 DEF MadeSig
<1>8. q \in Seq(X) /\ DOMAIN q = DOMAIN s
  <2>1. DOMAIN q = 1..Len(s)
    BY <1>3, <1>4
  <2>2. \A i \in 1..Len(s) : q[i] \in X
    BY <1>3, <1>7
  <2>3. q = [i \in 1..Len(s) |-> q[i]]
    BY <1>3, <1>4
  <2>4. q \in [1..Len(s) -> X]
    BY <2>2, <2>3
  <2>5. PICK f \in [1..Len(s) -> X] : f = q
    BY <2>4
  <2>6. f \in Seq(X)
    BY <1>3
  <2> QED
    BY <1>3, <2>1, <2>5, <2>6
<1>9. u = [words |-> w, sigs |-> q]
  BY <1>2, <1>4, <1>5, Zenon DEF Body!AsText
<1>10. u.words = w /\ u.sigs = q
  BY <1>9
<1>11. u \in Body!TextType
  <2>1. PICK S, W : S = Seq(Body!SigType) /\ W = SUBSET (1..MaxWords)
    OBVIOUS
  <2>2. q \in S /\ w \in W
    BY <1>1, <1>6, <1>8, <2>1
  <2>3. u \in [words : W, sigs : S]
    BY ONLY <1>9, <2>2
  <2> QED
    BY <2>1, <2>3, Zenon DEF Body!TextType
<1> QED
  BY <1>7, <1>8, <1>10, <1>11

LEMMA ShownFacts ==
  ASSUME Body!BodyAssumption, NEW t \in Body!TextType, NEW old, NEW new, OfKind(t.sigs, old), NEW u \in Body!Shown(t, old, new)
  PROVE  ShownWell(u, t, old, new)
<1>1. (u = t /\ new # "html" /\ old # "html") \/ u = Body!AsText(t)
  BY Zenon DEF Body!Shown
<1>2. CASE u = t /\ new # "html" /\ old # "html"
  BY <1>2 DEF ShownWell, OfKind, Few
<1>3. CASE u = Body!AsText(t)
  <2>1. u \in Body!TextType /\ \A i \in DOMAIN u.sigs : u.sigs[i].as = "loose"
    BY <1>3, AsTextFacts
  <2>2. Stand(u.sigs) = {}
    BY <2>1 DEF Stand
  <2>3. Cardinality(Stand(u.sigs)) = 0
    BY <2>2, FS_EmptySet
  <2>4. \A n \in Nat, known \in KnownType : Few(u.sigs, new, known, n)
    BY <2>3 DEF Few
  <2> QED
    BY <2>1, <2>4 DEF ShownWell, OfKind
<1> QED
  BY <1>1, <1>2, <1>3

-----------------------------------------------------------------------------
(* The text's invariant *)

ConvertType == [at : {"none", "sent"}, to : Body!Formats, text : Body!TextType]

BoxesTyped ==
  /\ mode \in Body!Formats /\ wrote \in Body!Formats /\ sigMode \in Body!Formats /\ from \in Addresses
  /\ skipped \in BOOLEAN /\ another \in BOOLEAN /\ overlaps \subseteq {"format", "sign"}
  /\ sigText \in KnownType /\ written \in 0..MaxWords /\ choices \in 0..MaxChoices
  /\ swallowed \subseteq 1..written /\ brought \in Nat

TextsTyped == text \in Body!TextType /\ convert \in ConvertType

\* What the script remembers of a textarea, and every marked block, is of the identity the
\* message is from.
SigsAreOfFrom ==
  /\ OfKind(text.sigs, wrote) /\ Mine(text.sigs, from, skipped)
  /\ sigText # Body!NoSig => sigText.of = from /\ from \in Linked /\ ~skipped
  /\ convert.at = "sent" => OfKind(convert.text.sigs, wrote)

\* So long as none was chosen under a conversion, few stand in the text, and in the one on its way.
FewStand ==
  "sign" \notin overlaps =>
    /\ Few(text.sigs, wrote, sigText, brought)
    /\ convert.at = "sent" => Few(convert.text.sigs, wrote, sigText, brought)

TextInv == BoxesTyped /\ TextsTyped /\ SigsAreOfFrom /\ FewStand

LEMMA Asked ==
  ASSUME NEW m \in Body!Formats, NEW t \in Body!TextType, NEW c, c = Body!Ask(t, m)
  PROVE  c \in ConvertType /\ c.at = "sent" /\ c.text = t
<1>1. c = [at |-> "sent", to |-> m, text |-> t]
  BY DEF Body!Ask
<1>2. PICK A, T : A = {"none", "sent"} /\ T = Body!TextType
  OBVIOUS
<1>3. c \in [at : A, to : Body!Formats, text : T] /\ c.at = "sent" /\ c.text = t
  BY <1>1, <1>2
<1> QED
  BY <1>2, <1>3 DEF ConvertType

LEMMA NoneAsked == Body!NoConversion \in ConvertType /\ Body!NoConversion.at = "none"
<1>1. PICK none \in SUBSET (1..MaxWords) : none = {}
  OBVIOUS
<1>2. PICK q \in Seq(Body!SigType) : q = <<>>
  <2>1. PICK X : X = Body!SigType
    OBVIOUS
  <2>2. <<>> \in Seq(X)
    OBVIOUS
  <2> QED
    BY <2>1, <2>2
<1>3. PICK t : t = [words |-> none, sigs |-> q]
  OBVIOUS
<1>4. PICK S, W : S = Seq(Body!SigType) /\ W = SUBSET (1..MaxWords)
  OBVIOUS
<1>5. t \in [words : W, sigs : S]
  BY <1>3, <1>4
<1>6. t \in Body!TextType
  BY <1>4, <1>5, Zenon DEF Body!TextType
<1>7. PICK c : c = Body!NoConversion
  OBVIOUS
<1>8. c = [at |-> "none", to |-> "plain", text |-> t]
  BY <1>1, <1>2, <1>3, <1>7, Zenon DEF Body!NoConversion
<1>9. c.at = "none"
  BY <1>8
<1>10. "none" \in {"none", "sent"} /\ "plain" \in Body!Formats
  BY DEF Body!Formats
<1>11. PICK A, T : A = {"none", "sent"} /\ T = Body!TextType
  OBVIOUS
<1>12. c \in [at : A, to : Body!Formats, text : T]
  BY <1>6, <1>8, <1>10, <1>11
<1> QED
  BY <1>7, <1>9, <1>11, <1>12, Zenon DEF ConvertType

\* Signing, and with it a choice under a conversion, which FewStand says nothing of.
LEMMA TextSigns ==
  ASSUME Body!BodyAssumption, TextInv, NEW f \in Addresses, NEW skip \in BOOLEAN, Body!Apply(f, skip), from' = f, skipped' = skip,
         UNCHANGED <<mode, wrote, sigMode, convert, another, written, swallowed, brought>>, choices' \in 0..MaxChoices
  PROVE  TextInv'
<1>1. PICK r : r = Body!Signed(text, wrote, sigText, sigMode, f, skip)
  OBVIOUS
<1>2. text' = r.text /\ sigText' = r.known /\ overlaps' = overlaps \cup Body!Crossing("sign")
  BY <1>1, Zenon DEF Body!Apply
<1>3. SignedWell(r, text, wrote, sigText, f, skip)
  BY <1>1, SignedFacts DEF TextInv, BoxesTyped, TextsTyped, SigsAreOfFrom
<1>4. /\ text' \in Body!TextType /\ sigText' \in KnownType
      /\ OfKind(text'.sigs, wrote) /\ Mine(text'.sigs, f, skip)
      /\ sigText' # Body!NoSig => sigText'.of = f /\ f \in Linked /\ ~skip
      /\ \A n \in Nat : Few(text.sigs, wrote, sigText, n) => Few(text'.sigs, wrote, sigText', n)
  BY <1>2, <1>3 DEF SignedWell
<1>5. convert.at = "none" \/ convert.at = "sent"
  BY DEF TextInv, TextsTyped, ConvertType
<1>6. overlaps' \subseteq {"format", "sign"} /\ overlaps \subseteq overlaps' /\ (convert.at = "sent" => "sign" \in overlaps')
  BY <1>2, <1>5 DEF Body!Crossing, TextInv, BoxesTyped
<1>7. BoxesTyped'
  BY <1>4, <1>6 DEF TextInv, BoxesTyped
<1>8. TextsTyped'
  BY <1>4 DEF TextInv, TextsTyped
<1>9. SigsAreOfFrom'
  BY <1>4 DEF TextInv, SigsAreOfFrom, OfKind, Mine
<1>10. FewStand'
  BY <1>4, <1>6 DEF TextInv, FewStand, BoxesTyped
<1> QED
  BY <1>7, <1>8, <1>9, <1>10 DEF TextInv

\* The places as they were, one of them loose or as it was: none more stand.
LEMMA StandTouched ==
  ASSUME NEW X, NEW s \in Seq(X), NEW i \in DOMAIN s, NEW q \in Seq(X), DOMAIN q = DOMAIN s,
         \A j \in DOMAIN s \ {i} : q[j] = s[j], q[i].as = "loose", NEW n \in Nat
  PROVE  /\ Cardinality(Stand(s)) <= n => Cardinality(Stand(q)) <= n
         /\ s[i].as # "loose" /\ Cardinality(Stand(s)) <= n + 1 => Cardinality(Stand(q)) <= n
<1>1. PICK S : S = Stand(s)
  OBVIOUS
<1>2. PICK Q : Q = Stand(q)
  OBVIOUS
<1>3. Q \in SUBSET S /\ Q \in SUBSET (S \ {i})
  BY <1>1, <1>2 DEF Stand
<1>4. IsFiniteSet(S) /\ Cardinality(S) \in Nat /\ IsFiniteSet(Q) /\ Cardinality(Q) \in Nat
  BY <1>1, <1>2, StandFinite
<1>5. Cardinality(Q) <= Cardinality(S)
  BY <1>3, <1>4, FS_Subset
<1>6. i \in S => Cardinality(Q) <= Cardinality(S) - 1
  <2> SUFFICES ASSUME i \in S PROVE Cardinality(Q) <= Cardinality(S) - 1
    OBVIOUS
  <2>1. IsFiniteSet(S \ {i}) /\ Cardinality(S \ {i}) = Cardinality(S) - 1
    BY <1>4, FS_RemoveElement
  <2> QED
    BY <1>3, <2>1, FS_Subset
<1>7. s[i].as # "loose" => i \in S
  BY <1>1 DEF Stand
<1> QED
  BY <1>1, <1>2, <1>4, <1>5, <1>6, <1>7

\* A new word, wherever it goes: signatures that are of the same kind, and few of them.
LEMMA WordStep ==
  ASSUME Body!BodyAssumption, TextInv, Body!NewWord, UNCHANGED Body!writingVars, text' \in Body!TextType,
         swallowed' \subseteq 1..written',
         OfKind(text.sigs, wrote) => OfKind(text'.sigs, wrote), Mine(text.sigs, from, skipped) => Mine(text'.sigs, from, skipped),
         Few(text.sigs, wrote, sigText, brought) => Few(text'.sigs, wrote, sigText, brought)
  PROVE  TextInv'
<1>1. /\ written < MaxWords /\ written' = written + 1
      /\ UNCHANGED <<mode, wrote, sigMode, from, skipped, sigText, convert, another, choices, brought, overlaps>>
  BY DEF Body!NewWord, Body!writingVars
<1>2. written' \in 0..MaxWords
  BY <1>1 DEF TextInv, BoxesTyped, Body!BodyAssumption
<1>3. BoxesTyped'
  BY <1>1, <1>2 DEF TextInv, BoxesTyped
<1>4. TextsTyped'
  BY <1>1 DEF TextInv, TextsTyped
<1>5. SigsAreOfFrom'
  <2>1. OfKind(text'.sigs, wrote) /\ Mine(text'.sigs, from, skipped)
    BY DEF TextInv, SigsAreOfFrom
  <2> QED
    BY <1>1, <2>1 DEF TextInv, SigsAreOfFrom, OfKind, Mine
<1>6. FewStand'
  BY <1>1 DEF TextInv, FewStand, Few, Inserted, Body!Is, Stand
<1> QED
  BY <1>3, <1>4, <1>5, <1>6 DEF TextInv

LEMMA NewWordIn ==
  ASSUME Body!BodyAssumption, TextInv, Body!NewWord, swallowed' = swallowed \cup Body!Raced \/ swallowed' = swallowed \cup {written'}
  PROVE  /\ swallowed' \subseteq 1..written' /\ written' \in 1..MaxWords
<1>1. written \in Nat /\ MaxWords \in Nat /\ written < MaxWords /\ written' = written + 1 /\ swallowed \subseteq 1..written
  BY DEF Body!NewWord, TextInv, BoxesTyped, Body!BodyAssumption
<1>2. written' \in 1..MaxWords /\ 1..written \subseteq 1..written' /\ written' \in 1..written'
  BY <1>1
<1>3. Body!Raced \subseteq {written'}
  BY DEF Body!Raced
<1> QED
  BY <1>1, <1>2, <1>3

LEMMA WriteStep == ASSUME Body!BodyAssumption, TextInv, Body!Write PROVE TextInv'
<1>1. /\ Body!NewWord /\ UNCHANGED Body!writingVars /\ swallowed' = swallowed \cup Body!Raced
      /\ text' = [text EXCEPT !.words = @ \cup {written'}]
  BY DEF Body!Write
<1>2. swallowed' \subseteq 1..written' /\ written' \in 1..MaxWords
  BY <1>1, NewWordIn
<1>3. text \in Body!TextType
  BY DEF TextInv, TextsTyped
<1>4. PICK S, W : S = Seq(Body!SigType) /\ W = SUBSET (1..MaxWords)
  OBVIOUS
<1>5. PICK w \in W : w = text.words \cup {written'}
  BY <1>2, <1>3, <1>4, TextParts
<1>6. text \in [words : W, sigs : S]
  BY <1>3, <1>4, Zenon DEF Body!TextType
<1>7. text' = [text EXCEPT !.words = w]
  BY <1>1, <1>5
<1>8. text' \in [words : W, sigs : S] /\ text'.sigs = text.sigs
  BY <1>6, <1>7
<1>9. text' \in Body!TextType
  BY <1>4, <1>8, Zenon DEF Body!TextType
<1> QED
  BY <1>1, <1>2, <1>8, <1>9, WordStep

\* One place of a sequence of signatures put in another's.
LEMMA PutAt ==
  ASSUME NEW X, NEW s \in Seq(X), NEW i \in DOMAIN s, NEW h \in X, NEW q, q = [s EXCEPT ![i] = h]
  PROVE  q \in Seq(X) /\ DOMAIN q = DOMAIN s /\ q[i] = h /\ \A j \in DOMAIN s \ {i} : q[j] = s[j]
<1>1. DOMAIN s = 1..Len(s) /\ Len(s) \in Nat /\ \A j \in DOMAIN s : s[j] \in X
  OBVIOUS
<1>2. q \in [1..Len(s) -> X]
  BY <1>1
<1>3. PICK f \in [1..Len(s) -> X] : f = q
  BY <1>2
<1>4. f \in Seq(X)
  BY <1>1
<1> QED
  BY <1>3, <1>4

LEMMA WriteInBlock ==
  ASSUME Body!BodyAssumption, TextInv, NEW i \in DOMAIN text.sigs, Body!WriteInside(i), text.sigs[i].as = "block" PROVE TextInv'
<1>1. /\ Body!NewWord /\ UNCHANGED Body!writingVars /\ swallowed' = swallowed \cup {written'}
      /\ text' = [text EXCEPT !.sigs[i].holds = @ \cup {written'}]
  BY DEF Body!WriteInside
<1>2. swallowed' \subseteq 1..written' /\ written' \in 1..MaxWords
  BY <1>1, NewWordIn
<1>3. text \in Body!TextType
  BY DEF TextInv, TextsTyped
<1>4. PICK X : X = Body!SigType
  OBVIOUS
<1>5. PICK s \in Seq(X) : s = text.sigs
  BY <1>3, <1>4, TextParts
<1>6. PICK g \in Body!SigType : g = s[i]
  BY <1>3, <1>5, TextParts
<1>7. PICK w \in SUBSET (1..MaxWords) : w = g.holds \cup {written'}
  BY <1>2 DEF Body!SigType
<1>8. PICK h : h = [g EXCEPT !.holds = w]
  OBVIOUS
<1>9. h \in Body!SigType /\ h.as = g.as /\ h.of = g.of /\ h.var = g.var
  BY <1>8 DEF Body!SigType
<1>10. PICK q : q = [s EXCEPT ![i] = h]
  OBVIOUS
<1>11. q \in Seq(X) /\ DOMAIN q = DOMAIN s /\ q[i] = h /\ \A j \in DOMAIN s \ {i} : q[j] = s[j]
  BY <1>4, <1>5, <1>9, <1>10, PutAt
<1>12. text' = [text EXCEPT !.sigs = q]
  BY <1>1, <1>3, <1>5, <1>6, <1>7, <1>8, <1>10 DEF Body!TextType
<1>13. text' \in Body!TextType /\ text'.sigs = q
  BY <1>3, <1>4, <1>11, <1>12, WithSigs
<1>14. \A j \in DOMAIN q : q[j].as = s[j].as /\ q[j].of = s[j].of /\ q[j].var = s[j].var
  BY <1>5, <1>6, <1>9, <1>11
<1>15. Stand(q) = Stand(s)
  BY <1>11, <1>14 DEF Stand
<1>16. Inserted(q, sigText) <=> Inserted(s, sigText)
  BY <1>11, <1>14 DEF Inserted, Body!Is
<1>17. Few(text.sigs, wrote, sigText, brought) => Few(text'.sigs, wrote, sigText, brought)
  BY <1>5, <1>13, <1>15, <1>16 DEF Few
<1>18. OfKind(text.sigs, wrote) => OfKind(text'.sigs, wrote)
  BY <1>5, <1>11, <1>13, <1>14 DEF OfKind
<1>19. Mine(text.sigs, from, skipped) => Mine(text'.sigs, from, skipped)
  BY <1>5, <1>11, <1>13, <1>14 DEF Mine
<1> QED
  BY <1>1, <1>2, <1>13, <1>17, <1>18, <1>19, WordStep

LEMMA WriteInText ==
  ASSUME Body!BodyAssumption, TextInv, NEW i \in DOMAIN text.sigs, Body!WriteInside(i), text.sigs[i].as # "block" PROVE TextInv'
<1>1. /\ Body!NewWord /\ UNCHANGED Body!writingVars /\ swallowed' = swallowed \cup Body!Raced
      /\ text' = [text EXCEPT !.sigs[i].as = "loose", !.words = @ \cup {written'}]
  BY DEF Body!WriteInside
<1>2. swallowed' \subseteq 1..written' /\ written' \in 1..MaxWords
  BY <1>1, NewWordIn
<1>3. text \in Body!TextType
  BY DEF TextInv, TextsTyped
<1>4. PICK X : X = Body!SigType
  OBVIOUS
<1>5. PICK s \in Seq(X) : s = text.sigs
  BY <1>3, <1>4, TextParts
<1>6. PICK g \in Body!SigType : g = s[i]
  BY <1>3, <1>5, TextParts
<1>7. PICK h : h = [g EXCEPT !.as = "loose"]
  OBVIOUS
<1>8. h \in Body!SigType /\ h.as = "loose"
  BY <1>7 DEF Body!SigType
<1>9. PICK q : q = [s EXCEPT ![i] = h]
  OBVIOUS
<1>10. q \in Seq(X) /\ DOMAIN q = DOMAIN s /\ q[i] = h /\ \A j \in DOMAIN s \ {i} : q[j] = s[j]
  BY <1>4, <1>5, <1>8, <1>9, PutAt
<1>11. PICK S, W : S = Seq(Body!SigType) /\ W = SUBSET (1..MaxWords)
  OBVIOUS
<1>12. PICK w \in W : w = text.words \cup {written'}
  BY <1>2, <1>3, <1>11, TextParts
<1>13. text \in [words : W, sigs : S]
  BY <1>3, <1>11, Zenon DEF Body!TextType
<1>14. text' = [text EXCEPT !.sigs = q, !.words = w]
  BY <1>1, <1>5, <1>6, <1>7, <1>9, <1>12, <1>13
<1>15. text' \in [words : W, sigs : S] /\ text'.sigs = q
  BY <1>4, <1>10, <1>11, <1>13, <1>14
<1>16. text' \in Body!TextType
  BY <1>11, <1>15, Zenon DEF Body!TextType
<1>17. brought \in Nat
  BY DEF TextInv, BoxesTyped
<1>18. ASSUME NEW n \in Nat
       PROVE  /\ Cardinality(Stand(s)) <= n => Cardinality(Stand(q)) <= n
              /\ s[i].as # "loose" /\ Cardinality(Stand(s)) <= n + 1 => Cardinality(Stand(q)) <= n
  <2>1. PICK r : r = q
    OBVIOUS
  <2>2. r \in Seq(X) /\ DOMAIN r = DOMAIN s /\ r[i].as = "loose" /\ \A j \in DOMAIN s \ {i} : r[j] = s[j] /\ i \in DOMAIN s
    BY <1>5, <1>8, <1>10, <2>1
  <2>3. i \in DOMAIN s
    BY <1>5
  <2>4. /\ Cardinality(Stand(s)) <= n => Cardinality(Stand(r)) <= n
        /\ s[i].as # "loose" /\ Cardinality(Stand(s)) <= n + 1 => Cardinality(Stand(r)) <= n
    BY <2>2, <2>3, StandTouched
  <2> QED
    BY <2>1, <2>4
<1>19. ASSUME Few(s, wrote, sigText, brought) PROVE Few(q, wrote, sigText, brought)
  <2>0. Cardinality(Stand(q)) \in Nat /\ Cardinality(Stand(s)) \in Nat /\ brought + 1 \in Nat
    BY <1>10, <1>17, StandFinite
  <2>1. CASE wrote = "html"
    <3>1. Cardinality(Stand(s)) <= brought + 1
      BY <1>19, <2>1 DEF Few
    <3>2. Cardinality(Stand(q)) <= brought + 1
      BY <1>18, <2>0, <3>1
    <3> QED
      BY <2>1, <3>2 DEF Few
  <2>2. CASE wrote # "html" /\ ~Inserted(s, sigText)
    <3>1. Cardinality(Stand(s)) <= brought
      BY <1>19, <2>2 DEF Few
    <3>2. Cardinality(Stand(q)) <= brought
      BY <1>17, <1>18, <3>1
    <3> QED
      BY <1>17, <2>0, <3>2 DEF Few
  <2>3. CASE wrote # "html" /\ Inserted(s, sigText)
    <3>1. Cardinality(Stand(s)) <= brought + 1
      BY <1>19, <2>3 DEF Few
    <3>2. CASE Inserted(q, sigText)
      <4>1. Cardinality(Stand(q)) <= brought + 1
        BY <1>18, <2>0, <3>1
      <4> QED
        BY <3>2, <4>1 DEF Few
    <3>3. CASE ~Inserted(q, sigText)
      <4>1. PICK j \in DOMAIN s : Body!Is(s[j], sigText)
        BY <2>3 DEF Inserted
      <4>2. j = i
        BY <1>10, <3>3, <4>1 DEF Inserted
      <4>3. s[i].as # "loose"
        BY <4>1, <4>2 DEF Body!Is
      <4>4. Cardinality(Stand(q)) <= brought
        BY <1>17, <1>18, <3>1, <4>3
      <4> QED
        BY <3>3, <2>3, <4>4 DEF Few
    <3> QED
      BY <3>2, <3>3
  <2> QED
    BY <2>1, <2>2, <2>3
<1>20. Few(text.sigs, wrote, sigText, brought) => Few(text'.sigs, wrote, sigText, brought)
  BY <1>5, <1>15, <1>19
<1>21. OfKind(text.sigs, wrote) => OfKind(text'.sigs, wrote)
  BY <1>5, <1>8, <1>10, <1>15 DEF OfKind
<1>22. Mine(text.sigs, from, skipped) => Mine(text'.sigs, from, skipped)
  BY <1>5, <1>8, <1>10, <1>15 DEF Mine
<1> QED
  BY <1>1, <1>2, <1>16, <1>20, <1>21, <1>22, WordStep

LEMMA ChoiceSpent == ASSUME Body!BodyAssumption, TextInv, Body!Choice PROVE choices' \in 0..MaxChoices
  BY DEF Body!Choice, TextInv, BoxesTyped, Body!BodyAssumption

\* The conversion that waited leaves with a text, or none does.
LEMMA NextAsked ==
  ASSUME NEW m \in Body!Formats, NEW t \in Body!TextType, NEW c, c = IF another THEN Body!Ask(t, m) ELSE Body!NoConversion
  PROVE  c \in ConvertType /\ (c.at = "sent" => c.text = t)
<1>1. CASE another
  <2>1. c = Body!Ask(t, m)
    BY <1>1
  <2> QED
    BY <2>1, Asked
<1>2. CASE ~another
  BY <1>2, NoneAsked
<1> QED
  BY <1>1, <1>2

LEMMA ChooseFormatStep ==
  ASSUME Body!BodyAssumption, TextInv, NEW m \in Body!Formats, Body!ChooseFormat(m) PROVE TextInv'
<1>1. /\ mode' = m /\ overlaps' = overlaps \cup Body!Crossing("format") /\ choices' \in 0..MaxChoices
      /\ \/ convert' = Body!Ask(text, m) /\ another' = another
         \/ another' = TRUE /\ convert' = convert
      /\ UNCHANGED <<wrote, sigMode, from, skipped, sigText, text, written, swallowed, brought>>
  BY ChoiceSpent DEF Body!ChooseFormat
<1>2. overlaps' \subseteq {"format", "sign"} /\ ("sign" \in overlaps' <=> "sign" \in overlaps)
  BY <1>1 DEF Body!Crossing, TextInv, BoxesTyped
<1>3. BoxesTyped'
  BY <1>1, <1>2 DEF TextInv, BoxesTyped
<1>4. text \in Body!TextType
  BY DEF TextInv, TextsTyped
<1>5. convert' \in ConvertType /\ (convert'.at = "sent" => convert'.text = text \/ convert' = convert)
  <2>1. CASE convert' = Body!Ask(text, m)
    <3>1. PICK c : c = convert'
      OBVIOUS
    <3>2. c \in ConvertType /\ c.text = text
      BY <1>4, <2>1, <3>1, Asked
    <3> QED
      BY <3>1, <3>2
  <2>2. CASE convert' = convert
    BY <2>2 DEF TextInv, TextsTyped
  <2> QED
    BY <1>1, <2>1, <2>2
<1>6. SigsAreOfFrom'
  BY <1>1, <1>5 DEF TextInv, SigsAreOfFrom, OfKind, Mine
<1>7. FewStand'
  BY <1>1, <1>2, <1>5 DEF TextInv, FewStand
<1> QED
  BY <1>1, <1>3, <1>4, <1>5, <1>6, <1>7 DEF TextInv, TextsTyped

LEMMA KeepFormatStep == ASSUME Body!BodyAssumption, TextInv, Body!KeepFormat PROVE TextInv'
<1>1. /\ mode' = wrote /\ overlaps' = overlaps \cup Body!Crossing("format") /\ choices' \in 0..MaxChoices
      /\ UNCHANGED <<wrote, sigMode, from, skipped, sigText, text, convert, another, written, swallowed, brought>>
  BY ChoiceSpent DEF Body!KeepFormat
<1>2. overlaps' \subseteq {"format", "sign"} /\ ("sign" \in overlaps' <=> "sign" \in overlaps)
  BY <1>1 DEF Body!Crossing, TextInv, BoxesTyped
<1>3. BoxesTyped'
  BY <1>1, <1>2 DEF TextInv, BoxesTyped
<1>4. TextsTyped' /\ SigsAreOfFrom'
  BY <1>1 DEF TextInv, TextsTyped, SigsAreOfFrom, OfKind, Mine
<1>5. FewStand'
  BY <1>1, <1>2 DEF TextInv, FewStand
<1> QED
  BY <1>3, <1>4, <1>5 DEF TextInv

LEMMA ConvertedStep == ASSUME Body!BodyAssumption, TextInv, Body!Converted PROVE TextInv'
<1>1. /\ convert.at = "sent" /\ text' \in Body!Shown(convert.text, wrote, convert.to) /\ wrote' = convert.to
      /\ sigMode' = mode /\ convert' = (IF another THEN Body!Ask(text', mode) ELSE Body!NoConversion) /\ another' = FALSE
      /\ UNCHANGED <<mode, from, skipped, sigText, written, choices, swallowed, brought, overlaps>>
  BY Zenon DEF Body!Converted, Body!Rewired
<1>2. convert.text \in Body!TextType /\ convert.to \in Body!Formats
  <2>1. PICK T : T = Body!TextType
    OBVIOUS
  <2>2. convert \in [at : {"none", "sent"}, to : Body!Formats, text : T]
    BY <2>1 DEF TextInv, TextsTyped, ConvertType
  <2> QED
    BY <2>1, <2>2
<1>3. PICK t : t = convert.text
  OBVIOUS
<1>4. PICK u : u = text'
  OBVIOUS
<1>5. PICK new \in Body!Formats : new = convert.to
  BY <1>2
<1>6. OfKind(t.sigs, wrote) /\ t \in Body!TextType
  BY <1>1, <1>2, <1>3 DEF TextInv, SigsAreOfFrom
<1>7. u \in Body!Shown(t, wrote, new)
  BY <1>1, <1>3, <1>4, <1>5
<1>8. ShownWell(u, t, wrote, new)
  BY <1>6, <1>7, ShownFacts
<1>9. /\ u \in Body!TextType /\ OfKind(u.sigs, new) /\ \A i \in DOMAIN u.sigs : u.sigs[i].as # "block"
      /\ \A n \in Nat, known \in KnownType : Few(t.sigs, wrote, known, n) => Few(u.sigs, new, known, n)
  BY <1>8 DEF ShownWell
<1>10. PICK c : c = convert'
  OBVIOUS
<1>11. c \in ConvertType /\ (c.at = "sent" => c.text = u)
  <2>1. mode \in Body!Formats
    BY DEF TextInv, BoxesTyped
  <2>2. c = IF another THEN Body!Ask(u, mode) ELSE Body!NoConversion
    BY <1>1, <1>4, <1>10
  <2> QED
    BY <1>9, <2>1, <2>2, NextAsked
<1>12. BoxesTyped'
  BY <1>1, <1>2 DEF TextInv, BoxesTyped
<1>13. TextsTyped'
  BY <1>4, <1>9, <1>10, <1>11 DEF TextsTyped
<1>14. SigsAreOfFrom'
  <2>1. OfKind(text'.sigs, wrote') /\ Mine(text'.sigs, from', skipped')
    BY <1>1, <1>4, <1>5, <1>9 DEF Mine
  <2>2. sigText' # Body!NoSig => sigText'.of = from' /\ from' \in Linked /\ ~skipped'
    BY <1>1 DEF TextInv, SigsAreOfFrom
  <2>3. convert'.at = "sent" => OfKind(convert'.text.sigs, wrote')
    BY <1>4, <1>10, <1>11, <2>1
  <2> QED
    BY <2>1, <2>2, <2>3 DEF SigsAreOfFrom, OfKind, Mine
<1>15. FewStand'
  <2> SUFFICES ASSUME "sign" \notin overlaps
               PROVE  /\ Few(text'.sigs, wrote', sigText', brought')
                      /\ convert'.at = "sent" => Few(convert'.text.sigs, wrote', sigText', brought')
    BY <1>1 DEF FewStand
  <2>1. Few(t.sigs, wrote, sigText, brought) /\ brought \in Nat /\ sigText \in KnownType
    BY <1>1, <1>3 DEF TextInv, FewStand, BoxesTyped
  <2>2. Few(u.sigs, new, sigText, brought)
    BY <1>9, <2>1
  <2> QED
    BY <1>1, <1>4, <1>5, <1>10, <1>11, <2>2
<1> QED
  BY <1>12, <1>13, <1>14, <1>15 DEF TextInv

LEMMA ConvertFailsStep == ASSUME Body!BodyAssumption, TextInv, Body!ConvertFails PROVE TextInv'
<1>1. /\ convert.at = "sent" /\ text' = text /\ choices' \in 0..MaxChoices
      /\ convert' = (IF another THEN Body!Ask(text, mode) ELSE Body!NoConversion) /\ another' = FALSE
      /\ overlaps' = overlaps \cup {"format"}
      /\ UNCHANGED <<mode, wrote, sigMode, from, skipped, sigText, written, swallowed, brought>>
  BY ChoiceSpent DEF Body!ConvertFails, Body!Unswapped
<1>2. text \in Body!TextType /\ mode \in Body!Formats
  BY DEF TextInv, TextsTyped, BoxesTyped
<1>3. PICK c : c = convert'
  OBVIOUS
<1>4. c \in ConvertType /\ (c.at = "sent" => c.text = text)
  <2>1. c = IF another THEN Body!Ask(text, mode) ELSE Body!NoConversion
    BY <1>1, <1>3
  <2> QED
    BY <1>2, <2>1, NextAsked
<1>5. BoxesTyped'
  BY <1>1 DEF TextInv, BoxesTyped
<1>6. TextsTyped'
  BY <1>1, <1>2, <1>3, <1>4 DEF TextsTyped
<1>7. SigsAreOfFrom'
  BY <1>1, <1>3, <1>4 DEF TextInv, SigsAreOfFrom, OfKind, Mine
<1>8. FewStand'
  BY <1>1, <1>3, <1>4 DEF TextInv, FewStand
<1> QED
  BY <1>5, <1>6, <1>7, <1>8 DEF TextInv

LEMMA SendFailsStep == ASSUME Body!BodyAssumption, TextInv, Body!SendFails PROVE TextInv'
<1>1. /\ choices' \in 0..MaxChoices
      /\ text' \in Body!Shown(text, wrote, mode) /\ brought' = Body!Cardinality(Body!Marked(text'))
      /\ wrote' = mode /\ sigMode' = mode /\ skipped' = TRUE /\ sigText' = Body!NoSig
      /\ convert' = Body!NoConversion /\ another' = FALSE /\ overlaps' = {}
      /\ UNCHANGED <<mode, from, written, swallowed>>
  BY ChoiceSpent, Zenon DEF Body!SendFails
<1>2. text \in Body!TextType /\ OfKind(text.sigs, wrote) /\ mode \in Body!Formats
  BY DEF TextInv, TextsTyped, SigsAreOfFrom, BoxesTyped
<1>3. PICK u : u = text'
  OBVIOUS
<1>4. ShownWell(u, text, wrote, mode)
  BY <1>1, <1>2, <1>3, ShownFacts
<1>5. u \in Body!TextType /\ OfKind(u.sigs, mode) /\ \A i \in DOMAIN u.sigs : u.sigs[i].as # "block"
  BY <1>4 DEF ShownWell
<1>6. brought' = Cardinality(Stand(u.sigs)) /\ brought' \in Nat
  <2>1. Body!Marked(text') = Stand(u.sigs)
    BY <1>3, Zenon DEF Body!Marked, Stand
  <2>2. Cardinality(Stand(u.sigs)) \in Nat
    BY <1>5, TextParts, StandFinite
  <2> QED
    BY <1>1, <2>1, <2>2, BodyCount
<1>7. convert'.at = "none" /\ convert' \in ConvertType
  BY <1>1, NoneAsked
<1>8. BoxesTyped'
  <2>1. sigText' \in KnownType
    BY <1>1 DEF KnownType
  <2> QED
    BY <1>1, <1>6, <2>1 DEF TextInv, BoxesTyped
<1>9. TextsTyped'
  BY <1>3, <1>5, <1>7 DEF TextsTyped
<1>10. SigsAreOfFrom'
  <2>1. OfKind(text'.sigs, wrote') /\ Mine(text'.sigs, from', skipped')
    BY <1>1, <1>3, <1>5 DEF Mine
  <2>2. sigText' = Body!NoSig /\ convert'.at # "sent"
    BY <1>1, <1>7
  <2> QED
    BY <2>1, <2>2 DEF SigsAreOfFrom, OfKind, Mine
<1>11. FewStand'
  <2>1. Few(text'.sigs, wrote', sigText', brought')
    BY <1>3, <1>6 DEF Few
  <2> QED
    BY <1>7, <2>1 DEF FewStand
<1> QED
  BY <1>8, <1>9, <1>10, <1>11 DEF TextInv

LEMMA TextInit == ASSUME Body!BodyAssumption, Body!Init PROVE TextInv
<1>1. /\ mode \in Body!Formats /\ wrote = mode /\ sigMode = mode /\ from \in Addresses /\ written \in {0, 1}
      /\ convert = Body!NoConversion /\ another = FALSE /\ choices = MaxChoices /\ swallowed = {} /\ overlaps = {}
  BY DEF Body!Init
<1>2. PICK w \in SUBSET (1..MaxWords) : w = 1..written
  <2>1. 1..written \subseteq 1..MaxWords
    BY <1>1 DEF Body!BodyAssumption
  <2> QED
    BY <2>1
<1>3. PICK X : X = Body!SigType
  OBVIOUS
<1>4. PICK e \in Seq(X) : e = <<>>
  <2>1. <<>> \in Seq(X)
    OBVIOUS
  <2> QED
    BY <2>1
<1>5. DOMAIN e = {} /\ e \in Seq(Body!SigType)
  BY <1>3, <1>4
<1>6. PICK p : p = [words |-> w, sigs |-> e]
  OBVIOUS
<1>7. p \in Body!TextType /\ p.sigs = e
  <2>1. PICK S, W : S = Seq(Body!SigType) /\ W = SUBSET (1..MaxWords)
    OBVIOUS
  <2>2. e \in S /\ w \in W
    BY <1>5, <2>1
  <2>3. p \in [words : W, sigs : S] /\ p.sigs = e
    BY ONLY <1>6, <2>2
  <2> QED
    BY <2>1, <2>3, Zenon DEF Body!TextType
<1>8. PICK a \in {"block", "text", "loose"} : a = IF mode = "html" THEN "loose" ELSE "text"
  OBVIOUS
<1>9. PICK no \in BOOLEAN : no = FALSE
  OBVIOUS
<1>10. PICK r : r = Body!Signed(p, mode, Body!NoSig, mode, from, no)
  OBVIOUS
<1>11. PICK g : g = Body!Sig(from, mode, a)
  OBVIOUS
<1>12. \/ skipped = FALSE /\ text = r.text /\ sigText = r.known /\ brought = 0
       \/ skipped = TRUE /\ text = [p EXCEPT !.sigs = <<g>>] /\ sigText = Body!NoSig
          /\ brought = Body!Cardinality(Body!Marked(text))
  BY <1>2, <1>4, <1>6, <1>8, <1>9, <1>10, <1>11, Zenon DEF Body!Init
<1>13. convert.at = "none" /\ convert \in ConvertType
  BY <1>1, NoneAsked
<1>16. /\ mode \in Body!Formats /\ wrote \in Body!Formats /\ sigMode \in Body!Formats /\ from \in Addresses
       /\ another \in BOOLEAN /\ overlaps \subseteq {"format", "sign"}
       /\ written \in 0..MaxWords /\ choices \in 0..MaxChoices /\ swallowed \subseteq 1..written
  <2>1. written \in 0..MaxWords /\ choices \in 0..MaxChoices
    BY <1>1 DEF Body!BodyAssumption
  <2> QED
    BY <1>1, <2>1
<1>14. CASE skipped = FALSE /\ text = r.text /\ sigText = r.known /\ brought = 0
  <2>1. OfKind(p.sigs, mode)
    BY <1>5, <1>7 DEF OfKind
  <2>2. PICK k : k = Body!NoSig
    OBVIOUS
  <2>3. SignedWell(r, p, mode, k, from, no)
    BY <1>1, <1>7, <1>10, <2>1, <2>2, SignedFacts
  <2>4. Few(p.sigs, mode, k, 0)
    <3>1. Stand(p.sigs) = {}
      BY <1>5, <1>7 DEF Stand
    <3>2. Cardinality(Stand(p.sigs)) = 0
      BY <3>1, FS_EmptySet
    <3> QED
      BY <3>2 DEF Few
  <2>5. /\ text \in Body!TextType /\ sigText \in KnownType /\ OfKind(text.sigs, mode) /\ Mine(text.sigs, from, no)
        /\ sigText # Body!NoSig => sigText.of = from /\ from \in Linked /\ ~no
        /\ Few(text.sigs, mode, sigText, 0)
    BY <1>14, <2>3, <2>4 DEF SignedWell
  <2>6. BoxesTyped
    <3>1. skipped \in BOOLEAN /\ brought \in Nat /\ sigText \in KnownType
      BY <1>14, <2>5
    <3> QED
      BY <1>16, <3>1 DEF BoxesTyped
  <2>7. SigsAreOfFrom
    BY <1>1, <1>9, <1>13, <1>14, <2>5 DEF SigsAreOfFrom
  <2>8. FewStand
    BY <1>1, <1>13, <1>14, <2>5 DEF FewStand
  <2> QED
    BY <1>13, <2>5, <2>6, <2>7, <2>8 DEF TextInv, TextsTyped
<1>15. CASE skipped = TRUE /\ text = [p EXCEPT !.sigs = <<g>>] /\ sigText = Body!NoSig
            /\ brought = Body!Cardinality(Body!Marked(text))
  <2>1. MadeSig(g, from, mode, a)
    BY <1>1, <1>11, SigMade
  <2>2. g \in X /\ g.as = a
    BY <1>3, <2>1 DEF MadeSig
  <2>3. PICK q \in Seq(X) : q = <<g>>
    <3>1. <<g>> \in Seq(X)
      BY ONLY <2>2
    <3> QED
      BY <3>1
  <2>4. DOMAIN q = {1} /\ q[1] = g
    BY <2>3
  <2>5. text \in Body!TextType /\ text.sigs = q
    <3>1. text = [p EXCEPT !.sigs = q]
      BY <1>15, <2>3
    <3>2. q \in Seq(Body!SigType)
      BY <1>3
    <3> QED
      BY <1>7, <3>1, <3>2, WithSigs
  <2>6. brought = Cardinality(Stand(q)) /\ brought \in Nat
    <3>1. Body!Marked(text) = Stand(q)
      BY <2>5, Zenon DEF Body!Marked, Stand
    <3>2. Cardinality(Stand(q)) \in Nat
      BY <2>3, StandFinite
    <3> QED
      BY <1>15, <3>1, <3>2, BodyCount
  <2>7. OfKind(q, mode) /\ Mine(q, from, skipped)
    BY <1>8, <2>2, <2>4 DEF OfKind, Mine
  <2>8. Few(q, mode, sigText, brought)
    BY <2>6 DEF Few
  <2>9. BoxesTyped
    <3>1. skipped \in BOOLEAN /\ brought \in Nat /\ sigText \in KnownType
      BY <1>15, <2>6 DEF KnownType
    <3> QED
      BY <1>16, <3>1 DEF BoxesTyped
  <2>10. SigsAreOfFrom
    BY <1>1, <1>13, <1>15, <2>5, <2>7 DEF SigsAreOfFrom
  <2>11. FewStand
    BY <1>1, <1>13, <2>5, <2>8 DEF FewStand
  <2> QED
    BY <1>13, <2>5, <2>9, <2>10, <2>11 DEF TextInv, TextsTyped
<1> QED
  BY <1>12, <1>14, <1>15

LEMMA TextStep == ASSUME Body!BodyAssumption, TextInv, [Body!Next]_(Body!bodyVars) PROVE TextInv'
<1>1. ASSUME NEW f \in Addresses, Body!ChooseFrom(f) PROVE TextInv'
  <2>1. /\ from' = f /\ skipped' = skipped /\ choices' \in 0..MaxChoices /\ skipped \in BOOLEAN
        /\ UNCHANGED <<mode, wrote, sigMode, convert, another, written, swallowed, brought>>
    BY <1>1, ChoiceSpent DEF Body!ChooseFrom, TextInv, BoxesTyped
  <2>2. PICK skip \in BOOLEAN : skip = skipped
    BY <2>1
  <2>3. Body!Apply(f, skip)
    BY <1>1, <2>2 DEF Body!ChooseFrom
  <2> QED
    BY <2>1, <2>2, <2>3, TextSigns
<1>2. ASSUME Body!ToggleSignature PROVE TextInv'
  <2>1. /\ from' = from /\ skipped' = ~skipped /\ choices' \in 0..MaxChoices /\ from \in Addresses
        /\ UNCHANGED <<mode, wrote, sigMode, convert, another, written, swallowed, brought>>
    BY <1>2, ChoiceSpent DEF Body!ToggleSignature, TextInv, BoxesTyped
  <2>2. PICK skip \in BOOLEAN : skip = ~skipped
    OBVIOUS
  <2>3. PICK f \in Addresses : f = from
    BY <2>1
  <2>4. Body!Apply(f, skip)
    BY <1>2, <2>2, <2>3 DEF Body!ToggleSignature
  <2> QED
    BY <2>1, <2>2, <2>3, <2>4, TextSigns
<1>3. ASSUME NEW i \in DOMAIN text.sigs, Body!WriteInside(i) PROVE TextInv'
  BY <1>3, WriteInBlock, WriteInText
<1>4. CASE UNCHANGED Body!bodyVars
  <2>1. UNCHANGED <<mode, wrote, sigMode, from, skipped, sigText, text, convert, another, written,
                    choices, swallowed, brought, overlaps>>
    BY <1>4 DEF Body!bodyVars
  <2> QED
    BY <2>1 DEF TextInv, BoxesTyped, TextsTyped, SigsAreOfFrom, FewStand, OfKind, Mine, Few, Inserted, Stand, Body!Is
<1>5. CASE Body!Next
  BY <1>1, <1>2, <1>3, <1>5, WriteStep, ChooseFormatStep, KeepFormatStep, ConvertedStep, ConvertFailsStep, SendFailsStep,
     Zenon DEF Body!Next
<1> QED
  BY <1>4, <1>5

LEMMA TextHolds == Spec => []TextInv
<1>1. Body!BodyAssumption
  BY PartsAssumption
<1>2. Body!Init => TextInv
  BY <1>1, TextInit
<1>3. TextInv /\ [Body!Next]_(Body!bodyVars) => TextInv'
  BY <1>1, TextStep
<1>4. Body!Spec => []TextInv
  BY <1>2, <1>3, PTL DEF Body!Spec
<1> QED
  BY <1>4, BodyMoves, PTL

\* THEOREM: no choice of format, identity or signature loses a word that was written, at rest
\* the text goes out under the format it is in, and the signatures the script can take out
\* are of the identity the message is from, at most one of those that stand more than came
\* with the text: Signed leaves one behind only if it puts one in, and a conversion leaves
\* what the script remembers or makes every signature loose.
THEOREM TextStaysAsChosen == Spec => []TextIsAsChosen
<1>1. TextInv => Body!SignatureIsOfFrom
  <2> SUFFICES ASSUME TextInv, "sign" \notin overlaps
               PROVE  /\ \A i \in Body!Own : text.sigs[i].of = from /\ from \in Linked /\ ~skipped
                      /\ Body!Cardinality(Body!Marked(text)) <= 1 + brought
    BY DEF Body!SignatureIsOfFrom
  <2>1. ASSUME NEW i \in Body!Own PROVE text.sigs[i].of = from /\ from \in Linked /\ ~skipped
    <3>1. text \in Body!TextType /\ Mine(text.sigs, from, skipped)
          /\ (sigText # Body!NoSig => sigText.of = from /\ from \in Linked /\ ~skipped)
      BY DEF TextInv, TextsTyped, SigsAreOfFrom
    <3>2. i \in DOMAIN text.sigs /\ IF wrote = "html" THEN text.sigs[i].as = "block" ELSE Body!Is(text.sigs[i], sigText)
      BY <2>1 DEF Body!Own
    <3>3. CASE wrote = "html"
      BY <3>1, <3>2, <3>3 DEF Mine
    <3>4. CASE wrote # "html"
      <4>1. PICK s \in Body!SigType : s = text.sigs[i]
        BY <3>1, <3>2, TextParts
      <4>2. [of |-> s.of, var |-> s.var] = sigText
        BY <3>2, <3>4, <4>1 DEF Body!Is
      <4>3. sigText.of = s.of /\ sigText.var = s.var
        BY <4>2
      <4>4. sigText # Body!NoSig
        BY <4>1, <4>3 DEF Body!NoSig, Body!SigType, Body!Formats
      <4> QED
        BY <3>1, <4>1, <4>3, <4>4
    <3> QED
      BY <3>3, <3>4
  <2>2. Cardinality(Stand(text.sigs)) <= 1 + brought
    <3>1. Few(text.sigs, wrote, sigText, brought) /\ brought \in Nat /\ text \in Body!TextType
      BY DEF TextInv, FewStand, BoxesTyped, TextsTyped
    <3>2. Cardinality(Stand(text.sigs)) \in Nat
      BY <3>1, TextParts, StandFinite
    <3> QED
      BY <3>1, <3>2 DEF Few
  <2>3. Body!Cardinality(Body!Marked(text)) = Cardinality(Stand(text.sigs))
    <3>1. Body!Marked(text) = Stand(text.sigs)
      BY Zenon DEF Body!Marked, Stand
    <3> QED
      BY <3>1, BodyCount
  <2> QED
    BY <2>1, <2>2, <2>3
<1>2. TextIsAsChosen <=> Body!WordsAreKept /\ Body!FormatsAgree /\ Body!SignatureIsOfFrom
  BY Zenon DEF TextIsAsChosen
<1> QED
  BY <1>1, <1>2, TextHolds, WordsStay, PTL

-----------------------------------------------------------------------------
(* The types of the pane: ReadingPane *)

\* The bounds on its requests and turns.
PaneBounded == Len(opens) <= MaxOpens /\ turns \in 0..MaxTurns

LEMMA Turned == ASSUME Pane!PaneAssumption, PaneBounded, Pane!Turn PROVE turns' \in 0..MaxTurns
<1>1. MaxTurns \in Nat
  BY DEF Pane!PaneAssumption
<1> QED
  BY <1>1 DEF PaneBounded, Pane!Turn

LEMMA OpensAreFew ==
  ASSUME Pane!PaneAssumption, NEW m \in Messages, NEW past \in Seq(Request), NEW p \in BOOLEAN,
         Pane!Ask(m, past, p)
  PROVE  Len(opens') <= MaxOpens
<1>1. PICK r \in Request : opens' = Append(past, r)
  <2>1. PICK r : r = [msg |-> m, at |-> "sent", live |-> TRUE, push |-> p, timer |-> TRUE]
    OBVIOUS
  <2>2. r \in Request
    BY <2>1 DEF Request
  <2>3. opens' = Append(past, r)
    BY <2>1 DEF Pane!Ask
  <2> QED
    BY <2>2, <2>3
<1>2. Len(past) < MaxOpens /\ MaxOpens \in Nat /\ Len(past) \in Nat
  BY DEF Pane!Ask, Pane!PaneAssumption
<1> QED
  BY <1>1, <1>2

LEMMA PaneBoundedStep ==
  ASSUME Pane!PaneAssumption, PaneInv, PaneBounded, [Pane!Next]_Pane!paneVars
  PROVE  PaneBounded'
<1>0. /\ opens \in Seq(Request) /\ DOMAIN opens = 1..Len(opens) /\ Len(opens) \in Nat
      /\ entries \in Seq(Pane!Paths) /\ pos \in DOMAIN entries
  BY DEF PaneInv, PaneTyped
<1>1. CASE \E m \in Messages : Pane!Open(m)
  <2>1. PICK m \in Messages : Pane!Ask(m, opens, TRUE) /\ turns' = turns
    BY <1>1 DEF Pane!Open
  <2>2. Len(opens') <= MaxOpens
    BY <1>0, <2>1, OpensAreFew
  <2> QED
    BY <2>1, <2>2 DEF PaneBounded
<1>2. CASE \E n \in DOMAIN opens : Pane!WaitedLong(n)
  <2>1. PICK n \in DOMAIN opens : opens' = [opens EXCEPT ![n].timer = FALSE] /\ turns' = turns
    BY <1>2 DEF Pane!WaitedLong
  <2>2. Len(opens') = Len(opens)
    BY <1>0, <2>1
  <2> QED
    BY <2>1, <2>2 DEF PaneBounded
<1>3. CASE \E n \in DOMAIN opens : Pane!Answer(n) \/ Pane!ErrorStatus(n) \/ Pane!NoAnswer(n)
  <2>1. PICK n \in DOMAIN opens : (Pane!Over(n) \/ Pane!Unheard(n)) /\ turns' = turns
    BY <1>3, Zenon DEF Pane!Answer, Pane!ErrorStatus, Pane!NoAnswer
  <2>2. Len(opens') = Len(opens)
    BY <2>1, OverEnds DEF PaneInv, SameRequests
  <2> QED
    BY <2>1, <2>2 DEF PaneBounded
<1>4. CASE Pane!Close
  BY <1>4, Turned DEF PaneBounded, Pane!Close
<1>5. CASE \E k \in DOMAIN entries : Pane!Travel(k)
  <2>1. Pane!Turn /\ opens' = [n \in 1..Len(opens) |-> [opens[n] EXCEPT !.live = FALSE]]
    BY <1>0, <1>5 DEF Pane!Travel
  <2>2. Len(opens') = Len(opens)
    BY <1>0, <2>1
  <2> QED
    BY <2>1, <2>2, Turned DEF PaneBounded
<1>6. CASE Pane!Reload
  <2>1. PICK gone : gone = [n \in DOMAIN opens |-> Forgotten(opens[n])]
    OBVIOUS
  <2>2. gone \in Seq(Request) /\ Len(gone) = Len(opens)
    BY <1>0, <2>1, AllForgotten
  <2>3. Pane!Turn /\ (opens' = gone \/ (entries[pos] # Pane!List /\ Pane!Ask(entries[pos], gone, FALSE)))
    BY <1>6, <2>1, Zenon DEF Pane!Reload, Forgotten
  <2>4. CASE opens' = gone
    BY <2>2, <2>3, <2>4, Turned DEF PaneBounded
  <2>5. CASE entries[pos] # Pane!List /\ Pane!Ask(entries[pos], gone, FALSE)
    <3>1. PICK m \in Messages : m = entries[pos]
      BY <1>0, <2>5 DEF Pane!Paths
    <3>2. Len(opens') <= MaxOpens
      BY <2>2, <2>5, <3>1, OpensAreFew
    <3> QED
      BY <2>3, <3>2, Turned DEF PaneBounded
  <2> QED
    BY <2>3, <2>4, <2>5
<1>7. CASE UNCHANGED Pane!paneVars
  BY <1>7 DEF PaneBounded, Pane!paneVars
<1> QED
  BY <1>1, <1>2, <1>3, <1>4, <1>5, <1>6, <1>7, Zenon DEF Pane!Next

LEMMA PaneTypes == ASSUME Pane!PaneAssumption PROVE Pane!Spec => []Pane!TypeOK
<1>1. Pane!Init => PaneInv /\ PaneBounded
  <2> SUFFICES ASSUME Pane!Init PROVE PaneInv /\ PaneBounded
    OBVIOUS
  <2>1. Len(opens) = 0 /\ turns = MaxTurns /\ MaxOpens \in Nat /\ MaxTurns \in Nat
    BY DEF Pane!Init, Pane!PaneAssumption
  <2> QED
    BY <2>1, PaneInit DEF PaneBounded
<1>2. PaneInv /\ PaneBounded /\ [Pane!Next]_Pane!paneVars => PaneInv' /\ PaneBounded'
  BY PaneStep, PaneBoundedStep
<1>3. PaneInv /\ PaneBounded => Pane!TypeOK
  <2> SUFFICES ASSUME PaneInv, PaneBounded PROVE Pane!TypeOK
    OBVIOUS
  <2>1. ASSUME NEW c \in Content, c.of <= Len(opens) PROVE c \in Pane!PaneType
    <3>1. c.of \in 0..MaxOpens
      <4>1. Len(opens) \in Nat /\ Len(opens) <= MaxOpens /\ c.of \in Nat /\ MaxOpens \in Nat
        BY DEF PaneInv, PaneTyped, PaneBounded, Content, Pane!PaneAssumption
      <4> QED
        BY <2>1, <4>1
    <3> QED
      BY <3>1 DEF Content, Pane!PaneType
  <2>2. pane \in Pane!PaneType /\ cache \in [Pane!Paths -> Pane!PaneType]
    BY <2>1 DEF PaneInv, PaneTyped, CopiesAreOld
  <2>3. /\ opens \in Seq(Request) /\ entries \in Seq(Pane!Paths) /\ pos \in DOMAIN entries
        /\ hpath \in Pane!Paths
    BY DEF PaneInv, PaneTyped
  <2> QED
    BY <2>2, <2>3, Zenon DEF Pane!TypeOK, PaneBounded, Request
<1> QED
  BY <1>1, <1>2, <1>3, PTL DEF Pane!Spec

-----------------------------------------------------------------------------
(* The types of the list: MessageList *)

Told == {"sync-status", "new-mail"}

\* The stream and its events, beside what the list and its spinner are.
StreamTyped ==
  /\ syncing \in BOOLEAN /\ news \in BOOLEAN /\ again \in BOOLEAN /\ owed \in Nat
  /\ stream \in [up : BOOLEAN, closed : BOOLEAN, told : BOOLEAN]
  /\ events \in Seq(Told) /\ Len(events) <= Backlog

\* A backlog that is full loses its oldest event for the new one.
LEMMA Handed ==
  ASSUME List!ListAssumption, StreamTyped, NEW e \in Told, List!Broadcast(e)
  PROVE  events' \in Seq(Told) /\ Len(events') <= Backlog
<1>0. Backlog \in Nat /\ Backlog # 0 /\ events \in Seq(Told) /\ Len(events) \in Nat /\ Len(events) <= Backlog
  BY DEF List!ListAssumption, StreamTyped
<1>1. CASE ~stream.up
  BY <1>0, <1>1 DEF List!Broadcast
<1>2. CASE stream.up
  <2>1. PICK s : s = IF Len(events) < Backlog THEN events ELSE Tail(events)
    OBVIOUS
  <2>2. s \in Seq(Told) /\ Len(s) + 1 <= Backlog
    <3>1. CASE Len(events) < Backlog
      BY <1>0, <2>1, <3>1
    <3>2. CASE ~(Len(events) < Backlog)
      <4>1. Len(events) = Backlog /\ events # <<>>
        BY <1>0, <3>2
      <4>2. Tail(events) \in Seq(Told) /\ Len(Tail(events)) = Len(events) - 1
        BY <1>0, <4>1
      <4> QED
        BY <1>0, <2>1, <3>2, <4>1, <4>2
    <3> QED
      BY <3>1, <3>2
  <2>3. events' = Append(s, e)
    BY <1>2, <2>1 DEF List!Broadcast
  <2>4. Append(s, e) \in Seq(Told) /\ Len(Append(s, e)) = Len(s) + 1
    BY <2>2
  <2> QED
    BY <2>2, <2>3, <2>4
<1> QED
  BY <1>1, <1>2

\* What the status does to the requests that wait and to the debt.
LEMMA StatusTypes ==
  ASSUME ListInv, StreamTyped, NEW on \in BOOLEAN, List!SetSyncing(on)
  PROVE  again' \in BOOLEAN /\ owed' \in Nat
<1>1. again' \in {again, TRUE} /\ owed' \in {owed, mail}
  BY DEF List!SetSyncing, List!Refresh, List!spinnerVars
<1> QED
  BY <1>1 DEF StreamTyped, ListInv, ListTyped

LEMMA StreamInit == ASSUME List!ListAssumption, List!Init PROVE StreamTyped
<1>1. events = <<>> /\ events \in Seq(Told) /\ Len(events) = 0
  BY DEF List!Init
<1>2. Backlog \in Nat
  BY DEF List!ListAssumption
<1>3. Len(events) <= Backlog
  BY <1>1, <1>2
<1>4. syncing \in BOOLEAN /\ news \in BOOLEAN /\ again \in BOOLEAN /\ owed \in Nat
      /\ stream \in [up : BOOLEAN, closed : BOOLEAN, told : BOOLEAN]
  BY DEF List!Init
<1> QED
  BY <1>1, <1>3, <1>4 DEF StreamTyped

LEMMA StreamStep ==
  ASSUME List!ListAssumption, ListInv, StreamTyped, [List!Next]_List!listVars
  PROVE  StreamTyped'
<1> USE DEF List!serverVars, List!streamVars, List!spinnerVars
<1>0. "sync-status" \in Told /\ "new-mail" \in Told
  BY DEF Told
<1>1. CASE List!SyncStarts \/ List!SyncEnds
  <2>1. /\ List!Broadcast("sync-status") /\ syncing' \in BOOLEAN
        /\ UNCHANGED <<news, stream, again, owed>>
    BY <1>1 DEF List!SyncStarts, List!SyncEnds
  <2> QED
    BY <1>0, <2>1, Handed DEF StreamTyped
<1>2. CASE List!Announce \/ List!OtherEvent
  <2>1. /\ List!Broadcast("new-mail") /\ news' \in {FALSE, news}
        /\ UNCHANGED <<syncing, stream, again, owed>>
    BY <1>2 DEF List!Announce, List!OtherEvent
  <2> QED
    BY <1>0, <2>1, Handed DEF StreamTyped
<1>3. CASE List!Store
  BY <1>3 DEF List!Store, StreamTyped
<1>4. CASE List!Receive
  <2>1. /\ events # <<>> /\ events' = Tail(events) /\ UNCHANGED <<syncing, news>>
        /\ stream' \in {stream, [stream EXCEPT !.told = syncing]}
    BY <1>4 DEF List!Receive
  <2>2. events' \in Seq(Told) /\ Len(events') <= Backlog
    <3>1. Len(events) \in Nat /\ Tail(events) \in Seq(Told) /\ Len(Tail(events)) = Len(events) - 1
      BY <2>1 DEF StreamTyped
    <3>2. Backlog \in Nat
      BY DEF List!ListAssumption
    <3> QED
      BY <2>1, <3>1, <3>2 DEF StreamTyped
  <2>3. List!SetSyncing(syncing) \/ (List!Refresh /\ UNCHANGED <<told, await, spin, owed>>)
    BY <1>4 DEF List!Receive
  <2>4. again' \in BOOLEAN /\ owed' \in Nat
    <3>1. CASE List!SetSyncing(syncing)
      BY <3>1, StatusTypes DEF StreamTyped
    <3>2. CASE List!Refresh /\ UNCHANGED <<told, await, spin, owed>>
      BY <3>2 DEF List!Refresh, StreamTyped
    <3> QED
      BY <2>3, <3>1, <3>2
  <2>5. stream' \in [up : BOOLEAN, closed : BOOLEAN, told : BOOLEAN]
    BY <2>1 DEF StreamTyped
  <2> QED
    BY <2>1, <2>2, <2>4, <2>5 DEF StreamTyped
<1>5. CASE List!KeepAlive
  <2>1. /\ stream' = [stream EXCEPT !.told = syncing] /\ List!SetSyncing(syncing)
        /\ UNCHANGED <<syncing, news, events>>
    BY <1>5 DEF List!KeepAlive
  <2>2. again' \in BOOLEAN /\ owed' \in Nat
    BY <2>1, StatusTypes DEF StreamTyped
  <2>3. stream' \in [up : BOOLEAN, closed : BOOLEAN, told : BOOLEAN]
    BY <2>1 DEF StreamTyped
  <2> QED
    BY <2>1, <2>2, <2>3 DEF StreamTyped
<1>6. CASE List!StreamBreaks
  <2>1. /\ \E given \in BOOLEAN : stream' = [stream EXCEPT !.up = FALSE, !.closed = given]
        /\ events' = <<>> /\ UNCHANGED <<syncing, news, again, owed>>
    BY <1>6 DEF List!StreamBreaks
  <2>2. stream' \in [up : BOOLEAN, closed : BOOLEAN, told : BOOLEAN]
    BY <2>1 DEF StreamTyped
  <2>3. events' \in Seq(Told) /\ Len(events') = 0 /\ Backlog \in Nat
    BY <2>1 DEF List!ListAssumption
  <2> QED
    BY <2>1, <2>2, <2>3 DEF StreamTyped
<1>7. CASE List!Reconnect
  <2>1. /\ stream' = [up |-> TRUE, closed |-> FALSE, told |-> syncing] /\ owed' \in {mail, owed}
        /\ UNCHANGED <<syncing, news, events>>
        /\ again' = (again \/ fetch.at # "none" \/ (told /\ ~syncing))
    BY <1>7 DEF List!Reconnect
  <2>2. stream' \in [up : BOOLEAN, closed : BOOLEAN, told : BOOLEAN]
    BY <2>1 DEF StreamTyped
  <2>3. owed' \in Nat
    BY <2>1 DEF StreamTyped, ListInv, ListTyped
  <2>4. again' \in BOOLEAN
    BY <2>1
  <2> QED
    BY <2>1, <2>2, <2>3, <2>4 DEF StreamTyped
<1>8. CASE List!Shown
  <2>1. /\ stream' \in {stream, [stream EXCEPT !.closed = FALSE]}
        /\ again' \in {TRUE, again} /\ UNCHANGED <<syncing, news, events, owed>>
    BY <1>8 DEF List!Shown, List!Refresh
  <2>2. stream' \in [up : BOOLEAN, closed : BOOLEAN, told : BOOLEAN]
    BY <2>1 DEF StreamTyped
  <2> QED
    BY <2>1, <2>2 DEF StreamTyped
<1>9. CASE \/ List!FolderClick \/ List!Mark \/ List!RenderFetch \/ List!RenderClick \/ List!ClickFails
           \/ UNCHANGED List!listVars
  <2>1. UNCHANGED <<syncing, news, stream, events, again, owed>>
    BY <1>9 DEF List!FolderClick, List!Mark, List!RenderFetch, List!RenderClick, List!ClickFails, List!listVars
  <2> QED
    BY <2>1 DEF StreamTyped
<1>10. CASE List!FetchArrives \/ List!ClickArrives \/ List!FetchFails
  <2>1. UNCHANGED <<syncing, news, stream, events, owed>> /\ again' = FALSE
    BY <1>10, Zenon DEF List!FetchArrives, List!ClickArrives, List!FetchFails, List!Swap, List!SendWaiting
  <2> QED
    BY <2>1 DEF StreamTyped
<1> QED
  BY <1>1, <1>2, <1>3, <1>4, <1>5, <1>6, <1>7, <1>8, <1>9, <1>10, Zenon DEF List!Next

LEMMA ListTypes ==
  ASSUME List!ListAssumption
  PROVE  List!Init /\ [][List!Next]_List!listVars => []List!TypeOK
<1>1. List!Init => ListInv /\ StreamTyped
  <2> SUFFICES ASSUME List!Init PROVE ListInv /\ StreamTyped
    OBVIOUS
  <2>1. syncing \in BOOLEAN
    BY DEF List!Init
  <2> QED
    BY <2>1, ListInit, StreamInit
<1>2. ListInv /\ StreamTyped /\ [List!Next]_List!listVars => ListInv' /\ StreamTyped'
  <2> SUFFICES ASSUME ListInv, StreamTyped, [List!Next]_List!listVars PROVE ListInv' /\ StreamTyped'
    OBVIOUS
  <2>1. syncing \in BOOLEAN
    BY DEF StreamTyped
  <2> QED
    BY <2>1, ListStepInv, StreamStep
<1>3. ListInv /\ StreamTyped => List!TypeOK
  <2> SUFFICES ASSUME ListInv, StreamTyped PROVE List!TypeOK
    OBVIOUS
  <2>1. {spin, told, await, again, broken} \subseteq BOOLEAN
    BY DEF ListInv, Debts, StreamTyped
  <2> QED
    BY <2>1, Zenon DEF List!TypeOK, ListInv, ListTyped, StreamTyped, Told
<1> QED
  BY <1>1, <1>2, <1>3, PTL

-----------------------------------------------------------------------------
(* The types of the window: Compose *)

FileNos == 1..MaxFiles
Files   == Seq(FileNos)

\* A text is no longer than the edits that were made, a window has no more files
\* than were picked.
FormIn(w, l) ==
  /\ w.text + l.edits <= MaxEdits /\ w.base <= MaxEdits
  /\ w.items \in Files /\ Len(w.items) + l.files <= MaxFiles
SaveIn(s) == s.text <= MaxEdits /\ s.items \in Files
SendIn(s, l) == s.text + l.edits <= MaxEdits /\ s.items \in Files
LineIn(d) == d.text <= MaxEdits /\ d.files \in Files

SavesIn  == \A f \in Window!Forms : SaveIn(saves[f])
DraftsIn == \A d \in DOMAIN drafts : LineIn(drafts[d])
SentIn   == \A m \in DOMAIN sent : sent[m].files \in Files
FlagsIn  ==
  /\ opening \in BOOLEAN /\ closing \in BOOLEAN /\ sending \in BOOLEAN /\ waiting \in BOOLEAN
  /\ attach <= MaxFiles /\ lost \subseteq Window!Forms /\ crossed \subseteq Window!Forms

WindowBounds == FormIn(form, left) /\ SavesIn /\ SendIn(send, left) /\ DraftsIn /\ SentIn /\ FlagsIn

Kinds == {"forms", "edits", "files", "saves", "sends", "faults"}

\* What is left never grows.
Shrinks ==
  /\ left.edits \in Nat /\ left.files \in Nat /\ left'.edits \in Nat /\ left'.files \in Nat
  /\ left'.edits <= left.edits /\ left'.files <= left.files

LEMMA SpendShrinks == ASSUME left \in LeftType, NEW what \in Kinds, Window!Spend(what) PROVE Shrinks
BY DEF Window!Spend, LeftType, Kinds, Shrinks

LEMMA LeftShrinks ==
  ASSUME WindowTyped, [Window!Next]_Window!composeVars PROVE Shrinks
<1>1. left \in LeftType
  BY DEF WindowTyped
<1>2. CASE left' = left
  BY <1>1, <1>2 DEF Shrinks, LeftType
<1>3. CASE \E what \in Kinds : Window!Spend(what)
  BY <1>1, <1>3, SpendShrinks
<1>4. /\ "forms" \in Kinds /\ "edits" \in Kinds /\ "files" \in Kinds
      /\ "saves" \in Kinds /\ "sends" \in Kinds /\ "faults" \in Kinds
  BY DEF Kinds
<1>5. CASE \/ Window!AskWindow \/ Window!WindowArrives \/ Window!Type \/ Window!Pick
           \/ \E i \in DOMAIN form.items : Window!RemoveFile(i)
  BY <1>2, <1>3, <1>4, <1>5, Zenon DEF Window!AskWindow, Window!WindowArrives, Window!Type, Window!Pick,
     Window!RemoveFile
<1>6. CASE Window!Close \/ Window!GuardKeep \/ Window!GuardDiscard \/ Window!GuardSave \/ Window!Save
  BY <1>2, <1>3, <1>4, <1>6, Zenon DEF Window!Close, Window!GuardKeep, Window!GuardDiscard,
     Window!GuardSave, Window!Save
<1>7. CASE \E f \in Window!Forms : Window!StoreSave(f) \/ Window!SaveAnswered(f) \/ Window!SaveFails(f)
  BY <1>2, <1>3, <1>4, <1>7, Zenon DEF Window!StoreSave, Window!SaveAnswered, Window!SaveFails
<1>8. CASE \/ Window!Send \/ Window!StoreSend \/ Window!RefuseSend \/ Window!SendAnswered
           \/ Window!SendFails \/ UNCHANGED Window!composeVars
  BY <1>2, <1>3, <1>4, <1>8, Zenon DEF Window!Send, Window!StoreSend, Window!RefuseSend,
     Window!SendAnswered, Window!SendFails, Window!composeVars
<1> QED
  BY <1>5, <1>6, <1>7, <1>8, Zenon DEF Window!Next

-----------------------------------------------------------------------------
\* The window on screen

\* What stays within the bounds does so whatever else is used up.
LEMMA FormStaysIn ==
  ASSUME Window!ComposeAssumption, Shrinks, NEW w, w.text \in Nat, FormIn(w, left) PROVE FormIn(w, left')
<1>1. MaxEdits \in Nat /\ MaxFiles \in Nat /\ Len(w.items) \in Nat
  BY DEF Window!ComposeAssumption, FormIn, Files
<1> QED
  BY <1>1 DEF FormIn, Shrinks

\* A window that is blank but for the text it starts from.
LEMMA BlankIn ==
  ASSUME Window!ComposeAssumption, Shrinks, FormIn(form, left), NEW w, w.text \in Nat, w.base = w.text,
         w.text + left.edits <= MaxEdits, w.items = <<>>
  PROVE  FormIn(w, left')
<1>1. w.items \in Files /\ Len(w.items) = 0
  BY DEF Files
<1>2. MaxEdits \in Nat /\ MaxFiles \in Nat /\ Len(form.items) \in Nat
  BY DEF Window!ComposeAssumption, FormIn, Files
<1>3. left.files <= MaxFiles /\ left.files \in Nat /\ left.edits \in Nat /\ left'.files \in Nat
      /\ left'.edits \in Nat /\ left'.files <= left.files /\ left'.edits <= left.edits
  BY <1>2 DEF FormIn, Shrinks
<1>4. w.base <= MaxEdits /\ w.text + left'.edits <= MaxEdits
  BY <1>2, <1>3
<1>5. Len(w.items) + left'.files <= MaxFiles
  BY <1>1, <1>2, <1>3
<1> QED
  BY <1>1, <1>4, <1>5 DEF FormIn

\* A window whose text stays what it is, and whose files are some of those it has.
LEMMA SameTextIn ==
  ASSUME Window!ComposeAssumption, Shrinks, form.text \in Nat, FormIn(form, left), NEW w,
         w.text = form.text, w.base \in {form.base, form.text},
         w.items \in Files, Len(w.items) <= Len(form.items)
  PROVE  FormIn(w, left')
<1>1. MaxEdits \in Nat /\ MaxFiles \in Nat /\ Len(form.items) \in Nat /\ Len(w.items) \in Nat
  BY DEF Window!ComposeAssumption, FormIn, Files
<1>2. w.base <= MaxEdits
  <2>1. form.base <= MaxEdits /\ form.text + left.edits <= MaxEdits /\ left.edits \in Nat
    BY DEF FormIn, Shrinks
  <2>2. form.text <= MaxEdits
    BY <1>1, <2>1
  <2> QED
    BY <2>1, <2>2
<1>3. w.text + left'.edits <= MaxEdits
  BY <1>1 DEF FormIn, Shrinks
<1>4. Len(w.items) + left'.files <= MaxFiles
  BY <1>1 DEF FormIn, Shrinks
<1> QED
  BY <1>2, <1>3, <1>4 DEF FormIn

LEMMA NoFormIn ==
  ASSUME Window!ComposeAssumption, Shrinks, form.text \in Nat, FormIn(form, left), NEW w,
         w.text = 0, w.base = 0, w.items = <<>>
  PROVE  FormIn(w, left')
<1>1. w.text + left.edits <= MaxEdits
  BY DEF FormIn, Shrinks, Window!ComposeAssumption
<1> QED
  BY <1>1, BlankIn

LEMMA FormInStep ==
  ASSUME Window!ComposeAssumption, WindowInv, WindowBounds, [Window!Next]_Window!composeVars
  PROVE  FormIn(form', left')
<1>0. /\ Shrinks /\ FormIn(form, left) /\ form \in FormType /\ form.text \in Nat /\ form.items \in Files
      /\ Len(form.items) \in Nat /\ send.text \in Nat /\ SendIn(send, left) /\ attach \in Nat
      /\ left \in LeftType /\ MaxEdits \in Nat /\ MaxFiles \in Nat
  <2>1. Shrinks
    BY LeftShrinks DEF WindowInv
  <2>2. form \in FormType /\ send \in SendType /\ attach \in Nat /\ left \in LeftType
    BY DEF WindowInv, WindowTyped
  <2>3. form.text \in Nat /\ send.text \in Nat /\ Len(form.items) \in Nat
    BY <2>2 DEF FormType, SendType
  <2> QED
    BY <2>1, <2>2, <2>3 DEF WindowBounds, FormIn, Window!ComposeAssumption
<1>1. CASE form' = form
  BY <1>0, <1>1, FormStaysIn
<1>2. CASE form' = Window!NoForm
  <2>1. form'.text = 0 /\ form'.base = 0 /\ form'.items = <<>>
    BY <1>2 DEF Window!NoForm
  <2> QED
    BY <1>0, <2>1, NoFormIn
<1>3. CASE \E b \in BOOLEAN : form' = [form EXCEPT !.guard = b]
  <2>1. form'.text = form.text /\ form'.base = form.base /\ form'.items = form.items
    BY <1>0, <1>3 DEF FormType
  <2> QED
    BY <1>0, <2>1, SameTextIn
<1>4. CASE Window!WindowArrives
  <2>1. PICK n : n = MaxForms - left.forms + 1
    OBVIOUS
  <2>2. form' = [Window!NoForm EXCEPT !.no = n]
    BY <1>4, <2>1 DEF Window!WindowArrives
  <2>3. form'.text = 0 /\ form'.base = 0 /\ form'.items = <<>>
    BY <2>2 DEF Window!NoForm
  <2> QED
    BY <1>0, <2>3, NoFormIn
<1>5. CASE Window!Type
  <2>1. PICK n \in Nat : n = form.text + 1
    BY <1>0
  <2>2. form' = [form EXCEPT !.text = n] /\ left' = [left EXCEPT !.edits = @ - 1]
    BY <1>5, <2>1 DEF Window!Type, Window!Spend
  <2>3. form'.text = n /\ form'.base = form.base /\ form'.items = form.items
    BY <1>0, <2>2 DEF FormType
  <2>4. left'.edits = left.edits - 1 /\ left'.files = left.files /\ left.edits \in Nat
    BY <1>0, <2>2 DEF LeftType
  <2>5. form'.text + left'.edits = form.text + left.edits
    BY <1>0, <2>1, <2>3, <2>4
  <2> QED
    BY <1>0, <2>3, <2>4, <2>5 DEF FormIn
<1>6. CASE Window!Pick
  <2>1. left' = [left EXCEPT !.files = @ - 1] /\ left.files > 0
    BY <1>6 DEF Window!Pick, Window!Spend
  <2>2. left'.files = left.files - 1 /\ left'.edits = left.edits /\ left.files \in Nat
    BY <1>0, <2>1 DEF LeftType
  <2>3. PICK n : n = MaxFiles - left.files + 1
    OBVIOUS
  <2>4. n \in FileNos
    <3>1. Len(form.items) + left.files <= MaxFiles
      BY <1>0 DEF FormIn
    <3> QED
      BY <1>0, <2>1, <2>2, <2>3, <3>1 DEF FileNos
  <2>5. PICK its \in Files : its = Append(form.items, n) /\ Len(its) = Len(form.items) + 1
    <3>1. Append(form.items, n) \in Files /\ Len(Append(form.items, n)) = Len(form.items) + 1
      BY <1>0, <2>4, AppendProperties DEF Files
    <3> QED
      BY <3>1
  <2>6. form' = [form EXCEPT !.items = its]
    BY <1>6, <2>3, <2>5 DEF Window!Pick
  <2>7. form'.text = form.text /\ form'.base = form.base /\ form'.items = its
    BY <1>0, <2>6 DEF FormType
  <2>8. Len(its) + left'.files <= MaxFiles
    <3>1. Len(form.items) + left.files <= MaxFiles
      BY <1>0 DEF FormIn
    <3> QED
      BY <1>0, <2>2, <2>5, <3>1
  <2> QED
    BY <1>0, <2>2, <2>5, <2>7, <2>8 DEF FormIn
<1>7. CASE \E i \in DOMAIN form.items : Window!RemoveFile(i)
  <2>1. PICK i \in DOMAIN form.items : Window!RemoveFile(i)
    BY <1>7
  <2>2. PICK its : its = Dropped(form.items, i)
    OBVIOUS
  <2>3. its \in Files /\ Len(its) <= Len(form.items)
    <3>1. its = Dropped(form.items, i)
      BY <2>2
    <3>2. Len(its) = Len(form.items) - 1
      BY <1>0, <3>1, DroppedLength DEF Files
    <3>3. its \in Files
      <4>1. PICK s \in Files : s = form.items
        BY <1>0
      <4>2. SubSeq(s, 1, i - 1) \in Files /\ SubSeq(s, i + 1, Len(s)) \in Files
        BY <4>1, SubSeqProperties DEF Files
      <4>3. PICK a \in Files, b \in Files : a = SubSeq(s, 1, i - 1) /\ b = SubSeq(s, i + 1, Len(s))
        BY <4>2
      <4>4. a \o b \in Files
        BY ConcatProperties DEF Files
      <4> QED
        BY <3>1, <4>1, <4>3, <4>4 DEF Dropped
    <3> QED
      BY <1>0, <3>2, <3>3
  <2>4. form' = [form EXCEPT !.items = its]
    BY <2>1, <2>2 DEF Window!RemoveFile, Dropped
  <2>5. form'.text = form.text /\ form'.base = form.base /\ form'.items = its
    BY <1>0, <2>4 DEF FormType
  <2> QED
    BY <1>0, <2>3, <2>5, SameTextIn
<1>8. CASE \E f \in Window!Forms : Window!SaveAnswered(f)
  <2>1. PICK f \in Window!Forms : Window!SaveAnswered(f)
    BY <1>8
  <2>2. \/ form' = form \/ form' = Window!NoForm
        \/ form' = [form EXCEPT !.base = form.text, !.draft = Window!NewDraft(f),
                                !.items = SubSeq(@, attach + 1, Len(@))]
    BY <2>1, Zenon DEF Window!SaveAnswered, Window!ForceClose
  <2>3. CASE form' = [form EXCEPT !.base = form.text, !.draft = Window!NewDraft(f),
                                  !.items = SubSeq(@, attach + 1, Len(@))]
    <3>1. PICK its : its = SubSeq(form.items, attach + 1, Len(form.items))
      OBVIOUS
    <3>2. its \in Files /\ Len(its) <= Len(form.items)
      BY <1>0, <3>1, SubSeqProperties DEF Files
    <3>3. form' = [form EXCEPT !.base = form.text, !.draft = Window!NewDraft(f), !.items = its]
      BY <2>3, <3>1
    <3>4. form'.text = form.text /\ form'.base = form.text /\ form'.items = its
      BY <1>0, <3>3 DEF FormType
    <3> QED
      BY <1>0, <3>2, <3>4, SameTextIn
  <2> QED
    BY <1>1, <1>2, <2>2, <2>3
<1>9. CASE Window!SendAnswered
  <2>1. \/ form' = Window!NoForm
        \/ form' = [Window!NoForm EXCEPT !.no = send.no, !.text = send.text, !.base = send.text,
                                         !.draft = send.draft]
    BY <1>9, Zenon DEF Window!SendAnswered, Window!ForceClose
  <2>2. CASE form' = [Window!NoForm EXCEPT !.no = send.no, !.text = send.text, !.base = send.text,
                                           !.draft = send.draft]
    <3>1. form'.text = send.text /\ form'.base = send.text /\ form'.items = <<>>
      BY <2>2 DEF Window!NoForm
    <3> QED
      BY <1>0, <3>1, BlankIn DEF SendIn
  <2> QED
    BY <1>2, <2>1, <2>2
<1>10. CASE Window!Close \/ Window!GuardKeep \/ Window!GuardDiscard \/ Window!GuardSave
  <2>1. form' = Window!NoForm \/ \E b \in BOOLEAN : form' = [form EXCEPT !.guard = b]
    BY <1>10 DEF Window!Close, Window!GuardKeep, Window!GuardDiscard, Window!GuardSave, Window!ForceClose
  <2> QED
    BY <1>2, <1>3, <2>1
<1>11. CASE Window!AskWindow \/ Window!Save
            \/ \E f \in Window!Forms : Window!StoreSave(f) \/ Window!SaveFails(f)
  <2>1. form' = form
    BY <1>11, Zenon DEF Window!AskWindow, Window!Save, Window!StoreSave, Window!SaveFails
  <2> QED
    BY <1>1, <2>1
<1>12. CASE \/ Window!Send \/ Window!StoreSend \/ Window!RefuseSend \/ Window!SendFails
            \/ UNCHANGED Window!composeVars
  <2>1. form' = form
    BY <1>12, Zenon DEF Window!Send, Window!StoreSend, Window!RefuseSend, Window!SendFails, Window!composeVars
  <2> QED
    BY <1>1, <2>1
<1> QED
  BY <1>4, <1>5, <1>6, <1>7, <1>8, <1>9, <1>10, <1>11, <1>12, Zenon DEF Window!Next

-----------------------------------------------------------------------------
\* Its saves

LEMMA NoSaveIn == ASSUME Window!ComposeAssumption PROVE SaveIn(Window!NoSave)
<1>1. Window!NoSave.text = 0 /\ Window!NoSave.items = <<>>
  BY DEF Window!NoSave
<1>2. <<>> \in Files
  BY DEF Files
<1>3. 0 <= MaxEdits
  BY DEF Window!ComposeAssumption
<1> QED
  BY <1>1, <1>2, <1>3 DEF SaveIn

\* A save leaves with the window as it is.
LEMMA IssuedIn ==
  ASSUME Window!ComposeAssumption, saves \in [Window!Forms -> SaveType], SavesIn, NEW w \in FormType,
         NEW l, l.edits \in Nat, FormIn(w, l), Window!IssueSave(w)
  PROVE  SavesIn'
<1>1. PICK s : s = [at |-> "sent", text |-> w.text, items |-> w.items, draft |-> w.draft]
  OBVIOUS
<1>2. saves' = [saves EXCEPT ![w.no] = s]
  BY <1>1 DEF Window!IssueSave
<1>3. SaveIn(s)
  <2>1. w.text \in Nat /\ MaxEdits \in Nat /\ w.text + l.edits <= MaxEdits /\ w.items \in Files
    BY DEF FormType, Window!ComposeAssumption, FormIn
  <2>2. w.text <= MaxEdits
    BY <2>1
  <2> QED
    BY <1>1, <2>1, <2>2 DEF SaveIn
<1>4. \A f \in Window!Forms : saves'[f] \in {saves[f], s}
  BY <1>2
<1> QED
  BY <1>3, <1>4 DEF SavesIn

LEMMA SavesInStep ==
  ASSUME Window!ComposeAssumption, WindowInv, WindowInv', WindowBounds, FormIn(form', left'),
         [Window!Next]_Window!composeVars
  PROVE  SavesIn'
<1>0. /\ saves \in [Window!Forms -> SaveType] /\ SavesIn /\ form' \in FormType /\ left'.edits \in Nat
  BY LeftShrinks DEF WindowInv, WindowTyped, WindowBounds, Shrinks
<1>1. CASE saves' = saves
  BY <1>0, <1>1 DEF SavesIn
<1>2. CASE \E f \in Window!Forms : saves' = [saves EXCEPT ![f] = Window!NoSave]
  <2>1. PICK s : s = Window!NoSave
    OBVIOUS
  <2>2. \A f \in Window!Forms : saves'[f] \in {saves[f], s}
    BY <1>0, <1>2, <2>1
  <2> QED
    BY <1>0, <2>1, <2>2, NoSaveIn DEF SavesIn
<1>3. CASE Window!IssueSave(form')
  BY <1>0, <1>3, IssuedIn
<1>4. CASE Window!Save \/ Window!GuardSave
  <2>1. saves' = saves \/ Window!IssueSave(form')
    BY <1>4, Zenon DEF Window!Save, Window!GuardSave, Window!PressSave
  <2> QED
    BY <1>1, <1>3, <2>1
<1>5. ASSUME NEW f \in Window!Forms, Window!StoreSave(f) PROVE SavesIn'
  <2>1. PICK at, d : /\ at = IF saves[f].draft = 0 THEN "made" ELSE "stored"
                     /\ d = IF saves[f].draft = 0 THEN Len(drafts) + 1 ELSE saves[f].draft
    OBVIOUS
  <2>2. PICK s : s = [saves[f] EXCEPT !.at = at, !.draft = d]
    OBVIOUS
  <2>3. saves' = [saves EXCEPT ![f] = s]
    BY <1>0, <1>5, <2>1, <2>2 DEF Window!StoreSave
  <2>4. saves[f] \in SaveType /\ SaveIn(saves[f])
    BY <1>0 DEF SavesIn
  <2>5. s.text = saves[f].text /\ s.items = saves[f].items
    BY <2>2, <2>4 DEF SaveType
  <2>6. SaveIn(s)
    BY <2>4, <2>5 DEF SaveIn
  <2>7. \A g \in Window!Forms : saves'[g] \in {saves[g], s}
    BY <1>0, <2>3
  <2> QED
    BY <1>0, <2>6, <2>7 DEF SavesIn
<1>6. ASSUME NEW f \in Window!Forms, Window!SaveAnswered(f) PROVE SavesIn'
  <2>1. saves' = [saves EXCEPT ![f] = Window!NoSave] \/ Window!IssueSave(form')
    BY <1>6, Zenon DEF Window!SaveAnswered, Window!AfterSave
  <2> QED
    BY <1>2, <1>3, <2>1
<1>7. ASSUME NEW f \in Window!Forms, Window!SaveFails(f) PROVE SavesIn'
  <2>1. form' = form /\ (saves' = [saves EXCEPT ![f] = Window!NoSave] \/ Window!IssueSave(form))
    BY <1>7, Zenon DEF Window!SaveFails, Window!AfterSave
  <2>2. CASE Window!IssueSave(form)
    BY <1>0, <2>1, <2>2, IssuedIn
  <2> QED
    BY <1>2, <2>1, <2>2
<1>8. CASE \/ Window!AskWindow \/ Window!WindowArrives \/ Window!Type \/ Window!Pick
           \/ \E i \in DOMAIN form.items : Window!RemoveFile(i)
  <2>1. saves' = saves
    BY <1>8, Zenon DEF Window!AskWindow, Window!WindowArrives, Window!Type, Window!Pick, Window!RemoveFile
  <2> QED
    BY <1>1, <2>1
<1>9. CASE \/ Window!Close \/ Window!GuardKeep \/ Window!GuardDiscard \/ Window!Send \/ Window!StoreSend
           \/ Window!RefuseSend \/ Window!SendAnswered \/ Window!SendFails \/ UNCHANGED Window!composeVars
  <2>1. saves' = saves
    BY <1>9, Zenon DEF Window!Close, Window!GuardKeep, Window!GuardDiscard, Window!Send, Window!StoreSend,
       Window!RefuseSend, Window!SendAnswered, Window!SendFails, Window!composeVars
  <2> QED
    BY <1>1, <2>1
<1> QED
  BY <1>4, <1>5, <1>6, <1>7, <1>8, <1>9, Zenon DEF Window!Next

\* Its send

LEMMA SendInStep ==
  ASSUME Window!ComposeAssumption, WindowInv, WindowBounds, [Window!Next]_Window!composeVars
  PROVE  SendIn(send', left')
<1>0. /\ Shrinks /\ FormIn(form, left) /\ SendIn(send, left) /\ send \in SendType /\ form \in FormType
      /\ MaxEdits \in Nat
  BY LeftShrinks DEF WindowInv, WindowTyped, WindowBounds, Window!ComposeAssumption
<1>1. ASSUME NEW s, s.text \in Nat, s.text + left.edits <= MaxEdits, s.items \in Files, send' = s
      PROVE  SendIn(send', left')
  BY <1>0, <1>1 DEF SendIn, Shrinks
<1>2. send.text \in Nat /\ send.text + left.edits <= MaxEdits /\ send.items \in Files
  BY <1>0 DEF SendType, SendIn
<1>3. CASE send' = Window!NoSend
  <2>1. send'.text = 0 /\ send'.items = <<>>
    BY <1>3 DEF Window!NoSend
  <2>2. <<>> \in Files
    BY DEF Files
  <2>3. 0 + left.edits <= MaxEdits
    BY <1>0, <1>2 DEF Shrinks
  <2> QED
    BY <1>1, <2>1, <2>2, <2>3
<1>4. CASE Window!Send
  <2>1. PICK s : s = [at |-> "sent", no |-> form.no, text |-> form.text, items |-> form.items, draft |-> form.draft]
    OBVIOUS
  <2>2. send' = s
    BY <1>4, <2>1 DEF Window!Send
  <2>3. s.text = form.text /\ s.items = form.items /\ form.text \in Nat
    BY <1>0, <2>1 DEF FormType
  <2> QED
    BY <1>0, <1>1, <2>2, <2>3 DEF FormIn
<1>5. CASE Window!StoreSend
  <2>1. send' = [send EXCEPT !.at = "ok"]
    BY <1>5 DEF Window!StoreSend
  <2>2. send'.text = send.text /\ send'.items = send.items
    BY <1>0, <2>1 DEF SendType
  <2> QED
    BY <1>1, <1>2, <2>2
<1>6. CASE Window!RefuseSend
  <2>1. PICK d : d = IF send.draft = 0 THEN Len(drafts) + 1 ELSE send.draft
    OBVIOUS
  <2>2. send' = [send EXCEPT !.at = "refused"] \/ send' = [send EXCEPT !.at = "refused", !.draft = d]
    BY <1>6, <2>1 DEF Window!RefuseSend
  <2>3. send'.text = send.text /\ send'.items = send.items
    BY <1>0, <2>2 DEF SendType
  <2> QED
    BY <1>1, <1>2, <2>3
<1>7. CASE Window!SendAnswered \/ Window!SendFails
  BY <1>3, <1>7 DEF Window!SendAnswered, Window!SendFails
<1>8. CASE send' = send
  BY <1>1, <1>2, <1>8
<1>9. CASE \/ Window!AskWindow \/ Window!WindowArrives \/ Window!Type \/ Window!Pick
           \/ \E i \in DOMAIN form.items : Window!RemoveFile(i)
  <2>1. send' = send
    BY <1>9, Zenon DEF Window!AskWindow, Window!WindowArrives, Window!Type, Window!Pick, Window!RemoveFile
  <2> QED
    BY <1>8, <2>1
<1>10. CASE \/ Window!Close \/ Window!GuardKeep \/ Window!GuardDiscard \/ Window!GuardSave \/ Window!Save
            \/ UNCHANGED Window!composeVars
  <2>1. send' = send
    BY <1>10, Zenon DEF Window!Close, Window!GuardKeep, Window!GuardDiscard, Window!GuardSave, Window!Save,
       Window!composeVars
  <2> QED
    BY <1>8, <2>1
<1>11. CASE \E f \in Window!Forms : Window!StoreSave(f) \/ Window!SaveAnswered(f) \/ Window!SaveFails(f)
  <2>1. send' = send
    BY <1>11, Zenon DEF Window!StoreSave, Window!SaveAnswered, Window!SaveFails
  <2> QED
    BY <1>8, <2>1
<1> QED
  BY <1>4, <1>5, <1>6, <1>7, <1>9, <1>10, <1>11, Zenon DEF Window!Next

\* The rows of the drafts, and the messages that went out

LEMMA WritesIn ==
  ASSUME Window!ComposeAssumption, drafts \in Seq(Line), DraftsIn, NEW r, r.text <= MaxEdits,
         r.items \in Files, r.draft \in 0..Len(drafts), NEW no, Window!Upsert(r, no)
  PROVE  DraftsIn'
<1>0. Len(drafts) \in Nat /\ DOMAIN drafts = 1..Len(drafts)
  OBVIOUS
<1>1. CASE r.draft = 0
  <2>1. PICK l : l = [no |-> no, text |-> r.text, files |-> r.items, gone |-> FALSE]
    OBVIOUS
  <2>2. LineIn(l)
    BY <2>1 DEF LineIn
  <2>3. drafts' = Append(drafts, l)
    BY <1>1, <2>1 DEF Window!Upsert
  <2>4. \A d \in DOMAIN drafts' : drafts'[d] = l \/ (d \in DOMAIN drafts /\ drafts'[d] = drafts[d])
    BY <1>0, <2>3
  <2> QED
    BY <2>2, <2>4 DEF DraftsIn
<1>2. CASE r.draft # 0 /\ drafts[r.draft].gone
  BY <1>2 DEF Window!Upsert, DraftsIn
<1>3. CASE r.draft # 0 /\ ~drafts[r.draft].gone
  <2>1. PICK d \in DOMAIN drafts : d = r.draft
    BY <1>0, <1>3
  <2>2. drafts[d] \in Line /\ LineIn(drafts[d])
    BY DEF DraftsIn
  <2>3. PICK fs \in Files : fs = drafts[d].files \o r.items
    <3>1. PICK a \in Files, b \in Files : a = drafts[d].files /\ b = r.items
      BY <2>2 DEF LineIn
    <3>2. a \o b \in Files
      BY ConcatProperties DEF Files
    <3> QED
      BY <3>1, <3>2
  <2>4. PICK t : t = r.text
    OBVIOUS
  <2>5. PICK l : l = [drafts[d] EXCEPT !.text = t, !.files = fs]
    OBVIOUS
  <2>6. LineIn(l)
    <3>1. l.text = t /\ l.files = fs
      BY <2>2, <2>5 DEF Line
    <3> QED
      BY <2>4, <3>1 DEF LineIn
  <2>7. drafts' = [drafts EXCEPT ![d] = l]
    <3>1. drafts' = [drafts EXCEPT ![d].text = t, ![d].files = @ \o r.items]
      BY <1>3, <2>1, <2>4, Zenon DEF Window!Upsert
    <3>2. PICK b : b = r.items
      OBVIOUS
    <3>3. drafts' = [drafts EXCEPT ![d].text = t, ![d].files = @ \o b]
      BY <3>1, <3>2
    <3>4. fs = drafts[d].files \o b
      BY <2>3, <3>2
    <3> QED
      BY <1>0, <2>2, <2>5, <3>3, <3>4
  <2>8. DOMAIN drafts' = DOMAIN drafts /\ \A e \in DOMAIN drafts : drafts'[e] \in {drafts[e], l}
    BY <1>0, <2>7
  <2> QED
    BY <2>6, <2>8 DEF DraftsIn
<1> QED
  BY <1>1, <1>2, <1>3

LEMMA DraftsInStep ==
  ASSUME Window!ComposeAssumption, WindowInv, WindowBounds, [Window!Next]_Window!composeVars
  PROVE  DraftsIn'
<1>0. /\ drafts \in Seq(Line) /\ DraftsIn /\ SavesIn /\ send \in SendType /\ SendIn(send, left)
      /\ left.edits \in Nat /\ send.draft <= Len(drafts) /\ Len(drafts) \in Nat /\ MaxEdits \in Nat
      /\ saves \in [Window!Forms -> SaveType] /\ \A f \in Window!Forms : saves[f].draft <= Len(drafts)
  BY LeftShrinks DEF WindowInv, WindowTyped, WindowBounds, Shrinks, Window!ComposeAssumption
<1>1. CASE drafts' = drafts
  BY <1>0, <1>1 DEF DraftsIn
<1>2. ASSUME NEW f \in Window!Forms, Window!StoreSave(f) PROVE DraftsIn'
  <2>1. PICK r : r = saves[f]
    OBVIOUS
  <2>2. r \in SaveType /\ SaveIn(r) /\ r.draft <= Len(drafts)
    BY <1>0, <2>1 DEF SavesIn
  <2>3. r.draft \in 0..Len(drafts)
    BY <1>0, <2>2 DEF SaveType
  <2>4. Window!Upsert(r, f)
    BY <1>2, <2>1 DEF Window!StoreSave
  <2> QED
    BY <1>0, <2>2, <2>3, <2>4, WritesIn DEF SaveIn
<1>3. CASE Window!RefuseSend
  <2>1. CASE Window!Upsert(send, send.no)
    <3>1. PICK r : r = send
      OBVIOUS
    <3>2. r.draft \in 0..Len(drafts) /\ r.items \in Files /\ r.text <= MaxEdits
      <4>1. r.draft \in Nat /\ r.draft <= Len(drafts) /\ r.text \in Nat /\ r.text + left.edits <= MaxEdits
        BY <1>0, <3>1 DEF SendType, SendIn
      <4> QED
        BY <1>0, <3>1, <4>1 DEF SendIn
    <3>3. Window!Upsert(r, send.no)
      BY <2>1, <3>1
    <3> QED
      BY <1>0, <3>2, <3>3, WritesIn
  <2> QED
    BY <1>1, <1>3, <2>1, Zenon DEF Window!RefuseSend
<1>4. CASE Window!StoreSend
  <2>1. drafts' = [d \in DOMAIN drafts |-> [drafts[d] EXCEPT !.gone = @ \/ d = send.draft]]
    BY <1>4 DEF Window!StoreSend
  <2>2. DOMAIN drafts' = DOMAIN drafts
    BY <2>1
  <2>3. ASSUME NEW d \in DOMAIN drafts PROVE LineIn(drafts'[d])
    <3>1. PICK c : c = (drafts[d].gone \/ d = send.draft)
      OBVIOUS
    <3>2. drafts'[d] = [drafts[d] EXCEPT !.gone = c]
      BY <2>1, <3>1
    <3>3. drafts[d] \in Line /\ LineIn(drafts[d])
      BY <1>0 DEF DraftsIn
    <3>4. drafts'[d].text = drafts[d].text /\ drafts'[d].files = drafts[d].files
      BY <3>2, <3>3 DEF Line
    <3> QED
      BY <3>3, <3>4 DEF LineIn
  <2> QED
    BY <2>2, <2>3 DEF DraftsIn
<1>5. CASE \/ Window!AskWindow \/ Window!WindowArrives \/ Window!Type \/ Window!Pick
           \/ \E i \in DOMAIN form.items : Window!RemoveFile(i)
  <2>1. drafts' = drafts
    BY <1>5, Zenon DEF Window!AskWindow, Window!WindowArrives, Window!Type, Window!Pick, Window!RemoveFile
  <2> QED
    BY <1>1, <2>1
<1>6. CASE \/ Window!Close \/ Window!GuardKeep \/ Window!GuardDiscard \/ Window!GuardSave \/ Window!Save
           \/ \E f \in Window!Forms : Window!SaveAnswered(f) \/ Window!SaveFails(f)
  <2>1. drafts' = drafts
    BY <1>6, Zenon DEF Window!Close, Window!GuardKeep, Window!GuardDiscard, Window!GuardSave, Window!Save,
       Window!SaveAnswered, Window!SaveFails
  <2> QED
    BY <1>1, <2>1
<1>7. CASE Window!Send \/ Window!SendAnswered \/ Window!SendFails \/ UNCHANGED Window!composeVars
  <2>1. drafts' = drafts
    BY <1>7, Zenon DEF Window!Send, Window!SendAnswered, Window!SendFails, Window!composeVars
  <2> QED
    BY <1>1, <2>1
<1> QED
  BY <1>2, <1>3, <1>4, <1>5, <1>6, <1>7, Zenon DEF Window!Next

LEMMA SentInStep ==
  ASSUME Window!ComposeAssumption, WindowInv, WindowBounds, [Window!Next]_Window!composeVars
  PROVE  SentIn'
<1>0. /\ drafts \in Seq(Line) /\ DraftsIn /\ send \in SendType /\ SendIn(send, left) /\ sent \in Seq(Mail)
      /\ SentIn /\ send.draft <= Len(drafts) /\ Len(drafts) \in Nat /\ DOMAIN drafts = 1..Len(drafts)
  BY DEF WindowInv, WindowTyped, WindowBounds
<1>1. CASE sent' = sent
  BY <1>0, <1>1 DEF SentIn
<1>2. CASE Window!StoreSend
  <2>1. Window!Kept(send.draft) \in Files
    <3>1. CASE send.draft = 0 \/ drafts[send.draft].gone
      <4>1. <<>> \in Files
        BY DEF Files
      <4> QED
        BY <3>1, <4>1 DEF Window!Kept
    <3>2. CASE ~(send.draft = 0 \/ drafts[send.draft].gone)
      <4>1. send.draft \in DOMAIN drafts
        BY <1>0, <3>2 DEF SendType
      <4> QED
        BY <1>0, <3>2, <4>1 DEF Window!Kept, DraftsIn, LineIn
    <3> QED
      BY <3>1, <3>2
  <2>2. PICK a \in Files, b \in Files : a = Window!Kept(send.draft) /\ b = send.items
    BY <1>0, <2>1 DEF SendIn
  <2>3. PICK c \in Files : c = a \o b
    BY ConcatProperties DEF Files
  <2>4. PICK m : m = [no |-> send.no, files |-> c]
    OBVIOUS
  <2>5. sent' = Append(sent, m)
    BY <1>2, <2>2, <2>3, <2>4 DEF Window!StoreSend
  <2>6. \A n \in DOMAIN sent' : sent'[n] = m \/ (n \in DOMAIN sent /\ sent'[n] = sent[n])
    BY <1>0, <2>5
  <2> QED
    BY <1>0, <2>4, <2>6 DEF SentIn
<1>3. CASE \/ Window!AskWindow \/ Window!WindowArrives \/ Window!Type \/ Window!Pick
           \/ \E i \in DOMAIN form.items : Window!RemoveFile(i)
  <2>1. sent' = sent
    BY <1>3, Zenon DEF Window!AskWindow, Window!WindowArrives, Window!Type, Window!Pick, Window!RemoveFile
  <2> QED
    BY <1>1, <2>1
<1>4. CASE \/ Window!Close \/ Window!GuardKeep \/ Window!GuardDiscard \/ Window!GuardSave \/ Window!Save
           \/ \E f \in Window!Forms : Window!StoreSave(f) \/ Window!SaveAnswered(f) \/ Window!SaveFails(f)
  <2>1. sent' = sent
    BY <1>4, Zenon DEF Window!Close, Window!GuardKeep, Window!GuardDiscard, Window!GuardSave, Window!Save,
       Window!StoreSave, Window!SaveAnswered, Window!SaveFails
  <2> QED
    BY <1>1, <2>1
<1>5. CASE \/ Window!Send \/ Window!RefuseSend \/ Window!SendAnswered \/ Window!SendFails
           \/ UNCHANGED Window!composeVars
  <2>1. sent' = sent
    BY <1>5, Zenon DEF Window!Send, Window!RefuseSend, Window!SendAnswered, Window!SendFails, Window!composeVars
  <2> QED
    BY <1>1, <2>1
<1> QED
  BY <1>2, <1>3, <1>4, <1>5, Zenon DEF Window!Next

-----------------------------------------------------------------------------
\* What is under way, and what was lost or crossed

LEMMA FlagsInStep ==
  ASSUME Window!ComposeAssumption, WindowInv, WindowInv', WindowBounds, FormIn(form', left'),
         [Window!Next]_Window!composeVars
  PROVE  FlagsIn'
<1>0. /\ FlagsIn /\ form \in FormType /\ form' \in FormType /\ send \in SendType
      /\ (send.at # "none" => send.no # 0) /\ MaxFiles \in Nat
  BY DEF WindowInv, WindowTyped, WindowBounds, Window!ComposeAssumption
<1>a. 0 <= MaxFiles /\ Len(form'.items) <= MaxFiles
  <2>1. Len(form'.items) + left'.files <= MaxFiles /\ left'.files \in Nat /\ form'.items \in Files
    BY LeftShrinks DEF WindowInv, FormIn, Shrinks
  <2>2. Len(form'.items) \in Nat
    BY <2>1 DEF Files
  <2> QED
    BY <1>0, <2>1, <2>2
<1>b. attach' \in {attach, 0, Len(form'.items)} => attach' <= MaxFiles
  BY <1>0, <1>a DEF FlagsIn
<1>c. (form.no # 0 => form.no \in Window!Forms) /\ (send.at # "none" => send.no \in Window!Forms)
  BY <1>0 DEF FormType, SendType, Window!Forms
<1> USE DEF FlagsIn
<1>1. CASE UNCHANGED <<attach, lost, crossed>> /\ {opening', closing', sending', waiting'}
             \subseteq {opening, closing, sending, waiting, TRUE, FALSE}
  BY <1>0, <1>1
<1>2. CASE \/ Window!AskWindow \/ Window!WindowArrives \/ Window!Type \/ Window!Pick
           \/ \E i \in DOMAIN form.items : Window!RemoveFile(i)
  <2>1. UNCHANGED <<attach, lost, crossed>>
    BY <1>2, Zenon DEF Window!AskWindow, Window!WindowArrives, Window!Type, Window!Pick, Window!RemoveFile
  <2>2. opening' \in {opening, TRUE, FALSE} /\ closing' = closing /\ sending' \in {sending, FALSE}
        /\ waiting' \in {waiting, FALSE}
    BY <1>2, Zenon DEF Window!AskWindow, Window!WindowArrives, Window!Type, Window!Pick, Window!RemoveFile
  <2> QED
    BY <1>0, <2>1, <2>2
<1>3. CASE Window!Close \/ Window!GuardKeep \/ Window!GuardDiscard
  <2>1. UNCHANGED <<attach, lost, crossed>>
    BY <1>3, Zenon DEF Window!Close, Window!GuardKeep, Window!GuardDiscard
  <2>2. opening' = opening /\ closing' \in {closing, FALSE} /\ sending' \in {sending, FALSE}
        /\ waiting' \in {waiting, FALSE}
    BY <1>3, Zenon DEF Window!Close, Window!GuardKeep, Window!GuardDiscard, Window!ForceClose
  <2> QED
    BY <1>0, <2>1, <2>2
<1>4. CASE Window!Save \/ Window!GuardSave
  <2>1. UNCHANGED <<opening, sending, lost, crossed>> /\ closing' \in {closing, TRUE}
    BY <1>4, Zenon DEF Window!Save, Window!GuardSave
  <2>2. attach' \in {attach, 0, Len(form'.items)} /\ waiting' \in {waiting, TRUE}
    BY <1>4, Zenon DEF Window!Save, Window!GuardSave, Window!PressSave, Window!IssueSave
  <2> QED
    BY <1>0, <1>b, <2>1, <2>2
<1>5. CASE \E f \in Window!Forms : Window!StoreSave(f)
  BY <1>0, <1>5 DEF Window!StoreSave
<1>6. ASSUME NEW f \in Window!Forms, Window!SaveAnswered(f) PROVE FlagsIn'
  <2>1. UNCHANGED <<opening, lost>>
    BY <1>6, Zenon DEF Window!SaveAnswered
  <2>2. attach' \in {attach, 0, Len(form'.items)}
    BY <1>6, Zenon DEF Window!SaveAnswered, Window!AfterSave, Window!IssueSave
  <2>3. closing' \in {closing, FALSE} /\ sending' \in {sending, FALSE}
    BY <1>6, Zenon DEF Window!SaveAnswered, Window!ForceClose
  <2>4. waiting' \in {waiting, FALSE} \/ \E b \in BOOLEAN : waiting' = b
    <3>1. PICK w : w = [form EXCEPT !.base = form.text, !.draft = Window!NewDraft(f),
                                    !.items = SubSeq(@, attach + 1, Len(@))]
      OBVIOUS
    <3>2. PICK b \in BOOLEAN, c \in BOOLEAN :
            b = (waiting /\ f # w.no) /\ c = (waiting /\ f # w.no /\ w.no # 0)
      OBVIOUS
    <3>3. waiting' = waiting \/ waiting' = FALSE \/ waiting' = b \/ waiting' = c
      BY <1>6, <3>1, <3>2, Zenon DEF Window!SaveAnswered, Window!AfterSave, Window!ForceClose
    <3> QED
      BY <3>2, <3>3
  <2>5. crossed' = crossed \/ (form.no # 0 /\ crossed' = crossed \cup {form.no})
    BY <1>6, Zenon DEF Window!SaveAnswered, Window!IsOpen
  <2> QED
    BY <1>0, <1>b, <1>c, <2>1, <2>2, <2>3, <2>4, <2>5
<1>7. ASSUME NEW f \in Window!Forms, Window!SaveFails(f) PROVE FlagsIn'
  <2>1. UNCHANGED <<opening, closing, sending, crossed, form>>
    BY <1>7, Zenon DEF Window!SaveFails
  <2>2. attach' \in {attach, 0, Len(form.items)}
    BY <1>7, Zenon DEF Window!SaveFails, Window!AfterSave, Window!IssueSave
  <2>3. \E b \in BOOLEAN : waiting' = b
    <3>1. PICK b \in BOOLEAN : b = (waiting /\ f # form.no /\ form.no # 0)
      OBVIOUS
    <3>2. waiting' = FALSE \/ waiting' = b
      BY <1>7, <3>1, Zenon DEF Window!SaveFails, Window!AfterSave
    <3> QED
      BY <3>2
  <2>4. lost' = lost \/ lost' = lost \cup {f}
    BY <1>7, Zenon DEF Window!SaveFails
  <2> QED
    BY <1>0, <1>b, <2>1, <2>2, <2>3, <2>4
<1>8. CASE Window!Send
  <2>1. UNCHANGED <<opening, attach, waiting, lost>> /\ sending' = TRUE /\ closing' = FALSE /\ form.no # 0
        /\ (crossed' = crossed \/ crossed' = crossed \cup {form.no})
    BY <1>8, Zenon DEF Window!Send, Window!InHand, Window!IsOpen
  <2> QED
    BY <1>0, <1>c, <2>1
<1>9. CASE Window!StoreSend \/ Window!RefuseSend \/ UNCHANGED Window!composeVars
  <2>1. UNCHANGED <<opening, closing, sending, waiting, attach, lost, crossed>>
    BY <1>9, Zenon DEF Window!StoreSend, Window!RefuseSend, Window!composeVars
  <2> QED
    BY <1>0, <2>1
<1>10. CASE Window!SendAnswered
  <2>1. UNCHANGED <<opening, attach, lost, crossed>> /\ closing' \in {closing, FALSE} /\ sending' = FALSE
        /\ waiting' = FALSE
    BY <1>10, Zenon DEF Window!SendAnswered, Window!ForceClose
  <2> QED
    BY <1>0, <2>1
<1>11. CASE Window!SendFails
  <2>1. UNCHANGED <<opening, closing, attach, waiting, crossed>> /\ sending' = FALSE /\ send.at # "none"
        /\ (lost' = lost \/ lost' = lost \cup {send.no})
    BY <1>11, Zenon DEF Window!SendFails
  <2> QED
    BY <1>0, <1>c, <2>1
<1> QED
  BY <1>2, <1>3, <1>4, <1>5, <1>6, <1>7, <1>8, <1>9, <1>10, <1>11, Zenon DEF Window!Next

LEMMA BoundsInit == ASSUME Window!ComposeAssumption, Window!Init PROVE WindowBounds
<1>1. MaxEdits \in Nat /\ MaxFiles \in Nat /\ <<>> \in Files /\ Len(<<>>) = 0
  BY DEF Window!ComposeAssumption, Files
<1>2. left.edits = MaxEdits /\ left.files = MaxFiles
  BY DEF Window!Init
<1>3. FormIn(form, left)
  <2>1. form.text = 0 /\ form.base = 0 /\ form.items = <<>>
    BY DEF Window!Init, Window!NoForm
  <2> QED
    BY <1>1, <1>2, <2>1 DEF FormIn
<1>4. SavesIn
  <2>1. \A f \in Window!Forms : saves[f] = Window!NoSave
    BY DEF Window!Init
  <2> QED
    BY <2>1, NoSaveIn DEF SavesIn
<1>5. SendIn(send, left)
  <2>1. send.text = 0 /\ send.items = <<>>
    BY DEF Window!Init, Window!NoSend
  <2> QED
    BY <1>1, <1>2, <2>1 DEF SendIn
<1>6. DraftsIn /\ SentIn
  BY DEF Window!Init, DraftsIn, SentIn
<1>7. FlagsIn
  <2>1. attach = 0 /\ lost = {} /\ crossed = {} /\ opening = FALSE /\ closing = FALSE /\ sending = FALSE
        /\ waiting = FALSE
    BY Zenon DEF Window!Init
  <2>2. attach <= MaxFiles
    BY <1>1, <2>1
  <2>3. lost \subseteq Window!Forms /\ crossed \subseteq Window!Forms
    BY <2>1
  <2> QED
    BY <2>1, <2>2, <2>3 DEF FlagsIn
<1> QED
  BY <1>3, <1>4, <1>5, <1>6, <1>7 DEF WindowBounds

-----------------------------------------------------------------------------
\* The types of the window's records, from their kinds and their bounds

LEMMA FormTyped ==
  ASSUME Window!ComposeAssumption, WindowInv, WindowBounds
  PROVE  form \in [no : 0..MaxForms, text : 0..MaxEdits, base : 0..MaxEdits, guard : BOOLEAN,
                   items : Seq(1..MaxFiles), draft : 0..Len(drafts)]
<1>1. /\ form \in FormType /\ form.draft <= Len(drafts) /\ Len(drafts) \in Nat /\ FormIn(form, left)
      /\ left.edits \in Nat /\ MaxEdits \in Nat
  BY DEF WindowInv, WindowTyped, WindowBounds, LeftType, Window!ComposeAssumption
<1>2. form.text \in 0..MaxEdits /\ form.base \in 0..MaxEdits
  BY <1>1 DEF FormType, FormIn
<1>3. form.draft \in 0..Len(drafts)
  BY <1>1 DEF FormType
<1>4. PICK F : F = Seq(1..MaxFiles)
  OBVIOUS
<1>5. form.items \in F
  BY <1>1, <1>4 DEF FormIn, Files, FileNos
<1>6. PICK E, D : E = 0..MaxEdits /\ D = 0..Len(drafts)
  OBVIOUS
<1>7. form \in [no : 0..MaxForms, text : E, base : E, guard : BOOLEAN, items : F, draft : D]
  BY <1>1, <1>2, <1>3, <1>5, <1>6 DEF FormType
<1> QED
  BY <1>4, <1>6, <1>7

LEMMA SavesTyped ==
  ASSUME Window!ComposeAssumption, WindowInv, WindowBounds
  PROVE  saves \in [Window!Forms -> [at : {"none", "sent", "made", "stored"}, text : 0..MaxEdits,
                                     items : Seq(1..MaxFiles), draft : 0..Len(drafts)]]
<1>1. PICK F, E, D : F = Seq(1..MaxFiles) /\ E = 0..MaxEdits /\ D = 0..Len(drafts)
  OBVIOUS
<1>2. saves \in [Window!Forms -> SaveType]
  BY DEF WindowInv, WindowTyped
<1>3. ASSUME NEW f \in Window!Forms
      PROVE  saves[f] \in [at : {"none", "sent", "made", "stored"}, text : E, items : F, draft : D]
  <2>1. PICK s : s = saves[f]
    OBVIOUS
  <2>2. s \in SaveType /\ s.draft <= Len(drafts) /\ Len(drafts) \in Nat /\ SaveIn(s) /\ MaxEdits \in Nat
    BY <1>2, <2>1 DEF WindowInv, WindowTyped, WindowBounds, SavesIn, Window!ComposeAssumption
  <2>3. s.text \in E /\ s.draft \in D
    BY <1>1, <2>2 DEF SaveType, SaveIn
  <2>4. s.items \in F
    BY <1>1, <2>2 DEF SaveIn, Files, FileNos
  <2>5. s \in [at : {"none", "sent", "made", "stored"}, text : E, items : F, draft : D]
    BY <2>2, <2>3, <2>4 DEF SaveType
  <2> QED
    BY <2>1, <2>5
<1>4. saves \in [Window!Forms -> [at : {"none", "sent", "made", "stored"}, text : E, items : F, draft : D]]
  BY <1>2, <1>3
<1> QED
  BY <1>1, <1>4

LEMMA SendTyped ==
  ASSUME Window!ComposeAssumption, WindowInv, WindowBounds
  PROVE  send \in [at : {"none", "sent", "ok", "refused"}, no : 0..MaxForms, text : 0..MaxEdits,
                   items : Seq(1..MaxFiles), draft : 0..Len(drafts)]
<1>1. PICK F, E, D : F = Seq(1..MaxFiles) /\ E = 0..MaxEdits /\ D = 0..Len(drafts)
  OBVIOUS
<1>2. /\ send \in SendType /\ send.draft <= Len(drafts) /\ Len(drafts) \in Nat /\ SendIn(send, left)
      /\ left.edits \in Nat /\ MaxEdits \in Nat
  BY DEF WindowInv, WindowTyped, WindowBounds, LeftType, Window!ComposeAssumption
<1>3. send.text \in E /\ send.draft \in D
  BY <1>1, <1>2 DEF SendType, SendIn
<1>4. send.items \in F
  BY <1>1, <1>2 DEF SendIn, Files, FileNos
<1>5. send \in [at : {"none", "sent", "ok", "refused"}, no : 0..MaxForms, text : E, items : F, draft : D]
  BY <1>2, <1>3, <1>4 DEF SendType
<1> QED
  BY <1>1, <1>5

LEMMA SeqOf == ASSUME NEW X, NEW Y, NEW s \in Seq(X), \A i \in DOMAIN s : s[i] \in Y PROVE s \in Seq(Y)
<1>1. PICK n \in Nat : s \in [1..n -> X]
  OBVIOUS
<1>2. s \in [1..n -> Y]
  BY <1>1
<1> QED
  BY <1>1, <1>2

LEMMA DraftsTyped ==
  ASSUME Window!ComposeAssumption, WindowInv, WindowBounds
  PROVE  drafts \in Seq([no : Window!Forms, text : 0..MaxEdits, files : Seq(1..MaxFiles), gone : BOOLEAN])
<1>1. PICK F, E : F = Seq(1..MaxFiles) /\ E = 0..MaxEdits
  OBVIOUS
<1>2. PICK Y : Y = [no : Window!Forms, text : E, files : F, gone : BOOLEAN]
  OBVIOUS
<1>3. drafts \in Seq(Line) /\ DraftsIn /\ MaxEdits \in Nat
  BY DEF WindowInv, WindowTyped, WindowBounds, Window!ComposeAssumption
<1>4. ASSUME NEW d \in DOMAIN drafts PROVE drafts[d] \in Y
  <2>1. PICK s : s = drafts[d]
    OBVIOUS
  <2>2. s \in Line /\ LineIn(s)
    BY <1>3, <2>1 DEF DraftsIn
  <2>3. s.text \in E
    BY <1>1, <1>3, <2>2 DEF Line, LineIn
  <2>4. s.files \in F
    BY <1>1, <2>2 DEF LineIn, Files, FileNos
  <2>5. s \in Y
    BY <1>2, <2>2, <2>3, <2>4 DEF Line
  <2> QED
    BY <2>1, <2>5
<1>5. drafts \in Seq(Y)
  BY <1>3, <1>4, SeqOf
<1> QED
  BY <1>1, <1>2, <1>5

LEMMA MailTyped ==
  ASSUME Window!ComposeAssumption, WindowInv, WindowBounds
  PROVE  sent \in Seq([no : Window!Forms, files : Seq(1..MaxFiles)])
<1>1. PICK F : F = Seq(1..MaxFiles)
  OBVIOUS
<1>2. PICK Y : Y = [no : Window!Forms, files : F]
  OBVIOUS
<1>3. sent \in Seq(Mail) /\ SentIn
  BY DEF WindowInv, WindowTyped, WindowBounds
<1>4. ASSUME NEW d \in DOMAIN sent PROVE sent[d] \in Y
  <2>1. PICK s : s = sent[d]
    OBVIOUS
  <2>2. s \in Mail
    BY <1>3, <2>1
  <2>3. s.files \in F
    BY <1>1, <1>3, <2>1 DEF SentIn, Files, FileNos
  <2>4. s \in Y
    BY <1>2, <2>2, <2>3 DEF Mail
  <2> QED
    BY <2>1, <2>4
<1>5. sent \in Seq(Y)
  BY <1>3, <1>4, SeqOf
<1> QED
  BY <1>1, <1>2, <1>5

LEMMA WindowTypesHold ==
  ASSUME Window!ComposeAssumption, WindowInv, WindowBounds PROVE Window!TypeOK
<1>1. {opening, closing, sending, waiting} \subseteq BOOLEAN /\ attach \in 0..MaxFiles
      /\ lost \subseteq Window!Forms /\ crossed \subseteq Window!Forms
  BY DEF WindowBounds, FlagsIn, WindowInv, WindowTyped, Window!ComposeAssumption
<1> QED
  BY <1>1, FormTyped, SavesTyped, SendTyped, DraftsTyped, MailTyped, Zenon DEF Window!TypeOK

LEMMA BoundsStep ==
  ASSUME Window!ComposeAssumption, WindowInv, WindowInv', WindowBounds, [Window!Next]_Window!composeVars
  PROVE  WindowBounds'
<1>1. FormIn(form', left')
  BY FormInStep
<1>2. SavesIn' /\ SendIn(send', left') /\ DraftsIn' /\ SentIn' /\ FlagsIn'
  BY <1>1, SavesInStep, SendInStep, DraftsInStep, SentInStep, FlagsInStep
<1> QED
  BY <1>1, <1>2 DEF WindowBounds

LEMMA WindowTypes == ASSUME Window!ComposeAssumption PROVE Window!Spec => []Window!TypeOK
<1>1. Window!Init => WindowInv /\ WindowBounds
  BY WindowInit, BoundsInit
<1>2. WindowInv /\ WindowBounds /\ [Window!Next]_Window!composeVars => WindowInv' /\ WindowBounds'
  BY WindowStep, BoundsStep
<1>3. WindowInv /\ WindowBounds => Window!TypeOK
  BY WindowTypesHold
<1> QED
  BY <1>1, <1>2, <1>3, PTL DEF Window!Spec

-----------------------------------------------------------------------------
(* The types of the page *)

LEMMA WhichStays == Spec => [](which \in Parts)
<1>1. Init => which \in Parts
  BY DEF Init
<1>2. which \in Parts /\ [Next]_pageVars => (which \in Parts)'
  BY Zenon DEF Next, pageVars
<1> QED
  BY <1>1, <1>2, PTL DEF Spec

LEMMA PreviewTypes == ASSUME PdfInv PROVE Pdf!TypeOK
<1>1. loads \in Seq([at : {"loading", "loaded", "failed"}, cancelled : BOOLEAN])
      /\ preview \in 0..Len(loads) /\ holder \in {"closed", "busy", "pages", "error"}
  BY DEF PdfInv, LoadsTyped, LoadType
<1>2. vis \subseteq Pages /\ canvas \subseteq Pages /\ excused \subseteq Pages /\ twice \subseteq Pages
  BY DEF PdfInv, Drawings
<1>3. queue \in Seq(Pages) /\ Pdf!IsInjective(queue)
  BY DEF PdfInv, Drawings, Once, Pdf!IsInjective
<1>4. rendered \in Seq(Pages) /\ Pdf!IsInjective(rendered) /\ Len(rendered) <= MaxCanvases
  BY DEF PdfInv, Drawings, Once, Pdf!IsInjective
<1>5. jobs \in [Pdf!Workers -> [page : Pages \cup {0}, at : {"idle", "getting", "drawing"}, cancelled : BOOLEAN]]
  BY DEF PdfInv, Drawings, JobsTyped, JobType
<1>6. tasks \in [Pages -> 0..2]
  BY DEF PdfInv, TasksOwn
<1> QED
  BY <1>1, <1>2, <1>3, <1>4, <1>5, <1>6, Zenon DEF Pdf!TypeOK

LEMMA TextTypes == ASSUME TextInv PROVE Body!TypeOK
<1>1. {mode, wrote, sigMode} \subseteq Body!Formats /\ from \in Addresses
      /\ {skipped, another} \subseteq BOOLEAN /\ overlaps \subseteq {"format", "sign"}
  BY DEF TextInv, BoxesTyped
<1>2. text \in Body!TextType /\ convert \in [at : {"none", "sent"}, to : Body!Formats, text : Body!TextType]
  BY Zenon DEF TextInv, TextsTyped, ConvertType
<1>3. sigText \in [of : Addresses, var : Body!Formats] \cup {Body!NoSig}
  BY Zenon DEF TextInv, BoxesTyped, KnownType
<1>4. written \in 0..MaxWords /\ choices \in 0..MaxChoices /\ swallowed \subseteq 1..written /\ brought \in Nat
  BY Zenon DEF TextInv, BoxesTyped
<1> QED
  BY <1>1, <1>2, <1>3, <1>4, Zenon DEF Body!TypeOK

\* Every part is typed, the one that moves and those that rest.
EveryPartTyped ==
  /\ List!TypeOK /\ Pane!TypeOK /\ Pdf!TypeOK /\ Window!TypeOK /\ Gesture!TypeOK
  /\ Key!TypeOK /\ Row!TypeOK /\ Device!TypeOK /\ Body!TypeOK

\* THEOREM: whatever the page shows, holds and has asked for keeps its type, in the part
\* that moves and in those that rest. The counts
\* follow from what was spent: a text is no longer than the edits that were made, a
\* window has no more files than were picked, a held tap has a number, and the backlog
\* of events is cut at its limit.
THEOREM PageTypes == Spec => [](TypeOK /\ EveryPartTyped)
<1>1. /\ List!ListAssumption /\ Pane!PaneAssumption /\ Window!ComposeAssumption
      /\ Gesture!GestureAssumption /\ Key!KeysAssumption /\ Device!DeviceAssumption
  BY PartsAssumption
<1>2. Spec => []List!SpinnerHasAReason /\ [](which \in Parts)
  BY SpinnerSettles, WhichStays
<1>3. Spec => []List!TypeOK
  BY <1>1, ListMoves, ListTypes, PTL
<1>4. Spec => []Pane!TypeOK
  BY <1>1, PaneMoves, PaneTypes, PTL
<1>5. Spec => []Pdf!TypeOK
  BY PdfHolds, PreviewTypes, PTL
<1>6. Spec => []Window!TypeOK
  BY <1>1, WindowMoves, WindowTypes, PTL
<1>7. Spec => []Gesture!TypeOK
  BY <1>1, GestureMoves, GestureTypes, PTL
<1>8. Spec => []Key!TypeOK
  BY <1>1, KeyMoves, KeyTypes, PTL
<1>9. Spec => []Row!TypeOK
  <2>1. RowsInv => Row!TypeOK
    BY DEF RowsInv, RowsTyped
  <2> QED
    BY <2>1, RowsHold, PTL
<1>10. Spec => []Device!TypeOK
  BY <1>1, DeviceMoves, DeviceTypes, PTL
<1>11. Spec => []Body!TypeOK
  BY TextHolds, TextTypes, PTL
<1>12. /\ List!SpinnerHasAReason /\ which \in Parts
       /\ List!TypeOK /\ Pane!TypeOK /\ Pdf!TypeOK /\ Window!TypeOK /\ Gesture!TypeOK
       /\ Key!TypeOK /\ Row!TypeOK /\ Device!TypeOK /\ Body!TypeOK
       => TypeOK /\ EveryPartTyped
  BY Zenon DEF TypeOK, EveryPartTyped
<1> QED
  BY <1>2, <1>3, <1>4, <1>5, <1>6, <1>7, <1>8, <1>9, <1>10, <1>11, <1>12, PTL

=============================================================================
