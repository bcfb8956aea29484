------------------------------ MODULE ListRows ------------------------------
(***************************************************************************)
(* The rows of the message list: how the server cuts a folder into pages    *)
(* (listPage of internal/store/messages.go), and how the browser appends    *)
(* and replaces them, carries the selection over, and moves a message away  *)
(* (web/static/js/app.js). A row is a conversation and bears the number of  *)
(* its newest message; numbers grow with the date. The swap of an answer    *)
(* and what is done once it has settled are two steps, with keys between.   *)
(***************************************************************************)
EXTENDS Integers, SequencesExt, Sorted

CONSTANTS
  Threads,     \* how many conversations: message m is in conversation m % Threads
  Start,       \* messages in the folder at first: 1..Start
  MaxArrivals, \* bound: messages that arrive
  Limit,       \* listLimit: conversations of a page
  MaxDeeds     \* bound: conversations marked, rows selected, lists asked for, messages
               \* archived and brought back, and requests that fail, all together

RowsAssumption ==
  /\ {Start, MaxArrivals, MaxDeeds} \subseteq Nat
  /\ {Threads, Limit} \subseteq Nat \ {0}

VARIABLES
  folder,    \* the messages in the folder
  unread,    \* those of them that are unread
  rows,      \* the rows on screen: [id, going]
  cursor,    \* the sentinel's before=, 0 without one
  marked,    \* the ids of the rows that are highlighted
  stash,     \* selBefore: [id, i], or NoStash
  settling,  \* swaps that have not settled: "list", "page"
  refresh,   \* the list element's request: [at, rows, next]
  page,      \* the sentinel's request: [out, rows, next]
  moves,     \* POSTs of moves: [id, at, list]
  shown,     \* which list is on screen
  spare,     \* what is left of the bounds: [arrivals, deeds]
  aim,       \* history: the row the user selected last, 0 when it is gone
  touched,   \* history: conversations that got mail or became unread since the
             \* list was rendered; asked holds the same for the request under way
  asked,
  astray     \* history: a move took another message than the one selected

rowVars == <<folder, unread, rows, cursor, marked, stash, settling, refresh, page, moves,
             shown, spare, aim, touched, asked, astray>>

Ids == 1..(Start + MaxArrivals)
Conv(m) == m % Threads
NoStash == [id |-> 0, i |-> 0]
NoList  == [at |-> "none", rows |-> <<>>, next |-> 0]
NoPage  == [out |-> FALSE, rows |-> <<>>, next |-> 0]

Row(id) == [id |-> id, going |-> FALSE]
IdsOf(rs) == {rs[i].id : i \in DOMAIN rs}
Take(what) == spare[what] > 0 /\ spare' = [spare EXCEPT ![what] = @ - 1]

-----------------------------------------------------------------------------
(* The pages of a folder (listPage) *)

\* The conversations of a folder by their newest messages, newest first.
Keys(f) == {m \in f : \A n \in f : Conv(n) = Conv(m) => n <= m}
IsUnread(k) == \E m \in unread : Conv(m) = Conv(k)
Newest(S) == {k \in S : Cardinality({n \in S : n >= k}) <= Limit}

\* The rows of the page; its cursor is the oldest of the newest Limit, and there is
\* none when no conversation is left.
Cut(shows, top, left) ==
  [rows |-> Descending(shows), next |-> IF shows = left THEN 0 ELSE Min(top)]

\* Page one: the newest Limit, and every unread one below them.
PageOne ==
  LET all == Keys(folder) IN Cut(Newest(all) \cup {k \in all : IsUnread(k)}, Newest(all), all)

\* Faulty: a page starts after as many conversations as were delivered.
PageAfter_offset(before) ==
  LET left == {k \in Keys(folder) : Cardinality({n \in Keys(folder) : n >= k}) > Len(rows)}
  IN Cut(Newest(left), Newest(left), left)

\* A later page: what is older than the cursor and read.
PageAfter(before) ==
  LET left == {k \in Keys(folder) : k < before /\ ~IsUnread(k)}
  IN Cut(Newest(left), Newest(left), left)

Init ==
  /\ folder = 1..Start
  /\ \E m \in folder : unread = {m}
  /\ rows = [i \in DOMAIN PageOne.rows |-> Row(PageOne.rows[i])] /\ cursor = PageOne.next
  /\ marked = {} /\ stash = NoStash /\ settling = {}
  /\ refresh = NoList /\ page = NoPage /\ moves = <<>> /\ shown = 0
  /\ spare = [arrivals |-> MaxArrivals, deeds |-> MaxDeeds]
  /\ aim = 0 /\ touched = {} /\ asked = {} /\ astray = FALSE

browserVars == <<rows, cursor, marked, stash, settling, refresh, page, moves, shown>>

-----------------------------------------------------------------------------
(* The folder *)

Touch(c) == touched' = touched \cup {c} /\ asked' = asked \cup {c}

\* A message arrives, unread: of a conversation of its own, or of one there is.
Arrive ==
  /\ Take("arrivals")
  /\ LET m == Start + MaxArrivals - spare.arrivals + 1
     IN folder' = folder \cup {m} /\ unread' = unread \cup {m} /\ Touch(Conv(m))
  /\ UNCHANGED <<browserVars, aim, astray>>

\* A conversation is read or marked unread, here or by another client.
MarkConversation(m) ==
  /\ m \in Keys(folder) /\ Take("deeds")
  /\ LET all == {n \in folder : Conv(n) = Conv(m)}
     IN IF IsUnread(m) THEN unread' = unread \ all /\ UNCHANGED <<touched, asked>>
                       ELSE unread' = unread \cup all /\ Touch(Conv(m))
  /\ UNCHANGED <<folder, browserVars, aim, astray>>

-----------------------------------------------------------------------------
(* The list is rendered again, or a page is appended *)

AskList ==
  /\ refresh.at = "none" /\ Take("deeds")
  /\ refresh' = [NoList EXCEPT !.at = "sent"]
  /\ UNCHANGED <<folder, unread, rows, cursor, marked, stash, settling, page, moves, shown,
                 aim, touched, asked, astray>>

RenderList ==
  /\ refresh.at = "sent"
  /\ refresh' = [at |-> "rendered", rows |-> PageOne.rows, next |-> PageOne.next]
  /\ asked' = {}
  /\ UNCHANGED <<folder, unread, rows, cursor, marked, stash, settling, page, moves, shown,
                 spare, aim, touched, astray>>

\* selectedRow: the first that is highlighted; 0 when none is.
Selected == IF \E i \in DOMAIN rows : rows[i].id \in marked
            THEN SelectInSeq(rows, LAMBDA r : r.id \in marked) ELSE 0

\* htmx:beforeSwap and the swap: the selection is stashed, the rows are new, and
\* with the sentinel goes the page that was asked for.
ListArrives ==
  /\ refresh.at = "rendered"
  /\ stash' = [id |-> IF Selected = 0 THEN 0 ELSE rows[Selected].id, i |-> Selected]
  /\ rows' = [i \in DOMAIN refresh.rows |-> Row(refresh.rows[i])]
  /\ cursor' = refresh.next /\ marked' = {} /\ page' = NoPage
  /\ refresh' = NoList /\ shown' = shown + 1
  /\ settling' = settling \cup {"list"}
  /\ touched' = asked
  /\ aim' = IF aim \in {refresh.rows[i] : i \in DOMAIN refresh.rows} THEN aim ELSE 0
  /\ UNCHANGED <<folder, unread, moves, spare, asked, astray>>

\* Faulty: the selection stays at its place in the list.
Heir_byPlace == IF stash.i = 0 \/ rows = <<>> THEN 0
                ELSE rows[IF stash.i < Len(rows) THEN stash.i ELSE Len(rows)].id

\* The row to highlight: the same message, else what took its place.
Heir ==
  IF stash.i = 0 \/ rows = <<>> THEN 0
  ELSE IF stash.id \in IdsOf(rows) THEN stash.id
  ELSE rows[IF stash.i < Len(rows) THEN stash.i ELSE Len(rows)].id

\* htmx:afterSettle of the list: added to what a key highlighted in between.
ListSettles ==
  /\ "list" \in settling
  /\ settling' = settling \ {"list"}
  /\ marked' = marked \cup ({Heir} \ {0})
  /\ stash' = NoStash
  /\ UNCHANGED <<folder, unread, rows, cursor, refresh, page, moves, shown, spare, aim,
                 touched, asked, astray>>

\* The sentinel asks and is answered: its cursor is the one it was rendered with.
RenderPage ==
  /\ cursor # 0 /\ page = NoPage
  /\ LET p == PageAfter(cursor) IN page' = [out |-> TRUE, rows |-> p.rows, next |-> p.next]
  /\ UNCHANGED <<folder, unread, rows, cursor, marked, stash, settling, refresh, moves, shown,
                 spare, aim, touched, asked, astray>>

\* The page and the next sentinel take the sentinel's place, which stays the last.
PageArrives ==
  /\ page.out
  /\ rows' = rows \o [i \in DOMAIN page.rows |-> Row(page.rows[i])]
  /\ cursor' = page.next /\ page' = NoPage
  /\ settling' = settling \cup {"page"}
  /\ UNCHANGED <<folder, unread, marked, stash, refresh, moves, shown, spare, aim, touched,
                 asked, astray>>

\* Of two rows with one id the late copy goes.
PageSettles ==
  /\ "page" \in settling
  /\ settling' = settling \ {"page"}
  /\ LET Late(i) == \E j \in 1..i-1 : rows[j].id = rows[i].id
     IN rows' = At(rows, {i \in DOMAIN rows : ~Late(i)})
  /\ UNCHANGED <<folder, unread, cursor, marked, stash, refresh, page, moves, shown, spare,
                 aim, touched, asked, astray>>

\* No answer: the sentinel is there to be pressed again.
PageFails ==
  /\ page.out /\ Take("deeds")
  /\ page' = NoPage
  /\ UNCHANGED <<folder, unread, rows, cursor, marked, stash, settling, refresh, moves, shown,
                 aim, touched, asked, astray>>

-----------------------------------------------------------------------------
(* Selecting and moving *)

\* j, k, J, K or a click: only this row is highlighted. Before a swap has settled
\* the stashed row still joins it, so the history counts no choice made there.
SelectRow(i) ==
  /\ Take("deeds")
  /\ marked' = {rows[i].id}
  /\ aim' = IF "list" \in settling THEN 0 ELSE rows[i].id
  /\ UNCHANGED <<folder, unread, rows, cursor, stash, settling, refresh, page, moves, shown,
                 touched, asked, astray>>

\* moveSelected: the selected row's message, whatever the user last selected.
Archive ==
  /\ Selected # 0 /\ Take("deeds")
  /\ LET id == rows[Selected].id
     IN /\ moves' = Append(moves, [id |-> id, at |-> "sent", list |-> shown])
        /\ astray' = (astray \/ (aim # 0 /\ id # aim))
  /\ UNCHANGED <<folder, unread, rows, cursor, marked, stash, settling, refresh, page, shown,
                 aim, touched, asked>>

\* handleMove: the message leaves the folder, the rest of its conversation stays.
StoreMove(n) ==
  /\ moves[n].at = "sent"
  /\ moves' = [moves EXCEPT ![n].at = "stored"]
  /\ folder' = folder \ {moves[n].id} /\ unread' = unread \ {moves[n].id}
  /\ Touch(Conv(moves[n].id))
  /\ UNCHANGED <<rows, cursor, marked, stash, settling, refresh, page, shown, spare, aim, astray>>

\* The row fades, if it is still the one of the press.
MoveAnswered(n) ==
  /\ moves[n].at = "stored"
  /\ moves' = [moves EXCEPT ![n].at = "done"]
  /\ rows' = IF moves[n].list # shown THEN rows
             ELSE [i \in DOMAIN rows |-> [rows[i] EXCEPT !.going = @ \/ rows[i].id = moves[n].id]]
  /\ UNCHANGED <<folder, unread, cursor, marked, stash, settling, refresh, page, shown, spare,
                 aim, touched, asked, astray>>

MoveFails(n) ==
  /\ moves[n].at \in {"sent", "stored"} /\ Take("deeds")
  /\ moves' = [moves EXCEPT ![n].at = "done"]
  /\ UNCHANGED <<folder, unread, rows, cursor, marked, stash, settling, refresh, page, shown,
                 aim, touched, asked, astray>>

\* 200 ms later it is gone, and its highlight with it.
RowRemoved(i) ==
  /\ rows[i].going
  /\ rows' = RemoveAt(rows, i)
  /\ marked' = marked \ {rows[i].id}
  /\ aim' = IF aim = rows[i].id THEN 0 ELSE aim
  /\ UNCHANGED <<folder, unread, cursor, stash, settling, refresh, page, moves, shown, spare,
                 touched, asked, astray>>

\* The toast's Undo: the message is back, and a list is asked for.
UndoMove(n) ==
  /\ moves[n].at = "done" /\ moves[n].id \notin folder /\ Take("deeds")
  /\ folder' = folder \cup {moves[n].id}
  /\ Touch(Conv(moves[n].id))
  /\ refresh' = IF refresh.at = "none" THEN [NoList EXCEPT !.at = "sent"] ELSE refresh
  /\ UNCHANGED <<unread, rows, cursor, marked, stash, settling, page, moves, shown, aim, astray>>

Next ==
  \/ Arrive \/ \E m \in folder : MarkConversation(m)
  \/ AskList \/ RenderList \/ ListArrives \/ ListSettles
  \/ RenderPage \/ PageArrives \/ PageSettles \/ PageFails
  \/ \E i \in DOMAIN rows : SelectRow(i) \/ RowRemoved(i)
  \/ Archive
  \/ \E n \in DOMAIN moves : StoreMove(n) \/ MoveAnswered(n) \/ MoveFails(n) \/ UndoMove(n)

Spec == Init /\ [][Next]_rowVars

-----------------------------------------------------------------------------
TypeOK ==
  /\ folder \subseteq Ids /\ unread \subseteq folder
  /\ rows \in Seq([id : Ids, going : BOOLEAN]) /\ cursor \in Ids \cup {0}
  /\ marked \subseteq Ids /\ settling \subseteq {"list", "page"}
  /\ stash \in [id : Ids \cup {0}, i : Nat]
  /\ moves \in Seq([id : Ids, at : {"sent", "stored", "done"}, list : 0..shown])
  /\ refresh.at \in {"none", "sent", "rendered"}

\* When the last page is on screen, so is every conversation of the folder, once,
\* however many were archived, read or pushed down between its pages; except those
\* that since the list was rendered got mail, lost some, or became unread, which a
\* later page leaves to page one.
PagesAreExact ==
  settling = {} =>
    /\ \A i, j \in DOMAIN rows : rows[i].id = rows[j].id => i = j
    /\ cursor = 0 =>
         \A k \in Keys(folder) : Conv(k) \notin touched => k \in IdsOf(rows)

\* A key that moves "the selected message" moves the one the user selected, as long
\* as a list still shows it: whatever lists and pages came in between. (Between a
\* swap and its settling two rows can be highlighted; the first is moved.)
MovesTheSelected == ~astray
=============================================================================
