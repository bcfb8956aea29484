------------------------------ MODULE Gestures ------------------------------
(***************************************************************************)
(* What a finger or the mouse does to a row of the list (web/static/js/     *)
(* app.js, row gestures and context menu). A first tap is held for the      *)
(* double-tap window; a horizontal move turns a press into a swipe; a long  *)
(* press opens the row's menu. A refresh of the list may replace the rows   *)
(* at any moment: an element is a row and the list it was rendered with.    *)
(* Two quick clicks of the mouse are a double click as well, whose action   *)
(* comes on top of what the two did. Presses on a row's own buttons and     *)
(* links are the browser's.                                                 *)
(***************************************************************************)
EXTENDS Integers, FiniteSets

CONSTANTS
  Rows,        \* the rows of the list
  Swipes,      \* the directions with an action: a subset of {"left", "right"}
  DoubleTap,   \* whether a double tap, or a double click, has an action
  MaxPresses,  \* bound: touches and mouse presses of all rows
  MaxRenders   \* bound: lists that replace the rows

GestureAssumption ==
  /\ "none" \notin Rows
  /\ Swipes \subseteq {"left", "right"} /\ DoubleTap \in BOOLEAN
  /\ MaxPresses \in Nat /\ MaxRenders \in Nat

VARIABLES
  render,    \* which list is on screen
  press,     \* [by, on, ctx, scroll]: what is down, where it went down, __ctxTap, scrollTap
  swRow,     \* the element a swipe would move
  axis,      \* "none", "h" or "v"
  toward,    \* the sign of dx
  swPane,      \* the element that carries the coloured pane
  pending,   \* [on, timer]: pendingRow and pendingTimer
  timers,    \* held taps: [id, on]
  clicked,   \* the element of the last click, which the next may pair with, or NoRow
  tally      \* history: presses begun and what came of them, by row

gestureVars == <<render, press, swRow, axis, toward, swPane, pending, timers, clicked,
                 tally>>

NoRow == <<"none", 0>>
Elements == (Rows \X (0..MaxRenders)) \cup {NoRow}
Attached(el) == el # NoRow /\ el[2] = render
NoPress == [by |-> "none", on |-> NoRow, ctx |-> FALSE, scroll |-> FALSE]
NotPending == [on |-> NoRow, timer |-> 0]

\* "doubled" is a double tap; "clicked" and "again" are the browser's click and dblclick.
Deeds == {"begun", "opened", "doubled", "swiped", "menu", "clicked", "again"}
Did(deeds, el) ==
  tally' = [d \in Deeds |-> IF d \in deeds THEN [tally[d] EXCEPT ![el[1]] = @ + 1] ELSE tally[d]]

Init ==
  /\ render = 0 /\ press = NoPress
  /\ swRow = NoRow /\ axis = "none" /\ toward = "none" /\ swPane = NoRow
  /\ pending = NotPending /\ timers = {} /\ clicked = NoRow
  /\ tally = [d \in Deeds |-> [r \in Rows |-> 0]]

-----------------------------------------------------------------------------
Begun == UNION {{r} \X (1..tally.begun[r]) : r \in Rows}

\* touchstart and mousedown on a row. A pane that an unseen end left behind stays.
PressDown(r, by) ==
  /\ press.by = "none" /\ Cardinality(Begun) < MaxPresses
  /\ \E moving \in BOOLEAN :
       press' = [by |-> by, on |-> <<r, render>>, ctx |-> FALSE, scroll |-> moving /\ by = "touch"]
  /\ swRow' = <<r, render>> /\ axis' = "none" /\ toward' = "none"
  /\ Did({"begun"}, <<r, render>>)
  /\ UNCHANGED <<render, swPane, pending, timers, clicked>>

\* trackMove: the first clear move picks the axis; a direction with no action
\* paints nothing.
Move(dir) ==
  /\ press.by # "none" /\ swRow # NoRow
  /\ \/ axis = "none" /\ axis' = "v" /\ swRow' = NoRow /\ UNCHANGED <<toward, swPane>>
     \/ /\ axis \in {"none", "h"} /\ axis' = "h" /\ UNCHANGED swRow
        /\ toward' = IF dir \in Swipes THEN dir ELSE "none"
        /\ swPane' = IF dir \in Swipes /\ swPane = NoRow THEN swRow ELSE swPane
  /\ UNCHANGED <<render, press, pending, timers, clicked, tally>>

\* The menu opens under the finger, or under the mouse's other button.
LongPress ==
  /\ press.by = "touch" /\ Attached(press.on) /\ axis = "none" /\ ~press.ctx
  /\ press' = [press EXCEPT !.ctx = TRUE]
  /\ Did({"menu"}, press.on)
  /\ UNCHANGED <<render, swRow, axis, toward, swPane, pending, timers, clicked>>

\* A finger lifted from a row that is gone, or taken over by the system: the
\* document hears nothing of it.
TouchLost ==
  /\ press.by = "touch"
  /\ press' = NoPress
  /\ UNCHANGED <<render, swRow, axis, toward, swPane, pending, timers, clicked, tally>>

-----------------------------------------------------------------------------
\* settle and runRowAction: past the threshold, or fast enough, the swipe acts.
Swiping == axis = "h" /\ swPane # NoRow
SwipeEnds(mayFire) ==
  /\ Swiping
  /\ swPane' = NoRow /\ swRow' = NoRow
  /\ \/ mayFire /\ toward # "none" /\ Did({"swiped"}, swRow)
     \/ UNCHANGED tally

\* Faulty: the second tap leaves the timer of the first.
SecondTap_running(el) ==
  /\ pending' = NotPending
  /\ Did({"doubled"}, el)
  /\ UNCHANGED timers

\* The second tap on the same element takes the first one back.
SecondTap(el) ==
  /\ timers' = {t \in timers : t.id # pending.timer}
  /\ pending' = NotPending
  /\ Did({"doubled"}, el)

FirstTap(el) ==
  LET id == CHOOSE n \in 1..(Cardinality(timers) + 1) : \A t \in timers : t.id # n
  IN /\ timers' = timers \cup {[id |-> id, on |-> el]}
     /\ pending' = [on |-> el, timer |-> id]
     /\ UNCHANGED tally

Tap(el) ==
  IF ~DoubleTap THEN Did({"opened"}, el) /\ UNCHANGED <<pending, timers>>
  ELSE IF pending.on = el THEN SecondTap(el)
  ELSE FirstTap(el)

\* Neither a long press nor the touch that stops a fling opens the row.
NoTap == press.ctx \/ press.scroll

\* touchend: the end of a swipe, a touch that travelled, or a tap.
TouchEnd ==
  /\ press.by = "touch" /\ Attached(press.on)
  /\ press' = NoPress
  /\ UNCHANGED <<render, axis, toward, clicked>>
  /\ \/ SwipeEnds(TRUE) /\ UNCHANGED <<pending, timers>>
     \/ /\ ~Swiping /\ swRow' = NoRow /\ UNCHANGED swPane
        /\ \/ axis # "none" /\ UNCHANGED <<pending, timers, tally>>
           \/ NoTap /\ UNCHANGED <<pending, timers, tally>>
           \/ ~NoTap /\ Tap(press.on)

\* The double-tap window closes: the held tap opens its row, if it is still there.
Held(t) ==
  /\ timers' = timers \ {t}
  /\ pending' = NotPending
  /\ IF Attached(t.on) THEN Did({"opened"}, t.on) ELSE UNCHANGED tally
  /\ UNCHANGED <<render, press, swRow, axis, toward, swPane, clicked>>

-----------------------------------------------------------------------------
\* Quick clicks are paired by time and place: the two are on one element, or the list
\* was replaced between them.
Pairs == clicked # NoRow /\ (clicked = press.on \/ clicked[2] # render)

\* endDrag(true), and what the browser makes of the same mouseup. Let go over the element
\* it went down on, it is a click, which opens the row unless suppressClick eats it (after a
\* drag that painted); the second of two quick ones is a dblclick too, which nothing eats.
MouseUp ==
  /\ press.by = "mouse" /\ press' = NoPress
  /\ swRow' = NoRow /\ swPane' = (IF Swiping THEN NoRow ELSE swPane)
  /\ \E deeds \in SUBSET {"swiped", "clicked", "opened", "again"} :
       /\ "swiped" \in deeds => Swiping /\ toward # "none"
       /\ "clicked" \in deeds => Attached(press.on)
       /\ "opened" \in deeds <=> "clicked" \in deeds /\ ~Swiping
       /\ "again" \in deeds => "clicked" \in deeds /\ Pairs /\ DoubleTap
       /\ Did(deeds, press.on)
       /\ clicked' = IF "clicked" \in deeds /\ "again" \notin deeds THEN press.on ELSE NoRow
  /\ UNCHANGED <<render, axis, toward, pending, timers>>

\* The pointer leaves the window: endDrag(false).
MouseLeaves ==
  /\ press.by = "mouse" /\ press' = NoPress /\ clicked' = NoRow
  /\ \/ SwipeEnds(FALSE)
     \/ ~Swiping /\ swRow' = NoRow /\ UNCHANGED <<swPane, tally>>
  /\ UNCHANGED <<render, axis, toward, pending, timers>>

\* A list from the server replaces every row element.
ListReplaced ==
  /\ render < MaxRenders /\ render' = render + 1
  /\ UNCHANGED <<press, swRow, axis, toward, swPane, pending, timers, clicked, tally>>

Next ==
  \/ \E r \in Rows : PressDown(r, "touch") \/ PressDown(r, "mouse")
  \/ \E dir \in {"left", "right"} : Move(dir)
  \/ LongPress \/ TouchLost \/ TouchEnd \/ MouseUp \/ MouseLeaves \/ ListReplaced
  \/ \E t \in timers : Held(t)

Spec == Init /\ [][Next]_gestureVars

-----------------------------------------------------------------------------
TypeOK ==
  /\ render \in 0..MaxRenders
  /\ press \in [by : {"none", "touch", "mouse"}, on : Elements, ctx : BOOLEAN, scroll : BOOLEAN]
  /\ {swRow, swPane, clicked} \subseteq Elements /\ axis \in {"none", "h", "v"}
  /\ toward \in Swipes \cup {"none"}
  /\ pending \in [on : Elements, timer : Nat]
  /\ timers \subseteq [id : Nat, on : Elements]
  /\ tally \in [Deeds -> [Rows -> Nat]]

\* No press is spent twice on a row: it opens it, is one half of a double tap, or
\* swipes it; and a press that opened the menu is no tap, whatever the double-tap
\* timers, the refreshes of the list and the pointers do in between. (A long press
\* that then moves sideways does swipe: the menu is counted against taps only.)
\* A double click is the one thing on top, as the code has it ("The single click that
\* precedes it still opens the message"): it takes a press of the mouse let go over the
\* row, and two of them as long as no list came between.
NoPressTwice ==
  \A r \in Rows :
    LET taps == tally.opened[r] + 2 * tally.doubled[r]
                  + Cardinality({t \in timers : t.on[1] = r})
    IN /\ taps + tally.swiped[r] <= tally.begun[r]
       /\ taps + tally.menu[r] <= tally.begun[r]
       /\ tally.again[r] <= tally.clicked[r] /\ tally.clicked[r] <= tally.begun[r]
       /\ render = 0 => 2 * tally.again[r] <= tally.clicked[r]
=============================================================================
