----------------------------- MODULE PendingMove -----------------------------
(***************************************************************************)
(* Moving a message: the row goes to its new folder at once, the server is   *)
(* told when the undo grace is over, and until then the row carries a UID of *)
(* the folder it left.                                                      *)
(*                                                                          *)
(* Timers and their map live in memory; the passes over both folders run     *)
(* meanwhile.  A pass is two steps here, the fetch of new mail and the deep  *)
(* half (module FolderSync has the rest of it).  A row's headers never       *)
(* change once stored.  Ids are SQLite's: the largest in use plus one.       *)
(***************************************************************************)
EXTENDS Integers, FiniteSets, FiniteSetsExt

CONSTANTS
  Folders,     \* the folders of one account
  Special,     \* those with a button of their own: archive, trash, spam
  MaxMail,     \* bound: messages that ever arrive
  MaxAsks,     \* bound: moves asked for
  MaxFaults    \* bound: restarts, lost connections, commands given up on

ASSUME SpecialAssumption == Special \subseteq Folders
ASSUME BoundsAssumption == {MaxMail, MaxAsks, MaxFaults} \subseteq Nat

VARIABLES
  box,      \* messages on the server: folder, UID, message
  next,     \* next[f]: UIDNEXT
  caps,     \* MOVE and UIDPLUS, as far as the server has them
  mail,     \* messages that arrived so far
  rows,     \* messages rows: id, folder, UID, the message shown, pending_move
  timers,   \* grace timers: the ask, armed or fired, in the map s.pending or not
  moves,    \* moveTo goroutines, and commands whose goroutine has given up
  asks,     \* moves asked for so far
  rest,     \* history: messages whose move was undone in time, with no other under way
  tangled,  \* history: messages whose row was moved while another move of it was under way
  left,     \* history: messages whose row was left pending with nobody to settle it
  faults

serverVars == <<box, next, caps, mail>>
history == <<rest, tangled, left>>
vars == <<serverVars, rows, timers, moves, asks, history, faults>>

Init ==
  /\ box = {} /\ mail = 0
  /\ next \in {n \in [Folders -> {1, 2}] : \E f \in Folders : n[f] = 1}
  /\ caps \in SUBSET {"MOVE", "UIDPLUS"}
  /\ rows = {} /\ timers = {} /\ moves = {} /\ asks = 0
  /\ rest = {} /\ tangled = {} /\ left = {}
  /\ faults = 0

Fault == faults < MaxFaults /\ faults' = faults + 1

In(S, f) == {x \in S : x.folder = f}
Uids(S) == {x.uid : x \in S}
Sharing(r, S) == {x \in S : x.ask.id = r.id}
At(S, f, u) == {x \in S : x.folder = f /\ x.uid = u}

-----------------------------------------------------------------------------
(* The store *)

Row(i) == {r \in rows : r.id = i}

\* Faulty: folder and UID need not be unique.
Refused_never(i, f) == FALSE

\* UPDATE of folder_id: refused when another row has that folder and UID.
Refused(i, f) == \E r \in Row(i) : At(rows, f, r.uid) \ Row(i) # {}

Relocated(i, f, pending) ==
  IF Refused(i, f) THEN rows
  ELSE (rows \ Row(i)) \cup {[r EXCEPT !.folder = f, !.pending = pending] : r \in Row(i)}

SetMessageFolderPending(i, f) == Relocated(i, f, TRUE)

\* Faulty: the marker stays.
SetMessageFolder_marked(i, f) == Relocated(i, f, TRUE)

SetMessageFolder(i, f) == Relocated(i, f, FALSE)

\* Faulty: the UID of the folder the message left.
SetMessageLocation_folder(i, f, u) == SetMessageFolder(i, f)

\* A row the folder's own sync has made for the message goes.
SetMessageLocation(i, f, u) ==
  {r \in rows : r.id # i /\ ~(r.folder = f /\ r.uid = u)}
  \cup {[r EXCEPT !.folder = f, !.uid = u, !.pending = FALSE] : r \in Row(i)}

\* The row goes back to the folder it was asked to leave; an error is ignored.
PutBack(ask) ==
  /\ rows' = SetMessageFolder(ask.id, ask.src)
  /\ left' = IF Refused(ask.id, ask.src) THEN left \cup {ask.m} ELSE left

-----------------------------------------------------------------------------
(* The user *)

\* A message is asked to leave the folder its row says it is in, as the UID the row
\* says it has.  Only folders with a button of their own take one that is there already.
Ask(r, to) == [n |-> asks', id |-> r.id, m |-> r.m, src |-> r.folder, uid |-> r.uid, to |-> to]

Press(r, to) ==
  /\ asks < MaxAsks /\ asks' = asks + 1
  /\ to # r.folder \/ to \in Special
  /\ rows' = SetMessageFolderPending(r.id, to)
  /\ rest' = rest \ {r.m}
  /\ tangled' = IF r.pending \/ Sharing(r, timers) \cup Sharing(r, moves) # {} THEN tangled \cup {r.m} ELSE tangled

\* A timer that is armed and in the map is stopped, and its place taken.
SchedulePendingMove(ask) ==
  {[x EXCEPT !.mapped = @ /\ x.ask.id # ask.id] :
     x \in {y \in timers : ~(y.ask.id = ask.id /\ y.mapped /\ y.armed)}}
  \cup {[ask |-> ask, armed |-> TRUE, mapped |-> TRUE]}

HandleMove == \E r \in rows, to \in Folders :
  /\ Press(r, to)
  /\ timers' = SchedulePendingMove(Ask(r, to))
  /\ UNCHANGED <<serverVars, moves, left, faults>>

\* moveTo: a move to the folder the message is in does nothing.
Start(ask) ==
  IF ask.to = ask.src THEN left' = left \cup {ask.m} /\ UNCHANGED moves
  ELSE /\ moves' = moves \cup {[ask |-> ask, at |-> "queued", heard |-> TRUE, dest |-> 0]}
       /\ UNCHANGED left

\* The JSON API has no grace.
ApiMove == \E r \in rows, to \in Folders :
  /\ Press(r, to)
  /\ Start(Ask(r, to))
  /\ UNCHANGED <<serverVars, timers, faults>>

\* Faulty: the toast is answered, the timer runs on.
CancelPendingMove_unstopped(t) == {[x EXCEPT !.mapped = @ /\ x # t] : x \in timers}

CancelPendingMove(t) == timers \ {t}

\* In time: the timer had not fired.  The toast names the folder the row was in; the
\* toast of an earlier move of the same message, if one is still up, is left alone.
HandleUndoMove == \E t \in timers :
  /\ t.mapped /\ t.armed
  /\ timers' = CancelPendingMove(t)
  /\ PutBack(t.ask)
  /\ rest' = IF \E x \in (timers \ {t}) \cup moves : x.ask.m = t.ask.m THEN rest ELSE rest \cup {t.ask.m}
  /\ UNCHANGED <<serverVars, moves, asks, tangled, faults>>

\* Too late: only the entry goes.
UndoTooLate == \E t \in timers :
  /\ t.mapped /\ ~t.armed
  /\ timers' = (timers \ {t}) \cup {[t EXCEPT !.mapped = FALSE]}
  /\ UNCHANGED <<serverVars, rows, moves, asks, history, faults>>

-----------------------------------------------------------------------------
(* The end of the grace, and the move on the server *)

TimerFires == \E t \in timers :
  /\ t.armed
  /\ timers' = (timers \ {t}) \cup {[t EXCEPT !.armed = FALSE]}
  /\ UNCHANGED <<serverVars, rows, moves, asks, history, faults>>

\* The callback removes whatever entry its message has and starts the move.
TimerRuns == \E t \in timers :
  /\ ~t.armed
  /\ timers' = {[x EXCEPT !.mapped = @ /\ x.ask.id # t.ask.id] : x \in timers \ {t}}
  /\ Start(t.ask)
  /\ UNCHANGED <<serverVars, rows, asks, rest, tangled, faults>>

\* A UID that is not there is no error.
Found(ask) == At(box, ask.src, ask.uid)
Copies(ask) == {[folder |-> ask.to, uid |-> next[ask.to], m |-> x.m] : x \in Found(ask)}
Advanced(ask) == IF Found(ask) = {} THEN next ELSE [next EXCEPT ![ask.to] = @ + 1]
Dest(ask) == IF Found(ask) # {} /\ "UIDPLUS" \in caps THEN next[ask.to] ELSE 0

\* A command nobody waits for is over when the server has done it.
Goes(c, at, dest) == moves' =
  (moves \ {c}) \cup (IF c.heard \/ at # "done" THEN {[c EXCEPT !.at = at, !.dest = dest]} ELSE {})

RunMove == \E c \in moves :
  /\ c.at = "queued" /\ "MOVE" \in caps
  /\ box' = (box \ Found(c.ask)) \cup Copies(c.ask)
  /\ next' = Advanced(c.ask)
  /\ Goes(c, "done", Dest(c.ask))
  /\ UNCHANGED <<caps, mail, rows, timers, asks, history, faults>>

Idle == \A c \in moves : c.at # "copied"

\* Without MOVE: COPY, then \Deleted and EXPUNGE.
RunCopy == \E c \in moves :
  /\ c.at = "queued" /\ "MOVE" \notin caps /\ Idle
  /\ box' = box \cup Copies(c.ask)
  /\ next' = Advanced(c.ask)
  /\ Goes(c, "copied", Dest(c.ask))
  /\ UNCHANGED <<caps, mail, rows, timers, asks, history, faults>>

RunExpunge == \E c \in moves :
  /\ c.at = "copied"
  /\ box' = box \ Found(c.ask)
  /\ Goes(c, "done", c.dest)
  /\ UNCHANGED <<next, caps, mail, rows, timers, asks, history, faults>>

\* The row gets the UID the server named, or goes until the next sync.
SettleMove == \E c \in moves :
  /\ c.at = "done" /\ moves' = moves \ {c}
  /\ rows' = IF c.dest # 0 THEN SetMessageLocation(c.ask.id, c.ask.to, c.dest) ELSE rows \ Row(c.ask.id)
  /\ UNCHANGED <<serverVars, timers, asks, history, faults>>

\* The caller's time is up: it puts the row back, and the command still runs.
GiveUp == \E c \in moves :
  /\ c.at # "done" /\ c.heard /\ Fault
  /\ moves' = (moves \ {c}) \cup {[c EXCEPT !.heard = FALSE]}
  /\ PutBack(c.ask)
  /\ UNCHANGED <<serverVars, timers, asks, rest, tangled>>

\* The connection breaks under a command.
ConnLost == \E c \in moves :
  /\ c.at # "done" /\ Fault
  /\ moves' = moves \ {c}
  /\ IF c.heard THEN PutBack(c.ask) ELSE UNCHANGED <<rows, left>>
  /\ UNCHANGED <<serverVars, timers, asks, rest, tangled>>

Restart ==
  /\ Fault
  /\ timers' = {} /\ moves' = {}
  /\ left' = left \cup {r.m : r \in {x \in rows : x.pending}}
  /\ UNCHANGED <<serverVars, rows, asks, rest, tangled>>

-----------------------------------------------------------------------------
(* The mailbox, and the passes over its folders *)

Arrive(f) ==
  /\ mail < MaxMail /\ mail' = mail + 1
  /\ box' = box \cup {[folder |-> f, uid |-> next[f], m |-> mail']}
  /\ next' = [next EXCEPT ![f] = @ + 1]
  /\ UNCHANGED <<caps, rows, timers, moves, asks, history, faults>>

\* Messages that have no row at their folder and UID get one, in the order of their UIDs.
Upserted(S) == LET new == {c \in S : At(rows, c.folder, c.uid) = {}}
                   top == Max({0} \cup {r.id : r \in rows})
                   rank(c) == Cardinality({x \in new : x.uid <= c.uid}) IN
  rows \cup {[id |-> top + rank(c), folder |-> c.folder, uid |-> c.uid, m |-> c.m, pending |-> FALSE] : c \in new}

\* A new row may get the id of one that is gone and that a timer or a move still has.
Insert(S) ==
  /\ rows' = Upserted(S)
  /\ tangled' = tangled \cup UNION {{r.m} \cup {x.ask.m : x \in Sharing(r, timers) \cup Sharing(r, moves)} :
                   r \in {y \in rows' \ rows : Sharing(y, timers) \cup Sharing(y, moves) # {}}}
  /\ UNCHANGED <<serverVars, timers, moves, asks, rest, left, faults>>

\* Pending rows are counted.
MaxUID(f) == Max({0} \cup Uids(In(rows, f)))

FetchNew(f) ==
  /\ Idle
  /\ Insert({c \in In(box, f) : c.uid > MaxUID(f) \/ \A x \in In(box, f) : x.uid <= c.uid})

FolderUIDs(f) == Uids({r \in In(rows, f) : ~r.pending})

\* Faulty: what is newer than the rows there are.
Missing_newer(f) == {c \in In(box, f) : c.uid > MaxUID(f)}

Missing(f) == {c \in In(box, f) : c.uid \notin FolderUIDs(f)}

Backfill(f) == Idle /\ Insert(Missing(f))

ReconcileExpunged(f) ==
  /\ Idle
  /\ rows' = {r \in rows : ~(r.folder = f /\ r.uid \in FolderUIDs(f) \ Uids(In(box, f)))}
  /\ UNCHANGED <<serverVars, timers, moves, asks, history, faults>>

-----------------------------------------------------------------------------

User == HandleMove \/ ApiMove \/ HandleUndoMove \/ UndoTooLate
Timer == TimerFires \/ TimerRuns
Worker == RunMove \/ RunCopy \/ RunExpunge \/ \E f \in Folders : FetchNew(f) \/ Backfill(f) \/ ReconcileExpunged(f)
Faults == GiveUp \/ ConnLost \/ Restart

Next == User \/ Timer \/ Worker \/ SettleMove \/ Faults \/ \E f \in Folders : Arrive(f)

Spec == Init /\ [][Next]_vars

\* Timers run out, goroutines return and the worker runs, in whatever order.
FairSpec == Spec /\ WF_vars(Timer \/ Worker \/ SettleMove)

-----------------------------------------------------------------------------

TypeOK ==
  /\ \A r, s \in rows : (r.id = s.id \/ (r.folder = s.folder /\ r.uid = s.uid)) => r = s
  /\ \A r \in rows : r.folder \in Folders /\ r.uid \in Nat \ {0} /\ r.m \in 1..mail
  /\ \A x, y \in box : (x.folder = y.folder /\ x.uid = y.uid) => x = y
  /\ \A x \in box : x.folder \in Folders /\ x.uid < next[x.folder] /\ x.m \in 1..mail
  /\ \A s, t \in timers : s.ask.id = t.ask.id /\ s.mapped /\ t.mapped => s = t
  /\ \A c \in moves : c.at \in {"queued", "copied", "done"} /\ c.ask.src # c.ask.to

\* A row that is not mid-move shows the message its UID names, unless two moves of it
\* were under way at once.
RowsAreTheirs == \A r \in rows : ~r.pending =>
  \A x \in At(box, r.folder, r.uid) : x.m = r.m \/ r.m \in tangled

\* Message x leaves its mailbox by command c.
TakenBy(c, x) == c.ask.src = x.folder /\ c.ask.uid = x.uid

\* A message leaves its mailbox only when its own move was asked for.
MovesAreAsked == [][\A x \in box \ box' : \E c \in moves : TakenBy(c, x) /\ c.ask.m = x.m]_vars

\* The same, as long as no row is moved again while a move of it is under way: a UID
\* written down when the button was pressed still names that message when the timer, the
\* queue and the passes are through with it.
OneMoveIsSafe == [][\A x \in box \ box' : \E c \in moves :
  TakenBy(c, x) /\ (c.ask.m = x.m \/ c.ask.m \in tangled)]_vars

\* A message whose move was undone in time stays where it is: no move of its own comes
\* back, and only one of a message whose row was moved again too soon can take it.
Of(S, m) == {x \in S : x.m = m}
UndoIsFinal == [][\A m \in rest :
  \/ Of(box', m) = Of(box, m)
  \/ \E c \in moves : c.ask.m \in tangled \ {m} /\ \E x \in Of(box, m) : TakenBy(c, x)]_vars

\* A row reads pending only while somebody is going to settle it.  Rows are left
\* behind by a restart, by a move to the folder they are in, and by an undo or an error
\* that finds the source's sync has stored the message again.
Owed(r) == Sharing(r, timers) \cup Sharing(r, {c \in moves : c.heard}) # {}
PendingIsOwed == \A r \in rows : r.pending => Owed(r) \/ r.m \in left \cup tangled

\* Once the user and the faults are done, every message has a row at its place, unless a
\* row left behind has that folder and UID, and every other row has its message.
Settled ==
  /\ \A x \in box : \E r \in At(rows, x.folder, x.uid) : r.pending \/ r.m = x.m \/ r.m \in tangled
  /\ \A r \in rows : r.pending \/ At(box, r.folder, r.uid) # {}
Settles == <>[]Settled

=============================================================================
