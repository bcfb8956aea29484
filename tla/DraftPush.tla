----------------------------- MODULE DraftPush -----------------------------
(***************************************************************************)
(* Drafts and the copies of them in the accounts' Drafts mailboxes.         *)
(*                                                                          *)
(* A save writes the drafts row and owes a push; a push appends a whole new *)
(* copy and only then removes the one it replaces.  Pushes run on the       *)
(* account's worker, which also runs what is queued for it in the middle of *)
(* the folder sync every push contains: a push can run inside a push.       *)
(*                                                                          *)
(* A draft's text and its attached files are version numbers.  updated_at   *)
(* has a resolution of one second.  A Message-ID is random: it is named    *)
(* after the draft, the account that minted it and the UID of the copy that  *)
(* will carry it first.  The Drafts mailboxes of all accounts are called     *)
(* the same.  Commands reach a worker from goroutines of their own, in any   *)
(* order.                                                                    *)
(***************************************************************************)
EXTENDS Naturals, Sequences, FiniteSets, FiniteSetsExt

CONSTANTS
  Accounts,
  Drafts,
  Foreign,     \* accounts whose mailbox holds a draft of another client
  MaxSaves,    \* bound: saves
  MaxFaults    \* bound: restarts and lost connections

ASSUME BoundsAssumption == MaxSaves \in Nat /\ MaxFaults \in Nat

None == "none"
NoId == <<None, None, 0>>
Elsewhere == "elsewhere"

ASSUME SetsAssumption ==
  Foreign \subseteq Accounts /\ None \notin Accounts \cup Drafts /\ Elsewhere \notin Drafts

\* A drafts row; "new" has not been saved yet, "gone" was sent or discarded.
NoRow(is) == [is |-> is, account |-> None, body |-> 0, files |-> 0, at |-> 0, dirty |-> FALSE,
              id |-> NoId, folder |-> None, uid |-> 0]

VARIABLES
  row,     \* row[d]: the drafts row
  now,     \* the second
  saves,   \* saves so far
  save,    \* save[d]: the account of the POST /compose/draft that has written row d
  drop,    \* drop[d]: the row dropDraft has read and will delete
  cmds,    \* cmds[a]: commands queued for the worker
  stack,   \* stack[a]: pushes in progress, the innermost first
  box,     \* box[a]: copies in the Drafts mailbox
  next,    \* next[a]: UIDNEXT
  plus,    \* the accounts whose server has UIDPLUS
  seen,    \* seen[a]: messages rows of the Drafts folder, as UID and Message-ID
  marks,   \* history: marks[d]: what happened to d that a property has to know
  faults

rowVars == <<row, now, saves, save, drop, marks>>
serverVars == <<box, next, plus>>
vars == <<rowVars, cmds, stack, serverVars, seen, faults>>

Place(r) == [account |-> r.account, folder |-> r.folder, uid |-> r.uid]
NoDrop == Place(NoRow("new"))

ForeignCopy(a) == [uid |-> 1, id |-> <<Elsewhere, a, 1>>, of |-> Elsewhere, body |-> 0, files |-> 0, deleted |-> FALSE]

Init ==
  /\ row = [d \in Drafts |-> NoRow("new")]
  /\ now = 1 /\ saves = 0
  /\ save = [d \in Drafts |-> None]
  /\ drop = [d \in Drafts |-> NoDrop]
  /\ cmds = [a \in Accounts |-> {}]
  /\ stack = [a \in Accounts |-> <<>>]
  /\ box = [a \in Accounts |-> IF a \in Foreign THEN {ForeignCopy(a)} ELSE {}]
  /\ next = [a \in Accounts |-> IF a \in Foreign THEN 2 ELSE 1]
  /\ plus \in SUBSET Accounts
  /\ seen = [a \in Accounts |-> {[uid |-> c.uid, id |-> c.id] : c \in box[a]}]
  /\ marks = [d \in Drafts |-> {}]
  /\ faults = 0

Fault == faults < MaxFaults /\ faults' = faults + 1
Mark(d, m) == marks' = [marks EXCEPT ![d] = @ \cup m]

-----------------------------------------------------------------------------
(* The compose window: save, then send or discard *)

\* The row after a save from account a; the row of a draft that is gone stays gone.
Upserted(d, a) ==
  IF row[d].is = "gone" THEN row[d]
  ELSE [row[d] EXCEPT !.is = "row", !.account = a, !.body = saves', !.at = now, !.dirty = TRUE]

UpsertDraft(d, a) ==
  /\ save[d] = None /\ saves < MaxSaves /\ saves' = saves + 1
  /\ row' = [row EXCEPT ![d] = Upserted(d, a)]
  /\ save' = [save EXCEPT ![d] = a]
  /\ Mark(d, (IF row[d].is = "row" /\ row[d].at = now THEN {"hurried"} ELSE {})
             \cup (IF row[d].is = "row" /\ row[d].account # a THEN {"moved"} ELSE {}))
  /\ UNCHANGED <<now, drop, cmds, stack, serverVars, seen, faults>>

PushOf(d) == [op |-> "push", d |-> d, n |-> row[d].body, folder |-> None, uid |-> 0]

\* Files picked since the last save join the row, leave updated_at alone, and the
\* push is queued.
KeepAndPublish(d) ==
  /\ save[d] # None
  /\ \/ UNCHANGED row
     \/ row[d].is = "row" /\ row' = [row EXCEPT ![d].files = saves]
  /\ save' = [save EXCEPT ![d] = None]
  /\ cmds' = [cmds EXCEPT ![save[d]] = @ \cup {PushOf(d)}]
  /\ UNCHANGED <<now, saves, drop, marks, stack, serverVars, seen, faults>>

PushingAt(a, d) == \E i \in DOMAIN stack[a] : stack[a][i].d = d
Pushing(d) == \E a \in Accounts : PushingAt(a, d)

\* Pushes in progress on a worker, and queued ones, come to nothing.
Cut(a, lost) == marks' = [d \in Drafts |->
  marks[d] \cup (IF PushingAt(a, d) \/ (\E c \in lost : c.d = d) THEN {"cut"} ELSE {})]

\* dropDraft reads the row ...
DropRead(d) ==
  /\ row[d].is = "row" /\ drop[d] = NoDrop
  /\ drop' = [drop EXCEPT ![d] = Place(row[d])]
  /\ UNCHANGED <<row, now, saves, save, marks, cmds, stack, serverVars, seen, faults>>

\* ... deletes it, and has the copy removed where that row said it is.
DropDelete(d) == LET cur == drop[d] IN
  /\ cur # NoDrop
  /\ drop' = [drop EXCEPT ![d] = NoDrop]
  /\ row' = [row EXCEPT ![d] = NoRow("gone")]
  /\ Mark(d, IF Pushing(d) \/ row[d].uid # cur.uid THEN {"raced"} ELSE {})
  /\ IF cur.uid = 0 THEN UNCHANGED cmds
     ELSE cmds' = [cmds EXCEPT ![cur.account] = @ \cup
            {[op |-> "drop", d |-> d, n |-> 0, folder |-> cur.folder, uid |-> cur.uid]}]
  /\ UNCHANGED <<now, saves, save, stack, serverVars, seen, faults>>

Tick ==
  /\ \E d \in Drafts : row[d].is = "row" /\ row[d].at = now
  /\ now' = now + 1
  /\ UNCHANGED <<row, saves, save, drop, marks, cmds, stack, serverVars, seen, faults>>

-----------------------------------------------------------------------------
(* The worker of account a *)

\* dropRevision on the connection of a: the copies left on the server, and the messages
\* rows left for the folder row it was called with, that of account g.
Without(a, uids) ==
  IF a \in plus THEN {c \in box[a] : c.uid \notin uids}
  ELSE {[c EXCEPT !.deleted = @ \/ c.uid \in uids] : c \in box[a]}

Unlisted(a, g, uids) == IF a \in plus THEN [seen EXCEPT ![g] = {r \in @ : r.uid \notin uids}] ELSE seen

DropRevision(a, g, u) == box' = [box EXCEPT ![a] = Without(a, {u})] /\ seen' = Unlisted(a, g, {u})

\* A push of d that has read the row.  The row is read when the push runs and not when
\* it was queued.
Frame(d) == [d |-> d, at |-> "build", id |-> row[d].id, body |-> row[d].body, files |-> 0,
             saved |-> row[d].at, folder |-> row[d].folder, old |-> row[d].uid, uid |-> 0]

\* Faulty: the copy of the row that came with the queued push is pushed.
Pushes_unread(d) == <<Frame(d)>>

Pushes(d) == IF row[d].is = "row" THEN <<Frame(d)>> ELSE <<>>

\* The worker is free between commands, and inside the sync of the push it runs.
Free(a) == stack[a] # <<>> => Head(stack[a]).at = "yield"

Take(a) == \E c \in cmds[a] :
  /\ Free(a)
  /\ cmds' = [cmds EXCEPT ![a] = @ \ {c}]
  /\ \/ c.op = "push" /\ stack' = [stack EXCEPT ![a] = Pushes(c.d) \o @]
        /\ Mark(c.d, IF PushingAt(a, c.d) THEN {"nested"} ELSE {})
        /\ UNCHANGED <<box, seen>>
     \/ c.op = "drop" /\ DropRevision(a, c.folder, c.uid) /\ UNCHANGED <<stack, marks>>
  /\ UNCHANGED <<row, now, saves, save, drop, next, plus, faults>>

\* A sync cycle pushes what is owed.
\* Faulty: only what was never published.
DirtyDrafts_new(a) == {d \in Drafts : row[d].is = "row" /\ row[d].dirty /\ row[d].account = a /\ row[d].uid = 0}

DirtyDrafts(a) == {d \in Drafts : row[d].is = "row" /\ row[d].dirty /\ row[d].account = a}

PushDirtyDrafts(a) == \E d \in DirtyDrafts(a) :
  /\ stack[a] = <<>>
  /\ stack' = [stack EXCEPT ![a] = Pushes(d)]
  /\ UNCHANGED <<rowVars, cmds, serverVars, seen, faults>>

At(a, pc) == stack[a] # <<>> /\ Head(stack[a]).at = pc
Top(a) == Head(stack[a])
Goto(a, frame) == stack' = [stack EXCEPT ![a][1] = frame]

\* Faulty: the identity is left to be stamped with the location, after the append.
SetDraftMessageID_later(d, id) == UNCHANGED row

SetDraftMessageID(d, id) == row' = [row EXCEPT ![d].id = IF row[d].is = "row" THEN id ELSE @]

\* The files are read with a statement of their own; then the identity is stamped.
BuildDraft(a) == LET f == Top(a)
                     id == IF f.id = NoId THEN <<f.d, a, next[a]>> ELSE f.id IN
  /\ At(a, "build")
  /\ Goto(a, [f EXCEPT !.at = "append", !.files = row[f.d].files, !.id = id])
  /\ IF f.id = NoId THEN SetDraftMessageID(f.d, id) ELSE UNCHANGED row
  /\ UNCHANGED <<now, saves, save, drop, marks, cmds, serverVars, seen, faults>>

AppendCopy(a) == LET f == Top(a) IN
  /\ At(a, "append")
  /\ box' = [box EXCEPT ![a] = @ \cup {[uid |-> next[a], id |-> f.id, of |-> f.d, body |-> f.body,
                                        files |-> f.files, deleted |-> FALSE]}]
  /\ next' = [next EXCEPT ![a] = @ + 1]
  /\ Goto(a, [f EXCEPT !.at = "drop", !.body = 0, !.files = 0, !.uid = IF a \in plus THEN next[a] ELSE 0])
  /\ UNCHANGED <<rowVars, cmds, plus, seen, faults>>

\* The copy the row knew of goes; the sync stores what is above the highest UID it
\* knows, then yields.
DropOld(a) == LET f == Top(a)
                  left == IF f.old = 0 THEN box[a] ELSE Without(a, {f.old})
                  known == IF f.old = 0 THEN seen ELSE Unlisted(a, f.folder, {f.old})
                  top == Max({0} \cup {r.uid : r \in known[a]}) IN
  /\ At(a, "drop")
  /\ Goto(a, [f EXCEPT !.at = "yield", !.folder = None, !.old = 0])
  /\ box' = [box EXCEPT ![a] = left]
  /\ seen' = [known EXCEPT ![a] = @ \cup {[uid |-> c.uid, id |-> c.id] : c \in {x \in left : x.uid > top}}]
  /\ UNCHANGED <<rowVars, cmds, next, plus, faults>>

Named(a, id) == {r.uid : r \in {x \in seen[a] : x.id = id}}

\* Faulty: also when the only row of that Message-ID is another copy than the one kept.
Siblings_one(a, id, uid) == Named(a, id) \ {uid}

Siblings(a, id, uid) == IF Cardinality(Named(a, id)) < 2 THEN {} ELSE Named(a, id) \ {uid}

\* The UID of the new copy is found out and the other copies of the same Message-ID are
\* removed, lowest UID first.  A sweep cut short by a broken connection gives up quietly:
\* its own push goes on, those around it fail.
Sweep(a) == LET f == Top(a)
                uid == IF f.uid # 0 THEN f.uid ELSE Max({0} \cup Named(a, f.id))
                siblings == Siblings(a, f.id, uid)
                frame == [f EXCEPT !.at = "clear", !.uid = uid] IN
  /\ At(a, "yield")
  /\ \E end \in 1..next[a] : LET gone == {u \in siblings : u < end} IN
       /\ box' = [box EXCEPT ![a] = Without(a, gone)]
       /\ seen' = Unlisted(a, a, gone)
       /\ \/ gone = siblings /\ Goto(a, frame) /\ UNCHANGED <<marks, faults>>
          \/ gone # siblings /\ Fault /\ stack' = [stack EXCEPT ![a] = <<frame>>] /\ Cut(a, {})
  /\ UNCHANGED <<row, now, saves, save, drop, cmds, next, plus>>

\* Faulty: clean whatever was saved meanwhile.
ClearDraftDirty_always(d, f, a) ==
  [row[d] EXCEPT !.id = f.id, !.folder = a, !.uid = f.uid, !.dirty = FALSE]

ClearDraftDirty(d, f, a) ==
  [row[d] EXCEPT !.id = f.id, !.folder = a, !.uid = f.uid, !.dirty = row[d].at # f.saved]

Clear(a) == LET f == Top(a) IN
  /\ At(a, "clear")
  /\ row' = [row EXCEPT ![f.d] = IF @.is = "row" THEN ClearDraftDirty(f.d, f, a) ELSE @]
  /\ stack' = [stack EXCEPT ![a] = Tail(@)]
  /\ UNCHANGED <<now, saves, save, drop, marks, cmds, serverVars, seen, faults>>

\* The connection breaks: every push that still needs it fails, and so do commands taken
\* from the queue meanwhile.
ConnLost(a) == \E lost \in SUBSET cmds[a] : LET kept == IF At(a, "clear") THEN 1 ELSE 0 IN
  /\ Len(stack[a]) > kept /\ Fault
  /\ cmds' = [cmds EXCEPT ![a] = @ \ lost]
  /\ stack' = [stack EXCEPT ![a] = SubSeq(@, 1, kept)]
  /\ Cut(a, lost)
  /\ UNCHANGED <<row, now, saves, save, drop, serverVars, seen>>

\* The server refuses the copy: its push fails, those around it go on.
AppendRefused(a) ==
  /\ At(a, "append") /\ Fault
  /\ stack' = [stack EXCEPT ![a] = Tail(@)]
  /\ Mark(Top(a).d, {"cut"})
  /\ UNCHANGED <<row, now, saves, save, drop, cmds, serverVars, seen>>

\* The server refuses to remove the old copy, which is left to the sweep.
DropRefused(a) ==
  /\ At(a, "drop") /\ Top(a).old # 0 /\ Fault
  /\ Goto(a, [Top(a) EXCEPT !.folder = None, !.old = 0])
  /\ UNCHANGED <<rowVars, cmds, serverVars, seen>>

Refused(a) == AppendRefused(a) \/ DropRefused(a)

Restart ==
  /\ Fault
  /\ save' = [d \in Drafts |-> None]
  /\ drop' = [d \in Drafts |-> NoDrop]
  /\ cmds' = [a \in Accounts |-> {}]
  /\ stack' = [a \in Accounts |-> <<>>]
  /\ marks' = [d \in Drafts |-> marks[d] \cup {"cut"}]
  /\ UNCHANGED <<row, now, saves, serverVars, seen>>

-----------------------------------------------------------------------------

Push(a) == BuildDraft(a) \/ AppendCopy(a) \/ DropOld(a) \/ Sweep(a) \/ Clear(a)

Worker(a) == Take(a) \/ PushDirtyDrafts(a) \/ Push(a)

Compose == \E d \in Drafts :
  \/ \E a \in Accounts : UpsertDraft(d, a)
  \/ KeepAndPublish(d) \/ DropRead(d) \/ DropDelete(d)

Next ==
  \/ Compose \/ Tick \/ Restart
  \/ \E a \in Accounts : Worker(a) \/ ConnLost(a) \/ Refused(a)

Spec == Init /\ [][Next]_vars

\* The workers run; a connection that broke is made again.
FairSpec == Spec /\ \A a \in Accounts : WF_vars(Worker(a))

-----------------------------------------------------------------------------

Row == [is : {"new", "row", "gone"}, account : Accounts \cup {None}, body : 0..MaxSaves,
        files : 0..MaxSaves, at : 0..(MaxSaves + 1), dirty : BOOLEAN, id : {NoId} \cup (Drafts \X Accounts \X Nat),
        folder : Accounts \cup {None}, uid : Nat]

TypeOK ==
  /\ row \in [Drafts -> Row] /\ now \in Nat /\ saves \in 0..MaxSaves
  /\ save \in [Drafts -> Accounts \cup {None}]
  /\ \A d \in Drafts : row[d].uid # 0 => row[d].folder \in Accounts
  /\ \A d \in Drafts : drop[d].account \in Accounts \/ drop[d] = NoDrop
  /\ \A a \in Accounts :
       /\ cmds[a] \subseteq [op : {"push", "drop"}, d : Drafts, n : 0..MaxSaves,
                             folder : Accounts \cup {None}, uid : Nat]
       /\ \A c \in box[a] : c.uid \in 1..(next[a] - 1) /\ c.of \in Drafts \cup {Elsewhere}
       /\ \A r \in seen[a] : r.uid \in 1..(next[a] - 1)

Live(a, d) == {c \in box[a] : c.of = d /\ ~c.deleted}
Moved(d) == "moved" \in marks[d]

\* No draft has changed accounts. The pushes and drops of one that did remove what has
\* its copy's UID in the other account (OthersAreSafe).
Stayed == \A d \in Drafts : ~Moved(d)

\* Nothing is on its way that would push d.
Quiet(d) ==
  /\ save[d] = None /\ ~Pushing(d)
  /\ \A a \in Accounts : \A c \in cmds[a] : c.d # d

\* A row that says it is published is: a copy in the mailbox it names holds the row's
\* text, and its files too unless a restart or a broken connection cut a push short.
\* Left out are drafts saved twice within a second.
CleanIsPublished == Stayed => \A d \in Drafts :
  (row[d].is = "row" /\ ~row[d].dirty /\ Quiet(d) /\ marks[d] \subseteq {"cut", "nested"}) =>
    \E c \in Live(row[d].folder, d) :
      c.body = row[d].body /\ ("cut" \in marks[d] \/ c.files = row[d].files)

\* Append, then delete: at every moment, a draft that was published once has a copy
\* in the mailbox, whichever push, sweep or lost connection it is in the middle of.
NeverAHole == Stayed =>
  \A d \in Drafts : (row[d].is = "row" /\ row[d].uid # 0) => Live(row[d].folder, d) # {}

\* Every copy of a draft that was ever appended carries the Message-ID in the row, so
\* that the next push can sweep whatever an interrupted one left.
OneName == \A d \in Drafts : (row[d].is = "row" /\ ~Moved(d)) =>
  \A c \in Live(row[d].account, d) : c.id = row[d].id

\* A draft dropped while no push of it runs leaves no copy behind, if no push of it ever
\* ran inside another.
DroppedIsGone == \A d \in Drafts :
  (row[d].is = "gone" /\ Quiet(d) /\ marks[d] = {} /\ faults = 0) =>
    \A a \in Accounts : Live(a, d) = {}

\* Once saving is over, no draft is left owing a push: every save reaches the server,
\* the ones whose queued push was lost too.
DirtyIsPushed == <>[](\A d \in Drafts : row[d].is = "row" => ~row[d].dirty)

\* Dropping a draft clears the copy it published, so that other clients lose it too.
\* The code breaks this one (README, Divergences kept as definitions).
DroppedEverywhere == \A d \in Drafts :
  (row[d].is = "gone" /\ Quiet(d)) => \A a \in Accounts : Live(a, d) = {}

\* A push removes nothing but copies of its own draft.
OthersAreSafe == \A a \in Foreign : Live(a, Elsewhere) # {}

=============================================================================
