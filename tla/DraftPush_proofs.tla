-------------------------- MODULE DraftPush_proofs --------------------------
(***************************************************************************)
(* Theorems about DraftPush, for any accounts and drafts and any number of  *)
(* saves, pushes inside pushes, restarts and lost connections.              *)
(***************************************************************************)
EXTENDS DraftPush, TLAPS, FiniteSetTheorems, WellFoundedInduction

LEMMA Least == ASSUME NEW S \in SUBSET Nat, S # {}
               PROVE  \E x \in S : \A y \in S : x <= y
<1>1. PICK x \in S : \A y \in S : ~(<<y, x>> \in OpToRel(<, Nat))
  BY NatLessThanWellFounded, WFMin
<1>2. \A y \in S : ~(y < x)
  BY <1>1 DEF OpToRel
<1> QED
  BY <1>2

LEMMA Largest == ASSUME NEW S \in SUBSET Nat, S # {}, NEW n \in Nat, \A y \in S : y <= n
                 PROVE  Max(S) \in S /\ \A y \in S : y <= Max(S)
<1> DEFINE away == {n - y : y \in S}
<1>1. away \in SUBSET Nat /\ away # {}
  <2>1. \A y \in S : n - y \in Nat
    OBVIOUS
  <2>2. PICK y \in S : TRUE
    OBVIOUS
  <2> QED
    BY <2>1, <2>2
<1>2. PICK z \in away : \A y \in away : z <= y
  BY <1>1, Least
<1>3. \E x \in S : \A y \in S : x >= y
  <2>1. PICK x \in S : z = n - x
    OBVIOUS
  <2>2. ASSUME NEW y \in S PROVE x >= y
    <3>1. n - y \in away
      OBVIOUS
    <3>2. n - x <= n - y
      BY <1>2, <2>1, <3>1
    <3> QED
      BY <3>2
  <2> QED
    BY <2>2
<1>4. Max(S) \in S /\ \A y \in S : Max(S) >= y
  BY <1>3 DEF Max
<1> QED
  BY <1>4

-----------------------------------------------------------------------------
(* Types *)

Ids == {NoId} \cup (Drafts \X Accounts \X Nat) \cup ({Elsewhere} \X Accounts \X Nat)
Somewhere == Accounts \cup {None}
RowT == [is : {"new", "row", "gone"}, account : Somewhere, body : Nat, files : Nat, at : Nat,
         dirty : BOOLEAN, id : Ids, folder : Somewhere, uid : Nat]
PlaceT == [account : Somewhere, folder : Somewhere, uid : Nat]
CmdT == [op : {"push", "drop"}, d : Drafts, n : Nat, folder : Somewhere, uid : Nat]
FrameT == [d : Drafts, at : {"build", "append", "drop", "yield", "clear"}, id : Ids, body : Nat,
           files : Nat, saved : Nat, folder : Somewhere, old : Nat, uid : Nat]
CopyT == [uid : Nat, id : Ids, of : Drafts \cup {Elsewhere}, body : Nat, files : Nat, deleted : BOOLEAN]
SeenT == [uid : Nat, id : Ids]

RowsType ==
  /\ row \in [Drafts -> RowT] /\ now \in Nat /\ saves \in Nat
  /\ save \in [Drafts -> Somewhere] /\ drop \in [Drafts -> PlaceT]
CmdsType == cmds \in [Accounts -> SUBSET CmdT]
StackType == stack \in [Accounts -> Seq(FrameT)]
ServerType ==
  /\ box \in [Accounts -> SUBSET CopyT] /\ next \in [Accounts -> Nat \ {0}]
  /\ plus \subseteq Accounts
SeenType == seen \in [Accounts -> SUBSET SeenT]
Types == RowsType /\ CmdsType /\ StackType /\ ServerType /\ SeenType

\* UIDs are below UIDNEXT and one for each copy; what the sync keeps of one is its UID
\* and Message-ID.
Numbered == \A a \in Accounts :
  /\ \A c \in box[a] : c.uid # 0 /\ c.uid < next[a]
  /\ \A c, x \in box[a] : c.uid = x.uid => c = x
  /\ \A r \in seen[a] : r.uid # 0 /\ r.uid < next[a]
  /\ \A c \in box[a], r \in seen[a] : c.uid = r.uid => c.id = r.id

LEMMA TypesInit == Init => Types
<1> SUFFICES ASSUME Init PROVE Types
  OBVIOUS
<1>1. NoRow("new") \in RowT /\ NoDrop \in PlaceT
  BY DEF NoRow, RowT, NoDrop, Place, PlaceT, Ids, Somewhere
<1>2. \A a \in Accounts : ForeignCopy(a) \in CopyT
  BY DEF ForeignCopy, CopyT, Ids
<1>3. RowsType
  BY <1>1 DEF Init, RowsType, Somewhere
<1>4. CmdsType /\ StackType
  BY DEF Init, CmdsType, StackType
<1>5. ServerType
  BY <1>2 DEF Init, ServerType
<1>6. SeenType
  <2>1. \A a \in Accounts : {[uid |-> c.uid, id |-> c.id] : c \in box[a]} \in SUBSET SeenT
    BY <1>5 DEF ServerType, CopyT, SeenT
  <2> QED
    BY <2>1 DEF Init, SeenType
<1> QED
  BY <1>3, <1>4, <1>5, <1>6 DEF Types

\* Removing a UID.
LEMMA WithoutType == ASSUME ServerType, NEW a \in Accounts, NEW U
                     PROVE  Without(a, U) \in SUBSET CopyT
<1>1. ASSUME NEW c \in box[a] PROVE [c EXCEPT !.deleted = @ \/ c.uid \in U] \in CopyT
  <2>1. c \in CopyT
    BY DEF ServerType
  <2>2. (c.deleted \/ c.uid \in U) \in BOOLEAN
    OBVIOUS
  <2> QED
    BY <2>1, <2>2 DEF CopyT
<1> QED
  BY <1>1 DEF Without, ServerType

LEMMA UnlistedType == ASSUME SeenType, NEW a, NEW g, NEW U
                      PROVE  Unlisted(a, g, U) \in [Accounts -> SUBSET SeenT]
  BY DEF Unlisted, SeenType

\* The stack after a push begins, ends, or moves on.
LEMMA Pushed == ASSUME NEW T, NEW s \in Seq(T), NEW f \in T
                PROVE  /\ <<f>> \o s \in Seq(T) /\ Len(<<f>> \o s) = Len(s) + 1
                       /\ (<<f>> \o s)[1] = f
                       /\ \A i \in 1..Len(s) : (<<f>> \o s)[i + 1] = s[i]
  OBVIOUS

LEMMA Popped == ASSUME NEW T, NEW s \in Seq(T), s # <<>>
                PROVE  /\ Tail(s) \in Seq(T) /\ Len(Tail(s)) = Len(s) - 1
                       /\ \A i \in 1..(Len(s) - 1) : Tail(s)[i] = s[i + 1]
  OBVIOUS

LEMMA MovedOn == ASSUME NEW T, NEW s \in Seq(T), s # <<>>, NEW f \in T
                 PROVE  LET t == [s EXCEPT ![1] = f]
                        IN  /\ t \in Seq(T) /\ Len(t) = Len(s) /\ t[1] = f
                            /\ \A i \in 2..Len(s) : t[i] = s[i]
  OBVIOUS

LEMMA CutShort == ASSUME NEW T, NEW s \in Seq(T), NEW k \in {0, 1}, k <= Len(s)
                  PROVE  /\ SubSeq(s, 1, k) \in Seq(T) /\ Len(SubSeq(s, 1, k)) = k
                         /\ k = 1 => SubSeq(s, 1, k)[1] = s[1]
  OBVIOUS

LEMMA TopType == ASSUME StackType, NEW a \in Accounts, stack[a] # <<>>
                 PROVE  Top(a) \in FrameT /\ Top(a) = stack[a][1] /\ Len(stack[a]) \in Nat \ {0}
  BY DEF StackType, Top

LEMMA FrameType == ASSUME RowsType, NEW d \in Drafts PROVE Frame(d) \in FrameT
<1>1. row[d] \in RowT
  BY DEF RowsType
<1> QED
  BY <1>1 DEF Frame, RowT, FrameT

-----------------------------------------------------------------------------
(* Types: the steps *)

LEMMA ComposeTypes == ASSUME Types, Compose \/ Tick \/ Restart PROVE Types'
<1>1. RowsType /\ CmdsType /\ StackType /\ ServerType /\ SeenType
  BY DEF Types
<1>2. ASSUME NEW d \in Drafts, NEW a \in Accounts, UpsertDraft(d, a) PROVE Types'
  <2>1. row[d] \in RowT /\ saves' \in Nat /\ now \in Nat
    BY <1>1, <1>2 DEF RowsType, UpsertDraft
  <2>2. Upserted(d, a) \in RowT
    BY <2>1 DEF Upserted, RowT, Somewhere
  <2>3. RowsType'
    BY <1>1, <1>2, <2>1, <2>2 DEF RowsType, UpsertDraft, Somewhere
  <2> QED
    BY <1>1, <1>2, <2>3 DEF UpsertDraft, serverVars, Types, CmdsType, StackType, ServerType, SeenType
<1>3. ASSUME NEW d \in Drafts, KeepAndPublish(d) PROVE Types'
  <2>1. row[d] \in RowT /\ saves \in Nat /\ save[d] \in Somewhere
    BY <1>1 DEF RowsType
  <2>2. [row[d] EXCEPT !.files = saves] \in RowT
    BY <2>1 DEF RowT
  <2>3. row' \in [Drafts -> RowT]
    BY <1>1, <1>3, <2>2 DEF RowsType, KeepAndPublish
  <2>4. PushOf(d) \in CmdT
    BY <2>1 DEF PushOf, CmdT, RowT, Somewhere
  <2>5. RowsType' /\ CmdsType'
    BY <1>1, <1>3, <2>3, <2>4 DEF RowsType, CmdsType, KeepAndPublish, Somewhere
  <2> QED
    BY <1>1, <1>3, <2>5 DEF KeepAndPublish, serverVars, Types, StackType, ServerType, SeenType
<1>4. ASSUME NEW d \in Drafts, DropRead(d) PROVE Types'
  <2>1. Place(row[d]) \in PlaceT
    BY <1>1 DEF RowsType, RowT, Place, PlaceT
  <2>2. RowsType'
    BY <1>1, <1>4, <2>1 DEF RowsType, DropRead
  <2> QED
    BY <1>1, <1>4, <2>2 DEF DropRead, serverVars, Types, CmdsType, StackType, ServerType, SeenType
<1>5. ASSUME NEW d \in Drafts, DropDelete(d) PROVE Types'
  <2>1. NoRow("gone") \in RowT /\ NoDrop \in PlaceT
    BY DEF NoRow, RowT, NoDrop, Place, PlaceT, Ids, Somewhere
  <2>2. RowsType'
    BY <1>1, <1>5, <2>1 DEF RowsType, DropDelete
  <2>3. drop[d] \in PlaceT
    BY <1>1 DEF RowsType
  <2>4. [op |-> "drop", d |-> d, n |-> 0, folder |-> drop[d].folder, uid |-> drop[d].uid] \in CmdT
    BY <2>3 DEF PlaceT, CmdT
  <2>5. CmdsType'
    BY <1>1, <1>5, <2>4 DEF CmdsType, DropDelete
  <2> QED
    BY <1>1, <1>5, <2>2, <2>5 DEF DropDelete, serverVars, Types, StackType, ServerType, SeenType
<1>6. CASE Tick
  BY <1>1, <1>6 DEF Tick, serverVars, Types, RowsType, CmdsType, StackType, ServerType, SeenType
<1>7. CASE Restart
  <2>1. NoDrop \in PlaceT
    BY DEF NoRow, NoDrop, Place, PlaceT, Somewhere
  <2> QED
    BY <1>1, <1>7, <2>1 DEF Restart, serverVars, Types, RowsType, CmdsType, StackType, ServerType,
       SeenType, Somewhere
<1> QED
  BY <1>2, <1>3, <1>4, <1>5, <1>6, <1>7 DEF Compose

\* A refusal changes pushes and marks, nothing else.
LEMMA RefusedKeeps ==
  ASSUME NEW a \in Accounts, Refused(a)
  PROVE  UNCHANGED <<row, now, saves, save, drop, cmds, box, next, plus, seen>>
  BY DEF Refused, AppendRefused, DropRefused, rowVars, serverVars

LEMMA WorkerTypes ==
  ASSUME Types, Numbered, NEW a \in Accounts, Worker(a) \/ ConnLost(a) \/ Refused(a) PROVE Types'
<1>1. RowsType /\ CmdsType /\ StackType /\ ServerType /\ SeenType
  BY DEF Types
<1>2. stack[a] \in Seq(FrameT)
  BY <1>1 DEF StackType
<1>3. ASSUME NEW d \in Drafts PROVE Pushes(d) \o stack[a] \in Seq(FrameT)
  <2>1. Frame(d) \in FrameT
    BY <1>1, FrameType
  <2> QED
    BY <1>2, <2>1 DEF Pushes
<1>4. CASE Take(a)
  <2>1. PICK c \in cmds[a] :
          /\ cmds' = [cmds EXCEPT ![a] = @ \ {c}]
          /\ \/ stack' = [stack EXCEPT ![a] = Pushes(c.d) \o @] /\ UNCHANGED <<box, seen>>
             \/ DropRevision(a, c.folder, c.uid) /\ UNCHANGED stack
          /\ UNCHANGED <<row, now, saves, save, drop, next, plus>>
    BY <1>4 DEF Take
  <2>2. c.d \in Drafts
    BY <1>1 DEF CmdsType, CmdT
  <2>3. RowsType' /\ CmdsType'
    BY <1>1, <2>1 DEF RowsType, CmdsType
  <2>4. CASE stack' = [stack EXCEPT ![a] = Pushes(c.d) \o @] /\ UNCHANGED <<box, seen>>
    <3>1. StackType'
      BY <1>1, <1>3, <2>2, <2>4 DEF StackType
    <3> QED
      BY <1>1, <2>1, <2>3, <2>4, <3>1 DEF Types, ServerType, SeenType
  <2>5. CASE DropRevision(a, c.folder, c.uid) /\ UNCHANGED stack
    <3>1. ServerType'
      BY <1>1, <2>1, <2>5, WithoutType DEF ServerType, DropRevision
    <3>2. SeenType'
      BY <1>1, <2>5, UnlistedType DEF SeenType, DropRevision
    <3> QED
      BY <1>1, <2>3, <2>5, <3>1, <3>2 DEF Types, StackType
  <2> QED
    BY <2>1, <2>4, <2>5
<1>5. CASE PushDirtyDrafts(a)
  <2>1. PICK d \in DirtyDrafts(a) : stack' = [stack EXCEPT ![a] = Pushes(d)] /\ stack[a] = <<>>
    BY <1>5 DEF PushDirtyDrafts
  <2>2. Pushes(d) \in Seq(FrameT)
    BY <1>1, FrameType DEF DirtyDrafts, Pushes
  <2>3. StackType'
    BY <1>1, <2>1, <2>2 DEF StackType
  <2> QED
    BY <1>1, <1>5, <2>3 DEF PushDirtyDrafts, rowVars, serverVars, Types, RowsType, CmdsType,
       ServerType, SeenType
<1>6. ASSUME NEW f \in FrameT, stack[a] # <<>>, Goto(a, f) PROVE StackType'
  <2>1. [stack[a] EXCEPT ![1] = f] \in Seq(FrameT)
    BY <1>2, <1>6, MovedOn
  <2>2. stack' = [stack EXCEPT ![a] = [stack[a] EXCEPT ![1] = f]]
    BY <1>1, <1>6 DEF Goto, StackType
  <2> QED
    BY <1>1, <2>1, <2>2 DEF StackType
<1>7. CASE BuildDraft(a)
  <2> DEFINE f == Top(a)
             id == IF f.id = NoId THEN <<f.d, a, next[a]>> ELSE f.id
             frame == [f EXCEPT !.at = "append", !.files = row[f.d].files, !.id = id]
  <2>1. f \in FrameT /\ stack[a] # <<>>
    BY <1>1, <1>7, TopType DEF BuildDraft, At
  <2>2. row[f.d] \in RowT /\ id \in Ids
    BY <1>1, <2>1 DEF RowsType, FrameT, Ids, ServerType
  <2>3. /\ Goto(a, frame)
        /\ SetDraftMessageID(f.d, id) \/ UNCHANGED row
        /\ UNCHANGED <<now, saves, save, drop, cmds, serverVars, seen>>
    BY <1>7 DEF BuildDraft
  <2>4. frame \in FrameT
    BY <2>1, <2>2 DEF FrameT, RowT
  <2>5. StackType'
    BY <1>6, <2>1, <2>3, <2>4
  <2>6. CASE SetDraftMessageID(f.d, id)
    <3> DEFINE new == IF row[f.d].is = "row" THEN id ELSE row[f.d].id
    <3>1. [row[f.d] EXCEPT !.id = new] \in RowT
      BY <2>2 DEF RowT
    <3>2. row' = [row EXCEPT ![f.d] = [row[f.d] EXCEPT !.id = new]]
      BY <1>1, <2>1, <2>6 DEF SetDraftMessageID, RowsType, FrameT, RowT
    <3>3. RowsType'
      BY <1>1, <2>3, <3>1, <3>2 DEF RowsType
    <3> QED
      BY <1>1, <2>3, <2>5, <3>3 DEF serverVars, Types, CmdsType, ServerType, SeenType
  <2>7. CASE UNCHANGED row
    BY <1>1, <2>3, <2>5, <2>7 DEF serverVars, Types, RowsType, CmdsType, ServerType, SeenType
  <2> QED
    BY <2>3, <2>6, <2>7
<1>8. CASE AppendCopy(a)
  <2> DEFINE f == Top(a)
             new == [uid |-> next[a], id |-> f.id, of |-> f.d, body |-> f.body,
                     files |-> f.files, deleted |-> FALSE]
             frame == [f EXCEPT !.at = "drop", !.body = 0, !.files = 0,
                                !.uid = IF a \in plus THEN next[a] ELSE 0]
  <2>1. f \in FrameT /\ stack[a] # <<>>
    BY <1>1, <1>8, TopType DEF AppendCopy, At
  <2>2. /\ Goto(a, frame) /\ box' = [box EXCEPT ![a] = @ \cup {new}]
        /\ next' = [next EXCEPT ![a] = @ + 1]
        /\ UNCHANGED <<rowVars, cmds, plus, seen>>
    BY <1>8 DEF AppendCopy
  <2>3. next[a] \in Nat \ {0}
    BY <1>1 DEF ServerType
  <2>4. frame \in FrameT /\ new \in CopyT
    BY <2>1, <2>3 DEF FrameT, CopyT
  <2>5. StackType'
    BY <1>6, <2>1, <2>2, <2>4
  <2> HIDE DEF new
  <2>6. ServerType'
    <3>1. box' \in [Accounts -> SUBSET CopyT]
      BY <1>1, <2>2, <2>4 DEF ServerType
    <3>2. next' \in [Accounts -> Nat \ {0}]
      BY <1>1, <2>2, <2>3 DEF ServerType
    <3> QED
      BY <1>1, <2>2, <3>1, <3>2 DEF ServerType
  <2> QED
    BY <1>1, <2>2, <2>5, <2>6 DEF rowVars, Types, RowsType, CmdsType, SeenType
<1>9. CASE DropOld(a)
  <2> DEFINE f == Top(a)
             left == IF f.old = 0 THEN box[a] ELSE Without(a, {f.old})
             known == IF f.old = 0 THEN seen ELSE Unlisted(a, f.folder, {f.old})
             top == Max({0} \cup {r.uid : r \in known[a]})
             frame == [f EXCEPT !.at = "yield", !.folder = None, !.old = 0]
             fetched == {[uid |-> c.uid, id |-> c.id] : c \in {x \in left : x.uid > top}}
  <2>1. f \in FrameT /\ stack[a] # <<>>
    BY <1>1, <1>9, TopType DEF DropOld, At
  <2>2. /\ Goto(a, frame) /\ box' = [box EXCEPT ![a] = left]
        /\ seen' = [known EXCEPT ![a] = @ \cup fetched]
        /\ UNCHANGED <<rowVars, cmds, next, plus>>
    BY <1>9, Zenon DEF DropOld
  <2>3. frame \in FrameT
    BY <2>1 DEF FrameT, Somewhere
  <2>4. left \in SUBSET CopyT
    BY <1>1, WithoutType DEF ServerType
  <2>5. known \in [Accounts -> SUBSET SeenT]
    BY <1>1, UnlistedType DEF SeenType
  <2> HIDE DEF left, known, top
  <2>6. fetched \in SUBSET SeenT
    BY <2>4 DEF CopyT, SeenT
  <2> HIDE DEF fetched, frame
  <2>7. StackType' /\ ServerType' /\ SeenType'
    BY <1>1, <1>6, <2>1, <2>2, <2>3, <2>4, <2>5, <2>6 DEF ServerType, SeenType
  <2> QED
    BY <1>1, <2>2, <2>7 DEF rowVars, Types, RowsType, CmdsType
<1>10. CASE Sweep(a)
  <2> DEFINE f == Top(a)
             uid == IF f.uid # 0 THEN f.uid ELSE Max({0} \cup Named(a, f.id))
             siblings == Siblings(a, f.id, uid)
             frame == [f EXCEPT !.at = "clear", !.uid = uid]
  <2>1. f \in FrameT /\ stack[a] # <<>>
    BY <1>1, <1>10, TopType DEF Sweep, At
  <2>2. PICK gone \in SUBSET siblings :
          /\ box' = [box EXCEPT ![a] = Without(a, gone)]
          /\ seen' = Unlisted(a, a, gone)
          /\ Goto(a, frame) \/ stack' = [stack EXCEPT ![a] = <<frame>>]
          /\ UNCHANGED <<row, now, saves, save, drop, cmds, next, plus>>
    <3> HIDE DEF uid, siblings, frame
    <3>1. PICK end \in 1..next[a] : LET gone == {u \in siblings : u < end} IN
            /\ box' = [box EXCEPT ![a] = Without(a, gone)]
            /\ seen' = Unlisted(a, a, gone)
            /\ Goto(a, frame) \/ stack' = [stack EXCEPT ![a] = <<frame>>]
      BY <1>10, Zenon DEF Sweep, uid, siblings, frame
    <3> QED
      BY <1>10, <3>1 DEF Sweep
  <2> HIDE DEF siblings
  <2>3. uid \in Nat
    <3>1. f.uid \in Nat /\ \A r \in seen[a] : r.uid \in Nat
      BY <1>1, <2>1 DEF FrameT, SeenType, SeenT
    <3>2. Named(a, f.id) \in SUBSET Nat
      BY <3>1 DEF Named
    <3>3. \A n \in {0} \cup Named(a, f.id) : n <= next[a]
      BY <1>1 DEF Numbered, Named, ServerType
    <3>4. Max({0} \cup Named(a, f.id)) \in Nat
      <4> DEFINE S == {0} \cup Named(a, f.id)
      <4>1. S \in SUBSET Nat /\ S # {} /\ next[a] \in Nat /\ \A n \in S : n <= next[a]
        BY <1>1, <3>2, <3>3 DEF ServerType
      <4> HIDE DEF S
      <4>2. Max(S) \in Nat
        BY <4>1, Largest
      <4> QED
        BY <4>2 DEF S
    <3> QED
      BY <3>1, <3>4
  <2> HIDE DEF uid
  <2>4. frame \in FrameT
    BY <2>1, <2>3 DEF FrameT
  <2> HIDE DEF frame
  <2>5. StackType'
    <3>1. <<frame>> \in Seq(FrameT)
      BY <2>4
    <3> QED
      BY <1>1, <1>6, <2>1, <2>2, <2>4, <3>1 DEF StackType
  <2>6. ServerType' /\ SeenType'
    BY <1>1, <2>2, WithoutType, UnlistedType DEF ServerType, SeenType
  <2> QED
    BY <1>1, <2>2, <2>5, <2>6 DEF Types, RowsType, CmdsType
<1>11. CASE Clear(a)
  <2> DEFINE f == Top(a)
             new == IF row[f.d].is = "row" THEN ClearDraftDirty(f.d, f, a) ELSE row[f.d]
  <2>1. f \in FrameT /\ stack[a] # <<>>
    BY <1>1, <1>11, TopType DEF Clear, At
  <2>2. new \in RowT
    <3>1. row[f.d] \in RowT /\ a \in Somewhere /\ f.id \in Ids /\ f.uid \in Nat
      BY <1>1, <2>1 DEF RowsType, FrameT, Somewhere
    <3>2. (row[f.d].at # f.saved) \in BOOLEAN
      OBVIOUS
    <3> QED
      BY <3>1, <3>2 DEF RowT, ClearDraftDirty
  <2>3. row' = [row EXCEPT ![f.d] = new] /\ stack' = [stack EXCEPT ![a] = Tail(@)]
        /\ UNCHANGED <<now, saves, save, drop, cmds, serverVars, seen>>
    BY <1>11 DEF Clear
  <2> HIDE DEF new
  <2>4. RowsType' /\ StackType'
    BY <1>1, <1>2, <2>1, <2>2, <2>3, Popped DEF RowsType, StackType
  <2> QED
    BY <1>1, <2>3, <2>4 DEF serverVars, Types, CmdsType, ServerType, SeenType
<1>12. CASE ConnLost(a)
  <2>1. PICK k \in {0, 1}, lost \in SUBSET cmds[a] :
          /\ k < Len(stack[a])
          /\ cmds' = [cmds EXCEPT ![a] = @ \ lost]
          /\ stack' = [stack EXCEPT ![a] = SubSeq(@, 1, k)]
          /\ UNCHANGED <<row, now, saves, save, drop, serverVars, seen>>
    BY <1>2, <1>12 DEF ConnLost
  <2>2. StackType'
    BY <1>1, <1>2, <2>1, CutShort DEF StackType
  <2>3. CmdsType'
    BY <1>1, <2>1 DEF CmdsType
  <2> QED
    BY <1>1, <2>1, <2>2, <2>3 DEF serverVars, Types, RowsType, ServerType, SeenType
<1>13. CASE Refused(a)
  <2>1. CASE AppendRefused(a)
    <3>1. stack[a] # <<>> /\ stack' = [stack EXCEPT ![a] = Tail(@)]
      BY <2>1 DEF AppendRefused, At
    <3>2. StackType'
      BY <1>1, <1>2, <3>1, Popped DEF StackType
    <3> QED
      BY <1>1, <1>13, <3>2, RefusedKeeps DEF Types, RowsType, CmdsType, ServerType, SeenType
  <2>2. CASE DropRefused(a)
    <3> DEFINE frame == [Top(a) EXCEPT !.folder = None, !.old = 0]
    <3>1. Top(a) \in FrameT /\ stack[a] # <<>> /\ Goto(a, frame)
      BY <1>1, <2>2, TopType DEF DropRefused, At
    <3>2. frame \in FrameT
      BY <3>1 DEF FrameT, Somewhere
    <3> HIDE DEF frame
    <3>3. StackType'
      BY <1>6, <3>1, <3>2
    <3> QED
      BY <1>1, <1>13, <3>3, RefusedKeeps DEF Types, RowsType, CmdsType, ServerType, SeenType
  <2> QED
    BY <1>13, <2>1, <2>2 DEF Refused
<1> QED
  BY <1>4, <1>5, <1>7, <1>8, <1>9, <1>10, <1>11, <1>12, <1>13 DEF Worker, Push

-----------------------------------------------------------------------------
(* UIDs *)

\* What is left of a copy when the UIDs of U are removed from the server of a.
Marked(c, U) == [c EXCEPT !.deleted = @ \/ c.uid \in U]
Remains(a, w, c, U) ==
  /\ w.uid = c.uid /\ w.of = c.of /\ w.id = c.id
  /\ a \in plus => w = c /\ c.uid \notin U
  /\ a \notin plus => w = Marked(c, U)
  /\ ~w.deleted => ~c.deleted /\ c.uid \notin U

LEMMA WithoutFacts ==
  ASSUME ServerType, NEW a \in Accounts, NEW U
  PROVE  /\ \A w \in Without(a, U) : \E c \in box[a] : Remains(a, w, c, U)
         /\ \A c \in box[a] : c.uid \notin U => c \in Without(a, U)
<1>1. ASSUME NEW c \in box[a]
      PROVE  /\ c \in CopyT
             /\ Marked(c, U).uid = c.uid /\ Marked(c, U).of = c.of /\ Marked(c, U).id = c.id
             /\ Marked(c, U).deleted <=> (c.deleted \/ c.uid \in U)
             /\ c.uid \notin U => Marked(c, U) = c
  <2>1. c \in CopyT
    BY DEF ServerType
  <2>2. (c.deleted \/ c.uid \in U) \in BOOLEAN
    OBVIOUS
  <2>3. c.uid \notin U => (c.deleted \/ c.uid \in U) = c.deleted
    BY <2>1 DEF CopyT
  <2> QED
    BY <2>1, <2>2, <2>3 DEF Marked, CopyT
<1>2. CASE a \in plus
  BY <1>2 DEF Without, Remains
<1>3. CASE a \notin plus
  <2>1. Without(a, U) = {Marked(c, U) : c \in box[a]}
    BY <1>3 DEF Without, Marked
  <2> QED
    BY <1>1, <1>3, <2>1 DEF Remains
<1> QED
  BY <1>2, <1>3

LEMMA UnlistedFacts ==
  ASSUME SeenType, NEW a, NEW g, NEW U, NEW b \in Accounts
  PROVE  /\ Unlisted(a, g, U)[b] \subseteq seen[b]
         /\ \A r \in seen[b] : r.uid \notin U \/ b # g \/ a \notin plus => r \in Unlisted(a, g, U)[b]
         /\ a \in plus /\ b = g => \A r \in Unlisted(a, g, U)[b] : r.uid \notin U
  BY DEF Unlisted, SeenType

\* Fewer copies, and fewer of them listed.
LEMMA Trimmed ==
  ASSUME Types, Numbered, NEW a \in Accounts, NEW U, box' = [box EXCEPT ![a] = Without(a, U)],
         \A b \in Accounts : seen'[b] \subseteq seen[b], next' = next
  PROVE  Numbered'
<1>1. ServerType
  BY DEF Types
<1>2. ASSUME NEW b \in Accounts, NEW w \in box'[b]
      PROVE  \E c \in box[b] : w.uid = c.uid /\ w.id = c.id
  BY <1>1, <1>2, WithoutFacts DEF ServerType, Remains
<1>3. ASSUME NEW b \in Accounts, NEW w \in box'[b], NEW x \in box'[b], w.uid = x.uid PROVE w = x
  <2>1. CASE b = a
    <3>1. PICK c \in box[a] : Remains(a, w, c, U)
      BY <1>1, <1>3, <2>1, WithoutFacts DEF ServerType
    <3>2. PICK y \in box[a] : Remains(a, x, y, U)
      BY <1>1, <1>3, <2>1, WithoutFacts DEF ServerType
    <3>3. c = y
      BY <1>3, <3>1, <3>2 DEF Numbered, Remains
    <3> QED
      BY <3>1, <3>2, <3>3 DEF Remains
  <2>2. CASE b # a
    BY <1>1, <1>3, <2>2 DEF Numbered, ServerType
  <2> QED
    BY <2>1, <2>2
<1> QED
  BY <1>2, <1>3 DEF Numbered

LEMMA NumberedInit == Init => Numbered
<1> SUFFICES ASSUME Init, NEW a \in Accounts
             PROVE  /\ \A c \in box[a] : c.uid # 0 /\ c.uid < next[a]
                    /\ \A c, x \in box[a] : c.uid = x.uid => c = x
                    /\ \A r \in seen[a] : r.uid # 0 /\ r.uid < next[a]
                    /\ \A c \in box[a], r \in seen[a] : c.uid = r.uid => c.id = r.id
  BY DEF Numbered
<1>1. ForeignCopy(a).uid = 1 /\ ForeignCopy(a).id = <<Elsewhere, a, 1>>
  BY DEF ForeignCopy
<1>2. \A c \in box[a] : c = ForeignCopy(a) /\ next[a] = 2
  BY DEF Init
<1>3. \A r \in seen[a] : \E c \in box[a] : r.uid = c.uid /\ r.id = c.id
  BY DEF Init
<1> QED
  BY <1>1, <1>2, <1>3

LEMMA NumberedStep == ASSUME Types, Numbered, [Next]_vars PROVE Numbered'
<1>1. CASE UNCHANGED <<box, next, seen>>
  BY <1>1 DEF Numbered
<1>2. ASSUME NEW a \in Accounts, Take(a) PROVE Numbered'
  <2>1. PICK c \in cmds[a] : UNCHANGED <<box, seen>> \/ DropRevision(a, c.folder, c.uid)
    BY <1>2 DEF Take
  <2>2. CASE DropRevision(a, c.folder, c.uid)
    <3>1. \A b \in Accounts : seen'[b] \subseteq seen[b]
      BY <2>2, UnlistedFacts DEF Types, DropRevision
    <3> QED
      BY <1>2, <2>2, <3>1, Trimmed DEF DropRevision, Take
  <2> QED
    BY <1>1, <1>2, <2>1, <2>2 DEF Take
<1>3. ASSUME NEW a \in Accounts, AppendCopy(a) PROVE Numbered'
  <2> DEFINE f == Top(a)
             new == [uid |-> next[a], id |-> f.id, of |-> f.d, body |-> f.body,
                     files |-> f.files, deleted |-> FALSE]
  <2>1. /\ box' = [box EXCEPT ![a] = @ \cup {new}] /\ new.uid = next[a]
        /\ next' = [next EXCEPT ![a] = @ + 1] /\ seen' = seen
    BY <1>3 DEF AppendCopy
  <2> HIDE DEF new
  <2>2. next[a] \in Nat \ {0} /\ ServerType /\ SeenType
    BY DEF Types, ServerType
  <2>3. \A b \in Accounts : /\ \A c \in box[b] : c.uid \in Nat
                            /\ \A r \in seen[b] : r.uid \in Nat
    BY <2>2 DEF ServerType, SeenType, CopyT, SeenT
  <2>4. ASSUME NEW b \in Accounts
        PROVE  /\ \A c \in box'[b] : c.uid # 0 /\ c.uid < next'[b]
               /\ \A c, x \in box'[b] : c.uid = x.uid => c = x
               /\ \A r \in seen'[b] : r.uid # 0 /\ r.uid < next'[b]
               /\ \A c \in box'[b], r \in seen'[b] : c.uid = r.uid => c.id = r.id
    <3>1. CASE b = a
      <4>1. box'[b] = box[b] \cup {new} /\ next'[b] = next[b] + 1 /\ new.uid = next[b]
        BY <2>1, <2>2, <3>1 DEF ServerType
      <4> QED
        BY <2>1, <2>2, <2>3, <3>1, <4>1 DEF Numbered
    <3>2. CASE b # a
      BY <2>1, <2>2, <3>2 DEF Numbered, ServerType
    <3> QED
      BY <3>1, <3>2
  <2> QED
    BY <2>4 DEF Numbered
<1>4. ASSUME NEW a \in Accounts, DropOld(a) PROVE Numbered'
  <2> DEFINE f == Top(a)
             left == IF f.old = 0 THEN box[a] ELSE Without(a, {f.old})
             known == IF f.old = 0 THEN seen ELSE Unlisted(a, f.folder, {f.old})
             top == Max({0} \cup {r.uid : r \in known[a]})
             fetched == {[uid |-> c.uid, id |-> c.id] : c \in {x \in left : x.uid > top}}
  <2>1. /\ box' = [box EXCEPT ![a] = left] /\ seen' = [known EXCEPT ![a] = @ \cup fetched]
        /\ next' = next
    BY <1>4, Zenon DEF DropOld
  <2>2. ServerType /\ SeenType
    BY DEF Types
  <2>3. /\ \A c, x \in left : c.uid = x.uid => c = x
        /\ \A w \in left : \E c \in box[a] : w.uid = c.uid /\ w.id = c.id
    <3>1. CASE f.old = 0
      BY <3>1 DEF Numbered
    <3>2. CASE f.old # 0
      <4>1. \A w \in left : \E c \in box[a] : Remains(a, w, c, {f.old})
        BY <2>2, <3>2, WithoutFacts
      <4> HIDE DEF left
      <4> QED
        BY <4>1 DEF Numbered, Remains
    <3> QED
      BY <3>1, <3>2
  <2>4. known \in [Accounts -> SUBSET SeenT] /\ \A b \in Accounts : known[b] \subseteq seen[b]
    BY <2>2, UnlistedFacts, UnlistedType DEF SeenType
  <2> HIDE DEF left, known, top
  <2>5. \A r \in fetched : \E c \in left : r.uid = c.uid /\ r.id = c.id
    OBVIOUS
  <2> HIDE DEF fetched
  <2>6. ASSUME NEW b \in Accounts
        PROVE  /\ \A c \in box'[b] : c.uid # 0 /\ c.uid < next'[b]
               /\ \A c, x \in box'[b] : c.uid = x.uid => c = x
               /\ \A r \in seen'[b] : r.uid # 0 /\ r.uid < next'[b]
               /\ \A c \in box'[b], r \in seen'[b] : c.uid = r.uid => c.id = r.id
    <3>1. CASE b = a
      <4>1. box'[b] = left /\ next'[b] = next[b] /\ seen'[b] = known[b] \cup fetched
        BY <2>1, <2>2, <2>4, <3>1 DEF ServerType
      <4>2. \A w \in left : \E c \in box[b] : w.uid = c.uid /\ w.id = c.id
        BY <2>3, <3>1
      <4>3. /\ \A c \in left : c.uid # 0 /\ c.uid < next[b]
            /\ \A r \in known[b] : r.uid # 0 /\ r.uid < next[b]
            /\ \A c \in left, r \in known[b] : c.uid = r.uid => c.id = r.id
        BY <2>4, <4>2 DEF Numbered
      <4>4. \A c \in left, r \in fetched : c.uid = r.uid => c.id = r.id
        BY <2>3, <2>5
      <4>5. \A r \in fetched : r.uid # 0 /\ r.uid < next[b]
        BY <2>5, <4>3
      <4> QED
        BY <2>3, <4>1, <4>3, <4>4, <4>5
    <3>2. CASE b # a
      <4>1. box'[b] = box[b] /\ next'[b] = next[b] /\ seen'[b] \subseteq seen[b]
        BY <2>1, <2>2, <2>4, <3>2 DEF ServerType
      <4> QED
        BY <4>1 DEF Numbered
    <3> QED
      BY <3>1, <3>2
  <2> QED
    BY <2>6 DEF Numbered
<1>5. ASSUME NEW a \in Accounts, Sweep(a) PROVE Numbered'
  <2>1. PICK gone : box' = [box EXCEPT ![a] = Without(a, gone)] /\ seen' = Unlisted(a, a, gone)
                    /\ next' = next
    BY <1>5 DEF Sweep
  <2>2. \A b \in Accounts : seen'[b] \subseteq seen[b]
    BY <2>1, UnlistedFacts DEF Types
  <2> QED
    BY <2>1, <2>2, Trimmed
<1>6. ASSUME NEW d \in Drafts,
             (\E a \in Accounts : UpsertDraft(d, a)) \/ KeepAndPublish(d) \/ DropRead(d) \/ DropDelete(d)
      PROVE  UNCHANGED <<box, next, seen>>
  BY <1>6 DEF UpsertDraft, KeepAndPublish, DropRead, DropDelete, serverVars
<1>7. ASSUME NEW a \in Accounts,
             PushDirtyDrafts(a) \/ BuildDraft(a) \/ Clear(a) \/ ConnLost(a)
      PROVE  UNCHANGED <<box, next, seen>>
  BY <1>7 DEF PushDirtyDrafts, BuildDraft, Clear, ConnLost, serverVars
<1>8. Tick \/ Restart \/ UNCHANGED vars => UNCHANGED <<box, next, seen>>
  BY DEF Tick, Restart, vars, serverVars
<1>9. ASSUME NEW a \in Accounts, Refused(a) PROVE UNCHANGED <<box, next, seen>>
  BY <1>9, RefusedKeeps
<1> QED
  BY <1>1, <1>2, <1>3, <1>4, <1>5, <1>6, <1>7, <1>8, <1>9 DEF Next, Compose, Worker, Push

-----------------------------------------------------------------------------
(* Marks are never taken back *)

MarkT == {"hurried", "moved", "nested", "cut", "raced"}
MarksType == marks \in [Drafts -> SUBSET MarkT]

LEMMA MarksInit == Init => MarksType
  BY DEF Init, MarksType

LEMMA Marked1 == ASSUME MarksType, NEW d \in Drafts, NEW m \in SUBSET MarkT, Mark(d, m)
                 PROVE  MarksType' /\ \A e \in Drafts : marks[e] \subseteq marks'[e]
  BY DEF MarksType, Mark

LEMMA MarksStep == ASSUME Types, MarksType, [Next]_vars
                   PROVE  MarksType' /\ \A d \in Drafts : marks[d] \subseteq marks'[d]
<1> DEFINE Goal == MarksType' /\ \A d \in Drafts : marks[d] \subseteq marks'[d]
<1>1. ASSUME UNCHANGED marks PROVE Goal
  BY <1>1 DEF MarksType
<1>2. ASSUME NEW d \in Drafts, NEW a \in Accounts, UpsertDraft(d, a) PROVE Goal
  <2> DEFINE m == (IF row[d].is = "row" /\ row[d].at = now THEN {"hurried"} ELSE {})
                  \cup (IF row[d].is = "row" /\ row[d].account # a THEN {"moved"} ELSE {})
  <2>1. m \in SUBSET MarkT /\ Mark(d, m)
    BY <1>2 DEF UpsertDraft, MarkT
  <2> HIDE DEF m
  <2> QED
    BY <2>1, Marked1
<1>3. ASSUME NEW d \in Drafts, DropDelete(d) PROVE Goal
  <2>1. PICK m \in SUBSET MarkT : Mark(d, m)
    BY <1>3 DEF DropDelete, MarkT
  <2> QED
    BY <2>1, Marked1
<1>4. ASSUME NEW a \in Accounts, Take(a) PROVE Goal
  <2>1. PICK c \in cmds[a] : UNCHANGED marks \/ \E m \in SUBSET MarkT : Mark(c.d, m)
    BY <1>4 DEF Take, MarkT
  <2>2. c.d \in Drafts
    BY DEF Types, CmdsType, CmdT
  <2> QED
    BY <1>1, <2>1, <2>2, Marked1
<1>5. ASSUME NEW a \in Accounts, NEW lost, Cut(a, lost) PROVE Goal
  BY <1>5 DEF Cut, MarksType, MarkT
<1>6. ASSUME Restart PROVE Goal
  BY <1>6 DEF Restart, MarksType, MarkT
<1>7. ASSUME NEW a \in Accounts, Sweep(a) PROVE Goal
  BY <1>1, <1>5, <1>7 DEF Sweep
<1>8. ASSUME NEW a \in Accounts, ConnLost(a) PROVE Goal
  BY <1>5, <1>8 DEF ConnLost
<1>9. ASSUME NEW d \in Drafts, KeepAndPublish(d) \/ DropRead(d) PROVE UNCHANGED marks
  BY <1>9 DEF KeepAndPublish, DropRead
<1>10. ASSUME NEW a \in Accounts,
              PushDirtyDrafts(a) \/ BuildDraft(a) \/ AppendCopy(a) \/ DropOld(a) \/ Clear(a)
       PROVE  UNCHANGED marks
  BY <1>10 DEF PushDirtyDrafts, BuildDraft, AppendCopy, DropOld, Clear, rowVars
<1>11. Tick \/ UNCHANGED vars => UNCHANGED marks
  BY DEF Tick, vars, rowVars
<1>13. ASSUME NEW a \in Accounts, Refused(a) PROVE Goal
  <2>1. CASE AppendRefused(a)
    <3>1. Top(a).d \in Drafts /\ Mark(Top(a).d, {"cut"}) /\ {"cut"} \in SUBSET MarkT
      BY <2>1, TopType DEF AppendRefused, At, Types, FrameT, MarkT
    <3> QED
      BY <3>1, Marked1
  <2>2. CASE DropRefused(a)
    BY <1>1, <2>2 DEF DropRefused, rowVars
  <2> QED
    BY <1>13, <2>1, <2>2 DEF Refused
<1> HIDE DEF Goal
<1>12. Goal
  BY <1>1, <1>2, <1>3, <1>4, <1>6, <1>7, <1>8, <1>9, <1>10, <1>11, <1>13 DEF Next, Compose, Worker, Push
<1> QED
  BY <1>12 DEF Goal

-----------------------------------------------------------------------------
(* The pushes on a worker *)

\* Under the top push, pushes wait where they yielded.
Stacked == \A a \in Accounts : \A i \in 2..Len(stack[a]) : stack[a][i].at = "yield"

\* What a step does to the stack of a: a push begins, the top one moves on or ends, or all
\* but the top one, or all, are lost.
Begins(a) == \E f \in FrameT :
  /\ stack' = [stack EXCEPT ![a] = <<f>> \o stack[a]]
  /\ Free(a) /\ row[f.d].is = "row" /\ f = Frame(f.d)
Moves(a) == \E f \in FrameT :
  /\ stack[a] # <<>> /\ f.d = Top(a).d
  /\ stack' = [stack EXCEPT ![a] = [stack[a] EXCEPT ![1] = f]]
Ends(a) == stack[a] # <<>> /\ stack' = [stack EXCEPT ![a] = Tail(stack[a])]
Leaves(a) == \E f \in FrameT :
  /\ stack[a] # <<>> /\ f.d = Top(a).d
  /\ stack' = [stack EXCEPT ![a] = <<f>>]
Lost(a) == stack' = [stack EXCEPT ![a] = <<>>]

LEMMA Same == ASSUME NEW S, NEW T, NEW f \in [S -> T], NEW a PROVE [f EXCEPT ![a] = f[a]] = f
  OBVIOUS

LEMMA TakeStack ==
  ASSUME Types, NEW a \in Accounts, NEW d \in Drafts, Free(a),
         stack' = [stack EXCEPT ![a] = Pushes(d) \o @]
  PROVE  UNCHANGED stack \/ Begins(a)
<1>1. stack[a] \in Seq(FrameT) /\ Frame(d) \in FrameT
  BY FrameType DEF Types, StackType
<1>2. CASE row[d].is = "row"
  <2>1. Frame(d).d = d
    BY DEF Frame
  <2>2. stack' = [stack EXCEPT ![a] = <<Frame(d)>> \o stack[a]]
    BY <1>2 DEF Pushes
  <2> QED
    BY <1>1, <1>2, <2>1, <2>2 DEF Begins
<1>3. CASE row[d].is # "row"
  <2>1. Pushes(d) \o stack[a] = stack[a]
    BY <1>1, <1>3 DEF Pushes
  <2>2. stack' = [stack EXCEPT ![a] = stack[a]]
    BY <2>1
  <2>3. stack \in [Accounts -> Seq(FrameT)]
    BY DEF Types, StackType
  <2>4. [stack EXCEPT ![a] = stack[a]] = stack
    BY <2>3, Same
  <2> QED
    BY <2>2, <2>4
<1> QED
  BY <1>2, <1>3

LEMMA StepOfPush ==
  ASSUME Types, Numbered, NEW a \in Accounts, Push(a) PROVE Moves(a) \/ Ends(a) \/ Leaves(a)
<1>3. ASSUME NEW f, stack[a] # <<>>, f.d = Top(a).d, Goto(a, f), StackType',
             DOMAIN f = DOMAIN Top(a)
      PROVE  Moves(a)
  <2>1. stack' = [stack EXCEPT ![a] = [stack[a] EXCEPT ![1] = f]]
    BY <1>3 DEF Goto, Types, StackType
  <2>2. stack'[a] = [stack[a] EXCEPT ![1] = f] /\ stack[a] \in Seq(FrameT) /\ stack'[a] \in Seq(FrameT)
    BY <1>3, <2>1 DEF Types, StackType
  <2>3. stack'[a][1] = f /\ 1 \in 1..Len(stack'[a])
    BY <1>3, <2>2
  <2>4. f \in FrameT
    BY <2>2, <2>3
  <2> QED
    BY <1>3, <2>1, <2>4 DEF Moves
<1>4. ASSUME Push(a) PROVE StackType' /\ Types'
  BY <1>4, WorkerTypes DEF Worker, Types
<1>5. ASSUME BuildDraft(a) \/ AppendCopy(a) \/ DropOld(a) PROVE Moves(a)
  <2>1. stack[a] # <<>> /\ Top(a) \in FrameT /\ StackType'
    BY <1>4, <1>5, TopType DEF BuildDraft, AppendCopy, DropOld, At, Types, Push
  <2>2. CASE BuildDraft(a)
    <3> DEFINE f == Top(a)
               id == IF f.id = NoId THEN <<f.d, a, next[a]>> ELSE f.id
               frame == [f EXCEPT !.at = "append", !.files = row[f.d].files, !.id = id]
    <3>1. Goto(a, frame)
      BY <2>2 DEF BuildDraft
    <3>2. frame.d = f.d /\ DOMAIN frame = DOMAIN f
      BY <2>1 DEF FrameT
    <3> QED
      BY <1>3, <2>1, <3>1, <3>2
  <2>3. CASE AppendCopy(a)
    <3> DEFINE f == Top(a)
               frame == [f EXCEPT !.at = "drop", !.body = 0, !.files = 0,
                                  !.uid = IF a \in plus THEN next[a] ELSE 0]
    <3>1. Goto(a, frame)
      BY <2>3 DEF AppendCopy
    <3>2. frame.d = f.d /\ DOMAIN frame = DOMAIN f
      BY <2>1 DEF FrameT
    <3> QED
      BY <1>3, <2>1, <3>1, <3>2
  <2>4. CASE DropOld(a)
    <3> DEFINE f == Top(a)
               frame == [f EXCEPT !.at = "yield", !.folder = None, !.old = 0]
    <3>1. Goto(a, frame)
      BY <2>4, Zenon DEF DropOld
    <3>2. frame.d = f.d /\ DOMAIN frame = DOMAIN f
      BY <2>1 DEF FrameT
    <3> QED
      BY <1>3, <2>1, <3>1, <3>2
  <2> QED
    BY <1>5, <2>2, <2>3, <2>4
<1>6. ASSUME Sweep(a) PROVE Moves(a) \/ Leaves(a)
  <2> DEFINE f == Top(a)
             uid == IF f.uid # 0 THEN f.uid ELSE Max({0} \cup Named(a, f.id))
             frame == [f EXCEPT !.at = "clear", !.uid = uid]
  <2>1. stack[a] # <<>> /\ f \in FrameT /\ StackType'
    BY <1>4, <1>6, TopType DEF Sweep, At, Types, Push
  <2>2. Goto(a, frame) \/ stack' = [stack EXCEPT ![a] = <<frame>>]
    BY <1>6 DEF Sweep
  <2> HIDE DEF uid
  <2>3. frame.d = f.d /\ DOMAIN frame = DOMAIN f
    BY <2>1 DEF FrameT
  <2> HIDE DEF frame
  <2>4. CASE stack' = [stack EXCEPT ![a] = <<frame>>]
    <3>1. stack'[a] = <<frame>> /\ stack'[a] \in Seq(FrameT)
      BY <2>1, <2>4 DEF Types, StackType
    <3>2. stack'[a][1] = frame /\ 1 \in 1..Len(stack'[a])
      BY <3>1
    <3>3. frame \in FrameT
      BY <3>1, <3>2
    <3> QED
      BY <2>1, <2>3, <2>4, <3>3 DEF Leaves
  <2> QED
    BY <1>3, <2>1, <2>2, <2>3, <2>4
<1>7. ASSUME Clear(a) PROVE Ends(a)
  BY <1>7 DEF Clear, At, Ends
<1> QED
  BY <1>5, <1>6, <1>7 DEF Push

\* A lost connection leaves a push whose row is all that is left to write.
Survives(a) == At(a, "clear") /\ stack' = [stack EXCEPT ![a] = <<Top(a)>>]

LEMMA StepOfConnLost ==
  ASSUME Types, NEW a \in Accounts, ConnLost(a)
  PROVE  (Lost(a) \/ Leaves(a)) /\ (Lost(a) \/ Survives(a))
<1>1. PICK k \in {0, 1} : k < Len(stack[a]) /\ stack' = [stack EXCEPT ![a] = SubSeq(@, 1, k)]
                          /\ (k = 1 => At(a, "clear"))
  <2>1. PICK k : /\ k = IF At(a, "clear") THEN 1 ELSE 0
                 /\ Len(stack[a]) > k /\ stack' = [stack EXCEPT ![a] = SubSeq(@, 1, k)]
    BY DEF ConnLost
  <2>2. Len(stack[a]) \in Nat
    BY DEF Types, StackType
  <2>3. k \in {0, 1} /\ (k = 1 => At(a, "clear"))
    BY <2>1
  <2> QED
    BY <2>1, <2>2, <2>3
<1>2. stack[a] \in Seq(FrameT)
  BY DEF Types, StackType
<1>3. CASE k = 0
  <2>1. SubSeq(stack[a], 1, k) = <<>>
    BY <1>2, <1>3
  <2> QED
    BY <1>1, <2>1 DEF Lost
<1>4. CASE k = 1
  <2> DEFINE t == SubSeq(stack[a], 1, k)
  <2>0. t \in Seq(FrameT) /\ Len(t) = 1 /\ t[1] = stack[a][1] /\ stack[a] # <<>>
    BY <1>1, <1>2, <1>4, CutShort
  <2>1. t = <<stack[a][1]>> /\ stack[a] # <<>>
    <3> HIDE DEF t
    <3> QED
      BY <2>0
  <2>2. stack[a][1] = Top(a) /\ Top(a) \in FrameT
    BY <2>1, TopType DEF Types
  <2> QED
    BY <1>1, <1>4, <2>1, <2>2 DEF Leaves, Survives
<1> QED
  BY <1>3, <1>4

\* What is left of a push whose old copy the server would not remove.
LeftAlone(f) == [f EXCEPT !.folder = None, !.old = 0]

LEMMA StepOfRefused ==
  ASSUME Types, NEW a \in Accounts, Refused(a)
  PROVE  /\ stack[a] # <<>> /\ Top(a) \in FrameT /\ Top(a) = stack[a][1]
         /\ \/ AppendRefused(a) /\ Top(a).at = "append" /\ Ends(a)
            \/ /\ DropRefused(a) /\ Top(a).at = "drop" /\ LeftAlone(Top(a)) \in FrameT /\ Moves(a)
               /\ Goto(a, LeftAlone(Top(a)))
               /\ stack' = [stack EXCEPT ![a] = [stack[a] EXCEPT ![1] = LeftAlone(Top(a))]]
<1>1. stack[a] # <<>> /\ Top(a) \in FrameT /\ Top(a) = stack[a][1]
  BY TopType DEF Refused, AppendRefused, DropRefused, At, Types
<1>2. CASE AppendRefused(a)
  BY <1>1, <1>2 DEF AppendRefused, At, Ends, Top
<1>3. CASE DropRefused(a)
  <2>1. LeftAlone(Top(a)) \in FrameT /\ LeftAlone(Top(a)).d = Top(a).d
    BY <1>1 DEF LeftAlone, FrameT, Somewhere
  <2>2. stack' = [stack EXCEPT ![a] = [stack[a] EXCEPT ![1] = LeftAlone(Top(a))]]
    BY <1>3 DEF DropRefused, Goto, LeftAlone, Types, StackType
  <2>3. Top(a).at = "drop" /\ Goto(a, LeftAlone(Top(a)))
    BY <1>3 DEF DropRefused, At, Top, LeftAlone
  <2> QED
    BY <1>1, <1>3, <2>1, <2>2, <2>3 DEF Moves
<1> QED
  BY <1>1, <1>2, <1>3 DEF Refused

LEMMA StackStep ==
  ASSUME Types, Numbered, [Next]_vars
  PROVE  \/ UNCHANGED stack \/ stack' = [a \in Accounts |-> <<>>]
         \/ \E a \in Accounts : Begins(a) \/ Moves(a) \/ Ends(a) \/ Leaves(a) \/ Lost(a)
<1>1. ASSUME NEW a \in Accounts, Take(a) PROVE UNCHANGED stack \/ Begins(a)
  <2>1. PICK c \in cmds[a] : stack' = [stack EXCEPT ![a] = Pushes(c.d) \o @] \/ UNCHANGED stack
    BY <1>1 DEF Take
  <2>2. c.d \in Drafts /\ Free(a)
    BY <1>1 DEF Types, CmdsType, CmdT, Take
  <2> QED
    BY <2>1, <2>2, TakeStack
<1>2. ASSUME NEW a \in Accounts, PushDirtyDrafts(a) PROVE UNCHANGED stack \/ Begins(a)
  <2>1. PICK d \in Drafts : stack' = [stack EXCEPT ![a] = Pushes(d)] /\ stack[a] = <<>>
    BY <1>2 DEF PushDirtyDrafts, DirtyDrafts
  <2>2. Pushes(d) \in Seq(FrameT)
    BY FrameType DEF Types, Pushes
  <2>3. Pushes(d) \o stack[a] = Pushes(d)
    BY <2>1, <2>2
  <2> QED
    BY <2>1, <2>3, TakeStack DEF Free
<1>3. ASSUME NEW a \in Accounts, Push(a) PROVE Moves(a) \/ Ends(a) \/ Leaves(a)
  BY <1>3, StepOfPush
<1>4. ASSUME NEW a \in Accounts, ConnLost(a) PROVE Lost(a) \/ Leaves(a)
  BY <1>4, StepOfConnLost
<1>5. ASSUME NEW d \in Drafts,
             (\E a \in Accounts : UpsertDraft(d, a)) \/ KeepAndPublish(d) \/ DropRead(d) \/ DropDelete(d)
      PROVE  UNCHANGED stack
  BY <1>5 DEF UpsertDraft, KeepAndPublish, DropRead, DropDelete
<1>6. Tick \/ UNCHANGED vars => UNCHANGED stack
  BY DEF Tick, vars
<1>7. Restart => stack' = [a \in Accounts |-> <<>>]
  BY DEF Restart
<1>8. ASSUME NEW a \in Accounts, Refused(a) PROVE Ends(a) \/ Moves(a)
  BY <1>8, StepOfRefused
<1> QED
  BY <1>1, <1>2, <1>3, <1>4, <1>5, <1>6, <1>7, <1>8 DEF Next, Compose, Worker

LEMMA StackedStep == ASSUME Types, Numbered, Stacked, [Next]_vars PROVE Stacked'
<1>1. \A a \in Accounts : stack[a] \in Seq(FrameT)
  BY DEF Types, StackType
<1>2. CASE UNCHANGED stack
  BY <1>2 DEF Stacked
<1>3. CASE stack' = [a \in Accounts |-> <<>>]
  BY <1>3 DEF Stacked
<1>4. ASSUME NEW a \in Accounts, NEW s \in Seq(FrameT), stack' = [stack EXCEPT ![a] = s],
             \A i \in 2..Len(s) : s[i].at = "yield"
      PROVE  Stacked'
  BY <1>4 DEF Stacked, Types, StackType
<1>5. ASSUME NEW a \in Accounts, Begins(a) PROVE Stacked'
  <2>1. PICK f \in FrameT : stack' = [stack EXCEPT ![a] = <<f>> \o stack[a]] /\ Free(a)
    BY <1>5 DEF Begins
  <2>2. \A i \in 1..Len(stack[a]) : stack[a][i].at = "yield"
    <3>1. Len(stack[a]) \in Nat /\ (stack[a] # <<>> => stack[a][1].at = "yield")
      BY <1>1, <2>1 DEF Free
    <3>2. ASSUME NEW i \in 1..Len(stack[a]) PROVE stack[a][i].at = "yield"
      <4>1. stack[a] # <<>>
        BY <1>1
      <4>2. i = 1 \/ i \in 2..Len(stack[a])
        BY <3>1
      <4> QED
        BY <3>1, <4>1, <4>2 DEF Stacked
    <3> QED
      BY <3>2
  <2> DEFINE s == <<f>> \o stack[a]
  <2>3. s \in Seq(FrameT) /\ Len(s) = Len(stack[a]) + 1 /\ Len(stack[a]) \in Nat
        /\ \A i \in 1..Len(stack[a]) : s[i + 1] = stack[a][i]
    BY <1>1, Pushed
  <2> HIDE DEF s
  <2>4. ASSUME NEW i \in 2..Len(s) PROVE s[i].at = "yield"
    <3>1. i - 1 \in 1..Len(stack[a]) /\ s[(i - 1) + 1] = stack[a][i - 1] /\ (i - 1) + 1 = i
      BY <2>3
    <3> QED
      BY <2>2, <3>1
  <2> QED
    BY <1>4, <2>1, <2>3, <2>4 DEF s
<1>6. ASSUME NEW a \in Accounts, Moves(a) PROVE Stacked'
  <2>1. PICK f \in FrameT : stack[a] # <<>> /\ stack' = [stack EXCEPT ![a] = [stack[a] EXCEPT ![1] = f]]
    BY <1>6 DEF Moves
  <2> DEFINE s == [stack[a] EXCEPT ![1] = f]
  <2>2. s \in Seq(FrameT) /\ Len(s) = Len(stack[a]) /\ \A i \in 2..Len(stack[a]) : s[i] = stack[a][i]
    BY <1>1, <2>1, MovedOn
  <2> HIDE DEF s
  <2> QED
    BY <1>4, <2>1, <2>2 DEF Stacked, s
<1>7. ASSUME NEW a \in Accounts, Ends(a) PROVE Stacked'
  <2> DEFINE s == Tail(stack[a])
  <2>1. s \in Seq(FrameT) /\ Len(s) = Len(stack[a]) - 1
        /\ (\A i \in 1..(Len(stack[a]) - 1) : s[i] = stack[a][i + 1]) /\ Len(stack[a]) \in Nat
    BY <1>1, <1>7, Popped DEF Ends
  <2> HIDE DEF s
  <2>2. ASSUME NEW i \in 2..Len(s) PROVE s[i].at = "yield"
    <3>1. i + 1 \in 2..Len(stack[a]) /\ s[i] = stack[a][i + 1]
      BY <2>1
    <3> QED
      BY <3>1 DEF Stacked
  <2> QED
    BY <1>4, <1>7, <2>1, <2>2 DEF Ends, s
<1>8. ASSUME NEW a \in Accounts, Leaves(a) PROVE Stacked'
  <2>1. PICK f \in FrameT : stack' = [stack EXCEPT ![a] = <<f>>]
    BY <1>8 DEF Leaves
  <2> DEFINE s == <<f>>
  <2>2. s \in Seq(FrameT) /\ \A i \in 2..Len(s) : s[i].at = "yield"
    OBVIOUS
  <2> HIDE DEF s
  <2> QED
    BY <1>4, <2>1, <2>2 DEF s
<1>9. ASSUME NEW a \in Accounts, Lost(a) PROVE Stacked'
  <2> DEFINE s == <<>>
  <2>1. s \in Seq(FrameT) /\ \A i \in 2..Len(s) : s[i].at = "yield"
    OBVIOUS
  <2> HIDE DEF s
  <2> QED
    BY <1>4, <1>9, <2>1 DEF Lost, s
<1> QED
  BY <1>2, <1>3, <1>5, <1>6, <1>7, <1>8, <1>9, StackStep

-----------------------------------------------------------------------------
(* Where a draft has left traces *)

Queued(a, d) == \E c \in cmds[a] : c.d = d
Copied(a, d) == \E c \in box[a] : c.of = d
Published(d) == row[d].uid # 0 /\ row[d].is = "row"
Trace(a, d) ==
  \/ save[d] = a \/ Queued(a, d) \/ PushingAt(a, d) \/ Copied(a, d)
  \/ Published(d) /\ row[d].folder = a

\* A draft that was never saved has none; one that never changed accounts has them in
\* its own only.
Home(d) ==
  /\ row[d].is = "new" =>
       row[d] = NoRow("new") /\ drop[d] = NoDrop /\ \A a \in Accounts : ~Trace(a, d)
  /\ Published(d) => row[d].folder \in Accounts
  /\ row[d].is = "row" /\ ~Moved(d) =>
       row[d].account \in Accounts /\ \A a \in Accounts : Trace(a, d) => a = row[d].account

HomeInv == \A d \in Drafts : Home(d)

LEMMA HomeInit == Init => HomeInv
<1> SUFFICES ASSUME Init, NEW d \in Drafts PROVE Home(d)
  BY DEF HomeInv
<1>1. row[d] = NoRow("new") /\ drop[d] = NoDrop /\ save[d] = None
  BY DEF Init
<1>2. ASSUME NEW a \in Accounts PROVE ~Trace(a, d)
  <2>1. cmds[a] = {} /\ stack[a] = <<>> /\ box[a] \subseteq {ForeignCopy(a)}
    BY DEF Init
  <2>2. ForeignCopy(a).of # d
    BY SetsAssumption DEF ForeignCopy
  <2>3. ~PushingAt(a, d)
    BY <2>1 DEF PushingAt
  <2> QED
    BY <1>1, <2>1, <2>2, <2>3, SetsAssumption DEF Trace, Queued, Copied, Published, NoRow
<1> QED
  BY <1>1, <1>2 DEF Home, NoRow, Published

\* A step that leaves traces of d only where it had some, or where its row says it is.
LEMMA HomeKept ==
  ASSUME NEW d \in Drafts, Home(d), Moved(d) => Moved(d)',
         row'[d].is = row[d].is, row'[d].account = row[d].account,
         row[d].is = "new" => UNCHANGED <<row[d], drop[d]>>,
         Published(d)' => row'[d].folder \in Accounts,
         \A a \in Accounts : Trace(a, d)' => Trace(a, d) \/ (row[d].is = "row" /\ row[d].account = a)
  PROVE  Home(d)'
  BY DEF Home

\* What the pushes in progress are about.
LEMMA PushingKept ==
  ASSUME Types, NEW a \in Accounts, Moves(a) \/ Ends(a) \/ Leaves(a) \/ Lost(a), NEW b \in Accounts, NEW d,
         PushingAt(b, d)'
  PROVE  PushingAt(b, d)
<1>1. stack \in [Accounts -> Seq(FrameT)] /\ stack[a] \in Seq(FrameT)
  BY DEF Types, StackType
<1>2. CASE a # b
  <2>1. stack'[b] = stack[b]
    BY <1>1, <1>2 DEF Moves, Ends, Leaves, Lost
  <2> QED
    BY <2>1 DEF PushingAt
<1>3. PICK i \in DOMAIN stack'[b] : stack'[b][i].d = d
  BY DEF PushingAt
<1>4. CASE a = b /\ Moves(a)
  <2>1. PICK f \in FrameT : stack[a] # <<>> /\ f.d = Top(a).d /\ stack'[a] = [stack[a] EXCEPT ![1] = f]
    BY <1>1, <1>4 DEF Moves
  <2>2. Top(a) = stack[a][1]
    BY <2>1, TopType DEF Types
  <2>3. DOMAIN stack'[a] = DOMAIN stack[a] /\ stack'[a][i].d = stack[a][i].d
    BY <1>1, <1>3, <1>4, <2>1, <2>2
  <2> QED
    BY <1>3, <1>4, <2>3 DEF PushingAt
<1>5. CASE a = b /\ Ends(a)
  <2>1. stack[a] # <<>> /\ stack'[a] = Tail(stack[a])
    BY <1>1, <1>5 DEF Ends
  <2>2. i + 1 \in DOMAIN stack[a] /\ stack'[a][i] = stack[a][i + 1]
    BY <1>1, <1>3, <1>5, <2>1, Popped
  <2> QED
    BY <1>3, <1>5, <2>2 DEF PushingAt
<1>6. CASE a = b /\ Leaves(a)
  <2>1. PICK f \in FrameT : stack[a] # <<>> /\ f.d = Top(a).d /\ stack'[a] = <<f>>
    BY <1>1, <1>6 DEF Leaves
  <2>2. Top(a) = stack[a][1] /\ 1 \in DOMAIN stack[a]
    BY <1>1, <2>1, TopType DEF Types
  <2>3. stack'[a][i] = f
    BY <1>3, <1>6, <2>1
  <2> QED
    BY <1>3, <1>6, <2>1, <2>2, <2>3 DEF PushingAt
<1>7. CASE a = b /\ Lost(a)
  <2>1. stack'[a] = <<>>
    BY <1>1, <1>7 DEF Lost
  <2> QED
    BY <1>3, <1>7, <2>1
<1> QED
  BY <1>2, <1>4, <1>5, <1>6, <1>7

LEMMA PushingBegun ==
  ASSUME Types, NEW a \in Accounts, NEW d \in Drafts, stack' = [stack EXCEPT ![a] = Pushes(d) \o @],
         NEW b \in Accounts, NEW e, PushingAt(b, e)'
  PROVE  PushingAt(b, e) \/ (b = a /\ e = d /\ row[d].is = "row")
<1>1. stack \in [Accounts -> Seq(FrameT)] /\ stack[a] \in Seq(FrameT) /\ Frame(d) \in FrameT
  BY FrameType DEF Types, StackType
<1>2. PICK i \in DOMAIN stack'[b] : stack'[b][i].d = e
  BY DEF PushingAt
<1>3. CASE b # a
  BY <1>1, <1>2, <1>3 DEF PushingAt
<1>4. CASE b = a /\ row[d].is # "row"
  <2>1. stack'[a] = stack[a]
    BY <1>1, <1>4 DEF Pushes
  <2> QED
    BY <1>2, <1>4, <2>1 DEF PushingAt
<1>5. CASE b = a /\ row[d].is = "row"
  <2> DEFINE s == <<Frame(d)>> \o stack[a]
  <2>1. stack'[a] = s
    BY <1>1, <1>5 DEF Pushes
  <2>2. /\ Len(s) = Len(stack[a]) + 1 /\ s[1] = Frame(d) /\ s \in Seq(FrameT)
        /\ \A j \in 1..Len(stack[a]) : s[j + 1] = stack[a][j]
    BY <1>1, Pushed
  <2>3. Frame(d).d = d /\ Len(stack[a]) \in Nat
    BY <1>1 DEF Frame
  <2> HIDE DEF s
  <2>4. CASE i = 1
    BY <1>2, <1>5, <2>1, <2>2, <2>3, <2>4
  <2>5. CASE i # 1
    <3>1. i - 1 \in 1..Len(stack[a]) /\ s[(i - 1) + 1] = stack[a][i - 1] /\ (i - 1) + 1 = i
      BY <1>2, <1>5, <2>1, <2>2, <2>3, <2>5
    <3>2. i - 1 \in DOMAIN stack[a]
      BY <1>1, <3>1
    <3> QED
      BY <1>2, <1>5, <2>1, <3>1, <3>2 DEF PushingAt
  <2> QED
    BY <2>4, <2>5
<1> QED
  BY <1>3, <1>4, <1>5

\* No step but an append puts a copy into a mailbox.
LEMMA CopiedKept ==
  ASSUME Types, NEW a \in Accounts, NEW U, box' = [box EXCEPT ![a] = Without(a, U)],
         NEW b \in Accounts, NEW d, Copied(b, d)'
  PROVE  Copied(b, d)
  BY WithoutFacts DEF Types, ServerType, Copied, Remains

\* What a step need not change of a draft: its row but for the Message-ID, and its place.
RowKept(d) ==
  /\ row'[d].is = row[d].is /\ row'[d].account = row[d].account
  /\ row'[d].folder = row[d].folder /\ row'[d].uid = row[d].uid
  /\ row[d].is = "new" => UNCHANGED <<row[d], drop[d]>>

LEMMA HomeStays ==
  ASSUME NEW d \in Drafts, Home(d), marks[d] \subseteq marks'[d], RowKept(d),
         \A a \in Accounts :
           /\ save'[d] = a => save[d] = a
           /\ Queued(a, d)' => Queued(a, d) \/ save[d] = a
           /\ PushingAt(a, d)' => \/ PushingAt(a, d) \/ Queued(a, d)
                                  \/ row[d].is = "row" /\ row[d].account = a
           /\ Copied(a, d)' => Copied(a, d) \/ PushingAt(a, d)
  PROVE  Home(d)'
<1>1. Moved(d) => Moved(d)'
  BY DEF Moved
<1>2. Published(d)' <=> Published(d)
  BY DEF Published, RowKept
<1>3. ASSUME NEW a \in Accounts, Trace(a, d)'
      PROVE  Trace(a, d) \/ (row[d].is = "row" /\ row[d].account = a)
  BY <1>2, <1>3 DEF Trace, RowKept
<1>4. Published(d)' => row'[d].folder \in Accounts
  BY <1>2 DEF Home, RowKept
<1> QED
  BY <1>1, <1>3, <1>4, HomeKept DEF RowKept

LEMMA HomeCompose ==
  ASSUME Types, MarksType, HomeInv, [Next]_vars, Compose \/ Tick \/ Restart PROVE HomeInv'
<1>1. \A d \in Drafts : Home(d) /\ marks[d] \subseteq marks'[d]
  BY MarksStep DEF HomeInv
<1>2. \A d \in Drafts : row[d] \in RowT /\ save[d] \in Somewhere
  BY DEF Types, RowsType
<1>3. row \in [Drafts -> RowT] /\ save \in [Drafts -> Somewhere] /\ drop \in [Drafts -> PlaceT]
      /\ cmds \in [Accounts -> SUBSET CmdT]
  BY DEF Types, RowsType, CmdsType
<1>4. ASSUME NEW d \in Drafts, NEW a \in Accounts, UpsertDraft(d, a), NEW e \in Drafts
      PROVE  Home(e)'
  <2>1. /\ row' = [row EXCEPT ![d] = Upserted(d, a)] /\ save' = [save EXCEPT ![d] = a]
        /\ UNCHANGED <<drop, cmds, stack, box>>
    BY <1>4 DEF UpsertDraft, serverVars
  <2>2. \A b \in Accounts : /\ Queued(b, e)' <=> Queued(b, e)
                            /\ PushingAt(b, e)' <=> PushingAt(b, e)
                            /\ Copied(b, e)' <=> Copied(b, e)
    BY <2>1 DEF Queued, PushingAt, Copied
  <2>3. CASE e # d
    <3>1. row'[e] = row[e] /\ save'[e] = save[e]
      BY <1>3, <2>1, <2>3
    <3> QED
      BY <1>1, <2>1, <2>2, <3>1, HomeStays DEF RowKept
  <2>4. CASE e = d /\ row[d].is = "gone"
    <3>1. row'[d] = row[d]
      BY <1>3, <2>1, <2>4 DEF Upserted
    <3> QED
      BY <2>4, <3>1 DEF Home, Published
  <2>5. CASE e = d /\ row[d].is # "gone"
    <3>1. /\ row'[d].is = "row" /\ row'[d].account = a /\ row'[d].uid = row[d].uid
          /\ row'[d].folder = row[d].folder /\ save'[d] = a
      BY <1>2, <1>3, <2>1, <2>5 DEF Upserted, RowT
    <3>2. CASE row[d].is = "new"
      <4>1. \A b \in Accounts : ~Trace(b, d) /\ row[d].uid = 0
        BY <1>1, <3>2 DEF Home, NoRow
      <4>2. ~Published(d)'
        BY <3>1, <4>1 DEF Published
      <4> QED
        BY <2>2, <2>5, <3>1, <4>1, <4>2 DEF Home, Trace
    <3>3. CASE row[d].is = "row"
      <4>1. Published(d)' <=> Published(d)
        BY <3>1, <3>3 DEF Published
      <4>2. row[d].account # a => Moved(d)'
        BY <1>4, <3>3 DEF UpsertDraft, Mark, MarksType, Moved
      <4>3. Moved(d) => Moved(d)'
        BY <1>1 DEF Moved
      <4> QED
        BY <1>1, <2>2, <2>5, <3>1, <3>3, <4>1, <4>2, <4>3 DEF Home, Trace
    <3> QED
      BY <1>2, <2>5, <3>2, <3>3 DEF RowT
  <2> QED
    BY <2>3, <2>4, <2>5
<1>5. ASSUME NEW d \in Drafts, KeepAndPublish(d), NEW e \in Drafts PROVE Home(e)'
  <2>1. /\ save[d] # None /\ save' = [save EXCEPT ![d] = None]
        /\ cmds' = [cmds EXCEPT ![save[d]] = @ \cup {PushOf(d)}]
        /\ UNCHANGED <<drop, stack, box>> /\ save[d] \in Accounts
    BY <1>2, <1>5 DEF KeepAndPublish, serverVars, Somewhere
  <2>2. RowKept(e)
    <3>1. CASE row' = row
      BY <2>1, <3>1 DEF RowKept
    <3>2. CASE row[d].is = "row" /\ row' = [row EXCEPT ![d].files = saves]
      BY <1>2, <1>3, <2>1, <3>2 DEF RowKept, RowT
    <3> QED
      BY <1>5, <3>1, <3>2 DEF KeepAndPublish
  <2>3. ASSUME NEW b \in Accounts
        PROVE  /\ save'[e] = b => save[e] = b
               /\ Queued(b, e)' => Queued(b, e) \/ save[e] = b
               /\ PushingAt(b, e)' => PushingAt(b, e)
               /\ Copied(b, e)' => Copied(b, e)
    <3>1. save'[e] = b => save[e] = b
      BY <1>3, <2>1, SetsAssumption
    <3>2. PushOf(d).d = d
      BY DEF PushOf
    <3>3. Queued(b, e)' => Queued(b, e) \/ save[e] = b
      BY <1>3, <2>1, <3>2 DEF Queued
    <3>4. (PushingAt(b, e)' => PushingAt(b, e)) /\ (Copied(b, e)' => Copied(b, e))
      BY <2>1 DEF PushingAt, Copied
    <3> QED
      BY <3>1, <3>3, <3>4
  <2> QED
    BY <1>1, <2>2, <2>3, HomeStays
<1>6. ASSUME NEW d \in Drafts, DropRead(d), NEW e \in Drafts PROVE Home(e)'
  <2>1. row[d].is = "row" /\ drop' = [drop EXCEPT ![d] = Place(row[d])]
        /\ UNCHANGED <<row, save, cmds, stack, box>>
    BY <1>6 DEF DropRead, serverVars
  <2>2. RowKept(e)
    BY <1>3, <2>1 DEF RowKept
  <2>3. \A b \in Accounts : /\ Queued(b, e)' <=> Queued(b, e)
                            /\ PushingAt(b, e)' <=> PushingAt(b, e)
                            /\ Copied(b, e)' <=> Copied(b, e)
    BY <2>1 DEF Queued, PushingAt, Copied
  <2> QED
    BY <1>1, <2>1, <2>2, <2>3, HomeStays
<1>7. ASSUME NEW d \in Drafts, DropDelete(d), NEW e \in Drafts PROVE Home(e)'
  <2>1. /\ drop[d] # NoDrop /\ drop' = [drop EXCEPT ![d] = NoDrop]
        /\ row' = [row EXCEPT ![d] = NoRow("gone")] /\ UNCHANGED <<save, stack, box>>
    BY <1>7 DEF DropDelete, serverVars
  <2>2. CASE e = d
    <3>1. row'[d].is = "gone"
      BY <1>3, <2>1 DEF NoRow
    <3> QED
      BY <2>2, <3>1 DEF Home, Published
  <2>3. CASE e # d
    <3>1. RowKept(e)
      BY <1>3, <2>1, <2>3 DEF RowKept
    <3>2. ASSUME NEW b \in Accounts, Queued(b, e)' PROVE Queued(b, e)
      <4>1. PICK c \in cmds'[b] : c.d = e
        BY <3>2 DEF Queued
      <4>2. c \in cmds[b] \/ c = [op |-> "drop", d |-> d, n |-> 0, folder |-> drop[d].folder, uid |-> drop[d].uid]
        BY <1>3, <1>7, <4>1 DEF DropDelete
      <4> QED
        BY <2>3, <4>1, <4>2 DEF Queued
    <3>3. \A b \in Accounts : /\ PushingAt(b, e)' <=> PushingAt(b, e)
                              /\ Copied(b, e)' <=> Copied(b, e)
      BY <2>1 DEF PushingAt, Copied
    <3> QED
      BY <1>1, <2>1, <3>1, <3>2, <3>3, HomeStays
  <2> QED
    BY <2>2, <2>3
<1>8. ASSUME Tick, NEW e \in Drafts PROVE Home(e)'
  <2>1. UNCHANGED <<row, save, drop, cmds, stack, box>>
    BY <1>8 DEF Tick, serverVars
  <2>2. RowKept(e)
    BY <2>1 DEF RowKept
  <2>3. \A b \in Accounts : /\ Queued(b, e)' <=> Queued(b, e)
                            /\ PushingAt(b, e)' <=> PushingAt(b, e)
                            /\ Copied(b, e)' <=> Copied(b, e)
    BY <2>1 DEF Queued, PushingAt, Copied
  <2> QED
    BY <1>1, <2>1, <2>2, <2>3, HomeStays
<1>9. ASSUME Restart, NEW e \in Drafts PROVE Home(e)'
  <2>1. /\ UNCHANGED <<row, box>> /\ save'[e] = None /\ drop'[e] = NoDrop
        /\ \A b \in Accounts : cmds'[b] = {} /\ stack'[b] = <<>>
    BY <1>9 DEF Restart, serverVars
  <2>2. RowKept(e)
    BY <1>1, <2>1 DEF RowKept, Home
  <2>3. \A b \in Accounts : ~Queued(b, e)' /\ ~PushingAt(b, e)' /\ (Copied(b, e)' <=> Copied(b, e))
    BY <2>1 DEF Queued, PushingAt, Copied
  <2> QED
    BY <1>1, <2>1, <2>2, <2>3, SetsAssumption, HomeStays
<1> QED
  BY <1>4, <1>5, <1>6, <1>7, <1>8, <1>9 DEF HomeInv, Compose

LEMMA HomeWorker ==
  ASSUME Types, Numbered, MarksType, HomeInv, [Next]_vars,
         NEW a \in Accounts, Worker(a) \/ ConnLost(a) \/ Refused(a)
  PROVE  HomeInv'
<1>1. \A d \in Drafts : Home(d) /\ marks[d] \subseteq marks'[d]
  BY MarksStep DEF HomeInv
<1>2. /\ row \in [Drafts -> RowT] /\ cmds \in [Accounts -> SUBSET CmdT]
      /\ stack \in [Accounts -> Seq(FrameT)] /\ box \in [Accounts -> SUBSET CopyT]
  BY DEF Types, RowsType, CmdsType, StackType, ServerType
<1>3. ASSUME NEW e \in Drafts, UNCHANGED <<row, drop>> PROVE RowKept(e)
  BY <1>3 DEF RowKept
<1>4. ASSUME NEW e \in Drafts, NEW b \in Accounts, UNCHANGED cmds PROVE Queued(b, e)' <=> Queued(b, e)
  BY <1>4 DEF Queued
<1>5. ASSUME NEW e \in Drafts, NEW b \in Accounts, UNCHANGED box PROVE Copied(b, e)' <=> Copied(b, e)
  BY <1>5 DEF Copied
<1>6. ASSUME NEW e \in Drafts, NEW b \in Accounts, UNCHANGED stack PROVE PushingAt(b, e)' <=> PushingAt(b, e)
  BY <1>6 DEF PushingAt
<1>7. CASE Take(a)
  <2>1. PICK c \in cmds[a] :
          /\ cmds' = [cmds EXCEPT ![a] = @ \ {c}]
          /\ \/ stack' = [stack EXCEPT ![a] = Pushes(c.d) \o @] /\ UNCHANGED box
             \/ box' = [box EXCEPT ![a] = Without(a, {c.uid})] /\ UNCHANGED stack
          /\ UNCHANGED <<row, save, drop>>
    BY <1>7 DEF Take, DropRevision
  <2>2. c.d \in Drafts
    BY <1>2 DEF CmdT
  <2>3. ASSUME NEW e \in Drafts, NEW b \in Accounts
        PROVE  /\ Queued(b, e)' => Queued(b, e)
               /\ PushingAt(b, e)' => PushingAt(b, e) \/ Queued(b, e)
               /\ Copied(b, e)' => Copied(b, e)
    <3>1. Queued(b, e)' => Queued(b, e)
      BY <1>2, <2>1 DEF Queued
    <3>2. CASE stack' = [stack EXCEPT ![a] = Pushes(c.d) \o @] /\ UNCHANGED box
      <4>1. PushingAt(b, e)' => PushingAt(b, e) \/ (b = a /\ e = c.d)
        BY <2>2, <3>2, PushingBegun
      <4> QED
        BY <1>5, <3>1, <3>2, <4>1 DEF Queued
    <3>3. CASE box' = [box EXCEPT ![a] = Without(a, {c.uid})] /\ UNCHANGED stack
      BY <1>6, <3>1, <3>3, CopiedKept
    <3> QED
      BY <2>1, <3>2, <3>3
  <2> QED
    BY <1>1, <1>3, <2>1, <2>3, HomeStays DEF HomeInv
<1>8. CASE PushDirtyDrafts(a)
  <2>1. PICK d \in Drafts :
          /\ row[d].is = "row" /\ row[d].account = a /\ stack[a] = <<>>
          /\ stack' = [stack EXCEPT ![a] = Pushes(d)]
          /\ UNCHANGED <<row, save, drop, cmds, box>>
    BY <1>8 DEF PushDirtyDrafts, DirtyDrafts, rowVars, serverVars
  <2>2. Pushes(d) \in Seq(FrameT)
    BY FrameType DEF Types, Pushes
  <2>3. Pushes(d) \o stack[a] = Pushes(d)
    BY <2>1, <2>2
  <2>4. ASSUME NEW e \in Drafts, NEW b \in Accounts, PushingAt(b, e)'
        PROVE  PushingAt(b, e) \/ (row[e].is = "row" /\ row[e].account = b)
    BY <2>1, <2>3, <2>4, PushingBegun
  <2> QED
    BY <1>1, <1>3, <1>4, <1>5, <2>1, <2>4, HomeStays DEF HomeInv
<1>9. ASSUME Moves(a) \/ Ends(a) \/ Leaves(a) \/ Lost(a), UNCHANGED <<save, drop>>,
             \A e \in Drafts, b \in Accounts :
               (Queued(b, e)' => Queued(b, e)) /\ (Copied(b, e)' => Copied(b, e) \/ PushingAt(b, e)),
             \A e \in Drafts : RowKept(e)
      PROVE  HomeInv'
  <2>1. \A e \in Drafts, b \in Accounts : PushingAt(b, e)' => PushingAt(b, e)
    BY <1>9, PushingKept
  <2> QED
    BY <1>1, <1>9, <2>1, HomeStays DEF HomeInv
<1>10. Push(a) => stack[a] # <<>> /\ Top(a) \in FrameT /\ Top(a).d \in Drafts /\ PushingAt(a, Top(a).d)
  <2> SUFFICES ASSUME Push(a) PROVE stack[a] # <<>> /\ Top(a) \in FrameT /\ Top(a).d \in Drafts /\ PushingAt(a, Top(a).d)
    OBVIOUS
  <2>1. stack[a] # <<>>
    BY DEF Push, BuildDraft, AppendCopy, DropOld, Sweep, Clear, At
  <2>2. Top(a) \in FrameT /\ Top(a) = stack[a][1] /\ Len(stack[a]) \in Nat \ {0}
    BY <2>1, TopType DEF Types
  <2>3. 1 \in DOMAIN stack[a]
    BY <1>2, <2>2
  <2> QED
    BY <2>1, <2>2, <2>3 DEF FrameT, PushingAt
<1>11. Push(a) => Moves(a) \/ Ends(a) \/ Leaves(a)
  BY StepOfPush
<1>12. CASE BuildDraft(a)
  <2>1. /\ UNCHANGED row \/ \E id : SetDraftMessageID(Top(a).d, id)
        /\ UNCHANGED <<save, drop, cmds, box>>
    BY <1>12 DEF BuildDraft, serverVars
  <2>2. Trace(a, Top(a).d) /\ Top(a).d \in Drafts
    BY <1>10, <1>12 DEF Push, Trace
  <2>3. row[Top(a).d].is # "new"
    BY <1>1, <2>2 DEF Home
  <2>4. ASSUME NEW id, SetDraftMessageID(Top(a).d, id), NEW e \in Drafts PROVE RowKept(e)
    <3> DEFINE d == Top(a).d
               new == IF row[d].is = "row" THEN id ELSE row[d].id
    <3>1. row' = [row EXCEPT ![d].id = new] /\ d \in Drafts /\ row[d].is # "new"
      BY <2>2, <2>3, <2>4 DEF SetDraftMessageID
    <3> HIDE DEF d, new
    <3>2. CASE e # d
      <4>1. row'[e] = row[e]
        BY <1>2, <3>1, <3>2
      <4> QED
        BY <2>1, <4>1 DEF RowKept
    <3>3. CASE e = d
      <4>1. row'[d] = [row[d] EXCEPT !.id = new] /\ row[d] \in RowT
        BY <1>2, <3>1
      <4>2. /\ row'[d].is = row[d].is /\ row'[d].account = row[d].account
            /\ row'[d].folder = row[d].folder /\ row'[d].uid = row[d].uid
        BY <4>1 DEF RowT
      <4> QED
        BY <3>1, <3>3, <4>2 DEF RowKept
    <3> QED
      BY <3>2, <3>3
  <2>5. \A e \in Drafts : RowKept(e)
    BY <1>3, <2>1, <2>4
  <2> QED
    BY <1>4, <1>5, <1>9, <1>11, <1>12, <2>1, <2>5 DEF Push
<1>13. CASE AppendCopy(a)
  <2> DEFINE f == Top(a)
             new == [uid |-> next[a], id |-> f.id, of |-> f.d, body |-> f.body,
                     files |-> f.files, deleted |-> FALSE]
  <2>1. box' = [box EXCEPT ![a] = @ \cup {new}] /\ new.of = f.d /\ UNCHANGED <<row, save, drop, cmds>>
    BY <1>13 DEF AppendCopy, rowVars
  <2> HIDE DEF new
  <2>2. ASSUME NEW e \in Drafts, NEW b \in Accounts, Copied(b, e)' PROVE Copied(b, e) \/ PushingAt(b, e)
    BY <1>2, <1>10, <1>13, <2>1, <2>2 DEF Copied, Push
  <2> QED
    BY <1>3, <1>4, <1>9, <1>11, <1>13, <2>1, <2>2 DEF Push
<1>14. CASE DropOld(a)
  <2>1. /\ UNCHANGED box \/ \E U : box' = [box EXCEPT ![a] = Without(a, U)]
        /\ UNCHANGED <<row, save, drop, cmds>>
    <3>1. box' = [box EXCEPT ![a] = IF Top(a).old = 0 THEN box[a] ELSE Without(a, {Top(a).old})]
      BY <1>14, Zenon DEF DropOld
    <3>2. UNCHANGED <<row, save, drop, cmds>>
      BY <1>14, Zenon DEF DropOld, rowVars
    <3>3. [box EXCEPT ![a] = box[a]] = box
      BY <1>2, Same
    <3> QED
      BY <3>1, <3>2, <3>3
  <2>2. \A e \in Drafts, b \in Accounts : Copied(b, e)' => Copied(b, e)
    BY <1>5, <2>1, CopiedKept
  <2> QED
    BY <1>3, <1>4, <1>9, <1>11, <1>14, <2>1, <2>2 DEF Push
<1>15. CASE Sweep(a)
  <2>1. /\ \E U : box' = [box EXCEPT ![a] = Without(a, U)]
        /\ UNCHANGED <<row, save, drop, cmds>>
    BY <1>15 DEF Sweep
  <2>2. \A e \in Drafts, b \in Accounts : Copied(b, e)' => Copied(b, e)
    BY <2>1, CopiedKept
  <2> QED
    BY <1>3, <1>4, <1>9, <1>11, <1>15, <2>1, <2>2 DEF Push
<1>16. CASE Clear(a)
  <2> DEFINE f == Top(a)
  <2>1. /\ row' = [row EXCEPT ![f.d] = IF @.is = "row" THEN ClearDraftDirty(f.d, f, a) ELSE @]
        /\ UNCHANGED <<save, drop, cmds, box>>
    BY <1>16 DEF Clear, serverVars
  <2>2. f.d \in Drafts /\ PushingAt(a, f.d) /\ Ends(a)
    BY <1>10, <1>16 DEF Push, Clear, At, Ends
  <2>3. \A e \in Drafts, b \in Accounts : PushingAt(b, e)' => PushingAt(b, e)
    BY <2>2, PushingKept
  <2>4. ASSUME NEW e \in Drafts, e # f.d \/ row[f.d].is # "row" PROVE Home(e)'
    <3>1. row'[e] = row[e]
      BY <1>2, <2>1, <2>4
    <3>2. RowKept(e)
      BY <2>1, <3>1 DEF RowKept
    <3> QED
      BY <1>1, <1>4, <1>5, <2>1, <2>3, <3>2, HomeStays
  <2>5. CASE row[f.d].is = "row"
    <3>0. PICK d \in Drafts :
            /\ d = f.d /\ PushingAt(a, d) /\ row[d].is = "row"
            /\ row' = [row EXCEPT ![d] = ClearDraftDirty(d, f, a)]
      BY <2>1, <2>2, <2>5
    <3>1. row'[d].is = "row" /\ row'[d].account = row[d].account /\ row'[d].folder = a
      BY <1>2, <3>0 DEF ClearDraftDirty, RowT
    <3>2. Trace(a, d) /\ (Moved(d) => Moved(d)') /\ Home(d)
      BY <1>1, <3>0 DEF Trace, Moved
    <3>3. ASSUME NEW b \in Accounts, Trace(b, d)' PROVE Trace(b, d)
      <4>1. CASE Published(d)' /\ row'[d].folder = b
        BY <3>1, <3>2, <4>1
      <4>2. (Queued(b, d)' <=> Queued(b, d)) /\ (Copied(b, d)' <=> Copied(b, d)) /\ save'[d] = save[d]
            /\ (PushingAt(b, d)' => PushingAt(b, d))
        BY <1>4, <1>5, <2>1, <2>3, <3>0
      <4> QED
        BY <3>3, <4>1, <4>2 DEF Trace
    <3>4. Home(d)'
      <4>1. Published(d)' => row'[d].folder \in Accounts
        BY <3>1
      <4> QED
        BY <3>0, <3>1, <3>2, <3>3, <4>1, HomeKept
    <3> QED
      BY <2>4, <3>0, <3>4 DEF HomeInv
  <2> QED
    BY <2>4, <2>5 DEF HomeInv
<1>17. CASE ConnLost(a)
  <2>1. Lost(a) \/ Leaves(a)
    BY <1>17, StepOfConnLost
  <2>2. /\ \E lost \in SUBSET cmds[a] : cmds' = [cmds EXCEPT ![a] = @ \ lost]
        /\ UNCHANGED <<row, save, drop, box>>
    BY <1>17 DEF ConnLost, serverVars
  <2>3. \A e \in Drafts, b \in Accounts : Queued(b, e)' => Queued(b, e)
    BY <1>2, <2>2 DEF Queued
  <2> QED
    BY <1>3, <1>5, <1>9, <2>1, <2>2, <2>3
<1>18. CASE Refused(a)
  <2>1. Moves(a) \/ Ends(a)
    BY <1>18, StepOfRefused
  <2>2. UNCHANGED <<row, save, drop, cmds, box>>
    BY <1>18, RefusedKeeps
  <2> QED
    BY <1>3, <1>4, <1>5, <1>9, <2>1, <2>2
<1> QED
  BY <1>7, <1>8, <1>12, <1>13, <1>14, <1>15, <1>16, <1>17, <1>18 DEF Worker, Push

LEMMA HomeStep == ASSUME Types, Numbered, MarksType, HomeInv, [Next]_vars PROVE HomeInv'
<1>1. CASE UNCHANGED vars
  <2>1. \A d \in Drafts : RowKept(d) /\ marks[d] \subseteq marks'[d] /\ Home(d)
    BY <1>1 DEF vars, rowVars, RowKept, HomeInv
  <2>2. ASSUME NEW d \in Drafts, NEW a \in Accounts
        PROVE  /\ save'[d] = a => save[d] = a
               /\ Queued(a, d)' => Queued(a, d)
               /\ PushingAt(a, d)' => PushingAt(a, d)
               /\ Copied(a, d)' => Copied(a, d)
    BY <1>1 DEF vars, rowVars, serverVars, Queued, PushingAt, Copied
  <2> QED
    BY <2>1, <2>2, HomeStays DEF HomeInv
<1> QED
  BY <1>1, HomeCompose, HomeWorker DEF Next

-----------------------------------------------------------------------------
(* One Message-ID for each draft *)

FrameOf(f, d) == f.d = d /\ f.id = row[d].id /\ (f.at # "build" => row[d].id # NoId)
CopyOf(c, d) == c.id = row[d].id /\ row[d].id # NoId

\* Every push of d carries the row's Message-ID, and so does every copy; past the build
\* the row has one.
Named1(d) == row[d].is = "row" /\ ~Moved(d) =>
  \A a \in Accounts :
    /\ \A i \in DOMAIN stack[a] : stack[a][i].d = d => FrameOf(stack[a][i], d)
    /\ \A c \in box[a] : c.of = d => CopyOf(c, d)

NameInv == \A d \in Drafts : Named1(d)

LEMMA NameInit == Init => NameInv
  BY DEF Init, NameInv, Named1, NoRow

\* Every push in progress was in progress before, or is what the top one has become,
\* under the same Message-ID.
Carried(f, g) == f = g \/ (f.d = g.d /\ f.id = g.id /\ g.at # "build")
CarriesPushes(d) == \A a \in Accounts : \A i \in DOMAIN stack'[a] : stack'[a][i].d = d =>
  \/ \E j \in DOMAIN stack[a] : Carried(stack'[a][i], stack[a][j])
  \/ stack'[a][i] = Frame(d)
CarriesCopies(d) == \A a \in Accounts : \A w \in box'[a] : w.of = d =>
  \/ \E c \in box[a] : w.id = c.id /\ w.of = c.of
  \/ \E j \in DOMAIN stack[a] :
       stack[a][j].d = d /\ stack[a][j].at # "build" /\ w.id = stack[a][j].id
Carries(d) == CarriesPushes(d) /\ CarriesCopies(d)

LEMMA NameKept ==
  ASSUME NEW d \in Drafts, Named1(d), Carries(d), Moved(d) => Moved(d)',
         row'[d].is = "row" => row[d].is = "row" /\ row'[d].id = row[d].id
  PROVE  Named1(d)'
<1> SUFFICES ASSUME row'[d].is = "row", ~Moved(d)', NEW a \in Accounts
             PROVE  /\ \A i \in DOMAIN stack'[a] : stack'[a][i].d = d => FrameOf(stack[a][i], d)'
                    /\ \A c \in box'[a] : c.of = d => CopyOf(c, d)'
  BY DEF Named1
<1>1. row[d].is = "row" /\ ~Moved(d) /\ row'[d].id = row[d].id
  OBVIOUS
<1>2. ASSUME NEW i \in DOMAIN stack'[a], stack'[a][i].d = d PROVE FrameOf(stack[a][i], d)'
  <2>1. CASE \E j \in DOMAIN stack[a] : Carried(stack'[a][i], stack[a][j])
    BY <1>1, <1>2, <2>1 DEF Carried, FrameOf, Named1
  <2>2. CASE stack'[a][i] = Frame(d)
    BY <1>1, <2>2 DEF Frame, FrameOf
  <2> QED
    BY <1>2, <2>1, <2>2 DEF Carries, CarriesPushes
<1>3. ASSUME NEW w \in box'[a], w.of = d PROVE CopyOf(w, d)'
  BY <1>1, <1>3 DEF Carries, CarriesCopies, Named1, FrameOf, CopyOf
<1> QED
  BY <1>2, <1>3

\* Steps that leave the pushes and the copies alone.
LEMMA NameStays ==
  ASSUME NEW d \in Drafts, Named1(d), UNCHANGED <<stack, box>>, Moved(d) => Moved(d)',
         row'[d].is = "row" => row[d].is = "row" /\ row'[d].id = row[d].id
  PROVE  Named1(d)'
<1>1. Carries(d)
  BY DEF Carries, CarriesPushes, CarriesCopies, Carried
<1> QED
  BY <1>1, NameKept

LEMMA NameCompose ==
  ASSUME Types, MarksType, HomeInv, NameInv, [Next]_vars, Compose \/ Tick \/ Restart PROVE NameInv'
<1>1. \A d \in Drafts : Home(d) /\ Named1(d) /\ (Moved(d) => Moved(d)')
  BY MarksStep DEF HomeInv, NameInv, Moved
<1>2. row \in [Drafts -> RowT] /\ \A d \in Drafts : row[d] \in RowT
  BY DEF Types, RowsType
<1>3. ASSUME NEW d \in Drafts, NEW a \in Accounts, UpsertDraft(d, a), NEW e \in Drafts PROVE Named1(e)'
  <2>1. row' = [row EXCEPT ![d] = Upserted(d, a)] /\ UNCHANGED <<stack, box>>
    BY <1>3 DEF UpsertDraft, serverVars
  <2>2. CASE e = d /\ row[d].is = "new"
    <3>1. \A b \in Accounts : ~PushingAt(b, d) /\ ~Copied(b, d)
      BY <1>1, <2>2 DEF Home, Trace
    <3> QED
      BY <2>1, <2>2, <3>1 DEF PushingAt, Copied, Named1
  <2>3. CASE e # d \/ row[d].is # "new"
    <3>1. row'[e].is = row[e].is /\ row'[e].id = row[e].id
      BY <1>2, <2>1, <2>3 DEF Upserted, RowT
    <3> QED
      BY <1>1, <2>1, <3>1, NameStays
  <2> QED
    BY <2>2, <2>3
<1>4. ASSUME NEW d \in Drafts, KeepAndPublish(d) \/ DropRead(d), NEW e \in Drafts PROVE Named1(e)'
  <2>1. UNCHANGED <<stack, box>>
    BY <1>4 DEF KeepAndPublish, DropRead, serverVars
  <2>2. UNCHANGED row \/ row' = [row EXCEPT ![d].files = saves]
    BY <1>4 DEF KeepAndPublish, DropRead
  <2>3. row'[e].is = row[e].is /\ row'[e].id = row[e].id
    BY <1>2, <2>2 DEF RowT
  <2> QED
    BY <1>1, <2>1, <2>3, NameStays
<1>5. ASSUME NEW d \in Drafts, DropDelete(d), NEW e \in Drafts PROVE Named1(e)'
  <2>1. row' = [row EXCEPT ![d] = NoRow("gone")] /\ UNCHANGED <<stack, box>>
    BY <1>5 DEF DropDelete, serverVars
  <2>2. row'[e].is = "row" => row'[e] = row[e]
    BY <1>2, <2>1 DEF NoRow
  <2> QED
    BY <1>1, <2>1, <2>2, NameStays
<1>6. ASSUME Tick, NEW e \in Drafts PROVE Named1(e)'
  BY <1>1, <1>6, NameStays DEF Tick, serverVars
<1>7. ASSUME Restart, NEW e \in Drafts PROVE Named1(e)'
  <2>1. UNCHANGED <<row, box>> /\ \A b \in Accounts : stack'[b] = <<>>
    BY <1>7 DEF Restart, serverVars
  <2>2. Carries(e)
    BY <2>1 DEF Carries, CarriesPushes, CarriesCopies
  <2> QED
    BY <1>1, <2>1, <2>2, NameKept
<1> QED
  BY <1>3, <1>4, <1>5, <1>6, <1>7 DEF NameInv, Compose

LEMMA CopiesKept ==
  ASSUME Types, NEW a \in Accounts,
         UNCHANGED box \/ \E U : box' = [box EXCEPT ![a] = Without(a, U)], NEW d
  PROVE  CarriesCopies(d)
<1>1. ServerType /\ box \in [Accounts -> SUBSET CopyT]
  BY DEF Types, ServerType
<1>2. ASSUME NEW U, box' = [box EXCEPT ![a] = Without(a, U)], NEW b \in Accounts, NEW w \in box'[b]
      PROVE  \E c \in box[b] : w.id = c.id /\ w.of = c.of
  <2>1. CASE b = a
    <3>1. w \in Without(a, U)
      BY <1>1, <1>2, <2>1
    <3> QED
      BY <1>1, <2>1, <3>1, WithoutFacts DEF Remains
  <2>2. CASE b # a
    BY <1>1, <1>2, <2>2
  <2> QED
    BY <2>1, <2>2
<1> QED
  BY <1>2 DEF CarriesCopies

LEMMA PushesMoved ==
  ASSUME Types, NEW a \in Accounts, stack[a] # <<>>, Top(a).at # "build",
         NEW f, f.d = Top(a).d, f.id = Top(a).id,
         Goto(a, f) \/ stack' = [stack EXCEPT ![a] = <<f>>], NEW d
  PROVE  CarriesPushes(d)
<1>1. stack \in [Accounts -> Seq(FrameT)] /\ stack[a] \in Seq(FrameT)
      /\ Top(a) = stack[a][1] /\ 1 \in DOMAIN stack[a]
  BY TopType DEF Types, StackType
<1>2. Carried(f, stack[a][1])
  BY <1>1 DEF Carried
<1>3. ASSUME NEW b \in Accounts, NEW i \in DOMAIN stack'[b]
      PROVE  \E j \in DOMAIN stack[b] : Carried(stack'[b][i], stack[b][j])
  <2>1. CASE b # a
    <3>1. stack'[b] = stack[b]
      BY <1>1, <2>1 DEF Goto
    <3> QED
      BY <1>3, <3>1 DEF Carried
  <2>2. CASE b = a /\ Goto(a, f)
    <3>1. stack'[a] = [stack[a] EXCEPT ![1] = f]
      BY <1>1, <2>2 DEF Goto
    <3>2. CASE i = 1
      <4>1. stack'[b][i] = f
        BY <1>1, <2>2, <3>1, <3>2
      <4> QED
        BY <1>1, <1>2, <2>2, <4>1
    <3>3. CASE i # 1
      <4>1. i \in DOMAIN stack[b] /\ stack'[b][i] = stack[b][i]
        BY <1>1, <1>3, <2>2, <3>1, <3>3
      <4> QED
        BY <4>1 DEF Carried
    <3> QED
      BY <3>2, <3>3
  <2>3. CASE b = a /\ stack' = [stack EXCEPT ![a] = <<f>>]
    <3>1. stack'[a] = <<f>>
      BY <1>1, <2>3
    <3>2. stack'[b][i] = f
      BY <1>3, <2>3, <3>1
    <3> QED
      BY <1>1, <1>2, <2>3, <3>2
  <2> QED
    BY <2>1, <2>2, <2>3
<1> QED
  BY <1>3 DEF CarriesPushes

LEMMA PushesBegun ==
  ASSUME Types, NEW a \in Accounts, NEW e \in Drafts, stack' = [stack EXCEPT ![a] = Pushes(e) \o @], NEW d
  PROVE  CarriesPushes(d)
<1>1. stack \in [Accounts -> Seq(FrameT)] /\ stack[a] \in Seq(FrameT) /\ Frame(e) \in FrameT
      /\ Frame(e).d = e
  BY FrameType DEF Types, StackType, Frame
<1>2. ASSUME NEW b \in Accounts, NEW i \in DOMAIN stack'[b]
      PROVE  (\E j \in DOMAIN stack[b] : stack'[b][i] = stack[b][j]) \/ stack'[b][i] = Frame(e)
  <2>1. CASE b # a
    BY <1>1, <1>2, <2>1
  <2>2. CASE b = a /\ row[e].is # "row"
    <3>1. stack'[a] = stack[a]
      BY <1>1, <2>2 DEF Pushes
    <3> QED
      BY <1>2, <2>2, <3>1
  <2>3. CASE b = a /\ row[e].is = "row"
    <3> DEFINE s == <<Frame(e)>> \o stack[a]
    <3>1. stack'[a] = s
      BY <1>1, <2>3 DEF Pushes
    <3>2. /\ Len(s) = Len(stack[a]) + 1 /\ s[1] = Frame(e) /\ s \in Seq(FrameT)
          /\ \A j \in 1..Len(stack[a]) : s[j + 1] = stack[a][j]
          /\ Len(stack[a]) \in Nat
      BY <1>1, Pushed
    <3> HIDE DEF s
    <3>3. CASE i = 1
      BY <2>3, <3>1, <3>2, <3>3
    <3>4. CASE i # 1
      <4>1. i - 1 \in 1..Len(stack[a]) /\ s[(i - 1) + 1] = stack[a][i - 1] /\ (i - 1) + 1 = i
        BY <1>2, <2>3, <3>1, <3>2, <3>4
      <4> QED
        BY <1>1, <2>3, <3>1, <4>1
    <3> QED
      BY <3>3, <3>4
  <2> QED
    BY <2>1, <2>2, <2>3
<1>3. ASSUME NEW b \in Accounts, NEW i \in DOMAIN stack'[b], stack'[b][i].d = d
      PROVE  (\E j \in DOMAIN stack[b] : Carried(stack'[b][i], stack[b][j])) \/ stack'[b][i] = Frame(d)
  <2>1. CASE \E j \in DOMAIN stack[b] : stack'[b][i] = stack[b][j]
    BY <2>1 DEF Carried
  <2>2. CASE stack'[b][i] = Frame(e)
    BY <1>1, <1>3, <2>2
  <2> QED
    BY <1>2, <2>1, <2>2
<1> QED
  BY <1>3 DEF CarriesPushes

LEMMA PushesEnded ==
  ASSUME Types, NEW a \in Accounts, Ends(a) \/ Lost(a), NEW d
  PROVE  CarriesPushes(d)
<1>1. stack \in [Accounts -> Seq(FrameT)] /\ stack[a] \in Seq(FrameT)
  BY DEF Types, StackType
<1>2. ASSUME NEW b \in Accounts, NEW i \in DOMAIN stack'[b]
      PROVE  \E j \in DOMAIN stack[b] : stack'[b][i] = stack[b][j]
  <2>1. CASE b # a
    BY <1>1, <1>2, <2>1 DEF Ends, Lost
  <2>2. CASE b = a /\ Ends(a)
    <3>1. stack[a] # <<>> /\ stack'[a] = Tail(stack[a])
      BY <1>1, <2>2 DEF Ends
    <3>2. i + 1 \in DOMAIN stack[a] /\ stack'[a][i] = stack[a][i + 1]
      BY <1>1, <1>2, <2>2, <3>1, Popped
    <3> QED
      BY <2>2, <3>2
  <2>3. CASE b = a /\ Lost(a)
    <3>1. stack'[a] = <<>>
      BY <1>1, <2>3 DEF Lost
    <3> QED
      BY <1>2, <2>3, <3>1
  <2> QED
    BY <1>2, <2>1, <2>2, <2>3
<1> QED
  BY <1>2 DEF CarriesPushes, Carried

LEMMA NameWorker ==
  ASSUME Types, Numbered, Stacked, MarksType, HomeInv, NameInv, [Next]_vars,
         NEW a \in Accounts, Worker(a) \/ ConnLost(a) \/ Refused(a)
  PROVE  NameInv'
<1>1. \A d \in Drafts : Home(d) /\ Named1(d) /\ (Moved(d) => Moved(d)')
  BY MarksStep DEF HomeInv, NameInv, Moved
<1>2. /\ row \in [Drafts -> RowT] /\ box \in [Accounts -> SUBSET CopyT]
      /\ stack \in [Accounts -> Seq(FrameT)] /\ stack[a] \in Seq(FrameT)
  BY DEF Types, RowsType, StackType, ServerType
<1>3. ASSUME UNCHANGED row, \A d \in Drafts : Carries(d) PROVE NameInv'
  BY <1>1, <1>3, NameKept DEF NameInv
<1>4. CASE Take(a)
  <2>1. PICK c \in cmds[a] :
          /\ \/ stack' = [stack EXCEPT ![a] = Pushes(c.d) \o @] /\ UNCHANGED box
             \/ box' = [box EXCEPT ![a] = Without(a, {c.uid})] /\ UNCHANGED stack
          /\ UNCHANGED row
    BY <1>4 DEF Take, DropRevision
  <2>2. c.d \in Drafts
    BY DEF Types, CmdsType, CmdT
  <2>3. \A d \in Drafts : CarriesCopies(d)
    BY <2>1, CopiesKept
  <2>4. \A d \in Drafts : CarriesPushes(d)
    <3>1. UNCHANGED stack => \A d \in Drafts : CarriesPushes(d)
      BY DEF CarriesPushes, Carried
    <3> QED
      BY <2>1, <2>2, <3>1, PushesBegun
  <2> QED
    BY <1>3, <2>1, <2>3, <2>4 DEF Carries
<1>5. CASE PushDirtyDrafts(a)
  <2>1. PICK d \in Drafts : /\ stack[a] = <<>> /\ stack' = [stack EXCEPT ![a] = Pushes(d)]
                            /\ UNCHANGED <<row, box>>
    BY <1>5 DEF PushDirtyDrafts, DirtyDrafts, rowVars, serverVars
  <2>2. Pushes(d) \in Seq(FrameT)
    BY FrameType DEF Types, Pushes
  <2>3. Pushes(d) \o stack[a] = Pushes(d)
    BY <2>1, <2>2
  <2>4. \A e \in Drafts : CarriesPushes(e) /\ CarriesCopies(e)
    BY <2>1, <2>3, PushesBegun, CopiesKept
  <2> QED
    BY <1>3, <2>1, <2>4 DEF Carries
<1>6. Push(a) => /\ stack[a] # <<>> /\ Top(a) \in FrameT /\ Top(a).d \in Drafts
                 /\ Top(a) = stack[a][1] /\ 1 \in DOMAIN stack[a]
  BY <1>2, TopType DEF Push, BuildDraft, AppendCopy, DropOld, Sweep, Clear, At, Types, FrameT
<1>7. CASE BuildDraft(a)
  <2> DEFINE f == Top(a)
             id == IF f.id = NoId THEN <<f.d, a, next[a]>> ELSE f.id
             frame == [f EXCEPT !.at = "append", !.files = row[f.d].files, !.id = id]
  <2>1. /\ At(a, "build") /\ Goto(a, frame) /\ UNCHANGED box
        /\ IF f.id = NoId THEN SetDraftMessageID(f.d, id) ELSE UNCHANGED row
    BY <1>7 DEF BuildDraft, serverVars
  <2>2. f \in FrameT /\ f.d \in Drafts /\ f = stack[a][1] /\ 1 \in DOMAIN stack[a] /\ f.at = "build"
    BY <1>6, <1>7, <2>1 DEF Push, At
  <2>3. frame.d = f.d /\ frame.id = id /\ id # NoId
    BY <2>2, SetsAssumption DEF FrameT, NoId
  <2>4. stack' = [stack EXCEPT ![a] = [stack[a] EXCEPT ![1] = frame]]
    BY <1>2, <2>1 DEF Goto
  <2> HIDE DEF id, frame
  <2>5. ASSUME NEW b \in Accounts, NEW i \in DOMAIN stack'[b]
        PROVE  (b = a /\ i = 1 /\ stack'[b][i] = frame) \/ (i \in DOMAIN stack[b] /\ stack'[b][i] = stack[b][i])
    BY <1>2, <2>2, <2>4, <2>5
  <2>6. ASSUME NEW e \in Drafts, e # f.d PROVE Named1(e)'
    <3>1. CarriesPushes(e)
      BY <2>3, <2>5, <2>6 DEF CarriesPushes, Carried
    <3>2. row'[e] = row[e]
      BY <1>2, <2>1, <2>6 DEF SetDraftMessageID
    <3> QED
      BY <1>1, <2>1, <3>1, <3>2, CopiesKept, NameKept DEF Carries
  <2>7. PICK d \in Drafts : d = f.d
    BY <2>2
  <2>8. Named1(d)'
    <3> SUFFICES ASSUME row'[d].is = "row", ~Moved(d)', NEW b \in Accounts
                 PROVE  /\ \A i \in DOMAIN stack'[b] : stack'[b][i].d = d => FrameOf(stack[b][i], d)'
                        /\ \A c \in box'[b] : c.of = d => CopyOf(c, d)'
      BY DEF Named1
    <3>1. row[d].is = "row" /\ row[d] \in RowT
      BY <1>2, <2>1, <2>7 DEF SetDraftMessageID, RowT
    <3>2. \A g \in Accounts :
            /\ \A i \in DOMAIN stack[g] : stack[g][i].d = d => FrameOf(stack[g][i], d)
            /\ \A c \in box[g] : c.of = d => CopyOf(c, d)
      <4>1. Named1(d) /\ ~Moved(d)
        BY <1>1
      <4> QED
        BY <3>1, <4>1 DEF Named1
    <3>3. row[d].id = f.id /\ row'[d].id = id
      <4>1. row[d].id = f.id
        BY <2>2, <2>7, <3>2 DEF FrameOf
      <4>2. CASE f.id = NoId
        <5>1. row' = [row EXCEPT ![d].id = id]
          BY <2>1, <2>7, <3>1, <4>2 DEF SetDraftMessageID
        <5>2. row'[d] = [row[d] EXCEPT !.id = id]
          BY <1>2, <5>1
        <5> QED
          BY <3>1, <4>1, <5>2 DEF RowT
      <4>3. CASE f.id # NoId
        BY <2>1, <4>1, <4>3 DEF id
      <4> QED
        BY <4>2, <4>3
    <3>4. ASSUME NEW i \in DOMAIN stack'[b], stack'[b][i].d = d PROVE FrameOf(stack[b][i], d)'
      <4>1. CASE b = a /\ i = 1 /\ stack'[b][i] = frame
        BY <2>3, <2>7, <3>3, <4>1 DEF FrameOf
      <4>2. CASE ~(b = a /\ i = 1) /\ i \in DOMAIN stack[b] /\ stack'[b][i] = stack[b][i]
        <5>1. FrameOf(stack[b][i], d)
          BY <3>2, <3>4, <4>2
        <5>2. CASE row[d].id # NoId
          BY <3>3, <4>2, <5>1, <5>2 DEF FrameOf, id
        <5>3. CASE row[d].id = NoId
          <6>1. b = a
            <7>1. PushingAt(a, d) /\ PushingAt(b, d)
              BY <2>2, <2>7, <3>4, <4>2 DEF PushingAt
            <7>2. ~Moved(d)
              BY <1>1
            <7> QED
              BY <1>1, <3>1, <7>1, <7>2 DEF Home, Trace
          <6>2. i \in 2..Len(stack[a])
            BY <1>2, <4>2, <6>1
          <6> QED
            BY <4>2, <5>1, <5>3, <6>1, <6>2 DEF Stacked, FrameOf
        <5> QED
          BY <5>2, <5>3
      <4>3. CASE b = a /\ i = 1 /\ i \in DOMAIN stack[b] /\ stack'[b][i] = stack[b][i]
        <5>1. stack'[b][i] = frame
          BY <1>2, <2>4, <4>3
        <5> QED
          BY <4>1, <4>3, <5>1
      <4> QED
        BY <2>5, <4>1, <4>2, <4>3
    <3>5. ASSUME NEW c \in box'[b], c.of = d PROVE CopyOf(c, d)'
      <4>1. CopyOf(c, d)
        BY <2>1, <3>2, <3>5
      <4> QED
        BY <3>3, <4>1 DEF CopyOf, id
    <3> QED
      BY <3>4, <3>5
  <2> QED
    BY <2>6, <2>7, <2>8 DEF NameInv
<1>8. CASE AppendCopy(a)
  <2> DEFINE f == Top(a)
             new == [uid |-> next[a], id |-> f.id, of |-> f.d, body |-> f.body,
                     files |-> f.files, deleted |-> FALSE]
             frame == [f EXCEPT !.at = "drop", !.body = 0, !.files = 0,
                                !.uid = IF a \in plus THEN next[a] ELSE 0]
  <2>1. /\ At(a, "append") /\ Goto(a, frame) /\ box' = [box EXCEPT ![a] = @ \cup {new}]
        /\ UNCHANGED row
    BY <1>8 DEF AppendCopy, rowVars
  <2>2. f \in FrameT /\ f = stack[a][1] /\ 1 \in DOMAIN stack[a] /\ f.at = "append" /\ stack[a] # <<>>
    BY <1>6, <1>8, <2>1 DEF Push, At
  <2>3. frame.d = f.d /\ frame.id = f.id /\ new.of = f.d /\ new.id = f.id
    BY <2>2 DEF FrameT
  <2> HIDE DEF frame, new
  <2>4. \A e \in Drafts : CarriesPushes(e)
    BY <2>1, <2>2, <2>3, PushesMoved
  <2>5. ASSUME NEW e \in Drafts PROVE CarriesCopies(e)
    <3>1. \A b \in Accounts : \A w \in box'[b] : w \in box[b] \/ (b = a /\ w = new)
      BY <1>2, <2>1
    <3> QED
      BY <2>2, <2>3, <3>1 DEF CarriesCopies
  <2> QED
    BY <1>3, <2>1, <2>4, <2>5 DEF Carries
<1>9. CASE DropOld(a)
  <2> DEFINE f == Top(a)
             frame == [f EXCEPT !.at = "yield", !.folder = None, !.old = 0]
  <2>1. /\ At(a, "drop") /\ Goto(a, frame)
        /\ box' = [box EXCEPT ![a] = IF f.old = 0 THEN box[a] ELSE Without(a, {f.old})]
        /\ UNCHANGED row
    BY <1>9, Zenon DEF DropOld, rowVars
  <2>2. f \in FrameT /\ f.at = "drop" /\ stack[a] # <<>>
    BY <1>6, <1>9, <2>1 DEF Push, At
  <2>3. frame.d = f.d /\ frame.id = f.id
    BY <2>2 DEF FrameT
  <2> HIDE DEF frame
  <2>4. \A e \in Drafts : CarriesPushes(e)
    BY <2>1, <2>2, <2>3, PushesMoved
  <2>5. UNCHANGED box \/ \E U : box' = [box EXCEPT ![a] = Without(a, U)]
    BY <1>2, <2>1, Same
  <2> QED
    BY <1>3, <2>1, <2>4, <2>5, CopiesKept DEF Carries
<1>10. CASE Sweep(a)
  <2> DEFINE f == Top(a)
             uid == IF f.uid # 0 THEN f.uid ELSE Max({0} \cup Named(a, f.id))
             frame == [f EXCEPT !.at = "clear", !.uid = uid]
  <2>1. /\ At(a, "yield") /\ (Goto(a, frame) \/ stack' = [stack EXCEPT ![a] = <<frame>>])
        /\ \E U : box' = [box EXCEPT ![a] = Without(a, U)]
        /\ UNCHANGED row
    BY <1>10 DEF Sweep
  <2>2. f \in FrameT /\ f.at = "yield" /\ stack[a] # <<>>
    BY <1>6, <1>10, <2>1 DEF Push, At
  <2> HIDE DEF uid
  <2>3. frame.d = f.d /\ frame.id = f.id
    BY <2>2 DEF FrameT
  <2> HIDE DEF frame
  <2>4. \A e \in Drafts : CarriesPushes(e)
    BY <2>1, <2>2, <2>3, PushesMoved
  <2> QED
    BY <1>3, <2>1, <2>4, CopiesKept DEF Carries
<1>11. CASE Clear(a)
  <2> DEFINE f == Top(a)
  <2>1. /\ row' = [row EXCEPT ![f.d] = IF @.is = "row" THEN ClearDraftDirty(f.d, f, a) ELSE @]
        /\ UNCHANGED box /\ Ends(a)
    BY <1>11 DEF Clear, serverVars, At, Ends
  <2>2. f.d \in Drafts /\ f = stack[a][1] /\ 1 \in DOMAIN stack[a]
    BY <1>6, <1>11 DEF Push
  <2>3. \A e \in Drafts : Carries(e)
    BY <2>1, PushesEnded, CopiesKept DEF Carries
  <2>4. ASSUME NEW e \in Drafts PROVE Named1(e)'
    <3>1. CASE ~Moved(e) /\ row[e].is = "row"
      <4>1. row'[e].is = "row" /\ row'[e].id = row[e].id
        <5>1. CASE e # f.d
          BY <1>2, <2>1, <3>1, <5>1
        <5>2. CASE e = f.d
          <6>1. f.id = row[e].id
            BY <1>1, <2>2, <3>1, <5>2 DEF Named1, FrameOf
          <6>2. row'[e] = ClearDraftDirty(e, f, a)
            BY <1>2, <2>1, <3>1, <5>2
          <6> QED
            BY <1>2, <3>1, <6>1, <6>2 DEF ClearDraftDirty, RowT
        <5> QED
          BY <5>1, <5>2
      <4> QED
        BY <1>1, <2>3, <3>1, <4>1, NameKept
    <3>2. CASE row[e].is # "row"
      <4>1. row'[e] = row[e]
        BY <1>2, <2>1, <3>2
      <4> QED
        BY <3>2, <4>1 DEF Named1
    <3>3. CASE Moved(e)
      BY <1>1, <3>3 DEF Named1
    <3> QED
      BY <3>1, <3>2, <3>3
  <2> QED
    BY <2>4 DEF NameInv
<1>12. CASE ConnLost(a)
  <2>1. UNCHANGED <<row, box>> /\ (Lost(a) \/ Survives(a))
    BY <1>12, StepOfConnLost DEF ConnLost, serverVars
  <2>2. ASSUME NEW e \in Drafts PROVE CarriesPushes(e)
    <3>1. CASE Lost(a)
      BY <3>1, PushesEnded
    <3>2. CASE Survives(a)
      BY <3>2, PushesMoved DEF Survives, At, Top
    <3> QED
      BY <2>1, <3>1, <3>2
  <2> QED
    BY <1>3, <2>1, <2>2, CopiesKept DEF Carries
<1>13. CASE Refused(a)
  <2>1. UNCHANGED <<row, box>>
    BY <1>13, RefusedKeeps
  <2>2. ASSUME NEW e \in Drafts PROVE CarriesPushes(e)
    <3>1. CASE Ends(a)
      BY <3>1, PushesEnded
    <3>2. CASE Goto(a, LeftAlone(Top(a))) /\ Top(a).at = "drop"
      <4> DEFINE f == LeftAlone(Top(a))
      <4>1. f.d = Top(a).d /\ f.id = Top(a).id /\ stack[a] # <<>>
        BY <1>13, StepOfRefused DEF LeftAlone, FrameT
      <4> HIDE DEF f
      <4> QED
        BY <3>2, <4>1, PushesMoved DEF f
    <3> QED
      BY <1>13, <3>1, <3>2, StepOfRefused
  <2> QED
    BY <1>3, <2>1, <2>2, CopiesKept DEF Carries
<1> QED
  BY <1>4, <1>5, <1>7, <1>8, <1>9, <1>10, <1>11, <1>12, <1>13 DEF Worker, Push

-----------------------------------------------------------------------------
(* The theorem *)

DraftInv == Types /\ Numbered /\ Stacked /\ MarksType /\ HomeInv /\ NameInv

LEMMA DraftInvHolds == Spec => []DraftInv
<1>1. Init => DraftInv
  BY TypesInit, NumberedInit, MarksInit, HomeInit, NameInit DEF DraftInv, Init, Stacked
<1>2. ASSUME DraftInv, [Next]_vars PROVE DraftInv'
  <2>1. Types /\ Numbered /\ Stacked /\ MarksType /\ HomeInv /\ NameInv
    BY <1>2 DEF DraftInv
  <2>2. Types'
    <3>1. UNCHANGED vars => Types'
      BY <2>1 DEF vars, rowVars, serverVars, Types, RowsType, CmdsType, StackType, ServerType, SeenType
    <3> QED
      BY <1>2, <2>1, <3>1, ComposeTypes, WorkerTypes DEF Next
  <2>3. Numbered' /\ Stacked' /\ MarksType' /\ HomeInv'
    BY <1>2, <2>1, NumberedStep, StackedStep, MarksStep, HomeStep
  <2>4. NameInv'
    <3>1. UNCHANGED vars => NameInv'
      <4> SUFFICES ASSUME UNCHANGED vars, NEW d \in Drafts PROVE Named1(d)'
        BY DEF NameInv
      <4>1. UNCHANGED <<row, stack, box, marks>> /\ Named1(d)
        BY <2>1 DEF vars, rowVars, serverVars, NameInv
      <4> QED
        BY <4>1, NameStays DEF Moved
    <3> QED
      BY <1>2, <2>1, <3>1, NameCompose, NameWorker DEF Next
  <2> QED
    BY <2>2, <2>3, <2>4 DEF DraftInv
<1> QED
  BY <1>1, <1>2, PTL DEF Spec

\* Whatever pushes, sweeps, restarts and lost connections go on, every copy of a draft
\* that never changed accounts carries the Message-ID in its row: the stamp before the
\* append (store.SetDraftMessageID) is enough for the next push to find and sweep them.
THEOREM NamedOnce == Spec => []OneName
<1>1. DraftInv => OneName
  <2> SUFFICES ASSUME DraftInv, NEW d \in Drafts, row[d].is = "row", ~Moved(d),
                      NEW c \in Live(row[d].account, d)
               PROVE  c.id = row[d].id
    BY DEF OneName
  <2>1. row[d].account \in Accounts /\ Named1(d)
    BY DEF DraftInv, HomeInv, Home, NameInv
  <2> QED
    BY <2>1 DEF Live, Named1, CopyOf
<1> QED
  BY <1>1, DraftInvHolds, PTL

-----------------------------------------------------------------------------
(* What a step does to the copies and to the pushes of one account *)

\* The copy the top push of a appends.
Appended(a, w) ==
  /\ AppendCopy(a) /\ At(a, "append")
  /\ w.uid = next[a] /\ w.of = Top(a).d /\ w.id = Top(a).id /\ ~w.deleted

\* A copy is one there was, not deleted unless it was, or the one just appended.
BoxSteps(a) == \A w \in box'[a] :
  \/ \E c \in box[a] : w.uid = c.uid /\ w.of = c.of /\ w.id = c.id /\ (~w.deleted => w = c)
  \/ Appended(a, w)

LEMMA Trims ==
  ASSUME ServerType, NEW a \in Accounts, NEW U, NEW b \in Accounts,
         box' = [box EXCEPT ![a] = Without(a, U)]
  PROVE  BoxSteps(b)
<1>1. CASE b = a
  <2>1. box'[b] = Without(a, U)
    BY <1>1 DEF ServerType
  <2>2. ASSUME NEW w \in Without(a, U)
        PROVE  \E c \in box[a] : w.uid = c.uid /\ w.of = c.of /\ w.id = c.id /\ (~w.deleted => w = c)
    <3>1. PICK c \in box[a] : Remains(a, w, c, U)
      BY WithoutFacts
    <3>2. c \in CopyT
      BY DEF ServerType
    <3>3. a \notin plus /\ ~w.deleted => w = c
      <4> SUFFICES ASSUME a \notin plus, ~w.deleted PROVE w = c
        OBVIOUS
      <4>1. w = Marked(c, U) /\ c.uid \notin U /\ ~c.deleted
        BY <3>1 DEF Remains
      <4>2. (c.deleted \/ c.uid \in U) = c.deleted
        BY <3>2, <4>1 DEF CopyT
      <4> QED
        BY <3>2, <4>1, <4>2 DEF Marked, CopyT
    <3> QED
      BY <3>1, <3>3 DEF Remains
  <2> QED
    BY <1>1, <2>1, <2>2 DEF BoxSteps
<1>2. CASE b # a
  <2>1. box'[b] = box[b]
    BY <1>2 DEF ServerType
  <2> QED
    BY <2>1 DEF BoxSteps
<1> QED
  BY <1>1, <1>2

LEMMA BoxStep ==
  ASSUME Types, [Next]_vars, NEW b \in Accounts
  PROVE  BoxSteps(b) /\ next[b] \in Nat \ {0} /\ next'[b] \in Nat /\ next[b] <= next'[b]
<1>1. ServerType /\ box \in [Accounts -> SUBSET CopyT] /\ next \in [Accounts -> Nat \ {0}]
  BY DEF Types, ServerType
<1> DEFINE Goal == BoxSteps(b) /\ next'[b] \in Nat /\ next[b] <= next'[b]
<1>2. ASSUME UNCHANGED <<box, next>> PROVE Goal
  BY <1>1, <1>2 DEF BoxSteps
<1>3. ASSUME NEW a \in Accounts, NEW U, box' = [box EXCEPT ![a] = Without(a, U)], UNCHANGED next PROVE Goal
  <2>1. BoxSteps(b)
    BY <1>1, <1>3, Trims
  <2>2. next'[b] \in Nat /\ next[b] <= next'[b]
    BY <1>1, <1>3
  <2> QED
    BY <2>1, <2>2
<1>4. ASSUME NEW a \in Accounts, Take(a) PROVE Goal
  BY <1>2, <1>3, <1>4 DEF Take, DropRevision
<1>5. ASSUME NEW a \in Accounts, AppendCopy(a) PROVE Goal
  <2> DEFINE f == Top(a)
             new == [uid |-> next[a], id |-> f.id, of |-> f.d, body |-> f.body,
                     files |-> f.files, deleted |-> FALSE]
  <2>1. /\ box' = [box EXCEPT ![a] = @ \cup {new}] /\ At(a, "append")
        /\ next' = [next EXCEPT ![a] = @ + 1]
        /\ new.uid = next[a] /\ new.of = f.d /\ new.id = f.id /\ ~new.deleted
    BY <1>5 DEF AppendCopy
  <2> HIDE DEF new
  <2>2. Appended(a, new)
    BY <1>5, <2>1 DEF Appended
  <2>3. \A w \in box'[b] : w \in box[b] \/ (b = a /\ w = new)
    BY <1>1, <2>1
  <2>4. BoxSteps(b)
    BY <2>2, <2>3 DEF BoxSteps
  <2>5. next'[b] \in Nat /\ next[b] <= next'[b]
    BY <1>1, <2>1
  <2> QED
    BY <2>4, <2>5
<1>6. ASSUME NEW a \in Accounts, DropOld(a) PROVE Goal
  <2>1. /\ box' = [box EXCEPT ![a] = IF Top(a).old = 0 THEN box[a] ELSE Without(a, {Top(a).old})]
        /\ UNCHANGED next
    BY <1>6, Zenon DEF DropOld
  <2>2. CASE Top(a).old = 0
    <3>1. box' = [box EXCEPT ![a] = box[a]]
      BY <2>1, <2>2
    <3>2. box' = box
      BY <1>1, <3>1, Same
    <3> QED
      BY <1>2, <2>1, <3>2
  <2>3. CASE Top(a).old # 0
    <3>1. box' = [box EXCEPT ![a] = Without(a, {Top(a).old})]
      BY <2>1, <2>3
    <3> QED
      BY <1>3, <2>1, <3>1
  <2> QED
    BY <2>2, <2>3
<1>7. ASSUME NEW a \in Accounts, Sweep(a) PROVE Goal
  <2>1. (\E U : box' = [box EXCEPT ![a] = Without(a, U)]) /\ UNCHANGED next
    BY <1>7 DEF Sweep
  <2> QED
    BY <1>3, <2>1
<1>8. ASSUME NEW d \in Drafts,
             (\E a \in Accounts : UpsertDraft(d, a)) \/ KeepAndPublish(d) \/ DropRead(d) \/ DropDelete(d)
      PROVE  UNCHANGED <<box, next>>
  BY <1>8 DEF UpsertDraft, KeepAndPublish, DropRead, DropDelete, serverVars
<1>9. ASSUME NEW a \in Accounts, PushDirtyDrafts(a) \/ BuildDraft(a) \/ Clear(a) \/ ConnLost(a)
      PROVE  UNCHANGED <<box, next>>
  BY <1>9 DEF PushDirtyDrafts, BuildDraft, Clear, ConnLost, serverVars
<1>10. Tick \/ Restart \/ UNCHANGED vars => UNCHANGED <<box, next>>
  BY DEF Tick, Restart, vars, serverVars
<1>11. next[b] \in Nat \ {0}
  BY <1>1
<1>13. ASSUME NEW a \in Accounts, Refused(a) PROVE UNCHANGED <<box, next>>
  BY <1>13, RefusedKeeps
<1> HIDE DEF Goal
<1>12. Goal
  BY <1>2, <1>4, <1>5, <1>6, <1>7, <1>8, <1>9, <1>10, <1>13 DEF Next, Compose, Worker, Push
<1> QED
  BY <1>11, <1>12 DEF Goal

\* What the top push of a becomes: g.
Built(a, f, g) ==
  /\ BuildDraft(a) /\ f.at = "build" /\ g.at = "append" /\ g.uid = f.uid
  /\ g.id = IF f.id = NoId THEN <<f.d, a, next[a]>> ELSE f.id
  /\ g.old = f.old /\ g.folder = f.folder /\ g.body = f.body /\ g.files = row[f.d].files
SentOff(a, f, g) ==
  /\ AppendCopy(a) /\ f.at = "append" /\ g.at = "drop" /\ g.id = f.id
  /\ g.uid = IF a \in plus THEN next[a] ELSE 0
  /\ g.old = f.old /\ g.folder = f.folder
Yielded(a, f, g) ==
  /\ DropOld(a) /\ f.at = "drop" /\ g.at = "yield" /\ g.id = f.id
  /\ g.uid = f.uid /\ g.old = 0 /\ g.folder = None
Denied(a, f, g) ==
  /\ DropRefused(a) /\ f.at = "drop" /\ g.at = "drop" /\ g.id = f.id
  /\ g.uid = f.uid /\ g.old = 0 /\ g.folder = None /\ g.body = f.body /\ g.files = f.files
  /\ UNCHANGED <<row, box, next, seen, cmds>>
Latest(a, f) == IF f.uid # 0 THEN f.uid ELSE Max({0} \cup Named(a, f.id))
Swept(a, f, g) ==
  /\ Sweep(a) /\ f.at = "yield" /\ g.at = "clear" /\ g.id = f.id
  /\ g.uid = Latest(a, f) /\ g.old = f.old /\ g.folder = f.folder
Advanced(a, g) == LET f == Top(a) IN
  /\ stack[a] # <<>> /\ f = stack[a][1] /\ f \in FrameT
  /\ g \in FrameT /\ g.d = f.d /\ g.saved = f.saved
  /\ Built(a, f, g) \/ SentOff(a, f, g) \/ Denied(a, f, g) \/ Yielded(a, f, g) \/ Swept(a, f, g)

\* What a step does to the stack of a.
Rests(a) == stack'[a] = stack[a]
Enters(a) == \E d \in Drafts :
  /\ stack'[a] = <<Frame(d)>> \o stack[a] /\ Free(a) /\ row[d].is = "row"
  /\ Queued(a, d) \/ row[d].account = a
  /\ PushingAt(a, d) => Mark(d, {"nested"})
  /\ UNCHANGED <<row, box, next, seen>>
Advances(a) == \E g \in FrameT : Advanced(a, g) /\ stack'[a] = [stack[a] EXCEPT ![1] = g]
Fails(a) == AppendRefused(a) /\ Top(a).at = "append" /\ UNCHANGED <<row, box, next, seen, cmds>>
Finishes(a) == (Clear(a) \/ Fails(a)) /\ stack[a] # <<>> /\ stack'[a] = Tail(stack[a])
Alone(a) == \E g \in FrameT :
  /\ stack[a] # <<>> /\ stack'[a] = <<g>> /\ g.at = "clear"
  /\ \/ Sweep(a) /\ Advanced(a, g)
     \/ ConnLost(a) /\ g = Top(a) /\ Top(a) = stack[a][1] /\ UNCHANGED <<row, box, next, seen>>
Empties(a) == (ConnLost(a) \/ Restart) /\ stack'[a] = <<>> /\ UNCHANGED <<row, box, next, seen>>
StackSteps(a) == Rests(a) \/ Enters(a) \/ Advances(a) \/ Finishes(a) \/ Alone(a) \/ Empties(a)

LEMMA StackStepsOf ==
  ASSUME Types, Numbered, [Next]_vars, NEW b \in Accounts PROVE StackSteps(b)
<1>1. /\ row \in [Drafts -> RowT] /\ cmds \in [Accounts -> SUBSET CmdT]
      /\ stack \in [Accounts -> Seq(FrameT)]
  BY DEF Types, RowsType, CmdsType, StackType
<1>2. ASSUME UNCHANGED stack PROVE StackSteps(b)
  BY <1>2 DEF StackSteps, Rests
<1>3. ASSUME NEW a \in Accounts, a # b, NEW s, stack' = [stack EXCEPT ![a] = s] PROVE StackSteps(b)
  BY <1>1, <1>3 DEF StackSteps, Rests
<1>4. ASSUME NEW a \in Accounts, NEW d \in Drafts, Free(a), Queued(a, d) \/ row[d].account = a,
             stack' = [stack EXCEPT ![a] = Pushes(d) \o @], UNCHANGED <<row, box, next, seen>>,
             PushingAt(a, d) => Mark(d, {"nested"})
      PROVE  StackSteps(b)
  <2>1. CASE a # b
    BY <1>3, <1>4, <2>1
  <2>2. CASE a = b /\ row[d].is = "row"
    <3>1. stack'[b] = <<Frame(d)>> \o stack[b]
      BY <1>1, <1>4, <2>2 DEF Pushes
    <3> QED
      BY <1>4, <2>2, <3>1 DEF StackSteps, Enters
  <2>3. CASE a = b /\ row[d].is # "row"
    <3>1. stack'[b] = stack[b]
      BY <1>1, <1>4, <2>3 DEF Pushes
    <3> QED
      BY <3>1 DEF StackSteps, Rests
  <2> QED
    BY <2>1, <2>2, <2>3
<1>5. ASSUME NEW a \in Accounts, Take(a) PROVE StackSteps(b)
  <2>1. PICK c \in cmds[a] :
          \/ /\ stack' = [stack EXCEPT ![a] = Pushes(c.d) \o @] /\ UNCHANGED <<row, box, next, seen>>
             /\ PushingAt(a, c.d) => Mark(c.d, {"nested"})
          \/ UNCHANGED stack
    BY <1>5 DEF Take
  <2>2. c.d \in Drafts /\ Free(a) /\ Queued(a, c.d)
    BY <1>1, <1>5 DEF CmdT, Take, Queued
  <2> QED
    BY <1>2, <1>4, <2>1, <2>2
<1>6. ASSUME NEW a \in Accounts, PushDirtyDrafts(a) PROVE StackSteps(b)
  <2>1. PICK d \in Drafts :
          /\ row[d].account = a /\ stack[a] = <<>>
          /\ stack' = [stack EXCEPT ![a] = Pushes(d)]
          /\ UNCHANGED <<row, box, next, seen>>
    BY <1>6 DEF PushDirtyDrafts, DirtyDrafts, rowVars, serverVars
  <2>2. Pushes(d) \in Seq(FrameT)
    BY FrameType DEF Types, Pushes
  <2>3. Pushes(d) \o stack[a] = Pushes(d)
    BY <2>1, <2>2
  <2>4. ~PushingAt(a, d)
    BY <2>1 DEF PushingAt
  <2> QED
    BY <1>4, <2>1, <2>3, <2>4 DEF Free
<1>7. ASSUME NEW a \in Accounts, NEW g, Advanced(a, g), Goto(a, g) PROVE StackSteps(b)
  <2>1. CASE a # b
    BY <1>3, <1>7, <2>1 DEF Goto
  <2>2. CASE a = b
    <3>1. stack'[b] = [stack[b] EXCEPT ![1] = g] /\ g \in FrameT
      BY <1>1, <1>7, <2>2 DEF Goto, Advanced
    <3> QED
      BY <1>7, <2>2, <3>1 DEF StackSteps, Advances
  <2> QED
    BY <2>1, <2>2
<1>8. ASSUME NEW a \in Accounts, stack[a] # <<>>
      PROVE  Top(a) \in FrameT /\ Top(a) = stack[a][1] /\ Len(stack[a]) \in Nat \ {0}
  BY <1>8, TopType DEF Types
<1>9. ASSUME NEW a \in Accounts, NEW g, stack[a] # <<>>, Worker(a), DOMAIN g = DOMAIN Top(a),
             Goto(a, g) \/ stack' = [stack EXCEPT ![a] = <<g>>]
      PROVE  g \in FrameT
  <2>1. stack' \in [Accounts -> Seq(FrameT)] /\ stack[a] \in Seq(FrameT)
    BY <1>1, <1>9, WorkerTypes DEF Types, StackType
  <2>2. 1 \in DOMAIN stack'[a] /\ stack'[a][1] = g
    <3>1. CASE Goto(a, g)
      <4>1. stack'[a] = [stack[a] EXCEPT ![1] = g]
        BY <1>1, <3>1 DEF Goto
      <4>2. stack'[a] \in Seq(FrameT) /\ 1 \in DOMAIN stack[a]
        BY <1>9, <2>1
      <4> QED
        BY <4>1, <4>2
    <3>2. CASE stack' = [stack EXCEPT ![a] = <<g>>]
      BY <1>1, <3>2
    <3> QED
      BY <1>9, <3>1, <3>2
  <2> QED
    BY <2>1, <2>2
<1>10. ASSUME NEW a \in Accounts, BuildDraft(a) PROVE StackSteps(b)
  <2> DEFINE f == Top(a)
             id == IF f.id = NoId THEN <<f.d, a, next[a]>> ELSE f.id
             g == [f EXCEPT !.at = "append", !.files = row[f.d].files, !.id = id]
  <2>1. stack[a] # <<>> /\ Goto(a, g) /\ f.at = "build"
    BY <1>10 DEF BuildDraft, At, Top
  <2>2. f \in FrameT /\ f = stack[a][1]
    BY <1>8, <2>1
  <2>3. DOMAIN g = DOMAIN f
    BY <2>2 DEF FrameT
  <2>4. /\ g.d = f.d /\ g.saved = f.saved /\ g.at = "append" /\ g.uid = f.uid /\ g.id = id
        /\ g.old = f.old /\ g.folder = f.folder /\ g.body = f.body /\ g.files = row[f.d].files
    BY <2>2 DEF FrameT
  <2> HIDE DEF g
  <2>5. g \in FrameT
    BY <1>9, <1>10, <2>1, <2>3 DEF Worker, Push
  <2>6. Built(a, f, g)
    BY <1>10, <2>1, <2>4 DEF Built
  <2>7. Advanced(a, g)
    BY <2>1, <2>2, <2>4, <2>5, <2>6 DEF Advanced
  <2> QED
    BY <1>7, <2>1, <2>7
<1>11. ASSUME NEW a \in Accounts, AppendCopy(a) PROVE StackSteps(b)
  <2> DEFINE f == Top(a)
             g == [f EXCEPT !.at = "drop", !.body = 0, !.files = 0, !.uid = IF a \in plus THEN next[a] ELSE 0]
  <2>1. stack[a] # <<>> /\ Goto(a, g) /\ f.at = "append"
    BY <1>11 DEF AppendCopy, At, Top
  <2>2. f \in FrameT /\ f = stack[a][1]
    BY <1>8, <2>1
  <2>3. DOMAIN g = DOMAIN f
    BY <2>2 DEF FrameT
  <2>4. /\ g.d = f.d /\ g.saved = f.saved /\ g.at = "drop" /\ g.id = f.id
        /\ g.uid = (IF a \in plus THEN next[a] ELSE 0) /\ g.old = f.old /\ g.folder = f.folder
    BY <2>2 DEF FrameT
  <2> HIDE DEF g
  <2>5. g \in FrameT
    BY <1>9, <1>11, <2>1, <2>3 DEF Worker, Push
  <2>6. SentOff(a, f, g)
    BY <1>11, <2>1, <2>4 DEF SentOff
  <2>7. Advanced(a, g)
    BY <2>1, <2>2, <2>4, <2>5, <2>6 DEF Advanced
  <2> QED
    BY <1>7, <2>1, <2>7
<1>12. ASSUME NEW a \in Accounts, DropOld(a) PROVE StackSteps(b)
  <2> DEFINE f == Top(a)
             g == [f EXCEPT !.at = "yield", !.folder = None, !.old = 0]
  <2>1. stack[a] # <<>> /\ Goto(a, g) /\ f.at = "drop"
    BY <1>12, Zenon DEF DropOld, At, Top
  <2>2. f \in FrameT /\ f = stack[a][1]
    BY <1>8, <2>1
  <2>3. DOMAIN g = DOMAIN f
    BY <2>2 DEF FrameT
  <2>4. /\ g.d = f.d /\ g.saved = f.saved /\ g.at = "yield" /\ g.id = f.id
        /\ g.uid = f.uid /\ g.old = 0 /\ g.folder = None
    BY <2>2 DEF FrameT
  <2> HIDE DEF g
  <2>5. g \in FrameT
    BY <1>9, <1>12, <2>1, <2>3 DEF Worker, Push
  <2>6. Yielded(a, f, g)
    BY <1>12, <2>1, <2>4 DEF Yielded
  <2>7. Advanced(a, g)
    BY <2>1, <2>2, <2>4, <2>5, <2>6 DEF Advanced
  <2> QED
    BY <1>7, <2>1, <2>7
<1>13. ASSUME NEW a \in Accounts, Sweep(a) PROVE StackSteps(b)
  <2> DEFINE f == Top(a)
             uid == Latest(a, f)
             g == [f EXCEPT !.at = "clear", !.uid = uid]
  <2>1. /\ stack[a] # <<>> /\ f.at = "yield"
        /\ Goto(a, g) \/ stack' = [stack EXCEPT ![a] = <<g>>]
    BY <1>13 DEF Sweep, At, Top, Latest
  <2>2. f \in FrameT /\ f = stack[a][1]
    BY <1>8, <2>1
  <2> HIDE DEF uid
  <2>3. DOMAIN g = DOMAIN f
    BY <2>2 DEF FrameT
  <2>4. /\ g.d = f.d /\ g.saved = f.saved /\ g.at = "clear" /\ g.id = f.id
        /\ g.uid = uid /\ g.old = f.old /\ g.folder = f.folder
    BY <2>2 DEF FrameT
  <2> HIDE DEF g
  <2>5. g \in FrameT
    BY <1>9, <1>13, <2>1, <2>3 DEF Worker, Push
  <2>6. Swept(a, f, g)
    BY <1>13, <2>1, <2>4 DEF Swept, uid
  <2>7. Advanced(a, g)
    BY <2>1, <2>2, <2>4, <2>5, <2>6 DEF Advanced
  <2>8. CASE stack' = [stack EXCEPT ![a] = <<g>>] /\ a = b
    <3>1. stack'[b] = <<g>>
      BY <1>1, <2>8
    <3> QED
      BY <1>13, <2>1, <2>4, <2>5, <2>7, <2>8, <3>1 DEF StackSteps, Alone
  <2> QED
    BY <1>3, <1>7, <2>1, <2>7, <2>8
<1>14. ASSUME NEW a \in Accounts, Clear(a) PROVE StackSteps(b)
  <2>1. stack[a] # <<>> /\ stack' = [stack EXCEPT ![a] = Tail(stack[a])]
    BY <1>14 DEF Clear, At
  <2>2. CASE a = b
    <3>1. stack'[b] = Tail(stack[b])
      BY <1>1, <2>1, <2>2
    <3> QED
      BY <1>14, <2>1, <2>2, <3>1 DEF StackSteps, Finishes
  <2> QED
    BY <1>3, <2>1, <2>2
<1>15. ASSUME NEW a \in Accounts, ConnLost(a) PROVE StackSteps(b)
  <2>1. (Lost(a) \/ Survives(a)) /\ UNCHANGED <<row, box, next, seen>>
    BY <1>15, StepOfConnLost DEF ConnLost, serverVars
  <2>2. CASE Lost(a) /\ a = b
    <3>1. stack'[b] = <<>>
      BY <1>1, <2>2 DEF Lost
    <3> QED
      BY <1>15, <2>1, <2>2, <3>1 DEF StackSteps, Empties
  <2>3. CASE Survives(a) /\ a = b
    <3>1. stack'[b] = <<Top(b)>> /\ stack[b] # <<>> /\ Top(b).at = "clear"
      BY <1>1, <2>3 DEF Survives, At, Top
    <3> QED
      BY <1>8, <1>15, <2>1, <2>3, <3>1 DEF StackSteps, Alone
  <2>4. CASE a # b
    BY <1>3, <2>1, <2>4 DEF Lost, Survives
  <2> QED
    BY <2>1, <2>2, <2>3, <2>4
<1>16. ASSUME Restart PROVE StackSteps(b)
  <2>1. stack'[b] = <<>> /\ UNCHANGED <<row, box, next, seen>>
    BY <1>16 DEF Restart, serverVars
  <2> QED
    BY <1>16, <2>1 DEF StackSteps, Empties
<1>17. ASSUME NEW d \in Drafts,
             (\E a \in Accounts : UpsertDraft(d, a)) \/ KeepAndPublish(d) \/ DropRead(d) \/ DropDelete(d)
      PROVE  UNCHANGED stack
  BY <1>17 DEF UpsertDraft, KeepAndPublish, DropRead, DropDelete
<1>18. Tick \/ UNCHANGED vars => UNCHANGED stack
  BY DEF Tick, vars
<1>19. ASSUME NEW a \in Accounts, Refused(a) PROVE StackSteps(b)
  <2>1. UNCHANGED <<row, box, next, seen, cmds>>
    BY <1>19, RefusedKeeps
  <2>2. stack[a] # <<>> /\ Top(a) \in FrameT /\ Top(a) = stack[a][1]
    BY <1>19, StepOfRefused
  <2>3. CASE AppendRefused(a) /\ Top(a).at = "append" /\ Ends(a)
    <3>1. stack' = [stack EXCEPT ![a] = Tail(stack[a])]
      BY <2>3 DEF Ends
    <3>2. CASE a = b
      <4>1. stack'[b] = Tail(stack[b])
        BY <1>1, <3>1, <3>2
      <4> QED
        BY <2>1, <2>2, <2>3, <3>2, <4>1 DEF StackSteps, Finishes, Fails
    <3> QED
      BY <1>3, <3>1, <3>2
  <2>4. CASE DropRefused(a) /\ Top(a).at = "drop"
    <3> DEFINE f == Top(a)
               g == LeftAlone(f)
    <3>1. Goto(a, g) /\ g \in FrameT
      BY <1>19, <2>4, StepOfRefused
    <3>2. /\ g.d = f.d /\ g.saved = f.saved /\ g.at = "drop" /\ g.id = f.id /\ g.uid = f.uid
          /\ g.old = 0 /\ g.folder = None /\ g.body = f.body /\ g.files = f.files
      BY <2>2, <2>4 DEF LeftAlone, FrameT
    <3> HIDE DEF g
    <3>3. Denied(a, f, g)
      BY <2>1, <2>4, <3>2 DEF Denied
    <3>4. Advanced(a, g)
      BY <2>2, <3>1, <3>2, <3>3 DEF Advanced
    <3> QED
      BY <1>7, <3>1, <3>4
  <2> QED
    BY <1>19, <2>3, <2>4, StepOfRefused
<1> QED
  BY <1>2, <1>5, <1>6, <1>10, <1>11, <1>12, <1>13, <1>14, <1>15, <1>16, <1>17, <1>18, <1>19
     DEF Next, Compose, Worker, Push

\* Every push in progress was in progress, has just begun, or is what the top one became.
LEMMA FrameStep ==
  ASSUME Types, Numbered, [Next]_vars, NEW b \in Accounts, NEW i \in DOMAIN stack'[b]
  PROVE  \/ \E j \in DOMAIN stack[b] : stack'[b][i] = stack[b][j]
         \/ /\ i = 1 /\ UNCHANGED <<row, box, next, seen>>
            /\ \E d \in Drafts : /\ stack'[b][i] = Frame(d) /\ row[d].is = "row"
                                 /\ Queued(b, d) \/ row[d].account = b
         \/ i = 1 /\ stack'[b][i] \in FrameT /\ Advanced(b, stack'[b][i])
<1>1. stack[b] \in Seq(FrameT) /\ Len(stack[b]) \in Nat
  BY DEF Types, StackType
<1>2. CASE Rests(b)
  BY <1>2 DEF Rests
<1>3. CASE Enters(b)
  <2>1. PICK d \in Drafts :
          /\ stack'[b] = <<Frame(d)>> \o stack[b] /\ row[d].is = "row"
          /\ Queued(b, d) \/ row[d].account = b
          /\ UNCHANGED <<row, box, next, seen>>
    BY <1>3 DEF Enters
  <2> DEFINE s == <<Frame(d)>> \o stack[b]
  <2>2. Frame(d) \in FrameT
    BY FrameType DEF Types
  <2>3. /\ s \in Seq(FrameT) /\ Len(s) = Len(stack[b]) + 1 /\ s[1] = Frame(d)
        /\ \A j \in 1..Len(stack[b]) : s[j + 1] = stack[b][j]
    BY <1>1, <2>2, Pushed
  <2> HIDE DEF s
  <2>4. CASE i = 1
    BY <2>1, <2>3, <2>4 DEF s
  <2>5. CASE i # 1
    <3>1. i - 1 \in 1..Len(stack[b]) /\ (i - 1) + 1 = i
      BY <1>1, <2>1, <2>3, <2>5 DEF s
    <3>2. s[(i - 1) + 1] = stack[b][i - 1] /\ i - 1 \in DOMAIN stack[b]
      BY <1>1, <2>3, <3>1
    <3> QED
      BY <2>1, <3>1, <3>2 DEF s
  <2> QED
    BY <2>4, <2>5
<1>4. CASE Advances(b)
  <2>1. PICK g \in FrameT : Advanced(b, g) /\ stack'[b] = [stack[b] EXCEPT ![1] = g]
    BY <1>4 DEF Advances
  <2>2. i = 1 => stack'[b][i] = g
    BY <1>1, <2>1
  <2>3. i # 1 => i \in DOMAIN stack[b] /\ stack'[b][i] = stack[b][i]
    BY <1>1, <2>1
  <2> QED
    BY <2>1, <2>2, <2>3
<1>5. CASE Finishes(b)
  <2>1. stack[b] # <<>> /\ stack'[b] = Tail(stack[b])
    BY <1>5 DEF Finishes
  <2>2. i + 1 \in DOMAIN stack[b] /\ stack'[b][i] = stack[b][i + 1]
    BY <1>1, <2>1, Popped
  <2> QED
    BY <2>2
<1>6. CASE Alone(b)
  <2>1. PICK g \in FrameT :
          /\ stack[b] # <<>> /\ stack'[b] = <<g>>
          /\ Advanced(b, g) \/ g = stack[b][1]
    BY <1>6 DEF Alone
  <2>2. i = 1 /\ stack'[b][i] = g /\ 1 \in DOMAIN stack[b]
    BY <1>1, <2>1
  <2> QED
    BY <2>1, <2>2
<1>7. CASE Empties(b)
  BY <1>7 DEF Empties
<1> QED
  BY <1>2, <1>3, <1>4, <1>5, <1>6, <1>7, StackStepsOf DEF StackSteps

-----------------------------------------------------------------------------
(* What a step does to a row *)

Stamped(d, a) ==
  /\ BuildDraft(a) /\ stack[a] # <<>> /\ Top(a).d = d /\ Top(a).at = "build" /\ Top(a).id = NoId
  /\ row[d].is = "row" /\ row'[d] = [row[d] EXCEPT !.id = <<d, a, next[a]>>]
Cleared(d, a) ==
  /\ Clear(a) /\ stack[a] # <<>> /\ Top(a).d = d /\ Top(a).at = "clear"
  /\ row[d].is = "row" /\ row'[d] = ClearDraftDirty(d, Top(a), a)
Rewritten(d, a) == UpsertDraft(d, a) /\ row[d].is # "gone" /\ row'[d] = Upserted(d, a)
Refiled(d) == KeepAndPublish(d) /\ row[d].is = "row" /\ row'[d] = [row[d] EXCEPT !.files = saves]
Deleted(d) == DropDelete(d) /\ row'[d] = NoRow("gone")
RowSteps(d) ==
  \/ row'[d] = row[d]
  \/ \E a \in Accounts : Rewritten(d, a) \/ Stamped(d, a) \/ Cleared(d, a)
  \/ Refiled(d) \/ Deleted(d)

LEMMA RowStep == ASSUME Types, [Next]_vars, NEW d \in Drafts PROVE RowSteps(d)
<1>1. row \in [Drafts -> RowT]
  BY DEF Types, RowsType
<1>2. ASSUME UNCHANGED row PROVE RowSteps(d)
  BY <1>2 DEF RowSteps
<1>3. ASSUME NEW e \in Drafts, NEW r, row' = [row EXCEPT ![e] = r], e # d PROVE RowSteps(d)
  BY <1>1, <1>3 DEF RowSteps
<1>4. ASSUME NEW e \in Drafts, NEW a \in Accounts, UpsertDraft(e, a) PROVE RowSteps(d)
  <2>1. row' = [row EXCEPT ![e] = Upserted(e, a)]
    BY <1>4 DEF UpsertDraft
  <2>2. CASE e = d /\ row[d].is # "gone"
    BY <1>1, <1>4, <2>1, <2>2 DEF RowSteps, Rewritten
  <2>3. CASE e = d /\ row[d].is = "gone"
    <3>1. Upserted(d, a) = row[d]
      BY <2>3 DEF Upserted
    <3> QED
      BY <1>1, <2>1, <2>3, <3>1 DEF RowSteps
  <2> QED
    BY <1>3, <2>1, <2>2, <2>3
<1>5. ASSUME NEW e \in Drafts, KeepAndPublish(e) PROVE RowSteps(d)
  <2>1. UNCHANGED row \/ (row[e].is = "row" /\ row' = [row EXCEPT ![e].files = saves])
    BY <1>5 DEF KeepAndPublish
  <2>2. CASE row[e].is = "row" /\ row' = [row EXCEPT ![e].files = saves] /\ e = d
    BY <1>1, <1>5, <2>2 DEF RowSteps, Refiled
  <2> QED
    BY <1>2, <1>3, <2>1, <2>2
<1>6. ASSUME NEW e \in Drafts, DropDelete(e) PROVE RowSteps(d)
  <2>1. row' = [row EXCEPT ![e] = NoRow("gone")]
    BY <1>6 DEF DropDelete
  <2>2. e = d => row'[d] = NoRow("gone")
    BY <1>1, <2>1
  <2> QED
    BY <1>3, <1>6, <2>1, <2>2 DEF RowSteps, Deleted
<1>7. ASSUME NEW a \in Accounts, stack[a] # <<>> PROVE Top(a).d \in Drafts
  BY <1>7, TopType DEF Types, FrameT
<1>8. ASSUME NEW a \in Accounts, BuildDraft(a) PROVE RowSteps(d)
  <2> DEFINE f == Top(a)
  <2>1. stack[a] # <<>> /\ f.at = "build"
    BY <1>8 DEF BuildDraft, At, Top
  <2>2. f.id # NoId => UNCHANGED row
    BY <1>8 DEF BuildDraft
  <2>3. f.id = NoId => row' = [row EXCEPT ![f.d].id = IF row[f.d].is = "row" THEN <<f.d, a, next[a]>> ELSE @]
    BY <1>8 DEF BuildDraft, SetDraftMessageID
  <2>4. f.d \in Drafts
    BY <1>7, <2>1
  <2>5. CASE f.id = NoId /\ f.d = d /\ row[d].is = "row"
    <3>1. row'[d] = [row[d] EXCEPT !.id = <<d, a, next[a]>>]
      BY <1>1, <2>3, <2>5
    <3> QED
      BY <1>8, <2>1, <2>5, <3>1 DEF RowSteps, Stamped
  <2>6. CASE f.id = NoId /\ f.d = d /\ row[d].is # "row"
    <3>1. row'[d] = [row[d] EXCEPT !.id = row[d].id]
      BY <1>1, <2>3, <2>6
    <3>2. row'[d] = row[d]
      BY <1>1, <3>1 DEF RowT
    <3> QED
      BY <3>2 DEF RowSteps
  <2>7. CASE f.id = NoId /\ f.d # d
    BY <1>1, <2>3, <2>7 DEF RowSteps
  <2> QED
    BY <1>2, <2>2, <2>5, <2>6, <2>7
<1>9. ASSUME NEW a \in Accounts, Clear(a) PROVE RowSteps(d)
  <2> DEFINE f == Top(a)
  <2>1. /\ stack[a] # <<>> /\ f.at = "clear"
        /\ row' = [row EXCEPT ![f.d] = IF @.is = "row" THEN ClearDraftDirty(f.d, f, a) ELSE @]
    BY <1>9 DEF Clear, At, Top
  <2>2. f.d \in Drafts
    BY <1>7, <2>1
  <2>3. CASE f.d = d /\ row[d].is = "row"
    <3>1. row'[d] = ClearDraftDirty(d, f, a)
      BY <1>1, <2>1, <2>3
    <3> QED
      BY <1>9, <2>1, <2>3, <3>1 DEF RowSteps, Cleared
  <2>4. CASE f.d # d \/ row[d].is # "row"
    BY <1>1, <2>1, <2>4 DEF RowSteps
  <2> QED
    BY <2>3, <2>4
<1>10. ASSUME NEW e \in Drafts, DropRead(e) PROVE RowSteps(d)
  BY <1>2, <1>10 DEF DropRead
<1>11. ASSUME NEW a \in Accounts,
              Take(a) \/ PushDirtyDrafts(a) \/ AppendCopy(a) \/ DropOld(a) \/ Sweep(a) \/ ConnLost(a)
       PROVE  UNCHANGED row
  BY <1>11 DEF Take, PushDirtyDrafts, AppendCopy, DropOld, Sweep, ConnLost, rowVars
<1>12. Tick \/ Restart \/ UNCHANGED vars => UNCHANGED row
  BY DEF Tick, Restart, vars, rowVars
<1>13. ASSUME NEW a \in Accounts, Refused(a) PROVE UNCHANGED row
  BY <1>13, RefusedKeeps
<1> QED
  BY <1>2, <1>4, <1>5, <1>6, <1>8, <1>9, <1>10, <1>11, <1>12, <1>13 DEF Next, Compose, Worker, Push

-----------------------------------------------------------------------------
(* Message-IDs name their draft *)

Minted(id, d) == id # NoId /\ id[1] = d
FrameMinted(f) == (f.id = NoId \/ Minted(f.id, f.d)) /\ (f.at # "build" => f.id # NoId)
RowMinted(d) == row[d].id = NoId \/ Minted(row[d].id, d)
MintInv ==
  /\ \A d \in Drafts : RowMinted(d)
  /\ \A a \in Accounts :
       /\ \A i \in DOMAIN stack[a] : FrameMinted(stack[a][i])
       /\ \A c \in box[a] : Minted(c.id, c.of)

LEMMA MintInit == Init => MintInv
<1> SUFFICES ASSUME Init PROVE MintInv
  OBVIOUS
<1>1. \A d \in Drafts : RowMinted(d)
  BY DEF Init, RowMinted, NoRow
<1>2. ASSUME NEW a \in Accounts, NEW c \in box[a] PROVE Minted(c.id, c.of)
  <2>1. c = ForeignCopy(a)
    BY <1>2 DEF Init
  <2>2. <<Elsewhere, a, 1>> # NoId
    BY DEF NoId, None, Elsewhere
  <2> QED
    BY <2>1, <2>2 DEF ForeignCopy, Minted
<1> QED
  BY <1>1, <1>2 DEF Init, MintInv

LEMMA MintStep == ASSUME Types, Numbered, MintInv, [Next]_vars PROVE MintInv'
<1>1. ASSUME NEW d \in Drafts, NEW a, NEW n PROVE Minted(<<d, a, n>>, d)
  BY SetsAssumption DEF Minted, NoId
<1>2. ASSUME NEW a \in Accounts, stack[a] # <<>>
      PROVE  Top(a) \in FrameT /\ Top(a).d \in Drafts /\ FrameMinted(Top(a))
  <2>1. Top(a) = stack[a][1] /\ 1 \in DOMAIN stack[a] /\ Top(a) \in FrameT
    BY <1>2, TopType DEF Types, StackType
  <2> QED
    BY <2>1 DEF MintInv, FrameT
<1>3. ASSUME NEW d \in Drafts PROVE RowMinted(d)'
  <2>1. row[d] \in RowT /\ RowMinted(d) /\ RowSteps(d)
    BY RowStep DEF Types, RowsType, MintInv
  <2>2. CASE row'[d].id = row[d].id
    BY <2>1, <2>2 DEF RowMinted
  <2>3. ASSUME NEW a \in Accounts, Rewritten(d, a) PROVE row'[d].id = row[d].id
    BY <2>1, <2>3 DEF Rewritten, Upserted, RowT
  <2>4. CASE Refiled(d)
    BY <2>1, <2>2, <2>4 DEF Refiled, RowT
  <2>5. CASE Deleted(d)
    BY <2>5 DEF Deleted, NoRow, RowMinted
  <2>6. ASSUME NEW a \in Accounts, Stamped(d, a) PROVE RowMinted(d)'
    <3>1. row'[d].id = <<d, a, next[a]>>
      BY <2>1, <2>6 DEF Stamped, RowT
    <3> QED
      BY <1>1, <3>1 DEF RowMinted
  <2>7. ASSUME NEW a \in Accounts, Cleared(d, a) PROVE RowMinted(d)'
    <3>1. row'[d].id = Top(a).id /\ Top(a).d = d /\ stack[a] # <<>>
      BY <2>1, <2>7 DEF Cleared, ClearDraftDirty, RowT
    <3> QED
      BY <1>2, <3>1 DEF RowMinted, FrameMinted
  <2> QED
    BY <2>1, <2>2, <2>3, <2>4, <2>5, <2>6, <2>7 DEF RowSteps
<1>4. ASSUME NEW a \in Accounts, NEW i \in DOMAIN stack'[a] PROVE FrameMinted(stack'[a][i])
  <2>1. CASE \E j \in DOMAIN stack[a] : stack'[a][i] = stack[a][j]
    BY <2>1 DEF MintInv
  <2>2. ASSUME NEW d \in Drafts PROVE FrameMinted(Frame(d))
    BY DEF Frame, FrameMinted, MintInv, RowMinted
  <2>3. ASSUME NEW g \in FrameT, Advanced(a, g) PROVE FrameMinted(g)
    <3>1. stack[a] # <<>> /\ g.d = Top(a).d
      BY <2>3 DEF Advanced
    <3>2. FrameMinted(Top(a)) /\ Top(a).d \in Drafts
      BY <1>2, <3>1
    <3>3. CASE Built(a, Top(a), g)
      <4>1. Minted(<<g.d, a, next[a]>>, g.d)
        BY <1>1, <3>1, <3>2
      <4> QED
        BY <3>1, <3>2, <3>3, <4>1 DEF Built, FrameMinted, Minted
    <3>4. CASE SentOff(a, Top(a), g) \/ Denied(a, Top(a), g) \/ Yielded(a, Top(a), g) \/ Swept(a, Top(a), g)
      BY <3>1, <3>2, <3>4 DEF SentOff, Denied, Yielded, Swept, FrameMinted
    <3> QED
      BY <2>3, <3>3, <3>4 DEF Advanced
  <2> QED
    BY <2>1, <2>2, <2>3, FrameStep
<1>5. ASSUME NEW a \in Accounts, NEW w \in box'[a] PROVE Minted(w.id, w.of)
  <2>1. CASE \E c \in box[a] : w.of = c.of /\ w.id = c.id
    BY <2>1 DEF MintInv
  <2>2. CASE Appended(a, w)
    <3>1. stack[a] # <<>> /\ Top(a).at = "append" /\ w.of = Top(a).d /\ w.id = Top(a).id
      BY <2>2 DEF Appended, At, Top
    <3> QED
      BY <1>2, <3>1 DEF FrameMinted
  <2> QED
    BY <1>5, <2>1, <2>2, BoxStep DEF BoxSteps
<1> QED
  BY <1>3, <1>4, <1>5 DEF MintInv

-----------------------------------------------------------------------------
(* What a step does to the mailbox of one account *)

Untouched(b) == box'[b] = box[b] /\ next'[b] = next[b] /\ seen'[b] = seen[b]
Spared(b, u) == \A r \in seen[b] : r.uid # u => r \in seen'[b]
\* Another account's worker unlists what it takes for its own.
Strays(b) ==
  /\ box'[b] = box[b] /\ next'[b] = next[b] /\ seen'[b] \subseteq seen[b]
  /\ \E a \in Accounts \ {b} :
       \/ \E c \in cmds[a] : c.op = "drop" /\ c.folder = b /\ Spared(b, c.uid)
       \/ /\ stack[a] # <<>> /\ Top(a).at = "drop" /\ Top(a).folder = b /\ Top(a).old # 0
          /\ Spared(b, Top(a).old)
Removes(b) == \E c \in cmds[b] :
  /\ c.op = "drop" /\ Free(b) /\ UNCHANGED <<row, stack, next>>
  /\ box'[b] = Without(b, {c.uid}) /\ seen'[b] = Unlisted(b, c.folder, {c.uid})[b]
Grows(b) == \E w :
  /\ Appended(b, w) /\ w.body = Top(b).body /\ w.files = Top(b).files
  /\ box'[b] = box[b] \cup {w} /\ next'[b] = next[b] + 1 /\ seen'[b] = seen[b] /\ UNCHANGED row
MailSteps(b) == Untouched(b) \/ Strays(b) \/ Removes(b) \/ Grows(b) \/ DropOld(b) \/ Sweep(b)

LEMMA MailStep == ASSUME Types, [Next]_vars, NEW b \in Accounts PROVE MailSteps(b)
<1>1. /\ box \in [Accounts -> SUBSET CopyT] /\ next \in [Accounts -> Nat \ {0}]
      /\ seen \in [Accounts -> SUBSET SeenT] /\ SeenType
  BY DEF Types, ServerType, SeenType
<1>2. ASSUME UNCHANGED <<box, next, seen>> PROVE MailSteps(b)
  BY <1>2 DEF MailSteps, Untouched
<1>3. ASSUME NEW a \in Accounts, NEW g, NEW U
      PROVE  /\ Unlisted(a, g, U) \in [Accounts -> SUBSET SeenT] /\ Unlisted(a, g, U)[b] \subseteq seen[b]
             /\ g # b => Unlisted(a, g, U)[b] = seen[b]
             /\ \A r \in seen[b] : r.uid \notin U => r \in Unlisted(a, g, U)[b]
  <2>1. /\ Unlisted(a, g, U) \in [Accounts -> SUBSET SeenT] /\ Unlisted(a, g, U)[b] \subseteq seen[b]
        /\ \A r \in seen[b] : r.uid \notin U => r \in Unlisted(a, g, U)[b]
    BY <1>1, UnlistedType, UnlistedFacts
  <2>2. g # b => Unlisted(a, g, U)[b] = seen[b]
    BY <1>1 DEF Unlisted
  <2> QED
    BY <2>1, <2>2
<1>4. ASSUME NEW a \in Accounts, Take(a) PROVE MailSteps(b)
  <2>1. PICK c \in cmds[a] :
          /\ Free(a) /\ UNCHANGED <<row, next>>
          /\ \/ UNCHANGED <<box, seen>>
             \/ /\ c.op = "drop" /\ UNCHANGED stack
                /\ box' = [box EXCEPT ![a] = Without(a, {c.uid})] /\ seen' = Unlisted(a, c.folder, {c.uid})
    BY <1>4 DEF Take, DropRevision
  <2>2. CASE UNCHANGED <<box, seen>>
    BY <1>2, <2>1, <2>2
  <2>3. CASE /\ c.op = "drop" /\ UNCHANGED stack
             /\ box' = [box EXCEPT ![a] = Without(a, {c.uid})] /\ seen' = Unlisted(a, c.folder, {c.uid})
    <3>1. CASE a = b
      <4>1. box'[b] = Without(b, {c.uid})
        BY <1>1, <2>3, <3>1
      <4> QED
        BY <2>1, <2>3, <3>1, <4>1 DEF MailSteps, Removes
    <3>2. CASE a # b
      <4>1. box'[b] = box[b] /\ next'[b] = next[b]
        BY <1>1, <2>1, <2>3, <3>2
      <4>2. CASE c.folder = b
        <5>1. seen'[b] \subseteq seen[b] /\ Spared(b, c.uid)
          BY <1>3, <2>3 DEF Spared
        <5> QED
          BY <2>3, <3>2, <4>1, <4>2, <5>1 DEF MailSteps, Strays
      <4>3. CASE c.folder # b
        BY <1>3, <2>3, <4>1, <4>3 DEF MailSteps, Untouched
      <4> QED
        BY <4>2, <4>3
    <3> QED
      BY <3>1, <3>2
  <2> QED
    BY <2>1, <2>2, <2>3
<1>5. ASSUME NEW a \in Accounts, AppendCopy(a) PROVE MailSteps(b)
  <2> DEFINE f == Top(a)
             w == [uid |-> next[a], id |-> f.id, of |-> f.d, body |-> f.body,
                   files |-> f.files, deleted |-> FALSE]
  <2>1. /\ box' = [box EXCEPT ![a] = @ \cup {w}] /\ At(a, "append")
        /\ next' = [next EXCEPT ![a] = @ + 1] /\ UNCHANGED <<row, seen>>
        /\ w.uid = next[a] /\ w.of = f.d /\ w.id = f.id /\ ~w.deleted /\ w.body = f.body /\ w.files = f.files
    BY <1>5 DEF AppendCopy, rowVars
  <2> HIDE DEF w
  <2>2. CASE a = b
    <3>1. box'[b] = box[b] \cup {w} /\ next'[b] = next[b] + 1
      BY <1>1, <2>1, <2>2
    <3> QED
      BY <1>5, <2>1, <2>2, <3>1 DEF MailSteps, Grows, Appended
  <2>3. CASE a # b
    BY <1>1, <2>1, <2>3 DEF MailSteps, Untouched
  <2> QED
    BY <2>2, <2>3
<1>6. ASSUME NEW a \in Accounts, DropOld(a), a # b PROVE MailSteps(b)
  <2> DEFINE f == Top(a)
             left == IF f.old = 0 THEN box[a] ELSE Without(a, {f.old})
             known == IF f.old = 0 THEN seen ELSE Unlisted(a, f.folder, {f.old})
             top == Max({0} \cup {r.uid : r \in known[a]})
             more == {[uid |-> c.uid, id |-> c.id] : c \in {x \in left : x.uid > top}}
  <2>1. /\ At(a, "drop") /\ box' = [box EXCEPT ![a] = left]
        /\ seen' = [known EXCEPT ![a] = @ \cup more] /\ UNCHANGED next
    BY <1>6, Zenon DEF DropOld
  <2> HIDE DEF left, known, more
  <2>2. stack[a] # <<>> /\ f.at = "drop"
    BY <2>1 DEF At, Top
  <2>3. known \in [Accounts -> SUBSET SeenT]
    BY <1>1, <1>3 DEF known
  <2>4. box'[b] = box[b] /\ next'[b] = next[b] /\ seen'[b] = known[b]
    BY <1>1, <1>6, <2>1, <2>3
  <2>5. CASE f.old = 0 \/ f.folder # b
    <3>1. known[b] = seen[b]
      BY <1>3, <2>5 DEF known
    <3> QED
      BY <2>4, <3>1 DEF MailSteps, Untouched
  <2>6. CASE f.old # 0 /\ f.folder = b
    <3>1. known[b] \subseteq seen[b] /\ \A r \in seen[b] : r.uid # f.old => r \in known[b]
      BY <1>3, <2>6 DEF known
    <3> QED
      BY <1>6, <2>2, <2>4, <2>6, <3>1 DEF MailSteps, Strays, Spared
  <2> QED
    BY <2>5, <2>6
<1>7. ASSUME NEW a \in Accounts, Sweep(a), a # b PROVE MailSteps(b)
  <2>1. PICK U : box' = [box EXCEPT ![a] = Without(a, U)] /\ seen' = Unlisted(a, a, U) /\ UNCHANGED next
    BY <1>7 DEF Sweep
  <2>2. box'[b] = box[b] /\ next'[b] = next[b] /\ seen'[b] = seen[b]
    BY <1>1, <1>3, <1>7, <2>1
  <2> QED
    BY <2>2 DEF MailSteps, Untouched
<1>8. ASSUME NEW d \in Drafts,
             (\E a \in Accounts : UpsertDraft(d, a)) \/ KeepAndPublish(d) \/ DropRead(d) \/ DropDelete(d)
      PROVE  UNCHANGED <<box, next, seen>>
  BY <1>8 DEF UpsertDraft, KeepAndPublish, DropRead, DropDelete, serverVars
<1>9. ASSUME NEW a \in Accounts, PushDirtyDrafts(a) \/ BuildDraft(a) \/ Clear(a) \/ ConnLost(a)
      PROVE  UNCHANGED <<box, next, seen>>
  BY <1>9 DEF PushDirtyDrafts, BuildDraft, Clear, ConnLost, serverVars
<1>10. Tick \/ Restart \/ UNCHANGED vars => UNCHANGED <<box, next, seen>>
  BY DEF Tick, Restart, vars, serverVars
<1>11. DropOld(b) \/ Sweep(b) => MailSteps(b)
  BY DEF MailSteps
<1>12. ASSUME NEW a \in Accounts, Refused(a) PROVE UNCHANGED <<box, next, seen>>
  BY <1>12, RefusedKeeps
<1> QED
  BY <1>2, <1>4, <1>5, <1>6, <1>7, <1>8, <1>9, <1>10, <1>11, <1>12 DEF Next, Compose, Worker, Push

LEMMA PlusStays == [Next]_vars => plus' = plus
<1>1. ASSUME NEW d \in Drafts,
             (\E a \in Accounts : UpsertDraft(d, a)) \/ KeepAndPublish(d) \/ DropRead(d) \/ DropDelete(d)
      PROVE  plus' = plus
  BY <1>1 DEF UpsertDraft, KeepAndPublish, DropRead, DropDelete, serverVars
<1>2. ASSUME NEW a \in Accounts, Worker(a) \/ ConnLost(a) PROVE plus' = plus
  BY <1>2 DEF Worker, Push, Take, PushDirtyDrafts, BuildDraft, AppendCopy, DropOld, Sweep, Clear, ConnLost, serverVars
<1>3. Tick \/ Restart \/ UNCHANGED vars => plus' = plus
  BY DEF Tick, Restart, vars, serverVars
<1>4. ASSUME NEW a \in Accounts, Refused(a) PROVE plus' = plus
  BY <1>4, RefusedKeeps
<1> QED
  BY <1>1, <1>2, <1>3, <1>4 DEF Next, Compose

-----------------------------------------------------------------------------
(* What the server told the push at the top *)

\* Between the append and the sweep a push knows the new UID where the server has UIDPLUS.
Told(a, f) ==
  /\ f.at \in {"build", "append"} => f.uid = 0
  /\ f.at \in {"drop", "yield"} => (f.uid # 0 <=> a \in plus)
\* Right after its append: its copy is the newest, and not listed yet.
Fresh(a) == Top(a).at = "drop" =>
  /\ \E w \in box[a] : w.uid = next[a] - 1 /\ w.of = Top(a).d /\ w.id = Top(a).id /\ ~w.deleted
  /\ \A r \in seen[a] : r.uid < next[a] - 1
  /\ Top(a).uid = IF a \in plus THEN next[a] - 1 ELSE 0
HeadInv == \A a \in Accounts :
  /\ \A i \in DOMAIN stack[a] : Told(a, stack[a][i])
  /\ stack[a] # <<>> => Fresh(a)

LEMMA HeadStep == ASSUME Types, Numbered, Stacked, HeadInv, [Next]_vars PROVE HeadInv'
<1>1. plus' = plus /\ Types' /\ Stacked' /\ Numbered'
  <2>1. Types'
    <3>1. UNCHANGED vars => Types'
      BY DEF vars, rowVars, serverVars, Types, RowsType, CmdsType, StackType, ServerType, SeenType
    <3> QED
      BY <3>1, ComposeTypes, WorkerTypes DEF Next
  <2> QED
    BY <2>1, PlusStays, StackedStep, NumberedStep
<1>2. ASSUME NEW a \in Accounts, stack[a] # <<>>
      PROVE  Top(a) = stack[a][1] /\ 1 \in DOMAIN stack[a] /\ Top(a) \in FrameT
  BY <1>2, TopType DEF Types, StackType
<1>3. ASSUME NEW a \in Accounts, NEW i \in DOMAIN stack'[a] PROVE Told(a, stack[a][i])'
  <2>0. next[a] \in Nat \ {0}
    BY DEF Types, ServerType
  <2>1. Told(a, stack'[a][i])
    <3>1. CASE \E j \in DOMAIN stack[a] : stack'[a][i] = stack[a][j]
      BY <3>1 DEF HeadInv
    <3>2. ASSUME NEW d \in Drafts PROVE Told(a, Frame(d))
      BY DEF Told, Frame
    <3>3. ASSUME NEW g \in FrameT, Advanced(a, g) PROVE Told(a, g)
      <4>1. Told(a, Top(a)) /\ stack[a] # <<>>
        BY <1>2, <3>3 DEF HeadInv, Advanced
      <4> QED
        BY <2>0, <3>3, <4>1 DEF Advanced, Built, SentOff, Denied, Yielded, Swept, Told
    <3> QED
      BY <3>1, <3>2, <3>3, FrameStep
  <2> QED
    BY <1>1, <2>1 DEF Told
<1>4. ASSUME NEW a \in Accounts, stack'[a] # <<>> PROVE Fresh(a)'
  <2>1. /\ next[a] \in Nat \ {0} /\ next'[a] \in Nat /\ stack[a] \in Seq(FrameT) /\ stack'[a] \in Seq(FrameT)
        /\ 1 \in DOMAIN stack'[a] /\ \A r \in seen[a] : r.uid \in Nat /\ r.uid < next[a]
    BY <1>1, <1>4 DEF Types, StackType, ServerType, SeenType, SeenT, Numbered
  <2>2. PICK g : g = stack'[a][1] /\ g \in FrameT /\ Top(a)' = g
    BY <1>1, <1>4, <2>1, TopType DEF Types, StackType, Top
  <2>3. CASE g.at # "drop"
    BY <2>2, <2>3 DEF Fresh
  <2>4. CASE g.at = "drop" /\ Rests(a)
    <3>1. stack[a] # <<>> /\ Top(a) = g /\ Fresh(a)
      BY <1>2, <1>4, <2>2, <2>4 DEF Rests, HeadInv
    <3>2. ~Free(a) /\ ~DropOld(a) /\ ~AppendCopy(a) /\ ~Sweep(a)
      <4>1. ~Free(a) /\ ~AppendCopy(a) /\ ~Sweep(a)
        BY <2>4, <3>1 DEF Free, At, Top, AppendCopy, Sweep
      <4>2. ASSUME DropOld(a) PROVE FALSE
        <5>1. PICK h : h = [g EXCEPT !.at = "yield", !.folder = None, !.old = 0] /\ Goto(a, h)
          BY <3>1, <4>2, Zenon DEF DropOld
        <5>2. h.at = "yield"
          BY <2>2, <5>1 DEF FrameT
        <5>3. stack'[a] = [stack[a] EXCEPT ![1] = h]
          BY <5>1 DEF Goto, Types, StackType
        <5>4. stack'[a][1] = h
          BY <1>2, <3>1, <5>3
        <5> QED
          BY <2>2, <2>4, <5>2, <5>4
      <4> QED
        BY <4>1, <4>2
    <3>3. box'[a] = box[a] /\ next'[a] = next[a] /\ seen'[a] \subseteq seen[a]
      BY <3>2, MailStep DEF MailSteps, Untouched, Strays, Removes, Grows, Appended
    <3> QED
      BY <1>1, <2>2, <2>4, <3>1, <3>3 DEF Fresh
  <2>5. CASE g.at = "drop" /\ Enters(a)
    <3>1. PICK d \in Drafts : stack'[a] = <<Frame(d)>> \o stack[a]
      BY <2>5 DEF Enters
    <3>2. Frame(d) \in FrameT
      BY FrameType DEF Types
    <3>3. stack'[a][1] = Frame(d)
      BY <2>1, <3>1, <3>2
    <3> QED
      BY <2>2, <2>5, <3>3 DEF Frame
  <2>10. CASE stack[a] # <<>> /\ g.d = Top(a).d /\ Denied(a, Top(a), g)
    <3>1. Fresh(a) /\ g.at = "drop" /\ Top(a).at = "drop" /\ g.id = Top(a).id /\ g.uid = Top(a).uid
      BY <2>10 DEF Denied, HeadInv
    <3>2. box'[a] = box[a] /\ next'[a] = next[a] /\ seen'[a] = seen[a]
      BY <2>10 DEF Denied
    <3> QED
      BY <1>1, <2>2, <2>10, <3>1, <3>2 DEF Fresh
  <2>6. CASE g.at = "drop" /\ Advances(a) /\ ~(stack[a] # <<>> /\ g.d = Top(a).d /\ Denied(a, Top(a), g))
    <3>1. PICK h \in FrameT : Advanced(a, h) /\ stack'[a] = [stack[a] EXCEPT ![1] = h] /\ stack[a] # <<>>
      BY <2>6 DEF Advances, Advanced
    <3>2. h = g
      BY <1>2, <2>1, <2>2, <3>1
    <3>3. SentOff(a, Top(a), g) /\ g.d = Top(a).d
      BY <2>6, <3>1, <3>2 DEF Advanced, Built, Yielded, Swept
    <3>4. AppendCopy(a) /\ Top(a).at = "append"
      BY <3>3 DEF SentOff
    <3>5. Grows(a)
      <4>1. next'[a] = next[a] + 1
        BY <3>4 DEF AppendCopy, Types, ServerType
      <4>2. next'[a] # next[a]
        BY <2>1, <4>1
      <4>3. ~DropOld(a) /\ ~Sweep(a)
        BY <3>4, Zenon DEF DropOld, Sweep, At, Top
      <4>4. ~Removes(a) /\ ~Strays(a) /\ ~Untouched(a)
        BY <4>2 DEF Removes, Strays, Untouched
      <4> QED
        BY <4>3, <4>4, MailStep DEF MailSteps
    <3>6. PICK w : Appended(a, w) /\ box'[a] = box[a] \cup {w} /\ next'[a] = next[a] + 1 /\ seen'[a] = seen[a]
      BY <3>5 DEF Grows
    <3>7. next'[a] - 1 = next[a]
      BY <2>1, <3>6
    <3>8. w \in box'[a] /\ w.uid = next'[a] - 1 /\ w.of = g.d /\ w.id = g.id /\ ~w.deleted
      BY <3>3, <3>6, <3>7 DEF Appended, SentOff
    <3>9. \A r \in seen'[a] : r.uid < next'[a] - 1
      BY <2>1, <3>6, <3>7
    <3>10. g.uid = IF a \in plus THEN next'[a] - 1 ELSE 0
      BY <3>3, <3>7 DEF SentOff
    <3> QED
      BY <1>1, <2>2, <3>8, <3>9, <3>10 DEF Fresh
  <2>7. CASE g.at = "drop" /\ Finishes(a)
    <3>1. stack[a] # <<>> /\ stack'[a] = Tail(stack[a])
      BY <2>7 DEF Finishes
    <3>2. stack'[a][1] = stack[a][2] /\ 2 \in 2..Len(stack[a])
      BY <1>4, <2>1, <3>1
    <3> QED
      BY <2>2, <2>7, <3>2 DEF Stacked
  <2>8. CASE g.at = "drop" /\ Alone(a)
    <3>1. PICK h \in FrameT : stack'[a] = <<h>> /\ h.at = "clear"
      BY <2>8 DEF Alone
    <3> QED
      BY <2>2, <2>8, <3>1
  <2>9. CASE Empties(a)
    BY <1>4, <2>9 DEF Empties
  <2> QED
    BY <2>3, <2>4, <2>5, <2>6, <2>7, <2>8, <2>9, <2>10, StackStepsOf DEF StackSteps
<1> QED
  BY <1>3, <1>4 DEF HeadInv

-----------------------------------------------------------------------------
(* What a draft takes for its own *)

\* No copy of another draft has, or will get, UID u in the mailbox of a.
Mine(a, u, d) == u < next[a] /\ \A c \in box[a] : c.uid = u => c.of = d
Owns(a, g, u, d) == (u # 0 => g = a) /\ Mine(a, u, d)
RowOwns(d) == row[d].is = "row" => row[d].account \in Accounts /\ Mine(row[d].account, row[d].uid, d)
DropOwns(d) == drop[d].uid # 0 => /\ drop[d].account \in Accounts /\ drop[d].folder = drop[d].account
                                  /\ Mine(drop[d].account, drop[d].uid, d)
CmdOwns(a, c) == Owns(a, c.folder, c.uid, c.d) /\ (c.op = "drop" => c.uid # 0 /\ row[c.d].is = "gone")
FrameOwns(a, f) ==
  /\ Owns(a, f.folder, f.old, f.d) /\ Mine(a, f.uid, f.d)
  /\ f.at = "drop" => f.old < next[a] - 1

\* As long as no draft has changed accounts, the UIDs that rows, queued drops and pushes
\* hold on to are those of their own draft's copies, in the account they are used on.
OwnInv == Stayed =>
  /\ \A d \in Drafts : RowOwns(d) /\ DropOwns(d)
  /\ \A a \in Accounts : /\ \A c \in cmds[a] : CmdOwns(a, c)
                         /\ \A i \in DOMAIN stack[a] : FrameOwns(a, stack[a][i])

LEMMA MineZero == ASSUME Types, Numbered, NEW a \in Accounts, NEW d PROVE Mine(a, 0, d)
<1>1. next[a] \in Nat \ {0}
  BY DEF Types, ServerType
<1> QED
  BY <1>1 DEF Mine, Numbered

LEMMA MineStep ==
  ASSUME Types, Numbered, [Next]_vars, NEW a \in Accounts, NEW u \in Nat, NEW d, Mine(a, u, d)
  PROVE  Mine(a, u, d)'
<1>1. next[a] \in Nat \ {0} /\ next'[a] \in Nat /\ next[a] <= next'[a] /\ BoxSteps(a)
  BY BoxStep
<1>2. u < next'[a]
  BY <1>1 DEF Mine
<1>3. ASSUME NEW w \in box'[a], w.uid = u PROVE w.of = d
  <2>1. ~Appended(a, w)
    BY <1>1, <1>3 DEF Appended, Mine
  <2> QED
    BY <1>1, <1>3, <2>1 DEF BoxSteps, Mine
<1> QED
  BY <1>2, <1>3 DEF Mine

\* The latest UID listed under a draft's Message-ID is one of its own copies'.
LEMMA LatestIsMine ==
  ASSUME Types, Numbered, MintInv, NEW a \in Accounts, NEW f \in FrameT, Minted(f.id, f.d)
  PROVE  LET u == Max({0} \cup Named(a, f.id)) IN
           /\ u \in Nat /\ Mine(a, u, f.d) /\ \A r \in seen[a] : r.id = f.id => r.uid <= u
           /\ u = 0 \/ \E r \in seen[a] : r.id = f.id /\ r.uid = u
<1> DEFINE S == {0} \cup Named(a, f.id)
<1>1. /\ next[a] \in Nat \ {0} /\ \A r \in seen[a] : r.uid \in Nat /\ r.uid < next[a]
  BY DEF Types, ServerType, SeenType, SeenT, Numbered
<1>2. S \in SUBSET Nat /\ S # {} /\ \A n \in S : n <= next[a]
  BY <1>1 DEF Named
<1>3. \A r \in seen[a] : r.id = f.id => r.uid \in S
  BY DEF Named
<1>4. \A n \in S : n = 0 \/ \E r \in seen[a] : r.id = f.id /\ r.uid = n
  BY DEF Named
<1> HIDE DEF S
<1>5. PICK u : u = Max(S)
  OBVIOUS
<1>6. u \in S /\ \A n \in S : n <= u
  BY <1>1, <1>2, <1>5, Largest
<1>7. Mine(a, u, f.d)
  <2>1. CASE u = 0
    BY <2>1, MineZero
  <2>2. CASE u # 0
    <3>1. PICK r \in seen[a] : r.id = f.id /\ r.uid = u
      BY <1>4, <1>6, <2>2
    <3>2. ASSUME NEW c \in box[a], c.uid = u PROVE c.of = f.d
      <4>1. c.id = f.id
        BY <3>1, <3>2 DEF Numbered
      <4> QED
        BY <3>2, <4>1 DEF MintInv, Minted
    <3> QED
      BY <1>1, <3>1, <3>2 DEF Mine
  <2> QED
    BY <2>1, <2>2
<1>8. u \in Nat
  BY <1>2, <1>6
<1>9. \A r \in seen[a] : r.id = f.id => r.uid <= u
  BY <1>3, <1>6
<1>10. u = 0 \/ \E r \in seen[a] : r.id = f.id /\ r.uid = u
  BY <1>4, <1>6
<1> QED
  BY <1>5, <1>7, <1>8, <1>9, <1>10 DEF S

LEMMA StayedStep == ASSUME Types, MarksType, [Next]_vars, Stayed' PROVE Stayed
  BY MarksStep DEF Stayed, Moved

\* A draft that is gone stays gone, and one that stayed keeps its account.
LEMMA RowPlace ==
  ASSUME Types, MarksType, [Next]_vars, NEW d \in Drafts, ~Moved(d)'
  PROVE  /\ row[d].is = "gone" => row'[d].is = "gone"
         /\ row[d].is = "row" => (row'[d].is = "row" /\ row'[d].account = row[d].account) \/ row'[d] = NoRow("gone")
         /\ row'[d].is = "row" => row[d].is \in {"new", "row"}
         /\ row[d].is = "new" => row'[d] = row[d] \/ (\E a \in Accounts : Rewritten(d, a)) \/ row'[d] = NoRow("gone")
<1>1. row[d] \in RowT /\ RowSteps(d)
  BY RowStep DEF Types, RowsType
<1>2. ASSUME NEW a \in Accounts, Rewritten(d, a)
      PROVE  row'[d].is = "row" /\ row'[d].account = a /\ row[d].is # "gone" /\ (row[d].is = "row" => row[d].account = a)
  <2>1. row'[d].is = "row" /\ row'[d].account = a /\ row[d].is # "gone"
    BY <1>1, <1>2 DEF Rewritten, Upserted, RowT
  <2>2. row[d].is = "row" /\ row[d].account # a => Moved(d)'
    BY <1>2 DEF Rewritten, UpsertDraft, Mark, MarksType, Moved
  <2> QED
    BY <2>1, <2>2
<1>3. ASSUME NEW a \in Accounts, Stamped(d, a) \/ Cleared(d, a)
      PROVE  row[d].is = "row" /\ row'[d].is = "row" /\ row'[d].account = row[d].account
  BY <1>1, <1>3 DEF Stamped, Cleared, ClearDraftDirty, RowT
<1>4. Refiled(d) => row[d].is = "row" /\ row'[d].is = "row" /\ row'[d].account = row[d].account
  BY <1>1 DEF Refiled, RowT
<1>5. Deleted(d) => row'[d] = NoRow("gone") /\ row'[d].is = "gone"
  BY DEF Deleted, NoRow
<1>6. row[d].is \in {"new", "row", "gone"} /\ NoRow("gone").is = "gone"
  BY <1>1 DEF RowT, NoRow
<1> QED
  BY <1>1, <1>2, <1>3, <1>4, <1>5, <1>6 DEF RowSteps

LEMMA DropsStep ==
  ASSUME Types, [Next]_vars, NEW d \in Drafts
  PROVE  drop'[d] = drop[d] \/ drop'[d] = NoDrop \/ (row[d].is = "row" /\ drop'[d] = Place(row[d]))
<1>1. drop \in [Drafts -> PlaceT]
  BY DEF Types, RowsType
<1>2. ASSUME NEW e \in Drafts, DropRead(e) \/ DropDelete(e)
      PROVE  drop'[d] = drop[d] \/ drop'[d] = NoDrop \/ (row[d].is = "row" /\ drop'[d] = Place(row[d]))
  BY <1>1, <1>2 DEF DropRead, DropDelete
<1>3. ASSUME NEW e \in Drafts, (\E a \in Accounts : UpsertDraft(e, a)) \/ KeepAndPublish(e) PROVE drop' = drop
  BY <1>3 DEF UpsertDraft, KeepAndPublish
<1>4. ASSUME NEW a \in Accounts, Worker(a) \/ ConnLost(a) PROVE drop' = drop
  BY <1>4 DEF Worker, Push, Take, PushDirtyDrafts, BuildDraft, AppendCopy, DropOld, Sweep, Clear, ConnLost, rowVars
<1>5. Tick \/ UNCHANGED vars => drop' = drop
  BY DEF Tick, vars, rowVars
<1>6. Restart => drop'[d] = NoDrop
  BY DEF Restart
<1>7. ASSUME NEW a \in Accounts, Refused(a) PROVE drop' = drop
  BY <1>7, RefusedKeeps
<1> QED
  BY <1>2, <1>3, <1>4, <1>5, <1>6, <1>7 DEF Next, Compose

\* Every queued command was queued, is a push, or is the drop of a row just deleted.
LEMMA CmdsStep ==
  ASSUME Types, [Next]_vars, NEW a \in Accounts, NEW c \in cmds'[a]
  PROVE  \/ c \in cmds[a]
         \/ \E d \in Drafts : KeepAndPublish(d) /\ save[d] = a /\ c = PushOf(d)
         \/ \E d \in Drafts :
              /\ Deleted(d) /\ drop[d].uid # 0 /\ drop[d].account = a /\ drop[d] # NoDrop
              /\ c = [op |-> "drop", d |-> d, n |-> 0, folder |-> drop[d].folder, uid |-> drop[d].uid]
<1>1. cmds \in [Accounts -> SUBSET CmdT] /\ row \in [Drafts -> RowT]
  BY DEF Types, CmdsType, RowsType
<1>2. ASSUME NEW d \in Drafts, KeepAndPublish(d), c \notin cmds[a] PROVE save[d] = a /\ c = PushOf(d)
  BY <1>1, <1>2 DEF KeepAndPublish
<1>3. ASSUME NEW d \in Drafts, DropDelete(d), c \notin cmds[a]
      PROVE  /\ Deleted(d) /\ drop[d].uid # 0 /\ drop[d].account = a /\ drop[d] # NoDrop
             /\ c = [op |-> "drop", d |-> d, n |-> 0, folder |-> drop[d].folder, uid |-> drop[d].uid]
  <2>1. drop[d] # NoDrop /\ row' = [row EXCEPT ![d] = NoRow("gone")]
    BY <1>3 DEF DropDelete
  <2>2. Deleted(d)
    BY <1>1, <1>3, <2>1 DEF Deleted
  <2>3. drop[d].uid # 0
    BY <1>3 DEF DropDelete
  <2>4. cmds' = [cmds EXCEPT ![drop[d].account] = @ \cup
          {[op |-> "drop", d |-> d, n |-> 0, folder |-> drop[d].folder, uid |-> drop[d].uid]}]
    BY <1>3, <2>3 DEF DropDelete
  <2> QED
    BY <1>1, <1>3, <2>1, <2>2, <2>3, <2>4
<1>4. ASSUME NEW d \in Drafts, (\E b \in Accounts : UpsertDraft(d, b)) \/ DropRead(d) PROVE cmds' = cmds
  BY <1>4 DEF UpsertDraft, DropRead
<1>5. ASSUME NEW b \in Accounts, Take(b) \/ ConnLost(b) PROVE c \in cmds[a]
  BY <1>1, <1>5 DEF Take, ConnLost
<1>6. ASSUME NEW b \in Accounts, PushDirtyDrafts(b) \/ Push(b) PROVE cmds' = cmds
  BY <1>6 DEF Push, PushDirtyDrafts, BuildDraft, AppendCopy, DropOld, Sweep, Clear
<1>7. Tick \/ UNCHANGED vars => cmds' = cmds
  BY DEF Tick, vars
<1>8. ~Restart
  BY DEF Restart
<1>9. ASSUME NEW b \in Accounts, Refused(b) PROVE cmds' = cmds
  BY <1>9, RefusedKeeps
<1> QED
  BY <1>2, <1>3, <1>4, <1>5, <1>6, <1>7, <1>8, <1>9 DEF Next, Compose, Worker

LEMMA OwnInit == Init => OwnInv
<1> SUFFICES ASSUME Init PROVE OwnInv
  OBVIOUS
<1>1. \A d \in Drafts : RowOwns(d) /\ DropOwns(d)
  BY DEF Init, NoRow, NoDrop, Place, RowOwns, DropOwns
<1>2. \A a \in Accounts : cmds[a] = {} /\ stack[a] = <<>>
  BY DEF Init
<1> QED
  BY <1>1, <1>2 DEF OwnInv

LEMMA OwnStep ==
  ASSUME Types, Numbered, MarksType, HomeInv, MintInv, OwnInv, [Next]_vars PROVE OwnInv'
<1> SUFFICES ASSUME Stayed', Stayed
             PROVE  /\ \A d \in Drafts : RowOwns(d)' /\ DropOwns(d)'
                    /\ \A a \in Accounts :
                         /\ \A c \in cmds'[a] : CmdOwns(a, c)'
                         /\ \A i \in DOMAIN stack'[a] : FrameOwns(a, stack[a][i])'
  BY StayedStep DEF OwnInv
<1>1. \A d \in Drafts : /\ ~Moved(d) /\ ~Moved(d)' /\ Home(d) /\ row[d] \in RowT /\ drop[d] \in PlaceT
                        /\ RowOwns(d) /\ DropOwns(d)
  BY DEF Stayed, HomeInv, Types, RowsType, OwnInv
<1>2. ASSUME NEW a \in Accounts
      PROVE  /\ \A c \in cmds[a] : CmdOwns(a, c) /\ c \in CmdT
             /\ \A i \in DOMAIN stack[a] : FrameOwns(a, stack[a][i]) /\ stack[a][i] \in FrameT
             /\ next[a] \in Nat \ {0}
  BY DEF OwnInv, Types, CmdsType, StackType, ServerType
<1>3. ASSUME NEW a \in Accounts, NEW u \in Nat, NEW d, Mine(a, u, d) PROVE Mine(a, u, d)'
  BY <1>3, MineStep
<1>4. ASSUME NEW d \in Drafts, row[d].is = "row"
      PROVE  /\ row[d].account \in Accounts
             /\ row[d].uid # 0 => row[d].folder = row[d].account
             /\ \A a \in Accounts : PushingAt(a, d) \/ Queued(a, d) => a = row[d].account
  BY <1>1, <1>4 DEF Home, Trace, Published
<1>5. Types' /\ Numbered'
  <2>1. Types'
    <3>1. UNCHANGED vars => Types'
      BY DEF vars, rowVars, serverVars, Types, RowsType, CmdsType, StackType, ServerType, SeenType
    <3> QED
      BY <3>1, ComposeTypes, WorkerTypes DEF Next
  <2> QED
    BY <2>1, NumberedStep
<1>6. ASSUME NEW a \in Accounts, stack[a] # <<>>
      PROVE  Top(a) \in FrameT /\ Top(a).d \in Drafts /\ FrameOwns(a, Top(a)) /\ PushingAt(a, Top(a).d)
  <2>1. Top(a) = stack[a][1] /\ 1 \in DOMAIN stack[a] /\ Top(a) \in FrameT
    BY <1>6, TopType DEF Types, StackType
  <2> QED
    BY <1>2, <2>1 DEF FrameT, PushingAt
<1>7. ASSUME NEW d \in Drafts PROVE RowOwns(d)'
  <2> SUFFICES ASSUME row'[d].is = "row"
               PROVE  row'[d].account \in Accounts /\ Mine(row[d].account, row[d].uid, d)'
    BY DEF RowOwns
  <2>1. RowSteps(d) /\ row[d] \in RowT
    BY <1>1, RowStep
  <2>2. ASSUME NEW a \in Accounts, NEW u \in Nat, Mine(a, u, d)', row'[d].account = a, row'[d].uid = u
        PROVE  row'[d].account \in Accounts /\ Mine(row[d].account, row[d].uid, d)'
    BY <2>2
  <2>3. CASE row[d].is = "row" /\ row'[d].account = row[d].account /\ row'[d].uid = row[d].uid
    <3>1. PICK a \in Accounts, u \in Nat : a = row[d].account /\ u = row[d].uid /\ Mine(a, u, d)
      BY <1>1, <2>1, <2>3 DEF RowOwns, RowT
    <3>2. Mine(a, u, d)'
      BY <1>3, <3>1
    <3> QED
      BY <2>2, <2>3, <3>1, <3>2
  <2>4. ASSUME NEW a \in Accounts, Rewritten(d, a)
        PROVE  row'[d].account \in Accounts /\ Mine(row[d].account, row[d].uid, d)'
    <3>1. row'[d].account = a /\ row'[d].uid = row[d].uid /\ row[d].is # "gone"
      BY <2>1, <2>4 DEF Rewritten, Upserted, RowT
    <3>2. CASE row[d].is = "row"
      <4>1. row[d].account = a
        BY <1>1, <2>4, <3>2 DEF Rewritten, UpsertDraft, Mark, MarksType, Moved
      <4> QED
        BY <2>3, <3>1, <3>2, <4>1
    <3>3. CASE row[d].is = "new"
      <4>1. row'[d].uid = 0
        BY <1>1, <3>1, <3>3 DEF Home, NoRow
      <4>2. Mine(a, 0, d)'
        BY <1>3, MineZero
      <4> QED
        BY <2>2, <3>1, <4>1, <4>2
    <3> QED
      BY <2>1, <3>1, <3>2, <3>3 DEF RowT
  <2>5. ASSUME NEW a \in Accounts, Stamped(d, a)
        PROVE  row[d].is = "row" /\ row'[d].account = row[d].account /\ row'[d].uid = row[d].uid
    BY <2>1, <2>5 DEF Stamped, RowT
  <2>6. Refiled(d) => row[d].is = "row" /\ row'[d].account = row[d].account /\ row'[d].uid = row[d].uid
    BY <2>1 DEF Refiled, RowT
  <2>7. ~Deleted(d)
    BY DEF Deleted, NoRow
  <2>8. ASSUME NEW a \in Accounts, Cleared(d, a)
        PROVE  row'[d].account \in Accounts /\ Mine(row[d].account, row[d].uid, d)'
    <3>1. stack[a] # <<>> /\ Top(a).d = d /\ row[d].is = "row"
          /\ row'[d].account = row[d].account /\ row'[d].uid = Top(a).uid
      BY <2>1, <2>8 DEF Cleared, ClearDraftDirty, RowT
    <3>2. row[d].account = a
      BY <1>4, <1>6, <3>1
    <3>3. PICK u \in Nat : u = Top(a).uid /\ Mine(a, u, d)
      BY <1>6, <3>1 DEF FrameT, FrameOwns
    <3>4. Mine(a, u, d)'
      BY <1>3, <3>3
    <3> QED
      BY <2>2, <3>1, <3>2, <3>3, <3>4
  <2> QED
    BY <2>1, <2>3, <2>4, <2>5, <2>6, <2>7, <2>8 DEF RowSteps
<1>8. ASSUME NEW d \in Drafts PROVE DropOwns(d)'
  <2> SUFFICES ASSUME drop'[d].uid # 0
               PROVE  /\ drop'[d].account \in Accounts /\ drop'[d].folder = drop'[d].account
                      /\ Mine(drop[d].account, drop[d].uid, d)'
    BY DEF DropOwns
  <2>1. drop'[d] # NoDrop
    BY DEF NoDrop, Place, NoRow
  <2>2. PICK a \in Accounts, u \in Nat :
          drop'[d].account = a /\ drop'[d].folder = a /\ drop'[d].uid = u /\ Mine(a, u, d)
    <3>1. CASE drop'[d] = drop[d]
      <4>1. drop[d].uid \in Nat /\ DropOwns(d)
        BY <1>1 DEF PlaceT
      <4> QED
        BY <3>1, <4>1 DEF DropOwns
    <3>2. CASE row[d].is = "row" /\ drop'[d] = Place(row[d])
      <4>1. row[d].uid \in Nat /\ drop'[d].uid = row[d].uid /\ drop'[d].account = row[d].account
            /\ drop'[d].folder = row[d].folder
        BY <1>1, <3>2 DEF Place, RowT
      <4> QED
        BY <1>1, <1>4, <3>2, <4>1 DEF RowOwns
    <3> QED
      BY <2>1, <3>1, <3>2, DropsStep
  <2>3. Mine(a, u, d)'
    BY <1>3, <2>2
  <2> QED
    BY <2>2, <2>3
<1>9. ASSUME NEW a \in Accounts, NEW c \in cmds'[a] PROVE CmdOwns(a, c)'
  <2>1. ASSUME c \in cmds[a] PROVE CmdOwns(a, c)'
    <3>1. CmdOwns(a, c) /\ c.uid \in Nat /\ c.d \in Drafts
      BY <1>2, <2>1 DEF CmdT
    <3>2. PICK u \in Nat, d \in Drafts : u = c.uid /\ d = c.d
      BY <3>1
    <3>3. Mine(a, u, d)'
      BY <1>3, <3>1, <3>2 DEF CmdOwns, Owns
    <3>4. row[d].is = "gone" => row'[d].is = "gone"
      BY <1>1, RowPlace
    <3> QED
      BY <3>1, <3>2, <3>3, <3>4 DEF CmdOwns, Owns
  <2>2. ASSUME NEW d \in Drafts, c = PushOf(d) PROVE CmdOwns(a, c)'
    <3>1. c.uid = 0 /\ c.op = "push" /\ c.d = d
      BY <2>2 DEF PushOf
    <3>2. Mine(a, 0, d)'
      BY <1>3, MineZero
    <3> QED
      BY <3>1, <3>2 DEF CmdOwns, Owns
  <2>3. ASSUME NEW d \in Drafts, Deleted(d), drop[d].uid # 0, drop[d].account = a,
               c = [op |-> "drop", d |-> d, n |-> 0, folder |-> drop[d].folder, uid |-> drop[d].uid]
        PROVE  CmdOwns(a, c)'
    <3>1. row'[d].is = "gone"
      BY <2>3 DEF Deleted, NoRow
    <3>2. PICK u \in Nat : u = drop[d].uid /\ Mine(a, u, d) /\ drop[d].folder = a
      BY <1>1, <2>3 DEF PlaceT, DropOwns
    <3>3. Mine(a, u, d)'
      BY <1>3, <3>2
    <3>4. c.uid = u /\ c.folder = a /\ c.d = d /\ u # 0
      BY <2>3, <3>2
    <3> QED
      BY <3>1, <3>3, <3>4 DEF CmdOwns, Owns
  <2> QED
    BY <1>9, <2>1, <2>2, <2>3, CmdsStep
<1>10. ASSUME NEW a \in Accounts, NEW g \in FrameT, Owns(a, g.folder, g.old, g.d), Mine(a, g.uid, g.d),
              g.at = "drop" => g.old < next'[a] - 1
       PROVE  FrameOwns(a, g)'
  <2>1. PICK u \in Nat, v \in Nat, d \in Drafts : u = g.old /\ v = g.uid /\ d = g.d
    BY <1>10 DEF FrameT
  <2>2. Mine(a, u, d)' /\ Mine(a, v, d)'
    BY <1>3, <1>10, <2>1 DEF Owns
  <2> QED
    BY <1>10, <2>1, <2>2 DEF FrameOwns, Owns
<1>11. ASSUME NEW a \in Accounts, NEW i \in DOMAIN stack'[a] PROVE FrameOwns(a, stack[a][i])'
  <2>0. next'[a] \in Nat /\ next[a] \in Nat /\ next[a] <= next'[a]
    BY BoxStep
  <2>1. ASSUME NEW g \in FrameT, g = stack'[a][i], FrameOwns(a, g)' PROVE FrameOwns(a, stack[a][i])'
    BY <2>1
  <2>2. PICK g \in FrameT : g = stack'[a][i]
    BY <1>5, <1>11 DEF Types, StackType
  <2>3. CASE \E j \in DOMAIN stack[a] : g = stack[a][j]
    <3>1. FrameOwns(a, g)
      BY <1>2, <2>3
    <3>2. g.at = "drop" => g.old < next'[a] - 1
      BY <2>0, <3>1 DEF FrameOwns, FrameT
    <3>3. FrameOwns(a, g)'
      BY <1>10, <3>1, <3>2 DEF FrameOwns
    <3> QED
      BY <2>1, <2>2, <3>3
  <2>4. ASSUME NEW d \in Drafts, g = Frame(d), row[d].is = "row", Queued(a, d) \/ row[d].account = a
        PROVE  FrameOwns(a, g)'
    <3>1. g.folder = row[d].folder /\ g.old = row[d].uid /\ g.d = d /\ g.uid = 0 /\ g.at = "build"
      BY <2>4 DEF Frame
    <3>2. row[d].account = a /\ (row[d].uid # 0 => row[d].folder = a)
      BY <1>4, <2>4
    <3>3. Mine(a, row[d].uid, d) /\ Mine(a, 0, d)
      BY <1>1, <2>4, <3>2, MineZero DEF RowOwns
    <3> QED
      BY <1>10, <3>1, <3>2, <3>3 DEF Owns
  <2>5. ASSUME Advanced(a, g) PROVE FrameOwns(a, g)'
    <3>1. stack[a] # <<>> /\ g.d = Top(a).d
      BY <2>5 DEF Advanced
    <3>2. PICK f \in FrameT : f = Top(a) /\ FrameOwns(a, f) /\ f.d \in Drafts /\ g.d = f.d
      BY <1>6, <3>1
    <3>3. CASE Built(a, f, g)
      BY <1>10, <3>2, <3>3 DEF Built, FrameOwns
    <3>4. CASE SentOff(a, f, g)
      <4>1. /\ g.old = f.old /\ g.folder = f.folder /\ AppendCopy(a) /\ f.at = "append" /\ g.d = f.d
            /\ g.uid = IF a \in plus THEN next[a] ELSE 0
        BY <3>2, <3>4 DEF SentOff
      <4>2. next'[a] = next[a] + 1
        BY <4>1 DEF AppendCopy, Types, ServerType
      <4>3. f.old < next[a]
        BY <3>2 DEF FrameOwns, Owns, Mine
      <4>4. g.old < next'[a] - 1
        BY <2>0, <4>1, <4>2, <4>3
      <4>5. PICK d \in Drafts : d = f.d
        BY <3>2
      <4>6. PICK n \in Nat : n = next[a]
        BY <2>0
      <4>12. Mine(a, n, d)'
        <5>1. n < next'[a]
          BY <2>0, <4>2, <4>6
        <5>2. ASSUME NEW w \in box'[a], w.uid = n PROVE w.of = d
          <6>1. \A c \in box[a] : c.uid # n
            BY <4>6 DEF Numbered
          <6>2. CASE Appended(a, w)
            BY <3>2, <4>5, <6>2 DEF Appended
          <6> QED
            BY <5>2, <6>1, <6>2, BoxStep DEF BoxSteps
        <5> QED
          BY <5>1, <5>2 DEF Mine
      <4>7. PICK u \in Nat, v \in Nat : u = f.old /\ v = g.uid
        BY <3>2 DEF FrameT
      <4>8. Mine(a, u, d)'
        BY <1>3, <3>2, <4>5, <4>7 DEF FrameOwns, Owns
      <4>9. Mine(a, v, d)'
        <5>1. CASE a \in plus
          BY <4>1, <4>6, <4>7, <4>12, <5>1
        <5>2. CASE a \notin plus
          <6>1. v = 0 /\ Mine(a, 0, d)
            BY <4>1, <4>7, <5>2, MineZero
          <6> QED
            BY <1>3, <6>1
        <5> QED
          BY <5>1, <5>2
      <4>10. g.old # 0 => g.folder = a
        BY <3>2, <4>1 DEF FrameOwns, Owns
      <4>11. g.d = d /\ g.old = u /\ g.uid = v
        BY <4>1, <4>5, <4>7
      <4> QED
        BY <4>4, <4>8, <4>9, <4>10, <4>11 DEF FrameOwns, Owns
    <3>5. CASE Yielded(a, f, g)
      <4>1. Mine(a, 0, g.d)
        BY MineZero
      <4> QED
        BY <1>10, <3>2, <3>5, <4>1 DEF Yielded, FrameOwns, Owns
    <3>7. CASE Denied(a, f, g)
      <4>1. f.at = "drop" /\ g.uid = f.uid /\ g.old = 0 /\ g.folder = None /\ next'[a] = next[a]
        BY <3>7 DEF Denied
      <4>2. f.old \in Nat /\ f.old < next[a] - 1 /\ Mine(a, g.uid, g.d)
        BY <3>2, <4>1 DEF FrameOwns, FrameT
      <4>3. g.old < next'[a] - 1
        BY <2>0, <4>1, <4>2
      <4>4. Mine(a, 0, g.d)
        BY MineZero
      <4> QED
        BY <1>10, <4>1, <4>2, <4>3, <4>4 DEF Owns
    <3>6. CASE Swept(a, f, g)
      <4>1. g.at = "clear" /\ g.old = f.old /\ g.folder = f.folder /\ g.uid = Latest(a, f) /\ f.at = "yield"
        BY <3>6 DEF Swept
      <4>2. Minted(f.id, f.d)
        <5>1. f = stack[a][1] /\ 1 \in DOMAIN stack[a]
          BY <3>1, <3>2, TopType DEF Types, StackType
        <5> QED
          BY <4>1, <5>1 DEF MintInv, FrameMinted
      <4>3. Mine(a, g.uid, f.d)
        <5>1. CASE f.uid # 0
          BY <3>2, <4>1, <5>1 DEF Latest, FrameOwns
        <5>2. CASE f.uid = 0
          <6>1. g.uid = Max({0} \cup Named(a, f.id))
            BY <4>1, <5>2 DEF Latest
          <6> QED
            BY <4>2, <6>1, LatestIsMine
        <5> QED
          BY <5>1, <5>2
      <4> QED
        BY <1>10, <3>2, <4>1, <4>3 DEF FrameOwns
    <3> QED
      BY <2>5, <3>2, <3>3, <3>4, <3>5, <3>6, <3>7 DEF Advanced
  <2> QED
    BY <2>1, <2>2, <2>3, <2>4, <2>5, FrameStep
<1> QED
  BY <1>7, <1>8, <1>9, <1>11

-----------------------------------------------------------------------------
(* What the sync has listed *)

Listed(a, c) == \E r \in seen[a] : r.uid = c.uid
Backed(a) == \A r \in seen[a] : \E c \in box[a] : c.uid = r.uid
Above(a) == \A c \in box[a] : Listed(a, c) \/ \A r \in seen[a] : r.uid < c.uid
Waiting(a) == \E i \in DOMAIN stack[a] : stack[a][i].at = "yield"
Caught(a) == Waiting(a) =>
  \A c \in box[a] : Listed(a, c) \/ (Top(a).at = "drop" /\ c.uid = next[a] - 1)

\* As long as no draft has changed accounts, every messages row has its copy, what is not
\* listed yet is above all that is, and nothing is missing once a push has yielded but the
\* copy that the one above it has just appended.
SeenInv == Stayed => \A a \in Accounts : Backed(a) /\ Above(a) /\ Caught(a)

LEMMA WithoutNone ==
  ASSUME ServerType, NEW a \in Accounts, NEW U, \A c \in box[a] : c.uid \notin U
  PROVE  Without(a, U) = box[a]
<1>1. ASSUME NEW w \in Without(a, U) PROVE w \in box[a]
  <2>1. PICK c \in box[a] : Remains(a, w, c, U)
    BY WithoutFacts
  <2>2. c \in CopyT /\ c.uid \notin U
    BY DEF ServerType
  <2>3. (c.deleted \/ c.uid \in U) = c.deleted
    BY <2>2 DEF CopyT
  <2>4. Marked(c, U) = c
    BY <2>2, <2>3 DEF Marked, CopyT
  <2> QED
    BY <2>1, <2>4 DEF Remains
<1>2. box[a] \subseteq Without(a, U)
  BY WithoutFacts
<1> QED
  BY <1>1, <1>2

\* Taking the same UIDs off the server and off the list.
LEMMA TrimSeen ==
  ASSUME ServerType, SeenType, NEW a \in Accounts, NEW U, Backed(a), Above(a),
         NEW left, left = Without(a, U), NEW known, known = Unlisted(a, a, U)[a]
  PROVE  /\ known \subseteq seen[a]
         /\ \A r \in known : \E w \in left : w.uid = r.uid
         /\ \A w \in left : (\E r \in known : r.uid = w.uid) \/ \A r \in known : r.uid < w.uid
         /\ \A w \in left : \E c \in box[a] :
              w.uid = c.uid /\ (Listed(a, c) => \E r \in known : r.uid = w.uid)
<1>1. /\ known \subseteq seen[a]
      /\ \A r \in seen[a] : r.uid \notin U \/ a \notin plus => r \in known
      /\ a \in plus => \A r \in known : r.uid \notin U
  BY UnlistedFacts
<1>2. /\ \A w \in left : \E c \in box[a] : Remains(a, w, c, U)
      /\ \A c \in box[a] : c.uid \notin U => c \in left
  BY WithoutFacts
<1>3. a \notin plus => \A c \in box[a] : \E w \in left : w.uid = c.uid
  <2>1. ASSUME a \notin plus, NEW c \in box[a] PROVE \E w \in left : w.uid = c.uid
    <3>1. [c EXCEPT !.deleted = @ \/ c.uid \in U] \in left
      BY <2>1 DEF Without
    <3>2. Marked(c, U) \in left
      BY <3>1 DEF Marked
    <3>3. Marked(c, U).uid = c.uid
      BY DEF Marked, ServerType, CopyT
    <3> QED
      BY <3>2, <3>3
  <2> QED
    BY <2>1
<1>4. ASSUME NEW r \in known PROVE \E w \in left : w.uid = r.uid
  <2>1. PICK c \in box[a] : c.uid = r.uid
    BY <1>1 DEF Backed
  <2> QED
    BY <1>1, <1>2, <1>3, <2>1
<1>5. ASSUME NEW w \in left
      PROVE  \E c \in box[a] : w.uid = c.uid /\ (Listed(a, c) => \E r \in known : r.uid = w.uid)
  <2>1. PICK c \in box[a] : Remains(a, w, c, U)
    BY <1>2
  <2>2. w.uid = c.uid /\ (a \in plus => c.uid \notin U)
    BY <2>1 DEF Remains
  <2>3. ASSUME Listed(a, c) PROVE \E r \in known : r.uid = w.uid
    BY <1>1, <2>2, <2>3 DEF Listed
  <2> QED
    BY <2>2, <2>3
<1>6. ASSUME NEW w \in left PROVE (\E r \in known : r.uid = w.uid) \/ \A r \in known : r.uid < w.uid
  BY <1>1, <1>5 DEF Above
<1> QED
  BY <1>1, <1>4, <1>5, <1>6

\* What a push leaves when it removes the copy it replaces and syncs.
LEMMA DropOldFacts ==
  ASSUME Types, Numbered, NEW a \in Accounts, DropOld(a), Top(a).old # 0 => Top(a).folder = a
  PROVE  /\ box'[a] = Without(a, {Top(a).old}) /\ next'[a] = next[a] /\ row' = row
         /\ \E known : /\ known = Unlisted(a, a, {Top(a).old})[a] /\ known \subseteq seen'[a]
                       /\ \A r \in seen'[a] : r \in known \/ \E x \in box'[a] : r.uid = x.uid
                       /\ \A x \in box'[a] : \/ \E r \in known : x.uid <= r.uid
                                             \/ \E r \in seen'[a] : r.uid = x.uid
<1> DEFINE f == Top(a)
           left == IF f.old = 0 THEN box[a] ELSE Without(a, {f.old})
           lists == IF f.old = 0 THEN seen ELSE Unlisted(a, f.folder, {f.old})
           top == Max({0} \cup {r.uid : r \in lists[a]})
           more == {[uid |-> c.uid, id |-> c.id] : c \in {x \in left : x.uid > top}}
<1>1. /\ box' = [box EXCEPT ![a] = left] /\ seen' = [lists EXCEPT ![a] = @ \cup more]
      /\ next' = next /\ row' = row
  BY Zenon DEF DropOld, rowVars
<1>2. ServerType /\ SeenType /\ next[a] \in Nat \ {0}
  BY DEF Types, ServerType
<1>3. left = Without(a, {f.old})
  <2>1. CASE f.old = 0
    <3>1. \A c \in box[a] : c.uid \notin {f.old}
      BY <2>1 DEF Numbered
    <3> QED
      BY <1>2, <2>1, <3>1, WithoutNone
  <2> QED
    BY <2>1
<1>4. lists \in [Accounts -> SUBSET SeenT] /\ lists[a] = Unlisted(a, a, {f.old})[a]
  <2>1. CASE f.old = 0
    <3>1. \A r \in seen[a] : r.uid \notin {f.old}
      BY <2>1 DEF Numbered
    <3>2. seen[a] \subseteq Unlisted(a, a, {f.old})[a] /\ Unlisted(a, a, {f.old})[a] \subseteq seen[a]
      BY <1>2, <3>1, UnlistedFacts
    <3> QED
      BY <1>2, <2>1, <3>2 DEF SeenType
  <2>2. CASE f.old # 0
    BY <1>2, <2>2, UnlistedType
  <2> QED
    BY <2>1, <2>2
<1>5. PICK known : known = lists[a]
  OBVIOUS
<1>6. known \subseteq seen[a] /\ known \subseteq SeenT
  BY <1>2, <1>4, <1>5, UnlistedFacts DEF SeenType
<1>7. box'[a] = left /\ seen'[a] = known \cup more /\ next'[a] = next[a]
  BY <1>1, <1>2, <1>4, <1>5 DEF ServerType
<1>8. top \in Nat /\ (top = 0 \/ \E r \in known : r.uid = top)
  <2> DEFINE S == {0} \cup {r.uid : r \in lists[a]}
  <2>4. \A r \in lists[a] : r.uid \in Nat /\ r.uid < next[a]
    BY <1>5, <1>6 DEF SeenT, Numbered
  <2>1. S \in SUBSET Nat /\ S # {} /\ \A n \in S : n <= next[a]
    <3> HIDE DEF lists
    <3> QED
      BY <1>2, <2>4
  <2>2. \A n \in S : n = 0 \/ \E r \in known : r.uid = n
    BY <1>5
  <2> HIDE DEF S
  <2>3. Max(S) \in S
    BY <1>2, <2>1, Largest
  <2> QED
    BY <2>1, <2>2, <2>3 DEF S
<1>9. \A x \in left : x.uid \in Nat \ {0}
  <2>1. \A w \in left : \E c \in box[a] : w.uid = c.uid
    BY <1>2, <1>3, WithoutFacts DEF Remains
  <2> QED
    BY <1>2, <2>1 DEF ServerType, CopyT, Numbered
<1> HIDE DEF left, lists, top
<1>10. \A r \in more : \E x \in left : r.uid = x.uid
  OBVIOUS
<1>11. ASSUME NEW x \in left PROVE (\E r \in known : x.uid <= r.uid) \/ (\E r \in more : r.uid = x.uid)
  <2>1. CASE x.uid > top
    <3>1. [uid |-> x.uid, id |-> x.id] \in more
      BY <2>1
    <3> QED
      BY <3>1
  <2>2. CASE ~(x.uid > top)
    BY <1>8, <1>9, <2>2
  <2> QED
    BY <2>1, <2>2
<1> HIDE DEF more
<1>12. \A x \in box'[a] : (\E r \in known : x.uid <= r.uid) \/ (\E r \in seen'[a] : r.uid = x.uid)
  BY <1>7, <1>11
<1>13. \A r \in seen'[a] : r \in known \/ \E x \in box'[a] : r.uid = x.uid
  BY <1>7, <1>10
<1>14. known \subseteq seen'[a] /\ known = Unlisted(a, a, {Top(a).old})[a]
  BY <1>4, <1>5, <1>7
<1>15. box'[a] = Without(a, {Top(a).old}) /\ next'[a] = next[a] /\ row' = row
  BY <1>1, <1>3, <1>7
<1> QED
  BY <1>12, <1>13, <1>14, <1>15

\* Pushes that wait were waiting, and a top push that has appended is still about to drop
\* the old copy.
LEMMA WaitingStep ==
  ASSUME Types, Numbered, [Next]_vars, NEW a \in Accounts, ~DropOld(a), Waiting(a)'
  PROVE  Waiting(a) /\ stack[a] # <<>> /\ (Top(a).at = "drop" => Top(a)'.at = "drop")
<1>1. PICK i \in DOMAIN stack'[a] : stack'[a][i].at = "yield"
  BY DEF Waiting
<1>2. ASSUME NEW d PROVE Frame(d).at # "yield"
  BY DEF Frame
<1>3. ASSUME NEW g, Advanced(a, g) PROVE g.at # "yield"
  BY <1>3 DEF Advanced, Built, SentOff, Denied, Yielded, Swept
<1>4. Waiting(a)
  BY <1>1, <1>2, <1>3, FrameStep DEF Waiting
<1>5. stack[a] # <<>>
  BY <1>4 DEF Waiting
<1>6. ASSUME Top(a).at = "drop" PROVE Top(a)'.at = "drop"
  <2>1. ~Enters(a)
    BY <1>5, <1>6 DEF Enters, Free, Top
  <2>2. CASE Advances(a)
    <3>1. PICK g \in FrameT : Advanced(a, g) /\ stack'[a] = [stack[a] EXCEPT ![1] = g]
      BY <2>2 DEF Advances
    <3>2. g.at = "drop"
      BY <1>6, <3>1 DEF Advanced, Built, SentOff, Denied, Yielded, Swept
    <3>3. stack'[a][1] = g
      BY <1>5, <3>1 DEF Types, StackType
    <3> QED
      BY <3>2, <3>3 DEF Top
  <2>3. ~Finishes(a)
    BY <1>6 DEF Finishes, Fails, Clear, At, Top
  <2>4. ~Alone(a)
    <3>1. ASSUME NEW g \in FrameT, stack'[a] = <<g>>, g.at = "clear" PROVE FALSE
      BY <1>1, <3>1
    <3> QED
      BY <3>1 DEF Alone
  <2>5. ~Empties(a)
    BY <1>1 DEF Empties
  <2>6. CASE Rests(a)
    BY <1>6, <2>6 DEF Rests, Top
  <2> QED
    BY <2>1, <2>2, <2>3, <2>4, <2>5, <2>6, StackStepsOf DEF StackSteps
<1> QED
  BY <1>4, <1>5, <1>6

\* Under Stayed no worker unlists what is another's.
LEMMA NoStrays ==
  ASSUME Stayed, OwnInv, Types, NEW b \in Accounts PROVE ~Strays(b)
<1> SUFFICES ASSUME Strays(b) PROVE FALSE
  OBVIOUS
<1>1. PICK a \in Accounts \ {b} :
        \/ \E c \in cmds[a] : c.op = "drop" /\ c.folder = b
        \/ stack[a] # <<>> /\ Top(a).at = "drop" /\ Top(a).folder = b /\ Top(a).old # 0
  BY DEF Strays
<1>2. CASE \E c \in cmds[a] : c.op = "drop" /\ c.folder = b
  BY <1>1, <1>2 DEF OwnInv, CmdOwns, Owns
<1>3. CASE stack[a] # <<>> /\ Top(a).folder = b /\ Top(a).old # 0
  <2>1. Top(a) = stack[a][1] /\ 1 \in DOMAIN stack[a]
    BY <1>3, TopType DEF Types, StackType
  <2> QED
    BY <1>1, <1>3, <2>1 DEF OwnInv, FrameOwns, Owns
<1> QED
  BY <1>1, <1>2, <1>3

LEMMA SeenInit == Init => SeenInv
<1> SUFFICES ASSUME Init, NEW a \in Accounts PROVE Backed(a) /\ Above(a) /\ Caught(a)
  BY DEF SeenInv
<1>1. seen[a] = {[uid |-> c.uid, id |-> c.id] : c \in box[a]} /\ stack[a] = <<>>
  BY DEF Init
<1>2. ASSUME NEW c \in box[a] PROVE Listed(a, c)
  <2>1. [uid |-> c.uid, id |-> c.id] \in seen[a]
    BY <1>1
  <2> QED
    BY <2>1 DEF Listed
<1>3. \A r \in seen[a] : \E c \in box[a] : c.uid = r.uid
  BY <1>1
<1>4. ~Waiting(a)
  BY <1>1 DEF Waiting
<1> QED
  BY <1>2, <1>3, <1>4 DEF Backed, Above, Caught

LEMMA SeenStep ==
  ASSUME Types, Numbered, Stacked, MarksType, HeadInv, OwnInv, SeenInv, [Next]_vars PROVE SeenInv'
<1> SUFFICES ASSUME Stayed', Stayed, NEW a \in Accounts PROVE Backed(a)' /\ Above(a)' /\ Caught(a)'
  BY StayedStep DEF SeenInv
<1>1. Backed(a) /\ Above(a) /\ Caught(a) /\ ServerType /\ SeenType
  BY DEF SeenInv, Types
<1>2. next[a] \in Nat \ {0} /\ next'[a] \in Nat
  BY BoxStep
<1>3. \A r \in seen[a] : r.uid \in Nat /\ r.uid < next[a]
  BY DEF Types, SeenType, SeenT, Numbered
<1>4. stack[a] # <<>> => Top(a) \in FrameT /\ Top(a) = stack[a][1] /\ 1 \in DOMAIN stack[a] /\ FrameOwns(a, Top(a))
  BY TopType DEF Types, StackType, OwnInv
<1>5. CASE Untouched(a) /\ ~DropOld(a)
  <2>1. box'[a] = box[a] /\ seen'[a] = seen[a] /\ next'[a] = next[a]
    BY <1>5 DEF Untouched
  <2>2. Backed(a)' /\ Above(a)'
    BY <1>1, <2>1 DEF Backed, Above, Listed
  <2>3. ASSUME Waiting(a)', NEW c \in box'[a] PROVE Listed(a, c)' \/ (Top(a)'.at = "drop" /\ c.uid = next'[a] - 1)
    <3>1. Waiting(a) /\ (Top(a).at = "drop" => Top(a)'.at = "drop")
      BY <1>5, <2>3, WaitingStep
    <3> QED
      BY <1>1, <2>1, <2>3, <3>1 DEF Caught, Listed
  <2> QED
    BY <2>2, <2>3 DEF Caught
<1>6. ASSUME NEW U, box'[a] = Without(a, U), seen'[a] = Unlisted(a, a, U)[a], ~DropOld(a),
             Waiting(a) => Top(a).at # "drop"
      PROVE  Backed(a)' /\ Above(a)' /\ Caught(a)'
  <2>1. /\ \A r \in seen'[a] : \E w \in box'[a] : w.uid = r.uid
        /\ \A w \in box'[a] : (\E r \in seen'[a] : r.uid = w.uid) \/ \A r \in seen'[a] : r.uid < w.uid
        /\ \A w \in box'[a] : \E c \in box[a] :
             w.uid = c.uid /\ (Listed(a, c) => \E r \in seen'[a] : r.uid = w.uid)
    <3>1. PICK left, known : left = box'[a] /\ known = seen'[a] /\ left = Without(a, U) /\ known = Unlisted(a, a, U)[a]
      BY <1>6
    <3> QED
      BY <1>1, <3>1, TrimSeen
  <2>2. Backed(a)' /\ Above(a)'
    BY <2>1 DEF Backed, Above, Listed
  <2>3. ASSUME Waiting(a)', NEW w \in box'[a] PROVE Listed(a, w)'
    <3>1. Waiting(a)
      BY <1>6, <2>3, WaitingStep
    <3>2. \A c \in box[a] : Listed(a, c)
      BY <1>1, <1>6, <3>1 DEF Caught
    <3> QED
      BY <2>1, <2>3, <3>2 DEF Listed
  <2> QED
    BY <2>2, <2>3 DEF Caught
<1>7. CASE Removes(a) /\ ~DropOld(a)
  <2>1. PICK c \in cmds[a] :
          /\ c.op = "drop" /\ Free(a)
          /\ box'[a] = Without(a, {c.uid}) /\ seen'[a] = Unlisted(a, c.folder, {c.uid})[a]
    BY <1>7 DEF Removes
  <2>2. c.folder = a
    BY <2>1 DEF OwnInv, CmdOwns, Owns
  <2>3. Waiting(a) => Top(a).at # "drop"
    BY <2>1 DEF Free, Waiting, Top
  <2> QED
    BY <1>6, <1>7, <2>1, <2>2, <2>3
<1>8. CASE Sweep(a)
  <2>1. PICK U : box' = [box EXCEPT ![a] = Without(a, U)] /\ seen' = Unlisted(a, a, U) /\ At(a, "yield")
    BY <1>8 DEF Sweep
  <2>2. box'[a] = Without(a, U) /\ seen'[a] = Unlisted(a, a, U)[a]
    BY <1>1, <2>1 DEF ServerType
  <2>3. Top(a).at # "drop"
    BY <2>1 DEF At, Top
  <2>4. ~DropOld(a)
    BY <2>3, Zenon DEF DropOld, At, Top
  <2> QED
    BY <1>6, <2>2, <2>3, <2>4
<1>9. CASE Grows(a)
  <2>1. PICK w : /\ Appended(a, w) /\ box'[a] = box[a] \cup {w} /\ next'[a] = next[a] + 1
                 /\ seen'[a] = seen[a]
    BY <1>9 DEF Grows
  <2>2. w.uid = next[a] /\ Top(a).at = "append" /\ stack[a] # <<>> /\ AppendCopy(a)
    BY <2>1 DEF Appended, At, Top
  <2>3. next'[a] - 1 = next[a]
    BY <1>2, <2>1
  <2>4. Backed(a)' /\ Above(a)'
    BY <1>1, <1>3, <2>1, <2>2 DEF Backed, Above, Listed
  <2>5. ASSUME Waiting(a)', NEW c \in box'[a] PROVE Listed(a, c)' \/ (Top(a)'.at = "drop" /\ c.uid = next'[a] - 1)
    <3>1. ~DropOld(a)
      BY <2>2, Zenon DEF DropOld, At, Top
    <3>2. Waiting(a)
      BY <2>5, <3>1, WaitingStep
    <3>3. c \in box[a] => Listed(a, c)'
      BY <1>1, <2>1, <2>2, <3>2 DEF Caught, Listed
    <3>4. Top(a)'.at = "drop"
      <4>1. PICK g : g = [Top(a) EXCEPT !.at = "drop", !.body = 0, !.files = 0, !.uid = IF a \in plus THEN next[a] ELSE 0]
                     /\ Goto(a, g)
        BY <2>2 DEF AppendCopy
      <4>2. g.at = "drop"
        BY <1>4, <2>2, <4>1 DEF FrameT
      <4>3. stack'[a] = [stack[a] EXCEPT ![1] = g]
        BY <4>1 DEF Goto, Types, StackType
      <4>4. stack'[a][1] = g
        BY <1>4, <2>2, <4>3
      <4> QED
        BY <4>2, <4>4 DEF Top
    <3> QED
      BY <2>1, <2>2, <2>3, <2>5, <3>3, <3>4
  <2> QED
    BY <2>4, <2>5 DEF Caught
<1>10. CASE DropOld(a)
  <2>1. stack[a] # <<>>
    BY <1>10, Zenon DEF DropOld, At
  <2>2. Top(a).old # 0 => Top(a).folder = a
    BY <1>4, <2>1 DEF FrameOwns, Owns
  <2>10. PICK U : U = {Top(a).old}
    OBVIOUS
  <2>3. PICK known :
          /\ box'[a] = Without(a, U) /\ next'[a] = next[a]
          /\ known = Unlisted(a, a, U)[a] /\ known \subseteq seen'[a]
          /\ \A r \in seen'[a] : r \in known \/ \E x \in box'[a] : r.uid = x.uid
          /\ \A x \in box'[a] : (\E r \in known : x.uid <= r.uid) \/ (\E r \in seen'[a] : r.uid = x.uid)
    BY <1>10, <2>2, <2>10, DropOldFacts
  <2>4. PICK left : left = box'[a]
    OBVIOUS
  <2>5. /\ known \subseteq seen[a]
        /\ \A r \in known : \E w \in left : w.uid = r.uid
        /\ \A w \in left : (\E r \in known : r.uid = w.uid) \/ \A r \in known : r.uid < w.uid
    BY <1>1, <2>3, <2>4, TrimSeen
  <2>6. \A r \in known : r.uid \in Nat
    BY <1>3, <2>5
  <2>7. ASSUME NEW x \in left PROVE \E r \in seen'[a] : r.uid = x.uid
    <3>1. CASE \E r \in known : r.uid = x.uid
      BY <2>3, <3>1
    <3>2. CASE \A r \in known : r.uid < x.uid
      <4>1. x.uid \in Nat
        BY <1>1, <2>3, <2>4, WithoutType DEF CopyT
      <4> QED
        BY <2>3, <2>4, <2>6, <2>7, <3>2, <4>1
    <3> QED
      BY <2>5, <2>7, <3>1, <3>2
  <2>8. \A x \in box'[a] : Listed(a, x)'
    BY <2>4, <2>7 DEF Listed
  <2>9. \A r \in seen'[a] : \E x \in box'[a] : x.uid = r.uid
    BY <2>3, <2>4, <2>5
  <2> QED
    BY <2>8, <2>9 DEF Backed, Above, Caught
<1> QED
  BY <1>5, <1>7, <1>8, <1>9, <1>10, NoStrays, MailStep DEF MailSteps

-----------------------------------------------------------------------------
(* The copy that is kept *)

\* c is the newest copy of d, and nothing has deleted it.
Newest(a, d, c) ==
  /\ c \in box[a] /\ c.of = d /\ ~c.deleted
  /\ \A w \in box[a] : w.of = d => w.uid <= c.uid
\* No push of d has got past its append, and none before it has left anything.
Early(a, d) == \A i \in DOMAIN stack[a] : stack[a][i].d = d => stack[a][i].at \in {"build", "append"}
Unpublished(a, d) == row[d].uid = 0 /\ (\A c \in box[a] : c.of # d) /\ Early(a, d)
\* The pushes of d that wait to sweep in s keep UID u, or wait for one that sweeps before them.
Spares(s, d, u) == \A i \in DOMAIN s : s[i].d = d /\ s[i].at = "yield" =>
  s[i].uid = u \/ \E j \in 1..(i - 1) : s[j].d = d /\ s[j].at \in {"drop", "yield"}
Only(a, d, c) == \A w \in box[a] : w.of = d => w = c
Safe(a, d, c) == Newest(a, d, c) /\ (a \in plus => Only(a, d, c) \/ Spares(stack[a], d, c.uid))

\* As long as no draft has changed accounts, a draft either was never published or has a
\* newest copy that no push in progress will take away.
KeptInv == Stayed => \A d \in Drafts, a \in Accounts :
  row[d].is = "row" /\ row[d].account = a => Unpublished(a, d) \/ \E c \in box[a] : Safe(a, d, c)

LEMMA SparesBegun ==
  ASSUME NEW s \in Seq(FrameT), NEW f \in FrameT, f.at = "build", NEW d, NEW u, Spares(s, d, u)
  PROVE  Spares(<<f>> \o s, d, u)
<1> DEFINE t == <<f>> \o s
<1>1. /\ t \in Seq(FrameT) /\ Len(t) = Len(s) + 1 /\ t[1] = f /\ Len(s) \in Nat
      /\ \A i \in 1..Len(s) : t[i + 1] = s[i]
  BY Pushed
<1> HIDE DEF t
<1>2. ASSUME NEW i \in DOMAIN t, t[i].d = d, t[i].at = "yield"
      PROVE  t[i].uid = u \/ \E j \in 1..(i - 1) : t[j].d = d /\ t[j].at \in {"drop", "yield"}
  <2>1. i \in 2..(Len(s) + 1)
    BY <1>1, <1>2
  <2>2. i - 1 \in 1..Len(s) /\ t[i] = s[i - 1]
    <3>1. i - 1 \in 1..Len(s) /\ (i - 1) + 1 = i
      BY <1>1, <2>1
    <3> QED
      BY <1>1, <3>1
  <2>3. ASSUME NEW j \in 1..((i - 1) - 1), s[j].d = d /\ s[j].at \in {"drop", "yield"}
        PROVE  \E k \in 1..(i - 1) : t[k].d = d /\ t[k].at \in {"drop", "yield"}
    <3>1. j \in 1..Len(s) /\ j + 1 \in 1..(i - 1)
      BY <1>1, <2>1, <2>3
    <3> QED
      BY <1>1, <2>3, <3>1
  <2>4. i - 1 \in DOMAIN s
    BY <2>2
  <2> QED
    BY <1>2, <2>2, <2>3, <2>4 DEF Spares
<1>3. Spares(t, d, u)
  BY <1>2 DEF Spares
<1> QED
  BY <1>3 DEF t

LEMMA SparesPopped ==
  ASSUME NEW s \in Seq(FrameT), s # <<>>, s[1].at \in {"append", "clear"}, NEW d, NEW u, Spares(s, d, u)
  PROVE  Spares(Tail(s), d, u)
<1> DEFINE t == Tail(s)
<1>1. /\ t \in Seq(FrameT) /\ Len(t) = Len(s) - 1 /\ Len(s) \in Nat \ {0}
      /\ \A i \in 1..(Len(s) - 1) : t[i] = s[i + 1]
  BY Popped
<1> HIDE DEF t
<1>2. ASSUME NEW i \in DOMAIN t, t[i].d = d, t[i].at = "yield"
      PROVE  t[i].uid = u \/ \E j \in 1..(i - 1) : t[j].d = d /\ t[j].at \in {"drop", "yield"}
  <2>1. i \in 1..(Len(s) - 1) /\ t[i] = s[i + 1] /\ i + 1 \in DOMAIN s
    BY <1>1, <1>2
  <2>2. ASSUME NEW j \in 1..((i + 1) - 1), s[j].d = d /\ s[j].at \in {"drop", "yield"}
        PROVE  \E k \in 1..(i - 1) : t[k].d = d /\ t[k].at \in {"drop", "yield"}
    <3>1. j # 1
      BY <2>2
    <3>2. j - 1 \in 1..(i - 1) /\ j - 1 \in 1..(Len(s) - 1) /\ (j - 1) + 1 = j
      BY <1>1, <2>1, <2>2, <3>1
    <3>3. t[j - 1] = s[j]
      BY <1>1, <3>2
    <3> QED
      BY <2>2, <3>2, <3>3
  <2> QED
    BY <1>2, <2>1, <2>2 DEF Spares
<1>3. Spares(t, d, u)
  BY <1>2 DEF Spares
<1> QED
  BY <1>3 DEF t

\* The top push moves on: it is another draft's, or it does not sweep next ...
LEMMA SparesMoved ==
  ASSUME NEW s \in Seq(FrameT), s # <<>>, NEW f \in FrameT, f.d = s[1].d, NEW d, NEW u,
         f.d = d => (s[1].at = "build" /\ f.at = "append") \/ (s[1].at = "drop" /\ f.at = "drop"),
         Spares(s, d, u)
  PROVE  Spares([s EXCEPT ![1] = f], d, u)
<1> DEFINE t == [s EXCEPT ![1] = f]
<1>1. t \in Seq(FrameT) /\ Len(t) = Len(s) /\ t[1] = f /\ \A i \in 2..Len(s) : t[i] = s[i]
  BY MovedOn
<1>2. Len(s) \in Nat /\ DOMAIN t = 1..Len(s) /\ DOMAIN s = 1..Len(s)
  OBVIOUS
<1> HIDE DEF t
<1>3. ASSUME NEW i \in DOMAIN t, t[i].d = d, t[i].at = "yield"
      PROVE  t[i].uid = u \/ \E j \in 1..(i - 1) : t[j].d = d /\ t[j].at \in {"drop", "yield"}
  <2>1. i # 1
    BY <1>1, <1>3
  <2>2. i \in 2..Len(s) /\ t[i] = s[i] /\ i \in DOMAIN s
    BY <1>1, <1>2, <2>1
  <2>3. ASSUME NEW j \in 1..(i - 1), s[j].d = d /\ s[j].at \in {"drop", "yield"}
        PROVE  t[j].d = d /\ t[j].at \in {"drop", "yield"}
    <3>1. CASE j = 1
      BY <1>1, <2>3, <3>1
    <3>2. j # 1 => j \in 2..Len(s)
      BY <1>2, <2>2, <2>3
    <3> QED
      BY <1>1, <2>3, <3>1, <3>2
  <2> QED
    BY <1>3, <2>2, <2>3 DEF Spares
<1>4. Spares(t, d, u)
  BY <1>3 DEF Spares
<1> QED
  BY <1>4 DEF t

\* ... or it is one of d that will keep u.
LEMMA SparesKept ==
  ASSUME NEW s \in Seq(FrameT), s # <<>>, NEW f \in FrameT, NEW u,
         f.at = "drop" \/ (f.at = "yield" /\ f.uid = u)
  PROVE  Spares([s EXCEPT ![1] = f], f.d, u)
<1> DEFINE t == [s EXCEPT ![1] = f]
<1>1. t \in Seq(FrameT) /\ Len(t) = Len(s) /\ t[1] = f
  BY MovedOn
<1>2. Len(s) \in Nat /\ DOMAIN t = 1..Len(s)
  OBVIOUS
<1> HIDE DEF t
<1>3. ASSUME NEW i \in DOMAIN t, t[i].at = "yield"
      PROVE  t[i].uid = u \/ \E j \in 1..(i - 1) : t[j].d = f.d /\ t[j].at \in {"drop", "yield"}
  <2>1. CASE i = 1
    BY <1>1, <1>3, <2>1
  <2>2. CASE i # 1
    <3>1. 1 \in 1..(i - 1)
      BY <1>2, <2>2
    <3> QED
      BY <1>1, <3>1
  <2> QED
    BY <2>1, <2>2
<1>4. Spares(t, f.d, u)
  BY <1>3 DEF Spares
<1> QED
  BY <1>4 DEF t

\* Taking other UIDs off the server.
LEMMA NewestKept ==
  ASSUME ServerType, NEW a \in Accounts, NEW d, NEW c, Newest(a, d, c), NEW U, c.uid \notin U,
         box'[a] = Without(a, U)
  PROVE  Newest(a, d, c)'
<1>1. c \in box'[a]
  BY WithoutFacts DEF Newest
<1>2. \A w \in box'[a] : \E x \in box[a] : w.uid = x.uid /\ w.of = x.of
  BY WithoutFacts DEF Remains
<1> QED
  BY <1>1, <1>2 DEF Newest

LEMMA OnlyKept ==
  ASSUME ServerType, NEW a \in Accounts, NEW d, NEW c, Only(a, d, c), a \in plus, NEW U, box'[a] = Without(a, U)
  PROVE  Only(a, d, c)'
<1>1. \A w \in box'[a] : w \in box[a]
  BY WithoutFacts DEF Remains
<1> QED
  BY <1>1 DEF Only

LEMMA EarlyStep ==
  ASSUME Types, Numbered, [Next]_vars, NEW a \in Accounts, NEW d, Early(a, d),
         stack[a] # <<>> /\ Top(a).d = d => ~AppendCopy(a)
  PROVE  Early(a, d)'
<1> SUFFICES ASSUME NEW i \in DOMAIN stack'[a], stack'[a][i].d = d PROVE stack'[a][i].at \in {"build", "append"}
  BY DEF Early
<1>1. ASSUME NEW e, stack'[a][i] = Frame(e) PROVE stack'[a][i].at = "build"
  BY <1>1 DEF Frame
<1>2. ASSUME NEW g, Advanced(a, g), g.d = d PROVE g.at = "append"
  <2>1. stack[a] # <<>> /\ Top(a).d = d /\ ~AppendCopy(a)
    BY <1>2 DEF Advanced
  <2>2. Top(a).at \in {"build", "append"}
    <3>1. Top(a) = stack[a][1] /\ 1 \in DOMAIN stack[a]
      BY <2>1, TopType DEF Types, StackType
    <3> QED
      BY <2>1, <3>1 DEF Early
  <2> QED
    BY <1>2, <2>1, <2>2 DEF Advanced, Built, SentOff, Denied, Yielded, Swept
<1> QED
  BY <1>1, <1>2, FrameStep DEF Early

-----------------------------------------------------------------------------
(* Every step keeps it *)

Kept == /\ Types /\ Numbered /\ Stacked /\ MarksType /\ HomeInv /\ NameInv
        /\ MintInv /\ HeadInv /\ OwnInv /\ SeenInv

\* A step of the top push that decides which copies of its draft stay.
Decides(a) == AppendCopy(a) \/ DropOld(a) \/ Sweep(a)

LEMMA SparesStep ==
  ASSUME Types, Numbered, [Next]_vars, NEW a \in Accounts, NEW d, NEW u, Spares(stack[a], d, u),
         Decides(a) => Top(a).d # d
  PROVE  Spares(stack[a], d, u)'
<1>1. stack[a] \in Seq(FrameT)
  BY DEF Types, StackType
<1>2. PICK s : s = stack[a]
  OBVIOUS
<1> DEFINE Goal == Spares(stack'[a], d, u')
<1>3. ASSUME NEW v, Spares(v, d, u), stack'[a] = v PROVE Spares(stack[a], d, u)'
  BY <1>3 DEF Spares
<1>4. CASE Rests(a)
  BY <1>3, <1>4 DEF Rests
<1>5. CASE Enters(a)
  <2>1. PICK e \in Drafts : stack'[a] = <<Frame(e)>> \o stack[a]
    BY <1>5 DEF Enters
  <2>2. PICK f : f = Frame(e)
    OBVIOUS
  <2>3. f \in FrameT /\ f.at = "build"
    <3>1. Frame(e).at = "build"
      BY DEF Frame
    <3> QED
      BY <2>2, <3>1, FrameType DEF Types
  <2>4. Spares(<<f>> \o s, d, u)
    BY <1>1, <1>2, <2>3, SparesBegun
  <2> QED
    BY <1>2, <1>3, <2>1, <2>2, <2>4
<1>6. CASE Advances(a)
  <2>1. PICK g \in FrameT : Advanced(a, g) /\ stack'[a] = [stack[a] EXCEPT ![1] = g]
    BY <1>6 DEF Advances
  <2>2. stack[a] # <<>> /\ Top(a) = s[1] /\ g.d = s[1].d
    BY <1>2, <2>1 DEF Advanced
  <2>3. g.d = d => (s[1].at = "build" /\ g.at = "append") \/ (s[1].at = "drop" /\ g.at = "drop")
    BY <2>1, <2>2 DEF Advanced, Built, SentOff, Denied, Yielded, Swept, Decides
  <2>4. Spares([s EXCEPT ![1] = g], d, u)
    BY <1>1, <1>2, <2>2, <2>3, SparesMoved
  <2> QED
    BY <1>2, <1>3, <2>1, <2>4
<1>7. CASE Finishes(a)
  <2>1. stack[a] # <<>> /\ stack'[a] = Tail(stack[a]) /\ Top(a).at \in {"append", "clear"}
    BY <1>7 DEF Finishes, Fails, Clear, At, Top
  <2>2. s[1].at \in {"append", "clear"}
    BY <1>2, <2>1, TopType DEF Types
  <2>3. Spares(Tail(s), d, u)
    BY <1>1, <1>2, <2>1, <2>2, SparesPopped
  <2> QED
    BY <1>2, <1>3, <2>1, <2>3
<1>8. CASE Alone(a)
  <2>1. PICK g \in FrameT : stack'[a] = <<g>> /\ g.at = "clear"
    BY <1>8 DEF Alone
  <2>2. \A i \in DOMAIN <<g>> : <<g>>[i].at = "clear"
    BY <2>1
  <2>3. Spares(<<g>>, d, u)
    BY <2>2 DEF Spares
  <2> QED
    BY <1>3, <2>1, <2>3
<1>9. CASE Empties(a)
  <2>1. Spares(<<>>, d, u)
    BY DEF Spares
  <2> QED
    BY <1>3, <1>9, <2>1 DEF Empties
<1> QED
  BY <1>4, <1>5, <1>6, <1>7, <1>8, <1>9, StackStepsOf DEF StackSteps

LEMMA SafeTrimmed ==
  ASSUME Types, Numbered, [Next]_vars, NEW a \in Accounts, NEW d, NEW c, Safe(a, d, c),
         NEW U, box'[a] = Without(a, U), c.uid \notin U, Decides(a) => Top(a).d # d
  PROVE  Safe(a, d, c)'
<1>1. ServerType /\ plus' = plus
  BY PlusStays DEF Types
<1>2. Newest(a, d, c)'
  BY <1>1, NewestKept DEF Safe
<1>3. a \in plus /\ Only(a, d, c) => Only(a, d, c)'
  BY <1>1, OnlyKept
<1>4. PICK u : u = c.uid
  OBVIOUS
<1>5. Spares(stack[a], d, c.uid) => Spares(stack[a], d, c.uid)'
  BY SparesStep
<1> QED
  BY <1>1, <1>2, <1>3, <1>5 DEF Safe

\* The push of d sends off a new copy: that is the one kept from now on.
LEMMA SafeAppended ==
  ASSUME Types, Numbered, [Next]_vars, NEW a \in Accounts, NEW d, Top(a).d = d,
         NEW w, Appended(a, w), box'[a] = box[a] \cup {w}
  PROVE  Safe(a, d, w)'
<1>1. Appended(a, w) /\ box'[a] = box[a] \cup {w}
  OBVIOUS
<1>2. \A x \in box[a] : x.uid \in Nat /\ x.uid < next[a]
  BY DEF Types, ServerType, CopyT, Numbered
<1>3. w.uid = next[a] /\ w.of = d /\ ~w.deleted /\ AppendCopy(a) /\ next[a] \in Nat /\ stack[a] # <<>>
  BY <1>1 DEF Appended, Types, ServerType, At
<1>4. Newest(a, d, w)'
  BY <1>1, <1>2, <1>3 DEF Newest
<1>5. PICK f : f = Top(a) /\ f \in FrameT /\ f = stack[a][1] /\ f.d = d
  BY <1>3, TopType DEF Types
<1>6. PICK g : /\ g = [f EXCEPT !.at = "drop", !.body = 0, !.files = 0, !.uid = IF a \in plus THEN next[a] ELSE 0]
               /\ Goto(a, g)
  BY <1>3, <1>5 DEF AppendCopy
<1>7. g.at = "drop" /\ g.d = d /\ g \in FrameT
  BY <1>3, <1>5, <1>6 DEF FrameT
<1>8. PICK s : s = stack[a] /\ s \in Seq(FrameT) /\ s # <<>>
  BY <1>3 DEF Types, StackType
<1>9. stack'[a] = [s EXCEPT ![1] = g]
  BY <1>6, <1>8 DEF Goto, Types, StackType
<1>10. Spares([s EXCEPT ![1] = g], d, w.uid)
  BY <1>7, <1>8, SparesKept
<1>11. Spares(stack[a], d, w.uid)'
  BY <1>9, <1>10 DEF Spares
<1> QED
  BY <1>1, <1>4, <1>11 DEF Safe

\* The push of d removes the copy it replaces: not the one it has just sent off.
LEMMA SafeReplaced ==
  ASSUME Kept, Stayed, [Next]_vars, NEW a \in Accounts, NEW d, DropOld(a), Top(a).d = d,
         NEW c, Safe(a, d, c)
  PROVE  Safe(a, d, c)'
<1>1. stack[a] # <<>> /\ Top(a).at = "drop"
  BY Zenon DEF DropOld, At, Top
<1>2. PICK f : f = Top(a) /\ f \in FrameT /\ f = stack[a][1] /\ f.d = d /\ f.at = "drop"
  BY <1>1, TopType DEF Kept, Types
<1>3. Fresh(a) /\ Told(a, f) /\ FrameOwns(a, f)
  <2>1. 1 \in DOMAIN stack[a]
    BY <1>1 DEF Kept, Types, StackType
  <2> QED
    BY <1>1, <1>2, <2>1 DEF Kept, HeadInv, OwnInv
<1>4. next[a] \in Nat \ {0} /\ \A x \in box[a] : x.uid \in Nat /\ x.uid < next[a]
  BY DEF Kept, Types, ServerType, CopyT, Numbered
<1>5. PICK w \in box[a] : w.uid = next[a] - 1 /\ w.of = d
  BY <1>1, <1>2, <1>3 DEF Fresh
<1>6. Newest(a, d, c) /\ c \in box[a]
  BY DEF Safe, Newest
<1>7. c.uid = next[a] - 1
  <2>1. w.uid <= c.uid
    BY <1>5, <1>6 DEF Newest
  <2> QED
    BY <1>4, <1>5, <1>6, <2>1
<1>8. f.old < next[a] - 1 /\ (f.old # 0 => f.folder = a) /\ f.old \in Nat
  BY <1>2, <1>3 DEF FrameOwns, Owns, FrameT
<1>9. c.uid \notin {f.old}
  BY <1>4, <1>7, <1>8
<1>10. box'[a] = Without(a, {f.old})
  BY <1>2, <1>8, DropOldFacts DEF Kept
<1>11. Newest(a, d, c)'
  BY <1>6, <1>9, <1>10, NewestKept DEF Kept, Types
<1>12. ASSUME a \in plus PROVE Spares(stack[a], d, c.uid)'
  <2>1. f.uid = c.uid
    BY <1>1, <1>2, <1>3, <1>7, <1>12 DEF Fresh
  <2>2. PICK g : g = [f EXCEPT !.at = "yield", !.folder = None, !.old = 0] /\ Goto(a, g)
    BY <1>2, Zenon DEF DropOld
  <2>3. g.at = "yield" /\ g.d = d /\ g.uid = c.uid /\ g \in FrameT
    BY <1>2, <2>1, <2>2 DEF FrameT, Somewhere
  <2>4. PICK s : s = stack[a] /\ s \in Seq(FrameT) /\ s # <<>>
    BY <1>1 DEF Kept, Types, StackType
  <2>5. stack'[a] = [s EXCEPT ![1] = g]
    BY <2>2, <2>4 DEF Goto, Kept, Types, StackType
  <2>6. Spares([s EXCEPT ![1] = g], d, c.uid)
    BY <2>3, <2>4, SparesKept
  <2> QED
    BY <2>5, <2>6 DEF Spares
<1> QED
  BY <1>11, <1>12, PlusStays DEF Safe

LEMMA Pairs ==
  ASSUME NEW S \in SUBSET Nat, NEW n \in Nat, \A y \in S : y <= n,
         NEW x \in S, NEW y \in S, x # y
  PROVE  ~(Cardinality(S) < 2)
<1>1. IsFiniteSet(S)
  <2>1. S \subseteq 0..n
    OBVIOUS
  <2>2. IsFiniteSet(0..n)
    BY FS_Interval
  <2> QED
    BY <2>1, <2>2, FS_Subset
<1>2. {x, y} \subseteq S /\ IsFiniteSet({x}) /\ Cardinality({x}) = 1
  BY FS_Singleton
<1>3. {x, y} = {x} \cup {y} /\ y \notin {x}
  OBVIOUS
<1>4. Cardinality({x, y}) = 2
  <2>1. Cardinality({x} \cup {y}) = Cardinality({x}) + 1
    BY <1>2, <1>3, FS_AddElement, Zenon
  <2> QED
    BY <1>2, <1>3, <2>1
<1>5. Cardinality({x, y}) <= Cardinality(S)
  BY <1>1, <1>2, FS_Subset
<1>6. Cardinality(S) \in Nat
  BY <1>1, FS_CardinalityType
<1> QED
  BY <1>4, <1>5, <1>6

LEMMA OneOnly ==
  ASSUME NEW S, NEW x, S \subseteq {x} PROVE Cardinality(S) < 2
<1>1. CASE S = {}
  BY <1>1, FS_EmptySet
<1>2. CASE S = {x}
  BY <1>2, FS_Singleton
<1> QED
  BY <1>1, <1>2

\* The push of d sweeps: the newest copy is not a sibling of the one the push keeps, and
\* what it leaves on a server with UIDPLUS is that one only.
LEMMA SafeSwept ==
  ASSUME Kept, Stayed, [Next]_vars, NEW a \in Accounts, NEW d \in Drafts, Sweep(a), Top(a).d = d,
         row[d].is = "row", NEW c, Safe(a, d, c)
  PROVE  Safe(a, d, c)'
<1>1. stack[a] # <<>> /\ Top(a).at = "yield"
  BY DEF Sweep, At, Top
<1>2. PICK f : f = Top(a) /\ f \in FrameT /\ f = stack[a][1] /\ f.d = d /\ f.at = "yield"
  BY <1>1, TopType DEF Kept, Types
<1>3. 1 \in DOMAIN stack[a]
  BY <1>1 DEF Kept, Types, StackType
<1>4. Told(a, f) /\ f.id = row[d].id /\ Minted(f.id, d) /\ \A w \in box[a] : w.of = d => w.id = f.id
  <2>1. FrameMinted(f) /\ Told(a, f) /\ Named1(d) /\ ~Moved(d)
    BY <1>2, <1>3 DEF Kept, MintInv, HeadInv, NameInv, Stayed
  <2>2. FrameOf(f, d) /\ \A w \in box[a] : w.of = d => CopyOf(w, d)
    BY <1>2, <1>3, <2>1 DEF Named1
  <2> QED
    BY <1>2, <2>1, <2>2 DEF FrameMinted, FrameOf, CopyOf
<1>5. Newest(a, d, c) /\ c \in box[a] /\ c.of = d
  BY DEF Safe, Newest
<1>6. /\ next[a] \in Nat \ {0} /\ \A x \in box[a] : x.uid \in Nat \ {0} /\ x.uid < next[a]
      /\ \A r \in seen[a] : r.uid \in Nat /\ r.uid < next[a]
  BY DEF Kept, Types, ServerType, CopyT, SeenType, SeenT, Numbered
<1>7. PICK N : N = Named(a, f.id)
  OBVIOUS
<1>8. N \in SUBSET Nat /\ \A n \in N : n <= next[a]
  BY <1>6, <1>7 DEF Named
<1>9. ASSUME NEW w \in box[a], w.of = d PROVE w.uid \in N
  <2>1. Listed(a, w)
    BY <1>1, <1>2, <1>3 DEF Kept, SeenInv, Caught, Waiting
  <2>2. PICK r \in seen[a] : r.uid = w.uid
    BY <2>1 DEF Listed
  <2>3. r.id = f.id
    BY <1>4, <1>9, <2>2 DEF Kept, Numbered
  <2> QED
    BY <1>7, <2>2, <2>3 DEF Named
<1>10. ASSUME NEW r \in seen[a], r.id = f.id PROVE \E w \in box[a] : w.of = d /\ w.uid = r.uid
  <2>1. PICK w \in box[a] : w.uid = r.uid
    BY DEF Kept, SeenInv, Backed
  <2>2. w.id = f.id
    BY <1>10, <2>1 DEF Kept, Numbered
  <2>3. Minted(w.id, w.of)
    BY DEF Kept, MintInv
  <2> QED
    BY <1>4, <2>1, <2>2, <2>3 DEF Minted
<1>11. \A n \in N : \E w \in box[a] : w.of = d /\ w.uid = n
  BY <1>7, <1>10 DEF Named
<1>12. PICK u : u = Latest(a, f)
  OBVIOUS
<1>13. PICK G : G = Siblings(a, f.id, u)
  OBVIOUS
<1>14. G \subseteq N \ {u} /\ (~(Cardinality(N) < 2) => G = N \ {u}) /\ (Cardinality(N) < 2 => G = {})
  BY <1>7, <1>13 DEF Siblings
<1>15. a \in plus => f.uid # 0
  BY <1>2, <1>4 DEF Told
<1>16. ASSUME a \in plus, Spares(stack[a], d, c.uid) PROVE u = c.uid
  <2>1. f.uid = c.uid
    BY <1>2, <1>3, <1>16 DEF Spares
  <2> QED
    BY <1>12, <1>15, <1>16, <2>1 DEF Latest
<1>17. c.uid \notin G
  <2>1. CASE a \notin plus
    <3>1. f.uid = 0 /\ Minted(f.id, f.d)
      BY <1>2, <1>4, <2>1 DEF Told
    <3>2. u = Max({0} \cup Named(a, f.id))
      BY <1>12, <3>1 DEF Latest
    <3>3. /\ u \in Nat /\ \A r \in seen[a] : r.id = f.id => r.uid <= u
          /\ u = 0 \/ \E r \in seen[a] : r.id = f.id /\ r.uid = u
      BY <1>2, <3>1, <3>2, LatestIsMine DEF Kept
    <3>4. c.uid <= u
      BY <1>5, <1>7, <1>9, <3>3 DEF Named
    <3>5. u <= c.uid
      BY <1>5, <1>6, <1>10, <3>3 DEF Newest
    <3>6. u = c.uid
      BY <1>5, <1>6, <3>3, <3>4, <3>5
    <3> QED
      BY <1>14, <3>6
  <2>2. CASE a \in plus /\ Spares(stack[a], d, c.uid)
    BY <1>14, <1>16, <2>2
  <2>3. CASE a \in plus /\ Only(a, d, c)
    <3>1. N \subseteq {c.uid}
      BY <1>11, <2>3 DEF Only
    <3>2. Cardinality(N) < 2
      BY <3>1, OneOnly
    <3> QED
      BY <1>14, <3>2
  <2> QED
    BY <2>1, <2>2, <2>3 DEF Safe
<1>18. PICK U : /\ U \subseteq G /\ box' = [box EXCEPT ![a] = Without(a, U)]
                /\ U = G \/ \E g : g = [f EXCEPT !.at = "clear", !.uid = u] /\ stack' = [stack EXCEPT ![a] = <<g>>]
  <2>1. PICK end \in 1..next[a] : LET gone == {x \in G : x < end} IN
          /\ box' = [box EXCEPT ![a] = Without(a, gone)]
          /\ gone = G \/ stack' = [stack EXCEPT ![a] = <<[f EXCEPT !.at = "clear", !.uid = u]>>]
    BY <1>2, <1>12, <1>13 DEF Sweep, Latest
  <2> QED
    BY <2>1
<1>19. box'[a] = Without(a, U) /\ c.uid \notin U /\ ServerType
  BY <1>17, <1>18 DEF Kept, Types, ServerType
<1>20. Newest(a, d, c)'
  BY <1>5, <1>19, NewestKept
<1>21. a \in plus /\ Only(a, d, c) => Only(a, d, c)'
  BY <1>19, OnlyKept
<1>22. ASSUME a \in plus, Spares(stack[a], d, c.uid), U = G PROVE Only(a, d, c)'
  <2>1. ASSUME NEW w \in box'[a], w.of = d, w # c PROVE FALSE
    <3>1. w \in box[a] /\ w.uid \notin U
      BY <1>19, <1>22, <2>1, WithoutFacts DEF Remains
    <3>2. w.uid # c.uid
      BY <1>5, <2>1, <3>1 DEF Kept, Numbered
    <3>3. w.uid \in N /\ c.uid \in N
      BY <1>5, <1>9, <2>1, <3>1
    <3>4. ~(Cardinality(N) < 2)
      BY <1>6, <1>8, <3>2, <3>3, Pairs
    <3> QED
      BY <1>14, <1>16, <1>22, <3>1, <3>2, <3>3, <3>4
  <2> QED
    BY <2>1 DEF Only
<1>23. ASSUME NEW g, g = [f EXCEPT !.at = "clear", !.uid = u], stack' = [stack EXCEPT ![a] = <<g>>]
       PROVE  Spares(stack[a], d, c.uid)'
  <2>1. g.at = "clear" /\ stack'[a] = <<g>>
    BY <1>2, <1>23 DEF FrameT, Kept, Types, StackType
  <2>2. \A i \in DOMAIN stack'[a] : stack'[a][i].at = "clear"
    BY <2>1
  <2> QED
    BY <2>2 DEF Spares
<1> QED
  BY <1>18, <1>20, <1>21, <1>22, <1>23, PlusStays DEF Safe

LEMMA AppendGrows ==
  ASSUME Types, [Next]_vars, NEW a \in Accounts, AppendCopy(a) PROVE Grows(a)
<1>1. next'[a] = next[a] + 1 /\ next[a] \in Nat /\ Top(a).at = "append" /\ At(a, "append")
  BY DEF AppendCopy, At, Top, Types, ServerType
<1>2. next'[a] # next[a]
  BY <1>1
<1>3. ~DropOld(a) /\ ~Sweep(a)
  BY <1>1, Zenon DEF DropOld, Sweep, At, Top
<1>4. ~Removes(a) /\ ~Strays(a) /\ ~Untouched(a)
  BY <1>2 DEF Removes, Strays, Untouched
<1> QED
  BY <1>3, <1>4, MailStep DEF MailSteps

\* A draft that was never published is until its push appends.
LEMMA UnpublishedStep ==
  ASSUME Kept, Stayed, [Next]_vars, NEW a \in Accounts, NEW d \in Drafts,
         row[d].is = "row", row[d].account = a, row'[d].is = "row", Unpublished(a, d),
         ~Grows(a) \/ Top(a).d # d
  PROVE  Unpublished(a, d)'
<1>1. \A c \in box[a] : c.of # d
  BY DEF Unpublished
<1>2. ASSUME AppendCopy(a), Top(a).d = d PROVE FALSE
  BY <1>2, AppendGrows DEF Kept
<1>3. Early(a, d)'
  BY <1>2, EarlyStep DEF Kept, Unpublished
<1>4. ASSUME NEW w \in box'[a] PROVE w.of # d
  <2>1. ~(Appended(a, w) /\ w.of = d)
    BY <1>2 DEF Appended
  <2> QED
    BY <1>1, <2>1, BoxStep DEF BoxSteps, Kept
<1>5. row'[d].uid = 0
  <2>1. row[d] \in RowT /\ row[d].uid = 0 /\ RowSteps(d)
    BY RowStep DEF Kept, Types, RowsType, Unpublished
  <2>2. ASSUME NEW b \in Accounts, Rewritten(d, b) \/ Stamped(d, b) PROVE row'[d].uid = 0
    BY <2>1, <2>2 DEF Rewritten, Upserted, Stamped, RowT
  <2>3. Refiled(d) => row'[d].uid = 0
    BY <2>1 DEF Refiled, RowT
  <2>4. ASSUME NEW b \in Accounts, Cleared(d, b) PROVE FALSE
    <3>1. stack[b] # <<>> /\ Top(b).d = d /\ Top(b).at = "clear"
      BY <2>4 DEF Cleared
    <3>2. Top(b) = stack[b][1] /\ 1 \in DOMAIN stack[b]
      BY <3>1, TopType DEF Kept, Types, StackType
    <3>3. PushingAt(b, d)
      BY <3>1, <3>2 DEF PushingAt
    <3>4. b = a
      BY <3>3 DEF Kept, HomeInv, Home, Trace, Stayed
    <3> QED
      BY <3>1, <3>2, <3>4 DEF Unpublished, Early
  <2>5. Deleted(d) => row'[d].is # "row"
    BY DEF Deleted, NoRow
  <2> QED
    BY <2>1, <2>2, <2>3, <2>4, <2>5 DEF RowSteps
<1> QED
  BY <1>3, <1>4, <1>5 DEF Unpublished

\* The copy that is kept stays the same until the push of d appends.
LEMMA SafeStep ==
  ASSUME Kept, Stayed, [Next]_vars, NEW a \in Accounts, NEW d \in Drafts,
         row[d].is = "row", NEW c \in box[a], Safe(a, d, c), ~Grows(a) \/ Top(a).d # d
  PROVE  Safe(a, d, c)'
<1>1. Types /\ Numbered /\ ServerType
  BY DEF Kept, Types
<1>4. CASE DropOld(a) /\ Top(a).d = d
  BY <1>4, SafeReplaced
<1>5. CASE Sweep(a) /\ Top(a).d = d
  BY <1>5, SafeSwept
<1>6. ASSUME NEW U, box'[a] = Without(a, U), c.uid \notin U, Decides(a) => Top(a).d # d
      PROVE  Safe(a, d, c)'
  BY <1>1, <1>6, SafeTrimmed
<1>7. CASE Untouched(a) /\ (Decides(a) => Top(a).d # d)
  <2>1. box'[a] = Without(a, {})
    BY <1>1, <1>7, WithoutNone DEF Untouched
  <2> QED
    BY <1>6, <1>7, <2>1
<1>8. CASE Removes(a) /\ ~Decides(a)
  <2>1. PICK k \in cmds[a] : k.op = "drop" /\ box'[a] = Without(a, {k.uid})
    BY <1>8 DEF Removes
  <2>2. row[k.d].is = "gone" /\ Mine(a, k.uid, k.d)
    BY <2>1 DEF Kept, OwnInv, CmdOwns, Owns
  <2>3. c.uid # k.uid
    BY <2>2 DEF Mine, Safe, Newest
  <2>4. c.uid \notin {k.uid}
    BY <2>3
  <2> QED
    BY <1>6, <1>8, <2>1, <2>4
<1>9. CASE Grows(a) /\ Top(a).d # d
  <2>1. PICK w : Appended(a, w) /\ box'[a] = box[a] \cup {w}
    BY <1>9 DEF Grows
  <2>2. w.of # d
    BY <1>9, <2>1 DEF Appended
  <2>3. Newest(a, d, c)' /\ (Only(a, d, c) => Only(a, d, c)')
    BY <2>1, <2>2 DEF Safe, Newest, Only
  <2>4. Spares(stack[a], d, c.uid) => Spares(stack[a], d, c.uid)'
    BY <1>1, <1>9, SparesStep
  <2> QED
    BY <2>3, <2>4, PlusStays DEF Safe
<1>10. ASSUME stack[a] # <<>> PROVE FrameOwns(a, Top(a)) /\ FrameMinted(Top(a)) /\ Top(a) \in FrameT
  <2>1. Top(a) = stack[a][1] /\ 1 \in DOMAIN stack[a] /\ Top(a) \in FrameT
    BY <1>1, <1>10, TopType DEF Types, StackType
  <2> QED
    BY <2>1 DEF Kept, OwnInv, MintInv
<1>11. CASE DropOld(a) /\ Top(a).d # d
  <2>1. stack[a] # <<>>
    BY <1>11, Zenon DEF DropOld, At
  <2>2. Mine(a, Top(a).old, Top(a).d) /\ (Top(a).old # 0 => Top(a).folder = a)
    BY <1>10, <2>1 DEF FrameOwns, Owns
  <2>3. box'[a] = Without(a, {Top(a).old})
    BY <1>1, <1>11, <2>2, DropOldFacts
  <2>4. c.uid \notin {Top(a).old}
    BY <1>11, <2>2 DEF Mine, Safe, Newest
  <2> QED
    BY <1>6, <1>11, <2>3, <2>4
<1>12. CASE Sweep(a) /\ Top(a).d # d
  <2>1. stack[a] # <<>> /\ Top(a).at = "yield"
    BY <1>12 DEF Sweep, At, Top
  <2>2. Minted(Top(a).id, Top(a).d)
    BY <1>10, <2>1 DEF FrameMinted
  <2>3. \A n \in Named(a, Top(a).id) : \E r \in seen[a] : r.id = Top(a).id /\ r.uid = n
    BY DEF Named
  <2>4. PICK u : u = IF Top(a).uid # 0 THEN Top(a).uid ELSE Max({0} \cup Named(a, Top(a).id))
    OBVIOUS
  <2>5. PICK U : U \subseteq Siblings(a, Top(a).id, u) /\ box' = [box EXCEPT ![a] = Without(a, U)]
    <3>1. PICK end \in 1..next[a] :
            box' = [box EXCEPT ![a] = Without(a, {x \in Siblings(a, Top(a).id, u) : x < end})]
      BY <1>12, <2>4 DEF Sweep
    <3> QED
      BY <3>1
  <2>6. box'[a] = Without(a, U) /\ U \subseteq Named(a, Top(a).id)
    BY <1>1, <2>5 DEF ServerType, Siblings
  <2>7. ASSUME c.uid \in U PROVE FALSE
    <3>1. PICK r \in seen[a] : r.id = Top(a).id /\ r.uid = c.uid
      BY <2>3, <2>6, <2>7
    <3>2. c.id = Top(a).id
      BY <3>1, <1>1 DEF Numbered
    <3>3. Minted(c.id, c.of) /\ c.of = d
      BY DEF Kept, MintInv, Safe, Newest
    <3> QED
      BY <1>12, <2>2, <3>2, <3>3 DEF Minted
  <2> QED
    BY <1>6, <1>12, <2>6, <2>7
<1>13. Removes(a) /\ Decides(a) => Grows(a) \/ DropOld(a) \/ Sweep(a)
  <2>1. ASSUME AppendCopy(a), UNCHANGED next PROVE FALSE
    <3>1. next'[a] = next[a] + 1 /\ next[a] \in Nat
      BY <1>1, <2>1 DEF AppendCopy, ServerType
    <3> QED
      BY <2>1, <3>1
  <2> QED
    BY <2>1 DEF Removes, Decides
<1>14. Untouched(a) /\ Decides(a) => DropOld(a) \/ Sweep(a)
  <2>1. ASSUME AppendCopy(a), next'[a] = next[a] PROVE FALSE
    <3>1. next'[a] = next[a] + 1 /\ next[a] \in Nat
      BY <1>1, <2>1 DEF AppendCopy, ServerType
    <3> QED
      BY <2>1, <3>1
  <2> QED
    BY <2>1 DEF Untouched, Decides
<1>15. ~Strays(a) /\ MailSteps(a)
  BY <1>1, NoStrays, MailStep DEF Kept
<1> QED
  BY <1>4, <1>5, <1>7, <1>8, <1>9, <1>11, <1>12, <1>13, <1>14, <1>15 DEF MailSteps

LEMMA KeptStep == ASSUME Kept, KeptInv, [Next]_vars PROVE KeptInv'
<1> SUFFICES ASSUME Stayed', Stayed, NEW d \in Drafts, NEW a \in Accounts,
                    row'[d].is = "row", row'[d].account = a
             PROVE  Unpublished(a, d)' \/ \E c \in box'[a] : Safe(a, d, c)'
  BY StayedStep DEF KeptInv, Kept
<1>1. ~Moved(d)' /\ ~Moved(d) /\ row[d] \in RowT
  BY DEF Stayed, Kept, Types, RowsType
<1>2. row[d].is \in {"new", "row"}
  BY <1>1, RowPlace DEF Kept
<1>3. CASE row[d].is = "row"
  <2>1. row[d].account = a
    <3>1. row'[d] # NoRow("gone")
      BY DEF NoRow
    <3> QED
      BY <1>1, <1>3, <3>1, RowPlace DEF Kept
  <2>0. ASSUME Grows(a), Top(a).d = d PROVE \E w \in box'[a] : Safe(a, d, w)'
    <3>1. PICK w : Appended(a, w) /\ box'[a] = box[a] \cup {w}
      BY <2>0 DEF Grows
    <3> QED
      BY <2>0, <3>1, SafeAppended DEF Kept
  <2>2. CASE Unpublished(a, d)
    <3>1. CASE Grows(a) /\ Top(a).d = d
      BY <2>0, <3>1
    <3> QED
      BY <1>3, <2>1, <2>2, <3>1, UnpublishedStep
  <2>3. ASSUME NEW c \in box[a], Safe(a, d, c) PROVE \E w \in box'[a] : Safe(a, d, w)'
    <3>1. CASE Grows(a) /\ Top(a).d = d
      BY <2>0, <3>1
    <3>2. CASE ~Grows(a) \/ Top(a).d # d
      BY <1>3, <2>3, <3>2, SafeStep DEF Safe, Newest
    <3> QED
      BY <3>1, <3>2
  <2> QED
    BY <1>3, <2>1, <2>2, <2>3 DEF KeptInv
<1>4. CASE row[d].is = "new"
  <2>1. row[d] = NoRow("new") /\ \A b \in Accounts : ~Trace(b, d)
    BY <1>4 DEF Kept, HomeInv, Home
  <2>2. \E b \in Accounts : Rewritten(d, b)
    <3>1. row'[d] # row[d] /\ row'[d] # NoRow("gone")
      BY <1>4 DEF NoRow
    <3> QED
      BY <1>1, <1>4, <3>1, RowPlace DEF Kept
  <2>3. PICK b \in Accounts : Rewritten(d, b)
    BY <2>2
  <2>4. UNCHANGED <<box, stack>> /\ row'[d].uid = row[d].uid
    <3>1. row'[d] = Upserted(d, b) /\ UpsertDraft(d, b)
      BY <2>3 DEF Rewritten
    <3>2. Upserted(d, b).uid = row[d].uid
      BY <1>1 DEF Upserted, RowT
    <3>3. UNCHANGED <<box, stack>>
      BY <3>1 DEF UpsertDraft, serverVars
    <3> QED
      BY <3>1, <3>2, <3>3
  <2>5. row[d].uid = 0
    BY <2>1 DEF NoRow
  <2>6. \A c \in box[a] : c.of # d
    BY <2>1 DEF Trace, Copied
  <2>7. Early(a, d)
    BY <2>1 DEF Trace, PushingAt, Early
  <2> QED
    BY <2>4, <2>5, <2>6, <2>7 DEF Unpublished, Early
<1> QED
  BY <1>2, <1>3, <1>4

LEMMA KeptInit == Init => KeptInv
  BY DEF Init, KeptInv, NoRow

LEMMA HeadInit == Init => HeadInv
  BY DEF Init, HeadInv

KeepInv == Kept /\ KeptInv

LEMMA KeepInvHolds == Spec => []KeepInv
<1>1. Init => KeepInv
  BY TypesInit, NumberedInit, MarksInit, HomeInit, NameInit, MintInit, HeadInit, OwnInit, SeenInit, KeptInit
     DEF KeepInv, Kept, Init, Stacked
<1>2. ASSUME KeepInv, DraftInv, DraftInv', [Next]_vars PROVE KeepInv'
  <2>1. Kept /\ KeptInv
    BY <1>2 DEF KeepInv
  <2>2. MintInv' /\ HeadInv' /\ OwnInv' /\ SeenInv' /\ KeptInv'
    BY <1>2, <2>1, MintStep, HeadStep, OwnStep, SeenStep, KeptStep DEF Kept
  <2> QED
    BY <1>2, <2>2 DEF DraftInv, KeepInv, Kept
<1> QED
  BY <1>1, <1>2, DraftInvHolds, PTL DEF Spec

\* Append, then delete: a draft whose row says where it was published has a copy there,
\* whichever pushes, sweeps, restarts and lost connections it is in the middle of
\* (DraftMailbox.Push), as long as no draft has changed accounts.
THEOREM NoHole == Spec => []NeverAHole
<1>1. KeepInv => NeverAHole
  <2> SUFFICES ASSUME KeepInv, Stayed, NEW d \in Drafts, row[d].is = "row", row[d].uid # 0
               PROVE  Live(row[d].folder, d) # {}
    BY DEF NeverAHole
  <2>1. Kept /\ KeptInv
    BY DEF KeepInv
  <2>2. PICK a : a = row[d].account
    OBVIOUS
  <2>3. row[d].folder = a /\ a \in Accounts
    BY <2>1, <2>2 DEF Kept, HomeInv, Home, Trace, Published, Stayed
  <2>4. \E c \in box[a] : Safe(a, d, c)
    BY <2>1, <2>2, <2>3 DEF KeptInv, Unpublished
  <2> QED
    BY <2>3, <2>4 DEF Safe, Newest, Live
<1> QED
  BY <1>1, KeepInvHolds, PTL

-----------------------------------------------------------------------------
(* What a clean row says *)

Unread(f) == f.at \in {"build", "append"}
\* The row is clean, or a push that has sent its present text off will say that it is.
Due(a, d) == ~row[d].dirty \/ \E i \in DOMAIN stack[a] :
  stack[a][i].d = d /\ ~Unread(stack[a][i]) /\ stack[a][i].saved = row[d].at
\* A push carries the text of the save whose time it carries, and none that began before
\* the last save is still to append when one that began after it has.
Carries1(a, d, f) ==
  /\ f.saved <= row[d].at
  /\ Unread(f) => (f.saved = row[d].at => f.body = row[d].body) /\ (Due(a, d) => f.saved = row[d].at)
Timely(a, d) ==
  row[d].at <= now /\ \A i \in DOMAIN stack[a] : stack[a][i].d = d => Carries1(a, d, stack[a][i])
Bodied(a, d) == Due(a, d) => \E c \in box[a] : Safe(a, d, c) /\ c.body = row[d].body
Filed1(a, d) == ~row[d].dirty => row[d].folder = a

\* As long as no draft has changed accounts, the copy that is kept of a draft that is due
\* to be clean holds the text in its row.
DueInv == Stayed => \A d \in Drafts, a \in Accounts :
  row[d].is = "row" /\ row[d].account = a =>
    Filed1(a, d) /\ (marks[d] \subseteq {"cut", "nested"} => Timely(a, d) /\ Bodied(a, d))

LEMMA NowStep == ASSUME Types, [Next]_vars PROVE now \in Nat /\ now' \in Nat /\ now <= now'
<1>1. now \in Nat
  BY DEF Types, RowsType
<1>2. Tick => now' = now + 1
  BY DEF Tick
<1>3. ASSUME NEW d \in Drafts,
             (\E a \in Accounts : UpsertDraft(d, a)) \/ KeepAndPublish(d) \/ DropRead(d) \/ DropDelete(d)
      PROVE  now' = now
  BY <1>3 DEF UpsertDraft, KeepAndPublish, DropRead, DropDelete
<1>4. ASSUME NEW a \in Accounts, Worker(a) \/ ConnLost(a) PROVE now' = now
  BY <1>4 DEF Worker, Push, Take, PushDirtyDrafts, BuildDraft, AppendCopy, DropOld, Sweep, Clear, ConnLost, rowVars
<1>5. Restart \/ UNCHANGED vars => now' = now
  BY DEF Restart, vars, rowVars
<1>6. ASSUME NEW a \in Accounts, Refused(a) PROVE now' = now
  BY <1>6, RefusedKeeps
<1> QED
  BY <1>1, <1>2, <1>3, <1>4, <1>5, <1>6 DEF Next, Compose

\* A save, and anything else that happens to a row that stays one.
LEMMA RowText ==
  ASSUME Kept, Stayed, [Next]_vars, NEW a \in Accounts, NEW d \in Drafts,
         row[d].is = "row", row[d].account = a, row'[d].is = "row"
  PROVE  \/ \E b \in Accounts : Rewritten(d, b)
         \/ /\ row'[d].at = row[d].at /\ row'[d].body = row[d].body
            /\ \/ row'[d].dirty = row[d].dirty /\ row'[d].folder = row[d].folder
               \/ /\ Cleared(d, a) /\ row'[d].folder = a
                  /\ ~row'[d].dirty => Top(a).saved = row[d].at
<1>1. row[d] \in RowT /\ RowSteps(d)
  BY RowStep DEF Kept, Types, RowsType
<1>2. ASSUME NEW b \in Accounts, Stamped(d, b)
      PROVE  /\ row'[d].at = row[d].at /\ row'[d].body = row[d].body
             /\ row'[d].dirty = row[d].dirty /\ row'[d].folder = row[d].folder
  BY <1>1, <1>2 DEF Stamped, RowT
<1>3. Refiled(d) => /\ row'[d].at = row[d].at /\ row'[d].body = row[d].body
                    /\ row'[d].dirty = row[d].dirty /\ row'[d].folder = row[d].folder
  BY <1>1 DEF Refiled, RowT
<1>4. ~Deleted(d)
  BY DEF Deleted, NoRow
<1>5. ASSUME NEW b \in Accounts, Cleared(d, b)
      PROVE  /\ Cleared(d, a) /\ row'[d].at = row[d].at /\ row'[d].body = row[d].body /\ row'[d].folder = a
             /\ ~row'[d].dirty => Top(a).saved = row[d].at
  <2>1. stack[b] # <<>> /\ Top(b).d = d
    BY <1>5 DEF Cleared
  <2>2. Top(b) = stack[b][1] /\ 1 \in DOMAIN stack[b]
    BY <2>1, TopType DEF Kept, Types, StackType
  <2>3. b = a
    BY <2>1, <2>2 DEF PushingAt, Kept, HomeInv, Home, Trace, Stayed
  <2>4. row'[d] = ClearDraftDirty(d, Top(a), a)
    BY <1>5, <2>3 DEF Cleared
  <2>5. /\ ClearDraftDirty(d, Top(a), a).at = row[d].at /\ ClearDraftDirty(d, Top(a), a).body = row[d].body
        /\ ClearDraftDirty(d, Top(a), a).folder = a
        /\ ~ClearDraftDirty(d, Top(a), a).dirty => row[d].at = Top(a).saved
    BY <1>1 DEF ClearDraftDirty, RowT
  <2> QED
    BY <1>5, <2>3, <2>4, <2>5
<1> QED
  BY <1>1, <1>2, <1>3, <1>4, <1>5 DEF RowSteps

\* Nothing that is not due gets due but by an append of the present text.
LEMMA DueStep ==
  ASSUME Kept, Stayed, [Next]_vars, NEW a \in Accounts, NEW d \in Drafts,
         row[d].is = "row", row[d].account = a, row'[d].is = "row", row'[d].at = row[d].at,
         row'[d].dirty = row[d].dirty \/ (Cleared(d, a) /\ (~row'[d].dirty => Top(a).saved = row[d].at)),
         Due(a, d)'
  PROVE  \/ Due(a, d)
         \/ /\ Grows(a) /\ Top(a).d = d /\ Top(a).saved = row[d].at
            /\ stack'[a] # <<>> /\ ~Unread(stack'[a][1])
<1>1. ASSUME stack[a] # <<>> PROVE Top(a) = stack[a][1] /\ 1 \in DOMAIN stack[a] /\ Top(a) \in FrameT
  BY <1>1, TopType DEF Kept, Types, StackType
<1>2. CASE ~row'[d].dirty /\ row'[d].dirty = row[d].dirty
  BY <1>2 DEF Due
<1>3. CASE Cleared(d, a) /\ Top(a).saved = row[d].at
  <2>1. stack[a] # <<>> /\ Top(a).d = d /\ Top(a).at = "clear"
    BY <1>3 DEF Cleared
  <2> QED
    BY <1>1, <1>3, <2>1 DEF Due, Unread
<1>4. ASSUME NEW i \in DOMAIN stack'[a], stack'[a][i].d = d, ~Unread(stack'[a][i]), stack'[a][i].saved = row[d].at
      PROVE  \/ Due(a, d)
             \/ /\ Grows(a) /\ Top(a).d = d /\ Top(a).saved = row[d].at
                /\ stack'[a] # <<>> /\ ~Unread(stack'[a][1])
  <2>1. CASE \E j \in DOMAIN stack[a] : stack'[a][i] = stack[a][j]
    BY <1>4, <2>1 DEF Due
  <2>2. ASSUME NEW e, stack'[a][i] = Frame(e) PROVE FALSE
    BY <1>4, <2>2 DEF Frame, Unread
  <2>3. CASE i = 1 /\ Advanced(a, stack'[a][i])
    <3>1. PICK g : g = stack'[a][i] /\ Advanced(a, g) /\ g.d = d /\ ~Unread(g) /\ g.saved = row[d].at
      BY <1>4, <2>3
    <3>2. stack[a] # <<>> /\ Top(a).d = d /\ Top(a).saved = row[d].at
      BY <3>1 DEF Advanced
    <3>3. CASE SentOff(a, Top(a), g)
      <4>1. Grows(a)
        BY <3>3, AppendGrows DEF SentOff, Kept
      <4>2. stack'[a] # <<>>
        BY <1>4
      <4> QED
        BY <1>4, <2>3, <3>2, <4>1, <4>2
    <3>4. CASE Denied(a, Top(a), g) \/ Yielded(a, Top(a), g) \/ Swept(a, Top(a), g)
      <4>1. ~Unread(Top(a))
        BY <3>4 DEF Denied, Yielded, Swept, Unread
      <4> QED
        BY <1>1, <3>2, <4>1 DEF Due
    <3>5. ~Built(a, Top(a), g)
      BY <3>1 DEF Built, Unread
    <3> QED
      BY <3>1, <3>3, <3>4, <3>5 DEF Advanced
  <2> QED
    BY <2>1, <2>2, <2>3, FrameStep DEF Kept
<1>5. \/ ~row'[d].dirty
      \/ \E i \in DOMAIN stack'[a] :
           stack'[a][i].d = d /\ ~Unread(stack'[a][i]) /\ stack'[a][i].saved = row[d].at
  BY DEF Due, Unread
<1> QED
  BY <1>2, <1>3, <1>4, <1>5

LEMMA UpsertTimes ==
  ASSUME Kept, Stayed, [Next]_vars, NEW a \in Accounts, NEW d \in Drafts, NEW b \in Accounts, Rewritten(d, b),
         \/ row[d].is = "new"
         \/ row[d].is = "row" /\ "hurried" \notin marks'[d] /\ Timely(a, d)
  PROVE  /\ row'[d].dirty /\ ~Due(a, d)' /\ Timely(a, d)'
<1>1. row[d] \in RowT /\ MarksType /\ now \in Nat
  BY DEF Kept, Types, RowsType
<1>2. row'[d].at = now /\ row'[d].dirty /\ now' = now /\ stack' = stack
  <2>1. row'[d] = Upserted(d, b) /\ row[d].is # "gone" /\ UpsertDraft(d, b)
    BY DEF Rewritten
  <2>2. Upserted(d, b).at = now /\ Upserted(d, b).dirty
    BY <1>1, <2>1 DEF Upserted, RowT
  <2> QED
    BY <2>1, <2>2 DEF UpsertDraft
<1>3. ASSUME NEW i \in DOMAIN stack[a], stack[a][i].d = d PROVE stack[a][i].saved <= now /\ stack[a][i].saved # now
  <2>1. PushingAt(a, d)
    BY <1>3 DEF PushingAt
  <2>2. row[d].is = "row"
    BY <2>1 DEF Kept, HomeInv, Home, Trace
  <2>3. row[d].at # now
    <3>1. row[d].at = now => "hurried" \in marks'[d]
      BY <1>1, <2>2 DEF Rewritten, UpsertDraft, Mark, MarksType
    <3> QED
      BY <2>2, <3>1
  <2>4. stack[a][i].saved \in Nat /\ row[d].at \in Nat
    <3>1. stack[a][i] \in FrameT
      BY <1>3 DEF Kept, Types, StackType
    <3> QED
      BY <1>1, <3>1 DEF FrameT, RowT
  <2>5. stack[a][i].saved <= row[d].at /\ row[d].at <= now
    BY <1>3, <2>2 DEF Timely, Carries1
  <2> QED
    BY <1>1, <2>3, <2>4, <2>5
<1>4. ~Due(a, d)'
  BY <1>2, <1>3 DEF Due
<1>5. now \in Nat /\ row'[d].at <= now'
  BY <1>1, <1>2
<1>6. ASSUME NEW i \in DOMAIN stack'[a], stack'[a][i].d = d PROVE Carries1(a, d, stack[a][i])'
  BY <1>2, <1>3, <1>4, <1>6 DEF Carries1
<1> QED
  BY <1>2, <1>4, <1>5, <1>6 DEF Timely

LEMMA TimelyStep ==
  ASSUME Kept, Types', Stacked', Stayed, [Next]_vars, NEW a \in Accounts, NEW d \in Drafts,
         row[d].is = "row", row[d].account = a, row'[d].is = "row",
         row'[d].at = row[d].at, row'[d].body = row[d].body,
         row'[d].dirty = row[d].dirty \/ (Cleared(d, a) /\ (~row'[d].dirty => Top(a).saved = row[d].at)),
         Timely(a, d)
  PROVE  Timely(a, d)'
<1>1. row[d] \in RowT /\ row[d].at <= now
  BY DEF Kept, Types, RowsType, Timely
<1>2. row'[d].at <= now'
  BY <1>1, NowStep DEF Kept, RowT
<1>3. ASSUME NEW i \in DOMAIN stack'[a], stack'[a][i].d = d PROVE Carries1(a, d, stack[a][i])'
  <2>0. stack'[a][i].saved <= row[d].at /\ (Unread(stack'[a][i]) =>
          /\ stack'[a][i].saved = row[d].at => stack'[a][i].body = row[d].body
          /\ Due(a, d) => stack'[a][i].saved = row[d].at)
    <3>1. CASE \E j \in DOMAIN stack[a] : stack'[a][i] = stack[a][j]
      BY <1>3, <3>1 DEF Timely, Carries1
    <3>2. ASSUME NEW e \in Drafts, stack'[a][i] = Frame(e)
          PROVE  stack'[a][i].saved = row[d].at /\ stack'[a][i].body = row[d].body
      BY <1>3, <3>2 DEF Frame
    <3>3. CASE Advanced(a, stack'[a][i])
      <4>1. PICK g : g = stack'[a][i] /\ Advanced(a, g) /\ g.d = d
        BY <1>3, <3>3
      <4>2. PICK f : f = Top(a) /\ f.d = d /\ f = stack[a][1] /\ g.saved = f.saved /\ stack[a] # <<>>
        BY <4>1 DEF Advanced
      <4>3. Carries1(a, d, f)
        <5>1. 1 \in DOMAIN stack[a]
          BY <4>2 DEF Kept, Types, StackType
        <5> QED
          BY <4>2, <5>1 DEF Timely
      <4>4. Unread(g) => Unread(f) /\ g.body = f.body
        BY <4>1, <4>2 DEF Advanced, Built, SentOff, Denied, Yielded, Swept, Unread
      <4> QED
        BY <4>1, <4>2, <4>3, <4>4 DEF Carries1
    <3> QED
      BY <1>1, <3>1, <3>2, <3>3, FrameStep DEF Kept, RowT
  <2>1. ASSUME Unread(stack'[a][i]), Due(a, d)' PROVE stack'[a][i].saved = row[d].at
    <3>1. CASE Due(a, d)
      BY <2>0, <2>1, <3>1
    <3>2. CASE stack'[a] # <<>> /\ ~Unread(stack'[a][1])
      <4>1. i # 1 /\ i \in 1..Len(stack'[a]) /\ Len(stack'[a]) \in Nat
        <5>1. stack'[a] \in Seq(FrameT)
          BY DEF Types, StackType
        <5> QED
          BY <1>3, <2>1, <3>2, <5>1
      <4>2. i \in 2..Len(stack'[a])
        BY <4>1
      <4> QED
        BY <2>1, <4>2 DEF Stacked, Unread
    <3> QED
      BY <2>1, <3>1, <3>2, DueStep
  <2> QED
    BY <2>0, <2>1 DEF Carries1, Unread
<1> QED
  BY <1>2, <1>3 DEF Timely

LEMMA BodiedStep ==
  ASSUME Kept, Stayed, [Next]_vars, NEW a \in Accounts, NEW d \in Drafts,
         row[d].is = "row", row[d].account = a, row'[d].is = "row",
         row'[d].at = row[d].at, row'[d].body = row[d].body,
         row'[d].dirty = row[d].dirty \/ (Cleared(d, a) /\ (~row'[d].dirty => Top(a).saved = row[d].at)),
         Timely(a, d), Bodied(a, d)
  PROVE  Bodied(a, d)'
<1> SUFFICES ASSUME Due(a, d)' PROVE \E c \in box'[a] : Safe(a, d, c)' /\ c.body = row[d].body
  BY DEF Bodied
<1>1. Due(a, d) \/ (Grows(a) /\ Top(a).d = d /\ Top(a).saved = row[d].at)
  BY DueStep
<1>2. CASE Grows(a) /\ Top(a).d = d
  <2>1. PICK w : Appended(a, w) /\ w.body = Top(a).body /\ box'[a] = box[a] \cup {w}
    BY <1>2 DEF Grows
  <2>2. stack[a] # <<>> /\ Unread(Top(a))
    BY <2>1 DEF Appended, At, Top, Unread
  <2>3. Carries1(a, d, Top(a))
    <3>1. Top(a) = stack[a][1] /\ 1 \in DOMAIN stack[a]
      BY <2>2, TopType DEF Kept, Types, StackType
    <3> QED
      BY <1>2, <3>1 DEF Timely
  <2>4. w.body = row[d].body
    BY <1>1, <2>1, <2>2, <2>3 DEF Carries1
  <2>5. Safe(a, d, w)'
    BY <1>2, <2>1, SafeAppended DEF Kept
  <2> QED
    BY <2>1, <2>4, <2>5
<1>3. CASE ~Grows(a) \/ Top(a).d # d
  <2>1. PICK c \in box[a] : Safe(a, d, c) /\ c.body = row[d].body
    BY <1>1, <1>3 DEF Bodied
  <2>2. Safe(a, d, c)'
    BY <1>3, <2>1, SafeStep
  <2> QED
    BY <2>1, <2>2 DEF Safe, Newest
<1> QED
  BY <1>2, <1>3

LEMMA DueInvStep == ASSUME Kept, Types', Stacked', KeptInv, DueInv, [Next]_vars PROVE DueInv'
<1> SUFFICES ASSUME Stayed', Stayed, NEW d \in Drafts, NEW a \in Accounts,
                    row'[d].is = "row", row'[d].account = a
             PROVE  Filed1(a, d)' /\ (marks'[d] \subseteq {"cut", "nested"} => Timely(a, d)' /\ Bodied(a, d)')
  BY StayedStep DEF DueInv, Kept
<1>1. ~Moved(d)' /\ ~Moved(d) /\ row[d] \in RowT /\ marks[d] \subseteq marks'[d]
  BY MarksStep DEF Stayed, Kept, Types, RowsType
<1>2. row[d].is \in {"new", "row"}
  BY <1>1, RowPlace DEF Kept
<1>3. CASE row[d].is = "new"
  <2>1. \E b \in Accounts : Rewritten(d, b)
    <3>1. row'[d] # row[d] /\ row'[d] # NoRow("gone")
      BY <1>3 DEF NoRow
    <3> QED
      BY <1>1, <1>3, <3>1, RowPlace DEF Kept
  <2>2. row'[d].dirty /\ ~Due(a, d)' /\ Timely(a, d)'
    BY <1>3, <2>1, UpsertTimes
  <2> QED
    BY <2>2 DEF Bodied, Filed1
<1>4. CASE row[d].is = "row"
  <2>1. row[d].account = a
    <3>1. row'[d] # NoRow("gone")
      BY DEF NoRow
    <3> QED
      BY <1>1, <1>4, <3>1, RowPlace DEF Kept
  <2>2. Filed1(a, d) /\ (marks[d] \subseteq {"cut", "nested"} => Timely(a, d) /\ Bodied(a, d))
    BY <1>4, <2>1 DEF DueInv
  <2>3. CASE \E b \in Accounts : Rewritten(d, b)
    <3>1. marks'[d] \subseteq {"cut", "nested"} => row'[d].dirty /\ ~Due(a, d)' /\ Timely(a, d)'
      BY <1>1, <1>4, <2>2, <2>3, UpsertTimes
    <3>2. row'[d].dirty
      BY <1>1, <1>4, <2>3 DEF Rewritten, Upserted, RowT
    <3> QED
      BY <3>1, <3>2 DEF Bodied, Filed1
  <2>4. CASE /\ row'[d].at = row[d].at /\ row'[d].body = row[d].body
             /\ \/ row'[d].dirty = row[d].dirty /\ row'[d].folder = row[d].folder
                \/ /\ Cleared(d, a) /\ row'[d].folder = a
                   /\ ~row'[d].dirty => Top(a).saved = row[d].at
    <3>1. Filed1(a, d)'
      BY <2>2, <2>4 DEF Filed1
    <3>2. ASSUME marks'[d] \subseteq {"cut", "nested"} PROVE Timely(a, d)' /\ Bodied(a, d)'
      <4>1. Timely(a, d) /\ Bodied(a, d)
        BY <1>1, <2>2, <3>2
      <4> QED
        BY <1>4, <2>1, <2>4, <4>1, TimelyStep, BodiedStep
    <3> QED
      BY <3>1, <3>2
  <2> QED
    BY <1>4, <2>1, <2>3, <2>4, RowText
<1> QED
  BY <1>2, <1>3, <1>4

LEMMA DueInit == Init => DueInv
  BY DEF Init, DueInv, NoRow

-----------------------------------------------------------------------------
(* The files of the copy that is kept *)

OnTop(a, d, pc) == stack[a] # <<>> /\ Top(a).d = d /\ Top(a).at = pc
\* A push that will read the files is queued or has begun.
Coming(a, d) == (\E c \in cmds[a] : c.d = d /\ c.op = "push") \/ OnTop(a, d, "build")
WithFiles(a, d) ==
  \/ Coming(a, d)
  \/ OnTop(a, d, "append") /\ Top(a).files = row[d].files
  \/ ~OnTop(a, d, "append") /\ \A c \in box[a] : Safe(a, d, c) => c.files = row[d].files

\* As long as no draft has changed accounts, and none of its pushes was cut short, the copy
\* that is kept of it has the files in its row, or a push is due that will bring them.
FilesInv == Stayed => \A d \in Drafts, a \in Accounts :
  row[d].is = "row" /\ row[d].account = a /\ "cut" \notin marks[d] => WithFiles(a, d)

\* What a broken connection or a restart takes away is marked.
LEMMA CutsMark ==
  ASSUME Types, MarksType, [Next]_vars, NEW a \in Accounts, NEW d \in Drafts, "cut" \notin marks'[d]
  PROVE  /\ \A c \in cmds[a] : c.d = d /\ c \notin cmds'[a] /\ c.op = "push" =>
              stack' = [stack EXCEPT ![a] = Pushes(d) \o @]
         /\ \A c \in cmds[a] : c.d = d /\ c \notin cmds'[a] /\ c.op = "drop" =>
              box' = [box EXCEPT ![a] = Without(a, {c.uid})]
         /\ ~Restart /\ (PushingAt(a, d) => ~ConnLost(a))
         /\ AppendRefused(a) => Top(a).d # d
<1>1. cmds \in [Accounts -> SUBSET CmdT] /\ marks \in [Drafts -> SUBSET MarkT]
  BY DEF Types, CmdsType, MarksType
<1>2. ~Restart
  BY DEF Restart
<1>3. ASSUME NEW b \in Accounts, NEW lost, Cut(b, lost) PROVE ~PushingAt(b, d) /\ \A c \in lost : c.d # d
  BY <1>3 DEF Cut
<1>4. PushingAt(a, d) => ~ConnLost(a)
  BY <1>3 DEF ConnLost
<1>5. ASSUME NEW c \in cmds[a], c.d = d, c \notin cmds'[a]
      PROVE  /\ c.op = "push" => stack' = [stack EXCEPT ![a] = Pushes(d) \o @]
             /\ c.op = "drop" => box' = [box EXCEPT ![a] = Without(a, {c.uid})]
  <2>1. ASSUME NEW b \in Accounts, ConnLost(b) PROVE FALSE
    <3>1. PICK lost \in SUBSET cmds[b] : cmds' = [cmds EXCEPT ![b] = @ \ lost] /\ Cut(b, lost)
      BY <2>1 DEF ConnLost
    <3> QED
      BY <1>1, <1>3, <1>5, <3>1
  <2>2. ASSUME NEW e \in Drafts,
               (\E b \in Accounts : UpsertDraft(e, b)) \/ KeepAndPublish(e) \/ DropRead(e) \/ DropDelete(e)
        PROVE  FALSE
    BY <1>1, <1>5, <2>2 DEF UpsertDraft, KeepAndPublish, DropRead, DropDelete
  <2>3. ASSUME NEW b \in Accounts, PushDirtyDrafts(b) \/ Push(b) PROVE FALSE
    BY <1>5, <2>3 DEF Push, PushDirtyDrafts, BuildDraft, AppendCopy, DropOld, Sweep, Clear
  <2>4. ~Tick /\ ~(UNCHANGED vars)
    BY <1>5 DEF Tick, vars
  <2>8. ASSUME NEW b \in Accounts, Refused(b) PROVE FALSE
    BY <1>5, <2>8, RefusedKeeps
  <2>5. PICK b \in Accounts : Take(b)
    BY <1>2, <2>1, <2>2, <2>3, <2>4, <2>8 DEF Next, Compose, Worker
  <2>6. PICK k \in cmds[b] :
          /\ cmds' = [cmds EXCEPT ![b] = @ \ {k}] /\ UNCHANGED row
          /\ \/ k.op = "push" /\ stack' = [stack EXCEPT ![b] = Pushes(k.d) \o @]
             \/ k.op = "drop" /\ box' = [box EXCEPT ![b] = Without(b, {k.uid})]
    BY <2>5 DEF Take, DropRevision
  <2>7. b = a /\ k = c
    BY <1>1, <1>5, <2>6
  <2> QED
    BY <1>5, <2>6, <2>7
<1>6. ASSUME AppendRefused(a), Top(a).d = d PROVE FALSE
  BY <1>1, <1>6 DEF AppendRefused, Mark
<1> QED
  BY <1>2, <1>4, <1>5, <1>6

LEMMA TopStays ==
  ASSUME Types, MarksType, [Next]_vars, NEW a \in Accounts, NEW d \in Drafts, "cut" \notin marks'[d],
         NEW pc \in {"build", "append"}, OnTop(a, d, pc)
  PROVE  stack'[a] = stack[a] \/ BuildDraft(a) \/ AppendCopy(a)
<1>1. stack \in [Accounts -> Seq(FrameT)] /\ stack[a] # <<>> /\ Top(a).d = d /\ Top(a).at = pc
  BY DEF Types, StackType, OnTop
<1>2. PushingAt(a, d)
  <2>1. Top(a) = stack[a][1] /\ 1 \in DOMAIN stack[a]
    BY <1>1, TopType DEF Types
  <2> QED
    BY <1>1, <2>1 DEF PushingAt
<1>3. ~Restart /\ ~ConnLost(a)
  BY <1>2, CutsMark
<1>4. ~Take(a) /\ ~PushDirtyDrafts(a) /\ ~DropOld(a) /\ ~Sweep(a) /\ ~Clear(a)
  <2>1. ~Free(a) /\ ~At(a, "drop") /\ ~At(a, "yield") /\ ~At(a, "clear")
    BY <1>1 DEF Free, At, Top
  <2> QED
    BY <1>1, <2>1, Zenon DEF Take, PushDirtyDrafts, DropOld, Sweep, Clear
<1>5. ASSUME NEW b \in Accounts, NEW s, stack' = [stack EXCEPT ![b] = s], a # b PROVE stack'[a] = stack[a]
  BY <1>1, <1>5
<1>6. ASSUME NEW b \in Accounts, a # b, Worker(b) \/ ConnLost(b) PROVE stack'[a] = stack[a]
  <2>1. CASE Take(b)
    BY <1>1, <1>6, <2>1 DEF Take
  <2>2. CASE PushDirtyDrafts(b)
    BY <1>5, <1>6, <2>2 DEF PushDirtyDrafts
  <2>3. CASE BuildDraft(b) \/ AppendCopy(b) \/ Clear(b) \/ ConnLost(b)
    BY <1>1, <1>6, <2>3 DEF BuildDraft, AppendCopy, Clear, ConnLost, Goto
  <2>4. CASE DropOld(b)
    <3>1. \E g : Goto(b, g)
      BY <2>4, Zenon DEF DropOld
    <3> QED
      BY <1>1, <1>6, <3>1 DEF Goto
  <2>5. CASE Sweep(b)
    <3>1. \E g : Goto(b, g) \/ stack' = [stack EXCEPT ![b] = <<g>>]
      BY <2>5 DEF Sweep
    <3> QED
      BY <1>1, <1>6, <3>1 DEF Goto
  <2> QED
    BY <1>6, <2>1, <2>2, <2>3, <2>4, <2>5 DEF Worker, Push
<1>7. ASSUME NEW e \in Drafts,
             (\E b \in Accounts : UpsertDraft(e, b)) \/ KeepAndPublish(e) \/ DropRead(e) \/ DropDelete(e)
      PROVE  stack' = stack
  BY <1>7 DEF UpsertDraft, KeepAndPublish, DropRead, DropDelete
<1>8. Tick \/ UNCHANGED vars => stack' = stack
  BY DEF Tick, vars
<1>9. ~Refused(a)
  <2>1. ~AppendRefused(a)
    BY <1>1, CutsMark
  <2>2. ~DropRefused(a)
    BY <1>1 DEF DropRefused, At, Top
  <2> QED
    BY <2>1, <2>2 DEF Refused
<1>10. ASSUME NEW b \in Accounts, a # b, Refused(b) PROVE stack'[a] = stack[a]
  BY <1>1, <1>10, StepOfRefused DEF Ends, Goto
<1> QED
  BY <1>3, <1>4, <1>6, <1>7, <1>8, <1>9, <1>10 DEF Next, Compose, Worker, Push

\* A push at its append was there, or has just built its message.
LEMMA AppendingStep ==
  ASSUME Types, Numbered, Stacked, [Next]_vars, NEW a \in Accounts, NEW d \in Drafts, OnTop(a, d, "append")'
  PROVE  \/ stack'[a] = stack[a]
         \/ OnTop(a, d, "build") /\ Top(a)'.files = row[d].files /\ BuildDraft(a)
<1>1. stack[a] \in Seq(FrameT)
  BY DEF Types, StackType
<1>2. stack'[a] # <<>> /\ Head(stack'[a]).d = d /\ Head(stack'[a]).at = "append"
  BY DEF OnTop, Top
<1>3. CASE Enters(a)
  <2>1. PICK e \in Drafts : stack'[a] = <<Frame(e)>> \o stack[a]
    BY <1>3 DEF Enters
  <2>2. Head(stack'[a]) = Frame(e)
    <3>1. PICK f : f = Frame(e) /\ f \in FrameT
      BY FrameType DEF Types
    <3>2. Head(<<f>> \o stack[a]) = f
      BY <1>1, <3>1
    <3> QED
      BY <2>1, <3>1, <3>2
  <2> QED
    BY <1>2, <2>2 DEF Frame
<1>4. CASE Advances(a)
  <2>1. PICK g \in FrameT : Advanced(a, g) /\ stack'[a] = [stack[a] EXCEPT ![1] = g] /\ stack[a] # <<>>
    BY <1>4 DEF Advances, Advanced
  <2>2. Head(stack'[a]) = g
    BY <1>1, <2>1
  <2>3. Built(a, Top(a), g) /\ g.d = Top(a).d
    BY <1>2, <2>1, <2>2 DEF Advanced, SentOff, Denied, Yielded, Swept
  <2> QED
    BY <1>2, <2>1, <2>2, <2>3 DEF Built, OnTop, Top
<1>5. CASE Finishes(a)
  <2>1. stack'[a] = Tail(stack[a]) /\ stack[a] # <<>>
    BY <1>5 DEF Finishes
  <2>2. 2 \in 2..Len(stack[a]) /\ Head(stack'[a]) = stack[a][2]
    BY <1>1, <1>2, <2>1
  <2> QED
    BY <1>2, <2>2 DEF Stacked
<1>6. CASE Alone(a)
  <2>1. PICK g \in FrameT : stack'[a] = <<g>> /\ g.at = "clear"
    BY <1>6 DEF Alone
  <2>2. Head(<<g>>) = g
    OBVIOUS
  <2> QED
    BY <1>2, <2>1, <2>2
<1>7. CASE Empties(a)
  BY <1>2, <1>7 DEF Empties
<1> QED
  BY <1>3, <1>4, <1>5, <1>6, <1>7, StackStepsOf DEF StackSteps, Rests

LEMMA FilesStep ==
  ASSUME Kept, Types', Numbered', KeptInv, FilesInv, [Next]_vars PROVE FilesInv'
<1> SUFFICES ASSUME Stayed', Stayed, NEW d \in Drafts, NEW a \in Accounts,
                    row'[d].is = "row", row'[d].account = a, "cut" \notin marks'[d]
             PROVE  WithFiles(a, d)'
  BY StayedStep DEF FilesInv, Kept
<1>1. ~Moved(d)' /\ ~Moved(d) /\ row[d] \in RowT /\ marks[d] \subseteq marks'[d]
  BY MarksStep DEF Stayed, Kept, Types, RowsType
<1>2. row[d].is \in {"new", "row"}
  BY <1>1, RowPlace DEF Kept
<1>3. ASSUME NEW c, NEW w, Safe(a, d, c)', Safe(a, d, w)' PROVE c = w
  <2>1. c \in box'[a] /\ w \in box'[a] /\ c.uid <= w.uid /\ w.uid <= c.uid
    BY <1>3 DEF Safe, Newest
  <2>2. c.uid \in Nat /\ w.uid \in Nat
    BY <2>1 DEF Types, ServerType, CopyT
  <2>3. c.uid = w.uid
    BY <2>1, <2>2
  <2> QED
    BY <2>1, <2>3 DEF Numbered
<1>4. CASE row[d].is = "new"
  <2>1. row[d] = NoRow("new") /\ \A b \in Accounts : ~Trace(b, d)
    BY <1>4 DEF Kept, HomeInv, Home
  <2>2. PICK b \in Accounts : Rewritten(d, b)
    <3>1. row'[d] # row[d] /\ row'[d] # NoRow("gone")
      BY <1>4 DEF NoRow
    <3> QED
      BY <1>1, <1>4, <3>1, RowPlace DEF Kept
  <2>3. box' = box /\ stack' = stack
    BY <2>2 DEF Rewritten, UpsertDraft, serverVars
  <2>4. \A c \in box[a] : c.of # d
    BY <2>1 DEF Trace, Copied
  <2>5. ~OnTop(a, d, "append")'
    <3>1. ASSUME stack[a] # <<>> PROVE Top(a).d # d
      <4>1. Top(a) = stack[a][1] /\ 1 \in DOMAIN stack[a]
        BY <3>1, TopType DEF Kept, Types, StackType
      <4> QED
        BY <2>1, <4>1 DEF Trace, PushingAt
    <3> QED
      BY <2>3, <3>1 DEF OnTop, Top
  <2> QED
    BY <2>3, <2>4, <2>5 DEF WithFiles, Safe, Newest
<1>5. CASE row[d].is = "row"
  <2>1. row[d].account = a
    <3>1. row'[d] # NoRow("gone")
      BY DEF NoRow
    <3> QED
      BY <1>1, <1>5, <3>1, RowPlace DEF Kept
  <2>2. WithFiles(a, d)
    BY <1>1, <1>5, <2>1 DEF FilesInv
  <2>3. CASE KeepAndPublish(d)
    <3>1. save[d] = a
      <4>1. save[d] \in Accounts
        BY <2>3 DEF KeepAndPublish, Kept, Types, RowsType, Somewhere
      <4> QED
        BY <1>1, <1>5, <2>1, <4>1 DEF Kept, HomeInv, Home, Trace
    <3>2. PushOf(d) \in cmds'[a]
      BY <2>3, <3>1 DEF KeepAndPublish, Kept, Types, CmdsType
    <3>3. PushOf(d).d = d /\ PushOf(d).op = "push"
      BY DEF PushOf
    <3> QED
      BY <3>2, <3>3 DEF WithFiles, Coming
  <2>4. ASSUME ~KeepAndPublish(d) PROVE row'[d].files = row[d].files
    <3>1. RowSteps(d) /\ ~Refiled(d) /\ ~Deleted(d)
      BY <2>4, RowStep DEF Kept, Refiled, Deleted, NoRow
    <3>2. ASSUME NEW b \in Accounts, Rewritten(d, b) \/ Stamped(d, b) PROVE row'[d].files = row[d].files
      BY <1>1, <3>2 DEF Rewritten, Upserted, Stamped, RowT
    <3>3. ASSUME NEW b \in Accounts, Cleared(d, b) PROVE row'[d].files = row[d].files
      BY <1>1, <3>3 DEF Cleared, ClearDraftDirty, RowT
    <3> QED
      BY <3>1, <3>2, <3>3 DEF RowSteps
  <2>5. CASE ~KeepAndPublish(d) /\ Coming(a, d)
    <3>1. ASSUME NEW c \in cmds[a], c.d = d, c.op = "push" PROVE Coming(a, d)'
      <4>1. CASE c \in cmds'[a]
        BY <3>1, <4>1 DEF Coming
      <4>2. CASE c \notin cmds'[a]
        <5>1. stack' = [stack EXCEPT ![a] = Pushes(d) \o @]
          <6>1. Types /\ MarksType
            BY DEF Kept
          <6> QED
            BY <3>1, <4>2, <6>1, CutsMark
        <5>2. Pushes(d) = <<Frame(d)>>
          BY <1>5 DEF Pushes
        <5>3. PICK f : f = Frame(d) /\ f \in FrameT /\ f.d = d /\ f.at = "build"
          <6>1. Frame(d) \in FrameT
            BY FrameType DEF Kept, Types
          <6>2. Frame(d).d = d /\ Frame(d).at = "build"
            BY DEF Frame
          <6> QED
            BY <6>1, <6>2
        <5>4. stack'[a] = <<f>> \o stack[a] /\ stack[a] \in Seq(FrameT)
          BY <5>1, <5>2, <5>3 DEF Kept, Types, StackType
        <5>5. stack'[a] # <<>> /\ Head(stack'[a]) = f
          BY <5>3, <5>4
        <5> QED
          BY <5>3, <5>5 DEF Coming, OnTop, Top
      <4> QED
        BY <4>1, <4>2
    <3>2. ASSUME OnTop(a, d, "build") PROVE Coming(a, d)' \/ (OnTop(a, d, "append")' /\ Top(a)'.files = row[d].files)
      <4>1. ~AppendCopy(a)
        BY <3>2 DEF OnTop, AppendCopy, At, Top
      <4>2. stack'[a] = stack[a] => OnTop(a, d, "build")'
        BY <3>2 DEF OnTop, Top
      <4>3. ASSUME BuildDraft(a) PROVE OnTop(a, d, "append")' /\ Top(a)'.files = row[d].files
        <5>1. PICK f : f = Top(a) /\ f \in FrameT /\ f.d = d /\ stack[a] # <<>>
          BY <3>2, TopType DEF OnTop, Kept, Types
        <5>2. PICK id, g : g = [f EXCEPT !.at = "append", !.files = row[f.d].files, !.id = id] /\ Goto(a, g)
          BY <4>3, <5>1 DEF BuildDraft
        <5>3. g.at = "append" /\ g.files = row[d].files /\ g.d = d
          BY <5>1, <5>2 DEF FrameT
        <5>4. stack'[a] = [stack[a] EXCEPT ![1] = g] /\ stack[a] \in Seq(FrameT)
          BY <5>2 DEF Goto, Kept, Types, StackType
        <5>5. stack'[a] # <<>> /\ Head(stack'[a]) = g
          BY <5>1, <5>4
        <5> QED
          BY <5>3, <5>5 DEF OnTop, Top
      <4> QED
        BY <3>2, <4>1, <4>2, <4>3, TopStays DEF Kept, Coming
    <3> QED
      BY <2>4, <2>5, <3>1, <3>2 DEF Coming, WithFiles
  <2>6. CASE ~KeepAndPublish(d) /\ ~Coming(a, d) /\ Grows(a) /\ Top(a).d = d
    <3>1. PICK w : Appended(a, w) /\ w.files = Top(a).files /\ box'[a] = box[a] \cup {w}
      BY <2>6 DEF Grows
    <3>2. OnTop(a, d, "append") /\ AppendCopy(a)
      BY <2>6, <3>1 DEF Appended, At, Top, OnTop
    <3>3. w.files = row[d].files
      BY <2>2, <2>6, <3>1, <3>2 DEF WithFiles
    <3>4. Safe(a, d, w)'
      BY <2>6, <3>1, SafeAppended DEF Kept
    <3>5. ~OnTop(a, d, "append")'
      <4>1. stack'[a] # stack[a]
        <5>1. PICK f : f = Top(a) /\ f \in FrameT /\ f = stack[a][1] /\ f.at = "append" /\ stack[a] # <<>>
          BY <3>2, TopType DEF OnTop, Kept, Types
        <5>2. PICK u, g : g = [f EXCEPT !.at = "drop", !.body = 0, !.files = 0, !.uid = u] /\ Goto(a, g)
          BY <3>2, <5>1 DEF AppendCopy
        <5>3. g.at = "drop"
          BY <5>1, <5>2 DEF FrameT
        <5>4. stack'[a] = [stack[a] EXCEPT ![1] = g] /\ stack[a] \in Seq(FrameT)
          BY <5>2 DEF Goto, Kept, Types, StackType
        <5>5. stack'[a][1] = g
          BY <5>1, <5>4
        <5> QED
          BY <5>1, <5>3, <5>5
      <4>2. ~OnTop(a, d, "build")
        BY <3>2 DEF OnTop
      <4> QED
        BY <4>1, <4>2, AppendingStep DEF Kept
    <3> QED
      BY <1>3, <2>4, <2>6, <3>3, <3>4, <3>5 DEF WithFiles
  <2>7. CASE ~KeepAndPublish(d) /\ ~Coming(a, d) /\ ~(Grows(a) /\ Top(a).d = d) /\ OnTop(a, d, "append")
    <3>1. ~BuildDraft(a) /\ ~AppendCopy(a)
      BY <2>7, AppendGrows DEF OnTop, BuildDraft, At, Top, Kept
    <3>2. stack'[a] = stack[a]
      BY <2>7, <3>1, TopStays DEF Kept
    <3> QED
      BY <2>2, <2>4, <2>7, <3>2 DEF WithFiles, OnTop, Top
  <2>8. CASE ~KeepAndPublish(d) /\ ~Coming(a, d) /\ ~OnTop(a, d, "append")
    <3>1. \A c \in box[a] : Safe(a, d, c) => c.files = row[d].files
      BY <2>2, <2>8 DEF WithFiles
    <3>2. ~OnTop(a, d, "append")'
      BY <2>8, AppendingStep DEF Kept, Coming, OnTop, Top
    <3>3. ~Grows(a) \/ Top(a).d # d
      BY <2>8 DEF Grows, Appended, At, Top, OnTop
    <3>4. ASSUME NEW c \in box'[a], Safe(a, d, c)' PROVE c.files = row[d].files
      <4>1. ~Unpublished(a, d)'
        BY <3>4 DEF Unpublished, Safe, Newest
      <4>2. ~Unpublished(a, d)
        BY <1>5, <2>1, <3>3, <4>1, UnpublishedStep
      <4>3. PICK w \in box[a] : Safe(a, d, w)
        BY <1>5, <2>1, <4>2 DEF KeptInv
      <4>4. Safe(a, d, w)'
        BY <1>5, <3>3, <4>3, SafeStep
      <4>5. c = w
        BY <1>3, <3>4, <4>4
      <4> QED
        BY <3>1, <4>3, <4>5
    <3> QED
      BY <2>4, <2>8, <3>2, <3>4 DEF WithFiles
  <2> QED
    BY <2>3, <2>5, <2>6, <2>7, <2>8
<1> QED
  BY <1>2, <1>4, <1>5

LEMMA FilesInit == Init => FilesInv
  BY DEF Init, FilesInv, NoRow

CleanInv == KeepInv /\ DueInv /\ FilesInv

LEMMA CleanInvHolds == Spec => []CleanInv
<1>1. Init => DueInv /\ FilesInv
  BY DueInit, FilesInit
<1>2. ASSUME KeepInv, KeepInv', DueInv, FilesInv, [Next]_vars PROVE DueInv' /\ FilesInv'
  BY <1>2, DueInvStep, FilesStep DEF KeepInv, Kept
<1> QED
  BY <1>1, <1>2, KeepInvHolds, PTL DEF Spec, CleanInv

\* A row that says its draft is published is right (DraftMailbox.Push, store.ClearDraftDirty):
\* with no push of it on its way, the copy in the mailbox it names holds the row's text, and
\* its files too unless a restart or a broken connection cut one of its pushes short.
THEOREM CleanMeansPublished == Spec => []CleanIsPublished
<1>1. CleanInv => CleanIsPublished
  <2> SUFFICES ASSUME CleanInv, Stayed, NEW d \in Drafts, row[d].is = "row", ~row[d].dirty, Quiet(d),
                      marks[d] \subseteq {"cut", "nested"}
               PROVE  \E c \in Live(row[d].folder, d) :
                        c.body = row[d].body /\ ("cut" \in marks[d] \/ c.files = row[d].files)
    BY DEF CleanIsPublished
  <2>1. Kept /\ DueInv /\ FilesInv
    BY DEF CleanInv, KeepInv
  <2>2. PICK a \in Accounts : a = row[d].account
    BY <2>1 DEF Kept, HomeInv, Home, Stayed
  <2>3. row[d].folder = a /\ Bodied(a, d)
    BY <2>1, <2>2 DEF DueInv, Filed1
  <2>4. PICK c \in box[a] : Safe(a, d, c) /\ c.body = row[d].body
    BY <2>3 DEF Bodied, Due
  <2>5. ASSUME "cut" \notin marks[d] PROVE c.files = row[d].files
    <3>1. WithFiles(a, d)
      BY <2>1, <2>2, <2>5 DEF FilesInv
    <3>2. ASSUME NEW pc PROVE ~OnTop(a, d, pc)
      <4>1. ASSUME stack[a] # <<>> PROVE Top(a).d # d
        <5>1. Top(a) = stack[a][1] /\ 1 \in DOMAIN stack[a]
          BY <2>1, <4>1, TopType DEF Kept, Types, StackType
        <5> QED
          BY <5>1 DEF Quiet, Pushing, PushingAt
      <4> QED
        BY <4>1 DEF OnTop
    <3>3. ~Coming(a, d)
      BY <3>2 DEF Quiet, Coming
    <3> QED
      BY <2>4, <3>1, <3>2, <3>3 DEF WithFiles
  <2> QED
    BY <2>3, <2>4, <2>5 DEF Safe, Newest, Live
<1> QED
  BY <1>1, CleanInvHolds, PTL

-----------------------------------------------------------------------------
(* What a draft takes for its own, whatever changed accounts *)

\* UID u of the mailbox of g was given to copies of d only, and is listed as theirs.
Its(g, u, d) == u # 0 =>
  /\ g \in Accounts /\ u < next[g]
  /\ \A c \in box[g] : c.uid = u => c.of = d
  /\ \A r \in seen[g] : r.uid = u => Minted(r.id, d)
FrameIts(a, f) ==
  /\ Its(f.folder, f.old, f.d) /\ Its(a, f.uid, f.d)
  /\ f.at = "drop" /\ f.folder = a /\ f.old # 0 => f.old < next[a] - 1
CmdIts(c) == Its(c.folder, c.uid, c.d) /\ (c.op = "drop" => row[c.d].is = "gone")
ItsInv ==
  /\ \A d \in Drafts : Its(row[d].folder, row[d].uid, d) /\ Its(drop[d].folder, drop[d].uid, d)
  /\ \A a \in Accounts :
       /\ \A c \in cmds[a] : CmdIts(c)
       /\ \A i \in DOMAIN stack[a] : FrameIts(a, stack[a][i])

\* Whatever is listed was listed, or is a copy.
LEMMA ListStep ==
  ASSUME Types, [Next]_vars, NEW b \in Accounts, NEW r \in seen'[b]
  PROVE  r \in seen[b] \/ \E x \in box[b] : r.uid = x.uid /\ r.id = x.id
<1>1. ServerType /\ SeenType
  BY DEF Types
<1>2. CASE Untouched(b) \/ Strays(b) \/ Grows(b)
  BY <1>2 DEF Untouched, Strays, Grows
<1>3. CASE Removes(b)
  BY <1>1, <1>3, UnlistedFacts DEF Removes
<1>4. CASE Sweep(b)
  <2>1. PICK U : seen' = Unlisted(b, b, U)
    BY <1>4 DEF Sweep
  <2> QED
    BY <1>1, <2>1, UnlistedFacts
<1>5. CASE DropOld(b)
  <2> DEFINE f == Top(b)
             left == IF f.old = 0 THEN box[b] ELSE Without(b, {f.old})
             known == IF f.old = 0 THEN seen ELSE Unlisted(b, f.folder, {f.old})
             top == Max({0} \cup {x.uid : x \in known[b]})
             more == {[uid |-> c.uid, id |-> c.id] : c \in {x \in left : x.uid > top}}
  <2>1. seen' = [known EXCEPT ![b] = @ \cup more]
    BY <1>5, Zenon DEF DropOld
  <2>2. known \in [Accounts -> SUBSET SeenT] /\ known[b] \subseteq seen[b]
    BY <1>1, UnlistedType, UnlistedFacts DEF SeenType
  <2>3. \A x \in left : \E c \in box[b] : x.uid = c.uid /\ x.id = c.id
    BY <1>1, WithoutFacts DEF Remains
  <2>4. \A x \in more : \E c \in box[b] : x.uid = c.uid /\ x.id = c.id
    <3> HIDE DEF left, top
    <3> QED
      BY <2>3
  <2> HIDE DEF known, more
  <2>5. seen'[b] = known[b] \cup more
    BY <2>1, <2>2
  <2> QED
    BY <2>2, <2>4, <2>5
<1> QED
  BY <1>2, <1>3, <1>4, <1>5, MailStep DEF MailSteps

\* One row for each UID.
SeenOnce == \A a \in Accounts : \A r, x \in seen[a] : r.uid = x.uid => r.id = x.id

LEMMA SeenOnceInit == Init => SeenOnce
<1> SUFFICES ASSUME Init, NEW a \in Accounts, NEW r \in seen[a], NEW x \in seen[a], r.uid = x.uid
             PROVE  r.id = x.id
  BY DEF SeenOnce
<1>1. Numbered
  BY NumberedInit
<1>2. \E c \in box[a] : r.uid = c.uid /\ r.id = c.id
  BY DEF Init
<1> QED
  BY <1>1, <1>2 DEF Numbered

LEMMA SeenOnceStep == ASSUME Types, Numbered, SeenOnce, [Next]_vars PROVE SeenOnce'
<1> SUFFICES ASSUME NEW a \in Accounts, NEW r \in seen'[a], NEW x \in seen'[a], r.uid = x.uid
             PROVE  r.id = x.id
  BY DEF SeenOnce
<1>1. r \in seen[a] \/ \E c \in box[a] : r.uid = c.uid /\ r.id = c.id
  BY ListStep
<1>2. x \in seen[a] \/ \E c \in box[a] : x.uid = c.uid /\ x.id = c.id
  BY ListStep
<1> QED
  BY <1>1, <1>2 DEF SeenOnce, Numbered

LEMMA ItsStep1 ==
  ASSUME Types, Numbered, MintInv, [Next]_vars, NEW g, NEW u \in Nat, NEW d, Its(g, u, d)
  PROVE  Its(g, u, d)'
<1> SUFFICES ASSUME u # 0, g \in Accounts, u < next[g], \A c \in box[g] : c.uid = u => c.of = d,
                    \A r \in seen[g] : r.uid = u => Minted(r.id, d)
             PROVE  /\ u < next'[g] /\ \A c \in box'[g] : c.uid = u => c.of = d
                    /\ \A r \in seen'[g] : r.uid = u => Minted(r.id, d)
  BY DEF Its
<1>1. BoxSteps(g) /\ next[g] \in Nat /\ next'[g] \in Nat /\ next[g] <= next'[g]
  BY BoxStep
<1>2. ASSUME NEW c \in box'[g], c.uid = u PROVE c.of = d
  <2>1. ~Appended(g, c)
    BY <1>1, <1>2 DEF Appended
  <2> QED
    BY <1>1, <1>2, <2>1 DEF BoxSteps
<1>3. ASSUME NEW r \in seen'[g], r.uid = u PROVE Minted(r.id, d)
  <2>1. CASE r \in seen[g]
    BY <1>3, <2>1
  <2>2. ASSUME NEW x \in box[g], r.uid = x.uid, r.id = x.id PROVE Minted(r.id, d)
    <3>1. x.of = d /\ Minted(x.id, x.of)
      BY <1>3, <2>2 DEF MintInv
    <3> QED
      BY <2>2, <3>1
  <2> QED
    BY <2>1, <2>2, ListStep
<1> QED
  BY <1>1, <1>2, <1>3

LEMMA GoneStays ==
  ASSUME Types, [Next]_vars, NEW d \in Drafts, row[d].is = "gone" PROVE row'[d].is = "gone"
<1>1. row[d] \in RowT /\ RowSteps(d)
  BY RowStep DEF Types, RowsType
<1> QED
  BY <1>1 DEF RowSteps, Rewritten, Stamped, Cleared, Refiled, Deleted, NoRow

LEMMA ItsInit == Init => ItsInv
<1> SUFFICES ASSUME Init PROVE ItsInv
  OBVIOUS
<1>1. \A d \in Drafts : row[d].uid = 0 /\ drop[d].uid = 0
  BY DEF Init, NoRow, NoDrop, Place
<1> QED
  BY <1>1 DEF Init, ItsInv, Its

LEMMA ItsStep == ASSUME Types, Numbered, SeenOnce, MintInv, ItsInv, [Next]_vars PROVE ItsInv'
<1>1. ASSUME NEW g, NEW u \in Nat, NEW d, Its(g, u, d) PROVE Its(g, u, d)'
  BY <1>1, ItsStep1
<1>2. ASSUME NEW g, NEW d PROVE Its(g, 0, d)
  BY DEF Its
<1>3. \A d \in Drafts : row[d] \in RowT /\ drop[d] \in PlaceT
  BY DEF Types, RowsType
<1>4. ASSUME NEW a \in Accounts, stack[a] # <<>>
      PROVE  Top(a) = stack[a][1] /\ 1 \in DOMAIN stack[a] /\ Top(a) \in FrameT /\ FrameIts(a, Top(a))
  <2>1. Top(a) = stack[a][1] /\ 1 \in DOMAIN stack[a] /\ Top(a) \in FrameT
    BY <1>4, TopType DEF Types, StackType
  <2> QED
    BY <2>1 DEF ItsInv
<1>5. ASSUME NEW d \in Drafts PROVE Its(row[d].folder, row[d].uid, d)'
  <2>1. row[d] \in RowT /\ RowSteps(d) /\ Its(row[d].folder, row[d].uid, d)
    BY <1>3, RowStep DEF ItsInv
  <2>2. ASSUME NEW g, NEW u \in Nat, Its(g, u, d), row'[d].folder = g, row'[d].uid = u
        PROVE  Its(row[d].folder, row[d].uid, d)'
    <3>1. Its(g, u, d)'
      BY <1>1, <2>2
    <3> QED
      BY <2>2, <3>1 DEF Its
  <2>3. CASE row'[d].folder = row[d].folder /\ row'[d].uid = row[d].uid
    <3>1. PICK u \in Nat : u = row[d].uid
      BY <2>1 DEF RowT
    <3>2. PICK g : g = row[d].folder
      OBVIOUS
    <3>3. Its(g, u, d)
      BY <2>1, <3>1, <3>2
    <3>4. row'[d].folder = g /\ row'[d].uid = u
      BY <2>3, <3>1, <3>2
    <3> QED
      BY <2>2, <3>3, <3>4
  <2>4. ASSUME NEW a \in Accounts, Rewritten(d, a) \/ Stamped(d, a)
        PROVE  row'[d].folder = row[d].folder /\ row'[d].uid = row[d].uid
    BY <2>1, <2>4 DEF Rewritten, Upserted, Stamped, RowT
  <2>5. Refiled(d) => row'[d].folder = row[d].folder /\ row'[d].uid = row[d].uid
    BY <2>1 DEF Refiled, RowT
  <2>6. CASE Deleted(d)
    <3>1. row'[d].uid = 0
      BY <2>6 DEF Deleted, NoRow
    <3> QED
      BY <3>1 DEF Its
  <2>7. ASSUME NEW a \in Accounts, Cleared(d, a) PROVE Its(row[d].folder, row[d].uid, d)'
    <3>1. PICK f \in FrameT : f = Top(a) /\ f.d = d /\ FrameIts(a, f)
      BY <1>4, <2>7 DEF Cleared
    <3>2. row'[d] = ClearDraftDirty(d, f, a)
      BY <2>7, <3>1 DEF Cleared
    <3>3. row'[d].folder = a /\ row'[d].uid = f.uid
      BY <2>1, <3>2 DEF ClearDraftDirty, RowT
    <3>4. f.uid \in Nat /\ Its(a, f.uid, d)
      BY <3>1 DEF FrameT, FrameIts
    <3> QED
      BY <2>2, <3>3, <3>4
  <2> QED
    BY <2>1, <2>3, <2>4, <2>5, <2>6, <2>7 DEF RowSteps
<1>6. ASSUME NEW d \in Drafts PROVE Its(drop[d].folder, drop[d].uid, d)'
  <2>1. ASSUME NEW p, p.uid \in Nat, Its(p.folder, p.uid, d), drop'[d].folder = p.folder,
               drop'[d].uid = p.uid
        PROVE  Its(drop[d].folder, drop[d].uid, d)'
    <3>1. Its(p.folder, p.uid, d)'
      BY <1>1, <2>1
    <3> QED
      BY <2>1, <3>1 DEF Its
  <2>2. CASE drop'[d] = drop[d]
    <3>1. drop[d].uid \in Nat /\ Its(drop[d].folder, drop[d].uid, d)
      BY <1>3 DEF ItsInv, PlaceT
    <3>2. drop'[d].folder = drop[d].folder /\ drop'[d].uid = drop[d].uid
      BY <2>2
    <3> QED
      BY <2>1, <3>1, <3>2
  <2>3. CASE drop'[d] = NoDrop
    BY <2>3 DEF NoDrop, Place, NoRow, Its
  <2>4. CASE drop'[d] = Place(row[d])
    <3>1. row[d].uid \in Nat /\ Its(row[d].folder, row[d].uid, d)
      BY <1>3 DEF ItsInv, RowT
    <3>2. drop'[d].folder = row[d].folder /\ drop'[d].uid = row[d].uid
      BY <2>4 DEF Place
    <3> QED
      BY <2>1, <3>1, <3>2
  <2> QED
    BY <2>2, <2>3, <2>4, DropsStep
<1>7. ASSUME NEW a \in Accounts, NEW c \in cmds'[a] PROVE CmdIts(c)'
  <2>1. CASE c \in cmds[a]
    <3>1. c.uid \in Nat /\ c.d \in Drafts /\ CmdIts(c)
      BY <2>1 DEF ItsInv, Types, CmdsType, CmdT
    <3>2. Its(c.folder, c.uid, c.d)'
      BY <1>1, <3>1 DEF CmdIts
    <3> QED
      BY <3>1, <3>2, GoneStays DEF CmdIts
  <2>2. ASSUME NEW d \in Drafts, c = PushOf(d) PROVE CmdIts(c)'
    BY <2>2 DEF PushOf, CmdIts, Its
  <2>3. ASSUME NEW d \in Drafts, Deleted(d),
               c = [op |-> "drop", d |-> d, n |-> 0, folder |-> drop[d].folder, uid |-> drop[d].uid]
        PROVE  CmdIts(c)'
    <3>0. PICK u \in Nat : drop[d].uid = u
      BY <1>3 DEF PlaceT
    <3>1. PICK g : drop[d].folder = g /\ drop[d].uid = u /\ Its(g, u, d)
      BY <3>0 DEF ItsInv
    <3>2. Its(g, u, d)' /\ row'[d].is = "gone"
      BY <1>1, <2>3, <3>1 DEF Deleted, NoRow
    <3>3. c.folder = g /\ c.uid = u /\ c.d = d
      BY <2>3, <3>1
    <3> QED
      BY <3>2, <3>3 DEF CmdIts
  <2> QED
    BY <1>7, <2>1, <2>2, <2>3, CmdsStep
<1>8. ASSUME NEW a \in Accounts, NEW g \in FrameT, Its(g.folder, g.old, g.d), Its(a, g.uid, g.d)',
             g.at = "drop" /\ g.folder = a /\ g.old # 0 => g.old < next'[a] - 1
      PROVE  FrameIts(a, g)'
  <2>1. g.old \in Nat
    BY DEF FrameT
  <2>2. Its(g.folder, g.old, g.d)'
    BY <1>1, <1>8, <2>1
  <2> QED
    BY <1>8, <2>2 DEF FrameIts
<1>9. ASSUME NEW a \in Accounts, NEW i \in DOMAIN stack'[a] PROVE FrameIts(a, stack[a][i])'
  <2>0. next'[a] \in Nat /\ next[a] \in Nat /\ next[a] <= next'[a]
    BY BoxStep
  <2>1. ASSUME NEW g, g = stack'[a][i], FrameIts(a, g)' PROVE FrameIts(a, stack[a][i])'
    BY <2>1
  <2>2. PICK g : g = stack'[a][i]
    OBVIOUS
  <2>3. ASSUME NEW j \in DOMAIN stack[a], g = stack[a][j] PROVE FrameIts(a, g)'
    <3>1. FrameIts(a, g) /\ g \in FrameT
      BY <2>3 DEF ItsInv, Types, StackType
    <3>2. Its(a, g.uid, g.d)'
      BY <1>1, <3>1 DEF FrameIts, FrameT
    <3>3. g.at = "drop" /\ g.folder = a /\ g.old # 0 => g.old < next'[a] - 1
      BY <2>0, <3>1 DEF FrameIts, FrameT
    <3> QED
      BY <1>8, <3>1, <3>2, <3>3 DEF FrameIts
  <2>4. ASSUME NEW d \in Drafts, g = Frame(d) PROVE FrameIts(a, g)'
    <3>1. g.folder = row[d].folder /\ g.old = row[d].uid /\ g.d = d /\ g.uid = 0 /\ g.at = "build"
      BY <2>4 DEF Frame
    <3>2. g \in FrameT
      BY <2>4, FrameType DEF Types
    <3>3. Its(g.folder, g.old, g.d)
      BY <3>1 DEF ItsInv
    <3>4. Its(a, g.uid, g.d)'
      BY <3>1 DEF Its
    <3> QED
      BY <1>8, <3>1, <3>2, <3>3, <3>4
  <2>5. ASSUME g \in FrameT, Advanced(a, g) PROVE FrameIts(a, g)'
    <3>1. stack[a] # <<>> /\ g.d = Top(a).d
      BY <2>5 DEF Advanced
    <3>2. PICK f \in FrameT : f = Top(a) /\ FrameIts(a, f) /\ g.d = f.d /\ f = stack[a][1] /\ 1 \in DOMAIN stack[a]
      BY <1>4, <3>1
    <3>3. CASE Built(a, f, g)
      <4>1. g.uid = f.uid /\ g.old = f.old /\ g.folder = f.folder /\ g.at = "append"
        BY <3>3 DEF Built
      <4>2. Its(a, g.uid, g.d)'
        BY <1>1, <2>5, <3>2, <4>1 DEF FrameIts, FrameT
      <4> QED
        BY <1>8, <2>5, <3>2, <4>1, <4>2 DEF FrameIts
    <3>4. CASE SentOff(a, f, g)
      <4>1. /\ g.old = f.old /\ g.folder = f.folder /\ AppendCopy(a) /\ f.at = "append"
            /\ g.uid = IF a \in plus THEN next[a] ELSE 0
        BY <3>4 DEF SentOff
      <4>2. PICK w : Appended(a, w) /\ box'[a] = box[a] \cup {w} /\ next'[a] = next[a] + 1 /\ seen'[a] = seen[a]
        BY <4>1, AppendGrows DEF Grows
      <4>3. ASSUME g.uid = next[a] PROVE Its(a, g.uid, g.d)'
        <5>1. g.uid < next'[a]
          BY <2>0, <4>2, <4>3
        <5>2. ASSUME NEW c \in box'[a], c.uid = g.uid PROVE c.of = g.d
          <6>1. \A x \in box[a] : x.uid # next[a]
            BY <2>0 DEF Numbered
          <6> QED
            BY <3>2, <4>2, <4>3, <5>2, <6>1 DEF Appended
        <5>3. \A r \in seen'[a] : r.uid # g.uid
          BY <2>0, <4>2, <4>3 DEF Numbered
        <5> QED
          BY <5>1, <5>2, <5>3 DEF Its
      <4>4. Its(a, g.uid, g.d)'
        BY <4>1, <4>3 DEF Its
      <4>5. f.folder = a /\ f.old # 0 => f.old < next[a]
        BY <3>2 DEF FrameIts, Its
      <4>6. g.folder = a /\ g.old # 0 => g.old < next'[a] - 1
        BY <2>0, <4>1, <4>2, <4>5
      <4> QED
        BY <1>8, <2>5, <3>2, <4>1, <4>4, <4>6 DEF FrameIts
    <3>5. CASE Yielded(a, f, g)
      <4>1. g.uid = f.uid /\ g.old = 0 /\ g.at = "yield"
        BY <3>5 DEF Yielded
      <4>2. Its(a, g.uid, g.d)'
        BY <1>1, <2>5, <3>2, <4>1 DEF FrameIts, FrameT
      <4>3. Its(g.folder, g.old, g.d)
        BY <4>1 DEF Its
      <4> QED
        BY <1>8, <2>5, <4>1, <4>2, <4>3
    <3>7. CASE Denied(a, f, g)
      <4>1. g.uid = f.uid /\ g.old = 0 /\ g.folder = None
        BY <3>7 DEF Denied
      <4>2. Its(a, g.uid, g.d)'
        BY <1>1, <2>5, <3>2, <4>1 DEF FrameIts, FrameT
      <4>3. Its(g.folder, g.old, g.d)
        BY <4>1 DEF Its
      <4> QED
        BY <1>8, <2>5, <4>1, <4>2, <4>3
    <3>6. CASE Swept(a, f, g)
      <4>1. g.at = "clear" /\ g.old = f.old /\ g.folder = f.folder /\ g.uid = Latest(a, f) /\ f.at = "yield"
        BY <3>6 DEF Swept
      <4>2. Its(a, g.uid, f.d)
        <5>1. CASE f.uid # 0
          BY <3>2, <4>1, <5>1 DEF Latest, FrameIts
        <5>2. CASE f.uid = 0
          <6>1. g.uid = Max({0} \cup Named(a, f.id))
            BY <4>1, <5>2 DEF Latest
          <6>2. Minted(f.id, f.d)
            BY <3>2, <4>1 DEF MintInv, FrameMinted
          <6>3. /\ Mine(a, g.uid, f.d)
                /\ g.uid = 0 \/ \E r \in seen[a] : r.id = f.id /\ r.uid = g.uid
            BY <6>1, <6>2, LatestIsMine
          <6>4. \A r \in seen[a] : r.uid = g.uid /\ g.uid # 0 => Minted(r.id, f.d)
            <7> SUFFICES ASSUME NEW r \in seen[a], r.uid = g.uid, g.uid # 0 PROVE Minted(r.id, f.d)
              OBVIOUS
            <7>1. PICK x \in seen[a] : x.id = f.id /\ x.uid = g.uid
              BY <6>3
            <7>2. r.id = x.id
              BY <7>1 DEF SeenOnce
            <7> QED
              BY <6>2, <7>1, <7>2
          <6> QED
            BY <6>3, <6>4 DEF Mine, Its
        <5> QED
          BY <5>1, <5>2
      <4>3. Its(a, g.uid, g.d)'
        <5>1. g.uid \in Nat
          BY <2>5 DEF FrameT
        <5> QED
          BY <1>1, <3>2, <4>2, <5>1
      <4> QED
        BY <1>8, <2>5, <3>2, <4>1, <4>3 DEF FrameIts
    <3> QED
      BY <2>5, <3>2, <3>3, <3>4, <3>5, <3>6, <3>7 DEF Advanced
  <2> QED
    BY <2>1, <2>2, <2>3, <2>4, <2>5, FrameStep
<1> QED
  BY <1>5, <1>6, <1>7, <1>9 DEF ItsInv

-----------------------------------------------------------------------------
(* Without a fault there is one copy, and the push that replaces it knows which *)

LEMMA FaultsStep ==
  ASSUME [Next]_vars, faults \in Nat PROVE faults' = faults \/ (faults' = faults + 1 /\ Fault)
<1>1. Fault => faults' = faults + 1
  BY DEF Fault
<1>2. ASSUME NEW d \in Drafts,
             (\E a \in Accounts : UpsertDraft(d, a)) \/ KeepAndPublish(d) \/ DropRead(d) \/ DropDelete(d)
      PROVE  faults' = faults
  BY <1>2 DEF UpsertDraft, KeepAndPublish, DropRead, DropDelete
<1>3. ASSUME NEW a \in Accounts, Take(a) \/ PushDirtyDrafts(a) \/ BuildDraft(a) \/ AppendCopy(a) \/ Clear(a)
      PROVE  faults' = faults
  BY <1>3 DEF Take, PushDirtyDrafts, BuildDraft, AppendCopy, Clear
<1>4. ASSUME NEW a \in Accounts, DropOld(a) PROVE faults' = faults
  BY <1>4, Zenon DEF DropOld
<1>5. ASSUME NEW a \in Accounts, Sweep(a) PROVE faults' = faults \/ Fault
  BY <1>5 DEF Sweep
<1>6. ASSUME NEW a \in Accounts, ConnLost(a) PROVE Fault
  BY <1>6 DEF ConnLost
<1>7. Restart => Fault
  BY DEF Restart
<1>8. Tick \/ UNCHANGED vars => faults' = faults
  BY DEF Tick, vars
<1>9. ASSUME NEW a \in Accounts, Refused(a) PROVE Fault
  BY <1>9 DEF Refused, AppendRefused, DropRefused
<1> QED
  BY <1>1, <1>2, <1>3, <1>4, <1>5, <1>6, <1>7, <1>8, <1>9 DEF Next, Compose, Worker, Push

\* No fault so far, and nothing to note about d.
Calm(d) == marks[d] = {} /\ faults = 0

LEMMA CalmStep ==
  ASSUME Types, MarksType, faults \in Nat, [Next]_vars, NEW d \in Drafts, Calm(d)'
  PROVE  Calm(d) /\ ~Fault
<1>1. faults = 0 /\ ~Fault
  BY FaultsStep DEF Calm, Fault
<1>2. marks[d] \subseteq marks'[d]
  BY MarksStep
<1> QED
  BY <1>1, <1>2 DEF Calm

LEMMA CalmStack ==
  ASSUME Types, Numbered, [Next]_vars, ~Fault, NEW a \in Accounts
  PROVE  /\ Rests(a) \/ Enters(a) \/ Advances(a) \/ Finishes(a)
         /\ ~AppendRefused(a) /\ ~DropRefused(a)
<1>1. ~ConnLost(a) /\ ~Restart /\ ~AppendRefused(a) /\ ~DropRefused(a)
  BY DEF ConnLost, Restart, AppendRefused, DropRefused
<1>2. stack \in [Accounts -> Seq(FrameT)] /\ stack[a] \in Seq(FrameT)
  BY DEF Types, StackType
<1>3. ASSUME NEW g \in FrameT, stack[a] # <<>>, stack'[a] = <<g>>, Sweep(a), Advanced(a, g)
      PROVE  Advances(a)
  <2>1. PICK h : Goto(a, h)
    BY <1>3 DEF Sweep
  <2>2. stack'[a] = [stack[a] EXCEPT ![1] = h]
    BY <1>2, <2>1 DEF Goto
  <2>3. Len(stack[a]) = 1
    <3>1. DOMAIN stack'[a] = DOMAIN stack[a]
      BY <2>2
    <3>2. DOMAIN stack'[a] = 1..1
      BY <1>3
    <3>3. DOMAIN stack[a] = 1..Len(stack[a]) /\ Len(stack[a]) \in Nat
      BY <1>2
    <3>4. PICK n \in Nat : n = Len(stack[a])
      BY <3>3
    <3>5. 1..n = 1..1
      BY <3>1, <3>2, <3>3, <3>4, Zenon
    <3>6. n = 1
      BY <3>5
    <3> QED
      BY <3>4, <3>6
  <2>4. [stack[a] EXCEPT ![1] = g] = <<g>>
    <3>1. /\ [stack[a] EXCEPT ![1] = g] \in Seq(FrameT) /\ Len([stack[a] EXCEPT ![1] = g]) = 1
          /\ [stack[a] EXCEPT ![1] = g][1] = g
      BY <1>2, <1>3, <2>3
    <3> QED
      BY <3>1
  <2> QED
    BY <1>3, <2>4 DEF Advances
<1> QED
  BY <1>1, <1>3, StackStepsOf DEF StackSteps, Alone, Empties

LEMMA PushMoves == ASSUME Types, NEW a \in Accounts, Push(a) PROVE stack'[a] # stack[a]
<1>1. stack \in [Accounts -> Seq(FrameT)] /\ stack[a] \in Seq(FrameT)
  BY DEF Types, StackType
<1>2. stack[a] # <<>> => Top(a) \in FrameT /\ Top(a) = stack[a][1] /\ Len(stack[a]) \in Nat \ {0}
  BY TopType DEF Types
<1>3. ASSUME NEW g, stack[a] # <<>>, Goto(a, g) \/ stack' = [stack EXCEPT ![a] = <<g>>], g.at # Top(a).at
      PROVE  stack'[a] # stack[a]
  <2>1. stack'[a][1] = g
    <3>1. CASE Goto(a, g)
      <4>1. stack'[a] = [stack[a] EXCEPT ![1] = g]
        BY <1>1, <3>1 DEF Goto
      <4> QED
        BY <1>1, <1>3, <4>1
    <3>2. CASE stack' = [stack EXCEPT ![a] = <<g>>]
      BY <1>1, <3>2
    <3> QED
      BY <1>3, <3>1, <3>2
  <2> QED
    BY <1>2, <1>3, <2>1
<1>4. CASE BuildDraft(a)
  <2>1. stack[a] # <<>> /\ Top(a).at = "build"
    BY <1>4 DEF BuildDraft, At, Top
  <2>2. \E g : Goto(a, g) /\ g.at = "append"
    <3>1. PICK x, y : Goto(a, [Top(a) EXCEPT !.at = "append", !.files = x, !.id = y])
      BY <1>4 DEF BuildDraft
    <3>2. [Top(a) EXCEPT !.at = "append", !.files = x, !.id = y].at = "append"
      BY <1>2, <2>1 DEF FrameT
    <3> QED
      BY <3>1, <3>2
  <2> QED
    BY <1>3, <2>1, <2>2
<1>5. CASE AppendCopy(a)
  <2>1. stack[a] # <<>> /\ Top(a).at = "append"
    BY <1>5 DEF AppendCopy, At, Top
  <2>2. \E g : Goto(a, g) /\ g.at = "drop"
    <3>1. PICK x : Goto(a, [Top(a) EXCEPT !.at = "drop", !.body = 0, !.files = 0, !.uid = x])
      BY <1>5 DEF AppendCopy
    <3>2. [Top(a) EXCEPT !.at = "drop", !.body = 0, !.files = 0, !.uid = x].at = "drop"
      BY <1>2, <2>1 DEF FrameT
    <3> QED
      BY <3>1, <3>2
  <2> QED
    BY <1>3, <2>1, <2>2
<1>6. CASE DropOld(a)
  <2>1. stack[a] # <<>> /\ Top(a).at = "drop" /\ Goto(a, [Top(a) EXCEPT !.at = "yield", !.folder = None, !.old = 0])
    BY <1>6, Zenon DEF DropOld, At, Top
  <2>2. [Top(a) EXCEPT !.at = "yield", !.folder = None, !.old = 0].at = "yield"
    BY <1>2, <2>1 DEF FrameT
  <2> QED
    BY <1>3, <2>1, <2>2
<1>7. CASE Sweep(a)
  <2>1. stack[a] # <<>> /\ Top(a).at = "yield"
    BY <1>7 DEF Sweep, At, Top
  <2>2. \E g : (Goto(a, g) \/ stack' = [stack EXCEPT ![a] = <<g>>]) /\ g.at = "clear"
    <3>1. PICK x : \/ Goto(a, [Top(a) EXCEPT !.at = "clear", !.uid = x])
                   \/ stack' = [stack EXCEPT ![a] = <<[Top(a) EXCEPT !.at = "clear", !.uid = x]>>]
      BY <1>7 DEF Sweep
    <3>2. [Top(a) EXCEPT !.at = "clear", !.uid = x].at = "clear"
      BY <1>2, <2>1 DEF FrameT
    <3> QED
      BY <3>1, <3>2
  <2> QED
    BY <1>3, <2>1, <2>2
<1>8. CASE Clear(a)
  <2>1. stack[a] # <<>> /\ stack'[a] = Tail(stack[a])
    BY <1>1, <1>8 DEF Clear, At
  <2>2. Len(Tail(stack[a])) = Len(stack[a]) - 1 /\ Len(stack[a]) \in Nat
    BY <1>1, <2>1
  <2>3. Tail(stack[a]) # stack[a]
    <3>1. PICK n \in Nat : n = Len(stack[a])
      BY <2>2
    <3>2. SUFFICES ASSUME Tail(stack[a]) = stack[a] PROVE FALSE
      OBVIOUS
    <3>3. n = n - 1
      BY <2>2, <3>1, <3>2, Zenon
    <3> QED
      BY <3>3
  <2> QED
    BY <2>1, <2>3
<1> QED
  BY <1>4, <1>5, <1>6, <1>7, <1>8 DEF Push

\* All copies of d that are not deleted have UID u: there is at most one.
AllAt(a, d, u) == \A w \in Live(a, d) : w.uid = u
\* The push f has yielded and will find that its new copy has UID u.
Finds(a, f, u) ==
  /\ f.uid # 0 => f.uid = u
  /\ f.uid = 0 => /\ \E r \in seen[a] : r.id = f.id /\ r.uid = u
                  /\ \A r \in seen[a] : r.id = f.id => r.uid <= u
                  /\ \A c \in box[a] : c.of = f.d => c.uid <= u
OneFrame(a, f) ==
  /\ Unread(f) => f.old = row[f.d].uid /\ AllAt(a, f.d, f.old)
  /\ f.at = "drop" => \A w \in Live(a, f.d) : w.uid = next[a] - 1 \/ w.uid = f.old
  /\ f.at = "yield" => \E u \in Nat : AllAt(a, f.d, u) /\ Finds(a, f, u)
  /\ f.at = "clear" => AllAt(a, f.d, f.uid)
Once(s, d) == \A i, j \in DOMAIN s : s[i].d = d /\ s[j].d = d => i = j
OneCopy(a, d) ==
  /\ Once(stack[a], d)
  /\ ~PushingAt(a, d) => AllAt(a, d, row[d].uid)
  /\ \A i \in DOMAIN stack[a] : stack[a][i].d = d => OneFrame(a, stack[a][i])

LEMMA LiveStep ==
  ASSUME Types, [Next]_vars, NEW a \in Accounts, NEW d, NEW w \in Live(a, d)'
  PROVE  w \in Live(a, d) \/ (Appended(a, w) /\ Top(a).d = d)
<1>1. w \in box'[a] /\ w.of = d /\ ~w.deleted
  BY DEF Live
<1> QED
  BY <1>1, BoxStep DEF BoxSteps, Appended, Live

\* The UID in the row changes when a push of it ends only.
LEMMA RowUid ==
  ASSUME Kept, [Next]_vars, NEW a \in Accounts, NEW d \in Drafts, ~Moved(d)',
         row[d].is = "row", row[d].account = a, row'[d].is = "row"
  PROVE  row'[d].uid = row[d].uid \/ (Cleared(d, a) /\ row'[d].uid = Top(a).uid)
<1>1. Types /\ MarksType /\ HomeInv
  BY DEF Kept
<1>2. row[d] \in RowT /\ ~Moved(d)
  BY <1>1, MarksStep DEF Types, RowsType, Moved
<1>3. ASSUME NEW b \in Accounts, Rewritten(d, b) \/ Stamped(d, b) PROVE row'[d].uid = row[d].uid
  BY <1>2, <1>3 DEF Rewritten, Upserted, Stamped, RowT
<1>4. Refiled(d) => row'[d].uid = row[d].uid
  BY <1>2 DEF Refiled, RowT
<1>5. ~Deleted(d)
  BY DEF Deleted, NoRow
<1>6. ASSUME NEW b \in Accounts, Cleared(d, b) PROVE b = a /\ row'[d].uid = Top(a).uid
  <2>1. PushingAt(b, d)
    BY <1>1, <1>6, TopType DEF Cleared, PushingAt, Types, StackType
  <2>2. b = a
    BY <1>1, <1>2, <2>1 DEF HomeInv, Home, Trace
  <2>3. row'[d] = ClearDraftDirty(d, Top(a), a)
    BY <1>6, <2>2 DEF Cleared
  <2> QED
    BY <1>2, <2>2, <2>3 DEF ClearDraftDirty, RowT
<1> QED
  BY <1>1, <1>3, <1>4, <1>5, <1>6, RowStep DEF RowSteps

\* Rows of d's own mailbox are not lost to another account's worker; without UIDPLUS none is.
LEMMA RowsStay ==
  ASSUME Kept, ItsInv, [Next]_vars, NEW a \in Accounts, NEW d \in Drafts, ~Moved(d),
         row[d].is = "row", row[d].account = a, a \notin plus,
         NEW r \in seen[a], Minted(r.id, d)
  PROVE  r \in seen'[a]
<1>1. Types /\ Numbered /\ HomeInv
  BY DEF Kept
<1>2. seen \in [Accounts -> SUBSET SeenT] /\ r.uid # 0
  BY <1>1 DEF Types, SeenType, Numbered
<1>3. \A g, U : Unlisted(a, g, U) = seen
  BY DEF Unlisted
<1>4. Untouched(a) \/ Grows(a) => r \in seen'[a]
  BY DEF Untouched, Grows
<1>5. Removes(a) => r \in seen'[a]
  BY <1>3 DEF Removes
<1>6. Sweep(a) => r \in seen'[a]
  BY <1>3 DEF Sweep
<1>7. CASE DropOld(a)
  <2>1. PICK x, y : seen' = [x EXCEPT ![a] = @ \cup y] /\ x \in {seen, Unlisted(a, Top(a).folder, {Top(a).old})}
    BY <1>7, Zenon DEF DropOld
  <2>2. x = seen
    BY <1>3, <2>1
  <2> QED
    BY <1>2, <2>1, <2>2
<1>8. CASE Strays(a)
  <2>1. ASSUME NEW u, NEW e, Its(a, u, e), Spared(a, u), e # d PROVE r \in seen'[a]
    BY <1>2, <2>1 DEF Its, Spared, Minted
  <2>2. PICK b \in Accounts \ {a} :
          \/ \E c \in cmds[b] : c.op = "drop" /\ c.folder = a /\ Spared(a, c.uid)
          \/ stack[b] # <<>> /\ Top(b).folder = a /\ Spared(a, Top(b).old)
    BY <1>8 DEF Strays
  <2>3. ASSUME NEW c \in cmds[b], c.op = "drop", c.folder = a, Spared(a, c.uid) PROVE r \in seen'[a]
    <3>1. Its(a, c.uid, c.d) /\ row[c.d].is = "gone"
      BY <2>3 DEF ItsInv, CmdIts
    <3> QED
      BY <2>1, <2>3, <3>1
  <2>4. CASE stack[b] # <<>> /\ Top(b).folder = a /\ Spared(a, Top(b).old)
    <3>1. Top(b) = stack[b][1] /\ 1 \in DOMAIN stack[b]
      BY <1>1, <2>4, TopType DEF Types, StackType
    <3>2. Its(a, Top(b).old, Top(b).d)
      BY <2>4, <3>1 DEF ItsInv, FrameIts
    <3>3. Top(b).d # d
      BY <1>1, <3>1 DEF HomeInv, Home, Trace, PushingAt
    <3> QED
      BY <2>1, <2>4, <3>2, <3>3
  <2> QED
    BY <2>2, <2>3, <2>4
<1> QED
  BY <1>1, <1>4, <1>5, <1>6, <1>7, <1>8, MailStep DEF MailSteps

\* A push that does not move on stays right about its copy.
LEMMA FrameKept ==
  ASSUME Kept, ItsInv, [Next]_vars, NEW a \in Accounts, NEW d \in Drafts, ~Moved(d),
         row[d].is = "row", row[d].account = a, row'[d].uid = row[d].uid,
         NEW f \in FrameT, NEW i \in DOMAIN stack[a], f = stack[a][i], f.d = d, OneFrame(a, f),
         Top(a).d = d => ~Push(a)
  PROVE  OneFrame(a, f)'
<1>1. /\ Types /\ Numbered /\ Stacked /\ HeadInv /\ MintInv
      /\ stack[a] # <<>> /\ Top(a) = stack[a][1] /\ stack[a] \in Seq(FrameT)
  BY TopType DEF Kept, Types, StackType
<1>2. next[a] \in Nat /\ next'[a] \in Nat /\ BoxSteps(a)
  BY <1>1, BoxStep
<1>3. ~(AppendCopy(a) /\ Top(a).d = d)
  BY DEF Push
<1>4. \A w \in Live(a, d)' : w \in Live(a, d)
  BY <1>1, <1>3, LiveStep DEF Appended
<1>5. ASSUME NEW u, AllAt(a, d, u) PROVE AllAt(a, d, u)'
  BY <1>4, <1>5 DEF AllAt
<1>6. CASE f.at = "drop"
  <2>1. Top(a).d = d
    BY <1>1, <1>6 DEF Stacked
  <2>2. next'[a] = next[a]
    BY <1>1, <2>1, MailStep DEF MailSteps, Untouched, Strays, Removes, Grows, Appended, Push
  <2>3. \A w \in Live(a, d) : w.uid = next[a] - 1 \/ w.uid = f.old
    BY <1>6 DEF OneFrame
  <2>4. \A w \in Live(a, d)' : w.uid = next'[a] - 1 \/ w.uid = f.old
    BY <1>4, <2>2, <2>3
  <2> QED
    BY <1>6, <2>4 DEF OneFrame, Unread
<1>7. CASE f.at = "yield"
  <2>1. PICK u \in Nat : AllAt(a, d, u) /\ Finds(a, f, u)
    BY <1>7 DEF OneFrame
  <2>2. ASSUME f.uid = 0
        PROVE  /\ \E r \in seen'[a] : r.id = f.id /\ r.uid = u
               /\ \A r \in seen'[a] : r.id = f.id => r.uid <= u
               /\ \A c \in box'[a] : c.of = d => c.uid <= u
    <3>1. a \notin plus /\ Minted(f.id, d)
      <4>1. Told(a, f) /\ FrameMinted(f)
        BY <1>1 DEF HeadInv, MintInv
      <4> QED
        BY <1>7, <2>2, <4>1 DEF Told, FrameMinted
    <3>2. PICK r \in seen[a] : r.id = f.id /\ r.uid = u
      BY <2>1, <2>2 DEF Finds
    <3>3. r \in seen'[a]
      BY <3>1, <3>2, RowsStay
    <3>4. ASSUME NEW x \in seen'[a], x.id = f.id PROVE x.uid <= u
      <4>1. CASE x \in seen[a]
        BY <2>1, <2>2, <3>4, <4>1 DEF Finds
      <4>2. ASSUME NEW c \in box[a], x.uid = c.uid, x.id = c.id PROVE x.uid <= u
        <5>1. Minted(c.id, c.of)
          BY <1>1 DEF MintInv
        <5>2. c.of = d
          BY <3>1, <3>4, <4>2, <5>1 DEF Minted
        <5> QED
          BY <2>1, <2>2, <4>2, <5>2 DEF Finds
      <4> QED
        BY <1>1, <4>1, <4>2, ListStep
    <3>5. ASSUME NEW c \in box'[a], c.of = d PROVE c.uid <= u
      <4>1. ~Appended(a, c)
        BY <1>3, <3>5 DEF Appended
      <4>2. PICK x \in box[a] : c.uid = x.uid /\ c.of = x.of
        BY <1>2, <4>1 DEF BoxSteps
      <4> QED
        BY <2>1, <2>2, <3>5, <4>2 DEF Finds
    <3> QED
      BY <3>2, <3>3, <3>4, <3>5
  <2>3. Finds(a, f, u)'
    <3>1. f.uid # 0 => f.uid = u
      BY <2>1 DEF Finds
    <3> QED
      BY <2>2, <3>1 DEF Finds
  <2>4. AllAt(a, d, u)'
    BY <1>5, <2>1
  <2> QED
    BY <1>7, <2>3, <2>4 DEF OneFrame, Unread
<1>8. CASE Unread(f)
  <2>1. f.old = row[d].uid /\ AllAt(a, d, f.old)
    BY <1>8 DEF OneFrame
  <2>2. AllAt(a, d, f.old)'
    BY <1>5, <2>1
  <2> QED
    BY <1>8, <2>1, <2>2 DEF OneFrame, Unread
<1>9. CASE f.at = "clear"
  <2>1. AllAt(a, d, f.uid)
    BY <1>9 DEF OneFrame
  <2>2. AllAt(a, d, f.uid)'
    BY <1>5, <2>1
  <2> QED
    BY <1>9, <2>2 DEF OneFrame, Unread
<1> QED
  BY <1>6, <1>7, <1>8, <1>9 DEF FrameT, Unread

-----------------------------------------------------------------------------
(* One copy: the push that moves on *)

LEMMA OnceBegun ==
  ASSUME NEW s \in Seq(FrameT), NEW f \in FrameT, NEW d, Once(s, d),
         f.d = d => \A i \in DOMAIN s : s[i].d # d
  PROVE  Once(<<f>> \o s, d)
<1> DEFINE t == <<f>> \o s
<1>1. Len(s) \in Nat /\ DOMAIN s = 1..Len(s) /\ DOMAIN t = 1..(Len(s) + 1) /\ t[1] = f
  BY Pushed
<1>2. ASSUME NEW i \in DOMAIN t, i # 1 PROVE i - 1 \in DOMAIN s /\ t[i] = s[i - 1]
  BY <1>1, <1>2
<1> HIDE DEF t
<1>3. ASSUME NEW i \in DOMAIN t, NEW j \in DOMAIN t, t[i].d = d, t[j].d = d PROVE i = j
  <2>1. CASE i = 1 /\ j = 1
    BY <2>1
  <2>2. CASE i = 1 /\ j # 1
    BY <1>1, <1>2, <1>3, <2>2
  <2>3. CASE i # 1 /\ j = 1
    BY <1>1, <1>2, <1>3, <2>3
  <2>4. CASE i # 1 /\ j # 1
    <3>1. i - 1 = j - 1
      BY <1>2, <1>3, <2>4 DEF Once
    <3> QED
      BY <1>1, <3>1
  <2> QED
    BY <2>1, <2>2, <2>3, <2>4
<1>4. Once(t, d)
  BY <1>3 DEF Once
<1> QED
  BY <1>4 DEF t

LEMMA OncePopped ==
  ASSUME NEW s \in Seq(FrameT), s # <<>>, NEW d, Once(s, d)
  PROVE  /\ Once(Tail(s), d)
         /\ \A i \in DOMAIN Tail(s) : i + 1 \in DOMAIN s /\ Tail(s)[i] = s[i + 1]
         /\ s[1].d = d => \A i \in DOMAIN Tail(s) : Tail(s)[i].d # d
<1> DEFINE t == Tail(s)
<1>1. Len(s) \in Nat /\ DOMAIN s = 1..Len(s) /\ DOMAIN t = 1..(Len(s) - 1) /\ 1 \in DOMAIN s
  OBVIOUS
<1>2. ASSUME NEW i \in DOMAIN t PROVE i \in Nat /\ i # 0 /\ i + 1 \in DOMAIN s /\ t[i] = s[i + 1]
  BY <1>1, <1>2, Popped
<1> HIDE DEF t
<1>3. ASSUME NEW i \in DOMAIN t, NEW j \in DOMAIN t, t[i].d = d, t[j].d = d PROVE i = j
  <2>1. i + 1 = j + 1
    BY <1>2, <1>3 DEF Once
  <2> QED
    BY <1>2, <2>1
<1>4. Once(t, d)
  BY <1>3 DEF Once
<1>5. ASSUME s[1].d = d, NEW i \in DOMAIN t PROVE t[i].d # d
  <2>1. i + 1 # 1 /\ i + 1 \in DOMAIN s
    BY <1>2
  <2> QED
    BY <1>1, <1>2, <1>5, <2>1 DEF Once
<1> QED
  BY <1>2, <1>4, <1>5 DEF t

LEMMA OnceMoved ==
  ASSUME NEW s \in Seq(FrameT), s # <<>>, NEW f \in FrameT, f.d = s[1].d, NEW d, Once(s, d)
  PROVE  LET t == [s EXCEPT ![1] = f] IN
           /\ Once(t, d) /\ DOMAIN t = DOMAIN s /\ 1 \in DOMAIN s /\ t[1] = f
           /\ \A i \in DOMAIN s : i # 1 => t[i] = s[i]
           /\ f.d = d => \A i \in DOMAIN s : t[i].d = d => i = 1
<1> DEFINE t == [s EXCEPT ![1] = f]
<1>1. /\ DOMAIN t = DOMAIN s /\ 1 \in DOMAIN s /\ t[1] = f
      /\ \A i \in DOMAIN s : i # 1 => t[i] = s[i]
  OBVIOUS
<1> HIDE DEF t
<1>2. \A i \in DOMAIN s : t[i].d = s[i].d
  BY <1>1
<1>3. Once(t, d) /\ (f.d = d => \A i \in DOMAIN s : t[i].d = d => i = 1)
  BY <1>1, <1>2 DEF Once
<1> QED
  BY <1>1, <1>3 DEF t

\* The push that appends: its copy is the new one, beside the one it replaces.
LEMMA SentOne ==
  ASSUME Types, Numbered, [Next]_vars, NEW a \in Accounts, stack[a] # <<>>,
         NEW f \in FrameT, f = Top(a), OneFrame(a, f), NEW g \in FrameT, g.d = f.d, SentOff(a, f, g)
  PROVE  OneFrame(a, g)'
<1>1. AllAt(a, f.d, f.old) /\ g.at = "drop" /\ g.old = f.old
  BY DEF SentOff, OneFrame, Unread
<1>2. next'[a] = next[a] + 1 /\ next[a] \in Nat
  BY AppendGrows, BoxStep DEF SentOff, Grows
<1>3. \A w \in Live(a, f.d)' : w \in Live(a, f.d) \/ w.uid = next[a]
  BY LiveStep DEF Appended
<1>4. \A w \in Live(a, g.d)' : w.uid = next'[a] - 1 \/ w.uid = g.old
  BY <1>1, <1>2, <1>3 DEF AllAt
<1> QED
  BY <1>1, <1>4 DEF OneFrame, Unread

\* The push that drops the copy it replaces: the new one is left, and listed.
LEMMA YieldedOne ==
  ASSUME Types, Numbered, HeadInv, MintInv, [Next]_vars, NEW a \in Accounts, stack[a] # <<>>,
         NEW f \in FrameT, f = Top(a), OneFrame(a, f), NEW g \in FrameT, g.d = f.d, Yielded(a, f, g)
  PROVE  OneFrame(a, g)'
<1> DEFINE left == IF f.old = 0 THEN box[a] ELSE Without(a, {f.old})
           known == IF f.old = 0 THEN seen ELSE Unlisted(a, f.folder, {f.old})
           top == Max({0} \cup {r.uid : r \in known[a]})
           more == {[uid |-> c.uid, id |-> c.id] : c \in {x \in left : x.uid > top}}
<1>1. /\ f.at = "drop" /\ g.at = "yield" /\ g.id = f.id /\ g.uid = f.uid
      /\ box' = [box EXCEPT ![a] = left] /\ seen' = [known EXCEPT ![a] = @ \cup more] /\ next' = next
  <2>1. f.at = "drop" /\ g.at = "yield" /\ g.id = f.id /\ g.uid = f.uid /\ DropOld(a)
    BY DEF Yielded
  <2>2. box' = [box EXCEPT ![a] = left] /\ seen' = [known EXCEPT ![a] = @ \cup more] /\ next' = next
    BY <2>1, Zenon DEF DropOld
  <2> QED
    BY <2>1, <2>2
<1>2. /\ ServerType /\ SeenType /\ next[a] \in Nat /\ box[a] \subseteq CopyT
      /\ known \in [Accounts -> SUBSET SeenT] /\ known[a] \subseteq seen[a]
  BY UnlistedType, UnlistedFacts DEF Types, ServerType, SeenType
<1>3. Fresh(a) /\ f.at = "drop"
  BY <1>1 DEF HeadInv
<1>4. box'[a] = left /\ seen'[a] = known[a] \cup more
  <2> HIDE DEF left, known, more
  <2> QED
    BY <1>1, <1>2 DEF ServerType
<1>5. \A w \in Live(a, f.d) : w.uid = next[a] - 1 \/ w.uid = f.old
  BY <1>1 DEF OneFrame
<1>6. ASSUME NEW w \in Live(a, f.d)' PROVE w.uid = next[a] - 1
  <2>1. w \in left /\ ~w.deleted /\ w.of = f.d
    BY <1>4, <1>6 DEF Live
  <2>2. CASE f.old = 0
    <3>1. w \in Live(a, f.d) /\ w.uid # 0
      BY <2>1, <2>2 DEF Live, Numbered
    <3> QED
      BY <1>5, <2>2, <3>1
  <2>3. CASE f.old # 0
    <3>1. PICK c \in box[a] : Remains(a, w, c, {f.old})
      BY <1>2, <2>1, <2>3, WithoutFacts
    <3>2. c \in Live(a, f.d) /\ c.uid # f.old /\ w.uid = c.uid
      BY <2>1, <3>1 DEF Remains, Live
    <3> QED
      BY <1>5, <3>2
  <2> QED
    BY <2>2, <2>3
<1>7. ASSUME f.uid = 0
      PROVE  /\ \E r \in seen'[a] : r.id = f.id /\ r.uid = next[a] - 1
             /\ \A r \in seen'[a] : r.id = f.id => r.uid <= next[a] - 1
             /\ \A c \in box'[a] : c.of = f.d => c.uid <= next[a] - 1
  <2>1. a \notin plus
    BY <1>2, <1>3, <1>7 DEF Fresh, HeadInv, Told, Numbered
  <2>2. PICK w \in box[a] : w.uid = next[a] - 1 /\ w.id = f.id
    BY <1>3 DEF Fresh
  <2>3. \E x \in left : x.uid = next[a] - 1 /\ x.id = f.id
    <3>1. CASE f.old = 0
      BY <2>2, <3>1
    <3>2. CASE f.old # 0
      <4> DEFINE x == [w EXCEPT !.deleted = @ \/ w.uid \in {f.old}]
      <4>1. x \in Without(a, {f.old})
        BY <2>1 DEF Without
      <4>2. x.uid = w.uid /\ x.id = w.id
        BY <1>2 DEF CopyT
      <4> QED
        BY <2>2, <3>2, <4>1, <4>2
    <3> QED
      BY <3>1, <3>2
  <2>4. top < next[a] - 1
    <3> DEFINE S == {0} \cup {r.uid : r \in known[a]}
    <3>1. \A r \in known[a] : r.uid \in Nat /\ r.uid < next[a] - 1
      <4> HIDE DEF known
      <4>1. \A r \in seen[a] : r.uid < next[a] - 1
        BY <1>3 DEF Fresh
      <4>2. \A r \in seen[a] : r.uid \in Nat
        BY <1>2 DEF SeenType, SeenT
      <4> QED
        BY <1>2, <4>1, <4>2
    <3>2. w.uid # 0 /\ w.uid \in Nat
      BY <1>2 DEF Numbered, CopyT
    <3>3. next[a] - 1 \in Nat /\ 0 < next[a] - 1
      BY <1>2, <2>2, <3>2
    <3>4. S \in SUBSET Nat /\ S # {} /\ \A n \in S : n < next[a] - 1
      <4> HIDE DEF known
      <4> QED
        BY <3>1, <3>3
    <3> HIDE DEF S
    <3>5. \A n \in S : n <= next[a] - 1
      BY <3>3, <3>4
    <3>6. Max(S) \in S
      BY <3>3, <3>4, <3>5, Largest
    <3>7. Max(S) < next[a] - 1
      BY <3>4, <3>6
    <3> QED
      BY <3>7 DEF S
  <2>5. \E r \in more : r.id = f.id /\ r.uid = next[a] - 1
    <3> HIDE DEF left, top
    <3>1. PICK x \in left : x.uid = next[a] - 1 /\ x.id = f.id
      BY <2>3
    <3>2. x.uid > top
      <4>1. \A n : n < next[a] - 1 /\ x.uid = next[a] - 1 => x.uid > n
        OBVIOUS
      <4> QED
        BY <2>4, <3>1, <4>1
    <3>3. [uid |-> x.uid, id |-> x.id] \in more
      BY <3>2
    <3> QED
      BY <3>1, <3>3
  <2>6. \A c \in box[a] : c.uid \in Nat /\ c.uid < next[a]
    BY <1>2 DEF Numbered, CopyT
  <2>7. \A c \in box[a] : c.uid <= next[a] - 1
    BY <1>2, <2>6
  <2>8. \A x \in seen[a] : x.uid \in Nat /\ x.uid <= next[a] - 1
    BY <1>2 DEF Numbered, SeenType, SeenT
  <2>9. ASSUME NEW r \in seen'[a] PROVE r.uid <= next[a] - 1
    BY <2>7, <2>8, ListStep
  <2>10. ASSUME NEW c \in box'[a] PROVE c.uid <= next[a] - 1
    <3>1. ~Appended(a, c)
      BY <1>3 DEF Appended, At, Top
    <3> QED
      BY <2>7, <3>1, BoxStep DEF BoxSteps
  <2> QED
    BY <1>4, <2>5, <2>9, <2>10
<1>8. PICK u \in Nat : u = next[a] - 1
  <2>1. \E w \in box[a] : w.uid = next[a] - 1 /\ w.uid \in Nat
    BY <1>2, <1>3 DEF Fresh, CopyT
  <2> QED
    BY <2>1
<1>9. AllAt(a, g.d, u)'
  BY <1>6, <1>8 DEF AllAt
<1>10. Finds(a, g, u)'
  <2>1. f.uid # 0 => f.uid = u
    BY <1>3, <1>8 DEF Fresh
  <2> QED
    BY <1>1, <1>7, <1>8, <2>1 DEF Finds
<1> QED
  BY <1>1, <1>9, <1>10 DEF OneFrame, Unread

\* The push that sweeps finds the UID of its copy.
LEMMA SweptOne ==
  ASSUME Types, Numbered, MintInv, [Next]_vars, NEW a \in Accounts, stack[a] # <<>>,
         NEW f \in FrameT, f = Top(a), OneFrame(a, f), FrameMinted(f),
         NEW g \in FrameT, g.d = f.d, Swept(a, f, g)
  PROVE  OneFrame(a, g)'
<1>1. f.at = "yield" /\ g.at = "clear" /\ g.uid = Latest(a, f) /\ Sweep(a)
  BY DEF Swept
<1>2. PICK u \in Nat : AllAt(a, f.d, u) /\ Finds(a, f, u)
  BY <1>1 DEF OneFrame
<1>3. g.uid = u
  <2>1. CASE f.uid # 0
    BY <1>1, <1>2, <2>1 DEF Latest, Finds
  <2>2. CASE f.uid = 0
    <3>1. Minted(f.id, f.d)
      BY <1>1 DEF FrameMinted
    <3>2. g.uid = Max({0} \cup Named(a, f.id))
      BY <1>1, <2>2 DEF Latest
    <3>3. /\ g.uid \in Nat /\ \A r \in seen[a] : r.id = f.id => r.uid <= g.uid
          /\ g.uid = 0 \/ \E r \in seen[a] : r.id = f.id /\ r.uid = g.uid
      BY <3>1, <3>2, LatestIsMine
    <3>4. u <= g.uid
      BY <1>2, <2>2, <3>3 DEF Finds
    <3>5. g.uid = 0 \/ g.uid <= u
      BY <1>2, <2>2, <3>3 DEF Finds
    <3> QED
      BY <3>3, <3>4, <3>5
  <2> QED
    BY <2>1, <2>2
<1>4. ~AppendCopy(a)
  BY <1>1 DEF AppendCopy, At, Top
<1>5. \A w \in Live(a, f.d)' : w \in Live(a, f.d)
  BY <1>4, LiveStep DEF Appended
<1>6. AllAt(a, g.d, g.uid)'
  BY <1>2, <1>3, <1>5 DEF AllAt
<1> QED
  BY <1>1, <1>6 DEF OneFrame, Unread

-----------------------------------------------------------------------------
(* One copy: every step *)

\* What moves the top push of another draft, or no push, leaves d's alone.
LEMMA OneCopyKept ==
  ASSUME Kept, ItsInv, [Next]_vars, NEW a \in Accounts, NEW d \in Drafts, ~Moved(d)', ~Moved(d),
         row[d].is = "row", row[d].account = a, row'[d].is = "row", OneCopy(a, d),
         Top(a).d = d /\ stack[a] # <<>> => ~Push(a), ~Cleared(d, a),
         Once(stack'[a], d),
         \A i \in DOMAIN stack'[a] : stack'[a][i].d = d => \E j \in DOMAIN stack[a] : stack'[a][i] = stack[a][j],
         PushingAt(a, d) => PushingAt(a, d)'
  PROVE  OneCopy(a, d)'
<1>1. Types
  BY DEF Kept
<1>2. row'[d].uid = row[d].uid
  BY RowUid
<1>3. Once(stack[a], d)'
  OBVIOUS
<1>4. ASSUME ~PushingAt(a, d)' PROVE AllAt(a, d, row[d].uid)'
  <2>1. ~PushingAt(a, d) /\ AllAt(a, d, row[d].uid)
    BY <1>4 DEF OneCopy
  <2>2. ~(AppendCopy(a) /\ Top(a).d = d)
    BY DEF Push, AppendCopy, At
  <2>3. \A w \in Live(a, d)' : w \in Live(a, d)
    BY <1>1, <2>2, LiveStep DEF Appended
  <2> QED
    BY <1>2, <2>1, <2>3 DEF AllAt
<1>5. ASSUME NEW i \in DOMAIN stack'[a], stack'[a][i].d = d PROVE OneFrame(a, stack[a][i])'
  <2>1. PICK j \in DOMAIN stack[a] : stack'[a][i] = stack[a][j]
    BY <1>5
  <2>2. PICK f \in FrameT : f = stack[a][j]
    BY <1>1 DEF Types, StackType
  <2>3. f.d = d /\ OneFrame(a, f)
    BY <1>5, <2>1, <2>2 DEF OneCopy
  <2>4. stack[a] # <<>>
    BY <2>1
  <2>5. OneFrame(a, f)'
    BY <1>2, <2>2, <2>3, <2>4, FrameKept
  <2> QED
    BY <2>1, <2>2, <2>5
<1> QED
  BY <1>3, <1>4, <1>5 DEF OneCopy

LEMMA OneCopyStep ==
  ASSUME Kept, ItsInv, [Next]_vars, NEW a \in Accounts, NEW d \in Drafts,
         faults \in Nat, Calm(d)',
         row[d].is = "row", row[d].account = a, row'[d].is = "row", OneCopy(a, d)
  PROVE  OneCopy(a, d)'
<1>1. Types /\ Numbered /\ Stacked /\ MarksType /\ MintInv /\ HeadInv
  BY DEF Kept
<1>2. Calm(d) /\ ~Fault /\ ~Moved(d) /\ ~Moved(d)'
  BY <1>1, CalmStep DEF Calm, Moved
<1>3. stack[a] \in Seq(FrameT) /\ \A i \in DOMAIN stack[a] : stack[a][i] \in FrameT
  BY <1>1 DEF Types, StackType
<1>4. Once(stack[a], d) /\ \A i \in DOMAIN stack[a] : stack[a][i].d = d => OneFrame(a, stack[a][i])
  BY DEF OneCopy
<1>5. stack[a] # <<>> => Top(a) = stack[a][1] /\ 1 \in DOMAIN stack[a] /\ Top(a) \in FrameT
  BY <1>1, TopType DEF Types, StackType
<1>6. CASE Rests(a)
  <2>1. stack'[a] = stack[a]
    BY <1>6 DEF Rests
  <2>2. ~Push(a)
    BY <1>1, <2>1, PushMoves
  <2>3. ~Cleared(d, a)
    BY <2>2 DEF Cleared, Push
  <2>4. PushingAt(a, d) => PushingAt(a, d)'
    BY <2>1 DEF PushingAt
  <2> QED
    BY <1>2, <1>4, <2>1, <2>2, <2>3, <2>4, OneCopyKept
<1>7. CASE Enters(a)
  <2>1. PICK e \in Drafts :
          /\ stack'[a] = <<Frame(e)>> \o stack[a]
          /\ PushingAt(a, e) => Mark(e, {"nested"})
          /\ UNCHANGED <<row, box, next, seen>>
    BY <1>7 DEF Enters
  <2>2. e = d => ~PushingAt(a, d)
    <3>1. Mark(d, {"nested"}) => "nested" \in marks'[d]
      BY <1>1 DEF Mark, MarksType
    <3> QED
      BY <2>1, <3>1 DEF Calm
  <2>3. PICK f \in FrameT : f = Frame(e)
    BY <1>1, FrameType DEF Types
  <2>4. f.d = e /\ f.at = "build" /\ f.old = row[e].uid
    BY <2>3 DEF Frame
  <2>5. stack'[a] = <<f>> \o stack[a]
    BY <2>1, <2>3
  <2>6. Once(stack'[a], d)
    BY <1>3, <1>4, <2>2, <2>4, <2>5, OnceBegun DEF PushingAt
  <2>7. ASSUME NEW g, OneFrame(a, g) PROVE OneFrame(a, g)'
    BY <2>1, <2>7 DEF OneFrame, Unread, AllAt, Finds, Live
  <2>8. ASSUME NEW i \in DOMAIN stack'[a], stack'[a][i].d = d PROVE OneFrame(a, stack[a][i])'
    <3>1. CASE i = 1
      <4>1. stack'[a][i] = f
        BY <1>3, <2>5, <3>1
      <4>2. f.d = d /\ AllAt(a, d, f.old) /\ f.old = row[d].uid
        BY <2>2, <2>4, <2>8, <4>1 DEF OneCopy
      <4>3. OneFrame(a, f)
        BY <2>4, <4>2 DEF OneFrame, Unread
      <4>4. OneFrame(a, f)'
        BY <2>7, <4>3
      <4> QED
        BY <4>1, <4>4
    <3>2. CASE i # 1
      <4>1. i - 1 \in DOMAIN stack[a] /\ stack'[a][i] = stack[a][i - 1]
        BY <1>3, <2>5, <3>2
      <4>2. PICK g : g = stack'[a][i]
        OBVIOUS
      <4>3. OneFrame(a, g)'
        BY <1>4, <2>7, <2>8, <4>1, <4>2
      <4> QED
        BY <4>2, <4>3
    <3> QED
      BY <3>1, <3>2
  <2>9. ASSUME ~PushingAt(a, d)' PROVE AllAt(a, d, row[d].uid)'
    <3>1. ~PushingAt(a, d)
      <4> SUFFICES ASSUME NEW j \in DOMAIN stack[a], stack[a][j].d = d PROVE PushingAt(a, d)'
        BY <2>9 DEF PushingAt
      <4>1. j + 1 \in DOMAIN stack'[a] /\ stack'[a][j + 1] = stack[a][j]
        BY <1>3, <2>5
      <4> QED
        BY <4>1 DEF PushingAt
    <3>2. AllAt(a, d, row[d].uid)
      BY <3>1 DEF OneCopy
    <3> QED
      BY <2>1, <3>2 DEF AllAt, Live
  <2> QED
    BY <2>6, <2>8, <2>9 DEF OneCopy
<1>8. CASE Advances(a)
  <2>1. PICK g \in FrameT : Advanced(a, g) /\ stack'[a] = [stack[a] EXCEPT ![1] = g]
    BY <1>8 DEF Advances
  <2>2. PICK f \in FrameT :
          /\ stack[a] # <<>> /\ f = Top(a) /\ f = stack[a][1] /\ 1 \in DOMAIN stack[a] /\ g.d = f.d
          /\ Built(a, f, g) \/ SentOff(a, f, g) \/ Yielded(a, f, g) \/ Swept(a, f, g)
    BY <1>1, <1>2, <1>5, <2>1, CalmStack DEF Advanced, Denied
  <2>3. /\ Once(stack'[a], d) /\ DOMAIN stack'[a] = DOMAIN stack[a] /\ stack'[a][1] = g
        /\ \A i \in DOMAIN stack[a] : i # 1 => stack'[a][i] = stack[a][i]
        /\ g.d = d => \A i \in DOMAIN stack[a] : stack'[a][i].d = d => i = 1
    BY <1>3, <1>4, <2>1, <2>2, OnceMoved
  <2>4. CASE f.d # d
    <3>1. ~Cleared(d, a)
      BY <2>2, <2>4 DEF Cleared
    <3>2. ASSUME NEW i \in DOMAIN stack'[a], stack'[a][i].d = d
          PROVE  \E j \in DOMAIN stack[a] : stack'[a][i] = stack[a][j]
      <4>1. i # 1
        BY <2>2, <2>3, <2>4, <3>2
      <4> QED
        BY <2>3, <3>2, <4>1
    <3>3. PushingAt(a, d) => PushingAt(a, d)'
      <4> SUFFICES ASSUME NEW j \in DOMAIN stack[a], stack[a][j].d = d PROVE PushingAt(a, d)'
        BY DEF PushingAt
      <4>1. j # 1
        BY <2>2, <2>4
      <4> QED
        BY <2>3, <4>1 DEF PushingAt
    <3> QED
      BY <1>2, <2>2, <2>3, <2>4, <3>1, <3>2, <3>3, OneCopyKept
  <2>5. CASE f.d = d
    <3>1. OneFrame(a, f)
      BY <1>4, <2>2, <2>5
    <3>2. OneFrame(a, g)'
      <4>1. CASE Built(a, f, g)
        <5>1. f.at = "build" /\ g.at = "append" /\ g.old = f.old /\ BuildDraft(a)
          BY <4>1 DEF Built
        <5>2. f.old = row[d].uid /\ AllAt(a, d, f.old)
          BY <2>5, <3>1, <5>1 DEF OneFrame, Unread
        <5>3. ~Cleared(d, a)
          BY <2>2, <5>1 DEF Cleared
        <5>4. row'[d].uid = row[d].uid
          BY <1>2, <5>3, RowUid
        <5>5. box' = box
          BY <5>1 DEF BuildDraft, serverVars
        <5>6. AllAt(a, d, g.old)'
          BY <5>1, <5>2, <5>5 DEF AllAt, Live
        <5> QED
          BY <2>2, <2>5, <5>1, <5>2, <5>4, <5>6 DEF OneFrame, Unread
      <4>2. CASE SentOff(a, f, g)
        BY <1>1, <2>2, <3>1, <4>2, SentOne
      <4>3. CASE Yielded(a, f, g)
        BY <1>1, <2>2, <3>1, <4>3, YieldedOne
      <4>4. CASE Swept(a, f, g)
        <5>1. FrameMinted(f)
          BY <1>1, <2>2 DEF MintInv
        <5> QED
          BY <1>1, <2>2, <3>1, <4>4, <5>1, SweptOne
      <4> QED
        BY <2>2, <4>1, <4>2, <4>3, <4>4
    <3>3. PushingAt(a, d)'
      BY <2>2, <2>3, <2>5 DEF PushingAt
    <3>4. ASSUME NEW i \in DOMAIN stack'[a], stack'[a][i].d = d PROVE OneFrame(a, stack[a][i])'
      <4>1. stack'[a][i] = g
        BY <2>2, <2>3, <2>5, <3>4
      <4> QED
        BY <3>2, <4>1
    <3> QED
      BY <2>3, <3>3, <3>4 DEF OneCopy
  <2> QED
    BY <2>4, <2>5
<1>9. CASE Finishes(a)
  <2>1. Clear(a) /\ stack[a] # <<>> /\ stack'[a] = Tail(stack[a])
    BY <1>1, <1>2, <1>9, CalmStack DEF Finishes, Fails
  <2>2. PICK f \in FrameT : f = Top(a) /\ f = stack[a][1] /\ 1 \in DOMAIN stack[a]
    BY <1>5, <2>1
  <2>3. /\ Once(stack'[a], d)
        /\ \A i \in DOMAIN stack'[a] : i + 1 \in DOMAIN stack[a] /\ stack'[a][i] = stack[a][i + 1]
        /\ f.d = d => \A i \in DOMAIN stack'[a] : stack'[a][i].d # d
    BY <1>3, <1>4, <2>1, <2>2, OncePopped
  <2>4. CASE f.d # d
    <3>1. ~Cleared(d, a)
      BY <2>2, <2>4 DEF Cleared
    <3>2. \A i \in DOMAIN stack'[a] : \E j \in DOMAIN stack[a] : stack'[a][i] = stack[a][j]
      BY <2>3
    <3>3. PushingAt(a, d) => PushingAt(a, d)'
      <4> SUFFICES ASSUME NEW j \in DOMAIN stack[a], stack[a][j].d = d PROVE PushingAt(a, d)'
        BY DEF PushingAt
      <4>1. j # 1
        BY <2>2, <2>4
      <4>2. j - 1 \in DOMAIN stack'[a] /\ stack'[a][j - 1] = stack[a][j]
        BY <1>3, <2>1, <4>1
      <4> QED
        BY <4>2 DEF PushingAt
    <3> QED
      BY <1>2, <2>2, <2>3, <2>4, <3>1, <3>2, <3>3, OneCopyKept
  <2>5. CASE f.d = d
    <3>1. f.at = "clear" /\ AllAt(a, d, f.uid)
      <4>1. f.at = "clear"
        BY <2>1, <2>2 DEF Clear, At, Top
      <4> QED
        BY <1>4, <2>2, <2>5, <4>1 DEF OneFrame
    <3>2. row'[d].uid = f.uid
      <4>1. row'[d] = ClearDraftDirty(d, f, a)
        BY <1>1, <2>1, <2>2, <2>5 DEF Clear, Types, RowsType
      <4>2. row[d] \in RowT
        BY <1>1 DEF Types, RowsType
      <4> QED
        BY <4>1, <4>2 DEF ClearDraftDirty, RowT
    <3>3. box' = box
      BY <2>1 DEF Clear, serverVars
    <3>4. AllAt(a, d, row[d].uid)'
      BY <3>1, <3>2, <3>3 DEF AllAt, Live
    <3> QED
      BY <2>3, <2>5, <3>4 DEF OneCopy
  <2> QED
    BY <2>4, <2>5
<1> QED
  BY <1>1, <1>2, <1>6, <1>7, <1>8, <1>9, CalmStack

-----------------------------------------------------------------------------
(* Dropped drafts *)

\* No push of d is in progress, and what is left of it is queued to be removed.
NoTrace(d) == \A a \in Accounts :
  /\ ~PushingAt(a, d)
  /\ \A w \in Live(a, d) : \E c \in cmds[a] : c.op = "drop" /\ c.d = d /\ c.uid = w.uid
\* What dropDraft has read names the account that the row names.
DropPlace(d) == row[d].is = "row" /\ drop[d] # NoDrop => drop[d].account = row[d].account
GoneInv == \A d \in Drafts :
  /\ ~Moved(d) => DropPlace(d)
  /\ Calm(d) =>
       /\ row[d].is = "row" => OneCopy(row[d].account, d)
       /\ row[d].is = "gone" => NoTrace(d)

LEMMA NoTraceStep ==
  ASSUME Kept, [Next]_vars, NEW d \in Drafts, marks'[d] = {}, row[d].is = "gone", NoTrace(d)
  PROVE  NoTrace(d)'
<1>1. Types /\ Numbered /\ MarksType
  BY DEF Kept
<1>2. ASSUME NEW a \in Accounts PROVE ~PushingAt(a, d)'
  <2> SUFFICES ASSUME NEW i \in DOMAIN stack'[a], stack'[a][i].d = d PROVE FALSE
    BY DEF PushingAt
  <2>1. \A j \in DOMAIN stack[a] : stack[a][j].d # d
    BY DEF NoTrace, PushingAt
  <2>2. ASSUME NEW e \in Drafts, stack'[a][i] = Frame(e), row[e].is = "row" PROVE FALSE
    BY <2>2 DEF Frame
  <2>3. ASSUME Advanced(a, stack'[a][i]) PROVE FALSE
    <3>1. stack[a] # <<>> /\ Top(a).d = d
      BY <2>3 DEF Advanced
    <3> QED
      BY <1>1, <2>1, <3>1, TopType DEF Types, StackType
  <2> QED
    BY <1>1, <2>1, <2>2, <2>3, FrameStep
<1>3. ASSUME NEW a \in Accounts, NEW w \in Live(a, d)'
      PROVE  \E c \in cmds'[a] : c.op = "drop" /\ c.d = d /\ c.uid = w.uid
  <2>1. w \in Live(a, d)
    <3>1. ASSUME AppendCopy(a), Top(a).d = d PROVE FALSE
      <4>1. stack[a] # <<>>
        BY <3>1 DEF AppendCopy, At
      <4> QED
        BY <1>1, <3>1, <4>1, TopType DEF NoTrace, PushingAt, Types, StackType
    <3> QED
      BY <1>1, <3>1, LiveStep DEF Appended
  <2>2. PICK c \in cmds[a] : c.op = "drop" /\ c.d = d /\ c.uid = w.uid
    BY <2>1 DEF NoTrace
  <2>3. CASE c \in cmds'[a]
    BY <2>2, <2>3
  <2>4. CASE c \notin cmds'[a]
    <3>1. box' = [box EXCEPT ![a] = Without(a, {c.uid})]
      BY <1>1, <2>2, <2>4, CutsMark
    <3>2. ServerType /\ w \in Without(a, {c.uid}) /\ ~w.deleted
      BY <1>1, <1>3, <3>1 DEF Live, Types, ServerType
    <3>3. \E x \in box[a] : w.uid = x.uid /\ x.uid # c.uid
      BY <3>2, WithoutFacts DEF Remains
    <3> QED
      BY <2>2, <3>3
  <2> QED
    BY <2>3, <2>4
<1> QED
  BY <1>2, <1>3 DEF NoTrace

\* The draft is deleted while no push of it runs and its row is the one that was read.
LEMMA Deletes ==
  ASSUME Kept, GoneInv, [Next]_vars, NEW d \in Drafts, Calm(d), ~Fault, marks'[d] = {},
         row[d].is = "row", row'[d].is = "gone"
  PROVE  NoTrace(d)'
<1>1. Types /\ Numbered /\ MarksType /\ HomeInv
  BY DEF Kept
<1>2. /\ row[d] \in RowT /\ ~Moved(d) /\ row \in [Drafts -> RowT] /\ cmds \in [Accounts -> SUBSET CmdT]
      /\ marks \in [Drafts -> SUBSET MarkT]
  BY <1>1 DEF Types, RowsType, CmdsType, MarksType, Calm, Moved
<1>3. DropDelete(d)
  <2>1. ASSUME NEW a \in Accounts, Rewritten(d, a) \/ Stamped(d, a) \/ Cleared(d, a) PROVE row'[d].is # "gone"
    BY <1>2, <2>1 DEF Rewritten, Upserted, Stamped, Cleared, ClearDraftDirty, RowT
  <2>2. Refiled(d) => row'[d].is # "gone"
    BY <1>2 DEF Refiled, RowT
  <2> QED
    BY <1>1, <2>1, <2>2, RowStep DEF RowSteps, Deleted
<1>4. PICK b : b = row[d].account /\ b \in Accounts /\ \A a \in Accounts : Trace(a, d) => a = b
  BY <1>1, <1>2 DEF HomeInv, Home
<1>5. OneCopy(b, d) /\ DropPlace(d)
  BY <1>2, <1>4 DEF GoneInv
<1>6. drop[d] # NoDrop /\ drop[d].account = b
  BY <1>3, <1>4, <1>5 DEF DropDelete, DropPlace
<1>7. ~Pushing(d) /\ row[d].uid = drop[d].uid /\ UNCHANGED <<stack, box>>
  <2>1. Mark(d, IF Pushing(d) \/ row[d].uid # drop[d].uid THEN {"raced"} ELSE {})
    BY <1>3 DEF DropDelete
  <2>2. UNCHANGED <<stack, box>>
    BY <1>3 DEF DropDelete, serverVars
  <2> QED
    BY <1>2, <2>1, <2>2 DEF Mark
<1>8. ASSUME NEW a \in Accounts, NEW w \in Live(a, d)
      PROVE  \E c \in cmds'[a] : c.op = "drop" /\ c.d = d /\ c.uid = w.uid
  <2>1. a = b /\ w.uid # 0
    BY <1>1, <1>4, <1>8 DEF Live, Trace, Copied, Numbered
  <2>2. w.uid = drop[d].uid
    BY <1>5, <1>7, <1>8, <2>1 DEF OneCopy, AllAt, Pushing
  <2>3. cmds' = [cmds EXCEPT ![b] = @ \cup
           {[op |-> "drop", d |-> d, n |-> 0, folder |-> drop[d].folder, uid |-> drop[d].uid]}]
    BY <1>3, <1>6, <2>1, <2>2 DEF DropDelete
  <2>4. [op |-> "drop", d |-> d, n |-> 0, folder |-> drop[d].folder, uid |-> drop[d].uid] \in cmds'[a]
    BY <1>2, <1>4, <2>1, <2>3
  <2> QED
    BY <2>2, <2>4
<1>9. \A a \in Accounts : ~PushingAt(a, d)' /\ Live(a, d)' = Live(a, d)
  BY <1>7 DEF Pushing, PushingAt, Live
<1> QED
  BY <1>8, <1>9 DEF NoTrace

LEMMA GoneInit == Init => GoneInv
<1> SUFFICES ASSUME Init, NEW d \in Drafts
             PROVE  row[d].is = "new"
  BY DEF GoneInv, DropPlace
<1> QED
  BY DEF Init, NoRow

LEMMA DropPlaceStep ==
  ASSUME Kept, [Next]_vars, NEW d \in Drafts, ~Moved(d)', DropPlace(d) PROVE DropPlace(d)'
<1> SUFFICES ASSUME row'[d].is = "row", drop'[d] # NoDrop PROVE drop'[d].account = row'[d].account
  BY DEF DropPlace
<1>1. Types /\ MarksType /\ HomeInv
  BY DEF Kept
<1>2. row[d].is \in {"new", "row"}
  BY <1>1, RowPlace
<1>3. row[d].is = "row"
  <2> SUFFICES ASSUME row[d].is = "new" PROVE FALSE
    BY <1>2
  <2>1. drop[d] = NoDrop
    BY <1>1 DEF HomeInv, Home
  <2> QED
    BY <1>1, <2>1, DropsStep
<1>4. row'[d].account = row[d].account
  BY <1>1, <1>3, RowPlace DEF NoRow
<1>5. drop'[d] = drop[d] \/ drop'[d] = Place(row[d])
  BY <1>1, DropsStep
<1> QED
  BY <1>3, <1>4, <1>5 DEF DropPlace, Place

LEMMA GoneStep == ASSUME Kept, ItsInv, faults \in Nat, GoneInv, [Next]_vars PROVE GoneInv'
<1>1. Types /\ Numbered /\ Stacked /\ MarksType /\ HomeInv
  BY DEF Kept
<1> SUFFICES ASSUME NEW d \in Drafts
             PROVE  /\ (~Moved(d) => DropPlace(d))'
                    /\ Calm(d)' => /\ row'[d].is = "row" => OneCopy(row[d].account, d)'
                                   /\ row'[d].is = "gone" => NoTrace(d)'
  BY DEF GoneInv
<1>2. ASSUME ~Moved(d)' PROVE DropPlace(d)'
  <2>1. ~Moved(d)
    BY <1>1, <1>2, MarksStep DEF Moved
  <2> QED
    BY <1>2, <2>1, DropPlaceStep DEF GoneInv
<1>3. ASSUME Calm(d)' PROVE Calm(d) /\ ~Fault /\ ~Moved(d) /\ ~Moved(d)' /\ marks'[d] = {}
  BY <1>1, <1>3, CalmStep DEF Calm, Moved
<1>4. row[d].is \in {"new", "row", "gone"} /\ row[d] \in RowT
  BY <1>1 DEF Types, RowsType, RowT
<1>5. ASSUME Calm(d)', row'[d].is = "row" PROVE OneCopy(row[d].account, d)'
  <2>0. PICK a : a = row'[d].account
    OBVIOUS
  <2>1. ASSUME a \in Accounts, OneCopy(a, d)' PROVE OneCopy(row[d].account, d)'
    BY <2>0, <2>1
  <2>2. CASE row[d].is = "row"
    <3>1. row'[d].account = row[d].account
      BY <1>1, <1>3, <1>5, <2>2, RowPlace DEF NoRow
    <3>2. a \in Accounts /\ row[d].account = a
      BY <1>1, <1>3, <1>5, <2>0, <2>2, <3>1 DEF HomeInv, Home
    <3>3. OneCopy(a, d)
      BY <1>3, <1>5, <2>2, <3>2 DEF GoneInv
    <3> QED
      BY <1>3, <1>5, <2>1, <2>2, <3>2, <3>3, OneCopyStep
  <2>3. CASE row[d].is = "new"
    <3>1. PICK b \in Accounts : Rewritten(d, b)
      BY <1>1, <1>3, <1>5, <2>3, RowPlace DEF NoRow
    <3>2. row'[d].account = b /\ UNCHANGED <<stack, box>>
      <4>1. row'[d] = Upserted(d, b) /\ UNCHANGED <<stack, box>>
        BY <3>1 DEF Rewritten, UpsertDraft, serverVars
      <4>2. Upserted(d, b).account = b
        BY <1>4, <2>3 DEF Upserted, RowT
      <4> QED
        BY <4>1, <4>2
    <3>3. ~Trace(b, d)
      BY <1>1, <2>3 DEF HomeInv, Home
    <3>4. (\A i \in DOMAIN stack[b] : stack[b][i].d # d) /\ Live(b, d) = {}
      BY <3>3 DEF Trace, PushingAt, Copied, Live
    <3>5. (\A i \in DOMAIN stack'[b] : stack'[b][i].d # d) /\ Live(b, d)' = {}
      BY <3>2, <3>4 DEF Live
    <3>6. OneCopy(b, d)'
      BY <3>5 DEF OneCopy, Once, AllAt
    <3> QED
      BY <2>0, <2>1, <3>2, <3>6
  <2>4. CASE row[d].is = "gone"
    BY <1>1, <1>3, <1>5, <2>4, GoneStays
  <2> QED
    BY <1>4, <2>2, <2>3, <2>4
<1>6. ASSUME Calm(d)', row'[d].is = "gone" PROVE NoTrace(d)'
  <2>1. CASE row[d].is = "gone"
    BY <1>3, <1>6, <2>1, NoTraceStep DEF GoneInv
  <2>2. CASE row[d].is = "row"
    BY <1>3, <1>6, <2>2, Deletes
  <2>3. CASE row[d].is = "new"
    <3>1. row[d] = NoRow("new") /\ drop[d] = NoDrop
      BY <1>1, <2>3 DEF HomeInv, Home
    <3>2. ~Deleted(d)
      BY <3>1 DEF Deleted, DropDelete
    <3>3. ASSUME NEW a \in Accounts, Rewritten(d, a) PROVE FALSE
      BY <1>4, <1>6, <3>3 DEF Rewritten, Upserted, RowT
    <3>4. ASSUME NEW a \in Accounts, Stamped(d, a) \/ Cleared(d, a) PROVE FALSE
      BY <2>3, <3>4 DEF Stamped, Cleared
    <3>5. ~Refiled(d)
      BY <2>3 DEF Refiled
    <3> QED
      BY <1>1, <1>6, <2>3, <3>2, <3>3, <3>4, <3>5, RowStep DEF RowSteps
  <2> QED
    BY <1>4, <2>1, <2>2, <2>3
<1> QED
  BY <1>2, <1>5, <1>6

DropInv == SeenOnce /\ ItsInv /\ faults \in Nat /\ GoneInv

LEMMA DropInvHolds == Spec => []DropInv
<1>1. Init => DropInv
  BY SeenOnceInit, ItsInit, GoneInit DEF DropInv, Init
<1>2. ASSUME KeepInv, DropInv, [Next]_vars PROVE DropInv'
  <2>1. Kept /\ Types /\ Numbered /\ MintInv
    BY <1>2 DEF KeepInv, Kept
  <2>2. faults' \in Nat
    BY <1>2, FaultsStep DEF DropInv
  <2>3. SeenOnce' /\ ItsInv'
    BY <1>2, <2>1, SeenOnceStep, ItsStep DEF DropInv
  <2>4. GoneInv'
    BY <1>2, <2>1, GoneStep DEF DropInv
  <2> QED
    BY <2>2, <2>3, <2>4 DEF DropInv
<1> QED
  BY <1>1, <1>2, KeepInvHolds, PTL DEF Spec

\* A draft that is sent or discarded while no push of it runs leaves no copy behind
\* (dropDraft, DraftMailbox.Drop): on every server it was ever pushed to, as long as no
\* connection broke, nothing restarted and no push of it ran inside another.
THEOREM DroppedForGood == Spec => []DroppedIsGone
<1>1. DropInv => DroppedIsGone
  <2> SUFFICES ASSUME DropInv, NEW d \in Drafts, row[d].is = "gone", Quiet(d), marks[d] = {}, faults = 0,
                      NEW a \in Accounts
               PROVE  Live(a, d) = {}
    BY DEF DroppedIsGone
  <2>1. NoTrace(d)
    BY DEF DropInv, GoneInv, Calm
  <2> QED
    BY <2>1 DEF NoTrace, Quiet
<1> QED
  BY <1>1, DropInvHolds, PTL

=============================================================================
