-------------------------- MODULE FolderSync_proofs --------------------------
(***************************************************************************)
(* Theorems about FolderSync, for any number of messages, clicks, deletions *)
(* and faults, and a window of any size.                                    *)
(***************************************************************************)
EXTENDS FolderSync, TLAPS, FiniteSetTheorems, WellFoundedInduction

-----------------------------------------------------------------------------
(* The mailbox *)

\* A message on the server and a row kept of one. Which flag they carry is no matter here.
IsMail(c) == c \in [uid : Nat \ {0}, m : Nat \ {0}, seen : {c.seen}, mod : {c.mod}]
IsRow(r) == r \in [uid : Nat \ {0}, m : Nat \ {0}, read : {r.read}, dirty : {r.dirty}]

\* UIDs below UIDNEXT and one for each message.
Numbered(b, next) ==
  /\ \A c \in b : IsMail(c)
  /\ \A c \in b : c.uid < next
  /\ \A c, d \in b : c.uid = d.uid <=> c.m = d.m
  /\ \A c, d \in b : c.uid = d.uid => c = d

BoxInv ==
  /\ mail \in Nat
  /\ server \in [v : {1, 2}, next : Nat \ {0}, mod : {server.mod}, cond : {server.cond}]
  /\ Numbered(box, server.next)
  /\ \A c \in box : c.m <= mail

LEMMA BoxIsFinite == ASSUME NEW b, NEW next \in Nat, Numbered(b, next) PROVE IsFiniteSet(b)
<1> DEFINE f == [c \in b |-> c.uid]
<1>1. f \in Injection(b, 0..next)
  BY DEF Numbered, IsMail, Injection, IsInjective
<1>2. IsFiniteSet(0..next)
  BY FS_Interval
<1> QED
  BY <1>1, <1>2, FS_Injection

\* A mailbox made anew: the messages are numbered in the order they had.
Rank(b, c) == Cardinality({y \in b : y.uid <= c.uid})

LEMMA Ranks == ASSUME NEW b, NEW next \in Nat, Numbered(b, next)
               PROVE  /\ Cardinality(b) \in Nat
                      /\ \A c \in b : Rank(b, c) \in 1..Cardinality(b)
                      /\ \A c, d \in b : Rank(b, c) = Rank(b, d) => c = d
<1>1. IsFiniteSet(b) /\ Cardinality(b) \in Nat
  BY BoxIsFinite, FS_CardinalityType
<1> DEFINE below(c) == {y \in b : y.uid <= c.uid}
<1>2. ASSUME NEW c \in b
      PROVE  /\ IsFiniteSet(below(c)) /\ Cardinality(below(c)) \in Nat
             /\ Cardinality(below(c)) <= Cardinality(b) /\ c \in below(c)
  BY <1>1, FS_Subset, FS_CardinalityType DEF Numbered, IsMail
<1>3. ASSUME NEW c \in b PROVE Cardinality(below(c)) # 0
  BY <1>2, FS_EmptySet
<1>4. ASSUME NEW c \in b, NEW d \in b, c.uid < d.uid PROVE Cardinality(below(c)) # Cardinality(below(d))
  <2>1. below(c) \in SUBSET below(d)
    BY <1>4 DEF Numbered, IsMail
  <2>2. d \in below(d) /\ d \notin below(c)
    BY <1>4 DEF Numbered, IsMail
  <2> QED
    BY <1>2, <2>1, <2>2, FS_Subset
<1>5. \A c \in b : c.uid \in Nat
  BY DEF Numbered, IsMail
<1>6. ASSUME NEW c \in b, NEW d \in b, Cardinality(below(c)) = Cardinality(below(d)) PROVE c = d
  <2>1. ~(c.uid < d.uid) /\ ~(d.uid < c.uid)
    BY <1>4, <1>6
  <2> QED
    BY <1>5, <2>1 DEF Numbered
<1>7. \A c \in b : Rank(b, c) = Cardinality(below(c))
  BY DEF Rank
<1> HIDE DEF below
<1> QED
  BY <1>1, <1>2, <1>3, <1>6, <1>7

-----------------------------------------------------------------------------
(* What sync keeps of it *)

\* The folder was numbered as now when a pass began that is still under way, and has
\* no rows before its first.
FolderInv ==
  /\ folder \in [v : {0, 1, 2}, mod : {folder.mod}]
  /\ folder.v <= server.v
  /\ folder.v = 0 => rows = {}

PassType(p) == [pc : {p.pc}, n : {p.n}, mod : {p.mod}, first : {p.first}, deep : {p.deep},
                start : {p.start}, fetched : {p.fetched}, owed : {p.owed}, gone : {p.gone},
                left : {p.left}]
PassInv ==
  /\ pass \in PassType(pass)
  /\ pass.pc # "connect" => folder.v = server.v

\* While the numbering is the same, a row's UID has been given out, and to its message.
Known(r) == r.uid < server.next /\ \A c \in box : r.uid = c.uid <=> r.m = c.m
RowsInv ==
  /\ \A r \in rows : IsRow(r) /\ r.m <= mail
  /\ folder.v = server.v => \A r \in rows : Known(r)

SyncInv == BoxInv /\ FolderInv /\ PassInv /\ RowsInv

\* Each of T is one of S, with the same UID and message.
OutOf(T, S) == \A x \in T : \E y \in S : x.uid = y.uid /\ x.m = y.m

\* Steps that neither number a message nor keep a new one.
LEMMA Rests ==
  ASSUME SyncInv, BoxInv', PassInv',
         OutOf(box', box), server'.v = server.v, server'.next >= server.next, mail' >= mail,
         UNCHANGED folder, OutOf(rows', rows), \A r \in rows' : IsRow(r)
  PROVE  SyncInv'
<1> USE DEF SyncInv, OutOf
<1>1. FolderInv'
  BY DEF FolderInv
<1>2. ASSUME NEW r \in rows' PROVE r.m <= mail'
  <2>1. PICK q \in rows : r.uid = q.uid /\ r.m = q.m
    OBVIOUS
  <2> QED
    BY <2>1 DEF RowsInv, IsRow, BoxInv
<1>3. ASSUME folder'.v = server'.v, NEW r \in rows' PROVE Known(r)'
  <2>1. PICK q \in rows : r.uid = q.uid /\ r.m = q.m
    OBVIOUS
  <2>2. q.uid \in Nat /\ q.uid < server.next /\ \A c \in box : q.uid = c.uid <=> q.m = c.m
    BY <1>3 DEF RowsInv, Known, IsRow
  <2>3. r.uid < server'.next
    BY <2>1, <2>2 DEF BoxInv
  <2>4. \A c \in box' : r.uid = c.uid <=> r.m = c.m
    BY <2>1, <2>2
  <2> QED
    BY <2>3, <2>4 DEF Known
<1>4. RowsInv'
  BY <1>2, <1>3 DEF RowsInv
<1> QED
  BY <1>1, <1>4

LEMMA Same == ASSUME NEW S PROVE OutOf(S, S)
  BY DEF OutOf

LEMMA Flagged == ASSUME NEW c, IsMail(c), NEW a, NEW b
                 PROVE  LET d == [c EXCEPT !.seen = a, !.mod = b]
                        IN  IsMail(d) /\ d.uid = c.uid /\ d.m = c.m
<1> DEFINE d == [c EXCEPT !.seen = a, !.mod = b]
<1>1. c \in [uid : Nat \ {0}, m : Nat \ {0}, seen : {c.seen}, mod : {c.mod}]
  BY DEF IsMail
<1>2. d.uid = c.uid /\ d.m = c.m /\ d.seen = a /\ d.mod = b
  BY <1>1
<1>3. d \in [uid : Nat \ {0}, m : Nat \ {0}, seen : {a}, mod : {b}]
  BY <1>1
<1>4. d \in [uid : Nat \ {0}, m : Nat \ {0}, seen : {d.seen}, mod : {d.mod}]
  BY <1>2, <1>3
<1> HIDE DEF d
<1>5. IsMail(d)
  BY <1>4 DEF IsMail
<1> QED
  BY <1>2, <1>5 DEF d

\* A STORE changes a flag, and nothing the numbers depend on.
LEMMA Stored == ASSUME BoxInv, NEW u, NEW flag, Store(u, flag), UNCHANGED mail
                PROVE  /\ BoxInv' /\ OutOf(box', box)
                       /\ server'.v = server.v /\ server'.next = server.next
<1> DEFINE hit == {c \in box : c.uid = u /\ c.seen # flag}
           new(c) == [c EXCEPT !.seen = flag, !.mod = server.mod + 1]
<1>1. box' = (box \ hit) \cup {new(c) : c \in hit}
  BY DEF Store
<1>2. ASSUME NEW c \in box PROVE IsMail(new(c)) /\ new(c).uid = c.uid /\ new(c).m = c.m
  <2>1. IsMail(c)
    BY DEF BoxInv, Numbered
  <2> QED
    BY <2>1, Flagged
<1>3. server' = [server EXCEPT !.mod = IF hit = {} THEN server.mod ELSE server.mod + 1]
  BY DEF Store
<1>4. server' \in [v : {1, 2}, next : Nat \ {0}, mod : {server'.mod}, cond : {server'.cond}]
      /\ server'.v = server.v /\ server'.next = server.next
  BY <1>3 DEF BoxInv
<1>5. \A x \in box' : \E c \in box : x = IF c \in hit THEN new(c) ELSE c
  BY <1>1
<1> HIDE DEF hit, new
<1>6. ASSUME NEW x \in box', NEW c \in box, x = IF c \in hit THEN new(c) ELSE c
      PROVE  x.uid = c.uid /\ x.m = c.m /\ IsMail(x)
  <2>1. IsMail(c)
    BY DEF BoxInv, Numbered
  <2> QED
    BY <1>2, <1>6, <2>1
<1>7. Numbered(box', server'.next)
  <2>1. ASSUME NEW x \in box', NEW y \in box'
        PROVE  /\ IsMail(x) /\ x.uid < server'.next
               /\ x.uid = y.uid <=> x.m = y.m
               /\ x.uid = y.uid => x = y
    <3>1. PICK c \in box : x = IF c \in hit THEN new(c) ELSE c
      BY <1>5
    <3>2. PICK d \in box : y = IF d \in hit THEN new(d) ELSE d
      BY <1>5
    <3>3. c.uid < server.next /\ (c.uid = d.uid <=> c.m = d.m) /\ (c.uid = d.uid => c = d)
      BY DEF BoxInv, Numbered
    <3>4. IsMail(x) /\ x.uid = c.uid /\ x.m = c.m /\ y.uid = d.uid /\ y.m = d.m
      BY <1>6, <3>1, <3>2
    <3>5. c = d => x = y
      BY <3>1, <3>2
    <3> QED
      BY <1>4, <3>3, <3>4, <3>5
  <2> QED
    BY <2>1 DEF Numbered
<1>8. OutOf(box', box)
  BY <1>5, <1>6 DEF OutOf
<1>9. \A c \in box' : c.m <= mail'
  BY <1>8 DEF OutOf, BoxInv
<1> QED
  BY <1>4, <1>7, <1>8, <1>9 DEF BoxInv

\* Fewer messages, the same numbers.
LEMMA Fewer == ASSUME BoxInv, box' \subseteq box, UNCHANGED <<server, mail>>
               PROVE  BoxInv' /\ OutOf(box', box)
  BY DEF BoxInv, Numbered, OutOf

LEMMA Cleared == ASSUME NEW v, NEW u, NEW flag, \A r \in rows : IsRow(r)
                 PROVE  /\ OutOf(ClearSeenDirty(v, u, flag), rows)
                        /\ \A r \in ClearSeenDirty(v, u, flag) : IsRow(r)
  BY DEF ClearSeenDirty, OutOf, IsRow

LEMMA Going == ASSUME PassInv, NEW pc, pass.pc # "connect", Goto(pc), UNCHANGED <<folder, server>>
               PROVE  PassInv'
<1>1. pass \in PassType(pass) /\ pass' = [pass EXCEPT !.pc = pc]
  BY DEF PassInv, Goto
<1>2. pass' \in PassType(pass')
  BY <1>1 DEF PassType
<1> QED
  BY <1>2 DEF PassInv

-----------------------------------------------------------------------------
(* The steps *)

\* A row as it was, or brought up to date with a message, is still of its message.
LEMMA Upserted == ASSUME NEW r, IsRow(r), NEW c
                  PROVE  IsRow(UpsertMessage(r, c)) /\ UpsertMessage(r, c).uid = r.uid
                         /\ UpsertMessage(r, c).m = r.m
<1>1. r \in [uid : Nat \ {0}, m : Nat \ {0}, read : {r.read}, dirty : {r.dirty}]
  BY DEF IsRow
<1> DEFINE q == [r EXCEPT !.read = IF r.dirty THEN r.read ELSE c.seen]
<1>2. q.uid = r.uid /\ q.m = r.m
      /\ q \in [uid : Nat \ {0}, m : Nat \ {0}, read : {q.read}, dirty : {q.dirty}]
  BY <1>1
<1>3. UpsertMessage(r, c) = q
  BY DEF UpsertMessage
<1> HIDE DEF q
<1> QED
  BY <1>2, <1>3 DEF IsRow

\* What a pass stores of messages it fetched: rows of them.
LEMMA Fetched == ASSUME SyncInv, NEW S \in SUBSET box
                 PROVE  \A x \in FetchSet(S) : /\ IsRow(x)
                                               /\ \/ \E r \in rows : x.uid = r.uid /\ x.m = r.m
                                                  \/ \E c \in box : x.uid = c.uid /\ x.m = c.m
<1> DEFINE new(c) == [uid |-> c.uid, m |-> c.m, read |-> c.seen, dirty |-> FALSE]
           of(r) == CHOOSE c \in S : c.uid = r.uid
<1>1. \A r \in rows : IsRow(r)
  BY DEF SyncInv, RowsInv
<1>2. ASSUME NEW c \in box PROVE IsRow(new(c)) /\ new(c).uid = c.uid /\ new(c).m = c.m
  BY DEF SyncInv, BoxInv, Numbered, IsMail, IsRow
<1>3. ASSUME NEW r \in rows PROVE /\ IsRow(UpsertMessage(r, of(r)))
                                  /\ UpsertMessage(r, of(r)).uid = r.uid
                                  /\ UpsertMessage(r, of(r)).m = r.m
  BY <1>1, Upserted
<1>4. \A x \in FetchSet(S) : \/ x \in rows
                             \/ \E r \in rows : x = UpsertMessage(r, of(r))
                             \/ \E c \in box : x = new(c)
  BY DEF FetchSet
<1> HIDE DEF new, of
<1> QED
  BY <1>1, <1>2, <1>3, <1>4

\* Steps that keep rows of rows and of messages of the mailbox, while the numbering is known.
LEMMA Keeps ==
  ASSUME SyncInv, folder.v = server.v, PassInv', UNCHANGED <<box, server, mail, folder>>,
         \A x \in rows' : /\ IsRow(x)
                          /\ \/ \E r \in rows : x.uid = r.uid /\ x.m = r.m
                             \/ \E c \in box : x.uid = c.uid /\ x.m = c.m
  PROVE  SyncInv'
<1>1. BoxInv'
  BY DEF SyncInv, BoxInv
<1>2. FolderInv'
  BY DEF SyncInv, FolderInv, BoxInv
<1>3. ASSUME NEW x \in rows' PROVE x.m <= mail /\ x.uid < server.next
                                   /\ \A c \in box : x.uid = c.uid <=> x.m = c.m
  <2>1. CASE \E r \in rows : x.uid = r.uid /\ x.m = r.m
    BY <2>1 DEF SyncInv, RowsInv, Known
  <2>2. CASE \E c \in box : x.uid = c.uid /\ x.m = c.m
    BY <2>2 DEF SyncInv, BoxInv, Numbered
  <2> QED
    BY <1>3, <2>1, <2>2
<1>4. RowsInv'
  BY <1>3 DEF RowsInv, Known
<1> QED
  BY <1>1, <1>2, <1>4 DEF SyncInv

LEMMA SyncInit == Init => SyncInv
<1> SUFFICES ASSUME Init PROVE SyncInv
  OBVIOUS
<1>1. BoxInv
  <2>1. CASE box = {}
    <3>1. mail = 0
      BY <2>1, FS_EmptySet DEF Init
    <3> QED
      BY <2>1, <3>1 DEF Init, BoxInv, Numbered
  <2>2. CASE box = {[uid |-> 1, m |-> 1, seen |-> FALSE, mod |-> 1]}
    <3>1. mail = 1
      BY <2>2, FS_Singleton DEF Init
    <3> QED
      BY <2>2, <3>1 DEF Init, BoxInv, Numbered, IsMail
  <2> QED
    BY <2>1, <2>2 DEF Init
<1>2. FolderInv /\ RowsInv
  BY DEF Init, FolderInv, RowsInv
<1>3. PassInv
  BY DEF Init, NoPass, PassInv, PassType
<1> QED
  BY <1>1, <1>2, <1>3 DEF SyncInv

\* The server, its clients and the user.
LEMMA ElsewhereStep == ASSUME SyncInv, Elsewhere PROVE SyncInv'
<1> USE DEF memory, history
<1>1. CASE Arrive
  <2> DEFINE c == [uid |-> server.next, m |-> mail + 1, seen |-> FALSE, mod |-> server.mod + 1]
  <2>1. box' = box \cup {c} /\ mail' = mail + 1 /\ UNCHANGED <<rows, folder, pass>>
        /\ server' = [server EXCEPT !.next = server.next + 1, !.mod = server.mod + 1]
    BY <1>1 DEF Arrive
  <2>2. server'.v = server.v /\ server'.next = server.next + 1
        /\ server' \in [v : {1, 2}, next : Nat \ {0}, mod : {server'.mod}, cond : {server'.cond}]
    <3>1. server \in [v : {1, 2}, next : Nat \ {0}, mod : {server.mod}, cond : {server.cond}]
      BY DEF SyncInv, BoxInv
    <3>2. server'.v = server.v /\ server'.next = server.next + 1
      BY <2>1, <3>1
    <3>3. server' = [v |-> server.v, next |-> server.next + 1, mod |-> server.mod + 1,
                     cond |-> server.cond]
      BY <2>1, <3>1
    <3>4. server.v \in {1, 2} /\ server.next + 1 \in Nat \ {0}
      BY <3>1
    <3> HIDE DEF c
    <3> QED
      BY <3>2, <3>3, <3>4
  <2>3. server.next \in Nat \ {0} /\ mail \in Nat
    BY DEF SyncInv, BoxInv
  <2>4. IsMail(c) /\ c.uid = server.next /\ c.m = mail + 1
    BY <2>3 DEF IsMail
  <2> HIDE DEF c
  <2>5. \A d \in box : IsMail(d) /\ d.uid < server.next /\ d.m <= mail
    BY DEF SyncInv, BoxInv, Numbered
  <2>6. \A d \in box : d.uid # c.uid /\ d.m # c.m /\ d.uid \in Nat
    BY <2>3, <2>4, <2>5 DEF IsMail
  <2>7. Numbered(box', server'.next)
    BY <2>1, <2>2, <2>3, <2>4, <2>5, <2>6 DEF SyncInv, BoxInv, Numbered
  <2>8. \A d \in box' : d.m <= mail'
    BY <2>1, <2>3, <2>4, <2>5 DEF IsMail
  <2>9. BoxInv'
    BY <2>1, <2>2, <2>3, <2>7, <2>8 DEF BoxInv
  <2>10. FolderInv' /\ PassInv'
    BY <2>1, <2>2 DEF SyncInv, FolderInv, PassInv
  <2>11. \A r \in rows : IsRow(r) /\ r.m <= mail /\ r.m \in Nat /\ r.uid \in Nat
    BY DEF SyncInv, RowsInv, IsRow
  <2>12. \A r \in rows : r.m <= mail' /\ r.m # c.m
    BY <2>1, <2>3, <2>4, <2>11
  <2>13. folder.v = server.v => \A r \in rows : r.uid < server.next /\ \A d \in box : r.uid = d.uid <=> r.m = d.m
    BY DEF SyncInv, RowsInv, Known
  <2>14. folder.v = server.v => \A r \in rows : Known(r)'
    BY <2>1, <2>2, <2>3, <2>4, <2>11, <2>12, <2>13 DEF Known
  <2>15. RowsInv'
    BY <2>1, <2>2, <2>11, <2>12, <2>14 DEF RowsInv
  <2> QED
    BY <2>9, <2>10, <2>15 DEF SyncInv
<1>2. CASE Expunge
  <2>1. box' \subseteq box /\ UNCHANGED <<server, mail, rows, folder, pass>>
    BY <1>2 DEF Expunge
  <2>2. BoxInv' /\ OutOf(box', box) /\ PassInv'
    BY <2>1, Fewer DEF SyncInv, PassInv
  <2>3. OutOf(rows', rows) /\ (\A r \in rows' : IsRow(r)) /\ server'.next >= server.next /\ mail' >= mail
    BY <2>1, Same DEF SyncInv, RowsInv, BoxInv
  <2> QED
    BY <2>1, <2>2, <2>3, Rests
<1>3. CASE FlagElsewhere
  <2>1. PICK c \in box : Store(c.uid, ~c.seen)
    BY <1>3 DEF FlagElsewhere
  <2>2. UNCHANGED <<mail, rows, folder, pass>>
    BY <1>3 DEF FlagElsewhere
  <2>3. BoxInv' /\ OutOf(box', box) /\ server'.v = server.v /\ server'.next = server.next
    BY <2>1, <2>2, Stored DEF SyncInv
  <2>4. PassInv'
    BY <2>2, <2>3 DEF SyncInv, PassInv
  <2>5. OutOf(rows', rows) /\ (\A r \in rows' : IsRow(r)) /\ server'.next >= server.next /\ mail' >= mail
    BY <2>2, <2>3, Same DEF SyncInv, RowsInv, BoxInv
  <2> QED
    BY <2>2, <2>3, <2>4, <2>5, Rests
<1> QED
  BY <1>1, <1>2, <1>3 DEF Elsewhere

\* The user and the commands he causes.
LEMMA MarkReadStep == ASSUME SyncInv, MarkRead PROVE SyncInv'
<1> USE DEF memory
<1>1. PICK r \in rows : rows' = (rows \ {r}) \cup {[r EXCEPT !.read = ~r.read, !.dirty = TRUE]}
  BY DEF MarkRead
<1>2. UNCHANGED <<box, server, mail, folder, pass>>
  BY DEF MarkRead
<1> DEFINE q == [r EXCEPT !.read = ~r.read, !.dirty = TRUE]
<1>3. r \in [uid : Nat \ {0}, m : Nat \ {0}, read : {r.read}, dirty : {r.dirty}]
  BY DEF SyncInv, RowsInv, IsRow
<1>4. q.uid = r.uid /\ q.m = r.m
      /\ q \in [uid : Nat \ {0}, m : Nat \ {0}, read : {q.read}, dirty : {q.dirty}]
  BY <1>3
<1>5. rows' = (rows \ {r}) \cup {q}
  BY <1>1
<1> HIDE DEF q
<1>6. IsRow(q)
  BY <1>4 DEF IsRow
<1>7. OutOf(rows', rows) /\ \A x \in rows' : IsRow(x)
  BY <1>4, <1>5, <1>6 DEF OutOf, SyncInv, RowsInv
<1>8. BoxInv' /\ PassInv' /\ OutOf(box', box) /\ server'.next >= server.next /\ mail' >= mail
  BY <1>2, Same DEF SyncInv, BoxInv, PassInv
<1> QED
  BY <1>2, <1>7, <1>8, Rests

\* A STORE of the worker, which leaves the rows alone.
LEMMA StoreStep == ASSUME SyncInv, NEW u, NEW flag, Store(u, flag), PassInv',
                          UNCHANGED <<mail, rows, folder>>
                   PROVE  SyncInv'
<1>1. BoxInv' /\ OutOf(box', box) /\ server'.v = server.v /\ server'.next = server.next
  BY Stored DEF SyncInv
<1>2. OutOf(rows', rows) /\ (\A r \in rows' : IsRow(r)) /\ server'.next >= server.next /\ mail' >= mail
  BY <1>1, Same DEF SyncInv, RowsInv, BoxInv
<1> QED
  BY <1>1, <1>2, Rests

\* A step that only clears dirty marks, or takes rows away.
LEMMA RowsStep == ASSUME SyncInv, PassInv', UNCHANGED <<box, server, mail, folder>>,
                         OutOf(rows', rows), \A r \in rows' : IsRow(r)
                  PROVE  SyncInv'
<1>1. BoxInv' /\ OutOf(box', box) /\ server'.next >= server.next /\ mail' >= mail
  BY Same DEF SyncInv, BoxInv
<1> QED
  BY <1>1, Rests

LEMMA CommandStep == ASSUME SyncInv, RunRead \/ SettleRead \/ GiveUp PROVE SyncInv'
<1> USE DEF memory, history
<1>1. CASE RunRead
  <2>1. PICK c \in reads : Store(c.uid, c.read)
    BY <1>1 DEF RunRead
  <2>2. UNCHANGED <<mail, rows, folder, pass>>
    BY <1>1 DEF RunRead
  <2>3. server'.v = server.v
    BY <2>1, <2>2, Stored DEF SyncInv
  <2>4. PassInv'
    BY <2>2, <2>3 DEF SyncInv, PassInv
  <2> QED
    BY <2>1, <2>2, <2>4, StoreStep
<1>2. CASE SettleRead
  <2>1. PICK c \in reads : rows' = ClearSeenDirty(c.v, c.uid, c.read)
    BY <1>2 DEF SettleRead
  <2>2. UNCHANGED <<box, server, mail, folder, pass>>
    BY <1>2 DEF SettleRead
  <2>3. OutOf(rows', rows) /\ \A r \in rows' : IsRow(r)
    BY <2>1, Cleared DEF SyncInv, RowsInv
  <2> QED
    BY <2>2, <2>3, RowsStep DEF SyncInv, PassInv
<1>3. CASE GiveUp
  <2>1. UNCHANGED <<box, server, mail, rows, folder, pass>>
    BY <1>3 DEF GiveUp
  <2>2. OutOf(rows', rows) /\ \A r \in rows' : IsRow(r)
    BY <2>1, Same DEF SyncInv, RowsInv
  <2> QED
    BY <2>1, <2>2, RowsStep DEF SyncInv, PassInv
<1> QED
  BY <1>1, <1>2, <1>3

\* A pass with all its fields.
LEMMA AnyPass == ASSUME NEW p, NEW pc, p = NoPass(pc) PROVE p \in PassType(p) /\ p.pc = pc
  BY DEF NoPass, PassType

\* The cycle's start and its pushes.
LEMMA PushStep == ASSUME SyncInv, Begin \/ PushSeen \/ PushedSeen PROVE SyncInv'
<1> USE DEF history
<1>1. CASE Begin
  <2>1. pass' = [NoPass("push") EXCEPT !.owed = DirtySeen] /\ pass.pc = "idle"
        /\ UNCHANGED <<box, server, mail, rows, folder>>
    BY <1>1 DEF Begin, At
  <2>2. pass' \in PassType(pass')
    BY <2>1 DEF NoPass, PassType
  <2>3. PassInv'
    BY <2>1, <2>2 DEF SyncInv, PassInv
  <2>4. OutOf(rows', rows) /\ \A r \in rows' : IsRow(r)
    BY <2>1, Same DEF SyncInv, RowsInv
  <2> QED
    BY <2>1, <2>3, <2>4, RowsStep
<1>2. CASE PushSeen
  <2> DEFINE r == CHOOSE x \in pass.owed : \A y \in pass.owed : x.uid <= y.uid
  <2>1. Store(r.uid, r.read) /\ Goto("pushed") /\ pass.pc = "push" /\ UNCHANGED <<mail, rows, folder>>
    BY <1>2 DEF PushSeen, At
  <2> HIDE DEF r
  <2>2. server'.v = server.v
    BY <2>1, Stored DEF SyncInv
  <2>3. PassInv'
    <3>1. pass \in PassType(pass) /\ pass' = [pass EXCEPT !.pc = "pushed"]
      BY <2>1 DEF Goto, SyncInv, PassInv
    <3>2. pass' \in PassType(pass')
      BY <3>1 DEF PassType
    <3> QED
      BY <2>1, <2>2, <3>2 DEF SyncInv, PassInv
  <2> QED
    BY <2>1, <2>3, StoreStep
<1>3. CASE PushedSeen
  <2> DEFINE r == CHOOSE x \in pass.owed : \A y \in pass.owed : x.uid <= y.uid
  <2>1. rows' = ClearSeenDirty(folder.v, r.uid, r.read) /\ pass.pc = "pushed"
        /\ pass' = [pass EXCEPT !.pc = "push", !.owed = pass.owed \ {r}]
        /\ UNCHANGED <<box, server, mail, folder>>
    BY <1>3 DEF PushedSeen, At
  <2> HIDE DEF r
  <2>2. OutOf(rows', rows) /\ \A x \in rows' : IsRow(x)
    BY <2>1, Cleared DEF SyncInv, RowsInv
  <2>3. PassInv'
    <3>1. pass \in PassType(pass)
      BY DEF SyncInv, PassInv
    <3>2. pass' \in PassType(pass')
      BY <2>1, <3>1 DEF PassType
    <3> QED
      BY <2>1, <3>2 DEF SyncInv, PassInv
  <2> QED
    BY <2>1, <2>2, <2>3, RowsStep
<1> QED
  BY <1>1, <1>2, <1>3

\* The passes proper.
LEMMA SelectStep == ASSUME SyncInv, Select PROVE SyncInv'
<1> USE DEF history
<1> DEFINE reset == folder.v # 0 /\ folder.v # server.v
           kept == SyncUIDValidity(reset)
<1>1. /\ rows' = kept /\ folder' = [v |-> server.v, mod |-> IF reset THEN 0 ELSE folder.mod]
      /\ UNCHANGED <<box, server, mail>>
  BY DEF Select
<1>2. kept = IF reset THEN {} ELSE rows
  BY DEF SyncUIDValidity
<1>3. server.v \in {1, 2} /\ folder'.v = server.v /\ folder' \in [v : {0, 1, 2}, mod : {folder'.mod}]
  BY <1>1 DEF SyncInv, BoxInv
<1>4. BoxInv' /\ FolderInv'
  BY <1>1, <1>3 DEF SyncInv, BoxInv, FolderInv
<1>5. PassInv'
  <2>1. pass' \in PassType(pass')
    BY DEF Select, NoPass, PassType
  <2> QED
    BY <1>1, <1>3, <2>1 DEF PassInv
<1>6. RowsInv'
  <2>1. CASE rows' = {}
    BY <2>1 DEF RowsInv
  <2>2. CASE rows' # {}
    <3>1. rows' = rows /\ ~reset
      BY <1>1, <1>2, <2>2
    <3>2. folder.v = server.v
      BY <2>2, <3>1 DEF SyncInv, FolderInv
    <3> QED
      BY <1>1, <3>1, <3>2 DEF SyncInv, RowsInv, Known
  <2> QED
    BY <2>1, <2>2
<1> QED
  BY <1>4, <1>5, <1>6 DEF SyncInv

LEMMA FetchStep == ASSUME SyncInv, Fetch \/ FetchFlagChanges \/ BackfillWindow PROVE SyncInv'
<1> USE DEF history
<1>0. pass \in PassType(pass) /\ pass.pc # "connect" /\ folder.v = server.v
  BY DEF Fetch, FetchFlagChanges, BackfillWindow, At, SyncInv, PassInv
<1>1. CASE Fetch
  <2> DEFINE S == {c \in box : c.uid >= pass.start \/ \A y \in box : y.uid <= c.uid}
  <2>1. /\ rows' = FetchSet(S) /\ UNCHANGED <<box, server, mail, folder>>
        /\ pass' = [pass EXCEPT !.pc = "yield", !.start = 0,
                                !.fetched = Cardinality(Uids(S) \ Uids(rows))]
    BY <1>1 DEF Fetch
  <2>2. S \in SUBSET box
    OBVIOUS
  <2>3. pass' \in PassType(pass')
    BY <1>0, <2>1 DEF PassType
  <2> HIDE DEF S
  <2>4. PassInv'
    BY <1>0, <2>1, <2>3 DEF PassInv
  <2> QED
    BY <1>0, <2>1, <2>2, <2>4, Fetched, Keeps
<1>2. CASE FetchFlagChanges
  <2>1. rows' = FlagsFromServer /\ Goto(AfterFlags) /\ UNCHANGED <<box, server, mail, folder>>
    BY <1>2 DEF FetchFlagChanges
  <2>2. PassInv'
    BY <1>0, <2>1, Going DEF SyncInv
  <2> DEFINE changed == {c \in box : c.mod > folder.mod}
             of(r) == CHOOSE c \in changed : c.uid = r.uid
  <2>3. \A x \in FlagsFromServer : x \in rows \/ \E r \in rows : x = UpsertMessage(r, of(r))
    BY DEF FlagsFromServer
  <2> HIDE DEF of
  <2>4. \A r \in rows : /\ IsRow(r) /\ IsRow(UpsertMessage(r, of(r)))
                        /\ UpsertMessage(r, of(r)).uid = r.uid /\ UpsertMessage(r, of(r)).m = r.m
    BY Upserted DEF SyncInv, RowsInv
  <2>5. OutOf(rows', rows) /\ \A x \in rows' : IsRow(x)
    BY <2>1, <2>3, <2>4 DEF OutOf
  <2> QED
    BY <2>1, <2>2, <2>5, RowsStep
<1>3. CASE BackfillWindow
  <2> DEFINE seq == {c \in box : Cardinality({y \in box : y.uid <= c.uid}) <= pass.n}
             S == {c \in seq : Cardinality({y \in seq : y.uid > c.uid}) < Window
                               /\ c.uid \notin Uids(rows)}
  <2>1. rows' = FetchSet(S) /\ Goto("heal") /\ UNCHANGED <<box, server, mail, folder>>
    BY <1>3 DEF BackfillWindow
  <2>2. S \in SUBSET box
    OBVIOUS
  <2> HIDE DEF S
  <2>3. PassInv'
    BY <1>0, <2>1, Going DEF SyncInv
  <2> QED
    BY <1>0, <2>1, <2>2, <2>3, Fetched, Keeps
<1> QED
  BY <1>1, <1>2, <1>3

LEMMA ReapStep == ASSUME SyncInv, Reconcile \/ Finish \/ DeepPassDue PROVE SyncInv'
<1> USE DEF history
<1>0. pass \in PassType(pass)
  BY DEF SyncInv, PassInv
<1>1. CASE Reconcile
  <2>1. pass' = [pass EXCEPT !.pc = "reap", !.gone = Uids(rows) \ Uids(box)] /\ pass.pc # "connect"
        /\ UNCHANGED <<box, server, mail, rows, folder>>
    BY <1>1 DEF Reconcile, At
  <2>2. pass' \in PassType(pass')
    BY <1>0, <2>1 DEF PassType
  <2>3. PassInv' /\ OutOf(rows', rows) /\ \A x \in rows' : IsRow(x)
    BY <2>1, <2>2, Same DEF SyncInv, PassInv, RowsInv
  <2> QED
    BY <2>1, <2>3, RowsStep
<1>2. CASE Finish
  <2>1. rows' = {r \in rows : r.uid \notin pass.gone} /\ pass' = NoPass("idle") /\ pass.pc # "connect"
        /\ folder' = [folder EXCEPT !.mod = IF server.cond THEN pass.mod ELSE folder.mod]
        /\ UNCHANGED <<box, server, mail>>
    BY <1>2 DEF Finish, At
  <2>2. folder.v = server.v /\ folder \in [v : {0, 1, 2}, mod : {folder.mod}]
    BY <2>1 DEF SyncInv, PassInv, FolderInv
  <2>3. folder'.v = folder.v /\ folder' \in [v : {0, 1, 2}, mod : {folder'.mod}]
    BY <2>1, <2>2
  <2>4. FolderInv' /\ BoxInv'
    BY <2>1, <2>2, <2>3 DEF SyncInv, FolderInv, BoxInv
  <2>5. PassInv'
    BY <2>1, <2>2, <2>3, AnyPass DEF PassInv
  <2>6. RowsInv'
    BY <2>1, <2>2, <2>3 DEF SyncInv, RowsInv, Known
  <2> QED
    BY <2>4, <2>5, <2>6 DEF SyncInv
<1>3. CASE DeepPassDue
  <2>1. UNCHANGED <<box, server, mail, rows, folder, pass>>
    BY <1>3 DEF DeepPassDue
  <2>2. PassInv' /\ OutOf(rows', rows) /\ \A x \in rows' : IsRow(x)
    BY <2>1, Same DEF SyncInv, PassInv, RowsInv
  <2> QED
    BY <2>1, <2>2, RowsStep
<1> QED
  BY <1>1, <1>2, <1>3

\* What breaks.
LEMMA FaultStep == ASSUME SyncInv, ConnLost \/ Restart \/ Renumber PROVE SyncInv'
<1>1. CASE ConnLost \/ Restart
  <2>1. pass' = NoPass("connect") /\ UNCHANGED <<box, server, mail, rows, folder>>
    BY <1>1 DEF ConnLost, Restart
  <2>2. PassInv'
    BY <2>1, AnyPass DEF PassInv
  <2>3. OutOf(rows', rows) /\ \A x \in rows' : IsRow(x)
    BY <2>1, Same DEF SyncInv, RowsInv
  <2> QED
    BY <2>1, <2>2, <2>3, RowsStep
<1>2. CASE Renumber
  <2> DEFINE new(c) == [c EXCEPT !.uid = Rank(box, c), !.mod = 1]
  <2>1. /\ server.v = 1 /\ box' = {new(c) : c \in box}
        /\ server' = [server EXCEPT !.v = 2, !.next = Cardinality(box) + 1, !.mod = 1]
        /\ pass' = NoPass("connect") /\ UNCHANGED <<mail, rows, folder>>
    BY <1>2 DEF Renumber, Rank
  <2>2. Numbered(box, server.next) /\ server.next \in Nat /\ mail \in Nat
    BY DEF SyncInv, BoxInv
  <2>3. /\ Cardinality(box) \in Nat
        /\ \A c \in box : Rank(box, c) \in 1..Cardinality(box)
        /\ \A c, d \in box : Rank(box, c) = Rank(box, d) => c = d
    BY <2>2, Ranks
  <2>4. ASSUME NEW c \in box PROVE /\ IsMail(new(c)) /\ new(c).uid = Rank(box, c) /\ new(c).m = c.m
                                   /\ c.m <= mail
    <3>1. c \in [uid : Nat \ {0}, m : Nat \ {0}, seen : {c.seen}, mod : {c.mod}] /\ c.m <= mail
      BY <2>2 DEF Numbered, IsMail, SyncInv, BoxInv
    <3>2. Rank(box, c) \in Nat \ {0}
      BY <2>3
    <3>3. new(c).uid = Rank(box, c) /\ new(c).m = c.m
          /\ new(c) \in [uid : Nat \ {0}, m : Nat \ {0}, seen : {new(c).seen}, mod : {new(c).mod}]
      BY <3>1, <3>2
    <3> HIDE DEF new
    <3> QED
      BY <3>1, <3>3 DEF IsMail
  <2>5. server'.v = 2 /\ server'.next = Cardinality(box) + 1
        /\ server' \in [v : {1, 2}, next : Nat \ {0}, mod : {server'.mod}, cond : {server'.cond}]
    <3>1. server \in [v : {1, 2}, next : Nat \ {0}, mod : {server.mod}, cond : {server.cond}]
      BY DEF SyncInv, BoxInv
    <3>2. server' \in [v : {2}, next : {Cardinality(box) + 1}, mod : {1}, cond : {server.cond}]
      BY <2>1, <3>1
    <3>3. server'.v = 2 /\ server'.next = Cardinality(box) + 1 /\ server'.mod = 1
          /\ server'.cond = server.cond
      BY <3>2
    <3>4. Cardinality(box) + 1 \in Nat \ {0}
      BY <2>3
    <3> HIDE DEF new
    <3> QED
      BY <3>2, <3>3, <3>4
  <2>6. \A x \in box' : \E c \in box : x = new(c)
    BY <2>1
  <2>7. \A c, d \in box : c.m = d.m => c = d
    BY <2>2 DEF Numbered
  <2> HIDE DEF new
  <2>8. Numbered(box', server'.next)
    <3>1. ASSUME NEW x \in box', NEW y \in box'
          PROVE  /\ IsMail(x) /\ x.uid < server'.next
                 /\ x.uid = y.uid <=> x.m = y.m
                 /\ x.uid = y.uid => x = y
      <4>1. PICK c \in box : x = new(c)
        BY <2>6
      <4>2. PICK d \in box : y = new(d)
        BY <2>6
      <4> QED
        BY <2>3, <2>4, <2>5, <2>7, <4>1, <4>2
    <3> QED
      BY <3>1 DEF Numbered
  <2>9. BoxInv'
    BY <2>1, <2>2, <2>4, <2>5, <2>6, <2>8 DEF BoxInv
  <2>10. folder.v # 2
    BY <2>1 DEF SyncInv, FolderInv, BoxInv
  <2>11. FolderInv' /\ RowsInv'
    BY <2>1, <2>5, <2>10 DEF SyncInv, FolderInv, RowsInv
  <2>12. PassInv'
    BY <2>1, AnyPass DEF PassInv
  <2> QED
    BY <2>9, <2>11, <2>12 DEF SyncInv
<1> QED
  BY <1>1, <1>2

LEMMA SyncRests == ASSUME SyncInv, UNCHANGED vars PROVE SyncInv'
  BY DEF vars, memory, history, SyncInv, BoxInv, FolderInv, PassInv, RowsInv, Known

LEMMA SyncStep == ASSUME SyncInv, [Next]_vars PROVE SyncInv'
  BY ElsewhereStep, MarkReadStep, CommandStep, PushStep, SelectStep, FetchStep, ReapStep, FaultStep,
     SyncRests DEF Next, Worker, Faults

\* Whatever arrives, is deleted, flagged or renumbered in the middle of a pass, a row never
\* shows one message under the UID of another (syncUIDValidity, UpsertMessage).
THEOREM NeverAnothers == Spec => []RowsAreTheirs
<1>1. SyncInv => RowsAreTheirs
  BY DEF SyncInv, RowsInv, Known, RowsAreTheirs
<1> QED
  BY <1>1, SyncInit, SyncStep, PTL DEF Spec

-----------------------------------------------------------------------------
(* What the user chose *)

IsRead(c) == c \in [uid : {c.uid}, v : {c.v}, read : BOOLEAN, at : {"queued", "landed", "abandoned"},
                    n : {c.n}]

TypedInv ==
  /\ mail \in 0..MaxMail /\ want \in [1..MaxMail -> SUBSET BOOLEAN]
  /\ \A c \in box : c.seen \in BOOLEAN
  /\ \A r \in rows : r.read \in BOOLEAN /\ r.dirty \in BOOLEAN
  /\ \A c \in reads : IsRead(c)

\* A message has one row.
OneRow == \A r, s \in rows : r.uid = s.uid \/ r.m = s.m => r = s

\* What a pass is about to drop is gone from the mailbox for good.
Reaped == \A u \in pass.gone : u \in Nat /\ u < server.next /\ \A c \in box : c.uid # u

\* The flag a cycle pushes next, and the commands the server has not obeyed.
FirstOwed == CHOOSE x \in pass.owed : \A y \in pass.owed : x.uid <= y.uid
Unlanded(u) == \E c \in reads : c.uid = u /\ c.at # "landed"

\* A flag to push was copied when the cycle began, and is the row's until a click, whose
\* command then waits for the pushes to be over.
OwedInv ==
  /\ pass.owed # {} => pass.pc \in {"push", "pushed"}
  /\ pass.pc = "pushed" => pass.owed # {}
  /\ \A o \in pass.owed : o.uid \in Nat /\ o.read \in BOOLEAN
  /\ \A o, p \in pass.owed : o.uid = p.uid => o = p
  /\ \A o \in pass.owed, r \in rows : o.uid = r.uid => o.read = r.read \/ Unlanded(o.uid)

Seen(u, flag) == \A c \in box : c.uid = u => c.seen = flag

\* A choice that counts was made under the present numbering; while its message is in the
\* mailbox it has a row.
ChosenInv ==
  /\ \A m \in 1..MaxMail : want[m] # {} => m <= mail /\ folder.v = server.v
  /\ \A c \in box : want[c.m] # {} => \E r \in rows : r.uid = c.uid

\* The choice is what the row says, and what every command and push still under way will
\* say last.
Agrees(r, b) == r.read = b /\ (r.dirty \/ Seen(r.uid, b))
Commands(r, b) ==
  /\ \A c \in reads : c.uid = r.uid => c.read = b /\ (c.at = "landed" => Seen(r.uid, b))
  /\ \A c, d \in reads : c.uid = r.uid /\ d.uid = r.uid => c = d
Pushes(r, b) ==
  /\ \A o \in pass.owed : o.uid = r.uid =>
       IF o.read = b THEN ~Unlanded(r.uid) ELSE r.dirty /\ Unlanded(r.uid)
  /\ pass.pc = "pushed" /\ FirstOwed.uid = r.uid /\ FirstOwed.read = b => Seen(r.uid, b)
Kept(r, b) == Agrees(r, b) /\ Commands(r, b) /\ Pushes(r, b)
KeptInv == \A r \in rows : \A b \in want[r.m] : Kept(r, b)

\* The flags after a STORE.
LEMMA StoredFlags ==
  ASSUME BoxInv, NEW u, NEW flag, Store(u, flag)
  PROVE  \A x \in box' : \E c \in box : /\ x.uid = c.uid /\ x.m = c.m
                                        /\ x.seen = IF c.uid = u THEN flag ELSE c.seen
<1> DEFINE hit == {c \in box : c.uid = u /\ c.seen # flag}
           new(c) == [c EXCEPT !.seen = flag, !.mod = server.mod + 1]
<1>1. box' = (box \ hit) \cup {new(c) : c \in hit}
  BY DEF Store
<1>2. ASSUME NEW c \in box PROVE new(c).seen = flag /\ new(c).uid = c.uid /\ new(c).m = c.m
  BY DEF BoxInv, Numbered, IsMail
<1>3. \A x \in box' : x \in box \ hit \/ \E c \in hit : x = new(c)
  BY <1>1
<1>4. \A c \in hit : c \in box /\ c.uid = u
  OBVIOUS
<1>5. \A x \in box \ hit : x \in box /\ (x.uid = u => x.seen = flag)
  OBVIOUS
<1> HIDE DEF hit, new
<1>6. ASSUME NEW x \in box'
      PROVE  \E c \in box : /\ x.uid = c.uid /\ x.m = c.m
                            /\ x.seen = IF c.uid = u THEN flag ELSE c.seen
  <2>1. CASE x \in box \ hit
    BY <1>5, <2>1
  <2>2. CASE \E c \in hit : x = new(c)
    BY <1>2, <1>4, <2>2
  <2> QED
    BY <1>3, <2>1, <2>2
<1> QED
  BY <1>6

\* The flag that is pushed next is one of those owed.
LEMMA LeastUid == ASSUME NEW S \in SUBSET Nat, S # {}
                  PROVE  \E x \in S : \A y \in S : x <= y
<1>1. PICK x \in S : \A y \in S : ~(<<y, x>> \in OpToRel(<, Nat))
  BY NatLessThanWellFounded, WFMin
<1>2. \A y \in S : ~(y < x)
  BY <1>1 DEF OpToRel
<1> QED
  BY <1>2

LEMMA FirstIsOwed == ASSUME OwedInv, pass.owed # {}
                     PROVE  FirstOwed \in pass.owed
<1> DEFINE ids == {o.uid : o \in pass.owed}
<1>1. ids \in SUBSET Nat /\ ids # {}
  BY DEF OwedInv
<1>2. PICK u \in ids : \A v \in ids : u <= v
  BY <1>1, LeastUid
<1>3. \E x \in pass.owed : \A y \in pass.owed : x.uid <= y.uid
  BY <1>2
<1> QED
  BY <1>3 DEF FirstOwed

\* A row clicked, and rows cleared, brought up to date or fetched.
LEMMA RowFields ==
  ASSUME SyncInv, NEW r \in rows, NEW a, NEW d
  PROVE  LET q == [r EXCEPT !.read = a, !.dirty = d]
         IN  q.uid = r.uid /\ q.m = r.m /\ q.read = a /\ q.dirty = d
  BY DEF SyncInv, RowsInv, IsRow

CanBeCleared(r, v, u, flag) == folder.v = v /\ r.uid = u /\ r.read = flag
RowCleared(r, v, u, flag) == [r EXCEPT !.dirty = r.dirty /\ ~CanBeCleared(r, v, u, flag)]

LEMMA ClearedRow ==
  ASSUME SyncInv, NEW v, NEW u, NEW flag
  PROVE  \A x \in ClearSeenDirty(v, u, flag) : \E r \in rows :
           /\ x = RowCleared(r, v, u, flag)
           /\ x.uid = r.uid /\ x.m = r.m /\ x.read = r.read
           /\ x.dirty = (r.dirty /\ ~CanBeCleared(r, v, u, flag))
<1> DEFINE g(r) == RowCleared(r, v, u, flag)
           dd(r) == (r.dirty /\ ~CanBeCleared(r, v, u, flag))
<1>1. ASSUME NEW r \in rows
      PROVE  g(r).uid = r.uid /\ g(r).m = r.m /\ g(r).read = r.read /\ g(r).dirty = dd(r)
  BY DEF SyncInv, RowsInv, IsRow, RowCleared
<1>2. \A x \in ClearSeenDirty(v, u, flag) : \E r \in rows : x = g(r)
  BY DEF ClearSeenDirty, RowCleared, CanBeCleared
<1> HIDE DEF g
<1>3. \A x \in ClearSeenDirty(v, u, flag) : \E r \in rows :
        x = g(r) /\ x.uid = r.uid /\ x.m = r.m /\ x.read = r.read /\ x.dirty = dd(r)
  BY <1>1, <1>2
<1> QED
  BY <1>3 DEF g

\* Clearing keeps a row of every one there was.
LEMMA ClearedKeeps ==
  ASSUME SyncInv, NEW v, NEW u, NEW flag, NEW r \in rows
  PROVE  \E x \in ClearSeenDirty(v, u, flag) : x.uid = r.uid
<1>1. RowCleared(r, v, u, flag) \in ClearSeenDirty(v, u, flag)
  BY DEF ClearSeenDirty, RowCleared, CanBeCleared
<1>2. RowCleared(r, v, u, flag).uid = r.uid
  BY DEF SyncInv, RowsInv, IsRow, RowCleared
<1> QED
  BY <1>1, <1>2

\* A row brought up to date.
LEMMA UpsertedRow ==
  ASSUME SyncInv, NEW r \in rows, NEW c
  PROVE  LET q == UpsertMessage(r, c)
         IN  q.uid = r.uid /\ q.m = r.m /\ q.dirty = r.dirty
             /\ q.read = IF r.dirty THEN r.read ELSE c.seen
  BY DEF SyncInv, RowsInv, IsRow, UpsertMessage

\* What a pass stores: rows as they were or brought up to date with their own message,
\* and rows of messages that had none.
OfRow(x, r) ==
  /\ x.uid = r.uid /\ x.m = r.m /\ x.dirty = r.dirty
  /\ x.read = r.read \/ (~r.dirty /\ \E c \in box : c.uid = r.uid /\ x.read = c.seen)
NewRow(x) == \E c \in box : /\ \A r \in rows : r.uid # c.uid
                            /\ x = [uid |-> c.uid, m |-> c.m, read |-> c.seen, dirty |-> FALSE]
Match(S, r) == CHOOSE c \in S : c.uid = r.uid
Renewed(S, r) == IF r.uid \in Uids(S) THEN UpsertMessage(r, Match(S, r)) ELSE r

LEMMA RenewedRow ==
  ASSUME SyncInv, NEW S \in SUBSET box, NEW r \in rows
  PROVE  OfRow(Renewed(S, r), r)
<1>1. CASE r.uid \notin Uids(S)
  BY <1>1 DEF Renewed, OfRow
<1>2. CASE r.uid \in Uids(S)
  <2>1. Match(S, r) \in S /\ Match(S, r).uid = r.uid
    BY <1>2 DEF Match, Uids
  <2>2. Renewed(S, r) = UpsertMessage(r, Match(S, r))
    BY <1>2 DEF Renewed
  <2> DEFINE q == UpsertMessage(r, Match(S, r))
  <2>3. q.uid = r.uid /\ q.m = r.m /\ q.dirty = r.dirty /\ q.read = IF r.dirty THEN r.read ELSE Match(S, r).seen
    BY UpsertedRow
  <2> HIDE DEF q
  <2>4. OfRow(q, r)
    BY <2>1, <2>3 DEF OfRow
  <2> QED
    BY <2>2, <2>4 DEF q
<1> QED
  BY <1>1, <1>2

LEMMA FetchedRow ==
  ASSUME SyncInv, NEW S \in SUBSET box
  PROVE  /\ \A x \in FetchSet(S) : (\E r \in rows : x = Renewed(S, r)) \/ NewRow(x)
         /\ \A r \in rows : Renewed(S, r) \in FetchSet(S)
<1> DEFINE new(c) == [uid |-> c.uid, m |-> c.m, read |-> c.seen, dirty |-> FALSE]
           A == {r \in rows : r.uid \notin Uids(S)}
           B == {UpsertMessage(r, Match(S, r)) : r \in {x \in rows : x.uid \in Uids(S)}}
           C == {new(c) : c \in {x \in S : x.uid \notin Uids(rows)}}
<1>1. FetchSet(S) = A \cup B \cup C
  BY DEF FetchSet, Match
<1>2. \A x \in A : x \in rows /\ x = Renewed(S, x)
  BY DEF Renewed
<1>3. \A x \in B : \E r \in rows : x = Renewed(S, r)
  BY DEF Renewed
<1>4. \A x \in C : NewRow(x)
  BY DEF NewRow, Uids
<1>5. \A r \in rows : Renewed(S, r) \in A \cup B
  BY DEF Renewed
<1> HIDE DEF A, B, C
<1> QED
  BY <1>1, <1>2, <1>3, <1>4, <1>5

LEMMA FlaggedRow ==
  ASSUME SyncInv
  PROVE  \E S \in SUBSET box : /\ \A x \in FlagsFromServer : \E r \in rows : x = Renewed(S, r)
                               /\ \A r \in rows : Renewed(S, r) \in FlagsFromServer
<1> DEFINE changed == {c \in box : c.mod > folder.mod}
           A == {r \in rows : r.uid \notin Uids(changed)}
           B == {UpsertMessage(r, Match(changed, r)) : r \in {x \in rows : x.uid \in Uids(changed)}}
<1>1. CASE ~server.cond \/ pass.first \/ folder.mod = 0
  <2>1. FlagsFromServer = rows
    BY <1>1 DEF FlagsFromServer
  <2>2. \A r \in rows : Renewed({}, r) = r
    BY DEF Renewed, Uids
  <2> QED
    BY <2>1, <2>2
<1>2. CASE ~(~server.cond \/ pass.first \/ folder.mod = 0)
  <2>1. FlagsFromServer = A \cup B
    BY <1>2 DEF FlagsFromServer, Match
  <2>2. changed \in SUBSET box
    OBVIOUS
  <2>3. \A x \in A : x \in rows /\ x = Renewed(changed, x)
    BY DEF Renewed
  <2>4. \A x \in B : \E r \in rows : x = Renewed(changed, r)
    BY DEF Renewed
  <2>5. \A r \in rows : Renewed(changed, r) \in A \cup B
    BY DEF Renewed
  <2> HIDE DEF A, B, changed
  <2> QED
    BY <2>1, <2>2, <2>3, <2>4, <2>5
<1> QED
  BY <1>1, <1>2

-----------------------------------------------------------------------------
(* Types, and one row for each message *)

\* A pass, a fault or a command leaves the boolean flags as they are.
LEMMA TypedRests ==
  ASSUME TypedInv, UNCHANGED <<mail, want>>,
         \A x \in box' : x.seen \in BOOLEAN,
         \A x \in rows' : x.read \in BOOLEAN /\ x.dirty \in BOOLEAN,
         \A c \in reads' : IsRead(c)
  PROVE  TypedInv'
  BY DEF TypedInv, IsRead

LEMMA StoreTyped == ASSUME SyncInv, TypedInv, NEW u, NEW flag \in BOOLEAN, Store(u, flag)
                    PROVE  \A x \in box' : x.seen \in BOOLEAN
<1>1. \A x \in box' : \E c \in box : x.seen = IF c.uid = u THEN flag ELSE c.seen
  BY StoredFlags DEF SyncInv
<1> QED
  BY <1>1 DEF TypedInv

LEMMA ReadAt == ASSUME NEW c, IsRead(c), NEW a \in {"queued", "landed", "abandoned"}
                PROVE  LET d == [c EXCEPT !.at = a]
                       IN  IsRead(d) /\ d.uid = c.uid /\ d.read = c.read /\ d.at = a
<1> DEFINE d == [c EXCEPT !.at = a]
<1>1. d.uid = c.uid /\ d.read = c.read /\ d.at = a /\ d.v = c.v /\ d.n = c.n
      /\ d \in [uid : {c.uid}, v : {c.v}, read : BOOLEAN, at : {"queued", "landed", "abandoned"}, n : {c.n}]
  BY DEF IsRead
<1> HIDE DEF d
<1>2. IsRead(d)
  BY <1>1 DEF IsRead
<1> QED
  BY <1>1, <1>2 DEF d

LEMMA ClearTyped == ASSUME SyncInv, TypedInv, NEW v, NEW u, NEW flag, rows' = ClearSeenDirty(v, u, flag)
                    PROVE  \A x \in rows' : x.read \in BOOLEAN /\ x.dirty \in BOOLEAN
<1>1. \A x \in rows' : \E r \in rows : x.read = r.read /\ x.dirty = (r.dirty /\ ~CanBeCleared(r, v, u, flag))
  BY ClearedRow
<1> QED
  BY <1>1 DEF TypedInv, CanBeCleared

LEMMA RenewTyped == ASSUME SyncInv, TypedInv, NEW S \in SUBSET box,
                           \A x \in rows' : (\E r \in rows : x = Renewed(S, r)) \/ NewRow(x)
                    PROVE  \A x \in rows' : x.read \in BOOLEAN /\ x.dirty \in BOOLEAN
<1>1. \A x \in rows' : (\E r \in rows : OfRow(x, r)) \/ NewRow(x)
  BY RenewedRow
<1>2. ASSUME NEW x \in rows', NEW r \in rows, OfRow(x, r) PROVE x.read \in BOOLEAN /\ x.dirty \in BOOLEAN
  BY <1>2 DEF OfRow, TypedInv
<1>3. ASSUME NEW x \in rows', NewRow(x) PROVE x.read \in BOOLEAN /\ x.dirty \in BOOLEAN
  BY <1>3 DEF NewRow, TypedInv
<1> QED
  BY <1>1, <1>2, <1>3

\* What a pass does to the rows.
LEMMA FetchIsRenewal ==
  ASSUME SyncInv, Fetch \/ BackfillWindow \/ FetchFlagChanges
  PROVE  \E S \in SUBSET box : /\ \A x \in rows' : (\E r \in rows : x = Renewed(S, r)) \/ NewRow(x)
                               /\ \A r \in rows : Renewed(S, r) \in rows'
<1>1. CASE Fetch
  <2> DEFINE S == {c \in box : c.uid >= pass.start \/ \A y \in box : y.uid <= c.uid}
  <2>1. rows' = FetchSet(S) /\ S \in SUBSET box
    BY <1>1 DEF Fetch
  <2> HIDE DEF S
  <2> QED
    BY <2>1, FetchedRow
<1>2. CASE BackfillWindow
  <2> DEFINE seq == {c \in box : Cardinality({y \in box : y.uid <= c.uid}) <= pass.n}
             S == {c \in seq : Cardinality({y \in seq : y.uid > c.uid}) < Window
                               /\ c.uid \notin Uids(rows)}
  <2>1. rows' = FetchSet(S)
    BY <1>2 DEF BackfillWindow
  <2>2. S \in SUBSET box
    OBVIOUS
  <2> HIDE DEF S
  <2> QED
    BY <2>1, <2>2, FetchedRow
<1>3. CASE FetchFlagChanges
  <2>1. rows' = FlagsFromServer
    BY <1>3 DEF FetchFlagChanges
  <2> QED
    BY <2>1, FlaggedRow
<1> QED
  BY <1>1, <1>2, <1>3

LEMMA TypedStep == ASSUME SyncInv, TypedInv, OwedInv, [Next]_vars PROVE TypedInv'
<1> USE DEF memory, history
<1>0. /\ mail \in 0..MaxMail /\ want \in [1..MaxMail -> SUBSET BOOLEAN]
      /\ \A c \in box : c.seen \in BOOLEAN
      /\ \A r \in rows : r.read \in BOOLEAN /\ r.dirty \in BOOLEAN
      /\ \A c \in reads : IsRead(c)
  BY DEF TypedInv
<1>1. CASE Arrive
  <2>1. mail' \in 0..MaxMail
    BY <1>0, <1>1, BoundsAssumption DEF Arrive
  <2> DEFINE c == [uid |-> server.next, m |-> mail', seen |-> FALSE, mod |-> server.mod + 1]
  <2>3. box' = box \cup {c} /\ c.seen = FALSE
    BY <1>1 DEF Arrive
  <2> HIDE DEF c
  <2>2. \A x \in box' : x.seen \in BOOLEAN
    BY <1>0, <2>3
  <2> QED
    BY <1>0, <1>1, <2>1, <2>2 DEF Arrive, TypedInv
<1>2. CASE Expunge
  BY <1>0, <1>2, TypedRests DEF Expunge
<1>3. CASE FlagElsewhere
  <2>1. PICK c \in box : Store(c.uid, ~c.seen) /\ want' = [want EXCEPT ![c.m] = {}]
    BY <1>3 DEF FlagElsewhere
  <2>2. \A x \in box' : x.seen \in BOOLEAN
    BY <1>0, <2>1, StoreTyped
  <2>3. UNCHANGED <<mail, rows, reads>>
    BY <1>3 DEF FlagElsewhere
  <2>4. want' \in [1..MaxMail -> SUBSET BOOLEAN]
    BY <1>0, <2>1
  <2> QED
    BY <1>0, <2>2, <2>3, <2>4 DEF TypedInv
<1>4. CASE MarkRead
  <2>1. PICK r \in rows :
          /\ rows' = (rows \ {r}) \cup {[r EXCEPT !.read = ~r.read, !.dirty = TRUE]}
          /\ reads' = reads \cup {[uid |-> r.uid, v |-> folder.v, read |-> ~r.read, at |-> "queued", n |-> used.toggles]}
          /\ want' = [want EXCEPT ![r.m] = IF folder.v # server.v \/ \E c \in reads : c.uid = r.uid THEN {} ELSE {~r.read}]
          /\ UNCHANGED <<box, mail>>
    BY <1>4 DEF MarkRead
  <2>2. want' \in [1..MaxMail -> SUBSET BOOLEAN]
    BY <1>0, <2>1
  <2> DEFINE q == [r EXCEPT !.read = ~r.read, !.dirty = TRUE]
  <2>3. q.read \in BOOLEAN /\ q.dirty \in BOOLEAN
    BY <1>0, RowFields
  <2> HIDE DEF q
  <2>4. \A x \in rows' : x.read \in BOOLEAN /\ x.dirty \in BOOLEAN
    BY <1>0, <2>1, <2>3 DEF q
  <2> DEFINE d == [uid |-> r.uid, v |-> folder.v, read |-> ~r.read, at |-> "queued", n |-> used.toggles]
  <2>6. IsRead(d)
    BY <1>0 DEF IsRead
  <2>7. reads' = reads \cup {d}
    BY <2>1
  <2> HIDE DEF d
  <2>5. \A c \in reads' : IsRead(c)
    BY <1>0, <2>6, <2>7
  <2> QED
    BY <1>0, <2>1, <2>2, <2>4, <2>5 DEF TypedInv
<1>5. CASE RunRead
  <2>1. PICK c \in reads :
          /\ Store(c.uid, c.read)
          /\ reads' = (reads \ {c}) \cup (IF c.at = "queued" THEN {[c EXCEPT !.at = "landed"]} ELSE {})
          /\ UNCHANGED <<mail, rows, want>>
    BY <1>5 DEF RunRead
  <2>2. \A x \in box' : x.seen \in BOOLEAN
    BY <1>0, <2>1, StoreTyped DEF IsRead
  <2>3. IsRead([c EXCEPT !.at = "landed"])
    BY <1>0, ReadAt
  <2>4. \A d \in reads' : IsRead(d)
    BY <1>0, <2>1, <2>3
  <2> QED
    BY <1>0, <2>1, <2>2, <2>4, TypedRests
<1>6. CASE SettleRead
  <2>1. PICK c \in reads : rows' = ClearSeenDirty(c.v, c.uid, c.read) /\ reads' = reads \ {c}
                           /\ UNCHANGED <<box, mail, want>>
    BY <1>6 DEF SettleRead
  <2> QED
    BY <1>0, <2>1, ClearTyped, TypedRests
<1>7. CASE GiveUp
  <2>1. PICK c \in reads : reads' = (reads \ {c}) \cup {[c EXCEPT !.at = "abandoned"]}
                           /\ UNCHANGED <<box, mail, rows, want>>
    BY <1>7 DEF GiveUp
  <2>2. IsRead([c EXCEPT !.at = "abandoned"])
    BY <1>0, ReadAt
  <2> QED
    BY <1>0, <2>1, <2>2, TypedRests
<1>8. CASE PushSeen
  <2>1. Store(FirstOwed.uid, FirstOwed.read) /\ pass.owed # {} /\ UNCHANGED <<mail, rows, reads, want>>
    BY <1>8 DEF PushSeen, FirstOwed
  <2>2. FirstOwed.read \in BOOLEAN
    BY <2>1, FirstIsOwed DEF OwedInv
  <2>3. \A x \in box' : x.seen \in BOOLEAN
    BY <2>1, <2>2, StoreTyped
  <2> QED
    BY <1>0, <2>1, <2>3, TypedRests
<1>9. CASE PushedSeen
  <2>1. rows' = ClearSeenDirty(folder.v, FirstOwed.uid, FirstOwed.read) /\ UNCHANGED <<box, mail, reads, want>>
    BY <1>9 DEF PushedSeen, FirstOwed
  <2> QED
    BY <1>0, <2>1, ClearTyped, TypedRests
<1>10. CASE Fetch \/ BackfillWindow \/ FetchFlagChanges
  <2>1. UNCHANGED <<box, mail, reads, want>>
    BY <1>10 DEF Fetch, BackfillWindow, FetchFlagChanges
  <2>2. \A x \in rows' : x.read \in BOOLEAN /\ x.dirty \in BOOLEAN
    BY <1>10, FetchIsRenewal, RenewTyped
  <2> QED
    BY <1>0, <2>1, <2>2, TypedRests
<1>11. CASE Begin \/ Reconcile \/ DeepPassDue
  BY <1>0, <1>11, TypedRests DEF Begin, Reconcile, DeepPassDue
<1>12. CASE Finish
  <2>1. rows' \subseteq rows /\ UNCHANGED <<box, mail, reads, want>>
    BY <1>12 DEF Finish
  <2> QED
    BY <1>0, <2>1, TypedRests
<1>13. CASE Select
  <2>1. rows' \subseteq rows /\ UNCHANGED <<box, mail, reads, want>>
    BY <1>13 DEF Select, SyncUIDValidity
  <2> QED
    BY <1>0, <2>1, TypedRests
<1>14. CASE ConnLost
  <2>1. reads' \subseteq reads /\ UNCHANGED <<box, mail, rows, want>>
    BY <1>14 DEF ConnLost
  <2> QED
    BY <1>0, <2>1, TypedRests
<1>15. CASE Restart
  <2>1. reads' = {} /\ UNCHANGED <<box, mail, rows, want>>
    BY <1>15 DEF Restart
  <2> QED
    BY <1>0, <2>1, TypedRests
<1>16. CASE Renumber
  <2>1. /\ box' = {[c EXCEPT !.uid = Rank(box, c), !.mod = 1] : c \in box}
        /\ want' = [m \in 1..MaxMail |-> {}] /\ UNCHANGED <<mail, rows, reads>>
    BY <1>16 DEF Renumber, Rank
  <2>2. ASSUME NEW c \in box PROVE [c EXCEPT !.uid = Rank(box, c), !.mod = 1].seen = c.seen
    BY DEF SyncInv, BoxInv, Numbered, IsMail
  <2>3. \A x \in box' : x.seen \in BOOLEAN
    BY <1>0, <2>1, <2>2
  <2> QED
    BY <1>0, <2>1, <2>3 DEF TypedInv
<1>17. CASE UNCHANGED vars
  BY <1>0, <1>17, TypedRests DEF vars
<1> QED
  BY <1>1, <1>2, <1>3, <1>4, <1>5, <1>6, <1>7, <1>8, <1>9, <1>10, <1>11, <1>12, <1>13, <1>14, <1>15, <1>16,
     <1>17 DEF Next, Elsewhere, Worker, Faults

LEMMA RowIsToggled ==
  ASSUME SyncInv, TypedInv, NEW r \in rows, rows' = (rows \ {r}) \cup {[r EXCEPT !.read = ~r.read, !.dirty = TRUE]}
  PROVE  \A x \in rows' : \/ x \in rows /\ x # r
                          \/ /\ x.uid = r.uid /\ x.m = r.m /\ x.read = ~r.read /\ x.dirty = TRUE
                             /\ x = [r EXCEPT !.read = ~r.read, !.dirty = TRUE]
<1> DEFINE q == [r EXCEPT !.read = ~r.read, !.dirty = TRUE]
<1>1. q.uid = r.uid /\ q.m = r.m /\ q.read = ~r.read /\ q.dirty = TRUE
  BY RowFields
<1>2. rows' = (rows \ {r}) \cup {q}
  OBVIOUS
<1> HIDE DEF q
<1>3. \A x \in rows' : \/ x \in rows /\ x # r
                       \/ /\ x.uid = r.uid /\ x.m = r.m /\ x.read = ~r.read /\ x.dirty = TRUE
                          /\ x = q
  BY <1>1, <1>2
<1> QED
  BY <1>3 DEF q

LEMMA OneRowStep == ASSUME SyncInv, TypedInv, OneRow, [Next]_vars PROVE OneRow'
<1> USE DEF memory, history
<1>1. CASE rows' \subseteq rows
  BY <1>1 DEF OneRow
<1>2. ASSUME Arrive \/ Expunge \/ FlagElsewhere \/ RunRead \/ GiveUp \/ Begin \/ PushSeen \/ Select \/ Reconcile
             \/ Finish \/ DeepPassDue \/ ConnLost \/ Restart \/ Renumber \/ UNCHANGED vars
      PROVE  rows' \subseteq rows
  <2>1. CASE Arrive \/ Expunge \/ FlagElsewhere \/ RunRead \/ GiveUp
    BY <2>1 DEF Arrive, Expunge, FlagElsewhere, RunRead, GiveUp
  <2>2. CASE Begin \/ PushSeen \/ Reconcile \/ DeepPassDue
    BY <2>2 DEF Begin, PushSeen, Reconcile, DeepPassDue
  <2>3. CASE Select \/ Finish
    BY <2>3 DEF Select, SyncUIDValidity, Finish
  <2>4. CASE ConnLost \/ Restart \/ Renumber \/ UNCHANGED vars
    BY <2>4 DEF ConnLost, Restart, Renumber, vars
  <2> QED
    BY <1>2, <2>1, <2>2, <2>3, <2>4
<1>3. CASE MarkRead
  <2>1. PICK r \in rows : rows' = (rows \ {r}) \cup {[r EXCEPT !.read = ~r.read, !.dirty = TRUE]}
    BY <1>3 DEF MarkRead
  <2>2. \A x \in rows' : \/ x \in rows /\ x # r
                         \/ /\ x.uid = r.uid /\ x.m = r.m
                            /\ x = [r EXCEPT !.read = ~r.read, !.dirty = TRUE]
    BY <2>1, RowIsToggled
  <2> DEFINE q == [r EXCEPT !.read = ~r.read, !.dirty = TRUE]
  <2>3. \A x \in rows' : (x \in rows /\ x # r) \/ (x.uid = r.uid /\ x.m = r.m /\ x = q)
    BY <2>2
  <2> HIDE DEF q
  <2> QED
    BY <2>3 DEF OneRow
<1>4. ASSUME NEW v, NEW u, NEW flag, rows' = ClearSeenDirty(v, u, flag) PROVE OneRow'
  <2>1. \A x \in rows' : \E r \in rows : x = RowCleared(r, v, u, flag) /\ x.uid = r.uid /\ x.m = r.m
    BY <1>4, ClearedRow
  <2> QED
    BY <2>1 DEF OneRow
<1>5. CASE Fetch \/ BackfillWindow \/ FetchFlagChanges
  <2>1. PICK S \in SUBSET box : \A x \in rows' : (\E r \in rows : x = Renewed(S, r)) \/ NewRow(x)
    BY <1>5, FetchIsRenewal
  <2>2. folder.v = server.v
    BY <1>5 DEF Fetch, BackfillWindow, FetchFlagChanges, At, SyncInv, PassInv
  <2>3. \A r \in rows : Renewed(S, r).uid = r.uid /\ Renewed(S, r).m = r.m
    BY RenewedRow DEF OfRow
  <2>4. \A r \in rows : \A c \in box : r.uid = c.uid <=> r.m = c.m
    BY <2>2 DEF SyncInv, RowsInv, Known
  <2>5. \A c, d \in box : c.uid = d.uid <=> c.m = d.m
    BY DEF SyncInv, BoxInv, Numbered
  <2>6. \A c, d \in box : c.uid = d.uid => c = d
    BY DEF SyncInv, BoxInv, Numbered
  <2>7. \A x \in rows' : \/ \E r \in rows : x = Renewed(S, r) /\ x.uid = r.uid /\ x.m = r.m
                         \/ \E c \in box : /\ \A r \in rows : r.uid # c.uid
                                           /\ x = [uid |-> c.uid, m |-> c.m, read |-> c.seen, dirty |-> FALSE]
                                           /\ x.uid = c.uid /\ x.m = c.m
    BY <2>1, <2>3 DEF NewRow
  <2>8. ASSUME NEW x \in rows', NEW y \in rows', x.uid = y.uid \/ x.m = y.m PROVE x = y
    <3>1. CASE \E r \in rows : x = Renewed(S, r) /\ x.uid = r.uid /\ x.m = r.m
      <4>1. CASE \E s \in rows : y = Renewed(S, s) /\ y.uid = s.uid /\ y.m = s.m
        BY <2>8, <3>1, <4>1 DEF OneRow
      <4>2. CASE \E c \in box : (\A r \in rows : r.uid # c.uid) /\ y.uid = c.uid /\ y.m = c.m
        BY <2>4, <2>8, <3>1, <4>2
      <4> QED
        BY <2>7, <4>1, <4>2
    <3>2. CASE \E c \in box : /\ \A r \in rows : r.uid # c.uid
                              /\ x = [uid |-> c.uid, m |-> c.m, read |-> c.seen, dirty |-> FALSE]
                              /\ x.uid = c.uid /\ x.m = c.m
      <4>1. CASE \E s \in rows : y = Renewed(S, s) /\ y.uid = s.uid /\ y.m = s.m
        BY <2>4, <2>8, <3>2, <4>1
      <4>2. CASE \E c \in box : /\ y = [uid |-> c.uid, m |-> c.m, read |-> c.seen, dirty |-> FALSE]
                                /\ y.uid = c.uid /\ y.m = c.m
        <5>1. PICK c \in box : /\ x = [uid |-> c.uid, m |-> c.m, read |-> c.seen, dirty |-> FALSE]
                               /\ x.uid = c.uid /\ x.m = c.m
          BY <3>2
        <5>2. PICK d \in box : /\ y = [uid |-> d.uid, m |-> d.m, read |-> d.seen, dirty |-> FALSE]
                               /\ y.uid = d.uid /\ y.m = d.m
          BY <4>2
        <5>3. c.uid = d.uid
          BY <2>5, <2>8, <5>1, <5>2
        <5>4. c = d
          BY <2>6, <5>3
        <5> QED
          BY <5>1, <5>2, <5>4
      <4> QED
        BY <2>7, <4>1, <4>2
    <3> QED
      BY <2>7, <3>1, <3>2
  <2> QED
    BY <2>8 DEF OneRow
<1>6. CASE SettleRead
  BY <1>4, <1>6 DEF SettleRead
<1>7. CASE PushedSeen
  BY <1>4, <1>7 DEF PushedSeen
<1> QED
  BY <1>1, <1>2, <1>3, <1>5, <1>6, <1>7 DEF Next, Elsewhere, Worker, Faults

\* What a pass drops does not come back: an arrival has a UID of its own.
LEMMA ReapedStep == ASSUME SyncInv, Reaped, [Next]_vars PROVE Reaped'
<1> USE DEF memory, history
<1>1. CASE pass'.gone = {}
  BY <1>1 DEF Reaped
<1>2. ASSUME pass'.gone = pass.gone, server'.next = server.next,
             \A x \in box' : \E c \in box : x.uid = c.uid
      PROVE  Reaped'
  BY <1>2 DEF Reaped
<1>3. ASSUME NEW u, NEW flag, Store(u, flag), pass'.gone = pass.gone PROVE Reaped'
  <2>1. \A x \in box' : \E c \in box : x.uid = c.uid
    BY <1>3, StoredFlags DEF SyncInv
  <2>2. server'.next = server.next
    BY <1>3 DEF Store, SyncInv, BoxInv
  <2> QED
    BY <1>2, <1>3, <2>1, <2>2
<1>4. pass \in PassType(pass)
  BY DEF SyncInv, PassInv
<1>5. ASSUME NEW pc PROVE NoPass(pc).gone = {}
  BY DEF NoPass
<1>6. CASE Arrive
  <2> DEFINE c == [uid |-> server.next, m |-> mail', seen |-> FALSE, mod |-> server.mod + 1]
  <2>1. box' = box \cup {c} /\ c.uid = server.next /\ pass' = pass
    BY <1>6 DEF Arrive
  <2>2. server'.next = server.next + 1 /\ server.next \in Nat
    BY <1>6 DEF Arrive, SyncInv, BoxInv
  <2> HIDE DEF c
  <2> QED
    BY <2>1, <2>2 DEF Reaped
<1>7. CASE Expunge
  BY <1>2, <1>7 DEF Expunge
<1>8. CASE FlagElsewhere
  BY <1>3, <1>8 DEF FlagElsewhere
<1>9. CASE RunRead
  BY <1>3, <1>9 DEF RunRead
<1>10. CASE MarkRead \/ SettleRead \/ GiveUp
  <2>1. UNCHANGED <<box, server, pass>>
    BY <1>10 DEF MarkRead, SettleRead, GiveUp
  <2> QED
    BY <1>2, <2>1
<1>11. CASE DeepPassDue \/ UNCHANGED vars
  <2>1. UNCHANGED <<box, server, pass>>
    BY <1>11 DEF DeepPassDue, vars
  <2> QED
    BY <1>2, <2>1
<1>12. CASE Begin
  <2>1. pass'.gone = {}
    BY <1>12 DEF Begin, NoPass
  <2> QED
    BY <1>1, <2>1
<1>13. CASE PushSeen
  <2>1. pass'.gone = pass.gone
    BY <1>4, <1>13 DEF PushSeen, Goto, PassType
  <2> QED
    BY <1>3, <1>13, <2>1 DEF PushSeen
<1>14. CASE PushedSeen
  <2>1. pass'.gone = pass.gone /\ UNCHANGED <<box, server>>
    BY <1>4, <1>14 DEF PushedSeen, PassType
  <2> QED
    BY <1>2, <2>1
<1>15. CASE Select
  <2>1. pass'.gone = {}
    BY <1>15 DEF Select, NoPass
  <2> QED
    BY <1>1, <2>1
<1>16. CASE Fetch \/ FetchFlagChanges \/ BackfillWindow
  <2>1. pass'.gone = pass.gone /\ UNCHANGED <<box, server>>
    BY <1>4, <1>16 DEF Fetch, FetchFlagChanges, BackfillWindow, Goto, PassType
  <2> QED
    BY <1>2, <2>1
<1>17. CASE Reconcile
  <2>1. pass'.gone = Uids(rows) \ Uids(box) /\ UNCHANGED <<box, server>> /\ folder.v = server.v
    BY <1>4, <1>17 DEF Reconcile, PassType, At, SyncInv, PassInv
  <2>2. \A r \in rows : r.uid \in Nat /\ r.uid < server.next
    BY <2>1 DEF SyncInv, RowsInv, IsRow, Known
  <2> QED
    BY <2>1, <2>2 DEF Reaped, Uids
<1>18. CASE Finish \/ ConnLost \/ Restart \/ Renumber
  <2>1. pass' = NoPass("idle") \/ pass' = NoPass("connect")
    BY <1>18 DEF Finish, ConnLost, Restart, Renumber
  <2> QED
    BY <1>1, <1>5, <2>1
<1> QED
  BY <1>6, <1>7, <1>8, <1>9, <1>10, <1>11, <1>12, <1>13, <1>14, <1>15, <1>16, <1>17, <1>18
  DEF Next, Elsewhere, Worker, Faults

-----------------------------------------------------------------------------
(* The flags a cycle pushes *)

LEMMA NothingOwed == ASSUME pass'.owed = {}, pass'.pc # "pushed" PROVE OwedInv'
  BY DEF OwedInv

\* The pass stays, and what commands are under way; rows come from rows.
LEMMA OwedRests ==
  ASSUME OwedInv, UNCHANGED pass, \A u : Unlanded(u) => Unlanded(u)',
         \A x \in rows' : \E r \in rows : x.uid = r.uid /\ (x.read = r.read \/ Unlanded(r.uid)')
  PROVE  OwedInv'
<1>1. ASSUME NEW o \in pass.owed, NEW x \in rows', o.uid = x.uid PROVE o.read = x.read \/ Unlanded(o.uid)'
  <2>1. PICK r \in rows : x.uid = r.uid /\ (x.read = r.read \/ Unlanded(r.uid)')
    OBVIOUS
  <2>2. o.read = r.read \/ Unlanded(o.uid)
    BY <1>1, <2>1 DEF OwedInv
  <2> QED
    BY <1>1, <2>1, <2>2
<1> QED
  BY <1>1 DEF OwedInv

LEMMA OwedStep == ASSUME SyncInv, TypedInv, OneRow, OwedInv, [Next]_vars PROVE OwedInv'
<1> USE DEF memory, history
<1>0. pass \in PassType(pass)
  BY DEF SyncInv, PassInv
<1>1. ASSUME UNCHANGED <<pass, rows, reads>> PROVE OwedInv'
  BY <1>1 DEF OwedInv, Unlanded
<1>2. ASSUME NEW pc, pass' = NoPass(pc), pc # "pushed" PROVE OwedInv'
  <2>1. pass'.owed = {} /\ pass'.pc = pc
    BY <1>2 DEF NoPass
  <2> QED
    BY <1>2, <2>1, NothingOwed
<1>3. CASE Arrive \/ Expunge \/ FlagElsewhere \/ DeepPassDue \/ UNCHANGED vars
  BY <1>1, <1>3 DEF Arrive, Expunge, FlagElsewhere, DeepPassDue, vars
<1>4. CASE MarkRead
  <2>1. PICK r \in rows :
          /\ rows' = (rows \ {r}) \cup {[r EXCEPT !.read = ~r.read, !.dirty = TRUE]}
          /\ reads' = reads \cup {[uid |-> r.uid, v |-> folder.v, read |-> ~r.read, at |-> "queued", n |-> used.toggles]}
    BY <1>4 DEF MarkRead
  <2>2. \A x \in rows' : x \in rows \/ x.uid = r.uid
    BY <2>1, RowIsToggled
  <2> DEFINE d == [uid |-> r.uid, v |-> folder.v, read |-> ~r.read, at |-> "queued", n |-> used.toggles]
  <2>3. d \in reads' /\ d.uid = r.uid /\ d.at = "queued" /\ reads \subseteq reads'
    BY <2>1
  <2> HIDE DEF d
  <2>4. Unlanded(r.uid)' /\ \A u : Unlanded(u) => Unlanded(u)'
    BY <2>3 DEF Unlanded
  <2>5. UNCHANGED pass
    BY <1>4 DEF MarkRead
  <2>6. \A x \in rows' : \E s \in rows : x.uid = s.uid /\ (x.read = s.read \/ Unlanded(s.uid)')
    BY <2>2, <2>4
  <2> QED
    BY <2>4, <2>5, <2>6, OwedRests
<1>5. CASE RunRead
  <2>1. pass' = pass /\ pass.pc \notin {"push", "pushed"}
    BY <1>5 DEF RunRead
  <2> QED
    BY <2>1, NothingOwed DEF OwedInv
<1>6. CASE SettleRead
  <2>1. PICK c \in reads : c.at = "landed" /\ rows' = ClearSeenDirty(c.v, c.uid, c.read) /\ reads' = reads \ {c}
                           /\ UNCHANGED pass
    BY <1>6 DEF SettleRead
  <2>2. \A x \in rows' : \E r \in rows : x.uid = r.uid /\ x.read = r.read
    BY <2>1, ClearedRow
  <2>3. \A u : Unlanded(u) => Unlanded(u)'
    BY <2>1 DEF Unlanded
  <2> QED
    BY <2>1, <2>2, <2>3, OwedRests
<1>7. CASE GiveUp
  <2>1. PICK c \in reads : reads' = (reads \ {c}) \cup {[c EXCEPT !.at = "abandoned"]}
                           /\ UNCHANGED <<rows, pass>>
    BY <1>7 DEF GiveUp
  <2> DEFINE d == [c EXCEPT !.at = "abandoned"]
  <2>2. d.uid = c.uid /\ d.at = "abandoned"
    BY ReadAt DEF TypedInv
  <2>3. reads' = (reads \ {c}) \cup {d}
    BY <2>1
  <2> HIDE DEF d
  <2>4. \A u : Unlanded(u) => Unlanded(u)'
    BY <2>2, <2>3 DEF Unlanded
  <2> QED
    BY <2>1, <2>4, OwedRests
<1>8. CASE Begin
  <2>1. pass'.owed = DirtySeen /\ pass'.pc = "push" /\ UNCHANGED <<rows, reads>>
    BY <1>8 DEF Begin, NoPass
  <2>2. \A o \in DirtySeen : o \in rows /\ o.uid \in Nat /\ o.read \in BOOLEAN
    BY DEF DirtySeen, TypedInv, SyncInv, RowsInv, IsRow
  <2> HIDE DEF DirtySeen
  <2> QED
    BY <2>1, <2>2 DEF OwedInv, OneRow
<1>9. CASE PushSeen
  <2>1. pass' = [pass EXCEPT !.pc = "pushed"] /\ pass.owed # {} /\ UNCHANGED <<rows, reads>>
    BY <1>9 DEF PushSeen, Goto
  <2>2. pass'.owed = pass.owed /\ pass'.pc = "pushed"
    BY <1>0, <2>1 DEF PassType
  <2> QED
    BY <2>1, <2>2 DEF OwedInv, Unlanded
<1>10. CASE PushedSeen
  <2>1. /\ rows' = ClearSeenDirty(folder.v, FirstOwed.uid, FirstOwed.read) /\ UNCHANGED reads
        /\ pass' = [pass EXCEPT !.pc = "push", !.owed = pass.owed \ {FirstOwed}]
    BY <1>10 DEF PushedSeen, FirstOwed
  <2>2. pass'.owed \subseteq pass.owed /\ pass'.pc = "push"
    BY <1>0, <2>1 DEF PassType
  <2>3. \A x \in rows' : \E r \in rows : x.uid = r.uid /\ x.read = r.read
    BY <2>1, ClearedRow
  <2>4. \A o \in pass.owed, x \in rows' : o.uid = x.uid => o.read = x.read \/ Unlanded(o.uid)'
    BY <2>1, <2>3 DEF OwedInv, Unlanded
  <2> QED
    BY <2>2, <2>4 DEF OwedInv
<1>11. CASE Select
  <2>1. pass'.owed = {} /\ pass'.pc = "fetch"
    BY <1>11 DEF Select, NoPass
  <2> QED
    BY <2>1, NothingOwed
<1>12. CASE Fetch
  <2>1. pass'.owed = pass.owed /\ pass'.pc = "yield" /\ pass.pc = "fetch"
    BY <1>0, <1>12 DEF Fetch, At, PassType
  <2> QED
    BY <2>1, NothingOwed DEF OwedInv
<1>13. CASE FetchFlagChanges
  <2>1. AfterFlags \in {"backfill", "reconcile", "finish"}
    BY DEF AfterFlags
  <2>2. pass'.owed = pass.owed /\ pass'.pc = AfterFlags /\ pass.pc = "yield"
    BY <1>0, <1>13 DEF FetchFlagChanges, Goto, At, PassType
  <2> QED
    BY <2>1, <2>2, NothingOwed DEF OwedInv
<1>14. CASE BackfillWindow
  <2>1. pass'.owed = pass.owed /\ pass'.pc = "heal" /\ pass.pc = "backfill"
    BY <1>0, <1>14 DEF BackfillWindow, Goto, At, PassType
  <2> QED
    BY <2>1, NothingOwed DEF OwedInv
<1>15. CASE Reconcile
  <2>1. pass'.owed = pass.owed /\ pass'.pc = "reap" /\ pass.pc \in {"heal", "reconcile"}
    BY <1>0, <1>15 DEF Reconcile, At, PassType
  <2> QED
    BY <2>1, NothingOwed DEF OwedInv
<1>16. CASE Finish \/ ConnLost \/ Restart \/ Renumber
  <2>1. pass' = NoPass("idle") \/ pass' = NoPass("connect")
    BY <1>16 DEF Finish, ConnLost, Restart, Renumber
  <2> QED
    BY <1>2, <2>1
<1> QED
  BY <1>3, <1>4, <1>5, <1>6, <1>7, <1>8, <1>9, <1>10, <1>11, <1>12, <1>13, <1>14, <1>15, <1>16
  DEF Next, Elsewhere, Worker, Faults

-----------------------------------------------------------------------------
(* Choices have rows *)

LEMMA Numbers == ASSUME SyncInv, TypedInv
                 PROVE  /\ \A c \in box : c.m \in 1..MaxMail /\ c.m <= mail
                        /\ \A r \in rows : r.m \in 1..MaxMail /\ r.m <= mail
  BY BoundsAssumption DEF SyncInv, TypedInv, BoxInv, RowsInv, Numbered, IsMail, IsRow

LEMMA ChosenRests ==
  ASSUME SyncInv, TypedInv, ChosenInv, UNCHANGED want, mail' \in Nat, mail' >= mail,
         folder.v = server.v => folder'.v = server'.v,
         \A x \in box' : want[x.m] # {} => \E c \in box : x.uid = c.uid /\ x.m = c.m,
         \A r \in rows : (\E c \in box' : c.uid = r.uid /\ want[c.m] # {}) => \E x \in rows' : x.uid = r.uid
  PROVE  ChosenInv'
<1>1. \A m \in 1..MaxMail : want'[m] # {} => m <= mail' /\ folder'.v = server'.v
  BY DEF ChosenInv, SyncInv, BoxInv
<1>2. ASSUME NEW x \in box', want'[x.m] # {} PROVE \E r \in rows' : r.uid = x.uid
  <2>1. PICK c \in box : x.uid = c.uid /\ x.m = c.m
    BY <1>2
  <2>2. PICK r \in rows : r.uid = c.uid
    BY <1>2, <2>1 DEF ChosenInv
  <2> QED
    BY <1>2, <2>1, <2>2
<1> QED
  BY <1>1, <1>2 DEF ChosenInv

LEMMA ChosenStep == ASSUME SyncInv, TypedInv, OneRow, Reaped, ChosenInv, [Next]_vars PROVE ChosenInv'
<1> USE DEF memory, history
<1>0. mail \in Nat
  BY DEF SyncInv, BoxInv
<1>1. ASSUME UNCHANGED <<want, mail, folder, box, server>>, \A r \in rows : \E x \in rows' : x.uid = r.uid
      PROVE  ChosenInv'
  BY <1>0, <1>1, ChosenRests
<1>2. ASSUME NEW u, NEW flag, Store(u, flag), UNCHANGED <<want, mail, folder, rows>> PROVE ChosenInv'
  <2>1. \A x \in box' : \E c \in box : x.uid = c.uid /\ x.m = c.m
    BY <1>2, StoredFlags DEF SyncInv
  <2>2. server'.v = server.v
    BY <1>2 DEF Store, SyncInv, BoxInv
  <2> QED
    BY <1>0, <1>2, <2>1, <2>2, ChosenRests
<1>3. CASE Arrive
  <2> DEFINE c == [uid |-> server.next, m |-> mail', seen |-> FALSE, mod |-> server.mod + 1]
  <2>1. box' = box \cup {c} /\ c.m = mail + 1 /\ mail' = mail + 1 /\ mail < MaxMail
        /\ UNCHANGED <<rows, folder, want>> /\ server'.v = server.v
    BY <1>3 DEF Arrive, SyncInv, BoxInv
  <2> HIDE DEF c
  <2>2. c.m \in 1..MaxMail /\ ~(c.m <= mail)
    BY <1>0, <2>1, BoundsAssumption
  <2>3. want[c.m] = {}
    BY <2>2 DEF ChosenInv
  <2>4. \A x \in box' : want[x.m] # {} => \E d \in box : x.uid = d.uid /\ x.m = d.m
    BY <2>1, <2>3
  <2> QED
    BY <1>0, <2>1, <2>4, ChosenRests
<1>4. CASE Expunge
  <2>1. box' \subseteq box /\ UNCHANGED <<want, mail, folder, server, rows>>
    BY <1>4 DEF Expunge
  <2> QED
    BY <1>0, <2>1, ChosenRests
<1>5. CASE FlagElsewhere
  <2>1. PICK c \in box : Store(c.uid, ~c.seen) /\ want' = [want EXCEPT ![c.m] = {}]
                         /\ UNCHANGED <<mail, rows, folder>>
    BY <1>5 DEF FlagElsewhere
  <2>2. \A x \in box' : \E d \in box : x.uid = d.uid /\ x.m = d.m
    BY <2>1, StoredFlags DEF SyncInv
  <2>3. server'.v = server.v
    BY <2>1 DEF Store, SyncInv, BoxInv
  <2>4. \A m \in 1..MaxMail : want'[m] # {} => want[m] # {}
    BY <2>1 DEF TypedInv
  <2>5. \A d \in box : d.m \in 1..MaxMail
    BY Numbers
  <2>6. \A m \in 1..MaxMail : want'[m] # {} => m <= mail' /\ folder'.v = server'.v
    BY <2>1, <2>3, <2>4 DEF ChosenInv
  <2>7. \A x \in box' : want'[x.m] # {} => \E r \in rows' : r.uid = x.uid
    BY <2>1, <2>2, <2>4, <2>5 DEF ChosenInv
  <2> QED
    BY <2>6, <2>7 DEF ChosenInv
<1>6. CASE MarkRead
  <2>1. PICK r \in rows :
          /\ rows' = (rows \ {r}) \cup {[r EXCEPT !.read = ~r.read, !.dirty = TRUE]}
          /\ want' = [want EXCEPT ![r.m] = IF folder.v # server.v \/ \E c \in reads : c.uid = r.uid THEN {} ELSE {~r.read}]
          /\ UNCHANGED <<box, mail, server, folder>>
    BY <1>6 DEF MarkRead
  <2>2. [r EXCEPT !.read = ~r.read, !.dirty = TRUE].uid = r.uid
    BY RowFields
  <2>3. \A s \in rows : \E x \in rows' : x.uid = s.uid
    BY <2>1, <2>2
  <2>4. \A m \in 1..MaxMail : want'[m] # {} => want[m] # {} \/ (m = r.m /\ folder.v = server.v)
    BY <2>1 DEF TypedInv
  <2>5. r.m <= mail
    BY Numbers
  <2>6. \A m \in 1..MaxMail : want'[m] # {} => m <= mail' /\ folder'.v = server'.v
    BY <2>1, <2>4, <2>5 DEF ChosenInv
  <2>7. ASSUME NEW c \in box, want'[c.m] # {} PROVE \E x \in rows' : x.uid = c.uid
    <3>1. CASE want[c.m] # {}
      BY <2>3, <3>1 DEF ChosenInv
    <3>2. CASE c.m = r.m /\ folder.v = server.v
      <4>1. r.uid = c.uid
        BY <3>2 DEF SyncInv, RowsInv, Known
      <4> QED
        BY <2>3, <4>1
    <3> QED
      BY <2>4, <2>7, <3>1, <3>2, Numbers
  <2> QED
    BY <2>1, <2>6, <2>7 DEF ChosenInv
<1>7. CASE RunRead
  BY <1>2, <1>7 DEF RunRead
<1>8. CASE PushSeen
  BY <1>2, <1>8 DEF PushSeen
<1>9. CASE SettleRead \/ PushedSeen
  <2>1. PICK v, u, flag : rows' = ClearSeenDirty(v, u, flag)
    BY <1>9 DEF SettleRead, PushedSeen
  <2>2. UNCHANGED <<want, mail, folder, box, server>>
    BY <1>9 DEF SettleRead, PushedSeen
  <2> QED
    BY <1>1, <2>1, <2>2, ClearedKeeps
<1>10. CASE GiveUp \/ Begin \/ Reconcile \/ DeepPassDue \/ UNCHANGED vars
  BY <1>1, <1>10 DEF GiveUp, Begin, Reconcile, DeepPassDue, vars
<1>11. CASE ConnLost \/ Restart
  BY <1>1, <1>11 DEF ConnLost, Restart
<1>12. CASE Fetch \/ BackfillWindow \/ FetchFlagChanges
  <2>1. UNCHANGED <<want, mail, folder, box, server>>
    BY <1>12 DEF Fetch, BackfillWindow, FetchFlagChanges
  <2>2. \A r \in rows : \E x \in rows' : x.uid = r.uid
    BY <1>12, FetchIsRenewal, RenewedRow DEF OfRow
  <2> QED
    BY <1>1, <2>1, <2>2
<1>13. CASE Finish
  <2>1. rows' = {r \in rows : r.uid \notin pass.gone} /\ UNCHANGED <<want, mail, box, server>>
        /\ folder' = [folder EXCEPT !.mod = IF server.cond THEN pass.mod ELSE folder.mod]
    BY <1>13 DEF Finish
  <2>2. folder'.v = folder.v
    BY <2>1 DEF SyncInv, FolderInv
  <2>3. ASSUME NEW r \in rows, NEW c \in box, c.uid = r.uid PROVE \E x \in rows' : x.uid = r.uid
    BY <2>1, <2>3 DEF Reaped
  <2> QED
    BY <1>0, <2>1, <2>2, <2>3, ChosenRests
<1>14. CASE Select
  <2> DEFINE reset == folder.v # 0 /\ folder.v # server.v
  <2>1. UNCHANGED <<want, mail, box, server>> /\ folder'.v = server.v
    BY <1>14 DEF Select
  <2>2. rows' = IF reset THEN {} ELSE rows
    BY <1>14 DEF Select, SyncUIDValidity
  <2>3. ASSUME NEW r \in rows, NEW c \in box, want[c.m] # {} PROVE rows' = rows
    <3>1. folder.v = server.v
      BY <2>3, Numbers DEF ChosenInv
    <3> QED
      BY <2>2, <3>1
  <2> HIDE DEF reset
  <2>4. \A r \in rows : (\E c \in box' : c.uid = r.uid /\ want[c.m] # {}) => \E x \in rows' : x.uid = r.uid
    BY <2>1, <2>3
  <2> QED
    BY <1>0, <2>1, <2>4, ChosenRests
<1>15. CASE Renumber
  <2>1. want' = [m \in 1..MaxMail |-> {}] /\ mail' = mail
        /\ box' = {[c EXCEPT !.uid = Rank(box, c), !.mod = 1] : c \in box}
    BY <1>15 DEF Renumber, Rank
  <2>2. \A c \in box : [c EXCEPT !.uid = Rank(box, c), !.mod = 1].m = c.m
    BY DEF SyncInv, BoxInv, Numbered, IsMail
  <2>3. \A x \in box' : x.m \in 1..MaxMail
    BY <2>1, <2>2, Numbers
  <2> QED
    BY <2>1, <2>3 DEF ChosenInv
<1> QED
  BY <1>3, <1>4, <1>5, <1>6, <1>7, <1>8, <1>9, <1>10, <1>11, <1>12, <1>13, <1>14, <1>15
  DEF Next, Elsewhere, Worker, Faults

-----------------------------------------------------------------------------
(* The choice is kept *)

Base == SyncInv /\ TypedInv /\ OneRow /\ Reaped /\ OwedInv /\ ChosenInv

LEMMA StoreSeen ==
  ASSUME BoxInv, NEW u, NEW flag, Store(u, flag), NEW v, NEW b,
         v = u \/ Seen(v, b), v = u => flag = b
  PROVE  Seen(v, b)'
<1>1. \A x \in box' : \E c \in box : x.uid = c.uid /\ x.seen = IF c.uid = u THEN flag ELSE c.seen
  BY StoredFlags
<1> QED
  BY <1>1 DEF Seen

\* A choice that counts is about the message its row's UID names.
LEMMA ChosenIsKnown == ASSUME Base, NEW r \in rows, want[r.m] # {}
                       PROVE  folder.v = server.v /\ Known(r)
  BY Numbers DEF Base, ChosenInv, SyncInv, RowsInv

\* Neither commands nor the pass move, and the message keeps its flag.
LEMMA KeptRests ==
  ASSUME NEW r, NEW x, NEW b, Kept(r, b), UNCHANGED <<reads, pass>>,
         x.uid = r.uid, x.read = r.read, x.dirty = r.dirty, Seen(r.uid, b) => Seen(r.uid, b)'
  PROVE  Kept(x, b)'
  BY DEF Kept, Agrees, Commands, Pushes, Unlanded, FirstOwed

\* Nothing is being pushed, and commands only go.
LEMMA KeptAtRest ==
  ASSUME NEW r, NEW x, NEW b, Kept(r, b), reads' \subseteq reads, pass'.owed = {}, pass'.pc # "pushed",
         x.uid = r.uid, x.read = r.read, x.dirty = r.dirty, Seen(r.uid, b) => Seen(r.uid, b)'
  PROVE  Kept(x, b)'
  BY DEF Kept, Agrees, Commands, Pushes

\* The mailbox and its other clients.
LEMMA KeptElsewhere == ASSUME Base, KeptInv, Elsewhere PROVE KeptInv'
<1> USE DEF memory, history
<1> SUFFICES ASSUME NEW x \in rows', NEW b \in want'[x.m] PROVE Kept(x, b)'
  BY DEF KeptInv
<1>0. UNCHANGED <<rows, reads, pass>>
  BY DEF Elsewhere, Arrive, Expunge, FlagElsewhere
<1>1. x \in rows /\ x.m \in 1..MaxMail
  BY <1>0, Numbers DEF Base
<1>2. ASSUME b \in want[x.m], Seen(x.uid, b) => Seen(x.uid, b)' PROVE Kept(x, b)'
  BY <1>0, <1>1, <1>2, KeptRests DEF KeptInv
<1>3. CASE Arrive
  <2> DEFINE c == [uid |-> server.next, m |-> mail', seen |-> FALSE, mod |-> server.mod + 1]
  <2>1. box' = box \cup {c} /\ c.uid = server.next /\ UNCHANGED want
    BY <1>3 DEF Arrive
  <2> HIDE DEF c
  <2>2. x.uid < server.next /\ x.uid \in Nat /\ server.next \in Nat
    BY <1>1, <2>1, ChosenIsKnown DEF Base, SyncInv, RowsInv, BoxInv, IsRow, Known
  <2> QED
    BY <1>2, <2>1, <2>2 DEF Seen
<1>4. CASE Expunge
  BY <1>2, <1>4 DEF Expunge, Seen
<1>5. CASE FlagElsewhere
  <2>1. PICK c \in box : Store(c.uid, ~c.seen) /\ want' = [want EXCEPT ![c.m] = {}]
    BY <1>5 DEF FlagElsewhere
  <2>2. x.m # c.m /\ b \in want[x.m]
    BY <1>1, <2>1 DEF Base, TypedInv
  <2>3. x.uid # c.uid
    BY <1>1, <2>2, ChosenIsKnown DEF Known
  <2>4. Seen(x.uid, b) => Seen(x.uid, b)'
    BY <2>1, <2>3, StoreSeen DEF Base, SyncInv
  <2> QED
    BY <1>2, <2>2, <2>4
<1> QED
  BY <1>3, <1>4, <1>5 DEF Elsewhere

\* A click: the choice is the row's, and its only command waits.
LEMMA KeptMarked == ASSUME Base, KeptInv, MarkRead PROVE KeptInv'
<1> USE DEF memory
<1> SUFFICES ASSUME NEW x \in rows', NEW b \in want'[x.m] PROVE Kept(x, b)'
  BY DEF KeptInv
<1>1. PICK r \in rows :
        /\ rows' = (rows \ {r}) \cup {[r EXCEPT !.read = ~r.read, !.dirty = TRUE]}
        /\ reads' = reads \cup {[uid |-> r.uid, v |-> folder.v, read |-> ~r.read, at |-> "queued", n |-> used.toggles]}
        /\ want' = [want EXCEPT ![r.m] = IF folder.v # server.v \/ \E c \in reads : c.uid = r.uid THEN {} ELSE {~r.read}]
        /\ UNCHANGED <<box, pass>>
  BY DEF MarkRead
<1> DEFINE d == [uid |-> r.uid, v |-> folder.v, read |-> ~r.read, at |-> "queued", n |-> used.toggles]
<1>2. reads' = reads \cup {d} /\ d.uid = r.uid /\ d.read = ~r.read /\ d.at = "queued"
  BY <1>1
<1> HIDE DEF d
<1>3. \/ x \in rows /\ x # r
      \/ x.uid = r.uid /\ x.m = r.m /\ x.read = ~r.read /\ x.dirty = TRUE
  BY <1>1, RowIsToggled DEF Base
<1>4. r.m \in 1..MaxMail /\ (x \in rows => x.m \in 1..MaxMail)
  BY Numbers DEF Base
<1>5. CASE x \in rows /\ x # r
  <2>1. x.uid # r.uid /\ x.m # r.m
    BY <1>5 DEF Base, OneRow
  <2>2. b \in want[x.m]
    BY <1>1, <1>4, <1>5, <2>1 DEF Base, TypedInv
  <2>3. Kept(x, b)
    BY <1>5, <2>2 DEF KeptInv
  <2>4. Unlanded(x.uid)' <=> Unlanded(x.uid)
    BY <1>2, <2>1 DEF Unlanded
  <2>5. Commands(x, b)'
    BY <1>1, <1>2, <2>1, <2>3 DEF Kept, Commands, Seen
  <2>6. Agrees(x, b)'
    BY <1>1, <2>3 DEF Kept, Agrees, Seen
  <2>7. Pushes(x, b)'
    BY <1>1, <2>3, <2>4 DEF Kept, Pushes, FirstOwed, Seen
  <2> QED
    BY <2>5, <2>6, <2>7 DEF Kept
<1>6. CASE x.uid = r.uid /\ x.m = r.m /\ x.read = ~r.read /\ x.dirty = TRUE
  <2>1. b = ~r.read /\ \A c \in reads : c.uid # r.uid
    BY <1>1, <1>4, <1>6 DEF Base, TypedInv
  <2>2. Agrees(x, b)'
    BY <1>6, <2>1 DEF Agrees
  <2>3. Commands(x, b)'
    BY <1>2, <1>6, <2>1 DEF Commands
  <2>4. Unlanded(x.uid)' /\ ~Unlanded(x.uid)
    BY <1>2, <1>6, <2>1 DEF Unlanded
  <2>5. \A o \in pass.owed : o.uid = x.uid => o.read # b
    BY <1>6, <2>1, <2>4 DEF Base, OwedInv, TypedInv
  <2>6. pass.pc = "pushed" /\ FirstOwed.uid = x.uid => FirstOwed.read # b
    BY <2>5, FirstIsOwed DEF Base, OwedInv
  <2>7. FirstOwed' = FirstOwed
    BY <1>1 DEF FirstOwed
  <2>8. Pushes(x, b)'
    BY <1>1, <1>6, <2>4, <2>5, <2>6, <2>7 DEF Pushes
  <2> QED
    BY <2>2, <2>3, <2>8 DEF Kept
<1> QED
  BY <1>3, <1>5, <1>6

\* A command the server obeys says what the row says.
LEMMA KeptRun == ASSUME Base, KeptInv, RunRead PROVE KeptInv'
<1> USE DEF memory, history
<1> SUFFICES ASSUME NEW x \in rows', NEW b \in want'[x.m] PROVE Kept(x, b)'
  BY DEF KeptInv
<1>1. PICK c \in reads :
        /\ Store(c.uid, c.read)
        /\ reads' = (reads \ {c}) \cup (IF c.at = "queued" THEN {[c EXCEPT !.at = "landed"]} ELSE {})
        /\ UNCHANGED <<rows, pass, want>> /\ pass.pc \notin {"push", "pushed"}
  BY DEF RunRead
<1> DEFINE d == [c EXCEPT !.at = "landed"]
<1>2. d.uid = c.uid /\ d.read = c.read /\ d.at = "landed"
  BY ReadAt DEF Base, TypedInv
<1>3. \A e \in reads' : (e \in reads /\ e # c) \/ e = d
  BY <1>1
<1> HIDE DEF d
<1>4. Kept(x, b)
  BY <1>1 DEF KeptInv
<1>5. Seen(x.uid, b) => Seen(x.uid, b)'
  BY <1>1, <1>4, StoreSeen DEF Base, SyncInv, Kept, Commands
<1>6. c.uid = x.uid => Seen(x.uid, b)' /\ c.read = b
  BY <1>1, <1>4, StoreSeen DEF Base, SyncInv, Kept, Commands
<1>7. Agrees(x, b)'
  BY <1>4, <1>5 DEF Kept, Agrees
<1>8. Commands(x, b)'
  BY <1>2, <1>3, <1>4, <1>5, <1>6 DEF Kept, Commands
<1>9. Pushes(x, b)'
  BY <1>1 DEF Base, OwedInv, Pushes
<1> QED
  BY <1>7, <1>8, <1>9 DEF Kept

\* A command whose mark is cleared has brought the choice to the server.
LEMMA KeptSettled == ASSUME Base, KeptInv, SettleRead PROVE KeptInv'
<1> USE DEF memory, history
<1> SUFFICES ASSUME NEW x \in rows', NEW b \in want'[x.m] PROVE Kept(x, b)'
  BY DEF KeptInv
<1>1. PICK c \in reads :
        /\ c.at = "landed" /\ reads' = reads \ {c} /\ rows' = ClearSeenDirty(c.v, c.uid, c.read)
        /\ UNCHANGED <<box, pass, want>>
  BY DEF SettleRead
<1>2. PICK r \in rows : /\ x.uid = r.uid /\ x.m = r.m /\ x.read = r.read
                        /\ x.dirty = (r.dirty /\ ~CanBeCleared(r, c.v, c.uid, c.read))
  BY <1>1, ClearedRow DEF Base
<1>3. Kept(r, b)
  BY <1>1, <1>2 DEF KeptInv
<1>4. Unlanded(r.uid)' <=> Unlanded(r.uid)
  BY <1>1 DEF Unlanded
<1>5. r.uid = c.uid => Seen(r.uid, b) /\ ~Unlanded(r.uid)
  BY <1>1, <1>3 DEF Kept, Commands, Unlanded
<1>6. x.dirty = r.dirty \/ r.uid = c.uid
  BY <1>2 DEF CanBeCleared, Base, TypedInv
<1>7. Agrees(x, b)'
  BY <1>1, <1>2, <1>3, <1>5, <1>6 DEF Kept, Agrees, Seen
<1>8. Commands(x, b)'
  BY <1>1, <1>2, <1>3 DEF Kept, Commands, Seen
<1>9. Pushes(x, b)'
  BY <1>1, <1>2, <1>3, <1>4, <1>5, <1>6 DEF Kept, Pushes, FirstOwed, Seen
<1> QED
  BY <1>7, <1>8, <1>9 DEF Kept

LEMMA KeptGivenUp == ASSUME Base, KeptInv, GiveUp PROVE KeptInv'
<1> USE DEF memory, history
<1> SUFFICES ASSUME NEW x \in rows', NEW b \in want'[x.m] PROVE Kept(x, b)'
  BY DEF KeptInv
<1>1. PICK c \in reads :
        /\ c.at = "queued" /\ reads' = (reads \ {c}) \cup {[c EXCEPT !.at = "abandoned"]}
        /\ UNCHANGED <<box, rows, pass, want>>
  BY DEF GiveUp
<1> DEFINE d == [c EXCEPT !.at = "abandoned"]
<1>2. d.uid = c.uid /\ d.read = c.read /\ d.at = "abandoned"
  BY ReadAt DEF Base, TypedInv
<1>3. reads' = (reads \ {c}) \cup {d}
  BY <1>1
<1> HIDE DEF d
<1>4. Kept(x, b)
  BY <1>1 DEF KeptInv
<1>5. Unlanded(x.uid)' <=> Unlanded(x.uid)
  BY <1>1, <1>2, <1>3 DEF Unlanded
<1>6. Agrees(x, b)'
  BY <1>1, <1>4 DEF Kept, Agrees, Seen
<1>7. Commands(x, b)'
  BY <1>1, <1>2, <1>3, <1>4 DEF Kept, Commands, Seen
<1>8. Pushes(x, b)'
  BY <1>1, <1>4, <1>5 DEF Kept, Pushes, FirstOwed, Seen
<1> QED
  BY <1>6, <1>7, <1>8 DEF Kept

\* A cycle takes the flags that are owed as they are.
LEMMA KeptBegun == ASSUME Base, KeptInv, Begin PROVE KeptInv'
<1> USE DEF history
<1> SUFFICES ASSUME NEW x \in rows', NEW b \in want'[x.m] PROVE Kept(x, b)'
  BY DEF KeptInv
<1>1. /\ pass'.owed = DirtySeen /\ pass'.pc = "push" /\ UNCHANGED <<box, rows, reads, want>>
      /\ \A c \in reads : c.at = "landed"
  BY DEF Begin, NoPass
<1>2. Kept(x, b) /\ x \in rows
  BY <1>1 DEF KeptInv
<1>3. \A o \in DirtySeen : o.uid = x.uid => o = x
  BY <1>2 DEF DirtySeen, Base, OneRow
<1>4. x.read = b
  BY <1>2 DEF Kept, Agrees
<1>5. ~Unlanded(x.uid)'
  BY <1>1 DEF Unlanded
<1>6. Pushes(x, b)'
  BY <1>1, <1>3, <1>4, <1>5 DEF Pushes
<1>7. Agrees(x, b)' /\ Commands(x, b)'
  BY <1>1, <1>2 DEF Kept, Agrees, Commands, Seen
<1> QED
  BY <1>6, <1>7 DEF Kept

\* A push of an older choice leaves the row marked, and the newer command still to come.
LEMMA KeptPushing == ASSUME Base, KeptInv, PushSeen PROVE KeptInv'
<1> USE DEF history
<1> SUFFICES ASSUME NEW x \in rows', NEW b \in want'[x.m] PROVE Kept(x, b)'
  BY DEF KeptInv
<1>1. /\ Store(FirstOwed.uid, FirstOwed.read) /\ pass' = [pass EXCEPT !.pc = "pushed"] /\ pass.owed # {}
      /\ UNCHANGED <<rows, reads, want>>
  BY DEF PushSeen, FirstOwed, Goto
<1>2. pass'.owed = pass.owed /\ pass'.pc = "pushed"
  BY <1>1 DEF Base, SyncInv, PassInv, PassType
<1>3. FirstOwed' = FirstOwed /\ FirstOwed \in pass.owed
  BY <1>1, <1>2, FirstIsOwed DEF FirstOwed, Base
<1>4. Kept(x, b)
  BY <1>1 DEF KeptInv
<1>5. Unlanded(x.uid)' <=> Unlanded(x.uid)
  BY <1>1 DEF Unlanded
<1>6. BoxInv
  BY DEF Base, SyncInv
<1>7. CASE FirstOwed.uid = x.uid /\ FirstOwed.read # b
  <2>1. x.dirty /\ Unlanded(x.uid)
    BY <1>3, <1>4, <1>7 DEF Kept, Pushes
  <2>2. \A c \in reads : c.uid = x.uid => c.read = b /\ c.at # "landed"
    BY <1>4, <2>1 DEF Kept, Commands, Unlanded
  <2>3. Agrees(x, b)'
    BY <1>4, <2>1 DEF Kept, Agrees
  <2>4. Commands(x, b)'
    BY <1>1, <1>4, <2>2 DEF Kept, Commands
  <2>5. Pushes(x, b)'
    BY <1>2, <1>3, <1>4, <1>5, <1>7 DEF Kept, Pushes
  <2> QED
    BY <2>3, <2>4, <2>5 DEF Kept
<1>8. CASE ~(FirstOwed.uid = x.uid /\ FirstOwed.read # b)
  <2>1. Seen(x.uid, b) \/ FirstOwed.uid = x.uid => Seen(x.uid, b)'
    BY <1>1, <1>6, <1>8, StoreSeen
  <2>2. Agrees(x, b)'
    BY <1>4, <2>1 DEF Kept, Agrees
  <2>3. Commands(x, b)'
    BY <1>1, <1>4, <2>1 DEF Kept, Commands
  <2>4. Pushes(x, b)'
    BY <1>2, <1>3, <1>4, <1>5, <2>1 DEF Kept, Pushes
  <2> QED
    BY <2>2, <2>3, <2>4 DEF Kept
<1> QED
  BY <1>7, <1>8

LEMMA KeptPushed == ASSUME Base, KeptInv, PushedSeen PROVE KeptInv'
<1> USE DEF history
<1> SUFFICES ASSUME NEW x \in rows', NEW b \in want'[x.m] PROVE Kept(x, b)'
  BY DEF KeptInv
<1>1. /\ rows' = ClearSeenDirty(folder.v, FirstOwed.uid, FirstOwed.read) /\ pass.pc = "pushed"
      /\ pass' = [pass EXCEPT !.pc = "push", !.owed = pass.owed \ {FirstOwed}]
      /\ UNCHANGED <<box, reads, want>>
  BY DEF PushedSeen, FirstOwed, At
<1>2. pass'.owed = pass.owed \ {FirstOwed} /\ pass'.pc = "push"
  BY <1>1 DEF Base, SyncInv, PassInv, PassType
<1>3. PICK r \in rows : /\ x.uid = r.uid /\ x.m = r.m /\ x.read = r.read
                        /\ x.dirty = (r.dirty /\ ~CanBeCleared(r, folder.v, FirstOwed.uid, FirstOwed.read))
  BY <1>1, ClearedRow DEF Base
<1>4. Kept(r, b)
  BY <1>1, <1>3 DEF KeptInv
<1>5. FirstOwed \in pass.owed
  BY <1>1, FirstIsOwed DEF Base, OwedInv
<1>6. x.dirty = r.dirty \/ (r.uid = FirstOwed.uid /\ Seen(r.uid, b))
  BY <1>1, <1>3, <1>4 DEF CanBeCleared, Base, TypedInv, Kept, Agrees, Pushes
<1>7. Agrees(x, b)'
  BY <1>1, <1>3, <1>4, <1>6 DEF Kept, Agrees, Seen
<1>8. Commands(x, b)'
  BY <1>1, <1>3, <1>4 DEF Kept, Commands, Seen
<1>9. Unlanded(r.uid)' <=> Unlanded(r.uid)
  BY <1>1 DEF Unlanded
<1>10. ASSUME NEW o \in pass'.owed, o.uid = r.uid PROVE o \in pass.owed /\ x.dirty = r.dirty
  BY <1>2, <1>5, <1>6, <1>10 DEF Base, OwedInv
<1>11. Pushes(x, b)'
  BY <1>2, <1>3, <1>4, <1>9, <1>10 DEF Kept, Pushes
<1> QED
  BY <1>7, <1>8, <1>11 DEF Kept

\* The passes proper: a row without a mark takes the server's flag, which is the choice.
LEMMA KeptFetched == ASSUME Base, KeptInv, Fetch \/ BackfillWindow \/ FetchFlagChanges PROVE KeptInv'
<1> USE DEF history
<1> SUFFICES ASSUME NEW x \in rows', NEW b \in want'[x.m] PROVE Kept(x, b)'
  BY DEF KeptInv
<1>1. UNCHANGED <<box, reads, want>>
  BY DEF Fetch, BackfillWindow, FetchFlagChanges
<1>2. pass'.owed = {} /\ pass'.pc # "pushed"
  <2>1. pass \in PassType(pass) /\ pass.pc \in {"fetch", "backfill", "yield"}
    BY DEF Fetch, BackfillWindow, FetchFlagChanges, At, Base, SyncInv, PassInv
  <2>2. pass.owed = {}
    BY <2>1 DEF Base, OwedInv
  <2>3. AfterFlags \in {"backfill", "reconcile", "finish"}
    BY DEF AfterFlags
  <2>4. pass'.owed = pass.owed /\ pass'.pc \in {"yield", "heal", AfterFlags}
    BY <2>1 DEF Fetch, BackfillWindow, FetchFlagChanges, Goto, PassType
  <2> QED
    BY <2>2, <2>3, <2>4
<1>3. PICK S \in SUBSET box : \A y \in rows' : (\E r \in rows : y = Renewed(S, r)) \/ NewRow(y)
  BY FetchIsRenewal DEF Base
<1>4. CASE \E r \in rows : x = Renewed(S, r)
  <2>1. PICK r \in rows : OfRow(x, r)
    BY <1>4, RenewedRow DEF Base
  <2>2. x.uid = r.uid /\ x.m = r.m /\ x.dirty = r.dirty
    BY <2>1 DEF OfRow
  <2>3. Kept(r, b)
    BY <1>1, <2>2 DEF KeptInv
  <2>4. x.read = r.read
    BY <2>1, <2>3 DEF OfRow, Kept, Agrees, Seen
  <2> QED
    BY <1>1, <1>2, <2>2, <2>3, <2>4, KeptAtRest DEF Seen
<1>5. CASE NewRow(x)
  <2>1. PICK c \in box : (\A r \in rows : r.uid # c.uid) /\ x.m = c.m
    BY <1>5 DEF NewRow
  <2>2. want[c.m] # {}
    BY <1>1, <2>1
  <2> QED
    BY <2>1, <2>2 DEF Base, ChosenInv
<1> QED
  BY <1>3, <1>4, <1>5

\* Rows that stay, while nothing is being pushed.
LEMMA KeptFewer ==
  ASSUME Base, KeptInv, rows' \subseteq rows, reads' \subseteq reads, UNCHANGED <<box, want>>,
         pass'.owed = {}, pass'.pc # "pushed"
  PROVE  KeptInv'
<1> SUFFICES ASSUME NEW x \in rows', NEW b \in want'[x.m] PROVE Kept(x, b)'
  BY DEF KeptInv
<1>1. Kept(x, b)
  BY DEF KeptInv
<1> QED
  BY <1>1, KeptAtRest DEF Seen

LEMMA KeptRest == ASSUME Base, KeptInv,
                         Select \/ Reconcile \/ Finish \/ DeepPassDue \/ ConnLost \/ Restart \/ Renumber \/ UNCHANGED vars
                  PROVE  KeptInv'
<1> USE DEF memory, history
<1>0. pass \in PassType(pass)
  BY DEF Base, SyncInv, PassInv
<1>1. CASE Select
  <2>1. pass'.owed = {} /\ pass'.pc = "fetch"
    BY <1>1 DEF Select, NoPass
  <2>2. rows' \subseteq rows /\ UNCHANGED <<box, reads, want>>
    BY <1>1 DEF Select, SyncUIDValidity
  <2> QED
    BY <2>1, <2>2, KeptFewer
<1>2. CASE Reconcile
  <2>1. pass'.owed = pass.owed /\ pass'.pc = "reap" /\ pass.pc \in {"heal", "reconcile"}
    BY <1>0, <1>2 DEF Reconcile, At, PassType
  <2>2. pass.owed = {}
    BY <2>1 DEF Base, OwedInv
  <2> QED
    BY <1>2, <2>1, <2>2, KeptFewer DEF Reconcile
<1>3. ASSUME NEW pc, pass' = NoPass(pc), pc # "pushed" PROVE pass'.owed = {} /\ pass'.pc # "pushed"
  BY <1>3 DEF NoPass
<1>4. CASE Finish
  <2>1. rows' \subseteq rows /\ UNCHANGED <<box, reads, want>> /\ pass' = NoPass("idle")
    BY <1>4 DEF Finish
  <2> QED
    BY <1>3, <2>1, KeptFewer
<1>5. CASE ConnLost \/ Restart
  <2>1. reads' \subseteq reads /\ UNCHANGED <<box, rows, want>> /\ pass' = NoPass("connect")
    BY <1>5 DEF ConnLost, Restart
  <2> QED
    BY <1>3, <2>1, KeptFewer
<1>6. CASE Renumber
  <2>1. want' = [m \in 1..MaxMail |-> {}] /\ UNCHANGED rows
    BY <1>6 DEF Renumber
  <2>2. \A r \in rows' : want'[r.m] = {}
    BY <2>1, Numbers DEF Base
  <2> QED
    BY <2>2 DEF KeptInv
<1>7. CASE DeepPassDue \/ UNCHANGED vars
  <2>1. UNCHANGED <<box, rows, reads, want, pass>>
    BY <1>7 DEF DeepPassDue, vars
  <2> SUFFICES ASSUME NEW x \in rows', NEW b \in want'[x.m] PROVE Kept(x, b)'
    BY DEF KeptInv
  <2>2. Kept(x, b)
    BY <2>1 DEF KeptInv
  <2> QED
    BY <2>1, <2>2, KeptRests DEF Seen
<1> QED
  BY <1>1, <1>2, <1>4, <1>5, <1>6, <1>7

\* The user's read or unread survives passes, commands that are late, given up on or lost,
\* pushes of an older choice, retries and restarts (SetRead, pushSeen, clearSeenDirty,
\* UpsertMessage).
THEOREM ChoiceSurvives == Spec => []IntentSurvives
<1> DEFINE Inv == Base /\ KeptInv
<1>1. Init => Inv
  <2> SUFFICES ASSUME Init PROVE Inv
    OBVIOUS
  <2>1. rows = {} /\ reads = {} /\ pass.owed = {} /\ pass.gone = {} /\ pass.pc = "connect"
        /\ want = [m \in 1..MaxMail |-> {}]
    BY DEF Init, NoPass
  <2>2. SyncInv
    BY SyncInit
  <2>3. TypedInv
    <3>1. mail \in 0..MaxMail
      <4>1. CASE box = {}
        BY <4>1, FS_EmptySet, BoundsAssumption DEF Init
      <4>2. CASE box = {[uid |-> 1, m |-> 1, seen |-> FALSE, mod |-> 1]}
        <5>1. mail = 1
          BY <4>2, FS_Singleton DEF Init
        <5> QED
          BY <5>1, BoundsAssumption
      <4> QED
        BY <4>1, <4>2 DEF Init
    <3>2. \A c \in box : c.seen \in BOOLEAN
      <4> SUFFICES ASSUME NEW c \in box PROVE c.seen \in BOOLEAN
        OBVIOUS
      <4>1. c = [uid |-> 1, m |-> 1, seen |-> FALSE, mod |-> 1]
        BY DEF Init
      <4>2. c.seen = FALSE
        BY <4>1
      <4> QED
        BY <4>2
    <3> QED
      BY <2>1, <3>1, <3>2 DEF TypedInv
  <2>4. \A c \in box : want[c.m] = {}
    BY <2>1, <2>2, <2>3, Numbers
  <2> QED
    BY <2>1, <2>2, <2>3, <2>4 DEF Base, OneRow, Reaped, OwedInv, ChosenInv, KeptInv
<1>2. Inv /\ [Next]_vars => Inv'
  <2> SUFFICES ASSUME Base, KeptInv, [Next]_vars PROVE Base' /\ KeptInv'
    OBVIOUS
  <2>1. Base'
    BY SyncStep, TypedStep, OneRowStep, ReapedStep, OwedStep, ChosenStep DEF Base
  <2>2. KeptInv'
    BY KeptElsewhere, KeptMarked, KeptRun, KeptSettled, KeptGivenUp, KeptBegun, KeptPushing, KeptPushed,
       KeptFetched, KeptRest DEF Next, Worker, Faults
  <2> QED
    BY <2>1, <2>2
<1>3. Inv => IntentSurvives
  <2> SUFFICES ASSUME Base, KeptInv, NEW r \in rows, NEW chosen \in want[r.m]
               PROVE  /\ r.read = chosen
                      /\ r.dirty \/ \A c \in box : c.m = r.m => c.seen = chosen
    BY DEF IntentSurvives
  <2>1. Agrees(r, chosen)
    BY DEF KeptInv, Kept
  <2>2. \A c \in box : c.m = r.m => c.uid = r.uid
    BY ChosenIsKnown DEF Known
  <2> QED
    BY <2>1, <2>2 DEF Agrees, Seen
<1> QED
  BY <1>1, <1>2, <1>3, PTL DEF Spec

=============================================================================
