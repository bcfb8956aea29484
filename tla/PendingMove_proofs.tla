------------------------ MODULE PendingMove_proofs ------------------------
(***************************************************************************)
(* Theorems about PendingMove, for any folders and any number of messages,  *)
(* moves and faults.                                                       *)
(***************************************************************************)
EXTENDS PendingMove, TLAPS, FiniteSetTheorems, WellFoundedInduction

-----------------------------------------------------------------------------
(* Ids *)

\* A finite set of numbers that is not empty has a largest.
LEMMA Largest == ASSUME NEW S \in SUBSET Int, IsFiniteSet(S), S # {}
                 PROVE  \E x \in S : \A y \in S : x >= y
<1> DEFINE Bare == {T \in SUBSET S : T # {} /\ ~\E x \in T : \A y \in T : x >= y}
<1>1. SUFFICES ASSUME S \in Bare PROVE FALSE
  OBVIOUS
<1>2. Bare \subseteq FiniteSubsetsOf(S)
  BY FS_FiniteSubsetsOfFinite
<1>3. PICK T \in Bare : \A U \in Bare : ~(<<U, T>> \in StrictSubsetOrdering(S))
  <2> HIDE DEF Bare
  <2> QED
    BY <1>1, <1>2, FS_StrictSubsetOrderingWellFounded, WFMin
<1>4. PICK x \in T : TRUE
  OBVIOUS
<1>5. T \ {x} \notin Bare
  BY <1>3, <1>4 DEF StrictSubsetOrdering
<1>6. CASE T \ {x} = {}
  BY <1>4, <1>6
<1>7. CASE \E y \in T \ {x} : \A z \in T \ {x} : y >= z
  <2>1. PICK y \in T \ {x} : \A z \in T \ {x} : y >= z
    BY <1>7
  <2>2. x \in Int /\ y \in Int /\ \A z \in T : z \in Int
    BY <1>4
  <2>3. CASE x >= y
    BY <1>4, <2>1, <2>2, <2>3
  <2>4. CASE ~(x >= y)
    BY <1>4, <2>1, <2>2, <2>4
  <2> QED
    BY <2>3, <2>4
<1> QED
  BY <1>4, <1>5, <1>6, <1>7

LEMMA MaxIsLargest == ASSUME NEW S \in SUBSET Int, IsFiniteSet(S), S # {}
                      PROVE  Max(S) \in S /\ \A y \in S : Max(S) >= y
BY Largest DEF Max

\* The ids of the rows have a bound.
Bounded(S) == \E n \in Nat : \A r \in S : r.id <= n

LEMMA Top == ASSUME NEW S, \A r \in S : r.id \in Nat, Bounded(S)
             PROVE  LET top == Max({0} \cup {r.id : r \in S})
                    IN  top \in Nat /\ \A r \in S : r.id <= top
<1> DEFINE ids == {0} \cup {r.id : r \in S}
<1>1. PICK n \in Nat : \A r \in S : r.id <= n
  BY DEF Bounded
<1>2. ids \in SUBSET Nat /\ \A i \in ids : i <= n
  BY <1>1
<1>3. IsFiniteSet(ids)
  <2> HIDE DEF ids
  <2> QED
    BY <1>2, FS_BoundedSetOfNaturals
<1>4. Max(ids) \in ids /\ \A i \in ids : Max(ids) >= i
  <2>1. ids \in SUBSET Int /\ ids # {}
    BY <1>2
  <2> HIDE DEF ids
  <2> QED
    BY <1>3, <2>1, MaxIsLargest
<1>5. \A r \in S : r.id \in ids
  OBVIOUS
<1>6. Max(ids) \in Nat /\ \A r \in S : r.id <= Max(ids)
  <2> HIDE DEF ids
  <2> QED
    BY <1>2, <1>4, <1>5
<1> QED
  BY <1>6

\* In the order of their UIDs, no two have the same place.
Place(S, c) == Cardinality({x \in S : x.uid <= c.uid})

LEMMA Places == ASSUME NEW S, IsFiniteSet(S), \A x \in S : x.uid \in Nat
                PROVE  /\ \A c \in S : Place(S, c) \in 1..Cardinality(S)
                       /\ \A c, d \in S : c.uid # d.uid => Place(S, c) # Place(S, d)
<1> DEFINE Upto(c) == {x \in S : x.uid <= c.uid}
<1>1. ASSUME NEW c \in S
      PROVE  IsFiniteSet(Upto(c)) /\ Place(S, c) \in 1..Cardinality(S)
  <2>1. Upto(c) \in SUBSET S /\ c \in Upto(c)
    OBVIOUS
  <2>2. IsFiniteSet(Upto(c)) /\ Cardinality(Upto(c)) <= Cardinality(S)
    BY <2>1, FS_Subset
  <2>3. Cardinality(Upto(c)) \in Nat /\ Cardinality(S) \in Nat /\ Cardinality(Upto(c)) # 0
    BY <2>1, <2>2, FS_CardinalityType, FS_EmptySet
  <2>4. Place(S, c) = Cardinality(Upto(c))
    BY DEF Place
  <2> QED
    BY <2>2, <2>3, <2>4
<1>2. ASSUME NEW c \in S, NEW d \in S, c.uid < d.uid PROVE Place(S, c) # Place(S, d)
  <2>1. Upto(c) \in SUBSET Upto(d) /\ d \in Upto(d) /\ d \notin Upto(c)
    BY <1>2
  <2>2. Cardinality(Upto(c)) # Cardinality(Upto(d))
    <3> HIDE DEF Upto
    <3> QED
      BY <1>1, <2>1, FS_Subset
  <2> QED
    BY <2>2 DEF Place
<1>3. \A c, d \in S : c.uid # d.uid => c.uid < d.uid \/ d.uid < c.uid
  OBVIOUS
<1> QED
  BY <1>1, <1>2, <1>3

-----------------------------------------------------------------------------
(* Rows *)

IsRow(r) == r \in [id : Nat, folder : Folders, uid : Nat \ {0}, m : 1..mail, pending : BOOLEAN]
IsMail(x) == x \in [folder : Folders, uid : Nat \ {0}, m : 1..mail]

\* One row has an id, one a folder and UID; and so the messages of the server.
RowsTyped ==
  /\ \A r \in rows : IsRow(r)
  /\ Bounded(rows)
  /\ \A r, s \in rows : (r.id = s.id \/ (r.folder = s.folder /\ r.uid = s.uid)) => r = s

BoxTyped ==
  /\ mail \in Nat /\ asks \in Nat /\ next \in [Folders -> Nat \ {0}]
  /\ IsFiniteSet(box)
  /\ \A x \in box : IsMail(x) /\ x.uid < next[x.folder]
  /\ \A x, y \in box : (x.folder = y.folder /\ x.uid = y.uid) => x = y

LEMMA FewerRows ==
  ASSUME RowsTyped, UNCHANGED mail, rows' \subseteq rows PROVE RowsTyped'
BY DEF RowsTyped, Bounded, IsRow

\* A row of a message the mailbox has, with an id of its own.
IsStored(r, x) == r.folder = x.folder /\ r.uid = x.uid /\ r.m = x.m /\ ~r.pending

LEMMA Inserted ==
  ASSUME BoxTyped, RowsTyped, UNCHANGED mail, NEW f \in Folders, NEW S \in SUBSET In(box, f),
         rows' = Upserted(S)
  PROVE  /\ RowsTyped'
         /\ rows \subseteq rows'
         /\ \A r \in rows' \ rows : \E x \in box : IsStored(r, x)
<1> DEFINE new == {c \in S : At(rows, c.folder, c.uid) = {}}
           top == Max({0} \cup {r.id : r \in rows})
           stored(c) == [id |-> top + Place(new, c), folder |-> c.folder, uid |-> c.uid,
                         m |-> c.m, pending |-> FALSE]
<1>1. rows' = rows \cup {stored(c) : c \in new}
  BY Zenon DEF Upserted, Place
<1>2. /\ \A c \in new : c \in box /\ IsMail(c) /\ c.folder = f
      /\ \A c, d \in new : c.uid = d.uid => c = d
      /\ \A c \in new, r \in rows : ~(r.folder = c.folder /\ r.uid = c.uid)
  BY DEF BoxTyped, In, At
<1>3. IsFiniteSet(new) /\ \A c \in new : c.uid \in Nat
  <2>1. new \in SUBSET box
    BY <1>2
  <2> QED
    BY <1>2, <2>1, FS_Subset DEF BoxTyped, IsMail
<1>4. top \in Nat /\ \A r \in rows : r.id <= top
  <2>1. \A r \in rows : r.id \in Nat
    BY DEF RowsTyped, IsRow
  <2> QED
    BY <2>1, Top DEF RowsTyped
<1> HIDE DEF new, top
<1>5. Cardinality(new) \in Nat /\ \A c \in new : Place(new, c) \in 1..Cardinality(new)
  BY <1>3, Places, FS_CardinalityType
<1>6. \A c, d \in new : c # d => Place(new, c) # Place(new, d)
  BY <1>2, <1>3, Places
<1>7. ASSUME NEW c \in new
      PROVE  /\ IsRow(stored(c)) /\ stored(c).id > top /\ stored(c).id <= top + Cardinality(new)
             /\ stored(c).id = top + Place(new, c)
             /\ IsStored(stored(c), c)
  BY <1>2, <1>4, <1>5 DEF IsRow, IsMail, IsStored
<1> HIDE DEF stored
<1>8. \A r \in rows' : r \in rows \/ \E c \in new : r = stored(c)
  BY <1>1
<1>9. \A r \in rows' : IsRow(r)
  BY <1>7, <1>8 DEF RowsTyped
<1>10. Bounded(rows')
  <2>1. \A r \in rows' : r.id <= top + Cardinality(new)
    <3>1. ASSUME NEW r \in rows PROVE r.id <= top + Cardinality(new)
      <4>1. r.id \in Nat /\ r.id <= top
        BY <1>4 DEF RowsTyped, IsRow
      <4> QED
        BY <1>4, <1>5, <4>1
    <3> QED
      BY <1>7, <1>8, <3>1
  <2> QED
    BY <1>4, <1>5, <2>1 DEF Bounded
<1>11. ASSUME NEW r \in rows', NEW s \in rows',
              r.id = s.id \/ (r.folder = s.folder /\ r.uid = s.uid)
       PROVE  r = s
  <2>1. \A q \in rows, c \in new : q.id # stored(c).id
    <3> SUFFICES ASSUME NEW q \in rows, NEW c \in new PROVE q.id # stored(c).id
      OBVIOUS
    <3>1. q.id \in Nat /\ q.id <= top
      BY <1>4 DEF RowsTyped, IsRow
    <3> QED
      BY <1>4, <1>7, <3>1
  <2>2. \A q \in rows, c \in new :
          ~(q.folder = stored(c).folder /\ q.uid = stored(c).uid)
    BY <1>2, <1>7 DEF IsStored
  <2>3. ASSUME NEW c \in new, NEW d \in new, r = stored(c), s = stored(d)
        PROVE  r = s
    <3>1. CASE r.id = s.id
      <4>1. top + Place(new, c) = top + Place(new, d)
        BY <1>7, <2>3, <3>1
      <4>2. c = d
        BY <1>4, <1>5, <1>6, <4>1
      <4> QED
        BY <2>3, <4>2
    <3>2. CASE r.uid = s.uid
      BY <1>2, <1>7, <2>3, <3>2 DEF IsStored
    <3> QED
      BY <1>11, <3>1, <3>2
  <2>4. CASE r \in rows /\ s \in rows
    BY <1>11, <2>4 DEF RowsTyped
  <2> QED
    BY <1>8, <1>11, <2>1, <2>2, <2>3, <2>4
<1>12. RowsTyped'
  <2>1. \A r \in rows' : IsRow(r)'
    BY <1>9 DEF IsRow
  <2> QED
    BY <1>10, <1>11, <2>1 DEF RowsTyped, Bounded
<1> QED
  BY <1>1, <1>2, <1>7, <1>8, <1>12

\* The row of an id, told that it is in another folder: nothing happens when that folder
\* has the UID already.
Told(i, f, p) ==
  /\ Refused(i, f) => rows' = rows
  /\ ~Refused(i, f) => \A r \in rows' :
       \/ r \in rows /\ r.id # i
       \/ /\ r.id = i /\ r.folder = f /\ r.pending = p
          /\ \E s \in rows : s.id = i /\ s.uid = r.uid /\ s.m = r.m

LEMMA Moved ==
  ASSUME RowsTyped, UNCHANGED mail, NEW i, NEW f \in Folders, NEW p \in BOOLEAN,
         rows' = Relocated(i, f, p)
  PROVE  RowsTyped' /\ Told(i, f, p)
<1>1. CASE Refused(i, f)
  <2>1. rows' = rows
    BY <1>1 DEF Relocated
  <2> QED
    BY <1>1, <2>1, FewerRows DEF Told
<1>2. CASE ~Refused(i, f)
  <2> DEFINE moved(r) == [r EXCEPT !.folder = f, !.pending = p]
  <2>1. rows' = (rows \ Row(i)) \cup {moved(r) : r \in Row(i)}
    BY <1>2 DEF Relocated
  <2>2. ASSUME NEW r \in rows
        PROVE  /\ IsRow(moved(r)) /\ moved(r).id = r.id /\ moved(r).uid = r.uid
               /\ moved(r).m = r.m /\ moved(r).folder = f /\ moved(r).pending = p
    BY DEF RowsTyped, IsRow
  <2> HIDE DEF moved
  <2>3. \A r \in rows' : (r \in rows /\ r.id # i) \/ \E s \in rows : s.id = i /\ r = moved(s)
    BY <2>1 DEF Row
  <2>4. \A r \in rows' : IsRow(r) /\ \E s \in rows : r.id = s.id
    BY <2>2, <2>3 DEF RowsTyped
  <2>5. Bounded(rows')
    BY <2>4 DEF RowsTyped, Bounded
  <2>6. \A r, s \in rows : r.id = i /\ s.id = i => r = s
    BY DEF RowsTyped
  <2>7. \A r, s \in rows : s.id = i /\ r.id # i => ~(r.folder = f /\ r.uid = s.uid)
    BY <1>2 DEF Refused, Row, At
  <2>8. ASSUME NEW r \in rows', NEW s \in rows',
               r.id = s.id \/ (r.folder = s.folder /\ r.uid = s.uid)
        PROVE  r = s
    <3>1. CASE r \in rows /\ r.id # i /\ s \in rows /\ s.id # i
      BY <2>8, <3>1 DEF RowsTyped
    <3>2. CASE r \in rows /\ r.id # i /\ \E q \in rows : q.id = i /\ s = moved(q)
      BY <2>2, <2>7, <2>8, <3>2
    <3>3. CASE s \in rows /\ s.id # i /\ \E q \in rows : q.id = i /\ r = moved(q)
      BY <2>2, <2>7, <2>8, <3>3
    <3>4. CASE (\E q \in rows : q.id = i /\ r = moved(q)) /\ (\E q \in rows : q.id = i /\ s = moved(q))
      BY <2>6, <3>4
    <3> QED
      BY <2>3, <3>1, <3>2, <3>3, <3>4
  <2>9. RowsTyped'
    <3>1. \A r \in rows' : IsRow(r)'
      BY <2>4 DEF IsRow
    <3> QED
      BY <2>5, <2>8, <3>1 DEF RowsTyped, Bounded
  <2>10. ASSUME NEW r \in rows' PROVE \/ r \in rows /\ r.id # i
                                      \/ /\ r.id = i /\ r.folder = f /\ r.pending = p
                                         /\ \E s \in rows : s.id = i /\ s.uid = r.uid /\ s.m = r.m
    BY <2>2, <2>3
  <2> QED
    BY <1>2, <2>9, <2>10 DEF Told
<1> QED
  BY <1>1, <1>2

LEMMA MovedBack ==
  ASSUME RowsTyped, UNCHANGED mail, NEW i, NEW f \in Folders, rows' = Relocated(i, f, FALSE)
  PROVE  RowsTyped' /\ Told(i, f, FALSE)
BY Moved

LEMMA MovedOn ==
  ASSUME RowsTyped, UNCHANGED mail, NEW i, NEW f \in Folders, rows' = Relocated(i, f, TRUE)
  PROVE  RowsTyped' /\ Told(i, f, TRUE)
BY Moved

\* The row of an id, told the UID its message has in the folder it was moved to.
LEMMA Located ==
  ASSUME RowsTyped, UNCHANGED mail, NEW i, NEW f \in Folders, NEW u \in Nat \ {0},
         rows' = SetMessageLocation(i, f, u)
  PROVE  /\ RowsTyped'
         /\ \A r \in rows' :
              \/ r \in rows /\ r.id # i
              \/ /\ r.id = i /\ r.folder = f /\ r.uid = u /\ ~r.pending
                 /\ \E s \in rows : s.id = i /\ s.m = r.m
<1> DEFINE moved(r) == [r EXCEPT !.folder = f, !.uid = u, !.pending = FALSE]
<1>1. rows' = {r \in rows : r.id # i /\ ~(r.folder = f /\ r.uid = u)}
              \cup {moved(r) : r \in Row(i)}
  BY DEF SetMessageLocation
<1>2. ASSUME NEW r \in rows
      PROVE  /\ IsRow(moved(r)) /\ moved(r).id = r.id /\ moved(r).uid = u
             /\ moved(r).m = r.m /\ moved(r).folder = f /\ ~moved(r).pending
  BY DEF RowsTyped, IsRow
<1> HIDE DEF moved
<1>3. \A r \in rows' : \/ r \in rows /\ r.id # i /\ ~(r.folder = f /\ r.uid = u)
                       \/ \E s \in rows : s.id = i /\ r = moved(s)
  BY <1>1 DEF Row
<1>4. \A r \in rows' : IsRow(r) /\ \E s \in rows : r.id = s.id
  BY <1>2, <1>3 DEF RowsTyped
<1>5. Bounded(rows')
  BY <1>4 DEF RowsTyped, Bounded
<1>6. \A r, s \in rows : r.id = i /\ s.id = i => r = s
  BY DEF RowsTyped
<1>7. ASSUME NEW r \in rows', NEW s \in rows',
             r.id = s.id \/ (r.folder = s.folder /\ r.uid = s.uid)
      PROVE  r = s
  <2>1. CASE r \in rows /\ r.id # i /\ s \in rows /\ s.id # i
    BY <1>7, <2>1 DEF RowsTyped
  <2>2. CASE r.id = i /\ s.id = i
    BY <1>2, <1>3, <1>6, <2>2
  <2>3. CASE r.id # i /\ s.id = i
    BY <1>2, <1>3, <1>7, <2>3
  <2>4. CASE r.id = i /\ s.id # i
    BY <1>2, <1>3, <1>7, <2>4
  <2>5. \A q \in rows' : q.id # i => q \in rows
    BY <1>2, <1>3
  <2> QED
    BY <2>1, <2>2, <2>3, <2>4, <2>5
<1>8. RowsTyped'
  <2>1. \A r \in rows' : IsRow(r)'
    BY <1>4 DEF IsRow
  <2> QED
    BY <1>5, <1>7, <2>1 DEF RowsTyped, Bounded
<1>9. ASSUME NEW r \in rows' PROVE \/ r \in rows /\ r.id # i
                                   \/ /\ r.id = i /\ r.folder = f /\ r.uid = u /\ ~r.pending
                                      /\ \E s \in rows : s.id = i /\ s.m = r.m
  BY <1>2, <1>3
<1> QED
  BY <1>8, <1>9

-----------------------------------------------------------------------------
(* Moves under way *)

IsAsk(a) == a \in [n : Nat, id : Nat, m : 1..mail, src : Folders, uid : Nat \ {0}, to : Folders]

\* What a timer or a goroutine was asked for.
Active == {t.ask : t \in timers} \cup {c.ask : c \in moves}

IsTimer(t) == t \in [ask : {t.ask}, armed : BOOLEAN, mapped : BOOLEAN] /\ IsAsk(t.ask)
IsCommand(c) ==
  /\ c \in [ask : {c.ask}, at : {"queued", "copied", "done"}, heard : BOOLEAN, dest : Nat]
  /\ IsAsk(c.ask) /\ c.ask.src # c.ask.to

\* The map has one entry for a message.
MovesTyped ==
  /\ \A t \in timers : IsTimer(t)
  /\ \A c \in moves : IsCommand(c)
  /\ \A s, t \in timers : s.ask.id = t.ask.id /\ s.mapped /\ t.mapped => s = t
  /\ rest \subseteq 1..mail

\* A UID that was given out, and that only this message has ever had.
Names(f, u, m) == u < next[f] /\ \A x \in box : x.folder = f /\ x.uid = u => x.m = m

\* A row that is not mid-move, a move asked for and a move that is done name a message by
\* its own UID, or the message was tangled.
NamesInv ==
  /\ \A r \in rows : ~r.pending /\ r.m \notin tangled => Names(r.folder, r.uid, r.m)
  /\ \A a \in Active : a.m \notin tangled => Names(a.src, a.uid, a.m)
  /\ \A c \in moves : c.dest # 0 /\ c.ask.m \notin tangled => Names(c.ask.to, c.dest, c.ask.m)

\* The row of a move's id is the one that was moved, under the UID it had.
Same(r, a) == \/ r.m = a.m /\ (r.m \notin tangled => r.uid = a.uid)
              \/ r.m \in tangled /\ a.m \in tangled
SameInv == \A a \in Active : \A r \in rows : r.id = a.id => Same(r, a)

\* No two moves of one row, or its messages are tangled.
Apart(a, b) == a.id = b.id => a.m \in tangled /\ b.m \in tangled
ApartInv ==
  /\ \A s, t \in timers : s # t => Apart(s.ask, t.ask)
  /\ \A c, d \in moves : c # d => Apart(c.ask, d.ask)
  /\ \A t \in timers, c \in moves : Apart(t.ask, c.ask)

\* A message at rest has no move under way.
RestInv == \A a \in Active : a.m \notin rest

MoveInv == /\ BoxTyped /\ RowsTyped /\ MovesTyped
           /\ NamesInv /\ SameInv /\ ApartInv /\ RestInv /\ PendingIsOwed

LEMMA MoveInit == ASSUME Init PROVE MoveInv
<1>1. next \in [Folders -> Nat \ {0}] /\ box = {} /\ rows = {} /\ timers = {} /\ moves = {}
      /\ mail = 0 /\ asks = 0 /\ rest = {}
  BY DEF Init
<1>2. BoxTyped
  BY <1>1, FS_EmptySet DEF BoxTyped
<1>3. RowsTyped
  BY <1>1 DEF RowsTyped, Bounded
<1>4. MovesTyped /\ NamesInv /\ SameInv /\ ApartInv /\ RestInv /\ PendingIsOwed
  BY <1>1 DEF MovesTyped, NamesInv, SameInv, ApartInv, RestInv, PendingIsOwed, Active
<1> QED
  BY <1>2, <1>3, <1>4 DEF MoveInv

\* A name stays one while UIDs are given out in order.
LEMMA NamesStay ==
  ASSUME BoxTyped, next' \in [Folders -> Nat \ {0}], \A f \in Folders : next[f] <= next'[f],
         \A x \in box' : x \in box \/ x.uid >= next[x.folder],
         NEW f \in Folders, NEW u \in Nat, NEW m, Names(f, u, m)
  PROVE  Names(f, u, m)'
<1>1. u < next'[f]
  BY DEF BoxTyped, Names
<1>2. ASSUME NEW x \in box', x.folder = f, x.uid = u PROVE x.m = m
  BY <1>2 DEF BoxTyped, Names
<1> QED
  BY <1>1, <1>2 DEF Names

-----------------------------------------------------------------------------
(* Steps of the rows *)

\* Rows keep the message and the UID of their id; whoever is not mid-move names it.
LEMMA RowsStep ==
  ASSUME MoveInv, UNCHANGED serverVars, tangled \subseteq tangled', Active' \subseteq Active,
         \A r \in rows' : \E s \in rows : s.id = r.id /\ s.m = r.m /\ s.uid = r.uid,
         \A r \in rows' : ~r.pending /\ r.m \notin tangled' => Names(r.folder, r.uid, r.m),
         \A c \in moves' : c.dest = 0 \/ \E d \in moves : c.ask = d.ask /\ c.dest = d.dest
  PROVE  NamesInv' /\ SameInv'
<1>1. \A f, u, m : Names(f, u, m) <=> Names(f, u, m)'
  BY DEF Names, serverVars
<1>2. NamesInv'
  <2>1. \A r \in rows' : ~r.pending /\ r.m \notin tangled' => Names(r.folder, r.uid, r.m)'
    BY <1>1
  <2>2. \A a \in Active' : a.m \notin tangled' => Names(a.src, a.uid, a.m)'
    BY <1>1 DEF MoveInv, NamesInv
  <2>3. \A c \in moves' : c.dest # 0 /\ c.ask.m \notin tangled' => Names(c.ask.to, c.dest, c.ask.m)'
    BY <1>1 DEF MoveInv, NamesInv
  <2> QED
    BY <2>1, <2>2, <2>3 DEF NamesInv
<1>3. SameInv'
  <2>1. ASSUME NEW a \in Active', NEW r \in rows', r.id = a.id PROVE Same(r, a)'
    <3>1. PICK s \in rows : s.id = r.id /\ s.m = r.m /\ s.uid = r.uid
      OBVIOUS
    <3>2. Same(s, a)
      BY <2>1, <3>1 DEF MoveInv, SameInv
    <3> QED
      BY <3>1, <3>2 DEF Same
  <2> QED
    BY <2>1 DEF SameInv
<1> QED
  BY <1>2, <1>3

\* A row that goes back names the message it had.
LEMMA BackStep ==
  ASSUME MoveInv, NEW a \in Active, IsAsk(a), UNCHANGED <<serverVars, tangled>>, PutBack(a)
  PROVE  /\ RowsTyped'
         /\ \A r \in rows' : \E s \in rows : s.id = r.id /\ s.m = r.m /\ s.uid = r.uid
         /\ \A r \in rows' : ~r.pending /\ r.m \notin tangled' => Names(r.folder, r.uid, r.m)
         /\ \A r \in rows' : r.pending => r \in rows /\ (r.id = a.id => r.m \in left' \cup tangled')
         /\ left \subseteq left'
<1>1. a.src \in Folders /\ RowsTyped /\ mail' = mail
  BY DEF IsAsk, MoveInv, serverVars
<1>2. rows' = Relocated(a.id, a.src, FALSE)
      /\ left' = IF Refused(a.id, a.src) THEN left \cup {a.m} ELSE left
  BY Zenon DEF PutBack, SetMessageFolder
<1>3. RowsTyped' /\ Told(a.id, a.src, FALSE)
  BY <1>1, <1>2, MovedBack
<1>4. \A r \in rows : r.id = a.id => Same(r, a)
  BY DEF MoveInv, SameInv
<1>5. a.m \notin tangled => Names(a.src, a.uid, a.m)
  BY DEF MoveInv, NamesInv
<1>6. \A r \in rows : ~r.pending /\ r.m \notin tangled => Names(r.folder, r.uid, r.m)
  BY DEF MoveInv, NamesInv
<1>7. CASE Refused(a.id, a.src)
  <2>1. rows' = rows /\ left' = left \cup {a.m}
    BY <1>2, <1>3, <1>7 DEF Told
  <2>2. \A r \in rows' : r.id = a.id => r.m \in left' \cup tangled'
    BY <1>4, <2>1 DEF Same
  <2> QED
    BY <1>3, <1>6, <2>1, <2>2
<1>8. CASE ~Refused(a.id, a.src)
  <2>1. \A r \in rows' :
              \/ r \in rows /\ r.id # a.id
              \/ /\ r.id = a.id /\ r.folder = a.src /\ ~r.pending
                 /\ \E s \in rows : s.id = a.id /\ s.uid = r.uid /\ s.m = r.m
    BY <1>3, <1>8 DEF Told
  <2>2. \A r \in rows' : ~r.pending /\ r.m \notin tangled' => Names(r.folder, r.uid, r.m)
    <3> SUFFICES ASSUME NEW r \in rows', ~r.pending, r.m \notin tangled
                 PROVE  Names(r.folder, r.uid, r.m)
      OBVIOUS
    <3>1. CASE r \in rows
      BY <1>6, <3>1
    <3>2. CASE r.id = a.id /\ r.folder = a.src /\ \E s \in rows : s.id = a.id /\ s.uid = r.uid /\ s.m = r.m
      <4>1. PICK s \in rows : s.id = a.id /\ s.uid = r.uid /\ s.m = r.m
        BY <3>2
      <4>2. r.m = a.m /\ r.uid = a.uid
        BY <1>4, <4>1 DEF Same
      <4> QED
        BY <1>5, <3>2, <4>2
    <3> QED
      BY <2>1, <3>1, <3>2
  <2>3. left' = left
    BY <1>2, <1>8
  <2> QED
    BY <1>3, <2>1, <2>2, <2>3
<1> QED
  BY <1>7, <1>8

-----------------------------------------------------------------------------
(* Steps of the moves under way *)

\* Steps that only hand a move on.
LEMMA HandedOn ==
  ASSUME MoveInv, UNCHANGED <<serverVars, asks, rows, tangled, rest>>, left \subseteq left',
         Active' \subseteq Active, MovesTyped', ApartInv',
         \A c \in moves' : c.dest = 0 \/ \E d \in moves : c.ask = d.ask /\ c.dest = d.dest,
         \A r \in rows : r.pending /\ Owed(r) => Owed(r)' \/ r.m \in left' \cup tangled'
  PROVE  MoveInv'
<1>1. NamesInv' /\ SameInv'
  <2>1. \A r \in rows : ~r.pending /\ r.m \notin tangled => Names(r.folder, r.uid, r.m)
    BY DEF MoveInv, NamesInv
  <2> QED
    BY <2>1, RowsStep
<1>2. RestInv'
  BY DEF MoveInv, RestInv
<1>3. PendingIsOwed'
  BY DEF MoveInv, PendingIsOwed
<1>4. BoxTyped' /\ RowsTyped'
  <2>1. BoxTyped'
    BY DEF MoveInv, BoxTyped, serverVars, IsMail
  <2>2. RowsTyped'
    BY FewerRows DEF MoveInv, serverVars
  <2> QED
    BY <2>1, <2>2
<1> QED
  BY <1>1, <1>2, <1>3, <1>4 DEF MoveInv

\* Steps that put a row back.
LEMMA GivenBack ==
  ASSUME MoveInv, NEW a \in Active, IsAsk(a), PutBack(a), UNCHANGED <<serverVars, asks, tangled>>,
         Active' \subseteq Active, MovesTyped', ApartInv', RestInv',
         \A c \in moves' : c.dest = 0 \/ \E d \in moves : c.ask = d.ask /\ c.dest = d.dest,
         \A r \in rows : r.id # a.id /\ Owed(r) => Owed(r)'
  PROVE  MoveInv'
<1>1. /\ RowsTyped'
      /\ \A r \in rows' : \E s \in rows : s.id = r.id /\ s.m = r.m /\ s.uid = r.uid
      /\ \A r \in rows' : ~r.pending /\ r.m \notin tangled' => Names(r.folder, r.uid, r.m)
      /\ \A r \in rows' : r.pending => r \in rows /\ (r.id = a.id => r.m \in left' \cup tangled')
      /\ left \subseteq left'
  BY BackStep
<1>2. NamesInv' /\ SameInv'
  BY <1>1, RowsStep
<1>3. PendingIsOwed'
  <2> SUFFICES ASSUME NEW r \in rows', r.pending PROVE Owed(r)' \/ r.m \in left' \cup tangled'
    BY DEF PendingIsOwed
  <2>1. CASE r.id = a.id
    BY <1>1, <2>1
  <2>2. CASE r.id # a.id
    BY <1>1, <2>2 DEF MoveInv, PendingIsOwed
  <2> QED
    BY <2>1, <2>2
<1>4. BoxTyped'
  BY DEF MoveInv, BoxTyped, serverVars, IsMail
<1> QED
  BY <1>1, <1>2, <1>3, <1>4 DEF MoveInv

LEMMA TimerFiresStep == ASSUME MoveInv, TimerFires PROVE MoveInv'
<1>1. PICK t \in timers : /\ t.armed
                          /\ timers' = (timers \ {t}) \cup {[t EXCEPT !.armed = FALSE]}
                          /\ UNCHANGED <<serverVars, rows, moves, asks, history, faults>>
  BY DEF TimerFires
<1>2. PICK q : q = [t EXCEPT !.armed = FALSE]
  OBVIOUS
<1>3. IsTimer(t) /\ IsTimer(q) /\ q.ask = t.ask /\ q.mapped = t.mapped
  BY <1>2 DEF MoveInv, MovesTyped, IsTimer
<1>4. timers' = (timers \ {t}) \cup {q} /\ UNCHANGED <<moves, rest, rows, tangled, left>>
  BY <1>1, <1>2 DEF history
<1>5. MovesTyped'
  <2>1. \A s \in timers' : IsTimer(s)'
    BY <1>1, <1>3, <1>4 DEF MoveInv, MovesTyped, IsTimer, IsAsk, serverVars
  <2>2. \A c \in moves' : IsCommand(c)'
    BY <1>1, <1>4 DEF MoveInv, MovesTyped, IsCommand, IsAsk, serverVars
  <2>3. \A s, u \in timers' : s.ask.id = u.ask.id /\ s.mapped /\ u.mapped => s = u
    BY <1>3, <1>4 DEF MoveInv, MovesTyped
  <2>4. rest' \subseteq 1..mail'
    BY <1>1, <1>4 DEF MoveInv, MovesTyped, serverVars
  <2> QED
    BY <2>1, <2>2, <2>3, <2>4 DEF MovesTyped
<1>6. ApartInv'
  BY <1>3, <1>4 DEF MoveInv, ApartInv, Apart
<1>7. Active' \subseteq Active
  BY <1>3, <1>4 DEF Active
<1>8. \A r \in rows : Owed(r) => Owed(r)'
  BY <1>3, <1>4 DEF Owed, Sharing
<1> QED
  BY <1>1, <1>4, <1>5, <1>6, <1>7, <1>8, HandedOn

LEMMA UndoTooLateStep == ASSUME MoveInv, UndoTooLate PROVE MoveInv'
<1>1. PICK t \in timers : /\ timers' = (timers \ {t}) \cup {[t EXCEPT !.mapped = FALSE]}
                          /\ UNCHANGED <<serverVars, rows, moves, asks, history, faults>>
  BY DEF UndoTooLate
<1>2. PICK q : q = [t EXCEPT !.mapped = FALSE]
  OBVIOUS
<1>3. IsTimer(t) /\ IsTimer(q) /\ q.ask = t.ask /\ ~q.mapped
  BY <1>2 DEF MoveInv, MovesTyped, IsTimer
<1>4. timers' = (timers \ {t}) \cup {q} /\ UNCHANGED <<moves, rest, rows, tangled, left>>
  BY <1>1, <1>2 DEF history
<1>5. MovesTyped'
  <2>1. \A s \in timers' : IsTimer(s)'
    BY <1>1, <1>3, <1>4 DEF MoveInv, MovesTyped, IsTimer, IsAsk, serverVars
  <2>2. \A c \in moves' : IsCommand(c)'
    BY <1>1, <1>4 DEF MoveInv, MovesTyped, IsCommand, IsAsk, serverVars
  <2>3. \A s, u \in timers' : s.ask.id = u.ask.id /\ s.mapped /\ u.mapped => s = u
    BY <1>3, <1>4 DEF MoveInv, MovesTyped
  <2>4. rest' \subseteq 1..mail'
    BY <1>1, <1>4 DEF MoveInv, MovesTyped, serverVars
  <2> QED
    BY <2>1, <2>2, <2>3, <2>4 DEF MovesTyped
<1>6. ApartInv'
  BY <1>3, <1>4 DEF MoveInv, ApartInv, Apart
<1>7. Active' \subseteq Active
  BY <1>3, <1>4 DEF Active
<1>8. \A r \in rows : Owed(r) => Owed(r)'
  BY <1>3, <1>4 DEF Owed, Sharing
<1> QED
  BY <1>1, <1>4, <1>5, <1>6, <1>7, <1>8, HandedOn

\* A message's entry leaves the map; its timers stay.
Off(x, i) == [x EXCEPT !.mapped = @ /\ x.ask.id # i]

LEMMA OffTimer ==
  ASSUME NEW x, IsTimer(x), NEW i
  PROVE  /\ IsTimer(Off(x, i)) /\ Off(x, i).ask = x.ask
         /\ Off(x, i).mapped => x.mapped /\ x.ask.id # i
<1>1. Off(x, i) = [x EXCEPT !.mapped = x.mapped /\ x.ask.id # i]
  BY DEF Off, IsTimer
<1>2. PICK b \in BOOLEAN : b = (x.mapped /\ x.ask.id # i)
  BY DEF IsTimer
<1>3. Off(x, i) = [x EXCEPT !.mapped = b]
  BY <1>1, <1>2, Zenon
<1>4. IsTimer([x EXCEPT !.mapped = b]) /\ [x EXCEPT !.mapped = b].ask = x.ask
      /\ [x EXCEPT !.mapped = b].mapped = b
  BY DEF IsTimer
<1>5. b => x.mapped /\ x.ask.id # i
  BY <1>2
<1> QED
  BY <1>3, <1>4, <1>5

\* A goroutine for a move, and what it means that one starts.
Queued(a) == [ask |-> a, at |-> "queued", heard |-> TRUE, dest |-> 0]

LEMMA QueuedIsCommand ==
  ASSUME NEW a, IsAsk(a), a.to # a.src
  PROVE  /\ IsCommand(Queued(a)) /\ Queued(a).ask = a /\ Queued(a).dest = 0
         /\ Queued(a).heard
BY DEF IsCommand, Queued

LEMMA Started ==
  ASSUME NEW a, IsAsk(a), Start(a)
  PROVE  \/ a.to = a.src /\ left' = left \cup {a.m} /\ moves' = moves
         \/ a.to # a.src /\ left' = left /\ moves' = moves \cup {Queued(a)}
BY DEF Start, Queued

LEMMA TimerRunsStep == ASSUME MoveInv, TimerRuns PROVE MoveInv'
<1>1. PICK t \in timers :
        /\ timers' = {[x EXCEPT !.mapped = @ /\ x.ask.id # t.ask.id] : x \in timers \ {t}}
        /\ Start(t.ask)
        /\ UNCHANGED <<serverVars, rows, asks, rest, tangled, faults>>
  BY DEF TimerRuns
<1> DEFINE a == t.ask
<1>2. IsTimer(t) /\ IsAsk(a) /\ \A x \in timers : IsTimer(x)
  BY DEF MoveInv, MovesTyped, IsTimer
<1>3. timers' = {Off(x, a.id) : x \in timers \ {t}}
  BY <1>1 DEF Off
<1>4. \/ a.to = a.src /\ left' = left \cup {a.m} /\ moves' = moves
      \/ a.to # a.src /\ left' = left /\ moves' = moves \cup {Queued(a)}
  BY <1>1, <1>2, Started
<1>5. \A x \in timers : /\ IsTimer(Off(x, a.id)) /\ Off(x, a.id).ask = x.ask
                        /\ Off(x, a.id).mapped => x.mapped /\ x.ask.id # a.id
  BY <1>2, OffTimer
<1>6. \A y \in timers' : \E x \in timers : x # t /\ y = Off(x, a.id)
  BY <1>3
<1>7. \A x \in timers : x # t => Off(x, a.id) \in timers'
  BY <1>3
<1>8. a.to # a.src => /\ IsCommand(Queued(a)) /\ Queued(a).ask = a /\ Queued(a).dest = 0
                      /\ Queued(a).heard
  BY <1>2, QueuedIsCommand
<1>9. a \in Active /\ \A x \in timers : x.ask \in Active
  BY DEF Active
<1> HIDE DEF a
<1>10. MovesTyped'
  <2>1. \A s \in timers' : IsTimer(s)'
    BY <1>1, <1>5, <1>6 DEF IsTimer, IsAsk, serverVars
  <2>2. \A c \in moves' : IsCommand(c)
    BY <1>4, <1>8 DEF MoveInv, MovesTyped
  <2>3. \A c \in moves' : IsCommand(c)'
    BY <1>1, <2>2 DEF IsCommand, IsAsk, serverVars
  <2>4. \A s, u \in timers' : s.ask.id = u.ask.id /\ s.mapped /\ u.mapped => s = u
    <3> SUFFICES ASSUME NEW s \in timers', NEW u \in timers', s.ask.id = u.ask.id, s.mapped,
                        u.mapped
                 PROVE  s = u
      OBVIOUS
    <3>1. PICK x \in timers : s = Off(x, a.id)
      BY <1>6
    <3>2. PICK y \in timers : u = Off(y, a.id)
      BY <1>6
    <3>3. x = y
      BY <1>5, <3>1, <3>2 DEF MoveInv, MovesTyped
    <3> QED
      BY <3>1, <3>2, <3>3
  <2>5. rest' \subseteq 1..mail'
    BY <1>1 DEF MoveInv, MovesTyped, serverVars
  <2> QED
    BY <2>1, <2>3, <2>4, <2>5 DEF MovesTyped
<1>11. ApartInv'
  <2>1. \A x, y : Apart(x, y) <=> Apart(x, y)'
    BY <1>1 DEF Apart
  <2>2. ASSUME NEW s \in timers', NEW u \in timers', s # u PROVE Apart(s.ask, u.ask)
    <3>1. PICK x \in timers : s = Off(x, a.id)
      BY <1>6
    <3>2. PICK y \in timers : u = Off(y, a.id)
      BY <1>6
    <3>3. x # y
      BY <2>2, <3>1, <3>2
    <3> QED
      BY <1>5, <3>1, <3>2, <3>3 DEF MoveInv, ApartInv
  <2>3. ASSUME NEW s \in timers', NEW c \in moves' PROVE Apart(s.ask, c.ask)
    <3>1. PICK x \in timers : x # t /\ s = Off(x, a.id)
      BY <1>6
    <3>2. s.ask = x.ask
      BY <1>5, <3>1
    <3>3. CASE c \in moves
      BY <3>2, <3>3 DEF MoveInv, ApartInv
    <3>4. CASE c = Queued(a) /\ a.to # a.src
      <4>1. c.ask = t.ask
        BY <1>8, <3>4 DEF a
      <4> QED
        BY <3>1, <3>2, <4>1 DEF MoveInv, ApartInv
    <3> QED
      BY <1>4, <3>3, <3>4
  <2>4. ASSUME NEW c \in moves', NEW d \in moves', c # d PROVE Apart(c.ask, d.ask)
    <3>1. CASE c \in moves /\ d \in moves
      BY <2>4, <3>1 DEF MoveInv, ApartInv
    <3>2. CASE c \in moves /\ d \notin moves
      <4>1. d.ask = t.ask
        BY <1>4, <1>8, <3>2 DEF a
      <4> QED
        BY <3>2, <4>1 DEF MoveInv, ApartInv, Apart
    <3>3. CASE c \notin moves /\ d \in moves
      <4>1. c.ask = t.ask
        BY <1>4, <1>8, <3>3 DEF a
      <4> QED
        BY <3>3, <4>1 DEF MoveInv, ApartInv, Apart
    <3>4. CASE c \notin moves /\ d \notin moves
      BY <1>4, <2>4, <3>4
    <3> QED
      BY <3>1, <3>2, <3>3, <3>4
  <2> QED
    BY <2>1, <2>2, <2>3, <2>4 DEF ApartInv
<1>12. Active' \subseteq Active
  <2>1. \A s \in timers' : s.ask \in Active
    BY <1>5, <1>6, <1>9
  <2>2. \A c \in moves' : c.ask \in Active
    BY <1>4, <1>8, <1>9 DEF Active
  <2> QED
    BY <2>1, <2>2 DEF Active
<1>13. \A c \in moves' : c.dest = 0 \/ \E d \in moves : c.ask = d.ask /\ c.dest = d.dest
  BY <1>4, <1>8
<1>14. left \subseteq left'
  BY <1>4
<1>15. ASSUME NEW r \in rows, Owed(r) PROVE Owed(r)' \/ r.m \in left' \cup tangled'
  <2>1. CASE \E c \in moves : c.heard /\ c.ask.id = r.id
    <3>1. moves \subseteq moves'
      BY <1>4
    <3> QED
      BY <2>1, <3>1 DEF Owed, Sharing
  <2>2. CASE \E x \in timers : x # t /\ x.ask.id = r.id
    <3>1. \E y \in timers' : y.ask.id = r.id
      BY <1>5, <1>7, <2>2
    <3> QED
      BY <3>1 DEF Owed, Sharing
  <2>3. CASE r.id = a.id
    <3>1. CASE a.to # a.src
      <4>1. Queued(a) \in moves' /\ Queued(a).heard /\ Queued(a).ask.id = r.id
        BY <1>4, <1>8, <2>3, <3>1
      <4> QED
        BY <4>1 DEF Owed, Sharing
    <3>2. CASE a.to = a.src
      <4>1. Same(r, a)
        BY <1>9, <2>3 DEF MoveInv, SameInv
      <4>2. a.m \in left'
        BY <1>4, <3>2
      <4> QED
        BY <1>1, <4>1, <4>2 DEF Same
    <3> QED
      BY <3>1, <3>2
  <2>4. \/ \E c \in moves : c.heard /\ c.ask.id = r.id
        \/ \E x \in timers : x.ask.id = r.id
    BY <1>15 DEF Owed, Sharing
  <2> QED
    BY <2>1, <2>2, <2>3, <2>4 DEF a
<1>16. MoveInv /\ UNCHANGED <<serverVars, asks, rows, tangled, rest>>
  BY <1>1
<1> QED
  BY <1>10, <1>11, <1>12, <1>13, <1>14, <1>15, <1>16, HandedOn

LEMMA RestartStep == ASSUME MoveInv, Restart PROVE MoveInv'
<1>1. /\ timers' = {} /\ moves' = {}
      /\ left' = left \cup {r.m : r \in {x \in rows : x.pending}}
      /\ UNCHANGED <<serverVars, rows, asks, rest, tangled>>
  BY DEF Restart
<1>2. MovesTyped' /\ ApartInv' /\ Active' \subseteq Active
  BY <1>1 DEF MoveInv, MovesTyped, ApartInv, Active, serverVars
<1>3. \A r \in rows : r.pending => r.m \in left'
  BY <1>1
<1> QED
  BY <1>1, <1>2, <1>3, HandedOn

LEMMA HandleUndoMoveStep == ASSUME MoveInv, HandleUndoMove PROVE MoveInv'
<1>1. PICK t \in timers :
        /\ timers' = timers \ {t} /\ PutBack(t.ask)
        /\ rest' = IF \E x \in (timers \ {t}) \cup moves : x.ask.m = t.ask.m
                     THEN rest ELSE rest \cup {t.ask.m}
        /\ UNCHANGED <<serverVars, moves, asks, tangled, faults>>
  BY DEF HandleUndoMove, CancelPendingMove
<1>2. IsAsk(t.ask) /\ t.ask \in Active
  BY DEF MoveInv, MovesTyped, IsTimer, Active
<1>3. MovesTyped'
  <2>1. \A s \in timers' : IsTimer(s)'
    BY <1>1 DEF MoveInv, MovesTyped, IsTimer, IsAsk, serverVars
  <2>2. \A c \in moves' : IsCommand(c)'
    BY <1>1 DEF MoveInv, MovesTyped, IsCommand, IsAsk, serverVars
  <2>3. rest' \subseteq 1..mail'
    BY <1>1, <1>2 DEF MoveInv, MovesTyped, serverVars, IsAsk
  <2> QED
    BY <1>1, <2>1, <2>2, <2>3 DEF MoveInv, MovesTyped
<1>4. ApartInv' /\ Active' \subseteq Active
  BY <1>1 DEF MoveInv, ApartInv, Apart, Active
<1>5. RestInv'
  <2>1. \A a \in Active' : \E x \in (timers \ {t}) \cup moves : x.ask = a
    BY <1>1 DEF Active
  <2>2. CASE rest' = rest
    BY <1>4, <2>2 DEF MoveInv, RestInv
  <2>3. CASE rest' = rest \cup {t.ask.m} /\ ~\E x \in (timers \ {t}) \cup moves : x.ask.m = t.ask.m
    BY <1>4, <2>1, <2>3 DEF MoveInv, RestInv
  <2> QED
    BY <1>1, <2>2, <2>3
<1>6. \A r \in rows : r.id # t.ask.id /\ Owed(r) => Owed(r)'
  BY <1>1 DEF Owed, Sharing
<1>7. \A c \in moves' : \E d \in moves : c.ask = d.ask /\ c.dest = d.dest
  BY <1>1
<1> QED
  BY <1>1, <1>2, <1>3, <1>4, <1>5, <1>6, <1>7, GivenBack

LEMMA GiveUpStep == ASSUME MoveInv, GiveUp PROVE MoveInv'
<1>1. PICK c \in moves :
        /\ moves' = (moves \ {c}) \cup {[c EXCEPT !.heard = FALSE]}
        /\ PutBack(c.ask)
        /\ UNCHANGED <<serverVars, timers, asks, rest, tangled>>
  BY DEF GiveUp
<1>2. PICK q : q = [c EXCEPT !.heard = FALSE]
  OBVIOUS
<1>3. IsCommand(c) /\ IsCommand(q) /\ q.ask = c.ask /\ q.dest = c.dest /\ ~q.heard
  BY <1>2 DEF MoveInv, MovesTyped, IsCommand
<1>4. IsAsk(c.ask) /\ c.ask \in Active
  BY <1>3 DEF IsCommand, Active
<1>5. moves' = (moves \ {c}) \cup {q}
  BY <1>1, <1>2
<1>6. MovesTyped'
  <2>1. \A s \in timers' : IsTimer(s)'
    BY <1>1 DEF MoveInv, MovesTyped, IsTimer, IsAsk, serverVars
  <2>2. \A d \in moves' : IsCommand(d)'
    BY <1>1, <1>3, <1>5 DEF MoveInv, MovesTyped, IsCommand, IsAsk, serverVars
  <2> QED
    BY <1>1, <2>1, <2>2 DEF MoveInv, MovesTyped, serverVars
<1>7. ApartInv'
  BY <1>1, <1>3, <1>5 DEF MoveInv, ApartInv, Apart
<1>8. Active' \subseteq Active
  BY <1>1, <1>3, <1>5 DEF Active
<1>9. RestInv'
  BY <1>1, <1>8 DEF MoveInv, RestInv
<1>10. \A r \in rows : r.id # c.ask.id /\ Owed(r) => Owed(r)'
  BY <1>1, <1>5 DEF Owed, Sharing
<1>11. \A d \in moves' : \E e \in moves : d.ask = e.ask /\ d.dest = e.dest
  BY <1>3, <1>5
<1> QED
  BY <1>1, <1>4, <1>6, <1>7, <1>8, <1>9, <1>10, <1>11, GivenBack

LEMMA ConnLostStep == ASSUME MoveInv, ConnLost PROVE MoveInv'
<1>1. PICK c \in moves :
        /\ moves' = moves \ {c}
        /\ IF c.heard THEN PutBack(c.ask) ELSE UNCHANGED <<rows, left>>
        /\ UNCHANGED <<serverVars, timers, asks, rest, tangled>>
  BY DEF ConnLost
<1>2. IsAsk(c.ask) /\ c.ask \in Active
  BY DEF MoveInv, MovesTyped, IsCommand, Active
<1>3. MovesTyped'
  <2>1. \A s \in timers' : IsTimer(s)'
    BY <1>1 DEF MoveInv, MovesTyped, IsTimer, IsAsk, serverVars
  <2>2. \A d \in moves' : IsCommand(d)'
    BY <1>1 DEF MoveInv, MovesTyped, IsCommand, IsAsk, serverVars
  <2> QED
    BY <1>1, <2>1, <2>2 DEF MoveInv, MovesTyped, serverVars
<1>4. ApartInv' /\ Active' \subseteq Active
  BY <1>1 DEF MoveInv, ApartInv, Apart, Active
<1>5. RestInv'
  BY <1>1, <1>4 DEF MoveInv, RestInv
<1>6. \A d \in moves' : \E e \in moves : d.ask = e.ask /\ d.dest = e.dest
  BY <1>1
<1>7. CASE c.heard
  <2>1. PutBack(c.ask)
    BY <1>1, <1>7
  <2>2. \A r \in rows : r.id # c.ask.id /\ Owed(r) => Owed(r)'
    BY <1>1 DEF Owed, Sharing
  <2> QED
    BY <1>1, <1>2, <1>3, <1>4, <1>5, <1>6, <2>1, <2>2, GivenBack
<1>8. CASE ~c.heard
  <2>1. \A r \in rows : Owed(r) => Owed(r)'
    BY <1>1, <1>8 DEF Owed, Sharing
  <2> QED
    BY <1>1, <1>3, <1>4, <1>6, <1>8, <2>1, HandedOn
<1> QED
  BY <1>7, <1>8

-----------------------------------------------------------------------------
(* A move asked for *)

\* The row is told; whoever else had it under way is tangled with it.
LEMMA Pressed ==
  ASSUME MoveInv, NEW r \in rows, NEW to \in Folders, Press(r, to), UNCHANGED serverVars
  PROVE  /\ IsAsk(Ask(r, to))
         /\ Ask(r, to).id = r.id /\ Ask(r, to).m = r.m /\ Ask(r, to).uid = r.uid
         /\ Ask(r, to).src = r.folder /\ Ask(r, to).to = to
         /\ asks' \in Nat /\ tangled \subseteq tangled' /\ rest' = rest \ {r.m}
         /\ r.pending => r.m \in tangled'
         /\ \A b \in Active : b.id = r.id => r.m \in tangled' /\ b.m \in tangled'
         /\ RowsTyped' /\ Told(r.id, to, TRUE)
<1>1. IsRow(r) /\ asks' = asks + 1 /\ asks \in Nat
  BY DEF Press, MoveInv, RowsTyped, BoxTyped
<1>2. /\ IsAsk(Ask(r, to))
      /\ Ask(r, to).id = r.id /\ Ask(r, to).m = r.m /\ Ask(r, to).uid = r.uid
      /\ Ask(r, to).src = r.folder /\ Ask(r, to).to = to
  <2>1. asks' \in Nat /\ mail' = mail
    BY <1>1 DEF serverVars
  <2>2. Ask(r, to) = [n |-> asks', id |-> r.id, m |-> r.m, src |-> r.folder, uid |-> r.uid,
                      to |-> to]
    BY DEF Ask
  <2>3. PICK k \in Nat : k = asks'
    BY <2>1
  <2>4. PICK a : a = Ask(r, to)
    OBVIOUS
  <2>5. a = [n |-> k, id |-> r.id, m |-> r.m, src |-> r.folder, uid |-> r.uid, to |-> to]
    BY <2>2, <2>3, <2>4
  <2>6. /\ a \in [n : Nat, id : Nat, m : 1..mail, src : Folders, uid : Nat \ {0}, to : Folders]
        /\ a.id = r.id /\ a.m = r.m /\ a.uid = r.uid /\ a.src = r.folder /\ a.to = to
    BY <1>1, <2>5 DEF IsRow
  <2> QED
    BY <2>1, <2>4, <2>6 DEF IsAsk
<1>3. /\ rows' = Relocated(r.id, to, TRUE) /\ rest' = rest \ {r.m}
      /\ tangled' = IF r.pending \/ Sharing(r, timers) \cup Sharing(r, moves) # {}
                      THEN tangled \cup {r.m} ELSE tangled
  BY DEF Press, SetMessageFolderPending
<1>4. RowsTyped' /\ Told(r.id, to, TRUE)
  BY <1>3, MovedOn DEF MoveInv, serverVars
<1>5. ASSUME NEW b \in Active, b.id = r.id PROVE r.m \in tangled' /\ b.m \in tangled'
  <2>1. Sharing(r, timers) \cup Sharing(r, moves) # {}
    BY <1>5 DEF Active, Sharing
  <2>2. Same(r, b)
    BY <1>5 DEF MoveInv, SameInv
  <2> QED
    BY <1>3, <2>1, <2>2 DEF Same
<1>6. asks' \in Nat
  BY <1>1
<1>7. tangled \subseteq tangled' /\ rest' = rest \ {r.m} /\ (r.pending => r.m \in tangled')
  BY <1>3
<1> QED
  BY <1>2, <1>4, <1>5, <1>6, <1>7

LEMMA PressedStep ==
  ASSUME MoveInv, NEW r \in rows, NEW to \in Folders, Press(r, to), UNCHANGED serverVars,
         NEW a, a = Ask(r, to), Active' \subseteq Active \cup {a}, MovesTyped', ApartInv',
         \A c \in moves' : c.dest = 0 \/ \E d \in moves : c.ask = d.ask /\ c.dest = d.dest,
         left \subseteq left',
         \A s \in rows : s.id # r.id /\ Owed(s) => Owed(s)',
         \A s : s.id = r.id /\ s.m = r.m => Owed(s)' \/ s.m \in left' \cup tangled'
  PROVE  MoveInv'
<1>1. /\ a.id = r.id /\ a.m = r.m /\ a.uid = r.uid /\ a.src = r.folder
      /\ asks' \in Nat /\ tangled \subseteq tangled' /\ rest' = rest \ {r.m}
      /\ r.pending => r.m \in tangled'
      /\ RowsTyped' /\ Told(r.id, to, TRUE)
  BY Pressed
<1>2. \A s \in rows' : /\ \E q \in rows : q.id = s.id /\ q.m = s.m /\ q.uid = s.uid
                       /\ s \in rows \/ (s.id = r.id /\ s.pending = TRUE)
  BY <1>1 DEF Told
<1>3. \A q \in rows : q.id = r.id => q = r
  BY DEF MoveInv, RowsTyped
<1>4. \A f, u, m : Names(f, u, m) <=> Names(f, u, m)'
  BY DEF Names, serverVars
<1>5. NamesInv'
  <2>1. \A s \in rows' : ~s.pending /\ s.m \notin tangled' => Names(s.folder, s.uid, s.m)
    BY <1>1, <1>2 DEF MoveInv, NamesInv
  <2>2. ASSUME NEW b \in Active', b.m \notin tangled' PROVE Names(b.src, b.uid, b.m)
    <3>1. CASE b \in Active
      BY <1>1, <2>2, <3>1 DEF MoveInv, NamesInv
    <3>2. CASE b = a
      <4>1. ~r.pending /\ r.m \notin tangled
        BY <1>1, <2>2, <3>2
      <4>2. Names(r.folder, r.uid, r.m)
        BY <4>1 DEF MoveInv, NamesInv
      <4> QED
        BY <1>1, <3>2, <4>2
    <3> QED
      BY <3>1, <3>2
  <2>3. \A c \in moves' : c.dest # 0 /\ c.ask.m \notin tangled' => Names(c.ask.to, c.dest, c.ask.m)
    BY <1>1 DEF MoveInv, NamesInv
  <2> QED
    BY <1>4, <2>1, <2>2, <2>3 DEF NamesInv
<1>6. SameInv'
  <2> SUFFICES ASSUME NEW b \in Active', NEW s \in rows', s.id = b.id PROVE Same(s, b)'
    BY DEF SameInv
  <2>1. PICK q \in rows : q.id = s.id /\ q.m = s.m /\ q.uid = s.uid
    BY <1>2
  <2>2. CASE b \in Active
    <3>1. Same(q, b)
      BY <2>1, <2>2 DEF MoveInv, SameInv
    <3> QED
      BY <1>1, <2>1, <3>1 DEF Same
  <2>3. CASE b = a
    BY <1>1, <1>3, <2>1, <2>3 DEF Same
  <2> QED
    BY <2>2, <2>3
<1>7. RestInv'
  BY <1>1 DEF MoveInv, RestInv
<1>8. BoxTyped'
  BY <1>1 DEF MoveInv, BoxTyped, serverVars, IsMail
<1>9. PendingIsOwed'
  <2> SUFFICES ASSUME NEW s \in rows', s.pending PROVE Owed(s)' \/ s.m \in left' \cup tangled'
    BY DEF PendingIsOwed
  <2>1. CASE s.id = r.id
    <3>1. s.m = r.m
      BY <1>2, <1>3, <2>1
    <3> QED
      BY <2>1, <3>1
  <2>2. CASE s.id # r.id
    <3>1. s \in rows
      BY <1>2, <2>2
    <3> QED
      BY <1>1, <2>2, <3>1 DEF MoveInv, PendingIsOwed
  <2> QED
    BY <2>1, <2>2
<1> QED
  BY <1>1, <1>5, <1>6, <1>7, <1>8, <1>9 DEF MoveInv

LEMMA ApiMoveStep == ASSUME MoveInv, ApiMove PROVE MoveInv'
<1>1. PICK r \in rows, to \in Folders :
        Press(r, to) /\ Start(Ask(r, to)) /\ UNCHANGED <<serverVars, timers, faults>>
  BY DEF ApiMove
<1>2. PICK a : a = Ask(r, to)
  OBVIOUS
<1>3. /\ IsAsk(a) /\ a.id = r.id /\ a.m = r.m
      /\ tangled \subseteq tangled' /\ rest' \subseteq rest
      /\ \A b \in Active : b.id = r.id => r.m \in tangled' /\ b.m \in tangled'
  BY <1>1, <1>2, Pressed
<1>4. \/ a.to = a.src /\ left' = left \cup {a.m} /\ moves' = moves
      \/ a.to # a.src /\ left' = left /\ moves' = moves \cup {Queued(a)}
  BY <1>1, <1>2, <1>3, Started
<1>5. a.to # a.src => /\ IsCommand(Queued(a)) /\ Queued(a).ask = a /\ Queued(a).dest = 0
                      /\ Queued(a).heard
  BY <1>3, QueuedIsCommand
<1>6. (\A x \in timers : x.ask \in Active) /\ (\A c \in moves : c.ask \in Active)
  BY DEF Active
<1>7. MovesTyped'
  <2>1. \A s \in timers' : IsTimer(s)'
    BY <1>1 DEF MoveInv, MovesTyped, IsTimer, IsAsk, serverVars
  <2>2. \A c \in moves' : IsCommand(c)
    BY <1>4, <1>5 DEF MoveInv, MovesTyped
  <2>3. \A c \in moves' : IsCommand(c)'
    BY <1>1, <2>2 DEF IsCommand, IsAsk, serverVars
  <2> QED
    BY <1>1, <1>3, <2>1, <2>3 DEF MoveInv, MovesTyped, serverVars
<1>8. ApartInv'
  <2>1. \A x, y : Apart(x, y) => Apart(x, y)'
    BY <1>3 DEF Apart
  <2>2. \A b \in Active : Apart(b, a)' /\ Apart(a, b)'
    BY <1>3 DEF Apart
  <2>3. \A s, u \in timers' : s # u => Apart(s.ask, u.ask)'
    BY <1>1, <2>1 DEF MoveInv, ApartInv
  <2>4. \A s \in timers', c \in moves' : Apart(s.ask, c.ask)'
    BY <1>1, <1>4, <1>5, <1>6, <2>1, <2>2 DEF MoveInv, ApartInv
  <2>5. \A c, d \in moves' : c # d => Apart(c.ask, d.ask)'
    BY <1>4, <1>5, <1>6, <2>1, <2>2 DEF MoveInv, ApartInv
  <2> QED
    BY <2>3, <2>4, <2>5 DEF ApartInv
<1>9. Active' \subseteq Active \cup {a}
  BY <1>1, <1>4, <1>5 DEF Active
<1>10. \A c \in moves' : c.dest = 0 \/ \E d \in moves : c.ask = d.ask /\ c.dest = d.dest
  BY <1>4, <1>5
<1>11. \A s : Owed(s) => Owed(s)'
  BY <1>1, <1>4 DEF Owed, Sharing
<1>12. ASSUME NEW s, s.id = r.id, s.m = r.m PROVE Owed(s)' \/ s.m \in left' \cup tangled'
  <2>1. CASE a.to = a.src
    BY <1>3, <1>4, <1>12, <2>1
  <2>2. CASE a.to # a.src
    <3>1. Queued(a) \in moves' /\ Queued(a).heard /\ Queued(a).ask.id = s.id
      BY <1>3, <1>4, <1>5, <1>12, <2>2
    <3> QED
      BY <3>1 DEF Owed, Sharing
  <2> QED
    BY <2>1, <2>2
<1>13. left \subseteq left' /\ UNCHANGED serverVars
  BY <1>1, <1>4
<1> QED
  BY <1>1, <1>2, <1>7, <1>8, <1>9, <1>10, <1>11, <1>12, <1>13, PressedStep

LEMMA HandleMoveStep == ASSUME MoveInv, HandleMove PROVE MoveInv'
<1>1. PICK r \in rows, to \in Folders :
        /\ Press(r, to) /\ timers' = SchedulePendingMove(Ask(r, to))
        /\ UNCHANGED <<serverVars, moves, left, faults>>
  BY DEF HandleMove
<1>2. PICK a : a = Ask(r, to)
  OBVIOUS
<1>3. /\ IsAsk(a) /\ a.id = r.id /\ a.m = r.m
      /\ tangled \subseteq tangled' /\ rest' \subseteq rest
      /\ \A b \in Active : b.id = r.id => r.m \in tangled' /\ b.m \in tangled'
  BY <1>1, <1>2, Pressed
<1>4. PICK t : t = [ask |-> a, armed |-> TRUE, mapped |-> TRUE]
  OBVIOUS
<1> DEFINE gone(y) == y.ask.id = a.id /\ y.mapped /\ y.armed
<1>5. timers' = {Off(x, a.id) : x \in {y \in timers : ~gone(y)}} \cup {t}
  BY <1>1, <1>2, <1>4 DEF SchedulePendingMove, Off
<1>6. IsTimer(t) /\ t.ask = a
  BY <1>3, <1>4 DEF IsTimer
<1>7. \A x \in timers : /\ IsTimer(Off(x, a.id)) /\ Off(x, a.id).ask = x.ask
                        /\ Off(x, a.id).mapped => x.mapped /\ x.ask.id # a.id
  BY OffTimer DEF MoveInv, MovesTyped
<1>8. \A y \in timers' : y = t \/ \E x \in timers : y = Off(x, a.id)
  BY <1>5
<1>9. /\ t \in timers'
      /\ \A x \in timers : x.ask.id # a.id => Off(x, a.id) \in timers'
  BY <1>5
<1>10. (\A x \in timers : x.ask \in Active) /\ (\A c \in moves : c.ask \in Active)
  BY DEF Active
<1>11. MovesTyped'
  <2>1. \A s \in timers' : IsTimer(s)
    BY <1>6, <1>7, <1>8
  <2>2. \A s \in timers' : IsTimer(s)'
    BY <1>1, <2>1 DEF IsTimer, IsAsk, serverVars
  <2>3. \A c \in moves' : IsCommand(c)'
    BY <1>1 DEF MoveInv, MovesTyped, IsCommand, IsAsk, serverVars
  <2>4. \A s, u \in timers' : s.ask.id = u.ask.id /\ s.mapped /\ u.mapped => s = u
    <3> SUFFICES ASSUME NEW s \in timers', NEW u \in timers', s.ask.id = u.ask.id, s.mapped,
                        u.mapped
                 PROVE  s = u
      OBVIOUS
    <3>1. CASE s = t
      BY <1>6, <1>7, <1>8, <3>1
    <3>2. CASE u = t
      BY <1>6, <1>7, <1>8, <3>2
    <3>3. CASE s # t /\ u # t
      <4>1. PICK x \in timers : s = Off(x, a.id)
        BY <1>8, <3>3
      <4>2. PICK y \in timers : u = Off(y, a.id)
        BY <1>8, <3>3
      <4>3. x = y
        BY <1>7, <4>1, <4>2 DEF MoveInv, MovesTyped
      <4> QED
        BY <4>1, <4>2, <4>3
    <3> QED
      BY <3>1, <3>2, <3>3
  <2> QED
    BY <1>1, <1>3, <2>2, <2>3, <2>4 DEF MoveInv, MovesTyped, serverVars
<1>12. ApartInv'
  <2>1. \A x, y : Apart(x, y) => Apart(x, y)'
    BY <1>3 DEF Apart
  <2>2. \A b \in Active : Apart(b, a)' /\ Apart(a, b)'
    BY <1>3 DEF Apart
  <2>3. ASSUME NEW s \in timers', NEW u \in timers', s # u PROVE Apart(s.ask, u.ask)'
    <3>1. CASE s = t
      BY <1>6, <1>7, <1>8, <1>10, <2>2, <2>3, <3>1
    <3>2. CASE u = t
      BY <1>6, <1>7, <1>8, <1>10, <2>2, <2>3, <3>2
    <3>3. CASE s # t /\ u # t
      <4>1. PICK x \in timers : s = Off(x, a.id)
        BY <1>8, <3>3
      <4>2. PICK y \in timers : u = Off(y, a.id)
        BY <1>8, <3>3
      <4>3. x # y
        BY <2>3, <4>1, <4>2
      <4> QED
        BY <1>7, <2>1, <4>1, <4>2, <4>3 DEF MoveInv, ApartInv
    <3> QED
      BY <3>1, <3>2, <3>3
  <2>4. ASSUME NEW s \in timers', NEW c \in moves' PROVE Apart(s.ask, c.ask)'
    <3>1. c \in moves
      BY <1>1
    <3>2. CASE s = t
      BY <1>6, <1>10, <2>2, <3>1, <3>2
    <3>3. CASE s # t
      <4>1. PICK x \in timers : s = Off(x, a.id)
        BY <1>8, <3>3
      <4> QED
        BY <1>7, <2>1, <3>1, <4>1 DEF MoveInv, ApartInv
    <3> QED
      BY <3>2, <3>3
  <2>5. \A c, d \in moves' : c # d => Apart(c.ask, d.ask)'
    BY <1>1, <2>1 DEF MoveInv, ApartInv
  <2> QED
    BY <2>3, <2>4, <2>5 DEF ApartInv
<1>13. Active' \subseteq Active \cup {a}
  <2>1. \A s \in timers' : s.ask \in Active \cup {a}
    BY <1>6, <1>7, <1>8, <1>10
  <2> QED
    BY <1>1, <1>10, <2>1 DEF Active
<1>14. \A c \in moves' : c.dest = 0 \/ \E d \in moves : c.ask = d.ask /\ c.dest = d.dest
  BY <1>1
<1>15. ASSUME NEW s \in rows, s.id # r.id, Owed(s) PROVE Owed(s)'
  <2>1. CASE \E c \in moves : c.heard /\ c.ask.id = s.id
    BY <1>1, <2>1 DEF Owed, Sharing
  <2>2. CASE \E x \in timers : x.ask.id = s.id
    <3>1. \E y \in timers' : y.ask.id = s.id
      BY <1>3, <1>7, <1>9, <1>15, <2>2
    <3> QED
      BY <3>1 DEF Owed, Sharing
  <2> QED
    BY <1>15, <2>1, <2>2 DEF Owed, Sharing
<1>16. \A s : s.id = r.id /\ s.m = r.m => Owed(s)'
  BY <1>3, <1>6, <1>9 DEF Owed, Sharing
<1>17. left \subseteq left' /\ UNCHANGED serverVars
  BY <1>1
<1> QED
  BY <1>1, <1>2, <1>11, <1>12, <1>13, <1>14, <1>15, <1>16, <1>17, PressedStep

-----------------------------------------------------------------------------
(* Steps of the server *)

\* Whatever gets a UID gets a new one, and every name stays one.
LEMMA ServerStep ==
  ASSUME MoveInv, BoxTyped', \A f \in Folders : next[f] <= next'[f], mail <= mail',
         \A x \in box' : x \in box \/ x.uid >= next[x.folder],
         UNCHANGED <<rows, asks, rest, tangled, left>>,
         Active' \subseteq Active, MovesTyped', ApartInv',
         \A c \in moves' : \/ c.dest = 0
                           \/ \E d \in moves : c.ask = d.ask /\ c.dest = d.dest
                           \/ c.ask.m \notin tangled => Names(c.ask.to, c.dest, c.ask.m)',
         \A r \in rows : Owed(r) => Owed(r)'
  PROVE  MoveInv'
<1>1. RowsTyped'
  <2>1. mail \in Nat /\ mail' \in Nat
    BY DEF MoveInv, BoxTyped
  <2>2. \A r \in rows : IsRow(r) => IsRow(r)'
    BY <2>1 DEF IsRow
  <2> QED
    BY <2>2 DEF MoveInv, RowsTyped, Bounded
<1>2. \A m : \A f \in Folders, u \in Nat : Names(f, u, m) => Names(f, u, m)'
  <2>1. BoxTyped /\ next' \in [Folders -> Nat \ {0}]
    BY DEF MoveInv, BoxTyped
  <2> QED
    BY <2>1, NamesStay
<1>3. NamesInv'
  <2>1. \A r \in rows' : ~r.pending /\ r.m \notin tangled' => Names(r.folder, r.uid, r.m)'
    <3>1. \A r \in rows : r.folder \in Folders /\ r.uid \in Nat
      BY DEF MoveInv, RowsTyped, IsRow
    <3> QED
      BY <1>2, <3>1 DEF MoveInv, NamesInv
  <2>2. \A a \in Active' : a.m \notin tangled' => Names(a.src, a.uid, a.m)'
    <3>1. \A a \in Active : a.src \in Folders /\ a.uid \in Nat
      BY DEF MoveInv, MovesTyped, IsTimer, IsCommand, IsAsk, Active
    <3> QED
      BY <1>2, <3>1 DEF MoveInv, NamesInv
  <2>3. \A c \in moves' : c.dest # 0 /\ c.ask.m \notin tangled' => Names(c.ask.to, c.dest, c.ask.m)'
    <3>1. \A c \in moves : c.ask.to \in Folders /\ c.dest \in Nat
      BY DEF MoveInv, MovesTyped, IsCommand, IsAsk
    <3> QED
      BY <1>2, <3>1 DEF MoveInv, NamesInv
  <2> QED
    BY <2>1, <2>2, <2>3 DEF NamesInv
<1>4. SameInv' /\ RestInv' /\ PendingIsOwed'
  BY DEF MoveInv, SameInv, Same, RestInv, PendingIsOwed
<1> QED
  BY <1>1, <1>3, <1>4 DEF MoveInv

LEMMA ArriveStep == ASSUME MoveInv, NEW f \in Folders, Arrive(f) PROVE MoveInv'
<1>1. /\ mail' = mail + 1 /\ next' = [next EXCEPT ![f] = @ + 1]
      /\ box' = box \cup {[folder |-> f, uid |-> next[f], m |-> mail + 1]}
      /\ UNCHANGED <<rows, timers, moves, asks, history, faults>>
  BY DEF Arrive
<1>2. PICK x : x = [folder |-> f, uid |-> next[f], m |-> mail + 1]
  OBVIOUS
<1>3. /\ mail \in Nat /\ mail' \in Nat /\ mail <= mail'
      /\ next' \in [Folders -> Nat \ {0}] /\ next'[f] = next[f] + 1
      /\ \A g \in Folders : next[g] \in Nat \ {0} /\ next[g] <= next'[g]
  BY <1>1 DEF MoveInv, BoxTyped
<1>4. x \in [folder : Folders, uid : Nat \ {0}, m : 1..mail'] /\ x.folder = f /\ x.uid = next[f]
  BY <1>1, <1>2, <1>3
<1>5. box' = box \cup {x}
  BY <1>1, <1>2
<1>6. BoxTyped'
  <2>1. IsFiniteSet(box')
    BY <1>5, FS_AddElement DEF MoveInv, BoxTyped
  <2>2. \A y \in box : y.folder \in Folders /\ y.uid \in Nat /\ y.uid < next[y.folder]
    BY DEF MoveInv, BoxTyped, IsMail
  <2>3. \A y \in box' : IsMail(y)' /\ y.uid < next'[y.folder]
    BY <1>3, <1>4, <1>5, <2>2 DEF MoveInv, BoxTyped, IsMail
  <2>4. \A y \in box : ~(y.folder = f /\ y.uid = next[f])
    BY <1>3, <2>2
  <2>5. \A y, z \in box' : (y.folder = z.folder /\ y.uid = z.uid) => y = z
    BY <1>4, <1>5, <2>4 DEF MoveInv, BoxTyped
  <2> QED
    BY <1>1, <1>3, <2>1, <2>3, <2>5 DEF MoveInv, BoxTyped
<1>7. \A y \in box' : y \in box \/ y.uid >= next[y.folder]
  BY <1>3, <1>4, <1>5
<1>8. UNCHANGED <<rows, timers, moves, asks, rest, tangled, left>>
  BY <1>1 DEF history
<1>9. MovesTyped'
  <2>1. \A s \in timers : IsTimer(s) => IsTimer(s)'
    BY <1>3 DEF IsTimer, IsAsk
  <2>2. \A c \in moves : IsCommand(c) => IsCommand(c)'
    BY <1>3 DEF IsCommand, IsAsk
  <2>3. rest' \subseteq 1..mail'
    BY <1>3, <1>8 DEF MoveInv, MovesTyped
  <2> QED
    BY <1>8, <2>1, <2>2, <2>3 DEF MoveInv, MovesTyped
<1>10. ApartInv' /\ Active' \subseteq Active /\ \A r \in rows : Owed(r) => Owed(r)'
  BY <1>8 DEF MoveInv, ApartInv, Apart, Active, Owed, Sharing
<1>11. \A c \in moves' : \E d \in moves : c.ask = d.ask /\ c.dest = d.dest
  BY <1>8
<1> QED
  BY <1>3, <1>6, <1>7, <1>8, <1>9, <1>10, <1>11, ServerStep

\* At most one message is found, and its copy gets the folder's next UID.
LEMMA Copied ==
  ASSUME BoxTyped, NEW a, IsAsk(a), NEW B \in SUBSET box, box' = B \cup Copies(a),
         next' = Advanced(a), UNCHANGED <<mail, asks>>
  PROVE  /\ BoxTyped' /\ \A f \in Folders : next[f] <= next'[f]
         /\ \A x \in box' : x \in box \/ x.uid >= next[x.folder]
         /\ Dest(a) \in Nat
         /\ \A d : d = Dest(a) /\ d # 0 /\ (\A x \in Found(a) : x.m = a.m) => Names(a.to, d, a.m)'
<1>1. a.to \in Folders /\ next \in [Folders -> Nat \ {0}] /\ next[a.to] \in Nat \ {0}
  BY DEF IsAsk, BoxTyped
<1>2. Dest(a) \in Nat /\ (Dest(a) # 0 => Found(a) # {} /\ Dest(a) = next[a.to])
  BY <1>1 DEF Dest
<1>3. CASE Found(a) = {}
  <2>1. Copies(a) = {} /\ next' = next
    BY <1>3 DEF Copies, Advanced
  <2>2. box' \subseteq box
    BY <2>1
  <2>3. IsFiniteSet(box')
    BY <2>2, FS_Subset DEF BoxTyped
  <2>4. BoxTyped'
    BY <2>1, <2>2, <2>3 DEF BoxTyped, IsMail
  <2> QED
    BY <1>1, <1>2, <1>3, <2>1, <2>2, <2>4
<1>4. CASE Found(a) # {}
  <2>1. PICK x \in Found(a) : TRUE
    BY <1>4
  <2>2. x \in box /\ IsMail(x) /\ \A y \in Found(a) : y = x
    BY <2>1 DEF Found, At, BoxTyped
  <2>3. PICK c : c = [folder |-> a.to, uid |-> next[a.to], m |-> x.m]
    OBVIOUS
  <2>4. Copies(a) = {c}
    BY <2>1, <2>2, <2>3 DEF Copies
  <2>5. next' = [next EXCEPT ![a.to] = next[a.to] + 1]
    BY <1>4 DEF Advanced
  <2>6. /\ next' \in [Folders -> Nat \ {0}] /\ next'[a.to] = next[a.to] + 1
        /\ \A f \in Folders : next[f] \in Nat \ {0} /\ next[f] <= next'[f]
    BY <1>1, <2>5
  <2>7. IsMail(c) /\ c.folder = a.to /\ c.uid = next[a.to] /\ c.m = x.m
    BY <1>1, <2>2, <2>3 DEF IsMail
  <2>8. box' = B \cup {c}
    BY <2>4
  <2>9. \A y \in B : y \in box /\ IsMail(y) /\ y.folder \in Folders /\ y.uid \in Nat
                     /\ y.uid < next[y.folder]
    BY DEF BoxTyped, IsMail
  <2>10. BoxTyped'
    <3>1. IsFiniteSet(box')
      BY <2>8, FS_Subset, FS_AddElement DEF BoxTyped
    <3>2. \A y \in box' : IsMail(y)' /\ y.uid < next'[y.folder]
      BY <1>1, <2>6, <2>7, <2>8, <2>9 DEF IsMail
    <3>3. \A y \in B : ~(y.folder = c.folder /\ y.uid = c.uid)
      BY <1>1, <2>7, <2>9
    <3>4. \A y, z \in box' : (y.folder = z.folder /\ y.uid = z.uid) => y = z
      BY <2>8, <2>9, <3>3 DEF BoxTyped
    <3> QED
      BY <2>6, <3>1, <3>2, <3>4 DEF BoxTyped
  <2>11. \A y \in box' : y \in box \/ y.uid >= next[y.folder]
    BY <1>1, <2>7, <2>8
  <2>12. ASSUME NEW d, d = Dest(a), d # 0, \A y \in Found(a) : y.m = a.m
         PROVE  Names(a.to, d, a.m)'
    <3>1. x.m = a.m
      BY <2>1, <2>12
    <3>2. d = next[a.to]
      BY <1>2, <2>12
    <3>3. d < next'[a.to]
      BY <1>1, <2>6, <3>2
    <3>4. \A y \in box' : y.folder = a.to /\ y.uid = d => y.m = a.m
      BY <1>1, <2>7, <2>8, <2>9, <3>1, <3>2
    <3> QED
      BY <3>3, <3>4 DEF Names
  <2> QED
    BY <1>2, <2>6, <2>10, <2>11, <2>12
<1> QED
  BY <1>3, <1>4

\* A command goes on, or is over with nobody to hear of it.
LEMMA GoesOn ==
  ASSUME MoveInv, NEW c \in moves, NEW at \in {"copied", "done"}, NEW d \in Nat, Goes(c, at, d),
         UNCHANGED <<timers, tangled, rest, rows, left, mail>>
  PROVE  /\ MovesTyped' /\ ApartInv' /\ Active' \subseteq Active
         /\ \A e \in moves' : e \in moves \/ (e.ask = c.ask /\ e.dest = d)
         /\ \A r \in rows : Owed(r) => Owed(r)'
<1>1. PICK q : q = [c EXCEPT !.at = at, !.dest = d]
  OBVIOUS
<1>2. IsCommand(c) /\ IsCommand(q) /\ q.ask = c.ask /\ q.dest = d /\ q.heard = c.heard
  BY <1>1 DEF MoveInv, MovesTyped, IsCommand
<1>3. /\ \A e \in moves' : (e \in moves /\ e # c) \/ e = q
      /\ \A e \in moves : e # c => e \in moves'
      /\ c.heard => q \in moves'
  BY <1>1 DEF Goes
<1>4. MovesTyped'
  <2>1. \A s \in timers : IsTimer(s) => IsTimer(s)'
    BY DEF IsTimer, IsAsk
  <2>2. \A e : IsCommand(e) => IsCommand(e)'
    BY DEF IsCommand, IsAsk
  <2>3. \A e \in moves' : IsCommand(e)
    BY <1>2, <1>3 DEF MoveInv, MovesTyped
  <2> QED
    BY <2>1, <2>2, <2>3 DEF MoveInv, MovesTyped
<1>5. ApartInv'
  <2>1. \A x, y : Apart(x, y) <=> Apart(x, y)'
    BY DEF Apart
  <2>2. \A e, f \in moves' : e # f => Apart(e.ask, f.ask)
    BY <1>2, <1>3 DEF MoveInv, ApartInv
  <2>3. \A t \in timers', e \in moves' : Apart(t.ask, e.ask)
    BY <1>2, <1>3 DEF MoveInv, ApartInv
  <2>4. \A s, t \in timers' : s # t => Apart(s.ask, t.ask)
    BY DEF MoveInv, ApartInv
  <2> QED
    BY <2>1, <2>2, <2>3, <2>4 DEF ApartInv
<1>6. Active' \subseteq Active
  BY <1>2, <1>3 DEF Active
<1>7. \A r \in rows : Owed(r) => Owed(r)'
  BY <1>2, <1>3 DEF Owed, Sharing
<1> QED
  BY <1>2, <1>3, <1>4, <1>5, <1>6, <1>7

\* What a move takes is what it was asked to take, or its message is tangled.
LEMMA TakesItsOwn ==
  ASSUME MoveInv, NEW c \in moves, c.ask.m \notin tangled
  PROVE  \A x \in Found(c.ask) : x.m = c.ask.m
BY DEF MoveInv, NamesInv, Names, Active, Found, At

LEMMA CopyStep ==
  ASSUME MoveInv, NEW c \in moves, NEW at \in {"copied", "done"}, NEW B \in SUBSET box,
         box' = B \cup Copies(c.ask), next' = Advanced(c.ask), Goes(c, at, Dest(c.ask)),
         UNCHANGED <<caps, mail, rows, timers, asks, history, faults>>
  PROVE  MoveInv'
<1>1. IsAsk(c.ask) /\ c.ask.to \in Folders
  BY DEF MoveInv, MovesTyped, IsCommand, IsAsk
<1>2. PICK d : d = Dest(c.ask)
  OBVIOUS
<1>3. /\ BoxTyped' /\ \A f \in Folders : next[f] <= next'[f]
      /\ \A x \in box' : x \in box \/ x.uid >= next[x.folder]
      /\ d \in Nat
      /\ d # 0 /\ (\A x \in Found(c.ask) : x.m = c.ask.m) => Names(c.ask.to, d, c.ask.m)'
  BY <1>1, <1>2, Copied DEF MoveInv
<1>4. UNCHANGED <<timers, tangled, rest, rows, left, mail>> /\ Goes(c, at, d)
  BY <1>2 DEF history
<1>5. /\ MovesTyped' /\ ApartInv' /\ Active' \subseteq Active
      /\ \A e \in moves' : e \in moves \/ (e.ask = c.ask /\ e.dest = d)
      /\ \A r \in rows : Owed(r) => Owed(r)'
  BY <1>3, <1>4, GoesOn
<1>6. \A e \in moves' : \/ e.dest = 0
                        \/ \E f \in moves : e.ask = f.ask /\ e.dest = f.dest
                        \/ e.ask.m \notin tangled => Names(e.ask.to, e.dest, e.ask.m)'
  <2>1. d # 0 /\ c.ask.m \notin tangled => Names(c.ask.to, d, c.ask.m)'
    BY <1>3, TakesItsOwn
  <2> QED
    BY <1>5, <2>1
<1>7. mail <= mail'
  BY DEF MoveInv, BoxTyped
<1> QED
  BY <1>3, <1>4, <1>5, <1>6, <1>7, ServerStep

LEMMA RunMoveStep == ASSUME MoveInv, RunMove PROVE MoveInv'
<1>1. PICK c \in moves :
        /\ box' = (box \ Found(c.ask)) \cup Copies(c.ask) /\ next' = Advanced(c.ask)
        /\ Goes(c, "done", Dest(c.ask))
        /\ UNCHANGED <<caps, mail, rows, timers, asks, history, faults>>
  BY DEF RunMove
<1>2. box \ Found(c.ask) \in SUBSET box
  OBVIOUS
<1> QED
  BY <1>1, <1>2, CopyStep

LEMMA RunCopyStep == ASSUME MoveInv, RunCopy PROVE MoveInv'
<1>1. PICK c \in moves :
        /\ box' = box \cup Copies(c.ask) /\ next' = Advanced(c.ask)
        /\ Goes(c, "copied", Dest(c.ask))
        /\ UNCHANGED <<caps, mail, rows, timers, asks, history, faults>>
  BY DEF RunCopy
<1> QED
  BY <1>1, CopyStep

LEMMA RunExpungeStep == ASSUME MoveInv, RunExpunge PROVE MoveInv'
<1>1. PICK c \in moves :
        /\ box' = box \ Found(c.ask) /\ Goes(c, "done", c.dest)
        /\ UNCHANGED <<next, caps, mail, rows, timers, asks, history, faults>>
  BY DEF RunExpunge
<1>2. UNCHANGED <<timers, tangled, rest, rows, left, mail, asks>> /\ c.dest \in Nat
  BY <1>1 DEF history, MoveInv, MovesTyped, IsCommand
<1>3. /\ MovesTyped' /\ ApartInv' /\ Active' \subseteq Active
      /\ \A e \in moves' : e \in moves \/ (e.ask = c.ask /\ e.dest = c.dest)
      /\ \A r \in rows : Owed(r) => Owed(r)'
  BY <1>1, <1>2, GoesOn
<1>4. box' \subseteq box /\ next' = next
  BY <1>1
<1>5. BoxTyped'
  <2>1. IsFiniteSet(box')
    BY <1>4, FS_Subset DEF MoveInv, BoxTyped
  <2> QED
    BY <1>2, <1>4, <2>1 DEF MoveInv, BoxTyped, IsMail
<1>6. mail <= mail' /\ \A f \in Folders : next[f] <= next'[f]
  BY <1>1 DEF MoveInv, BoxTyped
<1>7. \A x \in box' : x \in box
  BY <1>4
<1>8. \A e \in moves' : \E f \in moves : e.ask = f.ask /\ e.dest = f.dest
  BY <1>3
<1> QED
  BY <1>2, <1>3, <1>5, <1>6, <1>7, <1>8, ServerStep

LEMMA SettleMoveStep == ASSUME MoveInv, SettleMove PROVE MoveInv'
<1>1. PICK c \in moves :
        /\ moves' = moves \ {c}
        /\ rows' = IF c.dest # 0 THEN SetMessageLocation(c.ask.id, c.ask.to, c.dest)
                   ELSE rows \ Row(c.ask.id)
        /\ UNCHANGED <<serverVars, timers, asks, history, faults>>
  BY DEF SettleMove
<1>2. /\ c.ask.to \in Folders /\ c.dest \in Nat /\ c.ask \in Active
      /\ UNCHANGED <<mail, box, next, rest, tangled, left>>
  BY <1>1 DEF MoveInv, MovesTyped, IsCommand, IsAsk, Active, serverVars, history
<1>3. /\ RowsTyped'
      /\ \A r \in rows' :
           \/ r \in rows /\ r.id # c.ask.id
           \/ /\ r.id = c.ask.id /\ r.folder = c.ask.to /\ r.uid = c.dest /\ ~r.pending
              /\ c.dest # 0
              /\ \E s \in rows : s.id = c.ask.id /\ s.m = r.m
  <2>1. CASE c.dest # 0
    <3>1. c.dest \in Nat \ {0} /\ rows' = SetMessageLocation(c.ask.id, c.ask.to, c.dest)
      BY <1>1, <1>2, <2>1
    <3>2. RowsTyped /\ UNCHANGED mail
      BY <1>2 DEF MoveInv
    <3> QED
      BY <1>2, <2>1, <3>1, <3>2, Located
  <2>2. CASE c.dest = 0
    <3>1. rows' = rows \ Row(c.ask.id)
      BY <1>1, <2>2
    <3>2. \A r \in rows' : r \in rows /\ r.id # c.ask.id
      BY <3>1 DEF Row
    <3> QED
      BY <1>2, <3>2, FewerRows DEF MoveInv
  <2> QED
    BY <2>1, <2>2
<1>4. \A s \in rows : s.id = c.ask.id => Same(s, c.ask)
  BY <1>2 DEF MoveInv, SameInv
<1>5. \A f, u, m : Names(f, u, m) <=> Names(f, u, m)'
  BY <1>2 DEF Names
<1>6. \A b \in Active' : /\ b \in Active
                         /\ b.id = c.ask.id => b.m \in tangled /\ c.ask.m \in tangled
  BY <1>1 DEF MoveInv, ApartInv, Apart, Active
<1>7. NamesInv'
  <2>1. ASSUME NEW r \in rows', ~r.pending, r.m \notin tangled PROVE Names(r.folder, r.uid, r.m)
    <3>1. CASE r \in rows
      BY <2>1, <3>1 DEF MoveInv, NamesInv
    <3>2. CASE r \notin rows
      <4>1. PICK s \in rows : s.id = c.ask.id /\ s.m = r.m
        BY <1>3, <3>2
      <4>2. r.m = c.ask.m
        BY <1>4, <2>1, <4>1 DEF Same
      <4>3. Names(c.ask.to, c.dest, c.ask.m)
        BY <1>3, <2>1, <3>2, <4>2 DEF MoveInv, NamesInv
      <4> QED
        BY <1>3, <3>2, <4>2, <4>3
    <3> QED
      BY <3>1, <3>2
  <2>2. \A b \in Active' : b.m \notin tangled => Names(b.src, b.uid, b.m)
    BY <1>6 DEF MoveInv, NamesInv
  <2>3. \A d \in moves' : d.dest # 0 /\ d.ask.m \notin tangled => Names(d.ask.to, d.dest, d.ask.m)
    BY <1>1 DEF MoveInv, NamesInv
  <2> QED
    BY <1>2, <1>5, <2>1, <2>2, <2>3 DEF NamesInv
<1>8. SameInv'
  <2> SUFFICES ASSUME NEW b \in Active', NEW r \in rows', r.id = b.id PROVE Same(r, b)'
    BY DEF SameInv
  <2>1. CASE r.id # c.ask.id
    BY <1>2, <1>3, <1>6, <2>1 DEF MoveInv, SameInv, Same
  <2>2. CASE r.id = c.ask.id
    <3>1. PICK s \in rows : s.id = c.ask.id /\ s.m = r.m
      BY <1>3, <2>2
    <3>2. b.m \in tangled /\ c.ask.m \in tangled
      BY <1>6, <2>2
    <3>3. r.m \in tangled
      BY <1>4, <3>1, <3>2 DEF Same
    <3> QED
      BY <1>2, <3>2, <3>3 DEF Same
  <2> QED
    BY <2>1, <2>2
<1>9. RestInv'
  BY <1>2, <1>6 DEF MoveInv, RestInv
<1>10. PendingIsOwed'
  <2> SUFFICES ASSUME NEW r \in rows', r.pending PROVE Owed(r)' \/ r.m \in left \cup tangled
    BY <1>2 DEF PendingIsOwed
  <2>1. r \in rows /\ r.id # c.ask.id
    BY <1>3
  <2>2. Owed(r) \/ r.m \in left \cup tangled
    BY <2>1 DEF MoveInv, PendingIsOwed
  <2>3. Owed(r) => Owed(r)'
    BY <1>1, <2>1 DEF Owed, Sharing
  <2> QED
    BY <2>2, <2>3
<1>11. BoxTyped'
  BY <1>1, <1>2 DEF MoveInv, BoxTyped, IsMail
<1>12. MovesTyped' /\ ApartInv'
  BY <1>1, <1>2 DEF MoveInv, MovesTyped, IsTimer, IsCommand, IsAsk, ApartInv, Apart
<1> QED
  BY <1>3, <1>7, <1>8, <1>9, <1>10, <1>11, <1>12 DEF MoveInv

LEMMA InsertStep ==
  ASSUME MoveInv, NEW f \in Folders, NEW S \in SUBSET In(box, f), Insert(S)
  PROVE  MoveInv'
<1>1. /\ rows' = Upserted(S)
      /\ tangled' = tangled \cup
           UNION {{r.m} \cup {x.ask.m : x \in Sharing(r, timers) \cup Sharing(r, moves)} :
                    r \in {y \in rows' \ rows : Sharing(y, timers) \cup Sharing(y, moves) # {}}}
      /\ UNCHANGED <<box, next, caps, mail, timers, moves, asks, rest, left, faults>>
  BY DEF Insert, serverVars
<1>2. /\ RowsTyped' /\ rows \subseteq rows'
      /\ \A r \in rows' \ rows : \E x \in box : IsStored(r, x)
  BY <1>1, Inserted DEF MoveInv
<1>3. tangled \subseteq tangled'
  BY <1>1
<1>4. ASSUME NEW r \in rows' \ rows, NEW b \in Active, b.id = r.id
      PROVE  r.m \in tangled' /\ b.m \in tangled'
  <2>1. PICK h \in Sharing(r, timers) \cup Sharing(r, moves) : h.ask = b
    BY <1>4 DEF Active, Sharing
  <2> QED
    BY <1>1, <2>1
<1>5. \A g, u, m : Names(g, u, m) <=> Names(g, u, m)'
  BY <1>1 DEF Names
<1>6. Active' = Active
  BY <1>1 DEF Active
<1>7. NamesInv'
  <2>1. ASSUME NEW r \in rows', ~r.pending, r.m \notin tangled' PROVE Names(r.folder, r.uid, r.m)
    <3>1. CASE r \in rows
      BY <1>3, <2>1, <3>1 DEF MoveInv, NamesInv
    <3>2. CASE r \notin rows
      <4>1. PICK x \in box : IsStored(r, x)
        BY <1>2, <3>2
      <4> QED
        BY <4>1 DEF IsStored, Names, MoveInv, BoxTyped
    <3> QED
      BY <3>1, <3>2
  <2>2. \A b \in Active' : b.m \notin tangled' => Names(b.src, b.uid, b.m)
    BY <1>3, <1>6 DEF MoveInv, NamesInv
  <2>3. \A d \in moves' : d.dest # 0 /\ d.ask.m \notin tangled' => Names(d.ask.to, d.dest, d.ask.m)
    BY <1>1, <1>3 DEF MoveInv, NamesInv
  <2> QED
    BY <1>5, <2>1, <2>2, <2>3 DEF NamesInv
<1>8. SameInv'
  <2> SUFFICES ASSUME NEW b \in Active, NEW r \in rows', r.id = b.id PROVE Same(r, b)'
    BY <1>6 DEF SameInv
  <2>1. CASE r \in rows
    <3>1. Same(r, b)
      BY <2>1 DEF MoveInv, SameInv
    <3> QED
      BY <1>3, <3>1 DEF Same
  <2>2. CASE r \notin rows
    BY <1>4, <2>2 DEF Same
  <2> QED
    BY <2>1, <2>2
<1>9. RestInv'
  BY <1>1, <1>6 DEF MoveInv, RestInv
<1>10. PendingIsOwed'
  <2> SUFFICES ASSUME NEW r \in rows', r.pending PROVE Owed(r)' \/ r.m \in left' \cup tangled'
    BY DEF PendingIsOwed
  <2>1. r \in rows
    BY <1>2 DEF IsStored
  <2>2. Owed(r) => Owed(r)'
    BY <1>1 DEF Owed, Sharing
  <2> QED
    BY <1>1, <1>3, <2>1, <2>2 DEF MoveInv, PendingIsOwed
<1>11. BoxTyped'
  BY <1>1 DEF MoveInv, BoxTyped, IsMail
<1>12. MovesTyped'
  BY <1>1 DEF MoveInv, MovesTyped, IsTimer, IsCommand, IsAsk
<1>13. ApartInv'
  BY <1>1, <1>3 DEF MoveInv, ApartInv, Apart
<1> QED
  BY <1>2, <1>7, <1>8, <1>9, <1>10, <1>11, <1>12, <1>13 DEF MoveInv

LEMMA ReconcileStep == ASSUME MoveInv, NEW f \in Folders, ReconcileExpunged(f) PROVE MoveInv'
<1>1. rows' \subseteq rows /\ UNCHANGED <<serverVars, timers, moves, asks, rest, tangled, left>>
  BY DEF ReconcileExpunged, history
<1>2. RowsTyped'
  BY <1>1, FewerRows DEF MoveInv, serverVars
<1>3. NamesInv' /\ SameInv'
  <2>1. Active' \subseteq Active
    BY <1>1 DEF Active
  <2>2. \A r \in rows' : ~r.pending /\ r.m \notin tangled' => Names(r.folder, r.uid, r.m)
    BY <1>1 DEF MoveInv, NamesInv
  <2>3. \A r \in rows' : \E s \in rows : s.id = r.id /\ s.m = r.m /\ s.uid = r.uid
    BY <1>1
  <2>4. \A c \in moves' : \E d \in moves : c.ask = d.ask /\ c.dest = d.dest
    BY <1>1
  <2> QED
    BY <1>1, <2>1, <2>2, <2>3, <2>4, RowsStep
<1>4. RestInv' /\ ApartInv'
  BY <1>1 DEF MoveInv, RestInv, Active, ApartInv, Apart
<1>5. PendingIsOwed'
  BY <1>1 DEF MoveInv, PendingIsOwed, Owed, Sharing
<1>6. BoxTyped' /\ MovesTyped'
  BY <1>1 DEF MoveInv, BoxTyped, IsMail, MovesTyped, IsTimer, IsCommand, IsAsk, serverVars
<1> QED
  BY <1>2, <1>3, <1>4, <1>5, <1>6 DEF MoveInv

LEMMA MoveStep == ASSUME MoveInv, [Next]_vars PROVE MoveInv'
<1>1. CASE User
  BY <1>1, HandleMoveStep, ApiMoveStep, HandleUndoMoveStep, UndoTooLateStep DEF User
<1>2. CASE Timer
  BY <1>2, TimerFiresStep, TimerRunsStep DEF Timer
<1>3. CASE Worker
  <2>1. ASSUME NEW f \in Folders, FetchNew(f) PROVE MoveInv'
    <3>1. PICK S \in SUBSET In(box, f) : Insert(S)
      BY <2>1 DEF FetchNew
    <3> QED
      BY <3>1, InsertStep
  <2>2. ASSUME NEW f \in Folders, Backfill(f) PROVE MoveInv'
    <3>1. PICK S \in SUBSET In(box, f) : Insert(S)
      BY <2>2 DEF Backfill, Missing
    <3> QED
      BY <3>1, InsertStep
  <2> QED
    BY <1>3, <2>1, <2>2, RunMoveStep, RunCopyStep, RunExpungeStep, ReconcileStep DEF Worker
<1>4. CASE SettleMove
  BY <1>4, SettleMoveStep
<1>5. CASE Faults
  BY <1>5, GiveUpStep, ConnLostStep, RestartStep DEF Faults
<1>6. CASE \E f \in Folders : Arrive(f)
  BY <1>6, ArriveStep
<1>7. CASE UNCHANGED vars
  <2>1. /\ UNCHANGED <<serverVars, asks, rows, tangled, rest, timers, moves, left>>
        /\ Active' \subseteq Active
    BY <1>7 DEF vars, history, Active
  <2>2. MovesTyped' /\ ApartInv'
    BY <2>1 DEF MoveInv, MovesTyped, IsTimer, IsCommand, IsAsk, ApartInv, Apart, serverVars
  <2>3. \A r \in rows : Owed(r) => Owed(r)'
    BY <2>1 DEF Owed, Sharing
  <2> QED
    BY <2>1, <2>2, <2>3, HandedOn
<1> QED
  BY <1>1, <1>2, <1>3, <1>4, <1>5, <1>6, <1>7 DEF Next

-----------------------------------------------------------------------------
(* Theorems *)

LEMMA Invariance == Spec => []MoveInv
<1>1. Init => MoveInv
  BY MoveInit
<1>2. MoveInv /\ [Next]_vars => MoveInv'
  BY MoveStep
<1> QED
  BY <1>1, <1>2, PTL DEF Spec

\* Ids, UIDs and the entries of the map stay unique, and every row is of a message that
\* arrived (db/messages.go, server/mail.go).
THEOREM TypeCorrect == Spec => []TypeOK
<1>1. MoveInv => TypeOK
  BY DEF MoveInv, RowsTyped, BoxTyped, MovesTyped, IsRow, IsMail, IsTimer, IsCommand, TypeOK
<1> QED
  BY <1>1, Invariance, PTL

\* A row shows the message its UID names, through undo, restarts, lost connections and the
\* passes over both folders, unless two moves of it were under way at once.
THEOREM RowsShowTheirs == Spec => []RowsAreTheirs
<1>1. MoveInv => RowsAreTheirs
  BY DEF MoveInv, NamesInv, Names, RowsAreTheirs, At
<1> QED
  BY <1>1, Invariance, PTL

\* A row reads pending only while somebody is going to settle it, or it is one of those
\* known to be left behind.
THEOREM PendingEnds == Spec => []PendingIsOwed
<1>1. MoveInv => PendingIsOwed
  BY DEF MoveInv
<1> QED
  BY <1>1, Invariance, PTL

\* Only RunMove and RunExpunge take a message from its mailbox, and only one that the
\* move was asked for.
LEMMA TakenByItsMove ==
  ASSUME MoveInv, [Next]_vars, NEW x \in box \ box'
  PROVE  \E c \in moves : TakenBy(c, x) /\ (c.ask.m = x.m \/ c.ask.m \in tangled)
<1>1. ASSUME NEW c \in moves, x \in Found(c.ask)
      PROVE  TakenBy(c, x) /\ (c.ask.m = x.m \/ c.ask.m \in tangled)
  BY <1>1, TakesItsOwn DEF TakenBy, Found, At
<1>2. CASE RunMove
  BY <1>1, <1>2 DEF RunMove
<1>3. CASE RunExpunge
  BY <1>1, <1>3 DEF RunExpunge
<1>4. CASE box \subseteq box'
  BY <1>4
<1>5. RunMove \/ RunExpunge \/ box \subseteq box'
  <2>1. CASE User \/ Timer \/ SettleMove \/ Faults \/ UNCHANGED vars
    BY <2>1 DEF User, HandleMove, ApiMove, HandleUndoMove, UndoTooLate, Timer, TimerFires,
       TimerRuns, SettleMove, Faults, GiveUp, ConnLost, Restart, vars, serverVars
  <2>2. CASE Worker
    BY <2>2 DEF Worker, RunCopy, FetchNew, Backfill, Insert, ReconcileExpunged, serverVars
  <2>3. CASE \E f \in Folders : Arrive(f)
    BY <2>3 DEF Arrive
  <2> QED
    BY <2>1, <2>2, <2>3 DEF Next
<1> QED
  BY <1>2, <1>3, <1>4, <1>5

\* A UID written down when the button was pressed still names that message when the
\* timer, the queue and the passes are through with it, unless its row was moved again
\* meanwhile.
THEOREM MovesTakeTheirOwn == Spec => OneMoveIsSafe
<1>1. MoveInv /\ [Next]_vars => [\A x \in box \ box' : \E c \in moves :
        TakenBy(c, x) /\ (c.ask.m = x.m \/ c.ask.m \in tangled)]_vars
  BY TakenByItsMove
<1> QED
  BY <1>1, Invariance, PTL DEF Spec, OneMoveIsSafe

LEMMA RestStays ==
  ASSUME MoveInv, [Next]_vars, NEW m \in rest
  PROVE  \/ Of(box', m) = Of(box, m)
         \/ \E c \in moves : c.ask.m \in tangled \ {m} /\ \E x \in Of(box, m) : TakenBy(c, x)
<1>1. ASSUME NEW c \in moves, NEW x \in Found(c.ask), x.m = m
      PROVE  c.ask.m \in tangled \ {m} /\ x \in Of(box, m) /\ TakenBy(c, x)
  <2>1. c.ask.m # m
    BY DEF MoveInv, RestInv, Active
  <2>2. c.ask.m \in tangled
    BY <1>1, <2>1, TakesItsOwn
  <2> QED
    BY <1>1, <2>1, <2>2 DEF Of, TakenBy, Found, At
<1>2. ASSUME NEW c \in moves, \A x \in Found(c.ask) : x.m # m
      PROVE  /\ \A y \in Copies(c.ask) : y.m # m
             /\ Of(Found(c.ask), m) = {}
  BY <1>2 DEF Copies, Of
<1>3. CASE RunMove \/ RunCopy \/ RunExpunge
  <2>1. PICK c \in moves : box' \in {(box \ Found(c.ask)) \cup Copies(c.ask),
                                     box \cup Copies(c.ask), box \ Found(c.ask)}
    BY <1>3 DEF RunMove, RunCopy, RunExpunge
  <2>2. CASE \E x \in Found(c.ask) : x.m = m
    BY <1>1, <2>2
  <2>3. CASE \A x \in Found(c.ask) : x.m # m
    <3>1. \A y \in Copies(c.ask) : y.m # m
      BY <1>2, <2>3
    <3>2. \A y : y.m = m => (y \in box' <=> y \in box)
      BY <2>1, <2>3, <3>1
    <3> QED
      BY <3>2 DEF Of
  <2> QED
    BY <2>2, <2>3
<1>4. CASE \E f \in Folders : Arrive(f)
  <2>1. PICK f \in Folders : box' = box \cup {[folder |-> f, uid |-> next[f], m |-> mail + 1]}
    BY <1>4 DEF Arrive
  <2>2. m # mail + 1
    BY DEF MoveInv, MovesTyped, BoxTyped
  <2> QED
    BY <2>1, <2>2 DEF Of
<1>5. CASE box' = box
  BY <1>5 DEF Of
<1>6. \/ RunMove \/ RunCopy \/ RunExpunge \/ \E f \in Folders : Arrive(f)
      \/ box' = box
  <2>1. CASE User \/ Timer \/ SettleMove \/ Faults \/ UNCHANGED vars
    BY <2>1 DEF User, HandleMove, ApiMove, HandleUndoMove, UndoTooLate, Timer, TimerFires,
       TimerRuns, SettleMove, Faults, GiveUp, ConnLost, Restart, vars, serverVars
  <2>2. CASE Worker
    BY <2>2 DEF Worker, FetchNew, Backfill, Insert, ReconcileExpunged, serverVars
  <2>3. CASE \E f \in Folders : Arrive(f)
    BY <2>3
  <2> QED
    BY <2>1, <2>2, <2>3 DEF Next
<1> QED
  BY <1>3, <1>4, <1>5, <1>6

\* An undo that came in time is the last word on that move: what the message's own move
\* would have done is never done.
THEOREM UndoStays == Spec => UndoIsFinal
<1>1. MoveInv /\ [Next]_vars => [\A m \in rest :
        \/ Of(box', m) = Of(box, m)
        \/ \E c \in moves : c.ask.m \in tangled \ {m} /\ \E x \in Of(box, m) : TakenBy(c, x)]_vars
  BY RestStays
<1> QED
  BY <1>1, Invariance, PTL DEF Spec, UndoIsFinal

=============================================================================
