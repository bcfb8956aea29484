------------------------- MODULE ReadState_proofs -------------------------
(***************************************************************************)
(* Read and unread in the browser, for any conversation and any bounds.     *)
(*                                                                          *)
(* ReadInv says what a message's changes, POSTs, events and lists have to   *)
(* do with one another: a change is pending while its POST is unfinished    *)
(* (PendingPosts), the POSTs about a message wait for one another (OneKey,  *)
(* StoredFirst) and the last is of its newest change (NewestInv); that POST *)
(* carries the choice the server owes (WishInv); a list that will retire    *)
(* overrides knows settled ones only (RequestInv); and what the row would   *)
(* fall back to if every POST failed is what the last event told or is to   *)
(* tell (ClaimInv).                                                         *)
(***************************************************************************)
EXTENDS ReadState, TLAPS, FiniteSetTheorems, WellFoundedInduction, SequenceTheorems

\* What a row shows once the choices of this tab that are under way are gone.
Base(c) == IF c[1].pending \/ c[1].failed THEN c[1].was ELSE c[1].read

-----------------------------------------------------------------------------
(* Numbers and sequences *)

\* A finite set of numbers that is not empty has a largest.
LEMMA Largest == ASSUME NEW S \in SUBSET Int, IsFiniteSet(S), S # {}
                 PROVE  \E x \in S : \A y \in S : x >= y
<1> DEFINE Bare == {T \in SUBSET S : T # {} /\ ~\E x \in T : \A y \in T : x >= y}
<1>1. SUFFICES ASSUME S \in Bare PROVE FALSE
  OBVIOUS
<1>2. Bare \subseteq FiniteSubsetsOf(S)
  BY FS_FiniteSubsetsOfFinite
<1>3. PICK T \in Bare : \A U \in Bare : ~(<<U, T>> \in StrictSubsetOrdering(S))
  <2> HIDE DEF Bare
  <2> QED
    BY <1>1, <1>2, FS_StrictSubsetOrderingWellFounded, WFMin
<1>4. PICK x \in T : TRUE
  OBVIOUS
<1>5. T \ {x} \notin Bare
  BY <1>3, <1>4 DEF StrictSubsetOrdering
<1>6. CASE T \ {x} = {}
  BY <1>4, <1>6
<1>7. CASE \E y \in T \ {x} : \A z \in T \ {x} : y >= z
  <2>1. PICK y \in T \ {x} : \A z \in T \ {x} : y >= z
    BY <1>7
  <2>2. x \in Int /\ y \in Int /\ \A z \in T : z \in Int
    BY <1>4
  <2>3. CASE x >= y
    BY <1>4, <2>1, <2>2, <2>3
  <2>4. CASE ~(x >= y)
    BY <1>4, <2>1, <2>2, <2>4
  <2> QED
    BY <2>3, <2>4
<1> QED
  BY <1>4, <1>5, <1>6, <1>7

\* So a set of places of a sequence has a last one.
LEMMA LastPlace == ASSUME NEW n \in Nat, NEW S \in SUBSET (1..n), S # {}
                   PROVE  \E i \in S : \A j \in S : j <= i
<1>1. S \in SUBSET Int /\ IsFiniteSet(S)
  <2>1. IsFiniteSet(1..n) /\ S \in SUBSET (1..n)
    BY FS_Interval
  <2>2. IsFiniteSet(S)
    BY ONLY <2>1, FS_Subset
  <2> QED
    BY <2>2
<1>2. PICK i \in S : \A j \in S : i >= j
  BY <1>1, Largest
<1> QED
  BY <1>1, <1>2

\* Where a place of RemoveAt(s, i) was in s.
Old(i, j) == IF j < i THEN j ELSE j + 1

LEMMA Removed ==
  ASSUME NEW S, NEW s \in Seq(S), NEW i \in 1..Len(s)
  PROVE  LET r == RemoveAt(s, i) IN
         /\ r \in Seq(S) /\ Len(r) = Len(s) - 1
         /\ \A j \in 1..Len(r) : Old(i, j) \in (1..Len(s)) \ {i} /\ r[j] = s[Old(i, j)]
<1>1. /\ SubSeq(s, 1, i - 1) \in Seq(S) /\ Len(SubSeq(s, 1, i - 1)) = i - 1
      /\ \A j \in 1..(i - 1) : SubSeq(s, 1, i - 1)[j] = s[j]
  BY SubSeqProperties
<1>2. /\ SubSeq(s, i + 1, Len(s)) \in Seq(S) /\ Len(SubSeq(s, i + 1, Len(s))) = Len(s) - i
      /\ \A j \in 1..(Len(s) - i) : SubSeq(s, i + 1, Len(s))[j] = s[i + j]
  BY SubSeqProperties
<1>3. /\ RemoveAt(s, i) \in Seq(S) /\ Len(RemoveAt(s, i)) = Len(s) - 1
      /\ \A j \in 1..(Len(s) - 1) : RemoveAt(s, i)[j] =
           IF j <= i - 1 THEN SubSeq(s, 1, i - 1)[j] ELSE SubSeq(s, i + 1, Len(s))[j - (i - 1)]
  <2> DEFINE a == SubSeq(s, 1, i - 1)
             b == SubSeq(s, i + 1, Len(s))
  <2>1. a \in Seq(S) /\ b \in Seq(S) /\ Len(a) = i - 1 /\ Len(b) = Len(s) - i
    BY <1>1, <1>2
  <2>2. RemoveAt(s, i) = a \o b
    BY DEF RemoveAt
  <2> HIDE DEF a, b
  <2>3. /\ a \o b \in Seq(S) /\ Len(a \o b) = Len(a) + Len(b)
        /\ \A j \in 1..(Len(a) + Len(b)) : (a \o b)[j] = IF j <= Len(a) THEN a[j] ELSE b[j - Len(a)]
    BY <2>1, ConcatProperties
  <2>4. Len(a) + Len(b) = Len(s) - 1
    BY <2>1
  <2>5. /\ RemoveAt(s, i) \in Seq(S) /\ Len(RemoveAt(s, i)) = Len(s) - 1
        /\ \A j \in 1..(Len(s) - 1) : RemoveAt(s, i)[j] =
             IF j <= i - 1 THEN a[j] ELSE b[j - (i - 1)]
    BY <2>1, <2>2, <2>3, <2>4
  <2> QED
    BY <2>5 DEF a, b
<1>4. ASSUME NEW j \in 1..(Len(s) - 1)
      PROVE  Old(i, j) \in (1..Len(s)) \ {i} /\ RemoveAt(s, i)[j] = s[Old(i, j)]
  <2>1. CASE j < i
    BY <1>1, <1>3, <2>1 DEF Old
  <2>2. CASE ~(j < i)
    <3>1. j - (i - 1) \in 1..(Len(s) - i) /\ i + (j - (i - 1)) = j + 1
      BY <2>2
    <3> QED
      BY <1>2, <1>3, <2>2, <3>1 DEF Old
  <2> QED
    BY <2>1, <2>2
<1> QED
  BY <1>3, <1>4

LEMMA OldKeepsOrder ==
  ASSUME NEW n \in Nat, NEW i \in 1..n
  PROVE  /\ \A j, k \in 1..(n - 1) : j <= k <=> Old(i, j) <= Old(i, k)
         /\ \A k \in (1..n) \ {i} : \E j \in 1..(n - 1) : Old(i, j) = k
<1>1. ASSUME NEW k \in (1..n) \ {i} PROVE \E j \in 1..(n - 1) : Old(i, j) = k
  <2>1. CASE k < i
    BY <2>1 DEF Old
  <2>2. CASE k > i
    <3>1. k - 1 \in 1..(n - 1) /\ Old(i, k - 1) = k
      BY <2>2 DEF Old
    <3> QED
      BY <3>1
  <2> QED
    BY <2>1, <2>2
<1> QED
  BY <1>1 DEF Old

-----------------------------------------------------------------------------
(* The changes of a message *)

\* The entries of a chain are of different presses, only the oldest may be settled, and
\* the newest is in force.
IsChain(c) ==
  /\ c \in Seq(ChangeType)
  /\ \A i, j \in 1..Len(c) : c[i].n = c[j].n => i = j
  /\ \A i \in 1..Len(c) : i # 1 => c[i].pending \/ c[i].failed
  /\ c # <<>> => ~Last(c).failed

LEMMA ChainPlaces == ASSUME NEW c \in Seq(ChangeType)
                     PROVE  /\ Len(c) \in Nat /\ DOMAIN c = 1..Len(c)
                            /\ c # <<>> => Len(c) > 0 /\ Last(c) = c[Len(c)]
                            /\ Len(c) > 0 => c # <<>>
                            /\ \A i \in 1..Len(c) : c[i] \in ChangeType
BY EmptySeq, LenProperties, ElementOfSeq DEF Last

LEMMA AtIs == ASSUME NEW c, IsChain(c), NEW n
              PROVE  \/ At(c, n) = 0 /\ \A i \in 1..Len(c) : c[i].n # n
                     \/ At(c, n) \in 1..Len(c) /\ c[At(c, n)].n = n
<1> DEFINE I == {i \in 1..Len(c) : c[i].n = n}
<1>1. At(c, n) = IF I # {} THEN Min(I) ELSE 0
  BY DEF At, SelectInSeq
<1>2. Len(c) \in Nat
  BY ChainPlaces DEF IsChain
<1>3. \A i, j \in I : i = j
  BY DEF IsChain
<1>4. CASE I = {}
  BY <1>1, <1>4
<1>5. CASE I # {}
  <2>1. PICK k \in I : TRUE
    BY <1>5
  <2>2. k \in I /\ \A j \in I : k =< j
    BY <1>2, <1>3, <2>1
  <2> HIDE DEF I
  <2>3. Min(I) \in I
    BY <2>2 DEF Min
  <2> QED
    BY <1>1, <1>5, <2>3 DEF I
<1> QED
  BY <1>4, <1>5

LEMMA SettledIs ==
  ASSUME NEW c, IsChain(c), NEW n
  PROVE  LET d == Settled(c, n) IN
         /\ IsChain(d)
         /\ d = <<>> <=> c = <<>>
         /\ c # <<>> => /\ Last(d).n = Last(c).n /\ Last(d).read = Last(c).read
                        /\ Last(c).n # n => Last(d).pending = Last(c).pending
         /\ \A i \in 1..Len(d) : \E j \in 1..Len(c) :
              d[i].n = c[j].n /\ (d[i].pending <=> c[j].pending /\ c[j].n # n)
<1> DEFINE k == At(c, n)
           d == Settled(c, n)
<1>1. c \in Seq(ChangeType) /\ Len(c) \in Nat /\ \A i \in 1..Len(c) : c[i] \in ChangeType
  BY ChainPlaces DEF IsChain
<1>2. CASE k = 0
  <2>1. d = c /\ \A i \in 1..Len(c) : c[i].n # n
    BY <1>2, AtIs DEF Settled
  <2> QED
    BY <2>1, ZenonT(30)
<1>3. CASE k # 0
  <2>1. k \in 1..Len(c) /\ c[k].n = n
    BY <1>3, AtIs
  <2> DEFINE s == SubSeq(c, k, Len(c))
  <2>2. /\ s \in Seq(ChangeType) /\ Len(s) = Len(c) - k + 1
        /\ \A i \in 1..(Len(c) - k + 1) : s[i] = c[k + i - 1]
    BY <1>1, <2>1, SubSeqProperties
  <2>3. d = [s EXCEPT ![1].pending = FALSE]
    BY <1>3 DEF Settled
  <2>4. PICK e \in ChangeType : e = [c[k] EXCEPT !.pending = FALSE]
    BY <1>1, <2>1 DEF ChangeType
  <2>5. s[1] = c[k] /\ 1 \in 1..Len(s)
    BY <1>1, <2>1, <2>2
  <2>6. d = [s EXCEPT ![1] = e]
    BY <2>3, <2>4, <2>5
  <2> HIDE DEF s, d, k
  <2>7. /\ d \in Seq(ChangeType) /\ Len(d) = Len(c) - k + 1
        /\ \A i \in 1..Len(d) : d[i] = IF i = 1 THEN e ELSE c[k + i - 1]
    <3>1. /\ d \in Seq(ChangeType) /\ Len(d) = Len(s)
          /\ \A j \in 1..Len(s) : d[j] = IF j = 1 THEN e ELSE s[j]
      BY <2>2, <2>5, <2>6, ExceptSeq
    <3> QED
      BY <1>1, <2>1, <2>2, <3>1
  <2>8. /\ e.n = c[k].n /\ e.read = c[k].read /\ ~e.pending /\ e.failed = c[k].failed
    BY <1>1, <2>1, <2>4 DEF ChangeType
  <2>9. /\ d # <<>> /\ c # <<>> /\ Last(d) = d[Len(d)] /\ Last(c) = c[Len(c)]
        /\ Len(d) \in Nat /\ Len(d) > 0
    BY <1>1, <2>1, <2>7, ChainPlaces
  <2>10. \A i \in 1..Len(d) : /\ k + i - 1 \in 1..Len(c) /\ d[i].n = c[k + i - 1].n
                              /\ d[i].read = c[k + i - 1].read /\ d[i].failed = c[k + i - 1].failed
                              /\ i # 1 => d[i] = c[k + i - 1] /\ k + i - 1 # k
                              /\ i = 1 => ~d[i].pending /\ k + i - 1 = k
    BY <1>1, <2>1, <2>7, <2>8
  <2>11. \A i, j \in 1..Len(c) : c[i].n = c[j].n => i = j
    BY DEF IsChain
  <2>12. \A i \in 1..Len(d) : d[i].pending <=> c[k + i - 1].pending /\ c[k + i - 1].n # n
    BY <2>1, <2>10, <2>11
  <2>13. IsChain(d)
    <3>1. \A i, j \in 1..Len(d) : d[i].n = d[j].n => i = j
      <4> SUFFICES ASSUME NEW i \in 1..Len(d), NEW j \in 1..Len(d), d[i].n = d[j].n PROVE i = j
        OBVIOUS
      <4>1. c[k + i - 1].n = c[k + j - 1].n /\ k + i - 1 \in 1..Len(c) /\ k + j - 1 \in 1..Len(c)
        BY <2>10
      <4>2. k + i - 1 = k + j - 1
        BY <2>11, <4>1
      <4> QED
        BY <2>1, <2>9, <4>2
    <3>2. \A i \in 1..Len(d) : i # 1 => d[i].pending \/ d[i].failed
      <4> SUFFICES ASSUME NEW i \in 1..Len(d), i # 1 PROVE d[i].pending \/ d[i].failed
        OBVIOUS
      <4>1. k + i - 1 \in 1..Len(c) /\ k + i - 1 # 1 /\ d[i] = c[k + i - 1]
        BY <2>1, <2>9, <2>10
      <4> QED
        BY <4>1 DEF IsChain
    <3>3. ~Last(d).failed
      <4>1. Len(d) \in 1..Len(d) /\ k + Len(d) - 1 = Len(c)
        BY <1>1, <2>1, <2>7, <2>9
      <4>2. d[Len(d)].failed = c[Len(c)].failed
        BY <2>10, <4>1
      <4> QED
        BY <2>9, <4>2 DEF IsChain
    <3> QED
      BY <2>7, <3>1, <3>2, <3>3 DEF IsChain
  <2>14. /\ Last(d).n = Last(c).n /\ Last(d).read = Last(c).read
         /\ Last(c).n # n => Last(d).pending = Last(c).pending
    <3>1. Len(d) \in 1..Len(d) /\ k + Len(d) - 1 = Len(c)
      BY <1>1, <2>1, <2>7, <2>9
    <3>2. /\ d[Len(d)].n = c[Len(c)].n /\ d[Len(d)].read = c[Len(c)].read
          /\ Len(d) # 1 => d[Len(d)] = c[Len(c)]
          /\ Len(d) = 1 => c[Len(c)].n = n
      BY <1>1, <2>1, <2>10, <3>1
    <3> QED
      BY <2>9, <3>2
  <2>15. \A i \in 1..Len(d) : \E j \in 1..Len(c) :
            d[i].n = c[j].n /\ (d[i].pending <=> c[j].pending /\ c[j].n # n)
    BY <2>10, <2>12
  <2> QED
    BY <2>9, <2>13, <2>14, <2>15 DEF d
<1> QED
  BY <1>2, <1>3

\* What Failed leaves alone, whichever press it was.
LEMMA FailedIs ==
  ASSUME NEW c, IsChain(c), NEW n
  PROVE  LET d == Failed(c, n) IN
         /\ d \in Seq(ChangeType) /\ Len(d) = Len(c)
         /\ \A i \in 1..Len(c) :
              /\ d[i].n = c[i].n /\ d[i].read = c[i].read /\ d[i].was = c[i].was
              /\ d[i].pending <=> c[i].pending /\ c[i].n # n
              /\ d[i].failed <=> c[i].failed \/ c[i].n = n
<1> DEFINE k == At(c, n)
           d == Failed(c, n)
<1>1. c \in Seq(ChangeType) /\ Len(c) \in Nat /\ \A i \in 1..Len(c) : c[i] \in ChangeType
  BY ChainPlaces DEF IsChain
<1>2. CASE k = 0
  <2>1. d = c /\ \A i \in 1..Len(c) : c[i].n # n
    BY <1>2, AtIs DEF Failed
  <2> QED
    BY <1>1, <2>1
<1>3. CASE k # 0
  <2>1. k \in 1..Len(c) /\ c[k].n = n
    BY <1>3, AtIs
  <2>2. PICK e \in ChangeType : e = [c[k] EXCEPT !.failed = TRUE, !.pending = FALSE]
    BY <1>1, <2>1 DEF ChangeType
  <2>3. d = [c EXCEPT ![k] = e]
    BY <1>1, <1>3, <2>1, <2>2 DEF Failed
  <2> HIDE DEF d, k
  <2>4. /\ d \in Seq(ChangeType) /\ Len(d) = Len(c)
        /\ \A j \in 1..Len(c) : d[j] = IF j = k THEN e ELSE c[j]
    BY <1>1, <2>1, <2>2, <2>3, ExceptSeq
  <2>5. /\ e.n = n /\ e.read = c[k].read /\ e.was = c[k].was /\ e.failed /\ ~e.pending
    BY <1>1, <2>1, <2>2 DEF ChangeType
  <2>6. \A i \in 1..Len(c) : c[i].n = n => i = k
    BY <2>1 DEF IsChain
  <2> QED
    BY <2>1, <2>4, <2>5, <2>6 DEF d
<1> QED
  BY <1>2, <1>3

LEMMA FailedBelow ==
  ASSUME NEW c, IsChain(c), NEW n, c # <<>>, Last(c).n # n
  PROVE  LET d == Failed(c, n) IN
         /\ IsChain(d) /\ d # <<>>
         /\ Last(d).n = Last(c).n /\ Last(d).read = Last(c).read
         /\ Last(d).pending <=> Last(c).pending
<1> DEFINE d == Failed(c, n)
<1> HIDE DEF d
<1>1. c \in Seq(ChangeType) /\ Len(c) \in Nat /\ Len(c) > 0 /\ Last(c) = c[Len(c)]
  BY ChainPlaces DEF IsChain
<1>2. /\ d \in Seq(ChangeType) /\ Len(d) = Len(c)
      /\ \A i \in 1..Len(c) :
           /\ d[i].n = c[i].n /\ d[i].read = c[i].read
           /\ d[i].pending <=> c[i].pending /\ c[i].n # n
           /\ d[i].failed <=> c[i].failed \/ c[i].n = n
  BY FailedIs DEF d
<1>3. d # <<>> /\ Last(d) = d[Len(c)]
  BY <1>1, <1>2, ChainPlaces
<1>4. /\ Last(d).n = Last(c).n /\ Last(d).read = Last(c).read
      /\ Last(d).pending <=> Last(c).pending
      /\ Last(d).failed <=> Last(c).failed
  BY <1>1, <1>2, <1>3
<1>5. IsChain(d)
  <2>1. \A i \in 1..Len(d) : i # 1 => d[i].pending \/ d[i].failed
    BY <1>2 DEF IsChain
  <2>2. \A i, j \in 1..Len(d) : d[i].n = d[j].n => i = j
    BY <1>2 DEF IsChain
  <2> QED
    BY <1>2, <1>4, <2>1, <2>2 DEF IsChain
<1> QED
  BY <1>3, <1>4, <1>5 DEF d

LEMMA KeptIs ==
  ASSUME NEW c \in Seq(ChangeType)
  PROVE  /\ Kept(c) \in 0..Len(c)
         /\ Kept(c) = 0 \/ ~c[Kept(c)].failed
         /\ \A i \in (Kept(c) + 1)..Len(c) : c[i].failed
<1> DEFINE Good == {k \in 1..Len(c) : ~c[k].failed}
           Fits(k) == (k = 0 \/ ~c[k].failed) /\ \A i \in (k + 1)..Len(c) : c[i].failed
<1>1. Len(c) \in Nat
  BY ChainPlaces
<1>2. \E k \in 0..Len(c) : Fits(k)
  <2>1. CASE Good = {}
    BY <1>1, <2>1
  <2>2. CASE Good # {}
    <3>1. PICK k \in Good : \A j \in Good : j <= k
      <4> HIDE DEF Good
      <4>1. Good \in SUBSET (1..Len(c))
        BY DEF Good
      <4> QED
        BY <1>1, <2>2, <4>1, LastPlace
    <3>2. k \in 0..Len(c) /\ Fits(k)
      BY <1>1, <3>1
    <3> QED
      BY <3>2
  <2> QED
    BY <2>1, <2>2
<1>3. Kept(c) = CHOOSE k \in 0..Len(c) : Fits(k)
  BY DEF Kept
<1>4. Kept(c) \in 0..Len(c) /\ Fits(Kept(c))
  <2> HIDE DEF Fits
  <2> QED
    BY <1>2, <1>3
<1> QED
  BY <1>4

\* What is left of a chain whose newest change failed, and what the row falls back to.
TakenBack(c, n) == SubSeq(Failed(c, n), 1, Kept(Failed(c, n)))

LEMMA TakenBackIs ==
  ASSUME NEW c, IsChain(c), NEW n, Newest(c, n)
  PROVE  LET d == TakenBack(c, n)
             k == Kept(Failed(c, n))
         IN  /\ IsChain(d) /\ k \in 0..(Len(c) - 1) /\ Len(d) = k
             /\ d # <<>> <=> k # 0
             /\ d # <<>> => Last(d).read = Failed(c, n)[k].read
             /\ \A i \in 1..Len(d) : /\ d[i].n = c[i].n
                                     /\ d[i].pending <=> c[i].pending
                                     /\ c[i].n # n
<1> DEFINE f == Failed(c, n)
           k == Kept(f)
           d == TakenBack(c, n)
<1>1. /\ c \in Seq(ChangeType) /\ Len(c) \in Nat /\ Len(c) > 0 /\ Last(c) = c[Len(c)]
      /\ c # <<>> /\ c[Len(c)].n = n
  BY ChainPlaces DEF IsChain, Newest
<1>2. /\ f \in Seq(ChangeType) /\ Len(f) = Len(c)
      /\ \A i \in 1..Len(c) :
           /\ f[i].n = c[i].n /\ f[i].read = c[i].read
           /\ f[i].pending <=> c[i].pending /\ c[i].n # n
           /\ f[i].failed <=> c[i].failed \/ c[i].n = n
  BY FailedIs
<1>3. d = SubSeq(f, 1, k)
  BY DEF TakenBack
<1> HIDE DEF f, k, d
<1>4. k \in 0..Len(c) /\ (k = 0 \/ ~f[k].failed)
  BY <1>2, KeptIs DEF k
<1>5. k # Len(c)
  BY <1>1, <1>2, <1>4
<1>6. d \in Seq(ChangeType) /\ Len(d) = k /\ \A i \in 1..k : d[i] = f[i]
  <2>1. k \in Int /\ 1 \in Int /\ \A i \in 1..k : f[i] \in ChangeType
    BY <1>1, <1>2, <1>4, ChainPlaces
  <2>2. /\ SubSeq(f, 1, k) \in Seq(ChangeType)
             /\ Len(SubSeq(f, 1, k)) = IF 1 <= k THEN k - 1 + 1 ELSE 0
        /\ \A i \in 1..(k - 1 + 1) : SubSeq(f, 1, k)[i] = f[1 + i - 1]
    BY <2>1, SubSeqProperties
  <2> QED
    BY <1>1, <1>3, <1>4, <2>2
<1>7. \A i \in 1..k : /\ i \in 1..Len(c) /\ i # Len(c) /\ c[i].n # n
                      /\ d[i].n = c[i].n /\ (d[i].pending <=> c[i].pending)
                      /\ d[i].failed <=> c[i].failed
  <2> SUFFICES ASSUME NEW i \in 1..k
               PROVE  /\ i \in 1..Len(c) /\ i # Len(c) /\ c[i].n # n
                      /\ d[i].n = c[i].n /\ (d[i].pending <=> c[i].pending)
                      /\ d[i].failed <=> c[i].failed
    OBVIOUS
  <2>1. i \in 1..Len(c) /\ i # Len(c)
    BY <1>1, <1>4, <1>5
  <2>2. c[i].n # n
    BY <1>1, <2>1 DEF IsChain
  <2> QED
    BY <1>2, <1>6, <2>1, <2>2
<1>8. d # <<>> <=> k # 0
  BY <1>4, <1>6, ChainPlaces
<1>9. d # <<>> => Last(d) = f[k] /\ ~Last(d).failed
  BY <1>1, <1>4, <1>6, <1>8, ChainPlaces
<1>10. IsChain(d)
  <2>1. \A i, j \in 1..Len(d) : d[i].n = d[j].n => i = j
    BY <1>6, <1>7 DEF IsChain
  <2>2. \A i \in 1..Len(d) : i # 1 => d[i].pending \/ d[i].failed
    BY <1>6, <1>7 DEF IsChain
  <2> QED
    BY <1>6, <1>9, <2>1, <2>2 DEF IsChain
<1> QED
  BY <1>1, <1>4, <1>5, <1>6, <1>7, <1>8, <1>9, <1>10 DEF d, k, f

\* Where the newest change is the only one pending, taking it back puts the row back to
\* what it showed under the choices of this tab.
LEMMA BackToBase ==
  ASSUME NEW c, IsChain(c), NEW n, Newest(c, n),
         \A i \in 1..Len(c) : c[i].pending <=> i = Len(c)
  PROVE  LET d == TakenBack(c, n)
             f == Failed(c, n)
         IN  IF c[1].pending \/ c[1].failed
             THEN Kept(f) = 0 /\ f[1].was = Base(c)
             ELSE Kept(f) = 1 /\ f[1].read = Base(c) /\ ~Last(d).pending
<1> DEFINE f == Failed(c, n)
           k == Kept(f)
           d == TakenBack(c, n)
<1>1. /\ c \in Seq(ChangeType) /\ Len(c) \in Nat /\ Len(c) > 0 /\ c # <<>> /\ c[Len(c)].n = n
  BY ChainPlaces DEF IsChain, Newest
<1>2. /\ f \in Seq(ChangeType) /\ Len(f) = Len(c)
      /\ \A i \in 1..Len(c) :
           /\ f[i].read = c[i].read /\ f[i].was = c[i].was
           /\ f[i].failed <=> c[i].failed \/ c[i].n = n
  BY FailedIs
<1>3. /\ IsChain(d) /\ k \in 0..(Len(c) - 1) /\ Len(d) = k /\ (d # <<>> <=> k # 0)
      /\ \A i \in 1..Len(d) : d[i].pending <=> c[i].pending
  BY TakenBackIs
<1> HIDE DEF f, k, d
<1>4. (k = 0 \/ ~f[k].failed) /\ \A i \in (k + 1)..Len(c) : f[i].failed
  BY <1>2, KeptIs DEF k
<1>5. \A i \in 1..Len(c) : i # 1 => f[i].failed
  <2> SUFFICES ASSUME NEW i \in 1..Len(c), i # 1 PROVE f[i].failed
    OBVIOUS
  <2>1. c[i].pending \/ c[i].failed
    BY DEF IsChain
  <2> QED
    BY <1>1, <1>2, <2>1
<1>6. k \in {0, 1}
  BY <1>1, <1>3, <1>4, <1>5
<1>7. 1 \in 1..Len(c)
  BY <1>1
<1>8. CASE c[1].pending \/ c[1].failed
  <2>1. f[1].failed
    BY <1>1, <1>2, <1>7, <1>8
  <2>2. k = 0
    BY <1>4, <1>6, <2>1
  <2> QED
    BY <1>2, <1>7, <1>8, <2>2 DEF Base, f, k
<1>9. CASE ~(c[1].pending \/ c[1].failed)
  <2>1. 1 # Len(c) /\ c[1].n # n
    BY <1>1, <1>7, <1>9 DEF IsChain
  <2>2. ~f[1].failed
    BY <1>2, <1>7, <1>9, <2>1
  <2>3. k = 1
    BY <1>4, <1>6, <1>7, <2>2
  <2>4. ~Last(d).pending
    BY <1>3, <1>9, <2>3 DEF Last
  <2> QED
    BY <1>2, <1>7, <1>9, <2>3, <2>4 DEF Base, f, k, d
<1> QED
  BY <1>8, <1>9

LEMMA AppendIs ==
  ASSUME NEW c, IsChain(c), NEW e \in ChangeType, \A i \in 1..Len(c) : c[i].n # e.n,
         e.pending, ~e.failed
  PROVE  LET d == Append(c, e) IN
         /\ IsChain(d) /\ d # <<>> /\ Last(d) = e /\ Len(d) = Len(c) + 1
         /\ \A i \in 1..Len(c) : d[i] = c[i]
         /\ d[Len(c) + 1] = e
<1> DEFINE d == Append(c, e)
<1>1. c \in Seq(ChangeType) /\ Len(c) \in Nat
  BY ChainPlaces DEF IsChain
<1>2. /\ d \in Seq(ChangeType) /\ d # <<>> /\ Len(d) = Len(c) + 1
      /\ \A i \in 1..Len(c) : d[i] = c[i]
      /\ d[Len(c) + 1] = e
  BY <1>1, AppendProperties
<1> HIDE DEF d
<1>3. Last(d) = e
  BY <1>2 DEF Last
<1>4. \A i, j \in 1..Len(d) : d[i].n = d[j].n => i = j
  <2> SUFFICES ASSUME NEW i \in 1..Len(d), NEW j \in 1..Len(d), d[i].n = d[j].n PROVE i = j
    OBVIOUS
  <2>1. i \in 1..Len(c) \/ i = Len(c) + 1
    BY <1>1, <1>2
  <2>2. j \in 1..Len(c) \/ j = Len(c) + 1
    BY <1>1, <1>2
  <2> QED
    BY <1>2, <2>1, <2>2 DEF IsChain
<1>5. \A i \in 1..Len(d) : i # 1 => d[i].pending \/ d[i].failed
  <2> SUFFICES ASSUME NEW i \in 1..Len(d), i # 1 PROVE d[i].pending \/ d[i].failed
    OBVIOUS
  <2>1. i \in 1..Len(c) \/ i = Len(c) + 1
    BY <1>1, <1>2
  <2> QED
    BY <1>2, <2>1 DEF IsChain
<1>6. IsChain(d)
  BY <1>2, <1>3, <1>4, <1>5 DEF IsChain
<1> QED
  BY <1>2, <1>3, <1>6 DEF d

-----------------------------------------------------------------------------
(* The invariant *)

PostType == [n : Nat, ids : SUBSET Mails, read : BOOLEAN, key : Nat \cup Mails,
             at : {"waits", "stored"}]
EventType == [m : Mails, read : BOOLEAN]

Typed ==
  /\ stored \in [Mails -> BOOLEAN] /\ joined \in Nat /\ pushes \in [Mails -> Nat]
  /\ here \in BOOLEAN /\ shown \in [Mails -> BOOLEAN] /\ row \in Nat
  /\ chain \in [Mails -> Seq(ChangeType)] /\ queueKey \in [Mails -> Nat \cup Mails]
  /\ posts \in Seq(PostType) /\ undo \subseteq Mails /\ wire \in Seq(EventType)
  /\ bg \in RequestType /\ nav \in RequestType
  /\ left \in [{"press", "event"} -> Nat]
  /\ wish \in [Mails -> SUBSET BOOLEAN] /\ unseen \subseteq Mails /\ crossed \subseteq Mails

\* The places of the POSTs about m.
Mine(m) == {i \in 1..Len(posts) : m \in posts[i].ids}

PostNumbers ==
  /\ \A i \in 1..Len(posts) : posts[i].n > left.press
  /\ \A i, j \in 1..Len(posts) : posts[i].n = posts[j].n => i = j

Chains == \A m \in Mails :
  /\ IsChain(chain[m])
  /\ \A i \in 1..Len(chain[m]) : chain[m][i].n = 0 \/ chain[m][i].n > left.press

\* A change is pending while its POST is not finished.
PendingPosts == \A m \in Mails : \A i \in 1..Len(chain[m]) :
  chain[m][i].pending <=> \E j \in Mine(m) : posts[j].n = chain[m][i].n

\* The POSTs about a message go out one after the other.
OneKey == \A m \in Mails \ crossed : \A i, j \in Mine(m) : posts[i].key = posts[j].key
StoredFirst == \A i \in 1..Len(posts) : posts[i].at = "stored" => First(i)

\* The last of them is of the newest change.
NewestInv == \A m \in Mails \ crossed : \A i \in Mine(m) :
  (\A j \in Mine(m) : j <= i) => Newest(chain[m], posts[i].n) /\ Pending(m)

IntentInv == PostNumbers /\ Chains /\ PendingPosts /\ OneKey /\ StoredFirst /\ NewestInv

\* The last POST about a message carries the choice the server owes, or has written it.
Due(m, w) ==
  /\ (\A i \in Mine(m) : posts[i].at = "stored") => w = stored[m]
  /\ \A i \in Mine(m) : (\A j \in Mine(m) : j <= i) /\ posts[i].at = "waits" => w = posts[i].read
WishInv == \A m \in Mails \ crossed : \A w \in wish[m] : Due(m, w)

\* While readRevision has not moved, the overrides a request will retire are settled.
Unmoved(r) == r.at # "none" /\ ~r.moved => \A m \in r.settled : Overrides(m) /\ ~Pending(m)
RequestInv == Unmoved(bg) /\ Unmoved(nav)

Known == Mails \ (unseen \cup crossed)
OnWire(m) == {i \in 1..Len(wire) : wire[i].m = m}

\* The last event about a message tells what the database holds.
WireClaim(m) == pushes[m] = 0 =>
  \A i \in OnWire(m) : (\A j \in OnWire(m) : j <= i) => wire[i].read = stored[m]

\* With no event to come, what would be put back if the POSTs failed is what it holds.
Silent(m) == pushes[m] = 0 /\ OnWire(m) = {}
Told(m) == \A r \in {bg, nav} : r.at = "rendered" => r.read[m] = stored[m]
PendingClaim(m) == Silent(m) /\ Pending(m) =>
  /\ \A i \in Mine(m) : posts[i].at = "waits"
  /\ Base(chain[m]) = stored[m]
  /\ chain[m][1].pending \/ chain[m][1].failed => Told(m)

\* With no choice under way either, so is what the row shows or is about to.
Shows(r, m) == r.at = "rendered" /\ (~Overrides(m) \/ (m \in r.settled /\ ~r.moved))
RestClaim(m) == Silent(m) /\ ~Pending(m) =>
  /\ Overrides(m) => Change(m).read = stored[m]
  /\ ~Overrides(m) /\ here => shown[m] = stored[m]
  /\ \A r \in {bg, nav} : Shows(r, m) => r.read[m] = stored[m]

Claims(m) == WireClaim(m) /\ PendingClaim(m) /\ RestClaim(m)
ClaimInv == \A m \in Known : Claims(m)

ReadInv ==
  /\ Typed /\ IntentInv /\ WishInv /\ RequestInv /\ OverridesAreShown /\ ClaimInv

-----------------------------------------------------------------------------
(* What the invariant says of one message *)

LEMMA PostsTyped == ASSUME Typed
                    PROVE  /\ Len(posts) \in Nat /\ DOMAIN posts = 1..Len(posts)
                           /\ \A i \in 1..Len(posts) : posts[i] \in PostType
BY LenProperties, ElementOfSeq DEF Typed

LEMMA WireTyped == ASSUME Typed
                   PROVE  /\ Len(wire) \in Nat /\ DOMAIN wire = 1..Len(wire)
                          /\ \A i \in 1..Len(wire) : wire[i] \in EventType
BY LenProperties, ElementOfSeq DEF Typed

LEMMA ChangeTyped == ASSUME IntentInv, NEW m \in Mails
                     PROVE  /\ IsChain(chain[m]) /\ Len(chain[m]) \in Nat
                            /\ Overrides(m) => /\ Change(m) \in ChangeType /\ Len(chain[m]) > 0
                                               /\ Change(m) = chain[m][Len(chain[m])]
<1>1. IsChain(chain[m]) /\ chain[m] \in Seq(ChangeType)
  BY DEF IntentInv, Chains, IsChain
<1> QED
  BY <1>1, ChainPlaces DEF Overrides, Change

\* Where a POST is about a message there is a last one.
LEMMA LastOfMine ==
  ASSUME Typed, NEW m, Mine(m) # {}
  PROVE  \E i \in Mine(m) : \A j \in Mine(m) : j <= i
<1>1. Len(posts) \in Nat /\ Mine(m) \in SUBSET (1..Len(posts))
  BY PostsTyped DEF Mine
<1> QED
  BY <1>1, LastPlace

LEMMA PendingMine ==
  ASSUME Typed, IntentInv, NEW m \in Mails
  PROVE  /\ Pending(m) => Mine(m) # {}
         /\ m \notin crossed => (Pending(m) <=> Mine(m) # {})
<1>1. ASSUME Pending(m) PROVE Mine(m) # {}
  <2>1. Len(chain[m]) \in 1..Len(chain[m]) /\ chain[m][Len(chain[m])].pending
    BY <1>1, ChangeTyped DEF Pending
  <2> QED
    BY <2>1 DEF IntentInv, PendingPosts
<1>2. ASSUME m \notin crossed, Mine(m) # {} PROVE Pending(m)
  BY <1>2, LastOfMine DEF IntentInv, NewestInv
<1> QED
  BY <1>1, <1>2

\* A POST that is first of its key is the only one of its message at the server, and a
\* later one of the message waits.
LEMMA FirstOfMine ==
  ASSUME Typed, IntentInv, NEW m \in Mails \ crossed, NEW i \in Mine(m),
         posts[i].at = "stored" \/ First(i)
  PROVE  \A j \in Mine(m) : i <= j /\ (i # j => posts[j].at = "waits")
<1>1. First(i) /\ i \in 1..Len(posts) /\ Len(posts) \in Nat
  BY PostsTyped DEF IntentInv, StoredFirst, Mine
<1>2. ASSUME NEW j \in Mine(m) PROVE i <= j /\ (i # j => posts[j].at = "waits")
  <2>1. posts[j].key = posts[i].key /\ j \in 1..Len(posts)
    BY DEF IntentInv, OneKey, Mine
  <2>2. i <= j
    BY <1>1, <2>1 DEF First
  <2>3. i # j => ~First(j)
    BY <1>1, <2>1, <2>2 DEF First
  <2>4. posts[j].at \in {"waits", "stored"}
    BY <2>1, PostsTyped DEF PostType
  <2> QED
    BY <2>1, <2>2, <2>3, <2>4 DEF IntentInv, StoredFirst
<1> QED
  BY <1>2

-----------------------------------------------------------------------------
(* The choices and their POSTs, step by step *)

\* A press: one change on each of its messages, one POST after all the others.
Pressing(ms, key, read) ==
  /\ ms \subseteq Mails /\ key \in Nat \cup Mails /\ read \in BOOLEAN
  /\ Spend("press") /\ MarkRead(ms, key, read)

LEMMA PressedPosts ==
  ASSUME ReadInv, NEW ms, NEW key, NEW read, Pressing(ms, key, read)
  PROVE  /\ Len(posts) \in Nat /\ posts' \in Seq(PostType) /\ Len(posts') = Len(posts) + 1
         /\ \A i \in 1..Len(posts) : posts'[i] = posts[i]
         /\ posts'[Len(posts) + 1].n = left.press
         /\ posts'[Len(posts) + 1].ids = ms /\ posts'[Len(posts) + 1].key = key
         /\ posts'[Len(posts) + 1].read = read /\ posts'[Len(posts) + 1].at = "waits"
         /\ left.press \in Nat /\ left.press > 0 /\ left'.press = left.press - 1
         /\ left' \in [{"press", "event"} -> Nat]
<1> DEFINE p == [n |-> left.press, ids |-> ms, read |-> read, key |-> key, at |-> "waits"]
<1>1. left \in [{"press", "event"} -> Nat] /\ posts \in Seq(PostType) /\ Len(posts) \in Nat
  BY PostsTyped DEF ReadInv, Typed
<1>2. left.press > 0 /\ left' = [left EXCEPT !["press"] = @ - 1]
  BY DEF Pressing, Spend
<1>3. left'.press = left.press - 1 /\ left' \in [{"press", "event"} -> Nat] /\ left.press \in Nat
  BY <1>1, <1>2
<1>4. p \in PostType /\ posts' = Append(posts, p)
  BY <1>1, <1>3 DEF Pressing, MarkRead, PostType
<1> HIDE DEF p
<1>5. /\ posts' \in Seq(PostType) /\ Len(posts') = Len(posts) + 1
      /\ \A i \in 1..Len(posts) : posts'[i] = posts[i]
      /\ posts'[Len(posts) + 1] = p
  BY <1>1, <1>4, AppendProperties
<1> QED
  BY <1>1, <1>2, <1>3, <1>5 DEF p

LEMMA PressedMine ==
  ASSUME ReadInv, NEW ms, NEW key, NEW read, Pressing(ms, key, read), NEW m
  PROVE  /\ m \in ms => Mine(m)' = Mine(m) \cup {Len(posts) + 1}
         /\ m \notin ms => Mine(m)' = Mine(m)
         /\ Mine(m) \subseteq 1..Len(posts)
BY PressedPosts DEF Mine

LEMMA PressedChain ==
  ASSUME ReadInv, NEW ms, NEW key, NEW read, Pressing(ms, key, read), NEW m \in Mails
  PROVE  /\ m \notin ms => chain'[m] = chain[m]
         /\ m \in ms =>
              /\ IsChain(chain'[m]) /\ Len(chain'[m]) = Len(chain[m]) + 1 /\ chain'[m] # <<>>
              /\ \A i \in 1..Len(chain[m]) : chain'[m][i] = chain[m][i]
              /\ chain'[m][Len(chain[m]) + 1] = NewChange(left.press, m, read)
              /\ Last(chain'[m]) = NewChange(left.press, m, read)
              /\ Last(chain'[m]).n = left.press /\ Last(chain'[m]).pending
              /\ Last(chain'[m]).read = read /\ Last(chain'[m]).was = WasRead(m)
         /\ chain' \in [Mails -> Seq(ChangeType)]
<1>1. ASSUME NEW x \in Mails
      PROVE  /\ IsChain(chain[x]) /\ NewChange(left.press, x, read) \in ChangeType
             /\ Len(chain[x]) \in Nat /\ chain[x] \in Seq(ChangeType)
             /\ \A i \in 1..Len(chain[x]) : chain[x][i].n # left.press
  <2>1. IsChain(chain[x]) /\ (Overrides(x) => Change(x) \in ChangeType) /\ Len(chain[x]) \in Nat
    BY ChangeTyped DEF ReadInv
  <2>2. WasRead(x) \in BOOLEAN
    BY <2>1 DEF WasRead, ReadInv, Typed, ChangeType
  <2>3. left.press \in Nat /\ left.press > 0
    BY PressedPosts
  <2>4. NewChange(left.press, x, read) \in ChangeType
    BY <2>2, <2>3 DEF NewChange, ChangeType, Pressing
  <2>5. \A i \in 1..Len(chain[x]) : chain[x][i].n = 0 \/ chain[x][i].n > left.press
    BY DEF ReadInv, IntentInv, Chains
  <2> QED
    BY <2>1, <2>3, <2>4, <2>5 DEF IsChain
<1>2. chain' = [x \in Mails |->
                  IF x \in ms THEN Append(chain[x], NewChange(left.press, x, read)) ELSE chain[x]]
  BY DEF Pressing, MarkRead
<1>3. \A x \in Mails : Append(chain[x], NewChange(left.press, x, read)) \in Seq(ChangeType)
  BY <1>1, AppendProperties
<1>4. chain' \in [Mails -> Seq(ChangeType)]
  BY <1>1, <1>2, <1>3
<1>5. ASSUME m \in ms
      PROVE  /\ IsChain(chain'[m]) /\ Len(chain'[m]) = Len(chain[m]) + 1 /\ chain'[m] # <<>>
             /\ \A i \in 1..Len(chain[m]) : chain'[m][i] = chain[m][i]
             /\ chain'[m][Len(chain[m]) + 1] = NewChange(left.press, m, read)
             /\ Last(chain'[m]) = NewChange(left.press, m, read)
  <2>1. PICK e \in ChangeType : e = NewChange(left.press, m, read)
    BY <1>1
  <2>2. e.n = left.press /\ e.pending /\ ~e.failed
    BY <2>1 DEF NewChange
  <2>3. chain'[m] = Append(chain[m], e)
    BY <1>2, <1>5, <2>1
  <2>4. /\ IsChain(Append(chain[m], e)) /\ Append(chain[m], e) # <<>>
        /\ Last(Append(chain[m], e)) = e /\ Len(Append(chain[m], e)) = Len(chain[m]) + 1
        /\ \A i \in 1..Len(chain[m]) : Append(chain[m], e)[i] = chain[m][i]
        /\ Append(chain[m], e)[Len(chain[m]) + 1] = e
    BY <1>1, <2>2, AppendIs
  <2> QED
    BY <2>1, <2>3, <2>4
<1> QED
  BY <1>2, <1>4, <1>5 DEF NewChange

LEMMA PressedIntent ==
  ASSUME ReadInv, NEW ms, NEW key, NEW read, Pressing(ms, key, read)
  PROVE  IntentInv'
<1> DEFINE new == Len(posts) + 1
<1>1. /\ Len(posts) \in Nat /\ Len(posts') = new
      /\ \A i \in 1..Len(posts) : posts'[i] = posts[i]
      /\ posts'[new].n = left.press /\ posts'[new].ids = ms /\ posts'[new].key = key
      /\ posts'[new].at = "waits"
      /\ left.press \in Nat /\ left.press > 0 /\ left'.press = left.press - 1
      /\ \A i \in 1..new : i \in 1..Len(posts) \/ i = new
  BY PressedPosts
<1>2. \A m \in Mails :
        /\ m \in ms => Mine(m)' = Mine(m) \cup {new}
        /\ m \notin ms => Mine(m)' = Mine(m)
        /\ Mine(m) \subseteq 1..Len(posts)
  BY PressedMine
<1>3. \A i \in 1..Len(posts) : posts[i].n > left.press /\ posts[i].n \in Nat
  BY PostsTyped DEF ReadInv, IntentInv, PostNumbers, PostType
<1>4. PostNumbers'
  <2>1. \A i \in 1..Len(posts') : posts'[i].n > left'.press
    BY <1>1, <1>3
  <2>2. \A i, j \in 1..Len(posts') : posts'[i].n = posts'[j].n => i = j
    BY <1>1, <1>3 DEF ReadInv, IntentInv, PostNumbers
  <2> QED
    BY <2>1, <2>2 DEF PostNumbers
<1>5. ASSUME NEW m \in Mails
      PROVE  /\ IsChain(chain[m]) /\ Len(chain[m]) \in Nat
             /\ \A i \in 1..Len(chain[m]) : /\ chain[m][i].n \in Nat
                                            /\ chain[m][i].n = 0 \/ chain[m][i].n > left.press
  <2>1. IsChain(chain[m]) /\ chain[m] \in Seq(ChangeType)
    BY ChangeTyped DEF ReadInv, IsChain
  <2> QED
    BY <2>1, ChainPlaces DEF ReadInv, IntentInv, Chains, ChangeType
<1>6. ASSUME NEW m \in Mails \ ms PROVE chain'[m] = chain[m]
  BY PressedChain
<1>7. ASSUME NEW m \in Mails \cap ms
      PROVE  /\ IsChain(chain'[m]) /\ Len(chain'[m]) = Len(chain[m]) + 1 /\ chain'[m] # <<>>
             /\ \A i \in 1..Len(chain[m]) : chain'[m][i] = chain[m][i]
             /\ chain'[m][Len(chain[m]) + 1].n = left.press
             /\ chain'[m][Len(chain[m]) + 1].pending
             /\ Last(chain'[m]).n = left.press /\ Last(chain'[m]).pending
  <2>1. /\ IsChain(chain'[m]) /\ Len(chain'[m]) = Len(chain[m]) + 1 /\ chain'[m] # <<>>
        /\ \A i \in 1..Len(chain[m]) : chain'[m][i] = chain[m][i]
        /\ chain'[m][Len(chain[m]) + 1] = NewChange(left.press, m, read)
        /\ Last(chain'[m]).n = left.press /\ Last(chain'[m]).pending
    BY PressedChain
  <2>2. NewChange(left.press, m, read).n = left.press /\ NewChange(left.press, m, read).pending
    BY DEF NewChange
  <2> QED
    BY <2>1, <2>2
<1>8. Chains'
  <2> SUFFICES ASSUME NEW m \in Mails
               PROVE  /\ IsChain(chain'[m])
                      /\ \A i \in 1..Len(chain'[m]) :
                           chain'[m][i].n = 0 \/ chain'[m][i].n > left'.press
    BY DEF Chains
  <2>1. CASE m \in ms
    <3>1. \A i \in 1..Len(chain'[m]) : i \in 1..Len(chain[m]) \/ i = Len(chain[m]) + 1
      BY <1>5, <1>7, <2>1
    <3>2. \A i \in 1..Len(chain[m]) : chain'[m][i].n = 0 \/ chain'[m][i].n > left'.press
      <4> SUFFICES ASSUME NEW i \in 1..Len(chain[m])
                   PROVE  chain'[m][i].n = 0 \/ chain'[m][i].n > left'.press
        OBVIOUS
      <4>1. chain'[m][i].n = chain[m][i].n /\ chain[m][i].n \in Nat
        BY <1>5, <1>7, <2>1
      <4>2. chain[m][i].n = 0 \/ chain[m][i].n > left.press
        BY <1>5
      <4> QED
        BY <1>1, <4>1, <4>2
    <3>3. chain'[m][Len(chain[m]) + 1].n > left'.press
      BY <1>1, <1>7, <2>1
    <3>4. IsChain(chain'[m])
      BY <1>7, <2>1
    <3> QED
      BY <3>1, <3>2, <3>3, <3>4
  <2>2. CASE m \notin ms
    BY <1>1, <1>5, <1>6, <2>2
  <2> QED
    BY <2>1, <2>2
<1>9. PendingPosts'
  <2> SUFFICES ASSUME NEW m \in Mails, NEW i \in 1..Len(chain'[m])
               PROVE  chain'[m][i].pending <=> \E j \in Mine(m)' : posts'[j].n = chain'[m][i].n
    BY DEF PendingPosts
  <2>1. ASSUME NEW k \in 1..Len(chain[m])
        PROVE  chain[m][k].pending <=> \E j \in Mine(m)' : posts'[j].n = chain[m][k].n
    <3>1. chain[m][k].pending <=> \E j \in Mine(m) : posts[j].n = chain[m][k].n
      BY DEF ReadInv, IntentInv, PendingPosts
    <3>2. \A j \in Mine(m) : posts'[j] = posts[j]
      BY <1>1, <1>2
    <3>3. posts'[new].n # chain[m][k].n
      BY <1>1, <1>5
    <3> QED
      BY <1>2, <3>1, <3>2, <3>3
  <2>2. CASE m \in ms
    <3>1. i \in 1..Len(chain[m]) \/ i = Len(chain[m]) + 1
      BY <1>5, <1>7, <2>2
    <3>2. CASE i \in 1..Len(chain[m])
      BY <1>7, <2>1, <2>2, <3>2
    <3>3. CASE i = Len(chain[m]) + 1
      BY <1>1, <1>2, <1>7, <2>2, <3>3
    <3> QED
      BY <3>1, <3>2, <3>3
  <2>3. CASE m \notin ms
    BY <1>6, <2>1, <2>3
  <2> QED
    BY <2>2, <2>3
<1>10. crossed' = crossed \cup {m \in ms : Crosses(m, key)}
  BY DEF Pressing, MarkRead
<1>11. OneKey'
  <2> SUFFICES ASSUME NEW m \in Mails \ crossed', NEW i \in Mine(m)', NEW j \in Mine(m)'
               PROVE  posts'[i].key = posts'[j].key
    BY DEF OneKey
  <2>1. \A k, l \in Mine(m) : posts'[k].key = posts'[l].key
    BY <1>1, <1>2, <1>10 DEF ReadInv, IntentInv, OneKey
  <2>2. m \in ms => \A k \in Mine(m) : posts'[k].key = key
    BY <1>1, <1>2, <1>10, PostsTyped DEF Crosses, Mine, ReadInv
  <2> QED
    BY <1>1, <1>2, <2>1, <2>2
<1>12. StoredFirst'
  <2> SUFFICES ASSUME NEW i \in 1..Len(posts'), posts'[i].at = "stored" PROVE First(i)'
    BY DEF StoredFirst
  <2>1. i \in 1..Len(posts) /\ First(i)
    BY <1>1 DEF ReadInv, IntentInv, StoredFirst
  <2>2. \A j \in 1..(i - 1) : j \in 1..Len(posts)
    BY <1>1, <2>1
  <2> QED
    BY <1>1, <2>1, <2>2 DEF First
<1>13. NewestInv'
  <2> SUFFICES ASSUME NEW m \in Mails \ crossed', NEW i \in Mine(m)', \A j \in Mine(m)' : j <= i
               PROVE  Newest(chain'[m], posts'[i].n) /\ Pending(m)'
    BY DEF NewestInv
  <2>1. CASE m \in ms
    <3>1. i = new
      BY <1>1, <1>2, <2>1
    <3> QED
      BY <1>1, <1>7, <2>1, <3>1 DEF Newest, Pending, Overrides, Change
  <2>2. CASE m \notin ms
    <3>1. i \in Mine(m) /\ posts'[i] = posts[i] /\ chain'[m] = chain[m] /\ m \notin crossed
      BY <1>1, <1>2, <1>6, <1>10, <2>2
    <3>2. Newest(chain[m], posts[i].n) /\ Pending(m)
      BY <1>2, <2>2, <3>1 DEF ReadInv, IntentInv, NewestInv
    <3> QED
      BY <3>1, <3>2 DEF Newest, Pending, Overrides, Change
  <2> QED
    BY <2>1, <2>2
<1> QED
  BY <1>4, <1>8, <1>9, <1>11, <1>12, <1>13 DEF IntentInv

\* A POST that is finished leaves the queue; of its change no entry stays pending.
LEMMA FinishedPosts ==
  ASSUME Typed, NEW i \in 1..Len(posts), posts' = RemoveAt(posts, i)
  PROVE  /\ posts' \in Seq(PostType) /\ Len(posts) \in Nat /\ Len(posts') = Len(posts) - 1
         /\ \A j \in 1..Len(posts') :
              Old(i, j) \in (1..Len(posts)) \ {i} /\ posts'[j] = posts[Old(i, j)]
         /\ \A j, k \in 1..Len(posts') : j <= k <=> Old(i, j) <= Old(i, k)
         /\ \A k \in (1..Len(posts)) \ {i} : \E j \in 1..Len(posts') : Old(i, j) = k
         /\ \A m : /\ \A j \in Mine(m)' : j \in 1..Len(posts') /\ Old(i, j) \in Mine(m) \ {i}
                   /\ \A k \in Mine(m) \ {i} : \E j \in Mine(m)' : Old(i, j) = k
<1>1. posts \in Seq(PostType) /\ Len(posts) \in Nat
  BY PostsTyped DEF Typed
<1>2. /\ posts' \in Seq(PostType) /\ Len(posts') = Len(posts) - 1
      /\ \A j \in 1..Len(posts') :
           Old(i, j) \in (1..Len(posts)) \ {i} /\ posts'[j] = posts[Old(i, j)]
  BY <1>1, Removed
<1>3. /\ \A j, k \in 1..Len(posts') : j <= k <=> Old(i, j) <= Old(i, k)
      /\ \A k \in (1..Len(posts)) \ {i} : \E j \in 1..Len(posts') : Old(i, j) = k
  <2>1. PICK n \in Nat : n = Len(posts)
    BY <1>1
  <2>2. /\ \A j, k \in 1..(n - 1) : j <= k <=> Old(i, j) <= Old(i, k)
        /\ \A k \in (1..n) \ {i} : \E j \in 1..(n - 1) : Old(i, j) = k
    BY <2>1, OldKeepsOrder
  <2> QED
    BY <1>2, <2>1, <2>2
<1>4. ASSUME NEW m
      PROVE  /\ \A j \in Mine(m)' : j \in 1..Len(posts') /\ Old(i, j) \in Mine(m) \ {i}
             /\ \A k \in Mine(m) \ {i} : \E j \in Mine(m)' : Old(i, j) = k
  <2>1. \A j \in Mine(m)' : j \in 1..Len(posts') /\ Old(i, j) \in Mine(m) \ {i}
    BY <1>2 DEF Mine
  <2>2. ASSUME NEW k \in Mine(m) \ {i} PROVE \E j \in Mine(m)' : Old(i, j) = k
    <3>1. PICK j \in 1..Len(posts') : Old(i, j) = k
      BY <1>3 DEF Mine
    <3>2. j \in Mine(m)'
      BY <1>2, <3>1 DEF Mine
    <3> QED
      BY <3>1, <3>2
  <2> QED
    BY <2>1, <2>2
<1> QED
  BY <1>1, <1>2, <1>3, <1>4

\* What finishing the POST p may do to a chain.
Finishes(m, p) ==
  /\ IsChain(chain'[m])
  /\ \A x \in 1..Len(chain'[m]) : \E y \in 1..Len(chain[m]) :
       /\ chain'[m][x].n = chain[m][y].n
       /\ chain'[m][x].pending <=> chain[m][y].pending /\ ~(m \in p.ids /\ chain[m][y].n = p.n)
  /\ Pending(m) /\ Change(m).n # p.n =>
       chain'[m] # <<>> /\ Last(chain'[m]).n = Change(m).n /\ Last(chain'[m]).pending

LEMMA FinishedIntent ==
  ASSUME ReadInv, NEW i \in 1..Len(posts), posts' = RemoveAt(posts, i),
         posts[i].at = "stored" \/ First(i),
         left'.press = left.press, crossed' = crossed,
         \A m \in Mails : Finishes(m, posts[i])
  PROVE  IntentInv'
<1>1. /\ Len(posts) \in Nat /\ Len(posts') = Len(posts) - 1
      /\ \A j \in 1..Len(posts') :
           Old(i, j) \in (1..Len(posts)) \ {i} /\ posts'[j] = posts[Old(i, j)]
      /\ \A j, k \in 1..Len(posts') : j <= k <=> Old(i, j) <= Old(i, k)
      /\ \A k \in (1..Len(posts)) \ {i} : \E j \in 1..Len(posts') : Old(i, j) = k
  BY FinishedPosts DEF ReadInv
<1>2. \A m : /\ \A j \in Mine(m)' : j \in 1..Len(posts') /\ Old(i, j) \in Mine(m) \ {i}
             /\ \A k \in Mine(m) \ {i} : \E j \in Mine(m)' : Old(i, j) = k
  BY FinishedPosts DEF ReadInv
<1>3. PostNumbers'
  <2>1. \A j \in 1..Len(posts') : posts'[j].n > left'.press
    BY <1>1 DEF ReadInv, IntentInv, PostNumbers
  <2>2. ASSUME NEW j \in 1..Len(posts'), NEW k \in 1..Len(posts'), posts'[j].n = posts'[k].n
        PROVE  j = k
    <3>1. Old(i, j) = Old(i, k)
      BY <1>1, <2>2 DEF ReadInv, IntentInv, PostNumbers
    <3>2. Old(i, j) \in 1..Len(posts) /\ Old(i, k) \in 1..Len(posts)
      BY <1>1
    <3>3. j <= k /\ k <= j
      BY <1>1, <3>1, <3>2
    <3> QED
      BY <1>1, <3>3
  <2> QED
    BY <2>1, <2>2 DEF PostNumbers
<1>4. Chains'
  <2> SUFFICES ASSUME NEW m \in Mails
               PROVE  /\ IsChain(chain'[m])
                      /\ \A x \in 1..Len(chain'[m]) :
                           chain'[m][x].n = 0 \/ chain'[m][x].n > left'.press
    BY DEF Chains
  <2> QED
    BY DEF Finishes, ReadInv, IntentInv, Chains
<1>5. PendingPosts'
  <2> SUFFICES ASSUME NEW m \in Mails, NEW x \in 1..Len(chain'[m])
               PROVE  chain'[m][x].pending <=> \E j \in Mine(m)' : posts'[j].n = chain'[m][x].n
    BY DEF PendingPosts
  <2>1. PICK y \in 1..Len(chain[m]) :
          /\ chain'[m][x].n = chain[m][y].n
          /\ chain'[m][x].pending <=> chain[m][y].pending
               /\ ~(m \in posts[i].ids /\ chain[m][y].n = posts[i].n)
    BY DEF Finishes
  <2>2. chain[m][y].pending <=> \E j \in Mine(m) : posts[j].n = chain[m][y].n
    BY DEF ReadInv, IntentInv, PendingPosts
  <2>3. ASSUME chain'[m][x].pending PROVE \E j \in Mine(m)' : posts'[j].n = chain'[m][x].n
    <3>1. PICK k \in Mine(m) : posts[k].n = chain[m][y].n
      BY <2>1, <2>2, <2>3
    <3>2. k # i
      BY <2>1, <2>3, <3>1 DEF Mine
    <3>3. PICK j \in Mine(m)' : Old(i, j) = k
      BY <1>2, <3>2
    <3> QED
      BY <1>1, <1>2, <2>1, <3>1, <3>3
  <2>4. ASSUME NEW j \in Mine(m)', posts'[j].n = chain'[m][x].n PROVE chain'[m][x].pending
    <3>1. /\ Old(i, j) \in Mine(m) \ {i} /\ posts[Old(i, j)].n = chain[m][y].n
          /\ Old(i, j) \in 1..Len(posts)
      BY <1>1, <1>2, <2>1, <2>4
    <3>2. posts[i].n # chain[m][y].n
      BY <3>1 DEF ReadInv, IntentInv, PostNumbers
    <3> QED
      BY <2>1, <2>2, <3>1, <3>2
  <2> QED
    BY <2>3, <2>4
<1>6. OneKey'
  <2> SUFFICES ASSUME NEW m \in Mails \ crossed, NEW j \in Mine(m)', NEW k \in Mine(m)'
               PROVE  posts'[j].key = posts'[k].key
    BY DEF OneKey
  <2>1. /\ Old(i, j) \in Mine(m) /\ posts'[j] = posts[Old(i, j)]
        /\ Old(i, k) \in Mine(m) /\ posts'[k] = posts[Old(i, k)]
    BY <1>1, <1>2
  <2>2. posts[Old(i, j)].key = posts[Old(i, k)].key
    BY <2>1 DEF ReadInv, IntentInv, OneKey
  <2> QED
    BY <2>1, <2>2
<1>7. StoredFirst'
  <2> SUFFICES ASSUME NEW j \in 1..Len(posts'), posts'[j].at = "stored" PROVE First(j)'
    BY DEF StoredFirst
  <2>1. First(Old(i, j)) /\ Old(i, j) \in 1..Len(posts)
    BY <1>1 DEF ReadInv, IntentInv, StoredFirst
  <2> SUFFICES ASSUME NEW k \in 1..(j - 1) PROVE posts'[k].key # posts'[j].key
    BY DEF First
  <2>2. k \in 1..Len(posts') /\ ~(j <= k)
    BY <1>1
  <2>3. Old(i, k) \in 1..Len(posts) /\ ~(Old(i, j) <= Old(i, k))
    BY <1>1, <2>2
  <2>4. Old(i, k) \in 1..(Old(i, j) - 1)
    BY <1>1, <2>1, <2>3
  <2> QED
    BY <1>1, <2>1, <2>2, <2>4 DEF First
<1>8. NewestInv'
  <2> SUFFICES ASSUME NEW m \in Mails \ crossed, NEW j \in Mine(m)', \A k \in Mine(m)' : k <= j
               PROVE  Newest(chain'[m], posts'[j].n) /\ Pending(m)'
    BY DEF NewestInv
  <2>1. /\ Old(i, j) \in Mine(m) /\ Old(i, j) # i /\ Old(i, j) \in 1..Len(posts)
        /\ posts'[j] = posts[Old(i, j)]
    BY <1>1, <1>2
  <2>2. \A k \in Mine(m) \ {i} : k <= Old(i, j)
    <3> SUFFICES ASSUME NEW k \in Mine(m) \ {i} PROVE k <= Old(i, j)
      OBVIOUS
    <3>1. PICK l \in Mine(m)' : Old(i, l) = k
      BY <1>2
    <3> QED
      BY <1>1, <1>2, <3>1
  <2>3. i \in Mine(m) => i <= Old(i, j)
    BY <2>1, FirstOfMine DEF ReadInv
  <2>4. Newest(chain[m], posts[Old(i, j)].n) /\ Pending(m)
    BY <2>1, <2>2, <2>3 DEF ReadInv, IntentInv, NewestInv
  <2>5. posts[Old(i, j)].n # posts[i].n
    BY <2>1 DEF ReadInv, IntentInv, PostNumbers
  <2>6. Change(m).n = posts[Old(i, j)].n
    BY <2>4 DEF Newest, Change
  <2>7. chain'[m] # <<>> /\ Last(chain'[m]).n = Change(m).n /\ Last(chain'[m]).pending
    BY <2>4, <2>5, <2>6 DEF Finishes
  <2> QED
    BY <2>1, <2>6, <2>7 DEF Newest, Pending, Overrides, Change
<1> QED
  BY <1>3, <1>4, <1>5, <1>6, <1>7, <1>8 DEF IntentInv

LEMMA AnsweredFinishes ==
  ASSUME ReadInv, NEW i \in 1..Len(posts), PostAnswered(i), NEW m \in Mails
  PROVE  Finishes(m, posts[i])
<1>1. IsChain(chain[m])
  BY ChangeTyped DEF ReadInv
<1>2. CASE m \notin posts[i].ids
  <2>1. chain'[m] = chain[m]
    BY <1>2 DEF PostAnswered
  <2> QED
    BY <1>1, <1>2, <2>1 DEF Finishes, Pending, Overrides, Change
<1>3. CASE m \in posts[i].ids
  <2>1. PICK d : d = Settled(chain[m], posts[i].n)
    OBVIOUS
  <2>2. chain'[m] = d
    BY <1>3, <2>1 DEF PostAnswered
  <2>3. /\ IsChain(d)
        /\ d = <<>> <=> chain[m] = <<>>
        /\ chain[m] # <<>> => /\ Last(d).n = Last(chain[m]).n /\ Last(d).read = Last(chain[m]).read
                              /\ Last(chain[m]).n # posts[i].n
                                   => Last(d).pending = Last(chain[m]).pending
        /\ \A x \in 1..Len(d) : \E y \in 1..Len(chain[m]) :
             d[x].n = chain[m][y].n /\
                   (d[x].pending <=> chain[m][y].pending /\ chain[m][y].n # posts[i].n)
    BY <1>1, <2>1, SettledIs, SMTT(60)
  <2> QED
    BY <1>3, <2>2, <2>3 DEF Finishes, Pending, Overrides, Change
<1> QED
  BY <1>2, <1>3

LEMMA FailsChain ==
  ASSUME NEW i \in 1..Len(posts), PostFails(i), NEW m \in Mails
  PROVE  chain'[m] = IF m \notin posts[i].ids THEN chain[m]
                     ELSE IF Newest(chain[m], posts[i].n) THEN TakenBack(chain[m], posts[i].n)
                     ELSE Failed(chain[m], posts[i].n)
BY DEF PostFails, TakenBack

LEMMA FailsFinishes ==
  ASSUME ReadInv, NEW i \in 1..Len(posts), PostFails(i), NEW m \in Mails
  PROVE  Finishes(m, posts[i])
<1>1. IsChain(chain[m])
  BY ChangeTyped DEF ReadInv
<1>2. CASE m \notin posts[i].ids
  <2>1. chain'[m] = chain[m]
    BY <1>2, FailsChain
  <2> QED
    BY <1>1, <1>2, <2>1 DEF Finishes, Pending, Overrides, Change
<1>3. CASE m \in posts[i].ids /\ Newest(chain[m], posts[i].n)
  <2>1. PICK d : d = TakenBack(chain[m], posts[i].n)
    OBVIOUS
  <2>2. chain'[m] = d
    BY <1>3, <2>1, FailsChain
  <2>3. /\ IsChain(d) /\ Len(d) \in 0..(Len(chain[m]) - 1)
        /\ \A x \in 1..Len(d) : /\ d[x].n = chain[m][x].n
                                /\ d[x].pending <=> chain[m][x].pending
                                /\ chain[m][x].n # posts[i].n
    BY <1>1, <1>3, <2>1, TakenBackIs
  <2>4. Len(chain[m]) \in Nat
    BY ChangeTyped DEF ReadInv
  <2>5. \A x \in 1..Len(d) : x \in 1..Len(chain[m])
    BY <2>3, <2>4
  <2> QED
    BY <1>3, <2>2, <2>3, <2>5 DEF Finishes, Newest, Change
<1>4. CASE m \in posts[i].ids /\ ~Newest(chain[m], posts[i].n)
  <2>1. PICK d : d = Failed(chain[m], posts[i].n)
    OBVIOUS
  <2>2. chain'[m] = d
    BY <1>4, <2>1, FailsChain
  <2>3. /\ d \in Seq(ChangeType) /\ Len(d) = Len(chain[m])
        /\ \A x \in 1..Len(chain[m]) :
             d[x].n = chain[m][x].n /\
                   (d[x].pending <=> chain[m][x].pending /\ chain[m][x].n # posts[i].n)
    BY <1>1, <2>1, FailedIs
  <2>4. IsChain(d) /\ (Overrides(m) => /\ d # <<>> /\ Last(d).n = Change(m).n
                                       /\ Last(d).pending <=> Change(m).pending)
    <3>1. CASE chain[m] = <<>>
      <4>1. Len(d) = 0
        BY <2>3, <3>1
      <4>2. d = <<>>
        BY <2>3, <4>1, ChainPlaces
      <4> QED
        BY <1>1, <3>1, <4>2 DEF Overrides
    <3>2. CASE chain[m] # <<>>
      <4>1. Last(chain[m]).n # posts[i].n
        BY <1>4, <3>2 DEF Newest
      <4>2. /\ IsChain(d) /\ d # <<>> /\ Last(d).n = Last(chain[m]).n
            /\ Last(d).pending <=> Last(chain[m]).pending
        BY <1>1, <2>1, <3>2, <4>1, FailedBelow
      <4> QED
        BY <4>2 DEF Change
    <3> QED
      BY <3>1, <3>2
  <2> QED
    BY <1>4, <2>2, <2>3, <2>4 DEF Finishes, Pending
<1> QED
  BY <1>2, <1>3, <1>4

LEMMA StoredPosts ==
  ASSUME Typed, NEW i \in 1..Len(posts), PostStored(i)
  PROVE  /\ posts' \in Seq(PostType) /\ Len(posts') = Len(posts)
         /\ \A j \in 1..Len(posts) :
              /\ posts'[j].n = posts[j].n /\ posts'[j].ids = posts[j].ids
              /\ posts'[j].read = posts[j].read /\ posts'[j].key = posts[j].key
              /\ posts'[j].at = IF j = i THEN "stored" ELSE posts[j].at
         /\ \A m : Mine(m)' = Mine(m)
<1>1. posts \in Seq(PostType) /\ posts[i] \in PostType
  BY PostsTyped DEF Typed
<1>2. PICK p \in PostType : p = [posts[i] EXCEPT !.at = "stored"]
  BY <1>1 DEF PostType
<1>3. posts' = [posts EXCEPT ![i] = p]
  BY <1>1, <1>2 DEF PostStored
<1>4. /\ posts' \in Seq(PostType) /\ Len(posts') = Len(posts)
      /\ \A j \in 1..Len(posts) : posts'[j] = IF j = i THEN p ELSE posts[j]
  BY <1>1, <1>3, ExceptSeq
<1>5. /\ p.n = posts[i].n /\ p.ids = posts[i].ids /\ p.read = posts[i].read
      /\ p.key = posts[i].key /\ p.at = "stored"
  BY <1>1, <1>2 DEF PostType
<1>6. \A j \in 1..Len(posts) :
        /\ posts'[j].n = posts[j].n /\ posts'[j].ids = posts[j].ids
        /\ posts'[j].read = posts[j].read /\ posts'[j].key = posts[j].key
        /\ posts'[j].at = IF j = i THEN "stored" ELSE posts[j].at
  BY <1>4, <1>5
<1>7. \A m : Mine(m)' = Mine(m)
  BY <1>4, <1>6 DEF Mine
<1> QED
  BY <1>4, <1>6, <1>7

LEMMA StoredIntent ==
  ASSUME ReadInv, NEW i \in 1..Len(posts), PostStored(i)
  PROVE  IntentInv'
<1>1. /\ Len(posts) \in Nat /\ Len(posts') = Len(posts)
      /\ \A j \in 1..Len(posts) :
           /\ posts'[j].n = posts[j].n /\ posts'[j].key = posts[j].key
           /\ posts'[j].at = IF j = i THEN "stored" ELSE posts[j].at
      /\ \A m : Mine(m)' = Mine(m) /\ Mine(m) \subseteq 1..Len(posts)
  BY StoredPosts, PostsTyped DEF ReadInv, Mine
<1>2. First(i) /\ UNCHANGED <<chain, left, crossed>>
  BY DEF PostStored, history
<1>3. \A j \in 1..Len(posts) : First(j) => First(j)'
  <2> SUFFICES ASSUME NEW j \in 1..Len(posts), First(j), NEW k \in 1..(j - 1)
               PROVE  posts'[k].key # posts'[j].key
    BY DEF First
  <2>1. k \in 1..Len(posts)
    BY <1>1
  <2> QED
    BY <1>1, <2>1 DEF First
<1>4. StoredFirst'
  BY <1>1, <1>2, <1>3 DEF ReadInv, IntentInv, StoredFirst
<1>5. PostNumbers'
  BY <1>1, <1>2 DEF ReadInv, IntentInv, PostNumbers
<1>6. Chains'
  BY <1>2 DEF ReadInv, IntentInv, Chains
<1>7. PendingPosts'
  <2> SUFFICES ASSUME NEW m \in Mails, NEW x \in 1..Len(chain[m])
               PROVE  chain[m][x].pending <=> \E j \in Mine(m)' : posts'[j].n = chain[m][x].n
    BY <1>2 DEF PendingPosts
  <2>1. chain[m][x].pending <=> \E j \in Mine(m) : posts[j].n = chain[m][x].n
    BY DEF ReadInv, IntentInv, PendingPosts
  <2>2. Mine(m)' = Mine(m) /\ \A j \in Mine(m) : posts'[j].n = posts[j].n
    BY <1>1
  <2> QED
    BY <2>1, <2>2
<1>8. OneKey'
  <2> SUFFICES ASSUME NEW m \in Mails \ crossed, NEW j \in Mine(m), NEW k \in Mine(m)
               PROVE  posts'[j].key = posts'[k].key
    BY <1>1, <1>2 DEF OneKey
  <2> QED
    BY <1>1 DEF ReadInv, IntentInv, OneKey
<1>9. NewestInv'
  <2> SUFFICES ASSUME NEW m \in Mails \ crossed, NEW j \in Mine(m), \A k \in Mine(m) : k <= j
               PROVE  Newest(chain[m], posts'[j].n) /\ Pending(m)'
    BY <1>1, <1>2 DEF NewestInv
  <2>1. Newest(chain[m], posts[j].n) /\ Pending(m) /\ posts'[j].n = posts[j].n
    BY <1>1 DEF ReadInv, IntentInv, NewestInv
  <2> QED
    BY <1>2, <2>1 DEF Pending, Overrides, Change
<1> QED
  BY <1>4, <1>5, <1>6, <1>7, <1>8, <1>9 DEF IntentInv

\* The chain of a message that has nothing pending may be replaced by settled entries.
LEMMA Replaced ==
  ASSUME ReadInv, UNCHANGED <<posts, left, crossed>>,
         \A m \in Mails : \/ chain'[m] = chain[m]
                          \/ /\ ~Pending(m) /\ IsChain(chain'[m])
                             /\ \A x \in 1..Len(chain'[m]) :
                                  chain'[m][x].n = 0 /\ ~chain'[m][x].pending
  PROVE  IntentInv'
<1>1. \A m : Mine(m)' = Mine(m)
  BY DEF Mine
<1>2. \A j \in 1..Len(posts) : First(j)' <=> First(j)
  BY DEF First
<1>3. PostNumbers' /\ OneKey' /\ StoredFirst'
  BY <1>1, <1>2 DEF ReadInv, IntentInv, PostNumbers, OneKey, StoredFirst
<1>4. Chains'
  BY DEF ReadInv, IntentInv, Chains
<1>5. PendingPosts'
  <2> SUFFICES ASSUME NEW m \in Mails, NEW x \in 1..Len(chain'[m])
               PROVE  chain'[m][x].pending <=> \E j \in Mine(m) : posts[j].n = chain'[m][x].n
    BY <1>1 DEF PendingPosts
  <2>1. CASE chain'[m] = chain[m]
    BY <2>1 DEF ReadInv, IntentInv, PendingPosts
  <2>2. CASE chain'[m][x].n = 0 /\ ~chain'[m][x].pending
    <3>1. \A j \in Mine(m) : posts[j].n # 0
      BY DEF Mine, ReadInv, IntentInv, PostNumbers, Typed
    <3> QED
      BY <2>2, <3>1
  <2> QED
    BY <2>1, <2>2
<1>6. NewestInv'
  <2> SUFFICES ASSUME NEW m \in Mails \ crossed, NEW j \in Mine(m), \A k \in Mine(m) : k <= j
               PROVE  Newest(chain'[m], posts[j].n) /\ Pending(m)'
    BY <1>1 DEF NewestInv
  <2>1. Newest(chain[m], posts[j].n) /\ Pending(m)
    BY DEF ReadInv, IntentInv, NewestInv
  <2>2. chain'[m] = chain[m]
    BY <2>1
  <2> QED
    BY <2>1, <2>2 DEF Pending, Overrides, Change
<1> QED
  BY <1>3, <1>4, <1>5, <1>6 DEF IntentInv

LEMMA NoChain == IsChain(<<>>) /\ Len(<<>>) = 0
BY EmptySeq DEF IsChain

LEMMA OneSettled ==
  ASSUME NEW e \in ChangeType, ~e.failed
  PROVE  IsChain(<<e>>) /\ Len(<<e>>) = 1 /\ <<e>>[1] = e /\ Last(<<e>>) = e /\ <<e>> # <<>>
BY DEF IsChain, Last

\* The override an event of another tab leaves.
Override(e) == [n |-> 0, read |-> e.read, pending |-> FALSE, failed |-> FALSE, was |-> e.read]

LEMMA OverrideIs ==
  ASSUME NEW e \in EventType
  PROVE  /\ Override(e) \in ChangeType /\ Override(e).n = 0 /\ Override(e).read = e.read
         /\ ~Override(e).pending /\ ~Override(e).failed
BY DEF Override, ChangeType, EventType

LEMMA EventIntent == ASSUME ReadInv, EventArrives PROVE IntentInv'
<1>1. wire # <<>> /\ Head(wire) \in EventType
  BY HeadTailProperties DEF EventArrives, ReadInv, Typed
<1>2. PICK e \in EventType : e = Head(wire)
  BY <1>1
<1>3. PICK o \in ChangeType : o = Override(e)
  BY OverrideIs
<1>4. /\ IF Pending(e.m) THEN chain' = chain ELSE chain' = [chain EXCEPT ![e.m] = <<o>>]
      /\ UNCHANGED <<posts, left, crossed>>
  BY <1>2, <1>3 DEF EventArrives, Override
<1>5. IsChain(<<o>>) /\ Len(<<o>>) = 1 /\ <<o>>[1] = o /\ o.n = 0 /\ ~o.pending
  BY <1>3, OverrideIs, OneSettled
<1>6. ASSUME NEW m \in Mails
      PROVE  \/ chain'[m] = chain[m]
             \/ /\ ~Pending(m) /\ IsChain(chain'[m])
                /\ \A x \in 1..Len(chain'[m]) : chain'[m][x].n = 0 /\ ~chain'[m][x].pending
  <2>1. CASE Pending(e.m) \/ m # e.m
    BY <1>4, <2>1 DEF ReadInv, Typed
  <2>2. CASE ~Pending(e.m) /\ m = e.m
    <3>1. chain'[m] = <<o>>
      BY <1>4, <2>2 DEF ReadInv, Typed
    <3> QED
      BY <1>5, <2>2, <3>1
  <2> QED
    BY <2>1, <2>2
<1> QED
  BY <1>4, <1>6, Replaced

LEMMA SwapIntent ==
  ASSUME ReadInv, NEW r \in {bg, nav}, r.at = "rendered", Swap(r) PROVE IntentInv'
<1>1. UNCHANGED <<posts, left, crossed>>
  BY DEF Swap
<1>2. ASSUME NEW m \in Mails
      PROVE  \/ chain'[m] = chain[m]
             \/ /\ ~Pending(m) /\ IsChain(chain'[m])
                /\ \A x \in 1..Len(chain'[m]) : chain'[m][x].n = 0 /\ ~chain'[m][x].pending
  <2>1. CASE m \in r.settled /\ ~r.moved
    <3>1. ~Pending(m)
      BY <2>1 DEF ReadInv, RequestInv, Unmoved
    <3>2. chain'[m] = <<>>
      BY <2>1 DEF Swap
    <3> QED
      BY <3>1, <3>2, NoChain
  <2>2. CASE ~(m \in r.settled /\ ~r.moved)
    BY <2>2 DEF Swap
  <2> QED
    BY <2>1, <2>2
<1> QED
  BY <1>1, <1>2, Replaced

-----------------------------------------------------------------------------
(* Requests *)

LEMMA MovedIs ==
  ASSUME NEW r \in RequestType
  PROVE  /\ Moved(r) \in RequestType /\ Moved(r).at = r.at /\ Moved(r).settled = r.settled
         /\ Moved(r).read = r.read /\ Moved(r).row = r.row /\ Moved(r).to = r.to
         /\ Moved(r).moved = (r.moved \/ r.at # "none")
<1>1. PICK b \in BOOLEAN : b = (r.moved \/ r.at # "none")
  OBVIOUS
<1>2. Moved(r) = [r EXCEPT !.moved = b]
  BY <1>1 DEF Moved, RequestType
<1> QED
  BY <1>1, <1>2 DEF RequestType

LEMMA AskIs ==
  ASSUME NEW to \in BOOLEAN, NEW c
  PROVE  /\ Ask(to, c) \in RequestType /\ Ask(to, c).at = "sent" /\ ~Ask(to, c).moved
         /\ Ask(to, c).settled = {m \in Mails : c[m] # <<>> /\ ~Last(c[m]).pending}
<1>1. PICK none : none = NoRequest
  OBVIOUS
<1>2. PICK S \in SUBSET Mails : S = {m \in Mails : c[m] # <<>> /\ ~Last(c[m]).pending}
  OBVIOUS
<1>3. none \in RequestType /\ ~none.moved
  BY <1>1 DEF NoRequest, RequestType
<1>4. Ask(to, c) = [none EXCEPT !.at = "sent", !.to = to, !.settled = S]
  BY <1>1, <1>2 DEF Ask
<1> QED
  BY <1>2, <1>3, <1>4 DEF RequestType

LEMMA RenderedIs ==
  ASSUME Typed, NEW r \in RequestType
  PROVE  /\ Rendered(r) \in RequestType /\ Rendered(r).at = "rendered" /\ Rendered(r).read = stored
         /\ Rendered(r).settled = r.settled /\ Rendered(r).moved = r.moved
BY DEF Rendered, RequestType, Typed

LEMMA NoRequestIs == NoRequest \in RequestType /\ NoRequest.at = "none" /\ ~NoRequest.moved
BY DEF NoRequest, RequestType

\* A request of the next state is a new one that knows the settled changes, or the one there
\* was, which may have seen readRevision move and may have been rendered meanwhile.
Follows(q, r) ==
  \/ q.at = "none"
  \/ /\ q.at = "sent" /\ ~q.moved
     /\ q.settled = {m \in Mails : chain'[m] # <<>> /\ ~Last(chain'[m]).pending}
  \/ /\ r.at # "none" /\ q.settled = r.settled /\ (r.moved => q.moved)
     /\ q.at = "rendered" => q.read = stored \/ (r.at = "rendered" /\ q.read = r.read)

\* ... as it does whenever a change comes or goes.
FollowsMoved(q, r) ==
  \/ q.at = "none"
  \/ /\ q.at = "sent" /\ ~q.moved
     /\ q.settled = {m \in Mails : chain'[m] # <<>> /\ ~Last(chain'[m]).pending}
  \/ /\ r.at # "none" /\ q.settled = r.settled /\ q.moved
     /\ q.at = "rendered" => r.at = "rendered" /\ q.read = r.read

LEMMA MovedFollows == ASSUME NEW r \in RequestType PROVE FollowsMoved(Moved(r), r)
BY MovedIs DEF FollowsMoved

LEMMA AskFollows ==
  ASSUME NEW r, NEW to \in BOOLEAN PROVE FollowsMoved(Ask(to, chain'), r)
BY AskIs DEF FollowsMoved

LEMMA RefreshedFollows ==
  ASSUME Typed, NEW r \in RequestType PROVE FollowsMoved(Refreshed(Moved(r), chain'), r)
<1>1. CASE Moved(r).at = "none"
  <2>1. Refreshed(Moved(r), chain') = Ask(here, chain') /\ here \in BOOLEAN
    BY <1>1 DEF Refreshed, Typed
  <2> QED
    BY <2>1, AskFollows
<1>2. CASE Moved(r).at # "none"
  <2>1. Refreshed(Moved(r), chain') = Moved(r)
    BY <1>2 DEF Refreshed
  <2> QED
    BY <2>1, MovedFollows
<1> QED
  BY <1>1, <1>2

LEMMA FollowsAnyway ==
  ASSUME NEW q, NEW r, FollowsMoved(q, r)
  PROVE  Follows(q, r)
BY DEF Follows, FollowsMoved

\* So what a request will retire stays settled, if every change that comes or goes is told.
LEMMA UnmovedFollows ==
  ASSUME NEW q, NEW r, Unmoved(r),
         \/ FollowsMoved(q, r)
         \/ Follows(q, r) /\ (\A m \in Mails : chain'[m] = chain[m]) /\ r.settled \subseteq Mails
  PROVE  q.at # "none" /\ ~q.moved =>
           \A m \in q.settled : chain'[m] # <<>> /\ ~Last(chain'[m]).pending
BY DEF Follows, FollowsMoved, Unmoved, Overrides, Pending, Change

LEMMA RequestStep ==
  ASSUME ReadInv,
         \/ FollowsMoved(bg', bg) /\ FollowsMoved(nav', nav)
         \/ Follows(bg', bg) /\ Follows(nav', nav) /\ \A m \in Mails : chain'[m] = chain[m]
  PROVE  RequestInv'
<1>1. bg.settled \subseteq Mails /\ nav.settled \subseteq Mails
  BY DEF ReadInv, Typed, RequestType
<1>2. Unmoved(bg) /\ Unmoved(nav)
  BY DEF ReadInv, RequestInv
<1>3. bg'.at # "none" /\ ~bg'.moved
                           => \A m \in bg'.settled : chain'[m] # <<>> /\ ~Last(chain'[m]).pending
  BY <1>1, <1>2, UnmovedFollows
<1>4. nav'.at # "none" /\ ~nav'.moved
                            => \A m \in nav'.settled : chain'[m] # <<>> /\ ~Last(chain'[m]).pending
  BY <1>1, <1>2, UnmovedFollows
<1> QED
  BY <1>3, <1>4 DEF RequestInv, Unmoved, Overrides, Pending, Change

LEMMA SameFollows == ASSUME NEW r \in RequestType PROVE Follows(r, r)
BY DEF Follows, RequestType

LEMMA RenderedFollows ==
  ASSUME Typed, NEW r \in RequestType, r.at = "sent" PROVE Follows(Rendered(r), r)
BY RenderedIs DEF Follows

-----------------------------------------------------------------------------
(* What is known of a message *)

\* A rendered list is new and tells of m what the database holds, or tells what it told.
Retells(q, r, m) == q.at = "rendered" =>
  \/ q.read[m] = stored[m]
  \/ /\ r.at = "rendered" /\ q.read = r.read /\ q.settled = r.settled
     /\ r.moved => q.moved

\* A message nobody touched is known as well as before.
LEMMA Stays ==
  ASSUME NEW m \in Mails, Claims(m), WireClaim(m)', Silent(m)' => Silent(m),
         stored'[m] = stored[m], chain'[m] = chain[m], here' = here, shown'[m] = shown[m],
         (\A i \in Mine(m) : posts[i].at = "waits") => (\A i \in Mine(m)' : posts'[i].at = "waits"),
         Retells(bg', bg, m), Retells(nav', nav, m)
  PROVE  Claims(m)'
<1>2. /\ Overrides(m)' <=> Overrides(m)
      /\ Pending(m)' <=> Pending(m)
      /\ Change(m)' = Change(m)
  BY DEF Overrides, Pending, Change
<1>3. PendingClaim(m)'
  <2> SUFFICES ASSUME Silent(m)', Pending(m)'
               PROVE  /\ \A i \in Mine(m)' : posts'[i].at = "waits"
                      /\ Base(chain'[m]) = stored'[m]
                      /\ chain'[m][1].pending \/ chain'[m][1].failed => Told(m)'
    BY DEF PendingClaim, Base
  <2>1. /\ \A i \in Mine(m) : posts[i].at = "waits"
        /\ Base(chain[m]) = stored[m]
        /\ chain[m][1].pending \/ chain[m][1].failed => Told(m)
    BY <1>2 DEF Claims, PendingClaim
  <2>2. Told(m) => Told(m)'
    BY DEF Told, Retells
  <2> QED
    BY <2>1, <2>2
<1>4. RestClaim(m)'
  <2> SUFFICES ASSUME Silent(m)', ~Pending(m)'
               PROVE  /\ Overrides(m)' => Change(m)'.read = stored'[m]
                      /\ ~Overrides(m)' /\ here' => shown'[m] = stored'[m]
                      /\ Shows(bg, m)' => bg'.read[m] = stored'[m]
                      /\ Shows(nav, m)' => nav'.read[m] = stored'[m]
    BY DEF RestClaim
  <2>1. /\ Overrides(m) => Change(m).read = stored[m]
        /\ ~Overrides(m) /\ here => shown[m] = stored[m]
        /\ Shows(bg, m) => bg.read[m] = stored[m]
        /\ Shows(nav, m) => nav.read[m] = stored[m]
    BY <1>2 DEF Claims, RestClaim
  <2>2. Shows(bg, m)' => bg'.read[m] = stored'[m]
    BY <1>2, <2>1 DEF Shows, Retells
  <2>3. Shows(nav, m)' => nav'.read[m] = stored'[m]
    BY <1>2, <2>1 DEF Shows, Retells
  <2> QED
    BY <1>2, <2>1, <2>2, <2>3
<1> QED
  BY <1>3, <1>4 DEF Claims

LEMMA StaysFollowing ==
  ASSUME NEW m \in Mails, Claims(m), WireClaim(m)', Silent(m)' => Silent(m),
         stored'[m] = stored[m], chain'[m] = chain[m], here' = here, shown'[m] = shown[m],
         (\A i \in Mine(m) : posts[i].at = "waits") => (\A i \in Mine(m)' : posts'[i].at = "waits"),
         Follows(bg', bg), Follows(nav', nav)
  PROVE  Claims(m)'
<1>1. ASSUME NEW q, NEW r, Follows(q, r) PROVE Retells(q, r, m)
  BY <1>1 DEF Follows, Retells
<1> QED
  BY <1>1, Stays

\* The wire of a message, when nothing of it comes or goes.
LEMMA WireStays ==
  ASSUME NEW m, wire' = wire, pushes'[m] = pushes[m], stored'[m] = stored[m]
  PROVE  /\ WireClaim(m) => WireClaim(m)'
         /\ Silent(m)' => Silent(m)
BY DEF WireClaim, Silent, OnWire

\* A message whose row, lists and events all agree with the database.
LEMMA Agreeing ==
  ASSUME Typed', IntentInv', OverridesAreShown', NEW m \in Mails, ~Behind(m)'
  PROVE  Claims(m)'
<1>1. /\ \A r \in {bg', nav'} : r.at = "rendered" => r.read[m] = stored'[m]
      /\ here' /\ shown'[m] = stored'[m] /\ ~Pending(m)'
      /\ \A i \in DOMAIN wire' : wire'[i] # [m |-> m, read |-> ~stored'[m]]
  BY DEF Behind
<1>2. WireClaim(m)'
  <2> SUFFICES ASSUME NEW i \in OnWire(m)' PROVE wire'[i].read = stored'[m]
    BY DEF WireClaim
  <2>1. wire' \in Seq(EventType) /\ stored'[m] \in BOOLEAN /\ i \in 1..Len(wire') /\ wire'[i].m = m
    BY DEF Typed, OnWire
  <2>2. wire'[i] \in EventType /\ DOMAIN wire' = 1..Len(wire')
    BY <2>1, LenProperties, ElementOfSeq
  <2>3. wire'[i] = [m |-> m, read |-> wire'[i].read] /\ wire'[i].read \in BOOLEAN
    BY <2>1, <2>2 DEF EventType
  <2> QED
    BY <1>1, <2>1, <2>2, <2>3
<1>3. PendingClaim(m)'
  BY <1>1 DEF PendingClaim
<1>4. Overrides(m)' => Change(m)'.read = stored'[m]
  BY <1>1 DEF OverridesAreShown, Overrides, Change
<1>5. RestClaim(m)'
  BY <1>1, <1>4 DEF RestClaim, Shows
<1> QED
  BY <1>2, <1>3, <1>5 DEF Claims

-----------------------------------------------------------------------------
(* A press *)

LEMMA PressedWish ==
  ASSUME ReadInv, NEW ms, NEW key, NEW read, Pressing(ms, key, read), stored' = stored
  PROVE  WishInv'
<1>1. /\ Len(posts) \in Nat /\ \A i \in 1..Len(posts) : posts'[i] = posts[i]
      /\ posts'[Len(posts) + 1].read = read /\ posts'[Len(posts) + 1].at = "waits"
  BY PressedPosts
<1>2. \A m \in Mails : /\ m \in ms => Mine(m)' = Mine(m) \cup {Len(posts) + 1}
                       /\ m \notin ms => Mine(m)' = Mine(m)
                       /\ Mine(m) \subseteq 1..Len(posts)
  BY PressedMine
<1>3. /\ wish' = [m \in Mails |-> IF m \in ms THEN {read} ELSE wish[m]]
      /\ crossed \subseteq crossed'
  BY DEF Pressing, MarkRead
<1> SUFFICES ASSUME NEW m \in Mails \ crossed', NEW w \in wish'[m] PROVE Due(m, w)'
  BY DEF WishInv
<1>4. CASE m \in ms
  <2>1. w = read /\ Mine(m)' = Mine(m) \cup {Len(posts) + 1} /\ Mine(m) \subseteq 1..Len(posts)
    BY <1>2, <1>3, <1>4
  <2>2. ASSUME NEW i \in Mine(m)', \A j \in Mine(m)' : j <= i PROVE w = posts'[i].read
    <3>1. i = Len(posts) + 1
      BY <1>1, <2>1, <2>2
    <3> QED
      BY <1>1, <2>1, <3>1
  <2>3. ~\A i \in Mine(m)' : posts'[i].at = "stored"
    BY <1>1, <2>1
  <2> QED
    BY <2>2, <2>3 DEF Due
<1>5. CASE m \notin ms
  <2>1. w \in wish[m] /\ Mine(m)' = Mine(m) /\ \A i \in Mine(m) : posts'[i] = posts[i]
    BY <1>1, <1>2, <1>3, <1>5
  <2>2. Due(m, w)
    BY <1>3, <2>1 DEF ReadInv, WishInv
  <2> QED
    BY <2>1, <2>2 DEF Due
<1> QED
  BY <1>4, <1>5

LEMMA PressedShown ==
  ASSUME ReadInv, NEW ms, NEW key, NEW read, Pressing(ms, key, read), here' = here
  PROVE  OverridesAreShown' /\ shown' \in [Mails -> BOOLEAN]
<1>1. shown' = [m \in Mails |-> IF here /\ m \in ms THEN read ELSE shown[m]]
  BY DEF Pressing, MarkRead, Applied
<1>2. shown' \in [Mails -> BOOLEAN]
  BY <1>1 DEF Pressing, ReadInv, Typed
<1>3. ASSUME here, NEW m \in Mails, chain'[m] # <<>> PROVE shown'[m] = Last(chain'[m]).read
  <2>1. CASE m \in ms
    <3>1. Last(chain'[m]).read = read
      BY <2>1, PressedChain
    <3> QED
      BY <1>1, <1>3, <2>1, <3>1
  <2>2. CASE m \notin ms
    <3>1. chain'[m] = chain[m] /\ shown'[m] = shown[m]
      BY <1>1, <2>2, PressedChain
    <3> QED
      BY <1>3, <3>1 DEF ReadInv, OverridesAreShown, Overrides, Change
  <2> QED
    BY <2>1, <2>2
<1> QED
  BY <1>2, <1>3 DEF OverridesAreShown, Overrides, Change

LEMMA PressedRequests ==
  ASSUME ReadInv, NEW ms, NEW key, NEW read, Pressing(ms, key, read)
  PROVE  /\ bg' \in RequestType /\ nav' \in RequestType
         /\ FollowsMoved(bg', bg) /\ FollowsMoved(nav', nav) /\ RequestInv'
<1>1. bg \in RequestType /\ nav \in RequestType
  BY DEF ReadInv, Typed
<1>2. bg' = Moved(bg) /\ nav' = Moved(nav)
  BY DEF Pressing, MarkRead
<1>3. /\ bg' \in RequestType /\ nav' \in RequestType
      /\ FollowsMoved(bg', bg) /\ FollowsMoved(nav', nav)
  BY <1>1, <1>2, MovedIs, MovedFollows
<1> QED
  BY <1>3, RequestStep

LEMMA PressedClaims ==
  ASSUME ReadInv, NEW ms, NEW key, NEW read, Pressing(ms, key, read),
         UNCHANGED <<server, here>>, unseen \subseteq unseen',
         \A m \in ms : here \/ Overrides(m) \/ m \in unseen'
  PROVE  ClaimInv'
<1>1. FollowsMoved(bg', bg) /\ FollowsMoved(nav', nav) /\ Follows(bg', bg) /\ Follows(nav', nav)
  BY PressedRequests, FollowsAnyway
<1>2. UNCHANGED <<stored, pushes, wire>> /\ crossed \subseteq crossed'
  BY DEF Pressing, MarkRead, server
<1> SUFFICES ASSUME NEW m \in Known' PROVE Claims(m)'
  BY DEF ClaimInv
<1>3. m \in Mails \ crossed' /\ m \in Known /\ Claims(m)
  BY <1>2 DEF Known, ReadInv, ClaimInv
<1>4. WireClaim(m)' /\ (Silent(m)' => Silent(m))
  BY <1>2, <1>3, WireStays DEF Claims
<1>5. /\ Len(posts) \in Nat /\ \A i \in 1..Len(posts) : posts'[i] = posts[i]
      /\ posts'[Len(posts) + 1].at = "waits"
  BY PressedPosts
<1>6. /\ m \in ms => Mine(m)' = Mine(m) \cup {Len(posts) + 1}
      /\ m \notin ms => Mine(m)' = Mine(m)
      /\ Mine(m) \subseteq 1..Len(posts)
  BY PressedMine
<1>7. (\A i \in Mine(m) : posts[i].at = "waits") => (\A i \in Mine(m)' : posts'[i].at = "waits")
  BY <1>5, <1>6
<1>8. CASE m \notin ms
  <2>1. chain'[m] = chain[m]
    BY <1>3, <1>8, PressedChain
  <2>2. shown'[m] = shown[m]
    BY <1>3, <1>8 DEF Pressing, MarkRead, Applied
  <2> QED
    BY <1>1, <1>2, <1>3, <1>4, <1>7, <2>1, <2>2, StaysFollowing
<1>9. CASE m \in ms
  <2>1. /\ chain'[m] # <<>> /\ Last(chain'[m]).pending
        /\ \A i \in 1..Len(chain[m]) : chain'[m][i] = chain[m][i]
        /\ chain'[m][Len(chain[m]) + 1] = NewChange(left.press, m, read)
    BY <1>3, <1>9, PressedChain
  <2>2. Pending(m)'
    BY <2>1 DEF Pending, Overrides, Change
  <2>3. RestClaim(m)'
    BY <2>2 DEF RestClaim
  <2>4. Told(m) => Told(m)'
    BY <1>1, <1>2 DEF Told, FollowsMoved
  <2>5. IsChain(chain[m]) /\ Len(chain[m]) \in Nat
        /\ (Overrides(m) => Len(chain[m]) > 0 /\ Change(m) = chain[m][Len(chain[m])])
    BY <1>3, ChangeTyped DEF ReadInv
  <2>6. ASSUME Silent(m)
        PROVE  /\ \A i \in Mine(m)' : posts'[i].at = "waits"
               /\ Base(chain'[m]) = stored[m]
               /\ chain'[m][1].pending \/ chain'[m][1].failed => Told(m)'
    <3>1. CASE Pending(m)
      <4>1. /\ \A i \in Mine(m) : posts[i].at = "waits"
            /\ Base(chain[m]) = stored[m]
            /\ chain[m][1].pending \/ chain[m][1].failed => Told(m)
        BY <1>3, <2>6, <3>1 DEF Claims, PendingClaim
      <4>2. chain'[m][1] = chain[m][1]
        BY <2>1, <2>5, <3>1 DEF Pending
      <4> QED
        BY <1>7, <2>4, <4>1, <4>2 DEF Base
    <3>2. CASE ~Pending(m)
      <4>1. Mine(m) = {}
        BY <1>2, <1>3, <3>2, PendingMine DEF ReadInv
      <4>2. /\ Overrides(m) => Change(m).read = stored[m]
            /\ ~Overrides(m) /\ here => shown[m] = stored[m]
            /\ \A r \in {bg, nav} : Shows(r, m) => r.read[m] = stored[m]
        BY <1>3, <2>6, <3>2 DEF Claims, RestClaim
      <4>3. CASE Overrides(m)
        <5>1. ~Change(m).pending /\ ~Change(m).failed
          BY <2>5, <3>2, <4>3 DEF Pending, IsChain, Overrides, Change
        <5>2. Len(chain[m]) = 1 /\ chain[m][1] = Change(m)
          <6>1. Len(chain[m]) \in 1..Len(chain[m]) /\ Change(m) = chain[m][Len(chain[m])]
            BY <2>5, <4>3
          <6>2. ~(Len(chain[m]) # 1)
            BY <2>5, <5>1, <6>1 DEF IsChain
          <6> QED
            BY <6>1, <6>2
        <5>3. chain'[m][1] = Change(m)
          BY <2>1, <5>2
        <5> QED
          BY <1>7, <4>1, <4>2, <4>3, <5>1, <5>3 DEF Base
      <4>4. CASE ~Overrides(m)
        <5>1. here
          BY <1>9, <4>4 DEF Known
        <5>2. Len(chain[m]) = 0
          BY <4>4, EmptySeq DEF Overrides
        <5>3. PICK c : c = NewChange(left.press, m, read)
          OBVIOUS
        <5>4. c.pending /\ c.was = shown[m]
          BY <4>4, <5>1, <5>3 DEF NewChange, WasRead
        <5>5. chain'[m][1] = c
          BY <2>1, <5>2, <5>3
        <5>6. Told(m)
          BY <4>2, <4>4 DEF Told, Shows
        <5> QED
          BY <1>7, <2>4, <4>1, <4>2, <4>4, <5>1, <5>4, <5>5, <5>6 DEF Base
      <4> QED
        BY <4>3, <4>4
    <3> QED
      BY <3>1, <3>2
  <2>7. PendingClaim(m)'
    BY <1>2, <1>4, <2>6 DEF PendingClaim
  <2> QED
    BY <1>4, <2>3, <2>7 DEF Claims
<1> QED
  BY <1>8, <1>9

LEMMA Pressed ==
  ASSUME ReadInv, NEW ms, NEW key, NEW read, Pressing(ms, key, read),
         UNCHANGED <<server, here, row>>, unseen \subseteq unseen', unseen' \subseteq Mails,
         undo' \subseteq Mails, \A m \in ms : here \/ Overrides(m) \/ m \in unseen'
  PROVE  ReadInv'
<1>1. UNCHANGED <<stored, joined, pushes, wire>>
  BY DEF server
<1>2. posts' \in Seq(PostType) /\ left' \in [{"press", "event"} -> Nat]
  BY PressedPosts
<1>3. shown' \in [Mails -> BOOLEAN] /\ OverridesAreShown'
  BY PressedShown
<1>4. bg' \in RequestType /\ nav' \in RequestType /\ RequestInv'
  BY PressedRequests
<1>5. chain' \in [Mails -> Seq(ChangeType)]
  <2>1. CASE Mails = {}
    BY <2>1, MailsAssumption
  <2>2. ASSUME NEW m \in Mails PROVE chain' \in [Mails -> Seq(ChangeType)]
    BY PressedChain
  <2> QED
    BY <2>1, <2>2
<1>6. /\ queueKey' \in [Mails -> Nat \cup Mails] /\ wish' \in [Mails -> SUBSET BOOLEAN]
      /\ crossed' \subseteq Mails
  BY DEF Pressing, MarkRead, ReadInv, Typed
<1>7. Typed'
  BY <1>1, <1>2, <1>3, <1>4, <1>5, <1>6 DEF Typed, ReadInv
<1>8. WishInv'
  BY <1>1, PressedWish
<1> QED
  BY <1>3, <1>4, <1>7, <1>8, PressedIntent, PressedClaims DEF ReadInv

LEMMA PressStep == ASSUME ReadInv, NEW ms \in SUBSET Mails, Press(ms) PROVE ReadInv'
<1>1. RowUnread(ms) \in BOOLEAN
  BY DEF RowUnread
<1>2. PICK read \in BOOLEAN : read = RowUnread(ms)
  BY <1>1
<1>3. Pressing(ms, row, read)
  BY <1>2 DEF Press, Pressing, ReadInv, Typed
<1>4. /\ UNCHANGED <<server, here, row, unseen>> /\ here
      /\ undo' = IF read THEN {m \in ms : ~WasRead(m)} ELSE undo
  BY <1>2 DEF Press
<1>5. undo' \subseteq Mails /\ unseen \subseteq unseen' /\ unseen' \subseteq Mails
  BY <1>4 DEF ReadInv, Typed
<1> QED
  BY <1>3, <1>4, <1>5, Pressed

LEMMA UndoStep == ASSUME ReadInv, Undo PROVE ReadInv'
<1>1. PICK m \in undo :
        /\ Spend("press")
        /\ MarkRead({m}, KeyOf(m), FALSE)
        /\ undo' = undo \ {m}
        /\ unseen' = IF here \/ Overrides(m) THEN unseen ELSE unseen \cup {m}
        /\ UNCHANGED <<server, here, row>>
  BY DEF Undo
<1>2. m \in Mails /\ KeyOf(m) \in Nat \cup Mails
  BY DEF ReadInv, Typed, KeyOf
<1>3. Pressing({m}, KeyOf(m), FALSE)
  BY <1>1, <1>2 DEF Pressing
<1>4. unseen \subseteq unseen' /\ unseen' \subseteq Mails /\ undo' \subseteq Mails
  BY <1>1, <1>2 DEF ReadInv, Typed
<1>5. \A x \in {m} : here \/ Overrides(x) \/ x \in unseen'
  BY <1>1
<1> QED
  BY <1>1, <1>3, <1>4, <1>5, Pressed

-----------------------------------------------------------------------------
(* The POST *)

\* Another message's posts: their steps are not its own.
LEMMA OthersMine ==
  ASSUME Typed, NEW i \in 1..Len(posts), posts' = RemoveAt(posts, i), NEW m
  PROVE  (\A k \in Mine(m) : posts[k].at = "waits") => (\A k \in Mine(m)' : posts'[k].at = "waits")
<1>1. \A j \in Mine(m)' : /\ j \in 1..Len(posts') /\ Old(i, j) \in Mine(m) \ {i}
  BY FinishedPosts
<1>2. \A j \in 1..Len(posts') : posts'[j] = posts[Old(i, j)]
  BY FinishedPosts
<1> QED
  BY <1>1, <1>2

LEMMA PostStoredStep == ASSUME ReadInv, NEW i \in 1..Len(posts), PostStored(i) PROVE ReadInv'
<1>1. /\ posts' \in Seq(PostType) /\ Len(posts') = Len(posts)
      /\ \A j \in 1..Len(posts) :
           /\ posts'[j].read = posts[j].read
           /\ posts'[j].at = IF j = i THEN "stored" ELSE posts[j].at
      /\ \A m : Mine(m)' = Mine(m) /\ Mine(m) \subseteq 1..Len(posts)
  BY StoredPosts DEF ReadInv, Mine
<1>2. posts[i] \in PostType /\ Len(posts) \in Nat
  BY PostsTyped DEF ReadInv
<1>3. /\ posts[i].at = "waits" /\ First(i)
      /\ stored' = [m \in Mails |-> IF m \in posts[i].ids THEN posts[i].read ELSE stored[m]]
      /\ pushes' = [m \in Mails |-> IF m \in posts[i].ids THEN pushes[m] + 1 ELSE pushes[m]]
      /\ UNCHANGED <<joined, wire, here, shown, row, chain, queueKey, undo, bg, nav, left,
                     wish, unseen, crossed>>
  BY DEF PostStored, screen, history
<1>4. Typed'
  BY <1>1, <1>2, <1>3 DEF Typed, ReadInv, PostType
<1>5. IntentInv'
  BY StoredIntent
<1>6. OverridesAreShown'
  BY <1>3 DEF ReadInv, OverridesAreShown, Overrides, Change
<1>7. bg \in RequestType /\ nav \in RequestType
  BY DEF ReadInv, Typed
<1>8. Follows(bg', bg) /\ Follows(nav', nav)
  BY <1>3, <1>7, SameFollows
<1>9. RequestInv'
  BY <1>3, <1>8, RequestStep
<1>10. WishInv'
  <2> SUFFICES ASSUME NEW m \in Mails \ crossed, NEW w \in wish[m] PROVE Due(m, w)'
    BY <1>3 DEF WishInv
  <2>1. Due(m, w)
    BY DEF ReadInv, WishInv
  <2>2. CASE i \notin Mine(m)
    <3>1. stored'[m] = stored[m]
      BY <1>3, <2>2 DEF Mine
    <3>2. \A k \in Mine(m) : posts'[k].at = posts[k].at /\ posts'[k].read = posts[k].read
      BY <1>1, <2>2
    <3> QED
      BY <1>1, <2>1, <3>1, <3>2 DEF Due
  <2>3. CASE i \in Mine(m)
    <3>1. \A j \in Mine(m) : i <= j /\ (i # j => posts[j].at = "waits")
      BY <1>3, <2>3, FirstOfMine DEF ReadInv
    <3>2. stored'[m] = posts[i].read
      BY <1>3, <2>3 DEF Mine
    <3>3. ASSUME \A k \in Mine(m) : posts'[k].at = "stored" PROVE w = stored'[m]
      <4>1. \A k \in Mine(m) : k = i
        BY <1>1, <3>1, <3>3
      <4>2. \A j \in Mine(m) : j <= i
        BY <1>2, <2>3, <4>1 DEF Mine
      <4> QED
        BY <1>3, <2>1, <2>3, <3>2, <4>2 DEF Due
    <3>4. ASSUME NEW k \in Mine(m), \A j \in Mine(m) : j <= k, posts'[k].at = "waits"
          PROVE  w = posts'[k].read
      <4>1. k # i /\ posts[k].at = "waits" /\ posts'[k].read = posts[k].read
        BY <1>1, <3>4
      <4> QED
        BY <2>1, <3>4, <4>1 DEF Due
    <3> QED
      BY <1>1, <3>3, <3>4 DEF Due
  <2> QED
    BY <2>2, <2>3
<1>11. ClaimInv'
  <2> SUFFICES ASSUME NEW m \in Known PROVE Claims(m)'
    BY <1>3 DEF ClaimInv, Known
  <2>1. m \in Mails /\ Claims(m)
    BY DEF ReadInv, ClaimInv, Known
  <2>2. CASE m \in posts[i].ids
    <3>1. pushes'[m] # 0
      BY <1>3, <2>1, <2>2 DEF ReadInv, Typed
    <3> QED
      BY <3>1 DEF Claims, WireClaim, PendingClaim, RestClaim, Silent
  <2>3. CASE m \notin posts[i].ids
    <3>1. stored'[m] = stored[m] /\ pushes'[m] = pushes[m]
      BY <1>3, <2>1, <2>3
    <3>2. WireClaim(m)' /\ (Silent(m)' => Silent(m))
      BY <1>3, <2>1, <3>1, WireStays DEF Claims
    <3>3. (\A k \in Mine(m) : posts[k].at = "waits") => (\A k \in Mine(m)' : posts'[k].at = "waits")
      BY <1>1, <2>3 DEF Mine
    <3>4. chain'[m] = chain[m] /\ here' = here /\ shown'[m] = shown[m]
      BY <1>3
    <3> QED
      BY <1>8, <2>1, <3>1, <3>2, <3>3, <3>4, StaysFollowing
  <2> QED
    BY <2>2, <2>3
<1> QED
  BY <1>4, <1>5, <1>6, <1>9, <1>10, <1>11 DEF ReadInv

LEMMA FinishedDue ==
  ASSUME ReadInv, NEW i \in 1..Len(posts), posts' = RemoveAt(posts, i),
         posts[i].at = "stored" \/ First(i), stored' = stored,
         NEW m \in Mails \ crossed, NEW w \in wish[m],
         i \in Mine(m) /\ (\A j \in Mine(m) : j <= i) => posts[i].at = "stored"
  PROVE  Due(m, w)'
<1>1. /\ Len(posts) \in Nat /\ Len(posts') = Len(posts) - 1
      /\ \A j \in 1..Len(posts') :
           Old(i, j) \in (1..Len(posts)) \ {i} /\ posts'[j] = posts[Old(i, j)]
      /\ \A j, k \in 1..Len(posts') : j <= k <=> Old(i, j) <= Old(i, k)
  BY FinishedPosts DEF ReadInv
<1>2. /\ \A j \in Mine(m)' : j \in 1..Len(posts') /\ Old(i, j) \in Mine(m) \ {i}
      /\ \A k \in Mine(m) \ {i} : \E j \in Mine(m)' : Old(i, j) = k
  BY FinishedPosts DEF ReadInv
<1>3. Due(m, w)
  BY DEF ReadInv, WishInv
<1>4. ASSUME NEW j \in Mine(m)', \A k \in Mine(m)' : k <= j
      PROVE  \A k \in Mine(m) \ {i} : k <= Old(i, j)
  <2> SUFFICES ASSUME NEW k \in Mine(m) \ {i} PROVE k <= Old(i, j)
    OBVIOUS
  <2>1. PICK l \in Mine(m)' : Old(i, l) = k
    BY <1>2
  <2> QED
    BY <1>1, <1>2, <1>4, <2>1
<1>5. CASE i \notin Mine(m)
  <2>1. ASSUME \A j \in Mine(m)' : posts'[j].at = "stored" PROVE w = stored[m]
    <3>1. ASSUME NEW k \in Mine(m) PROVE posts[k].at = "stored"
      <4>1. PICK j \in Mine(m)' : Old(i, j) = k
        BY <1>2, <1>5
      <4> QED
        BY <1>1, <1>2, <2>1, <4>1
    <3> QED
      BY <1>3, <3>1 DEF Due
  <2>2. ASSUME NEW j \in Mine(m)', \A k \in Mine(m)' : k <= j, posts'[j].at = "waits"
        PROVE  w = posts'[j].read
    <3>1. Old(i, j) \in Mine(m) /\ posts'[j] = posts[Old(i, j)] /\ \A k \in Mine(m) : k <= Old(i, j)
      BY <1>1, <1>2, <1>4, <1>5, <2>2
    <3> QED
      BY <1>3, <2>2, <3>1 DEF Due
  <2> QED
    BY <2>1, <2>2 DEF Due
<1>6. CASE i \in Mine(m)
  <2>1. \A j \in Mine(m) : i <= j /\ (i # j => posts[j].at = "waits")
    BY <1>6, FirstOfMine DEF ReadInv
  <2>2. ASSUME \A j \in Mine(m)' : posts'[j].at = "stored" PROVE w = stored[m]
    <3>1. Mine(m)' = {}
      <4> SUFFICES ASSUME NEW j \in Mine(m)' PROVE FALSE
        OBVIOUS
      <4>1. Old(i, j) \in Mine(m) \ {i} /\ posts'[j] = posts[Old(i, j)]
        BY <1>1, <1>2
      <4> QED
        BY <2>1, <2>2, <4>1
    <3>2. \A k \in Mine(m) : k = i
      BY <1>2, <3>1
    <3>3. \A k \in Mine(m) : k <= i
      BY <1>1, <1>6, <3>2 DEF Mine
    <3> QED
      BY <1>3, <1>6, <3>2, <3>3 DEF Due
  <2>3. ASSUME NEW j \in Mine(m)', \A k \in Mine(m)' : k <= j, posts'[j].at = "waits"
        PROVE  w = posts'[j].read
    <3>1. Old(i, j) \in Mine(m) /\ posts'[j] = posts[Old(i, j)]
            /\ \A k \in Mine(m) \ {i} : k <= Old(i, j)
      BY <1>1, <1>2, <1>4, <2>3
    <3>2. \A k \in Mine(m) : k <= Old(i, j)
      BY <2>1, <3>1
    <3> QED
      BY <1>3, <2>3, <3>1, <3>2 DEF Due
  <2> QED
    BY <2>2, <2>3 DEF Due
<1> QED
  BY <1>5, <1>6

LEMMA PostAnsweredStep == ASSUME ReadInv, NEW i \in 1..Len(posts), PostAnswered(i) PROVE ReadInv'
<1>1. /\ posts[i].at = "stored"
      /\ posts' = RemoveAt(posts, i)
      /\ nav' = Moved(nav)
      /\ UNCHANGED <<stored, joined, pushes, wire, here, shown, row, queueKey, undo, left,
                     wish, unseen, crossed>>
      /\ \A m \in Mails \ posts[i].ids : chain'[m] = chain[m]
      /\ bg' = Refreshed(Moved(bg), chain') \/ bg' = Moved(bg)
  BY DEF PostAnswered, server, screen, history
<1>2. bg \in RequestType /\ nav \in RequestType /\ Moved(bg) \in RequestType
  BY MovedIs DEF ReadInv, Typed
<1>3. FollowsMoved(bg', bg) /\ FollowsMoved(nav', nav)
  BY <1>1, <1>2, MovedFollows, RefreshedFollows DEF ReadInv
<1>4. bg' \in RequestType /\ nav' \in RequestType
  <2>1. Refreshed(Moved(bg), chain') \in RequestType
    <3>1. here \in BOOLEAN
      BY DEF ReadInv, Typed
    <3>2. Ask(here, chain') \in RequestType
      BY <3>1, AskIs
    <3> QED
      BY <1>2, <3>2 DEF Refreshed
  <2> QED
    BY <1>1, <1>2, <2>1, MovedIs
<1>5. RequestInv'
  BY <1>3, RequestStep
<1>6. \A m \in Mails : Finishes(m, posts[i])
  BY AnsweredFinishes
<1>7. IntentInv'
  BY <1>1, <1>6, FinishedIntent
<1>8. posts' \in Seq(PostType)
  BY <1>1, FinishedPosts DEF ReadInv
<1>9. chain' = [m \in Mails |-> IF m \in posts[i].ids
      THEN Settled(chain[m], posts[i].n) ELSE chain[m]]
  BY DEF PostAnswered
<1>10. \A m \in Mails : IsChain(chain'[m])
  BY <1>6 DEF Finishes
<1>11. chain' \in [Mails -> Seq(ChangeType)]
  BY <1>9, <1>10 DEF IsChain
<1>12. Typed'
  BY <1>1, <1>4, <1>8, <1>11 DEF Typed, ReadInv
<1>13. WishInv'
  BY <1>1, FinishedDue DEF WishInv
<1>14. OverridesAreShown'
  <2> SUFFICES ASSUME here, NEW m \in Mails, chain'[m] # <<>> PROVE shown[m] = Last(chain'[m]).read
    BY <1>1 DEF OverridesAreShown, Overrides, Change
  <2>1. CASE m \notin posts[i].ids
    BY <1>1, <2>1 DEF ReadInv, OverridesAreShown, Overrides, Change
  <2>2. CASE m \in posts[i].ids
    <3>1. IsChain(chain[m])
      BY ChangeTyped DEF ReadInv
    <3>2. PICK d : d = Settled(chain[m], posts[i].n)
      OBVIOUS
    <3>3. (d = <<>> <=> chain[m] = <<>>) /\ (chain[m] # <<>> => Last(d).read = Last(chain[m]).read)
      BY <3>1, <3>2, SettledIs
    <3>4. chain'[m] = d
      BY <1>9, <2>2, <3>2
    <3> QED
      BY <3>3, <3>4 DEF ReadInv, OverridesAreShown, Overrides, Change
  <2> QED
    BY <2>1, <2>2
<1>15. ClaimInv'
  <2> SUFFICES ASSUME NEW m \in Known PROVE Claims(m)'
    BY <1>1 DEF ClaimInv, Known
  <2>1. m \in Mails \ crossed /\ Claims(m)
    BY DEF ReadInv, ClaimInv, Known
  <2>2. WireClaim(m)' /\ (Silent(m)' => Silent(m))
    BY <1>1, <2>1, WireStays DEF Claims
  <2>3. CASE m \in posts[i].ids
    <3>1. i \in Mine(m)
      BY <2>3 DEF Mine
    <3>2. Pending(m)
      BY <2>1, <3>1, PendingMine DEF ReadInv
    <3>3. ~Silent(m)
      BY <1>1, <2>1, <3>1, <3>2 DEF Claims, PendingClaim
    <3> QED
      BY <2>2, <3>3 DEF Claims, PendingClaim, RestClaim
  <2>4. CASE m \notin posts[i].ids
    <3>1. chain'[m] = chain[m] /\ stored'[m] = stored[m] /\ here' = here /\ shown'[m] = shown[m]
      BY <1>1, <2>1, <2>4
    <3>2. (\A k \in Mine(m) : posts[k].at = "waits") => (\A k \in Mine(m)' : posts'[k].at = "waits")
      BY <1>1, OthersMine DEF ReadInv
    <3> QED
      BY <1>3, <2>1, <2>2, <3>1, <3>2, StaysFollowing, FollowsAnyway
  <2> QED
    BY <2>3, <2>4
<1> QED
  BY <1>5, <1>7, <1>12, <1>13, <1>14, <1>15 DEF ReadInv

\* The POST that fails is the newest of its message: it is the only one.
LEMMA OnlyPost ==
  ASSUME ReadInv, NEW i \in 1..Len(posts), posts[i].at = "stored" \/ First(i),
         NEW m \in Mails \ crossed, i \in Mine(m), Newest(chain[m], posts[i].n)
  PROVE  /\ Mine(m) = {i}
         /\ \A x \in 1..Len(chain[m]) : chain[m][x].pending <=> x = Len(chain[m])
<1>1. PICK k \in Mine(m) : \A j \in Mine(m) : j <= k
  BY LastOfMine DEF ReadInv
<1>2. Newest(chain[m], posts[k].n)
  BY <1>1 DEF ReadInv, IntentInv, NewestInv
<1>3. k = i
  BY <1>2 DEF Newest, ReadInv, IntentInv, PostNumbers, Mine
<1>4. \A j \in Mine(m) : i <= j
  BY FirstOfMine DEF ReadInv
<1>5. Mine(m) = {i}
  BY <1>1, <1>3, <1>4, PostsTyped DEF ReadInv, Mine
<1>6. IsChain(chain[m]) /\ Len(chain[m]) \in 1..Len(chain[m])
        /\ chain[m][Len(chain[m])].n = posts[i].n
  BY ChangeTyped DEF ReadInv, Newest, Overrides, Change
<1>7. ASSUME NEW x \in 1..Len(chain[m]) PROVE chain[m][x].pending <=> x = Len(chain[m])
  <2>1. chain[m][x].pending <=> \E j \in Mine(m) : posts[j].n = chain[m][x].n
    BY DEF ReadInv, IntentInv, PendingPosts
  <2>2. chain[m][x].n = posts[i].n <=> x = Len(chain[m])
    BY <1>6 DEF IsChain
  <2> QED
    BY <1>5, <2>1, <2>2
<1> QED
  BY <1>5, <1>7

FailsBack(i) == {m \in posts[i].ids : Newest(chain[m], posts[i].n)}

LEMMA FailsFacts ==
  ASSUME ReadInv, NEW i \in 1..Len(posts), PostFails(i)
  PROVE  /\ posts[i] \in PostType /\ (posts[i].at = "stored" \/ First(i))
         /\ posts' = RemoveAt(posts, i)
         /\ left' \in [{"press", "event"} -> Nat] /\ left'.press = left.press
         /\ UNCHANGED <<stored, joined, pushes, wire, here, row, queueKey, undo, crossed>>
         /\ bg' = Moved(bg) /\ nav' = Moved(nav)
         /\ wish' = [m \in Mails |-> IF m \in FailsBack(i) THEN {} ELSE wish[m]]
         /\ unseen' = IF posts[i].at = "stored" THEN unseen \cup posts[i].ids ELSE unseen
<1>1. posts[i] \in PostType
  BY PostsTyped DEF ReadInv
<1>2. posts[i].at = "stored" \/ First(i)
  BY <1>1 DEF PostFails, PostType
<1>3. left' = [left EXCEPT !["event"] = @ - 1] /\ left.event > 0
  BY DEF PostFails, Spend
<1>4. left' \in [{"press", "event"} -> Nat] /\ left'.press = left.press
  BY <1>3 DEF ReadInv, Typed
<1> QED
  BY <1>1, <1>2, <1>4 DEF PostFails, FailsBack, server

\* What the row of a message falls back to.
\* The chains with the press of POST i marked as failed.
AllFailed(i) ==
  [y \in Mails |-> IF y \in posts[i].ids THEN Failed(chain[y], posts[i].n) ELSE chain[y]]

LEMMA FailsShown ==
  ASSUME NEW i \in 1..Len(posts), PostFails(i), NEW m \in Mails
  PROVE  shown'[m] = IF here /\ m \in FailsBack(i)
                       THEN IF Kept(Failed(chain[m], posts[i].n)) = 0
                              THEN Failed(chain[m], posts[i].n)[1].was
                              ELSE Failed(chain[m], posts[i].n)
                                     [Kept(Failed(chain[m], posts[i].n))].read
                       ELSE shown[m]
<1>1. shown' = [x \in Mails |->
         IF here /\ x \in FailsBack(i)
         THEN IF Kept(AllFailed(i)[x]) = 0 THEN AllFailed(i)[x][1].was
              ELSE AllFailed(i)[x][Kept(AllFailed(i)[x])].read
         ELSE shown[x]]
  BY DEF PostFails, FailsBack, AllFailed
<1>2. m \in FailsBack(i) => m \in posts[i].ids
  BY DEF FailsBack
<1>3. m \in FailsBack(i) => AllFailed(i)[m] = Failed(chain[m], posts[i].n)
  BY <1>2 DEF AllFailed
<1> QED
  BY <1>1, <1>3

LEMMA FailsShownFunction ==
  ASSUME ReadInv, NEW i \in 1..Len(posts), PostFails(i)
  PROVE  shown' \in [Mails -> BOOLEAN]
<1>1. DOMAIN shown' = Mails /\ shown' = [x \in Mails |-> shown'[x]]
  BY DEF PostFails
<1>2. ASSUME NEW m \in Mails PROVE shown'[m] \in BOOLEAN
  <2>1. CASE ~(here /\ m \in FailsBack(i))
    <3>1. shown'[m] = shown[m]
      BY <2>1, FailsShown
    <3> QED
      BY <3>1 DEF ReadInv, Typed
  <2>2. CASE here /\ m \in FailsBack(i)
    <3>1. PICK f : f = Failed(chain[m], posts[i].n)
      OBVIOUS
    <3>2. IsChain(chain[m]) /\ Newest(chain[m], posts[i].n)
      BY <2>2, ChangeTyped DEF FailsBack, ReadInv
    <3>3. f \in Seq(ChangeType) /\ Len(f) = Len(chain[m])
      BY <3>1, <3>2, FailedIs
    <3>4. Len(chain[m]) > 0 /\ Len(chain[m]) \in Nat
      BY <3>2, ChainPlaces DEF IsChain, Newest
    <3>5. Kept(f) \in 0..(Len(chain[m]) - 1)
      BY <3>1, <3>2, TakenBackIs
    <3>6. \A x \in 1..Len(chain[m]) : f[x] \in ChangeType
      BY <3>3, ElementOfSeq
    <3>7. f[1].was \in BOOLEAN /\ (Kept(f) # 0 => f[Kept(f)].read \in BOOLEAN)
      BY <3>4, <3>5, <3>6 DEF ChangeType
    <3>8. shown'[m] = IF Kept(f) = 0 THEN f[1].was ELSE f[Kept(f)].read
      BY <2>2, <3>1, FailsShown
    <3> QED
      BY <3>7, <3>8
  <2> QED
    BY <2>1, <2>2
<1> QED
  BY <1>1, <1>2

LEMMA FailsOverrides ==
  ASSUME ReadInv, NEW i \in 1..Len(posts), PostFails(i), here, NEW m \in Mails, chain'[m] # <<>>
  PROVE  shown'[m] = Last(chain'[m]).read
<1>1. IsChain(chain[m])
  BY ChangeTyped DEF ReadInv
<1>2. CASE m \in FailsBack(i)
  <2>1. PICK d : d = TakenBack(chain[m], posts[i].n)
    OBVIOUS
  <2>2. PICK f : f = Failed(chain[m], posts[i].n)
    OBVIOUS
  <2>3. m \in posts[i].ids /\ Newest(chain[m], posts[i].n)
    BY <1>2 DEF FailsBack
  <2>4. chain'[m] = d
    BY <2>1, <2>3, FailsChain
  <2>5. (d # <<>> <=> Kept(f) # 0) /\ (d # <<>> => Last(d).read = f[Kept(f)].read)
    BY <1>1, <2>1, <2>2, <2>3, TakenBackIs
  <2>6. shown'[m] = IF Kept(f) = 0 THEN f[1].was ELSE f[Kept(f)].read
    BY <1>2, <2>2, FailsShown
  <2> QED
    BY <2>4, <2>5, <2>6
<1>3. CASE m \notin FailsBack(i)
  <2>1. shown'[m] = shown[m]
    BY <1>3, FailsShown
  <2>2. CASE m \notin posts[i].ids
    <3>1. chain'[m] = chain[m]
      BY <2>2, FailsChain
    <3> QED
      BY <2>1, <3>1 DEF ReadInv, OverridesAreShown, Overrides, Change
  <2>3. CASE m \in posts[i].ids
    <3>1. ~Newest(chain[m], posts[i].n)
      BY <1>3, <2>3 DEF FailsBack
    <3>2. PICK d : d = Failed(chain[m], posts[i].n)
      OBVIOUS
    <3>3. chain'[m] = d
      BY <2>3, <3>1, <3>2, FailsChain
    <3>4. chain[m] # <<>>
      <4>1. Len(d) = Len(chain[m]) /\ d \in Seq(ChangeType)
        BY <1>1, <3>2, FailedIs
      <4>2. Len(d) # 0
        BY <3>3, <4>1, EmptySeq
      <4> QED
        BY <4>1, <4>2, EmptySeq
    <3>5. Last(chain[m]).n # posts[i].n
      BY <3>1, <3>4 DEF Newest
    <3>6. Last(d).read = Last(chain[m]).read
      BY <1>1, <3>2, <3>4, <3>5, FailedBelow
    <3> QED
      BY <2>1, <3>3, <3>4, <3>6 DEF ReadInv, OverridesAreShown, Overrides, Change
  <2> QED
    BY <2>2, <2>3
<1> QED
  BY <1>2, <1>3

LEMMA FailsClaims ==
  ASSUME ReadInv, NEW i \in 1..Len(posts), PostFails(i) PROVE ClaimInv'
<1>1. /\ posts[i] \in PostType /\ (posts[i].at = "stored" \/ First(i))
      /\ posts' = RemoveAt(posts, i)
      /\ UNCHANGED <<stored, pushes, wire, here, crossed>>
      /\ unseen' = IF posts[i].at = "stored" THEN unseen \cup posts[i].ids ELSE unseen
      /\ bg' = Moved(bg) /\ nav' = Moved(nav)
  BY FailsFacts
<1>2. bg \in RequestType /\ nav \in RequestType
  BY DEF ReadInv, Typed
<1>3. FollowsMoved(bg', bg) /\ FollowsMoved(nav', nav)
  BY <1>1, <1>2, MovedFollows
<1> SUFFICES ASSUME NEW m \in Known' PROVE Claims(m)'
  BY DEF ClaimInv
<1>4. m \in Mails \ crossed /\ m \in Known /\ Claims(m)
  BY <1>1 DEF Known, ReadInv, ClaimInv
<1>5. WireClaim(m)' /\ (Silent(m)' => Silent(m))
  BY <1>1, <1>4, WireStays DEF Claims
<1>6. CASE m \notin posts[i].ids
  <2>1. chain'[m] = chain[m]
    BY <1>4, <1>6, FailsChain
  <2>2. shown'[m] = shown[m]
    BY <1>4, <1>6, FailsShown DEF FailsBack
  <2>3. (\A k \in Mine(m) : posts[k].at = "waits") => (\A k \in Mine(m)' : posts'[k].at = "waits")
    BY <1>1, OthersMine DEF ReadInv
  <2> QED
    BY <1>1, <1>3, <1>4, <1>5, <2>1, <2>2, <2>3, StaysFollowing, FollowsAnyway
<1>7. CASE m \in posts[i].ids
  <2>1. posts[i].at = "waits" /\ i \in Mine(m)
    BY <1>1, <1>7 DEF Known, PostType, Mine
  <2>2. Pending(m)
    BY <1>4, <2>1, PendingMine DEF ReadInv
  <2> SUFFICES ASSUME Silent(m) PROVE PendingClaim(m)' /\ RestClaim(m)'
    BY <1>5 DEF Claims, PendingClaim, RestClaim
  <2>3. /\ \A k \in Mine(m) : posts[k].at = "waits"
        /\ Base(chain[m]) = stored[m]
        /\ chain[m][1].pending \/ chain[m][1].failed => Told(m)
    BY <1>4, <2>2 DEF Claims, PendingClaim
  <2>4. IsChain(chain[m]) /\ Len(chain[m]) \in Nat /\ Len(chain[m]) > 0 /\ chain[m] # <<>>
    BY <1>4, <2>2, ChangeTyped DEF ReadInv, Pending, Overrides
  <2>5. Told(m) => Told(m)'
    BY <1>1, <1>3 DEF Told, FollowsMoved
  <2>6. CASE Newest(chain[m], posts[i].n)
    <3>1. /\ Mine(m) = {i}
          /\ \A x \in 1..Len(chain[m]) : chain[m][x].pending <=> x = Len(chain[m])
      BY <1>1, <1>4, <2>1, <2>6, OnlyPost
    <3>2. PICK d : d = TakenBack(chain[m], posts[i].n)
      OBVIOUS
    <3>3. PICK f : f = Failed(chain[m], posts[i].n)
      OBVIOUS
    <3>4. IF chain[m][1].pending \/ chain[m][1].failed
          THEN Kept(f) = 0 /\ f[1].was = Base(chain[m])
          ELSE Kept(f) = 1 /\ f[1].read = Base(chain[m]) /\ ~Last(d).pending
      BY <2>4, <2>6, <3>1, <3>2, <3>3, BackToBase
    <3>5. (d # <<>> <=> Kept(f) # 0) /\ (d # <<>> => Last(d).read = f[Kept(f)].read)
      BY <2>4, <2>6, <3>2, <3>3, TakenBackIs
    <3>6. chain'[m] = d
      BY <1>4, <1>7, <2>6, <3>2, FailsChain
    <3>7. shown'[m] = IF here THEN IF Kept(f) = 0 THEN f[1].was ELSE f[Kept(f)].read ELSE shown[m]
      BY <1>4, <1>7, <2>6, <3>3, FailsShown DEF FailsBack
    <3>8. ~Pending(m)'
      BY <3>4, <3>5, <3>6 DEF Pending, Overrides, Change
    <3>9. Overrides(m)' => Change(m)'.read = stored'[m]
      BY <1>1, <2>3, <3>4, <3>5, <3>6 DEF Overrides, Change
    <3>10. ~Overrides(m)' /\ here' => shown'[m] = stored'[m]
      BY <1>1, <2>3, <3>4, <3>5, <3>6, <3>7 DEF Overrides
    <3>11. \A r \in {bg', nav'} : r.at = "rendered" => r.moved
      BY <1>3 DEF FollowsMoved
    <3>12. ~Overrides(m)' => Told(m)'
      BY <2>3, <2>5, <3>4, <3>5, <3>6 DEF Overrides
    <3>13. \A r \in {bg', nav'} : Shows(r, m)' => r.read[m] = stored'[m]
      BY <3>11, <3>12 DEF Shows, Told
    <3> QED
      BY <3>8, <3>9, <3>10, <3>13 DEF PendingClaim, RestClaim
  <2>7. CASE ~Newest(chain[m], posts[i].n)
    <3>1. PICK f : f = Failed(chain[m], posts[i].n)
      OBVIOUS
    <3>2. chain'[m] = f
      BY <1>4, <1>7, <2>7, <3>1, FailsChain
    <3>3. Last(chain[m]).n # posts[i].n
      BY <2>4, <2>7 DEF Newest
    <3>4. f # <<>> /\ (Last(f).pending <=> Last(chain[m]).pending)
      BY <2>4, <3>1, <3>3, FailedBelow
    <3>5. Pending(m)'
      BY <2>2, <3>2, <3>4 DEF Pending, Overrides, Change
    <3>6. /\ f[1].read = chain[m][1].read /\ f[1].was = chain[m][1].was
          /\ f[1].pending <=> chain[m][1].pending /\ chain[m][1].n # posts[i].n
          /\ f[1].failed <=> chain[m][1].failed \/ chain[m][1].n = posts[i].n
      BY <2>4, <3>1, FailedIs
    <3>7. chain[m][1].n = posts[i].n => chain[m][1].pending
      BY <1>4, <2>1, <2>4 DEF ReadInv, IntentInv, PendingPosts
    <3>8. Base(chain'[m]) = stored'[m]
      BY <1>1, <2>3, <3>2, <3>6, <3>7 DEF Base
    <3>9. chain'[m][1].pending \/ chain'[m][1].failed => Told(m)'
      BY <2>3, <2>5, <3>2, <3>6, <3>7
    <3>10. \A k \in Mine(m)' : posts'[k].at = "waits"
      BY <1>1, <2>3, OthersMine DEF ReadInv
    <3> QED
      BY <3>5, <3>8, <3>9, <3>10 DEF PendingClaim, RestClaim
  <2> QED
    BY <2>6, <2>7
<1> QED
  BY <1>6, <1>7

LEMMA PostFailsStep == ASSUME ReadInv, NEW i \in 1..Len(posts), PostFails(i) PROVE ReadInv'
<1>1. /\ posts[i] \in PostType /\ (posts[i].at = "stored" \/ First(i))
      /\ posts' = RemoveAt(posts, i)
      /\ left' \in [{"press", "event"} -> Nat] /\ left'.press = left.press
      /\ UNCHANGED <<stored, joined, pushes, wire, here, row, queueKey, undo, crossed>>
      /\ bg' = Moved(bg) /\ nav' = Moved(nav)
      /\ wish' = [m \in Mails |-> IF m \in FailsBack(i) THEN {} ELSE wish[m]]
      /\ unseen' = IF posts[i].at = "stored" THEN unseen \cup posts[i].ids ELSE unseen
  BY FailsFacts
<1>2. bg \in RequestType /\ nav \in RequestType
  BY DEF ReadInv, Typed
<1>3. bg' \in RequestType /\ nav' \in RequestType
        /\ FollowsMoved(bg', bg) /\ FollowsMoved(nav', nav)
  BY <1>1, <1>2, MovedIs, MovedFollows
<1>4. RequestInv'
  BY <1>3, RequestStep
<1>5. \A m \in Mails : Finishes(m, posts[i])
  BY FailsFinishes
<1>6. IntentInv'
  BY <1>1, <1>5, FinishedIntent
<1>7. \A m \in Mails : IsChain(chain'[m])
  BY <1>5 DEF Finishes
<1>8. chain' = [m \in Mails |-> chain'[m]]
  BY DEF PostFails
<1>9. chain' \in [Mails -> Seq(ChangeType)]
  BY <1>7, <1>8 DEF IsChain
<1>10. posts' \in Seq(PostType) /\ shown' \in [Mails -> BOOLEAN]
  BY <1>1, FinishedPosts, FailsShownFunction DEF ReadInv
<1>11. wish' \in [Mails -> SUBSET BOOLEAN] /\ unseen' \subseteq Mails
  BY <1>1 DEF ReadInv, Typed, PostType
<1>12. Typed'
  BY <1>1, <1>3, <1>9, <1>10, <1>11 DEF Typed, ReadInv
<1>13. WishInv'
  <2> SUFFICES ASSUME NEW m \in Mails \ crossed, NEW w \in wish'[m] PROVE Due(m, w)'
    BY <1>1 DEF WishInv
  <2>1. w \in wish[m] /\ m \notin FailsBack(i)
    BY <1>1
  <2>2. ASSUME i \in Mine(m), \A j \in Mine(m) : j <= i PROVE FALSE
    <3>1. Newest(chain[m], posts[i].n)
      BY <2>2 DEF ReadInv, IntentInv, NewestInv
    <3> QED
      BY <2>1, <2>2, <3>1 DEF FailsBack, Mine
  <2> QED
    BY <1>1, <2>1, <2>2, FinishedDue
<1>14. OverridesAreShown'
  BY <1>1, FailsOverrides DEF OverridesAreShown, Overrides, Change
<1> QED
  BY <1>4, <1>6, <1>12, <1>13, <1>14, FailsClaims DEF ReadInv

-----------------------------------------------------------------------------
(* Steps that leave the choices and their POSTs alone *)

LEMMA IntentStays ==
  ASSUME ReadInv, UNCHANGED <<posts, chain, crossed>>, left'.press = left.press
  PROVE  IntentInv'
<1>1. \A m : Mine(m)' = Mine(m)
  BY DEF Mine
<1>2. \A j \in 1..Len(posts) : First(j)' <=> First(j)
  BY DEF First
<1>3. PostNumbers' /\ Chains' /\ OneKey' /\ StoredFirst' /\ PendingPosts'
  BY <1>1, <1>2
     DEF ReadInv, IntentInv, PostNumbers, Chains, OneKey, StoredFirst, PendingPosts
<1>4. NewestInv'
  BY <1>1 DEF ReadInv, IntentInv, NewestInv, Pending, Overrides, Change
<1> QED
  BY <1>3, <1>4 DEF IntentInv

LEMMA WishStays ==
  ASSUME ReadInv, UNCHANGED <<posts, stored, wish, crossed>> PROVE WishInv'
<1>1. \A m : Mine(m)' = Mine(m)
  BY DEF Mine
<1> QED
  BY <1>1 DEF ReadInv, WishInv, Due

LEMMA EventSpent ==
  ASSUME ReadInv, Spend("event")
  PROVE  left' \in [{"press", "event"} -> Nat] /\ left'.press = left.press
<1>1. left' = [left EXCEPT !["event"] = @ - 1] /\ left.event > 0
  BY DEF Spend
<1> QED
  BY <1>1 DEF ReadInv, Typed

\* A list is asked for or rendered, a message joins: only the requests move.
LEMMA AskedStep ==
  ASSUME ReadInv, UNCHANGED <<stored, pushes, wire, here, shown, row, chain, queueKey, posts,
                              undo, wish, unseen, crossed>>,
         joined' \in Nat, left' \in [{"press", "event"} -> Nat], left'.press = left.press,
         bg' \in RequestType, nav' \in RequestType, Follows(bg', bg), Follows(nav', nav)
  PROVE  ReadInv'
<1>1. Typed'
  BY DEF Typed, ReadInv
<1>2. IntentInv' /\ WishInv' /\ RequestInv'
  BY IntentStays, WishStays, RequestStep
<1>3. OverridesAreShown'
  BY DEF ReadInv, OverridesAreShown, Overrides, Change
<1>4. ClaimInv'
  <2> SUFFICES ASSUME NEW m \in Known PROVE Claims(m)'
    BY DEF ClaimInv, Known
  <2>1. m \in Mails /\ Claims(m)
    BY DEF ReadInv, ClaimInv, Known
  <2>2. WireClaim(m)' /\ (Silent(m)' => Silent(m))
    BY <2>1, WireStays DEF Claims
  <2>3. (\A k \in Mine(m) : posts[k].at = "waits") => (\A k \in Mine(m)' : posts'[k].at = "waits")
    BY DEF Mine
  <2> QED
    BY <2>1, <2>2, <2>3, StaysFollowing
<1> QED
  BY <1>1, <1>2, <1>3, <1>4 DEF ReadInv

LEMMA RequestsTyped ==
  ASSUME ReadInv
  PROVE  /\ bg \in RequestType /\ nav \in RequestType /\ here \in BOOLEAN
         /\ joined \in Nat /\ left \in [{"press", "event"} -> Nat]
         /\ Follows(bg, bg) /\ Follows(nav, nav)
BY SameFollows DEF ReadInv, Typed

LEMMA AskAnyway ==
  ASSUME NEW r, NEW to \in BOOLEAN, chain' = chain
  PROVE  Ask(to, chain) \in RequestType /\ Follows(Ask(to, chain), r)
BY AskIs DEF Follows

LEMMA RefreshStep == ASSUME ReadInv, Refresh PROVE ReadInv'
<1>1. /\ Spend("event") /\ bg' = Ask(here, chain)
      /\ UNCHANGED <<stored, joined, pushes, wire, here, shown, row, chain, queueKey, posts, undo,
                     nav, wish, unseen, crossed>>
  BY DEF Refresh, server, screen, intent, history
<1>2. Ask(here, chain) \in RequestType /\ Follows(Ask(here, chain), bg)
  BY <1>1, AskAnyway, RequestsTyped
<1> QED
  BY <1>1, <1>2, EventSpent, RequestsTyped, AskedStep

LEMMA NavigateStep == ASSUME ReadInv, NEW to \in BOOLEAN, Navigate(to) PROVE ReadInv'
<1>1. /\ Spend("event") /\ nav' = Ask(to, chain)
      /\ UNCHANGED <<stored, joined, pushes, wire, here, shown, row, chain, queueKey, posts, undo,
                     bg, wish, unseen, crossed>>
  BY DEF Navigate, server, screen, intent, history
<1>2. Ask(to, chain) \in RequestType /\ Follows(Ask(to, chain), nav)
  BY <1>1, AskAnyway
<1> QED
  BY <1>1, <1>2, EventSpent, RequestsTyped, AskedStep

LEMMA JoinStep == ASSUME ReadInv, Join PROVE ReadInv'
<1>1. /\ Spend("event") /\ joined' = joined + 1
      /\ UNCHANGED <<stored, pushes, wire, here, shown, row, chain, queueKey, posts, undo,
                     bg, nav, wish, unseen, crossed>>
  BY DEF Join, screen, intent, history
<1> QED
  BY <1>1, EventSpent, RequestsTyped, AskedStep

LEMMA RenderStep == ASSUME ReadInv, RenderBg \/ RenderNav PROVE ReadInv'
<1>1. UNCHANGED <<stored, joined, pushes, wire, here, shown, row, chain, queueKey, posts, undo,
                  left, wish, unseen, crossed>>
  BY DEF RenderBg, RenderNav, server, screen, intent, history
<1>2. \A r \in RequestType : /\ Rendered(r) \in RequestType
                             /\ r.at = "sent" => Follows(Rendered(r), r)
  BY RenderedIs, RenderedFollows DEF ReadInv
<1>3. CASE RenderBg
  <2>1. bg.at = "sent" /\ bg' = Rendered(bg) /\ nav' = nav
    BY <1>3 DEF RenderBg
  <2> QED
    BY <1>1, <1>2, <2>1, RequestsTyped, AskedStep
<1>4. CASE RenderNav
  <2>1. nav.at = "sent" /\ nav' = Rendered(nav) /\ bg' = bg
    BY <1>4 DEF RenderNav
  <2> QED
    BY <1>1, <1>2, <2>1, RequestsTyped, AskedStep
<1> QED
  BY <1>3, <1>4

LEMMA DroppedStep ==
  ASSUME ReadInv, bg' = NoRequest, UNCHANGED <<server, screen, intent, nav, left, history>>
  PROVE  ReadInv'
<1>1. UNCHANGED <<stored, joined, pushes, wire, here, shown, row, chain, queueKey, posts, undo,
                  nav, left, wish, unseen, crossed>>
  BY DEF server, screen, intent, history
<1>2. NoRequest \in RequestType /\ Follows(NoRequest, bg)
  BY NoRequestIs DEF Follows
<1> QED
  BY <1>1, <1>2, RequestsTyped, AskedStep

LEMMA OtherWritesStep == ASSUME ReadInv, NEW x \in Mails, OtherWrites(x) PROVE ReadInv'
<1>1. /\ Spend("event")
      /\ stored' = [stored EXCEPT ![x] = ~@]
      /\ pushes' = [pushes EXCEPT ![x] = @ + 1]
      /\ wish' = [wish EXCEPT ![x] =
           IF \E i \in DOMAIN posts : x \in posts[i].ids /\ posts[i].at = "waits"
                                     THEN @ ELSE {}]
      /\ unseen' = unseen \cup {x}
      /\ UNCHANGED <<joined, wire, here, shown, row, chain, queueKey,
           posts, undo, bg, nav, crossed>>
  BY DEF OtherWrites, screen, intent
<1>2. left' \in [{"press", "event"} -> Nat] /\ left'.press = left.press
  BY <1>1, EventSpent
<1>3. Typed'
  BY <1>1, <1>2 DEF Typed, ReadInv
<1>4. IntentInv'
  BY <1>1, <1>2, IntentStays
<1>5. Follows(bg', bg) /\ Follows(nav', nav) /\ RequestInv'
  BY <1>1, RequestsTyped, RequestStep
<1>6. OverridesAreShown'
  BY <1>1 DEF ReadInv, OverridesAreShown, Overrides, Change
<1>7. WishInv'
  <2> SUFFICES ASSUME NEW m \in Mails \ crossed, NEW w \in wish'[m] PROVE Due(m, w)'
    BY <1>1 DEF WishInv
  <2>1. Mine(m)' = Mine(m)
    BY <1>1 DEF Mine
  <2>2. CASE m # x
    <3>1. wish'[m] = wish[m] /\ stored'[m] = stored[m]
      BY <1>1, <2>2 DEF ReadInv, Typed
    <3> QED
      BY <1>1, <2>1, <3>1 DEF ReadInv, WishInv, Due
  <2>3. CASE m = x
    <3>1. /\ \E i \in DOMAIN posts : x \in posts[i].ids /\ posts[i].at = "waits"
          /\ w \in wish[x]
      BY <1>1, <2>3 DEF ReadInv, Typed
    <3>2. PICK i \in Mine(m) : posts[i].at # "stored"
      BY <2>3, <3>1, PostsTyped DEF ReadInv, Mine
    <3>3. Due(m, w)
      BY <2>3, <3>1 DEF ReadInv, WishInv
    <3> QED
      BY <1>1, <2>1, <3>2, <3>3 DEF Due
  <2> QED
    BY <2>2, <2>3
<1>8. ClaimInv'
  <2> SUFFICES ASSUME NEW m \in Known, m # x PROVE Claims(m)'
    BY <1>1 DEF ClaimInv, Known
  <2>1. m \in Mails /\ Claims(m)
    BY DEF ReadInv, ClaimInv, Known
  <2>2. stored'[m] = stored[m] /\ pushes'[m] = pushes[m]
    BY <1>1, <2>1 DEF ReadInv, Typed
  <2>3. WireClaim(m)' /\ (Silent(m)' => Silent(m))
    BY <1>1, <2>1, <2>2, WireStays DEF Claims
  <2>4. (\A k \in Mine(m) : posts[k].at = "waits") => (\A k \in Mine(m)' : posts'[k].at = "waits")
    BY <1>1 DEF Mine
  <2>5. chain'[m] = chain[m] /\ here' = here /\ shown'[m] = shown[m]
    BY <1>1
  <2> QED
    BY <1>5, <2>1, <2>2, <2>3, <2>4, <2>5, StaysFollowing
<1> QED
  BY <1>3, <1>4, <1>5, <1>6, <1>7, <1>8 DEF ReadInv

LEMMA PushDoneStep == ASSUME ReadInv, NEW x \in Mails, PushDone(x) PROVE ReadInv'
<1> DEFINE e == [m |-> x, read |-> stored[x]]
<1>1. /\ pushes[x] > 0 /\ pushes' = [pushes EXCEPT ![x] = @ - 1]
      /\ \/ wire' = Append(wire, e) /\ unseen' = unseen
         \/ wire' = wire /\ unseen' = (IF Behind(x) THEN unseen \cup {x} ELSE unseen)
      /\ UNCHANGED <<stored, joined, here, shown, row, chain, queueKey, posts, undo, bg, nav, left,
                     wish, crossed>>
  BY DEF PushDone, screen, intent
<1>2. e \in EventType /\ wire \in Seq(EventType) /\ Len(wire) \in Nat
  BY WireTyped DEF ReadInv, Typed, EventType
<1>3. /\ Append(wire, e) \in Seq(EventType) /\ Len(Append(wire, e)) = Len(wire) + 1
      /\ \A i \in 1..Len(wire) : Append(wire, e)[i] = wire[i]
      /\ Append(wire, e)[Len(wire) + 1] = e
  <2> HIDE DEF e
  <2> QED
    BY <1>2, AppendProperties
<1>4. Typed'
  <2>1. wire' \in Seq(EventType) /\ pushes' \in [Mails -> Nat] /\ unseen' \subseteq Mails
    <3>1. wire' \in Seq(EventType)
      BY <1>1, <1>2, <1>3
    <3>2. pushes' \in [Mails -> Nat] /\ unseen' \subseteq Mails
      <4> HIDE DEF e
      <4> QED
        BY <1>1 DEF ReadInv, Typed
    <3> QED
      BY <3>1, <3>2
  <2> QED
    BY <1>1, <2>1 DEF Typed, ReadInv
<1>5. IntentInv' /\ WishInv'
  BY <1>1, IntentStays, WishStays
<1>6. Follows(bg', bg) /\ Follows(nav', nav) /\ RequestInv'
  BY <1>1, RequestsTyped, RequestStep
<1>7. OverridesAreShown'
  BY <1>1 DEF ReadInv, OverridesAreShown, Overrides, Change
<1>8. ClaimInv'
  <2> SUFFICES ASSUME NEW m \in Known' PROVE Claims(m)'
    BY DEF ClaimInv
  <2>1. m \in Mails /\ m \in Known /\ Claims(m)
    BY <1>1 DEF ReadInv, ClaimInv, Known
  <2>2. (\A k \in Mine(m) : posts[k].at = "waits") => (\A k \in Mine(m)' : posts'[k].at = "waits")
    BY <1>1 DEF Mine
  <2>3. CASE m # x
    <3>1. pushes'[m] = pushes[m]
      BY <1>1, <2>1, <2>3 DEF ReadInv, Typed
    <3>2. CASE wire' = wire
      BY <1>1, <1>6, <2>1, <2>2, <3>1, <3>2, WireStays, StaysFollowing DEF Claims
    <3>3. CASE wire' = Append(wire, e)
      <4>1. OnWire(m)' = OnWire(m) /\ \A i \in OnWire(m) : wire'[i] = wire[i]
        BY <1>2, <1>3, <2>3, <3>3 DEF OnWire
      <4>2. WireClaim(m)' /\ (Silent(m)' => Silent(m))
        BY <1>1, <2>1, <3>1, <4>1 DEF Claims, WireClaim, Silent
      <4> QED
        BY <1>1, <1>6, <2>1, <2>2, <4>2, StaysFollowing
    <3> QED
      BY <1>1, <3>2, <3>3
  <2>4. CASE m = x /\ wire' = Append(wire, e)
    <3>1. Len(wire) + 1 \in OnWire(m)' /\ \A i \in OnWire(m)' : i <= Len(wire) + 1
      BY <1>2, <1>3, <2>4 DEF OnWire
    <3>2. WireClaim(m)'
      <4> SUFFICES ASSUME NEW i \in OnWire(m)', \A j \in OnWire(m)' : j <= i
                   PROVE  wire'[i].read = stored'[m]
        BY DEF WireClaim
      <4>1. i = Len(wire) + 1
        BY <1>2, <3>1 DEF OnWire
      <4> QED
        BY <1>1, <1>3, <2>4, <4>1
    <3>3. ~Silent(m)'
      BY <3>1 DEF Silent
    <3> QED
      BY <3>2, <3>3 DEF Claims, PendingClaim, RestClaim
  <2>5. CASE m = x /\ wire' = wire /\ unseen' = (IF Behind(x) THEN unseen \cup {x} ELSE unseen)
    <3>1. ~Behind(x)
      BY <2>5 DEF Known
    <3>2. ~Behind(m)'
      BY <1>1, <2>5, <3>1 DEF Behind, Pending, Overrides, Change
    <3> QED
      BY <1>4, <1>5, <1>7, <2>1, <3>2, Agreeing
  <2> QED
    BY <1>1, <2>3, <2>4, <2>5
<1> QED
  BY <1>4, <1>5, <1>6, <1>7, <1>8 DEF ReadInv

-----------------------------------------------------------------------------
(* The event stream *)

\* The head of the wire is gone; the events behind it are in the order they were.
LEMMA WireTail ==
  ASSUME ReadInv, wire # <<>>, wire' = Tail(wire), UNCHANGED <<stored, pushes>>, NEW m
  PROVE  /\ wire' \in Seq(EventType)
         /\ WireClaim(m) => WireClaim(m)'
         /\ Head(wire).m # m => (Silent(m)' => Silent(m))
         /\ Head(wire).m = m /\ WireClaim(m) /\ Silent(m)' => Head(wire).read = stored[m]
<1>1. wire \in Seq(EventType) /\ Len(wire) \in Nat /\ Len(wire) > 0
  BY ChainPlaces, EmptySeq, LenProperties DEF ReadInv, Typed
<1>2. /\ wire' \in Seq(EventType) /\ Len(wire') = Len(wire) - 1
      /\ \A i \in 1..Len(wire') : wire'[i] = wire[i + 1]
  BY <1>1, HeadTailProperties
<1>3. Head(wire) = wire[1]
  BY <1>1
<1>4. /\ \A i \in OnWire(m)' : i \in 1..Len(wire') /\ i + 1 \in OnWire(m)
      /\ \A i \in OnWire(m) : i = 1 \/ i - 1 \in OnWire(m)'
      /\ 1 \in OnWire(m) <=> Head(wire).m = m
      /\ \A i \in OnWire(m) : i \in Nat
  BY <1>1, <1>2, <1>3 DEF OnWire
<1>5. ASSUME WireClaim(m) PROVE WireClaim(m)'
  <2> SUFFICES ASSUME pushes[m] = 0, NEW i \in OnWire(m)', \A j \in OnWire(m)' : j <= i
               PROVE  wire'[i].read = stored[m]
    BY DEF WireClaim
  <2>1. i + 1 \in OnWire(m) /\ wire'[i] = wire[i + 1]
    BY <1>2, <1>4
  <2>2. \A j \in OnWire(m) : j <= i + 1
    <3> SUFFICES ASSUME NEW j \in OnWire(m), j # 1 PROVE j <= i + 1
      BY <1>4
    <3>1. j - 1 \in OnWire(m)' /\ j \in Nat
      BY <1>4
    <3> QED
      BY <1>4, <3>1
  <2> QED
    BY <1>5, <2>1, <2>2 DEF WireClaim
<1>6. ASSUME Head(wire).m # m, Silent(m)' PROVE Silent(m)
  BY <1>4, <1>6 DEF Silent
<1>7. ASSUME Head(wire).m = m, WireClaim(m), Silent(m)' PROVE Head(wire).read = stored[m]
  <2>1. 1 \in OnWire(m) /\ \A j \in OnWire(m) : j = 1
    BY <1>4, <1>7 DEF Silent
  <2> QED
    BY <1>3, <1>7, <2>1 DEF WireClaim, Silent
<1> QED
  BY <1>2, <1>5, <1>6, <1>7

LEMMA EventTyped ==
  ASSUME ReadInv, EventArrives, NEW e, e = Head(wire), NEW o, o = Override(e)
  PROVE  /\ e \in EventType /\ o \in ChangeType
         /\ wire # <<>> /\ wire' = Tail(wire)
         /\ UNCHANGED <<stored, joined, pushes, here, row, queueKey,
              posts, undo, left, wish, crossed>>
         /\ Pending(e.m) => UNCHANGED <<chain, shown, bg, nav>>
         /\ ~Pending(e.m) => /\ chain' = [chain EXCEPT ![e.m] = <<o>>]
                             /\ shown' = Applied({e.m}, e.read)
                             /\ bg' = Refreshed(Moved(bg), chain') \/ bg' = Moved(bg)
                             /\ nav' = Moved(nav)
         /\ Pending(e.m) => unseen' = unseen \cup {e.m}
         /\ ~Pending(e.m) => unseen' = {m \in unseen : Behind(m)'}
<1>1. wire # <<>> /\ wire \in Seq(EventType)
  BY DEF EventArrives, ReadInv, Typed
<1>2. e \in EventType
  BY <1>1, HeadTailProperties
<1>3. o \in ChangeType
  BY <1>2, OverrideIs
<1> QED
  BY <1>1, <1>2, <1>3 DEF EventArrives, Override

LEMMA EventArrivesStep == ASSUME ReadInv, EventArrives PROVE ReadInv'
<1>1. PICK e : e = Head(wire)
  OBVIOUS
<1>2. PICK o : o = Override(e)
  OBVIOUS
<1>3. /\ e \in EventType /\ o \in ChangeType
      /\ wire # <<>> /\ wire' = Tail(wire)
      /\ UNCHANGED <<stored, joined, pushes, here, row, queueKey, posts, undo, left, wish, crossed>>
      /\ Pending(e.m) => UNCHANGED <<chain, shown, bg, nav>>
      /\ ~Pending(e.m) => /\ chain' = [chain EXCEPT ![e.m] = <<o>>]
                          /\ shown' = Applied({e.m}, e.read)
                          /\ bg' = Refreshed(Moved(bg), chain') \/ bg' = Moved(bg)
                          /\ nav' = Moved(nav)
      /\ Pending(e.m) => unseen' = unseen \cup {e.m}
      /\ ~Pending(e.m) => unseen' = {m \in unseen : Behind(m)'}
  BY <1>1, <1>2, EventTyped
<1>4. /\ IsChain(<<o>>) /\ <<o>> # <<>> /\ Last(<<o>>) = o /\ <<o>> \in Seq(ChangeType)
      /\ o.read = e.read /\ ~o.pending
  BY <1>2, <1>3, OneSettled, OverrideIs DEF IsChain
<1>5. e.m \in Mails /\ e.read \in BOOLEAN
  BY <1>3 DEF EventType
<1>6. bg \in RequestType /\ nav \in RequestType
  BY RequestsTyped
<1>7. /\ bg' \in RequestType /\ nav' \in RequestType
      /\ ~Pending(e.m) => FollowsMoved(bg', bg) /\ FollowsMoved(nav', nav)
      /\ Follows(bg', bg) /\ Follows(nav', nav)
  <2>1. CASE Pending(e.m)
    BY <1>3, <2>1, RequestsTyped
  <2>2. CASE ~Pending(e.m)
    <3>1. Moved(bg) \in RequestType /\ here \in BOOLEAN
      BY <1>6, MovedIs, RequestsTyped
    <3>2. Ask(here, chain') \in RequestType
      BY <3>1, AskIs
    <3>3. Refreshed(Moved(bg), chain') \in RequestType
      BY <3>1, <3>2 DEF Refreshed
    <3>4. bg' \in RequestType /\ nav' \in RequestType
      BY <1>3, <1>6, <2>2, <3>3, MovedIs
    <3>5. FollowsMoved(bg', bg) /\ FollowsMoved(nav', nav)
      BY <1>3, <1>6, <2>2, MovedFollows, RefreshedFollows DEF ReadInv
    <3> QED
      BY <3>4, <3>5, FollowsAnyway
  <2> QED
    BY <2>1, <2>2
<1>8. RequestInv'
  <2>1. CASE Pending(e.m)
    BY <1>3, <1>7, <2>1, RequestStep
  <2>2. CASE ~Pending(e.m)
    BY <1>7, <2>2, RequestStep
  <2> QED
    BY <2>1, <2>2
<1>9. \A m \in Mails \ {e.m} : chain'[m] = chain[m] /\ shown'[m] = shown[m]
  BY <1>3, <1>5 DEF Applied, ReadInv, Typed
<1>10. ~Pending(e.m) => /\ chain'[e.m] = <<o>>
                        /\ here => shown'[e.m] = e.read
  BY <1>3, <1>5 DEF Applied, ReadInv, Typed
<1>11. Typed'
  <2>1. chain' \in [Mails -> Seq(ChangeType)] /\ shown' \in [Mails -> BOOLEAN]
    <3>1. /\ chain \in [Mails -> Seq(ChangeType)] /\ shown \in [Mails -> BOOLEAN]
          /\ here \in BOOLEAN
      BY DEF ReadInv, Typed
    <3>2. CASE Pending(e.m)
      BY <1>3, <3>1, <3>2
    <3>3. CASE ~Pending(e.m)
      <4>1. chain' = [chain EXCEPT ![e.m] = <<o>>]
        BY <1>3, <3>3
      <4>2. chain' \in [Mails -> Seq(ChangeType)]
        BY <1>4, <3>1, <4>1
      <4>3. shown' = [m \in Mails |-> IF here /\ m \in {e.m} THEN e.read ELSE shown[m]]
        BY <1>3, <3>3 DEF Applied
      <4>4. shown' \in [Mails -> BOOLEAN]
        BY <1>5, <3>1, <4>3
      <4> QED
        BY <4>2, <4>4
    <3> QED
      BY <3>2, <3>3
  <2>2. unseen' \subseteq Mails
    BY <1>3, <1>5 DEF ReadInv, Typed
  <2>3. wire' \in Seq(EventType)
    BY <1>3, WireTail
  <2> QED
    BY <1>3, <1>7, <2>1, <2>2, <2>3 DEF Typed, ReadInv
<1>12. IntentInv' /\ WishInv'
  BY <1>3, EventIntent, WishStays
<1>13. OverridesAreShown'
  <2> SUFFICES ASSUME here, NEW m \in Mails, chain'[m] # <<>> PROVE shown'[m] = Last(chain'[m]).read
    BY <1>3 DEF OverridesAreShown, Overrides, Change
  <2>1. CASE chain'[m] = chain[m] /\ shown'[m] = shown[m]
    BY <2>1 DEF ReadInv, OverridesAreShown, Overrides, Change
  <2>2. CASE m = e.m /\ ~Pending(e.m)
    BY <1>4, <1>10, <2>2
  <2> QED
    BY <1>3, <1>9, <2>1, <2>2
<1>14. ClaimInv'
  <2> SUFFICES ASSUME NEW m \in Known' PROVE Claims(m)'
    BY DEF ClaimInv
  <2>1. m \in Mails \ crossed /\ m \notin unseen'
    BY <1>3 DEF Known
  <2>2. CASE m \in unseen
    <3>1. ~Behind(m)'
      BY <1>3, <2>1, <2>2
    <3> QED
      BY <1>11, <1>12, <1>13, <2>1, <3>1, Agreeing
  <2>3. CASE m \notin unseen
    <3>1. Claims(m)
      BY <2>1, <2>3 DEF ReadInv, ClaimInv, Known
    <3>2. /\ WireClaim(m)'
          /\ e.m # m => (Silent(m)' => Silent(m))
          /\ e.m = m /\ Silent(m)' => e.read = stored[m]
      BY <1>1, <1>3, <3>1, WireTail DEF Claims
    <3>3. CASE m # e.m
      <4>1. (\A k \in Mine(m) : posts[k].at = "waits")
            => (\A k \in Mine(m)' : posts'[k].at = "waits")
        BY <1>3 DEF Mine
      <4> QED
        BY <1>3, <1>7, <1>9, <2>1, <3>1, <3>2, <3>3, <4>1, StaysFollowing
    <3>4. CASE m = e.m
      <4>1. ~Pending(e.m)
        BY <1>3, <2>1, <3>4
      <4>2. chain'[m] = <<o>>
        BY <1>10, <3>4, <4>1
      <4>3. Overrides(m)' /\ Change(m)' = o /\ ~Pending(m)'
        BY <1>4, <4>2 DEF Overrides, Change, Pending
      <4>4. \A r \in {bg', nav'} : ~Shows(r, m)'
        BY <1>7, <4>1, <4>3 DEF FollowsMoved, Shows
      <4> QED
        BY <1>3, <1>4, <3>2, <3>4, <4>3, <4>4 DEF Claims, PendingClaim, RestClaim
    <3> QED
      BY <3>3, <3>4
  <2> QED
    BY <2>2, <2>3
<1> QED
  BY <1>8, <1>11, <1>12, <1>13, <1>14 DEF ReadInv

-----------------------------------------------------------------------------
(* Lists *)

LEMMA SwapStep ==
  ASSUME ReadInv, NEW r \in {bg, nav}, r.at = "rendered", Swap(r) PROVE ReadInv'
<1> DEFINE retired == IF r.moved THEN {} ELSE r.settled
<1>1. r \in RequestType
  BY DEF ReadInv, Typed
<1>2. /\ chain' = [m \in Mails |-> IF m \in retired THEN <<>> ELSE chain[m]]
      /\ here' = r.to /\ row' = IF r.to THEN r.row ELSE row
      /\ shown' = [m \in Mails |->
           IF ~r.to THEN shown[m] ELSE IF chain'[m] # <<>> THEN Change(m).read ELSE r.read[m]]
      /\ bg' = NoRequest /\ nav' = NoRequest
      /\ UNCHANGED <<stored, joined, pushes, wire, queueKey, posts, undo, left, wish, crossed>>
      /\ unseen' = {m \in unseen : Behind(m)'}
  BY DEF Swap, server
<1> HIDE DEF retired
<1>3. bg' \in RequestType /\ nav' \in RequestType
        /\ FollowsMoved(bg', bg) /\ FollowsMoved(nav', nav)
  BY <1>2, NoRequestIs DEF FollowsMoved
<1>4. RequestInv' /\ IntentInv' /\ WishInv'
  BY <1>2, <1>3, RequestStep, SwapIntent, WishStays
<1>5. ASSUME NEW m \in Mails
      PROVE  /\ chain'[m] = IF m \in retired THEN <<>> ELSE chain[m]
             /\ chain'[m] \in Seq(ChangeType)
             /\ chain'[m] # <<>> => chain'[m] = chain[m] /\ Overrides(m) /\ Change(m) \in ChangeType
  <2>1. chain'[m] = IF m \in retired THEN <<>> ELSE chain[m]
    BY <1>2
  <2>2. chain[m] \in Seq(ChangeType) /\ <<>> \in Seq(ChangeType)
    BY EmptySeq DEF ReadInv, Typed
  <2>3. Overrides(m) => Change(m) \in ChangeType
    BY ChangeTyped DEF ReadInv
  <2> QED
    BY <2>1, <2>2, <2>3 DEF Overrides
<1>6. Typed'
  <2>1. chain' \in [Mails -> Seq(ChangeType)]
    BY <1>2, <1>5
  <2>2. shown' \in [Mails -> BOOLEAN]
    BY <1>1, <1>2, <1>5 DEF ReadInv, Typed, RequestType, ChangeType
  <2>3. here' \in BOOLEAN /\ row' \in Nat
    BY <1>1, <1>2 DEF ReadInv, Typed, RequestType
  <2> QED
    BY <1>2, <1>3, <2>1, <2>2, <2>3 DEF Typed, ReadInv
<1>7. OverridesAreShown'
  BY <1>2, <1>5 DEF OverridesAreShown, Overrides, Change
<1>8. ClaimInv'
  <2> SUFFICES ASSUME NEW m \in Known' PROVE Claims(m)'
    BY DEF ClaimInv
  <2>1. m \in Mails \ crossed /\ m \notin unseen'
    BY <1>2 DEF Known
  <2>2. CASE m \in unseen
    <3>1. ~Behind(m)'
      BY <1>2, <2>1, <2>2
    <3> QED
      BY <1>4, <1>6, <1>7, <2>1, <3>1, Agreeing
  <2>3. CASE m \notin unseen
    <3>1. Claims(m)
      BY <2>1, <2>3 DEF ReadInv, ClaimInv, Known
    <3>2. WireClaim(m)' /\ (Silent(m)' => Silent(m))
      BY <1>2, <3>1, WireStays DEF Claims
    <3>3. bg'.at # "rendered" /\ nav'.at # "rendered"
      BY <1>2, NoRequestIs
    <3>4. Mine(m)' = Mine(m)
      BY <1>2 DEF Mine
    <3> SUFFICES ASSUME Silent(m) PROVE PendingClaim(m)' /\ RestClaim(m)'
      BY <3>2 DEF Claims, PendingClaim, RestClaim
    <3>5. CASE Pending(m)
      <4>1. m \notin retired
        BY <3>5 DEF retired, ReadInv, RequestInv, Unmoved
      <4>2. chain'[m] = chain[m] /\ Pending(m)'
        BY <1>5, <2>1, <3>5, <4>1 DEF Pending, Overrides, Change
      <4>3. PendingClaim(m)'
        BY <1>2, <3>1, <3>3, <3>4, <3>5, <4>2 DEF Claims, PendingClaim, Told
      <4> QED
        BY <4>2, <4>3 DEF RestClaim
    <3>6. CASE ~Pending(m)
      <4>1. /\ Overrides(m) => Change(m).read = stored[m]
            /\ Shows(r, m) => r.read[m] = stored[m]
        BY <3>1, <3>6 DEF Claims, RestClaim
      <4>2. ~Pending(m)'
        BY <1>5, <2>1, <3>6 DEF Pending, Overrides, Change
      <4>3. Overrides(m)' => Change(m)'.read = stored'[m]
        BY <1>2, <1>5, <2>1, <4>1 DEF Overrides, Change
      <4>4. ~Overrides(m)' /\ here' => shown'[m] = stored'[m]
        <5> SUFFICES ASSUME chain'[m] = <<>>, r.to PROVE shown'[m] = stored[m]
          BY <1>2 DEF Overrides
        <5>1. shown'[m] = r.read[m]
          BY <1>2, <2>1
        <5>2. Shows(r, m)
          BY <1>5, <2>1 DEF Shows, Overrides, retired
        <5> QED
          BY <4>1, <5>1, <5>2
      <4> QED
        BY <3>3, <4>2, <4>3, <4>4 DEF PendingClaim, RestClaim, Shows
    <3> QED
      BY <3>5, <3>6
  <2> QED
    BY <2>2, <2>3
<1> QED
  BY <1>4, <1>6, <1>7, <1>8 DEF ReadInv

-----------------------------------------------------------------------------
(* The invariant holds initially and every step keeps it *)

LEMMA InitTyped == ASSUME Init PROVE Typed
<1>1. /\ NoRequest \in RequestType /\ <<>> \in Seq(ChangeType) /\ <<>> \in Seq(PostType)
      /\ <<>> \in Seq(EventType)
  BY NoRequestIs, EmptySeq
<1>2. left \in [{"press", "event"} -> Nat]
  BY BoundsAssumption DEF Init
<1> QED
  BY <1>1, <1>2 DEF Init, Typed

LEMMA InitInv == ASSUME Init PROVE ReadInv
<1>1. Len(posts) = 0 /\ Len(wire) = 0 /\ \A m \in Mails : chain[m] = <<>> /\ Len(chain[m]) = 0
  BY DEF Init
<1>2. /\ \A m : Mine(m) = {} /\ OnWire(m) = {}
      /\ \A m \in Mails : ~Overrides(m) /\ ~Pending(m)
  BY <1>1 DEF Mine, OnWire, Overrides, Pending
<1>3. Typed
  BY InitTyped
<1>4. \A m \in Mails : IsChain(chain[m])
  BY <1>1, NoChain
<1>5. IntentInv
  BY <1>1, <1>2, <1>4 DEF IntentInv, PostNumbers, Chains, PendingPosts,
        OneKey, StoredFirst, NewestInv
<1>6. WishInv /\ RequestInv
  BY NoRequestIs DEF Init, WishInv, RequestInv, Unmoved
<1>7. OverridesAreShown
  BY <1>2 DEF OverridesAreShown
<1>8. ClaimInv
  <2> SUFFICES ASSUME NEW m \in Mails PROVE Claims(m)
    BY DEF ClaimInv, Known
  <2>1. shown[m] = stored[m] /\ ~Shows(bg, m) /\ ~Shows(nav, m)
    BY NoRequestIs DEF Init, Shows
  <2> QED
    BY <1>2, <2>1 DEF Claims, WireClaim, PendingClaim, RestClaim
<1> QED
  BY <1>3, <1>5, <1>6, <1>7, <1>8 DEF ReadInv

LEMMA ReadStutter == ASSUME ReadInv, UNCHANGED vars PROVE ReadInv'
<1>1. UNCHANGED <<stored, joined, pushes, wire, here, shown, row, chain, queueKey, posts, undo, bg,
                  nav, left, wish, unseen, crossed>>
  BY DEF vars, server, screen, intent, history
<1> QED
  BY <1>1, RequestsTyped, AskedStep

LEMMA ReadStep == ASSUME ReadInv, [Next]_vars PROVE ReadInv'
<1>1. DOMAIN posts = 1..Len(posts)
  BY PostsTyped DEF ReadInv
<1>2. CASE PressOne
  BY <1>2, PressStep DEF PressOne
<1>3. CASE PressWhole
  BY <1>3, PressStep DEF PressWhole
<1>4. CASE Undo
  BY <1>4, UndoStep
<1>5. CASE \E i \in DOMAIN posts : PostStored(i) \/ PostAnswered(i) \/ PostFails(i)
  BY <1>1, <1>5, PostStoredStep, PostAnsweredStep, PostFailsStep
<1>6. CASE \E m \in Mails : OtherWrites(m) \/ PushDone(m)
  BY <1>6, OtherWritesStep, PushDoneStep
<1>7. CASE EventArrives
  BY <1>7, EventArrivesStep
<1>8. CASE Refresh \/ Join
  BY <1>8, RefreshStep, JoinStep
<1>9. CASE \E to \in BOOLEAN : Navigate(to)
  BY <1>9, NavigateStep
<1>10. CASE RenderBg \/ RenderNav
  BY <1>10, RenderStep
<1>11. CASE BgArrives
  <2>1. CASE bg.moved
    BY <1>11, <2>1, DroppedStep DEF BgArrives
  <2>2. CASE ~bg.moved
    BY <1>11, <2>2, SwapStep DEF BgArrives
  <2> QED
    BY <2>1, <2>2
<1>12. CASE NavArrives
  BY <1>12, SwapStep DEF NavArrives
<1>13. CASE UNCHANGED vars
  BY <1>13, ReadStutter
<1> QED
  BY <1>2, <1>3, <1>4, <1>5, <1>6, <1>7, <1>8, <1>9, <1>10, <1>11, <1>12, <1>13 DEF Next

LEMMA ReadInvariance == Spec => []ReadInv
<1>1. Init => ReadInv
  BY InitInv
<1>2. ReadInv /\ [Next]_vars => ReadInv'
  BY ReadStep
<1> QED
  BY <1>1, <1>2, PTL DEF Spec

-----------------------------------------------------------------------------
(* The theorems *)

\* The variables keep their types, and an override is pending only while a POST of its press is
\* under way (web/static/js/app.js, markRead and the handlers of its POST): no answer, event or
\* list leaves a choice waiting for a POST that is gone.
THEOREM ReadTypes == Spec => []TypeOK
<1>1. ReadInv => TypeOK
  <2> SUFFICES ASSUME ReadInv PROVE TypeOK
    OBVIOUS
  <2>1. ASSUME NEW m \in Mails, Pending(m)
        PROVE  \E i \in DOMAIN posts : m \in posts[i].ids /\ posts[i].n = Change(m).n
    <3>1. /\ Len(chain[m]) \in 1..Len(chain[m]) /\ Change(m) = chain[m][Len(chain[m])]
          /\ Change(m).pending
      BY <2>1, ChangeTyped DEF Pending, ReadInv
    <3>2. PICK j \in Mine(m) : posts[j].n = Change(m).n
      BY <3>1 DEF ReadInv, IntentInv, PendingPosts
    <3> QED
      BY <3>2, PostsTyped DEF ReadInv, Mine
  <2> QED
    BY <2>1 DEF ReadInv, Typed, TypeOK
<1> QED
  BY <1>1, ReadInvariance, PTL

\* Whatever list or event arrives, in whatever order they were rendered, a row on screen shows the
\* override of its message: retireReadChanges and the re-application after a swap never leave a row
\* with what an older response said (app.js, readChanges).
THEOREM ChoicesStayShown == Spec => []OverridesAreShown
<1>1. ReadInv => OverridesAreShown
  BY DEF ReadInv
<1> QED
  BY <1>1, ReadInvariance, PTL

\* When the last POST about a message is finished the database holds the choice made last in this
\* tab, however many POSTs were queued and whichever were refused or lost their answer, as long as
\* they waited under one row id (app.js, the queue of markRead).
THEOREM LastIsStored == Spec => []LastPressWins
<1>1. ReadInv => LastPressWins
  <2> SUFFICES ASSUME ReadInv, NEW m \in Mails \ crossed,
                      \A i \in DOMAIN posts : m \notin posts[i].ids, NEW w \in wish[m]
               PROVE  w = stored[m]
    BY DEF LastPressWins
  <2>1. Mine(m) = {}
    BY PostsTyped DEF ReadInv, Mine
  <2> QED
    BY <2>1 DEF ReadInv, WishInv, Due
<1> QED
  BY <1>1, ReadInvariance, PTL

\* With no POST, no background SetRead and no event of a message under way, its row tells what the
\* database holds, whatever lists are still on their way (app.js, the read-state listener and the
\* swap of a list).
THEOREM RestIsTrue == Spec => []AtRestShowsStored
<1>1. ReadInv => AtRestShowsStored
  <2> SUFFICES ASSUME ReadInv, here, NEW m \in Mails \ (unseen \cup crossed), Quiet(m)
               PROVE  shown[m] = stored[m]
    BY DEF AtRestShowsStored
  <2>1. Mine(m) = {} /\ Silent(m)
    BY PostsTyped, WireTyped DEF ReadInv, Mine, Quiet, Silent, OnWire
  <2>2. ~Pending(m)
    BY <2>1, PendingMine DEF ReadInv
  <2>3. RestClaim(m)
    BY DEF ReadInv, ClaimInv, Known, Claims
  <2> QED
    BY <2>1, <2>2, <2>3 DEF RestClaim, ReadInv, OverridesAreShown
<1> QED
  BY <1>1, ReadInvariance, PTL

=============================================================================
