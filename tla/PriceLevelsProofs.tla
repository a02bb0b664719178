-------------------------- MODULE PriceLevelsProofs --------------------------
(***************************************************************************)
(* Theorems about the sides of an order book, for any prices, volumes and  *)
(* snapshots and a bounded vector of any depth.                            *)
(*                                                                         *)
(* A side is a strictly ascending sequence of levels (Sides), and such a   *)
(* sequence is given by the set of its levels.  So every operation is      *)
(* described by what it makes of that set (VecInsertSide, InsertAllSide):  *)
(* from there on it is the operation of LevelMap.  A bounded vector is the *)
(* beginning of a side, and stays one as long as levels are put in         *)
(* (TopInsertBegins).                                                      *)
(*                                                                         *)
(* The queries are proved for lists that begin with the best level: what   *)
(* stops early is a beginning of such a list (FirstOnes, UntilBoundary),   *)
(* and the sum of one is a count of cells (WorthCounts).  Sorting by side  *)
(* and price puts a level at its rank (SortOrders).  The walk of the two   *)
(* sorted lists has the loop invariant Aligned: what is before a pointer   *)
(* comes before all that is not yet before the other, so the number of     *)
(* mismatches is that of the prices met and missing in the other list.     *)
(***************************************************************************)
EXTENDS PriceLevels, SequenceLemmas

Levels == Prices \X (Volumes \ {0})

Sides == {l \in Seq(Levels) : Sorted(l)}

-----------------------------------------------------------------------------
(* Sequences of levels. *)

LEMMA LevelParts ==
  ASSUME NEW x \in Levels
  PROVE  /\ x = <<x[1], x[2]>> /\ x[1] \in Prices /\ x[1] \in Nat
         /\ x[2] \in Volumes /\ x[2] # 0
<1>1. x = <<x[1], x[2]>> /\ x[1] \in Prices /\ x[2] \in Volumes /\ x[2] # 0
  BY DEF Levels
<1>2. Prices \subseteq Nat
  BY LevelAssumption
<1> QED
  BY <1>1, <1>2

LEMMA SideParts ==
  ASSUME NEW l \in Sides
  PROVE  /\ Len(l) \in Nat /\ DOMAIN l = 1 .. Len(l)
         /\ l = [k \in 1 .. Len(l) |-> l[k]]
         /\ \A k \in 1 .. Len(l) : l[k] \in Levels /\ l[k][1] \in Nat
         /\ \A j, k \in 1 .. Len(l) : j < k => l[j][1] < l[k][1]
         /\ ToSet(l) = {l[k] : k \in 1 .. Len(l)}
<1>1. l \in Seq(Levels) /\ Sorted(l)
  BY DEF Sides
<1>2. Len(l) \in Nat /\ DOMAIN l = 1 .. Len(l) /\ l = [k \in 1 .. Len(l) |-> l[k]]
  BY <1>1
<1>3. \A k \in 1 .. Len(l) : l[k] \in Levels /\ l[k][1] \in Nat
  BY <1>1, <1>2, LevelParts
<1> QED
  BY <1>1, <1>2, <1>3 DEF Sorted, ToSet

LEMMA InSide ==
  ASSUME NEW l \in Sides, NEW x
  PROVE  x \in ToSet(l) <=> \E k \in 1 .. Len(l) : x = l[k]
BY SideParts

LEMMA OnSide ==
  ASSUME NEW l \in Sides, NEW x \in ToSet(l)
  PROVE  x \in Levels /\ x[1] \in Prices /\ x[1] \in Nat
<1>1. PICK k \in 1 .. Len(l) : x = l[k]
  BY InSide
<1>2. x \in Levels
  BY <1>1, SideParts
<1> QED
  BY <1>2, LevelParts

\* What it takes to be a side.
LEMMA IsSide ==
  ASSUME NEW n \in Nat, NEW l, l = [k \in 1 .. n |-> l[k]],
         \A k \in 1 .. n : l[k] \in Levels,
         \A j, k \in 1 .. n : j < k => l[j][1] < l[k][1]
  PROVE  l \in Sides /\ Len(l) = n
<1>1. l \in [1 .. n -> Levels] /\ DOMAIN l = 1 .. n
  OBVIOUS
<1>2. l \in Seq(Levels) /\ Len(l) = n
  BY <1>1
<1> QED
  BY <1>1, <1>2 DEF Sides, Sorted

\* A price is on a side once.
LEMMA OncePerPrice ==
  ASSUME NEW l \in Sides, NEW x \in ToSet(l), NEW y \in ToSet(l), x[1] = y[1]
  PROVE  x = y
<1>1. PICK j \in 1 .. Len(l) : x = l[j]
  BY InSide
<1>2. PICK k \in 1 .. Len(l) : y = l[k]
  BY InSide
<1>3. j = k
  BY <1>1, <1>2, SideParts
<1> QED
  BY <1>1, <1>2, <1>3

\* Two sides whose first levels the other has too begin with the same levels.
LEMMA SameUpTo ==
  ASSUME NEW l \in Sides, NEW m \in Sides, NEW n \in Nat, n <= Len(l), n <= Len(m),
         \A k \in 1 .. n : l[k] \in ToSet(m) /\ m[k] \in ToSet(l)
  PROVE  \A k \in 1 .. n : l[k] = m[k]
<1> DEFINE Odd == {k \in 1 .. n : l[k] # m[k]}
<1> SUFFICES ASSUME Odd # {}
             PROVE  FALSE
  OBVIOUS
<1>1. PICK k \in Odd : \A i \in 0 .. n : i < k => i \notin Odd
  <2>1. Odd \in SUBSET (0 .. n)
    OBVIOUS
  <2> HIDE DEF Odd
  <2> QED
    BY <2>1, LeastFailure
<1>2. k \in 1 .. n /\ l[k] # m[k] /\ \A i \in 1 .. n : i < k => l[i] = m[i]
  BY <1>1
<1>3. l[k] \in ToSet(m) /\ m[k] \in ToSet(l)
  BY <1>2
<1>4. PICK j \in 1 .. Len(m) : l[k] = m[j]
  BY <1>3, InSide
<1>5. PICK i \in 1 .. Len(l) : m[k] = l[i]
  BY <1>3, InSide
<1>6. /\ \A a, b \in 1 .. Len(l) : a < b => l[a][1] < l[b][1]
      /\ \A a, b \in 1 .. Len(m) : a < b => m[a][1] < m[b][1]
      /\ \A a \in 1 .. Len(l) : l[a][1] \in Nat
      /\ \A a \in 1 .. Len(m) : m[a][1] \in Nat
      /\ k \in 1 .. Len(l) /\ k \in 1 .. Len(m)
      /\ Len(l) \in Nat /\ Len(m) \in Nat
  BY <1>2, SideParts, SMTT(30)
<1>7. k <= j
  BY <1>2, <1>4, <1>6
<1>8. k <= i
  BY <1>2, <1>5, <1>6
<1> QED
  BY <1>2, <1>4, <1>5, <1>6, <1>7, <1>8

\* A side is given by its levels.
LEMMA SameSide ==
  ASSUME NEW l \in Sides, NEW m \in Sides, ToSet(l) = ToSet(m)
  PROVE  l = m
<1>0. \A x, y \in Sides : ToSet(x) = ToSet(y) => Len(x) <= Len(y)
  <2> SUFFICES ASSUME NEW x \in Sides, NEW y \in Sides, ToSet(x) = ToSet(y), Len(y) < Len(x)
               PROVE  FALSE
    BY SideParts
  <2>1. /\ Len(y) \in Nat /\ Len(x) \in Nat
        /\ \A k \in 1 .. Len(y) : k \in 1 .. Len(x)
    BY SideParts
  <2>2. \A k \in 1 .. Len(y) : x[k] \in ToSet(y) /\ y[k] \in ToSet(x)
    BY <2>1, InSide
  <2>3. \A k \in 1 .. Len(y) : x[k] = y[k]
    <3>1. Len(y) <= Len(x) /\ Len(y) <= Len(y)
      BY <2>1
    <3> QED
      BY <2>1, <2>2, <3>1, SameUpTo
  <2> DEFINE n == Len(x)
  <2>4. n \in 1 .. Len(x) /\ x[n] \in ToSet(y)
    BY <2>1, InSide
  <2>5. PICK j \in 1 .. Len(y) : x[n] = y[j]
    BY <2>4, InSide
  <2>6. x[n] = x[j] /\ j < n /\ j \in 1 .. Len(x)
    BY <2>1, <2>3, <2>5
  <2>7. x[j][1] < x[n][1] /\ x[n][1] \in Nat
    BY <2>4, <2>6, SideParts
  <2> QED
    BY <2>6, <2>7
<1>1. Len(l) = Len(m) /\ Len(l) \in Nat
  BY <1>0, SideParts
<1>2. \A k \in 1 .. Len(l) : l[k] \in ToSet(m) /\ m[k] \in ToSet(l)
  BY <1>1, InSide
<1>3. \A k \in 1 .. Len(l) : l[k] = m[k]
  BY <1>1, <1>2, SameUpTo
<1> QED
  BY <1>1, <1>3, SideParts

\* If the prices of the first levels of one side are on another one, that one has as
\* many levels as low.
LEMMA AsLow ==
  ASSUME NEW o \in Sides, NEW l \in Sides, NEW n \in Nat, n <= Len(o),
         \A k \in 1 .. n : \E x \in ToSet(l) : x[1] = o[k][1]
  PROVE  n <= Len(l) /\ \A k \in 1 .. n : l[k][1] <= o[k][1]
<1> DEFINE Odd == {k \in 1 .. n : ~(k <= Len(l) /\ l[k][1] <= o[k][1])}
<1>1. ASSUME Odd # {}
      PROVE  FALSE
  <2>1. PICK k \in Odd : \A i \in 0 .. n : i < k => i \notin Odd
    <3>1. Odd \in SUBSET (0 .. n)
      OBVIOUS
    <3> HIDE DEF Odd
    <3> QED
      BY <1>1, <3>1, LeastFailure
  <2>2. k \in 1 .. n /\ ~(k <= Len(l) /\ l[k][1] <= o[k][1])
    BY <2>1
  <2>3. PICK j \in 1 .. Len(l) : o[k][1] = l[j][1]
    BY <2>2, InSide
  <2>4. /\ \A a, b \in 1 .. Len(l) : a < b => l[a][1] < l[b][1]
        /\ \A a \in 1 .. Len(l) : l[a][1] \in Nat
        /\ Len(l) \in Nat /\ Len(o) \in Nat
        /\ \A a, b \in 1 .. Len(o) : a < b => o[a][1] < o[b][1]
        /\ \A a \in 1 .. Len(o) : o[a][1] \in Nat
    BY SideParts
  <2>5. j < k
    <3> SUFFICES ASSUME k <= j
                 PROVE  FALSE
      BY <2>2, <2>4
    <3>1. k \in 1 .. Len(l) /\ (k = j \/ l[k][1] < l[j][1])
      BY <2>2, <2>4
    <3> QED
      BY <2>2, <2>3, <2>4, <3>1
  <2>6. k - 1 \in 1 .. n /\ k - 1 \notin Odd
    BY <2>1, <2>2, <2>4, <2>5
  <2>7. k - 1 <= Len(l) /\ l[k - 1][1] <= o[k - 1][1]
    BY <2>6
  <2>8. o[k - 1][1] < o[k][1]
    BY <2>2, <2>4, <2>6
  <2>9. j = k - 1 \/ l[j][1] < l[k - 1][1]
    BY <2>2, <2>4, <2>5, <2>7
  <2> QED
    BY <2>2, <2>3, <2>4, <2>6, <2>7, <2>8, <2>9, SMTT(30)
<1>2. CASE n = 0
  BY <1>2, SideParts
<1>3. CASE n # 0
  BY <1>1, <1>3
<1> QED
  BY <1>2, <1>3

-----------------------------------------------------------------------------
(* One level. *)

\* partition_point finds the first level that is not lower.
LEMMA PlaceFound ==
  ASSUME NEW l \in Sides, NEW p \in Prices
  PROVE  LET i == PartitionPoint(l, p) IN
         /\ i \in 1 .. Len(l) + 1
         /\ \A k \in 1 .. Len(l) : k < i => l[k][1] < p
         /\ \A k \in 1 .. Len(l) : k >= i => l[k][1] >= p
<1> DEFINE n == Len(l)
           T == {k \in 1 .. n + 1 : k = n + 1 \/ l[k][1] >= p}
<1>1. /\ n \in Nat /\ DOMAIN l = 1 .. n /\ p \in Nat
      /\ \A k \in 1 .. n : l[k][1] \in Nat
      /\ \A j, k \in 1 .. n : j < k => l[j][1] < l[k][1]
  BY SideParts, LevelAssumption
<1>2. PICK i \in T : \A m \in 0 .. n + 1 : m < i => m \notin T
  <2>1. T \in SUBSET (0 .. n + 1) /\ n + 1 \in T /\ n + 1 \in Nat
    BY <1>1
  <2> HIDE DEF T
  <2> QED
    BY <2>1, LeastFailure
<1>3. i \in 1 .. n + 1 /\ \A k \in 1 .. n : k < i => l[k][1] < p
  BY <1>1, <1>2
<1>4. \A k \in 1 .. n : k >= i => l[k][1] >= p
  <2> SUFFICES ASSUME NEW k \in 1 .. n, k >= i
               PROVE  l[k][1] >= p
    OBVIOUS
  <2>1. i \in 1 .. n /\ l[i][1] >= p
    BY <1>1, <1>2
  <2>2. i = k \/ l[i][1] < l[k][1]
    BY <1>1, <2>1
  <2> QED
    BY <1>1, <2>1, <2>2
<1>5. {k \in DOMAIN l : l[k][1] < p} = 1 .. i - 1
  <2>1. \A k \in 1 .. n : l[k][1] < p <=> k < i
    BY <1>1, <1>3, <1>4
  <2>2. \A k \in 1 .. i - 1 : k \in 1 .. n
    BY <1>1, <1>3
  <2> QED
    BY <1>1, <1>3, <2>1, <2>2
<1>6. Cardinality(1 .. i - 1) = i - 1
  <2>1. i \in Nat /\ i >= 1 /\ i - 1 \in Int
    BY <1>1, <1>3
  <2>2. Cardinality(1 .. i - 1) = IF 1 > i - 1 THEN 0 ELSE (i - 1) - 1 + 1
    BY <2>1, FS_Interval
  <2> QED
    BY <2>1, <2>2
<1>7. PartitionPoint(l, p) = i
  <2>1. PartitionPoint(l, p) = Cardinality(1 .. i - 1) + 1
    BY <1>5 DEF PartitionPoint
  <2>2. (i - 1) + 1 = i
    BY <1>1, <1>3
  <2> QED
    BY <1>6, <2>1, <2>2
<1> QED
  BY <1>1, <1>3, <1>4, <1>7

Widened(l, i, e) ==
  [k \in 1 .. Len(l) + 1 |-> IF k < i THEN l[k] ELSE IF k = i THEN e ELSE l[k - 1]]
Narrowed(l, i)   == [k \in 1 .. Len(l) - 1 |-> IF k < i THEN l[k] ELSE l[k + 1]]
Valued(l, i, v)  == [l EXCEPT ![i][2] = v]
Changed(l, i, e) == [k \in 1 .. Len(l) |-> IF k = i THEN e ELSE l[k]]

LEMMA InsertWidens ==
  ASSUME NEW l \in Seq(Levels), NEW i \in 1 .. Len(l) + 1, NEW e \in Levels
  PROVE  InsertAt(l, i, e) = Widened(l, i, e)
<1> DEFINE front == SubSeq(l, 1, i - 1)
           back  == SubSeq(l, i, Len(l))
<1>1. Len(l) \in Nat /\ i \in Nat
  OBVIOUS
<1>2. /\ front \in Seq(Levels) /\ Len(front) = i - 1
      /\ \A k \in 1 .. i - 1 : front[k] = l[k]
  OBVIOUS
<1>3. /\ back \in Seq(Levels) /\ Len(back) = Len(l) + 1 - i
      /\ \A k \in 1 .. Len(l) + 1 - i : back[k] = l[i + k - 1]
  OBVIOUS
<1> HIDE DEF front, back
<1> DEFINE start == front \o <<e>>
<1>4. /\ start \in Seq(Levels) /\ Len(start) = i
      /\ \A k \in 1 .. i : start[k] = IF k < i THEN l[k] ELSE e
  BY <1>1, <1>2
<1> HIDE DEF start
<1> DEFINE all == start \o back
<1>5. /\ all \in Seq(Levels) /\ Len(all) = Len(l) + 1
      /\ \A k \in 1 .. Len(l) + 1 : all[k] = IF k <= i THEN start[k] ELSE back[k - i]
  <2>1. Len(start) + Len(back) = Len(l) + 1
    BY <1>1, <1>3, <1>4
  <2> QED
    BY <1>3, <1>4, <2>1, ConcatProperties
<1>6. all = [k \in 1 .. Len(l) + 1 |-> all[k]]
  <2>1. DOMAIN all = 1 .. Len(all) /\ all = [k \in DOMAIN all |-> all[k]]
    BY <1>5, LenProperties
  <2> QED
    BY <1>5, <2>1
<1> HIDE DEF all
<1>7. \A k \in 1 .. Len(l) + 1 : all[k] = IF k < i THEN l[k] ELSE IF k = i THEN e ELSE l[k - 1]
  <2> SUFFICES ASSUME NEW k \in 1 .. Len(l) + 1
               PROVE  all[k] = IF k < i THEN l[k] ELSE IF k = i THEN e ELSE l[k - 1]
    OBVIOUS
  <2>1. CASE k <= i
    BY <1>1, <1>4, <1>5, <2>1
  <2>2. CASE k > i
    <3>1. k - i \in 1 .. Len(l) + 1 - i /\ i + (k - i) - 1 = k - 1
      BY <1>1, <2>2
    <3> QED
      BY <1>1, <1>3, <1>5, <2>2, <3>1, SMTT(30)
  <2> QED
    BY <1>1, <2>1, <2>2
<1>8. InsertAt(l, i, e) = all
  BY DEF InsertAt, all, start, front, back
<1> QED
  BY <1>6, <1>7, <1>8 DEF Widened

LEMMA RemoveNarrows ==
  ASSUME NEW l \in Seq(Levels), NEW i \in 1 .. Len(l)
  PROVE  RemoveAt(l, i) = Narrowed(l, i)
<1> DEFINE front == SubSeq(l, 1, i - 1)
           back  == SubSeq(l, i + 1, Len(l))
<1>1. Len(l) \in Nat /\ i \in Nat
  OBVIOUS
<1>2. /\ front \in Seq(Levels) /\ Len(front) = i - 1
      /\ \A k \in 1 .. i - 1 : front[k] = l[k]
  OBVIOUS
<1>3. /\ back \in Seq(Levels) /\ Len(back) = Len(l) - i
      /\ \A k \in 1 .. Len(l) - i : back[k] = l[i + k]
  OBVIOUS
<1> HIDE DEF front, back
<1> DEFINE all == front \o back
<1>4. /\ all \in Seq(Levels) /\ Len(all) = Len(l) - 1
      /\ \A k \in 1 .. Len(l) - 1 : all[k] = IF k <= i - 1 THEN front[k] ELSE back[k - (i - 1)]
  <2>1. Len(front) + Len(back) = Len(l) - 1
    BY <1>1, <1>2, <1>3
  <2>2. /\ all \in Seq(Levels) /\ Len(all) = Len(front) + Len(back)
        /\ \A k \in 1 .. Len(front) + Len(back) :
             all[k] = IF k <= Len(front) THEN front[k] ELSE back[k - Len(front)]
    BY <1>2, <1>3, ConcatProperties
  <2> QED
    BY <1>2, <2>1, <2>2
<1>5. all = [k \in 1 .. Len(l) - 1 |-> all[k]]
  <2>1. DOMAIN all = 1 .. Len(all) /\ all = [k \in DOMAIN all |-> all[k]]
    BY <1>4, LenProperties
  <2> QED
    BY <1>4, <2>1
<1> HIDE DEF all
<1>6. \A k \in 1 .. Len(l) - 1 : all[k] = IF k < i THEN l[k] ELSE l[k + 1]
  <2> SUFFICES ASSUME NEW k \in 1 .. Len(l) - 1
               PROVE  all[k] = IF k < i THEN l[k] ELSE l[k + 1]
    OBVIOUS
  <2>1. CASE k < i
    BY <1>1, <1>2, <1>4, <2>1
  <2>2. CASE k >= i
    <3>1. k - (i - 1) \in 1 .. Len(l) - i /\ i + (k - (i - 1)) = k + 1
      BY <1>1, <2>2
    <3> QED
      BY <1>1, <1>3, <1>4, <2>2, <3>1
  <2> QED
    BY <1>1, <2>1, <2>2
<1>7. RemoveAt(l, i) = all
  BY DEF RemoveAt, all, front, back
<1> QED
  BY <1>5, <1>6, <1>7 DEF Narrowed

\* What an insertion makes of the levels of a side.
Put(levels, p, v) ==
  {x \in levels : x[1] # p} \cup (IF v = 0 THEN {} ELSE {<<p, v>>})

LEMMA RemoveSide ==
  ASSUME NEW l \in Sides, NEW p \in Prices
  PROVE  /\ LevelRemove(l, p) \in Sides /\ Len(LevelRemove(l, p)) <= Len(l)
         /\ ToSet(LevelRemove(l, p)) = {x \in ToSet(l) : x[1] # p}
<1> DEFINE At == {k \in DOMAIN l : l[k][1] = p}
<1>0. /\ Len(l) \in Nat /\ DOMAIN l = 1 .. Len(l) /\ l \in Seq(Levels)
      /\ l = [k \in 1 .. Len(l) |-> l[k]]
      /\ \A k \in 1 .. Len(l) : l[k] \in Levels /\ l[k][1] \in Nat
      /\ \A j, k \in 1 .. Len(l) : j < k => l[j][1] < l[k][1]
  BY SideParts DEF Sides
<1>1. CASE At = {}
  <2>1. LevelRemove(l, p) = l
    BY <1>1 DEF LevelRemove
  <2>2. \A x \in ToSet(l) : x[1] # p
    BY <1>0, <1>1, InSide
  <2> QED
    BY <1>0, <2>1, <2>2
<1>2. CASE At # {}
  <2> DEFINE i == Min(At)
  <2>1. i \in At
    <3>1. At \in SUBSET Nat
      BY <1>0
    <3> HIDE DEF At
    <3> QED
      BY <1>2, <3>1, LeastOf
  <2>2. i \in 1 .. Len(l) /\ l[i][1] = p
    BY <1>0, <2>1
  <2>3. LevelRemove(l, p) = RemoveAt(l, i)
    BY <1>2 DEF LevelRemove
  <2> HIDE DEF i, At
  <2> DEFINE m == Narrowed(l, i)
             n == Len(l) - 1
  <2>4. LevelRemove(l, p) = m
    BY <1>0, <2>2, <2>3, RemoveNarrows
  <2>5. /\ n \in Nat /\ Len(l) = n + 1
        /\ m = [k \in 1 .. n |-> m[k]]
        /\ \A k \in 1 .. n : m[k] = IF k < i THEN l[k] ELSE l[k + 1]
    BY <1>0, <2>2 DEF Narrowed
  <2> HIDE DEF m, n
  <2>6. \A k \in 1 .. n : m[k] \in Levels
    BY <1>0, <2>2, <2>5
  <2>7. \A j, k \in 1 .. n : j < k => m[j][1] < m[k][1]
    <3> SUFFICES ASSUME NEW j \in 1 .. n, NEW k \in 1 .. n, j < k
                 PROVE  m[j][1] < m[k][1]
      OBVIOUS
    <3>1. /\ j \in 1 .. Len(l) /\ j + 1 \in 1 .. Len(l)
          /\ k \in 1 .. Len(l) /\ k + 1 \in 1 .. Len(l)
      BY <2>5
    <3>2. CASE k < i
      <4>1. m[j] = l[j] /\ m[k] = l[k]
        BY <2>2, <2>5, <3>2
      <4> QED
        BY <1>0, <3>1, <4>1
    <3>3. CASE k >= i
      <4>1. m[k] = l[k + 1] /\ m[j] \in {l[j], l[j + 1]} /\ j + 1 < k + 1 /\ j < k + 1
        BY <2>2, <2>5, <3>3
      <4> QED
        BY <1>0, <3>1, <4>1
    <3> QED
      BY <2>2, <3>2, <3>3
  <2>8. m \in Sides /\ Len(m) = n
    BY <2>5, <2>6, <2>7, IsSide
  <2>9. \A x : x \in ToSet(m) <=> x \in ToSet(l) /\ x[1] # p
    <3> SUFFICES ASSUME NEW x
                 PROVE  x \in ToSet(m) <=> x \in ToSet(l) /\ x[1] # p
      OBVIOUS
    <3>1. ASSUME x \in ToSet(m)
          PROVE  x \in ToSet(l) /\ x[1] # p
      <4>1. PICK k \in 1 .. n : x = m[k]
        BY <2>8, <3>1, InSide
      <4>2. PICK j \in 1 .. Len(l) : x = l[j] /\ j # i
        BY <1>0, <2>2, <2>5, <4>1
      <4>3. l[j][1] # l[i][1]
        BY <1>0, <2>2, <4>2
      <4> QED
        BY <2>2, <4>2, <4>3, InSide
    <3>2. ASSUME x \in ToSet(l), x[1] # p
          PROVE  x \in ToSet(m)
      <4>1. PICK j \in 1 .. Len(l) : x = l[j]
        BY <3>2, InSide
      <4>2. j # i
        BY <2>2, <3>2, <4>1
      <4>3. \E k \in 1 .. n : x = m[k]
        <5>1. CASE j < i
          BY <1>0, <2>2, <2>5, <4>1, <5>1
        <5>2. CASE j > i
          <6>1. j - 1 \in 1 .. n /\ ~(j - 1 < i) /\ (j - 1) + 1 = j
            BY <1>0, <2>2, <2>5, <4>1, <5>2
          <6> QED
            BY <2>5, <4>1, <6>1
        <5> QED
          BY <2>2, <4>1, <4>2, <5>1, <5>2
      <4> QED
        BY <2>8, <4>3, InSide
    <3> QED
      BY <3>1, <3>2
  <2> QED
    BY <2>4, <2>5, <2>8, <2>9
<1> QED
  BY <1>1, <1>2

\* A level goes where there is none of its price.
LEMMA WidenSide ==
  ASSUME NEW l \in Sides, NEW p \in Prices, NEW v \in Volumes \ {0},
         ~IsAt(l, p, PartitionPoint(l, p))
  PROVE  LET m == InsertAt(l, PartitionPoint(l, p), <<p, v>>) IN
         /\ m = Widened(l, PartitionPoint(l, p), <<p, v>>)
         /\ m \in Sides /\ Len(m) = Len(l) + 1
         /\ ToSet(m) = Put(ToSet(l), p, v)
<1> DEFINE i == PartitionPoint(l, p)
           e == <<p, v>>
           m == Widened(l, i, e)
           n == Len(l) + 1
<1>0. /\ Len(l) \in Nat /\ DOMAIN l = 1 .. Len(l) /\ l \in Seq(Levels)
      /\ \A k \in 1 .. Len(l) : l[k] \in Levels /\ l[k][1] \in Nat
      /\ \A j, k \in 1 .. Len(l) : j < k => l[j][1] < l[k][1]
  BY SideParts DEF Sides
<1>1. /\ i \in 1 .. n
      /\ \A k \in 1 .. Len(l) : k < i => l[k][1] < p
      /\ \A k \in 1 .. Len(l) : k >= i => l[k][1] >= p
      /\ e \in Levels /\ e[1] = p /\ p \in Nat
  BY PlaceFound, LevelAssumption DEF Levels
<1>2. \A k \in 1 .. Len(l) : k >= i => l[k][1] > p
  <2> SUFFICES ASSUME NEW k \in 1 .. Len(l), k >= i, l[k][1] = p
               PROVE  FALSE
    BY <1>0, <1>1
  <2>1. i \in 1 .. Len(l) /\ (i = k \/ l[i][1] < l[k][1])
    BY <1>0, <1>1
  <2>2. l[i][1] = p
    BY <1>0, <1>1, <2>1
  <2> QED
    BY <1>0, <2>1, <2>2 DEF IsAt
<1>3. InsertAt(l, i, e) = m
  BY <1>0, <1>1, InsertWidens
<1>4. /\ n \in Nat
      /\ m = [k \in 1 .. n |-> m[k]]
      /\ \A k \in 1 .. n : m[k] = IF k < i THEN l[k] ELSE IF k = i THEN e ELSE l[k - 1]
  BY <1>0 DEF Widened
<1> HIDE DEF m, e, i
<1>5. \A k \in 1 .. n : m[k] \in Levels
  BY <1>0, <1>1, <1>4
<1>6. \A j, k \in 1 .. n : j < k => m[j][1] < m[k][1]
  <2> SUFFICES ASSUME NEW j \in 1 .. n, NEW k \in 1 .. n, j < k
               PROVE  m[j][1] < m[k][1]
    OBVIOUS
  <2>1. CASE k < i
    BY <1>0, <1>1, <1>4, <2>1
  <2>2. CASE k = i
    BY <1>0, <1>1, <1>4, <2>2
  <2>3. CASE k > i
    <3>1. k - 1 \in 1 .. Len(l) /\ m[k] = l[k - 1]
      BY <1>0, <1>1, <1>4, <2>3
    <3>2. CASE j < i
      BY <1>0, <1>1, <1>2, <1>4, <2>3, <3>1, <3>2
    <3>3. CASE j = i
      BY <1>0, <1>1, <1>2, <1>4, <2>3, <3>1, <3>3
    <3>4. CASE j > i
      <4>1. j - 1 \in 1 .. Len(l) /\ m[j] = l[j - 1] /\ j - 1 < k - 1
        BY <1>0, <1>1, <1>4, <2>3, <3>4
      <4> QED
        BY <1>0, <3>1, <4>1
    <3> QED
      BY <1>1, <3>2, <3>3, <3>4
  <2> QED
    BY <1>1, <2>1, <2>2, <2>3
<1>7. m \in Sides /\ Len(m) = n
  <2> HIDE DEF n
  <2> QED
    BY <1>4, <1>5, <1>6, IsSide
<1>8. \A x : x \in ToSet(m) <=> x = e \/ x \in ToSet(l)
  <2> SUFFICES ASSUME NEW x
               PROVE  x \in ToSet(m) <=> x = e \/ x \in ToSet(l)
    OBVIOUS
  <2>1. ASSUME x \in ToSet(m), x # e
        PROVE  x \in ToSet(l)
    <3>1. PICK k \in 1 .. n : x = m[k]
      BY <1>7, <2>1, InSide
    <3>2. \E j \in 1 .. Len(l) : x = l[j]
      BY <1>0, <1>1, <1>4, <2>1, <3>1
    <3> QED
      BY <3>2, InSide
  <2>2. ASSUME x = e
        PROVE  x \in ToSet(m)
    BY <1>1, <1>4, <1>7, <2>2, InSide
  <2>3. ASSUME x \in ToSet(l)
        PROVE  x \in ToSet(m)
    <3>1. PICK j \in 1 .. Len(l) : x = l[j]
      BY <2>3, InSide
    <3>2. CASE j < i
      <4>1. j \in 1 .. n /\ m[j] = l[j]
        BY <1>0, <1>4, <3>2
      <4> QED
        BY <1>7, <3>1, <4>1, InSide
    <3>3. CASE j >= i
      <4>0. j + 1 \in 1 .. n /\ ~(j + 1 < i) /\ j + 1 # i /\ (j + 1) - 1 = j
        BY <1>0, <1>1, <3>3
      <4>1. j + 1 \in 1 .. n /\ m[j + 1] = l[j]
        <5> HIDE DEF n
        <5> QED
          BY <1>4, <4>0
      <4> QED
        BY <1>7, <3>1, <4>1, InSide
    <3> QED
      BY <1>1, <3>2, <3>3
  <2> QED
    BY <2>1, <2>2, <2>3
<1>9. \A x \in ToSet(l) : x[1] # p
  <2> SUFFICES ASSUME NEW k \in 1 .. Len(l)
               PROVE  l[k][1] # p
    BY InSide
  <2> QED
    BY <1>0, <1>1, <1>2
<1>10. ToSet(m) = Put(ToSet(l), p, v)
  BY <1>8, <1>9 DEF Put, e
<1> QED
  BY <1>3, <1>7, <1>10 DEF e, i, m

\* A level whose price is there gets another volume.
LEMMA ChangeSide ==
  ASSUME NEW l \in Sides, NEW p \in Prices, NEW v \in Volumes \ {0},
         NEW i, i \in 1 .. Len(l), l[i][1] = p,
         NEW e, e = <<p, v>>
  PROVE  /\ Valued(l, i, v) = Changed(l, i, e)
         /\ Changed(l, i, e) \in Sides /\ Len(Changed(l, i, e)) = Len(l)
         /\ ToSet(Changed(l, i, e)) = Put(ToSet(l), p, v)
<1> DEFINE m == Changed(l, i, e)
<1>0. /\ Len(l) \in Nat /\ DOMAIN l = 1 .. Len(l)
      /\ l = [k \in 1 .. Len(l) |-> l[k]]
      /\ \A k \in 1 .. Len(l) : l[k] \in Levels /\ l[k][1] \in Nat
      /\ \A j, k \in 1 .. Len(l) : j < k => l[j][1] < l[k][1]
  BY SideParts
<1>1. e \in Levels /\ e[1] = p
  BY DEF Levels
<1>2. Valued(l, i, v) = m
  <2>1. l[i] = <<l[i][1], l[i][2]>>
    BY <1>0, LevelParts
  <2>2. [l[i] EXCEPT ![2] = v] = e
    BY <2>1
  <2> QED
    BY <1>0, <2>2 DEF Changed, Valued
<1>3. /\ m = [k \in 1 .. Len(l) |-> m[k]]
      /\ \A k \in 1 .. Len(l) : m[k] = IF k = i THEN e ELSE l[k]
  BY DEF Changed
<1> HIDE DEF m
<1>4. \A k \in 1 .. Len(l) : m[k] \in Levels /\ m[k][1] = l[k][1]
  BY <1>0, <1>1, <1>3
<1>5. \A j, k \in 1 .. Len(l) : j < k => m[j][1] < m[k][1]
  BY <1>0, <1>4
<1>6. m \in Sides /\ Len(m) = Len(l)
  BY <1>0, <1>3, <1>4, <1>5, IsSide
<1>7. \A x : x \in ToSet(m) <=> x = e \/ (x \in ToSet(l) /\ x[1] # p)
  <2> SUFFICES ASSUME NEW x
               PROVE  x \in ToSet(m) <=> x = e \/ (x \in ToSet(l) /\ x[1] # p)
    OBVIOUS
  <2>1. ASSUME x \in ToSet(m), x # e
        PROVE  x \in ToSet(l) /\ x[1] # p
    <3>1. PICK k \in 1 .. Len(l) : x = m[k]
      BY <1>6, <2>1, InSide
    <3>2. k # i /\ x = l[k]
      BY <1>3, <2>1, <3>1
    <3>3. l[k][1] # l[i][1]
      BY <1>0, <3>2
    <3> QED
      BY <3>2, <3>3, InSide
  <2>2. ASSUME x = e
        PROVE  x \in ToSet(m)
    BY <1>3, <1>6, <2>2, InSide
  <2>3. ASSUME x \in ToSet(l), x[1] # p
        PROVE  x \in ToSet(m)
    <3>1. PICK k \in 1 .. Len(l) : x = l[k]
      BY <2>3, InSide
    <3>2. m[k] = x
      BY <1>3, <2>3, <3>1
    <3> QED
      BY <1>6, <3>2, InSide
  <2> QED
    BY <2>1, <2>2, <2>3
<1>8. ToSet(m) = Put(ToSet(l), p, v)
  BY <1>7 DEF Put
<1> QED
  BY <1>2, <1>6, <1>8 DEF m

\* An insertion keeps a side sorted and does to its levels what it should.
LEMMA VecInsertSide ==
  ASSUME NEW l \in Sides, NEW p \in Prices, NEW v \in Volumes
  PROVE  /\ VecInsert(l, p, v) \in Sides
         /\ ToSet(VecInsert(l, p, v)) = Put(ToSet(l), p, v)
<1> DEFINE i == PartitionPoint(l, p)
<1>1. CASE v = 0
  BY <1>1, RemoveSide DEF VecInsert, Put
<1>2. CASE v # 0 /\ IsAt(l, p, i)
  <2>1. VecInsert(l, p, v) = Valued(l, i, v)
    BY <1>2 DEF VecInsert, Valued
  <2>2. i \in 1 .. Len(l) /\ l[i][1] = p
    BY <1>2, SideParts DEF IsAt
  <2>3. v \in Volumes \ {0}
    BY <1>2
  <2> HIDE DEF i
  <2>4. VecInsert(l, p, v) = Changed(l, i, <<p, v>>)
    BY <2>1, <2>2, <2>3, ChangeSide
  <2> QED
    BY <2>2, <2>3, <2>4, ChangeSide
<1>3. CASE v # 0 /\ ~IsAt(l, p, i)
  <2>1. VecInsert(l, p, v) = InsertAt(l, i, <<p, v>>)
    BY <1>3 DEF VecInsert
  <2> QED
    BY <1>3, <2>1, WidenSide
<1> QED
  BY <1>1, <1>2, <1>3

-----------------------------------------------------------------------------
(* The bounded vector is the beginning of a side. *)

Low(l) == IterFromFirst(l, Depth)

LEMMA LowParts ==
  ASSUME NEW l \in Sides
  PROVE  /\ Low(l) \in Sides
         /\ Len(Low(l)) = IF Len(l) <= Depth THEN Len(l) ELSE Depth
         /\ \A k \in 1 .. Len(Low(l)) : Low(l)[k] = l[k]
         /\ Len(l) <= Depth => Low(l) = l
         /\ ToSet(Low(l)) \subseteq ToSet(l)
<1> DEFINE n == IF Len(l) <= Depth THEN Len(l) ELSE Depth
           m == Low(l)
<1>0. /\ Len(l) \in Nat /\ Depth \in Nat /\ Depth >= 1 /\ l \in Seq(Levels)
      /\ l = [k \in 1 .. Len(l) |-> l[k]]
      /\ \A k \in 1 .. Len(l) : l[k] \in Levels
      /\ \A j, k \in 1 .. Len(l) : j < k => l[j][1] < l[k][1]
  BY SideParts, LevelAssumption DEF Sides
<1>1. n \in Nat /\ n <= Len(l)
  BY <1>0
<1>2. Min({Depth, Len(l)}) = n
  <2>1. n \in {Depth, Len(l)} /\ \A y \in {Depth, Len(l)} : n <= y
    BY <1>0
  <2>2. \A x \in {Depth, Len(l)} : (\A y \in {Depth, Len(l)} : x <= y) => x = n
    BY <1>0
  <2> HIDE DEF n
  <2> QED
    BY <2>1, <2>2 DEF Min
<1>3. m = SubSeq(l, 1, n)
  BY <1>2 DEF Low, IterFromFirst
<1> HIDE DEF n
<1>4. m = [k \in 1 .. n |-> m[k]] /\ \A k \in 1 .. n : m[k] = l[k]
  BY <1>0, <1>1, <1>3
<1> HIDE DEF m
<1>5. m \in Sides /\ Len(m) = n
  <2>1. \A k \in 1 .. n : m[k] \in Levels
    BY <1>0, <1>1, <1>4
  <2>2. \A j, k \in 1 .. n : j < k => m[j][1] < m[k][1]
    BY <1>0, <1>1, <1>4
  <2> QED
    BY <1>1, <1>4, <2>1, <2>2, IsSide
<1>6. Len(l) <= Depth => m = l
  <2>1. Len(l) <= Depth => n = Len(l)
    BY DEF n
  <2> QED
    BY <1>0, <1>4, <2>1
<1>7. ToSet(m) \subseteq ToSet(l)
  <2> SUFFICES ASSUME NEW x \in ToSet(m)
               PROVE  x \in ToSet(l)
    OBVIOUS
  <2>1. PICK k \in 1 .. n : x = m[k]
    BY <1>5, InSide
  <2>2. k \in 1 .. Len(l) /\ x = l[k]
    BY <1>0, <1>1, <1>4, <2>1
  <2> QED
    BY <2>2, InSide
<1> QED
  BY <1>4, <1>5, <1>6, <1>7 DEF m, n

LEMMA LowFits ==
  ASSUME NEW l \in Sides
  PROVE  Low(l) \in Sides /\ Len(Low(l)) <= Depth /\ ToSet(Low(l)) \subseteq ToSet(l)
<1>1. Len(l) \in Nat /\ Depth \in Nat /\ Len(Low(l)) = IF Len(l) <= Depth THEN Len(l) ELSE Depth
  BY SideParts, LowParts, LevelAssumption
<1>2. Len(Low(l)) <= Depth
  BY <1>1
<1> QED
  BY <1>2, LowParts

\* What is the beginning of a side.
LEMMA IsLow ==
  ASSUME NEW l \in Sides, NEW m, m = [k \in 1 .. Len(m) |-> m[k]],
         Len(m) = IF Len(l) <= Depth THEN Len(l) ELSE Depth,
         \A k \in 1 .. Len(m) : m[k] = l[k]
  PROVE  m = Low(l)
<1>1. Low(l) = [k \in 1 .. Len(Low(l)) |-> Low(l)[k]]
  BY LowParts, SideParts
<1>2. Len(Low(l)) = Len(m) /\ \A k \in 1 .. Len(m) : Low(l)[k] = m[k]
  BY LowParts
<1> QED
  BY <1>1, <1>2

\* Putting a level into the beginning of a side gives the beginning of what putting it
\* into the side gives, as long as it is not to be taken out.
LEMMA TopInsertBegins ==
  ASSUME NEW l \in Sides, NEW p \in Prices, NEW v \in Volumes \ {0}
  PROVE  TopInsert(Low(l), p, v) = Low(VecInsert(l, p, v))
<1> DEFINE t == Low(l)
           i == PartitionPoint(l, p)
           j == PartitionPoint(t, p)
           e == <<p, v>>
           D == Depth
<1>0. /\ Len(l) \in Nat /\ DOMAIN l = 1 .. Len(l) /\ D \in Nat /\ D >= 1
      /\ \A k \in 1 .. Len(l) : l[k] \in Levels /\ l[k][1] \in Nat
      /\ \A a, b \in 1 .. Len(l) : a < b => l[a][1] < l[b][1]
      /\ e \in Levels /\ p \in Nat
  BY SideParts, LevelAssumption DEF Levels
<1>1. /\ t \in Sides /\ Len(t) \in Nat /\ DOMAIN t = 1 .. Len(t)
      /\ Len(t) = IF Len(l) <= D THEN Len(l) ELSE D
      /\ \A k \in 1 .. Len(t) : t[k] = l[k]
      /\ Len(l) <= D => t = l
  <2>1. t \in Sides
    BY LowParts
  <2> QED
    BY <2>1, LowParts, SideParts
<1>2. /\ i \in 1 .. Len(l) + 1
      /\ \A k \in 1 .. Len(l) : k < i => l[k][1] < p
      /\ \A k \in 1 .. Len(l) : k >= i => l[k][1] >= p
  BY PlaceFound
<1>3. /\ j \in 1 .. Len(t) + 1
      /\ \A k \in 1 .. Len(t) : k < j => t[k][1] < p
      /\ \A k \in 1 .. Len(t) : k >= j => t[k][1] >= p
  <2> HIDE DEF t
  <2> QED
    BY <1>1, PlaceFound
<1>4. VecInsert(l, p, v) = IF IsAt(l, p, i) THEN Valued(l, i, v) ELSE InsertAt(l, i, e)
  BY DEF VecInsert, Valued
<1>5. TopInsert(t, p, v) = IF IsAt(t, p, j) THEN Valued(t, j, v)
                           ELSE IF Len(t) < D THEN InsertAt(t, j, e)
                           ELSE IF p < Last(t)[1] THEN InsertAt(Front(t), j, e)
                           ELSE t
  BY DEF TopInsert, Valued
<1> DEFINE w == VecInsert(l, p, v)
           u == TopInsert(t, p, v)
<1>6. w \in Sides
  BY VecInsertSide
<1>7. i <= Len(t) \/ j <= Len(t) => i = j
  <2> HIDE DEF i, j, t
  <2>1. \A k \in 1 .. Len(t) : k \in 1 .. Len(l)
    BY <1>0, <1>1
  <2>2. \A k \in 1 .. Len(t) : l[k][1] >= p <=> k >= i
    BY <1>0, <1>2, <2>1
  <2>3. \A k \in 1 .. Len(t) : l[k][1] >= p <=> k >= j
    BY <1>0, <1>1, <1>3, <2>1
  <2> QED
    BY <1>0, <1>1, <1>2, <1>3, <2>2, <2>3
<1> HIDE DEF t, i, j, e, D
<1>8. CASE IsAt(l, p, i) /\ i <= Len(t)
  <2>1. i \in 1 .. Len(l) /\ l[i][1] = p /\ i \in 1 .. Len(t) /\ t[i][1] = p /\ j = i
    BY <1>0, <1>1, <1>2, <1>7, <1>8 DEF IsAt
  <2>2. w = Changed(l, i, <<p, v>>) /\ Len(w) = Len(l)
    <3>1. w = Valued(l, i, v)
      BY <1>4, <1>8
    <3> HIDE DEF w
    <3> QED
      BY <2>1, <3>1, ChangeSide
  <2>3. u = Valued(t, i, v)
    BY <1>1, <1>5, <2>1 DEF IsAt
  <2> HIDE DEF w, u
  <2>4. u = Changed(t, i, <<p, v>>) /\ Len(u) = Len(t)
    BY <1>1, <2>1, <2>3, ChangeSide
  <2>5. \A k \in 1 .. Len(u) : u[k] = w[k]
    BY <1>0, <1>1, <2>2, <2>4 DEF Changed
  <2>6. u = [k \in 1 .. Len(u) |-> u[k]]
    BY <2>4 DEF Changed
  <2>7. Len(u) = IF Len(w) <= Depth THEN Len(w) ELSE Depth
    BY <1>1, <2>2, <2>4 DEF D
  <2>8. u = Low(w)
    BY <1>6, <2>5, <2>6, <2>7, IsLow DEF w
  <2> QED
    BY <2>8 DEF u, w, t
<1>9. CASE IsAt(l, p, i) /\ i > Len(t)
  <2>1. i \in 1 .. Len(l) /\ l[i][1] = p
    BY <1>0, <1>9 DEF IsAt
  <2>2. Len(t) = D /\ Len(l) > D /\ l[D][1] < p /\ D \in 1 .. Len(t) /\ t[D] = l[D]
    <3>1. Len(l) > D /\ Len(t) = D
      <4>1. CASE Len(l) <= D
        <5>1. Len(t) = Len(l)
          BY <1>1, <4>1
        <5> QED
          <6>1. i > Len(l) /\ i \in 1 .. Len(l)
            BY <1>9, <2>1, <5>1
          <6> QED
            BY <1>0, <6>1
      <4>2. CASE ~(Len(l) <= D)
        <5>1. Len(t) = D
          BY <1>1, <4>2
        <5> QED
          BY <1>0, <4>2, <5>1
      <4> QED
        BY <4>1, <4>2
    <3>2. D \in 1 .. Len(t) /\ D \in 1 .. Len(l) /\ D < i
      BY <1>0, <1>9, <2>1, <3>1
    <3> QED
      BY <1>1, <1>2, <3>1, <3>2
  <2>3. ~IsAt(t, p, j)
    <3> SUFFICES ASSUME j \in 1 .. Len(t), t[j][1] = p
                 PROVE  FALSE
      BY <1>1 DEF IsAt
    <3> QED
      BY <1>7, <1>9, <2>2, <1>1
  <2>4. u = t
    <3>1. Last(t) = t[D]
      BY <2>2 DEF Last
    <3> QED
      BY <1>0, <1>5, <2>2, <2>3, <3>1
  <2>5. w = Changed(l, i, <<p, v>>) /\ Len(w) = Len(l)
    <3>1. w = Valued(l, i, v)
      BY <1>4, <1>9
    <3> HIDE DEF w
    <3> QED
      BY <2>1, <3>1, ChangeSide
  <2> HIDE DEF w, u
  <2>6. \A k \in 1 .. Len(t) : t[k] = w[k]
    BY <1>0, <1>1, <1>9, <2>1, <2>5 DEF Changed
  <2>7. t = [k \in 1 .. Len(t) |-> t[k]]
    BY <1>1, SideParts
  <2>8. Len(t) = IF Len(w) <= Depth THEN Len(w) ELSE Depth
    BY <1>1, <2>5 DEF D
  <2>9. t = Low(w)
    BY <1>6, <2>6, <2>7, <2>8, IsLow DEF w
  <2> QED
    BY <2>4, <2>9 DEF u, w, t
<1>10. ASSUME ~IsAt(l, p, i)
       PROVE  /\ ~IsAt(t, p, j)
              /\ w = Widened(l, i, e) /\ Len(w) = Len(l) + 1
              /\ w = [k \in 1 .. Len(l) + 1 |-> w[k]]
              /\ \A k \in 1 .. Len(l) + 1 :
                   w[k] = IF k < i THEN l[k] ELSE IF k = i THEN e ELSE l[k - 1]
  <2>1. ~IsAt(t, p, j)
    <3> SUFFICES ASSUME j \in 1 .. Len(t), t[j][1] = p
                 PROVE  FALSE
      BY <1>1 DEF IsAt
    <3>1. i = j /\ i \in 1 .. Len(l) /\ l[i][1] = p
      BY <1>0, <1>1, <1>7
    <3> QED
      BY <1>0, <1>10, <3>1 DEF IsAt
  <2>2. w = Widened(l, i, e) /\ Len(w) = Len(l) + 1
    BY <1>4, <1>10, WidenSide DEF i, e
  <2> HIDE DEF w
  <2> QED
    BY <2>1, <2>2 DEF Widened
<1>11. CASE ~IsAt(l, p, i) /\ Len(l) < D
  <2>1. t = l /\ j = i
    BY <1>0, <1>1, <1>11 DEF i, j
  <2>2. u = w
    BY <1>4, <1>5, <1>11, <2>1
  <2>3. Len(w) <= D
    BY <1>0, <1>10, <1>11
  <2>4. Low(w) = w
    BY <1>6, <2>3, LowParts DEF D
  <2> QED
    BY <2>2, <2>4 DEF t, u, w
<1>12. CASE ~IsAt(l, p, i) /\ Len(l) >= D
  <2>1. Len(t) = D /\ D \in 1 .. Len(l) /\ t[D] = l[D] /\ Last(t) = l[D]
    <3>1. Len(t) = D
      <4>1. Len(l) \in Nat /\ D \in Nat /\ Len(l) >= D
        BY <1>0, <1>12
      <4>2. Len(t) = IF Len(l) <= D THEN Len(l) ELSE D
        BY <1>1
      <4> HIDE DEF t, D
      <4> QED
        BY <4>1, <4>2
    <3>2. D \in 1 .. Len(l) /\ D \in 1 .. Len(t)
      BY <1>0, <1>12, <3>1
    <3>3. t[D] = l[D]
      BY <1>1, <3>2
    <3> QED
      BY <3>1, <3>2, <3>3 DEF Last
  <2>2. u = IF p < l[D][1] THEN InsertAt(Front(t), j, e) ELSE t
    BY <1>0, <1>5, <1>10, <1>12, <2>1
  <2>3. CASE p < l[D][1]
    <3>1. i <= D /\ j = i
      BY <1>0, <1>2, <1>7, <2>1, <2>3
    <3> DEFINE f == Front(t)
    <3>2. f \in Seq(Levels) /\ Len(f) = D - 1 /\ \A k \in 1 .. D - 1 : f[k] = t[k]
      <4>1. t \in Seq(Levels)
        BY <1>1 DEF Sides
      <4> QED
        BY <1>0, <2>1, <4>1 DEF Front
    <3> HIDE DEF f
    <3>3. i \in 1 .. Len(f) + 1
      BY <1>0, <1>2, <3>1, <3>2
    <3>4. u = Widened(f, i, e)
      <4>1. u = InsertAt(f, i, e)
        BY <2>2, <2>3, <3>1 DEF f
      <4> QED
        BY <1>0, <3>2, <3>3, <4>1, InsertWidens
    <3> HIDE DEF u, w
    <3>5. /\ u = [k \in 1 .. D |-> u[k]]
          /\ \A k \in 1 .. D : u[k] = IF k < i THEN f[k] ELSE IF k = i THEN e ELSE f[k - 1]
      <4>1. Len(f) + 1 = D
        BY <1>0, <3>2
      <4> QED
        BY <3>4, <4>1 DEF Widened
    <3>6. Len(u) = D
      BY <1>0, <3>5
    <3>7. \A k \in 1 .. D : u[k] = w[k]
      <4> SUFFICES ASSUME NEW k \in 1 .. D
                   PROVE  u[k] = w[k]
        OBVIOUS
      <4>1. k \in 1 .. Len(l) + 1 /\ k \in 1 .. Len(t)
        BY <1>0, <2>1
      <4>2. CASE k < i
        <5>1. k \in 1 .. D - 1
          BY <1>0, <1>2, <3>1, <4>2
        <5> QED
          BY <1>1, <1>10, <1>12, <3>2, <3>5, <4>1, <4>2, <5>1
      <4>3. CASE k = i
        BY <1>2, <1>10, <1>12, <3>5, <4>1, <4>3
      <4>4. CASE k > i
        <5>1. k - 1 \in 1 .. D - 1 /\ k - 1 \in 1 .. Len(t)
          BY <1>0, <1>2, <2>1, <4>4
        <5> QED
          BY <1>1, <1>2, <1>10, <1>12, <3>2, <3>5, <4>1, <4>4, <5>1
      <4> QED
        BY <1>2, <4>2, <4>3, <4>4
    <3>8. Len(w) > D
      BY <1>0, <1>10, <1>12
    <3>9. u = Low(w)
      <4>1. Len(u) = IF Len(w) <= Depth THEN Len(w) ELSE Depth
        BY <1>0, <1>10, <1>12, <3>6, <3>8 DEF D
      <4> QED
        BY <1>6, <3>5, <3>6, <3>7, <4>1, IsLow DEF w
    <3> QED
      BY <3>9 DEF u, w, t
  <2>4. CASE ~(p < l[D][1])
    <3>1. u = t
      BY <2>2, <2>4
    <3>2. i > D
      <4> SUFFICES ASSUME i <= D
                   PROVE  FALSE
        BY <1>0, <1>2
      <4>1. i \in 1 .. Len(l) /\ l[i][1] >= p /\ (i = D \/ l[i][1] < l[D][1])
        BY <1>0, <1>2, <2>1
      <4>2. l[i][1] = p
        BY <1>0, <2>1, <2>4, <4>1
      <4> QED
        BY <1>0, <1>12, <4>1, <4>2 DEF IsAt
    <3> HIDE DEF u, w
    <3>3. \A k \in 1 .. Len(t) : t[k] = w[k]
      BY <1>0, <1>1, <1>2, <1>10, <1>12, <2>1, <3>2
    <3>4. t = [k \in 1 .. Len(t) |-> t[k]]
      BY <1>1, SideParts
    <3>5. Len(t) = IF Len(w) <= Depth THEN Len(w) ELSE Depth
      BY <1>0, <1>10, <1>12, <2>1 DEF D
    <3>6. t = Low(w)
      BY <1>6, <3>3, <3>4, <3>5, IsLow DEF w
    <3> QED
      BY <3>1, <3>6 DEF u, w, t
  <2> QED
    BY <2>3, <2>4
<1> QED
  BY <1>0, <1>1, <1>2, <1>8, <1>9, <1>11, <1>12

-----------------------------------------------------------------------------
(* Levels one after the other. *)

\* What is computed step by step exists.
Runs(S, m, base, g) ==
  {f \in [0 .. m -> S] : f[0] = base /\ \A k \in 1 .. m : f[k] = g[<<f[k - 1], k>>]}

LEMMA RunExists ==
  ASSUME NEW S, NEW n \in Nat, NEW base \in S, NEW g,
         \A x \in S, k \in 1 .. n : g[<<x, k>>] \in S
  PROVE  Runs(S, n, base, g) # {}
<1> DEFINE Bad == {m \in 0 .. n : Runs(S, m, base, g) = {}}
<1>1. ASSUME Bad # {}
      PROVE  FALSE
  <2>1. PICK m \in Bad : \A i \in 0 .. n : i < m => i \notin Bad
    <3>1. Bad \in SUBSET (0 .. n)
      OBVIOUS
    <3> HIDE DEF Bad
    <3> QED
      BY <1>1, <3>1, LeastFailure
  <2>2. m # 0
    <3>1. [k \in 0 .. 0 |-> base] \in Runs(S, 0, base, g)
      BY DEF Runs
    <3> QED
      BY <2>1, <3>1
  <2>3. m \in 1 .. n /\ Runs(S, m - 1, base, g) # {}
    <3>1. m \in 1 .. n /\ m - 1 \in 0 .. n /\ m - 1 < m
      BY <2>1, <2>2
    <3> QED
      BY <2>1, <3>1
  <2>4. PICK f : f \in Runs(S, m - 1, base, g)
    BY <2>3
  <2> DEFINE h == [k \in 0 .. m |-> IF k = m THEN g[<<f[m - 1], m>>] ELSE f[k]]
  <2>5. g[<<f[m - 1], m>>] \in S
    <3>1. f[m - 1] \in S
      BY <2>3, <2>4 DEF Runs
    <3> QED
      BY <2>3, <3>1
  <2>6. h \in [0 .. m -> S]
    BY <2>3, <2>4, <2>5 DEF Runs
  <2>7. h[0] = base /\ \A k \in 1 .. m : h[k] = g[<<h[k - 1], k>>]
    <3>1. \A k \in 0 .. m : h[k] = IF k = m THEN g[<<f[m - 1], m>>] ELSE f[k]
      OBVIOUS
    <3> HIDE DEF h
    <3>2. m \in Nat /\ 0 # m /\ 0 \in 0 .. m /\ m \in 0 .. m /\ m - 1 \in 0 .. m /\ m - 1 # m
      BY <2>3
    <3>3. h[0] = f[0] /\ h[m] = g[<<f[m - 1], m>>] /\ h[m - 1] = f[m - 1]
      BY <3>1, <3>2
    <3>4. \A k \in 1 .. m - 1 : k # m /\ k - 1 # m /\ k \in 0 .. m /\ k - 1 \in 0 .. m
      BY <2>3
    <3>5. \A k \in 1 .. m - 1 : h[k] = g[<<h[k - 1], k>>]
      <4>1. \A k \in 1 .. m - 1 : h[k] = f[k] /\ h[k - 1] = f[k - 1]
        BY <3>1, <3>4
      <4>2. \A k \in 1 .. m - 1 : f[k] = g[<<f[k - 1], k>>]
        BY <2>4 DEF Runs
      <4> QED
        BY <4>1, <4>2
    <3>6. \A k \in 1 .. m : k = m \/ k \in 1 .. m - 1
      BY <2>3
    <3> QED
      BY <2>4, <3>3, <3>5, <3>6 DEF Runs
  <2>8. h \in Runs(S, m, base, g)
    BY <2>6, <2>7 DEF Runs
  <2> QED
    BY <2>1, <2>8
<1>2. n \in 0 .. n
  OBVIOUS
<1> QED
  BY <1>1, <1>2

\* The levels of a side after k more of them were inserted: of each price the last one,
\* and of the others what was there.
HasAfter(l, more, k, x) ==
  \/ x \in ToSet(l) /\ \A j \in 1 .. k : more[j][1] # x[1]
  \/ \E j \in 1 .. k : x = more[j] /\ \A i \in 1 .. k : j < i => more[i][1] # x[1]

LEMMA InsertRuns ==
  ASSUME NEW l \in Sides, NEW more \in Seq(Levels)
  PROVE  LET u == InsertedUpTo(l, more) IN
         /\ u[0] = l
         /\ \A k \in 1 .. Len(more) : u[k] = VecInsert(u[k - 1], more[k][1], more[k][2])
         /\ \A k \in 0 .. Len(more) : u[k] \in Sides
<1> DEFINE n == Len(more)
           g == [x \in Sides \X (1 .. n) |-> VecInsert(x[1], more[x[2]][1], more[x[2]][2])]
           IsRun(f) == f = [k \in 0 .. n |->
                              IF k = 0 THEN l
                              ELSE VecInsert(f[k - 1], more[k][1], more[k][2])]
<1>1. n \in Nat /\ \A k \in 1 .. n : more[k][1] \in Prices /\ more[k][2] \in Volumes
  <2>1. n \in Nat /\ \A k \in 1 .. n : more[k] \in Levels
    OBVIOUS
  <2> QED
    BY <2>1, LevelParts
<1>2. \A x \in Sides, k \in 1 .. n :
        VecInsert(x, more[k][1], more[k][2]) \in Sides
  BY <1>1, VecInsertSide
<1>4. \A x \in Sides, k \in 1 .. n : g[<<x, k>>] = VecInsert(x, more[k][1], more[k][2])
  OBVIOUS
<1> HIDE DEF g
<1>3. \A x \in Sides, k \in 1 .. n : g[<<x, k>>] \in Sides
  BY <1>2, <1>4
<1>0. PICK f : f \in Runs(Sides, n, l, g)
  <2> HIDE DEF n
  <2> QED
    BY <1>1, <1>3, RunExists
<1>5. f \in [0 .. n -> Sides] /\ f[0] = l /\ \A k \in 1 .. n : f[k] = g[<<f[k - 1], k>>]
  BY <1>0 DEF Runs
<1>6. IsRun(f)
  <2>1. \A k \in 0 .. n : k = 0 \/ (k \in 1 .. n /\ k - 1 \in 0 .. n)
    BY <1>1
  <2>2. \A k \in 0 .. n : f[k] = IF k = 0 THEN l ELSE VecInsert(f[k - 1], more[k][1], more[k][2])
    BY <1>4, <1>5, <2>1
  <2> QED
    BY <1>5, <2>2
<1>7. InsertedUpTo(l, more) = CHOOSE h : IsRun(h)
  BY DEF InsertedUpTo
<1> DEFINE u == InsertedUpTo(l, more)
<1>8. IsRun(u)
  <2> HIDE DEF IsRun
  <2> QED
    BY <1>6, <1>7
<1> HIDE DEF u
<1>9. \A k \in 0 .. n : u[k] = IF k = 0 THEN l ELSE VecInsert(u[k - 1], more[k][1], more[k][2])
  BY <1>8
<1>10. u[0] = l /\ \A k \in 1 .. n : u[k] = VecInsert(u[k - 1], more[k][1], more[k][2])
  BY <1>1, <1>9
<1>11. \A k \in 0 .. n : u[k] \in Sides
  <2> DEFINE Odd == {k \in 0 .. n : u[k] \notin Sides}
  <2> SUFFICES ASSUME Odd # {}
               PROVE  FALSE
    OBVIOUS
  <2>1. PICK k \in Odd : \A i \in 0 .. n : i < k => i \notin Odd
    <3>1. Odd \in SUBSET (0 .. n)
      OBVIOUS
    <3> HIDE DEF Odd
    <3> QED
      BY <1>1, <3>1, LeastFailure
  <2>2. k # 0
    BY <1>10, <2>1
  <2>3. k \in 1 .. n /\ k - 1 \in 0 .. n /\ k - 1 < k
    BY <1>1, <2>1, <2>2
  <2>4. u[k - 1] \in Sides
    BY <2>1, <2>3
  <2> QED
    BY <1>2, <1>10, <2>1, <2>3, <2>4
<1> QED
  BY <1>10, <1>11 DEF u

LEMMA InsertedLevels ==
  ASSUME NEW l \in Sides, NEW more \in Seq(Levels), NEW k \in 0 .. Len(more), NEW x
  PROVE  x \in ToSet(InsertedUpTo(l, more)[k]) <=> HasAfter(l, more, k, x)
<1> DEFINE n == Len(more)
           u == InsertedUpTo(l, more)
           Odd == {m \in 0 .. n : ~(x \in ToSet(u[m]) <=> HasAfter(l, more, m, x))}
<1>1. /\ u[0] = l
      /\ \A m \in 1 .. n : u[m] = VecInsert(u[m - 1], more[m][1], more[m][2])
      /\ \A m \in 0 .. n : u[m] \in Sides
  BY InsertRuns
<1>2. n \in Nat /\ \A m \in 1 .. n : more[m] \in Levels
  OBVIOUS
<1> HIDE DEF u
<1> SUFFICES ASSUME Odd # {}
             PROVE  FALSE
  BY DEF u
<1>3. PICK m \in Odd : \A i \in 0 .. n : i < m => i \notin Odd
  <2>1. Odd \in SUBSET (0 .. n)
    OBVIOUS
  <2> HIDE DEF Odd
  <2> QED
    BY <1>2, <2>1, LeastFailure
<1>4. m # 0
  <2>1. x \in ToSet(u[0]) <=> HasAfter(l, more, 0, x)
    BY <1>1 DEF HasAfter
  <2> QED
    BY <1>3, <2>1
<1>5. m \in 1 .. n /\ m - 1 \in 0 .. n /\ m - 1 < m
  BY <1>2, <1>3, <1>4
<1> DEFINE e == more[m]
<1>6. x \in ToSet(u[m - 1]) <=> HasAfter(l, more, m - 1, x)
  BY <1>3, <1>5
<1>7. /\ e = <<e[1], e[2]>> /\ e[1] \in Prices /\ e[2] \in Volumes /\ e[2] # 0
  BY <1>2, <1>5, LevelParts
<1>8. ToSet(u[m]) = Put(ToSet(u[m - 1]), e[1], e[2])
  BY <1>1, <1>5, <1>7, VecInsertSide
<1>9. x \in ToSet(u[m]) <=> (x \in ToSet(u[m - 1]) /\ x[1] # e[1]) \/ x = e
  BY <1>7, <1>8 DEF Put
<1>10. HasAfter(l, more, m, x) <=> (HasAfter(l, more, m - 1, x) /\ x[1] # e[1]) \/ x = e
  <2>1. \A j : j \in 1 .. m <=> j \in 1 .. m - 1 \/ j = m
    BY <1>5
  <2>2. \A j \in 1 .. m - 1 : j < m /\ ~(m < j)
    BY <1>5
  <2>3. ~(m < m)
    BY <1>5
  <2> HIDE DEF e
  <2>4. e = more[m]
    BY DEF e
  <2> QED
    BY <2>1, <2>2, <2>3, <2>4 DEF HasAfter
<1> QED
  BY <1>3, <1>6, <1>9, <1>10

\* What is inserted into a bounded vector level by level is the beginning of what is
\* inserted into the side it is the beginning of.
LEMMA TopRuns ==
  ASSUME NEW l \in Sides, NEW more \in Seq(Levels)
  PROVE  TopInsertAll(Low(l), more) = Low(InsertAll(l, more))
<1> DEFINE n == Len(more)
           u == InsertedUpTo(l, more)
           v == TopInsertedUpTo(Low(l), more)
           f == [k \in 0 .. n |-> Low(u[k])]
           IsRun(h) == h = [k \in 0 .. n |->
                              IF k = 0 THEN Low(l)
                              ELSE TopInsert(h[k - 1], more[k][1], more[k][2])]
<1>1. /\ u[0] = l
      /\ \A k \in 1 .. n : u[k] = VecInsert(u[k - 1], more[k][1], more[k][2])
      /\ \A k \in 0 .. n : u[k] \in Sides
  BY InsertRuns
<1>2. /\ n \in Nat
      /\ \A k \in 1 .. n : more[k][1] \in Prices /\ more[k][2] \in Volumes \ {0}
  <2>1. n \in Nat /\ \A k \in 1 .. n : more[k] \in Levels
    OBVIOUS
  <2> QED
    BY <2>1, LevelParts
<1> HIDE DEF u
<1>3. \A k \in 1 .. n : Low(u[k]) = TopInsert(Low(u[k - 1]), more[k][1], more[k][2])
  <2> SUFFICES ASSUME NEW k \in 1 .. n
               PROVE  Low(u[k]) = TopInsert(Low(u[k - 1]), more[k][1], more[k][2])
    OBVIOUS
  <2>1. u[k - 1] \in Sides
    BY <1>1, <1>2
  <2>2. TopInsert(Low(u[k - 1]), more[k][1], more[k][2])
          = Low(VecInsert(u[k - 1], more[k][1], more[k][2]))
    BY <1>2, <2>1, TopInsertBegins
  <2> QED
    BY <1>1, <2>2
<1>4. IsRun(f)
  <2>1. \A k \in 0 .. n : k = 0 \/ (k \in 1 .. n /\ k - 1 \in 0 .. n)
    BY <1>2
  <2>2. \A k \in 0 .. n : f[k] = Low(u[k])
    OBVIOUS
  <2>3. f = [k \in 0 .. n |-> f[k]]
    OBVIOUS
  <2> HIDE DEF f
  <2>4. \A k \in 0 .. n : f[k] = IF k = 0 THEN Low(l)
                                 ELSE TopInsert(f[k - 1], more[k][1], more[k][2])
    BY <1>1, <1>3, <2>1, <2>2
  <2> QED
    BY <2>3, <2>4
<1>5. v = CHOOSE h : IsRun(h)
  BY DEF TopInsertedUpTo
<1> HIDE DEF v
<1>6. IsRun(v)
  <2> HIDE DEF IsRun
  <2> QED
    BY <1>4, <1>5
<1>7. \A k \in 0 .. n : v[k] = IF k = 0 THEN Low(l)
                               ELSE TopInsert(v[k - 1], more[k][1], more[k][2])
  BY <1>6
<1>8. \A k \in 0 .. n : v[k] = Low(u[k])
  <2> DEFINE Odd == {k \in 0 .. n : v[k] # Low(u[k])}
  <2> SUFFICES ASSUME Odd # {}
               PROVE  FALSE
    OBVIOUS
  <2>1. PICK k \in Odd : \A i \in 0 .. n : i < k => i \notin Odd
    <3>1. Odd \in SUBSET (0 .. n)
      OBVIOUS
    <3> HIDE DEF Odd
    <3> QED
      BY <1>2, <3>1, LeastFailure
  <2>2. k # 0
    BY <1>1, <1>7, <2>1
  <2>3. k \in 1 .. n /\ k - 1 \in 0 .. n /\ k - 1 < k
    BY <1>2, <2>1, <2>2
  <2>4. v[k - 1] = Low(u[k - 1])
    BY <2>1, <2>3
  <2>5. v[k] = TopInsert(v[k - 1], more[k][1], more[k][2])
    BY <1>7, <2>1, <2>2
  <2> QED
    BY <1>3, <2>1, <2>3, <2>4, <2>5
<1> QED
  <2>1. n \in 0 .. n
    BY <1>2
  <2> QED
    BY <1>8, <2>1 DEF u, v, TopInsertAll, InsertAll

LEMMA InsertAllSide ==
  ASSUME NEW l \in Sides, NEW more \in Seq(Levels)
  PROVE  /\ InsertAll(l, more) \in Sides
         /\ \A x : x \in ToSet(InsertAll(l, more)) <=> HasAfter(l, more, Len(more), x)
<1>1. Len(more) \in 0 .. Len(more)
  OBVIOUS
<1> QED
  BY <1>1, InsertRuns, InsertedLevels DEF InsertAll

\* Another side is put into a side, in an order of its own: its levels are there, and those
\* of other prices.
LEMMA MergedSide ==
  ASSUME NEW l \in Sides, NEW o \in Sides, NEW more \in Seq(Levels),
         ToSet(more) = ToSet(o), OnePerPrice(more)
  PROVE  /\ InsertAll(l, more) \in Sides
         /\ \A x : x \in ToSet(InsertAll(l, more)) <=>
                     \/ x \in ToSet(o)
                     \/ x \in ToSet(l) /\ \A y \in ToSet(o) : y[1] # x[1]
<1> DEFINE n == Len(more)
<1>2. n \in Nat /\ DOMAIN more = 1 .. n
  OBVIOUS
<1>1. \A x : x \in ToSet(o) <=> \E k \in 1 .. n : x = more[k]
  <2>1. ToSet(o) = {more[k] : k \in DOMAIN more}
    BY DEF ToSet
  <2> QED
    BY <1>2, <2>1
<1>3. \A j, k \in 1 .. n : j < k => more[k][1] # more[j][1]
  <2> SUFFICES ASSUME NEW j \in 1 .. n, NEW k \in 1 .. n, j < k, more[k][1] = more[j][1]
               PROVE  FALSE
    OBVIOUS
  <2>1. k = j
    BY DEF OnePerPrice
  <2> QED
    BY <2>1
<1>4. ASSUME NEW x
      PROVE  HasAfter(l, more, n, x) <=>
               \/ x \in ToSet(o)
               \/ x \in ToSet(l) /\ \A y \in ToSet(o) : y[1] # x[1]
  <2>1. (\E j \in 1 .. n : x = more[j] /\ \A i \in 1 .. n : j < i => more[i][1] # x[1])
          <=> x \in ToSet(o)
    BY <1>1, <1>3
  <2>2. (\A j \in 1 .. n : more[j][1] # x[1]) <=> \A y \in ToSet(o) : y[1] # x[1]
    BY <1>1
  <2> QED
    BY <2>1, <2>2 DEF HasAfter
<1> QED
  BY <1>4, InsertAllSide

LEMMA SideOrders ==
  ASSUME NEW l \in Sides
  PROVE  /\ l \in Seq(Levels) /\ OnePerPrice(l)
         /\ Reverse(l) \in Seq(Levels) /\ OnePerPrice(Reverse(l))
         /\ ToSet(Reverse(l)) = ToSet(l)
<1> DEFINE n == Len(l)
           m == Reverse(l)
<1>0. /\ n \in Nat /\ l \in Seq(Levels)
      /\ \A k \in 1 .. n : l[k] \in Levels /\ l[k][1] \in Nat
      /\ \A j, k \in 1 .. n : j < k => l[j][1] < l[k][1]
  BY SideParts DEF Sides
<1>1. \A j, k \in 1 .. n : l[j][1] = l[k][1] => j = k
  BY <1>0
<1>2. m = [k \in 1 .. n |-> l[(n - k) + 1]]
  BY DEF Reverse
<1> HIDE DEF m
<1>3. \A k \in 1 .. n : (n - k) + 1 \in 1 .. n /\ (n - ((n - k) + 1)) + 1 = k
  BY <1>0
<1>4. \A k \in 1 .. n : m[k] = l[(n - k) + 1] /\ l[k] = m[(n - k) + 1]
  BY <1>2, <1>3
<1>5. m \in Seq(Levels) /\ Len(m) = n /\ DOMAIN m = 1 .. n
  BY <1>0, <1>2, <1>3
<1>6. OnePerPrice(m)
  <2> SUFFICES ASSUME NEW j \in 1 .. n, NEW k \in 1 .. n, m[j][1] = m[k][1]
               PROVE  j = k
    BY <1>5 DEF OnePerPrice
  <2>1. PICK a \in 1 .. n : a = (n - j) + 1 /\ m[j] = l[a]
    BY <1>3, <1>4
  <2>2. PICK b \in 1 .. n : b = (n - k) + 1 /\ m[k] = l[b]
    BY <1>3, <1>4
  <2>3. a = b
    BY <1>1, <2>1, <2>2
  <2> QED
    BY <1>0, <2>1, <2>2, <2>3
<1>7. ToSet(m) = ToSet(l)
  <2>1. \A x : x \in ToSet(m) <=> \E k \in 1 .. n : x = m[k]
    BY <1>5 DEF ToSet
  <2>2. \A x : x \in ToSet(l) <=> \E k \in 1 .. n : x = l[k]
    BY InSide
  <2>3. \A x : (\E k \in 1 .. n : x = m[k]) <=> \E k \in 1 .. n : x = l[k]
    BY <1>3, <1>4
  <2> QED
    BY <2>1, <2>2, <2>3
<1> QED
  BY <1>0, <1>1, <1>5, <1>6, <1>7 DEF m, OnePerPrice

\* Two sides the beginning of each of which is on the other begin alike.
LEMMA LowsAgree ==
  ASSUME NEW l \in Sides, NEW m \in Sides,
         ToSet(Low(l)) \subseteq ToSet(m), ToSet(Low(m)) \subseteq ToSet(l)
  PROVE  Low(l) = Low(m)
<1>1. \A x, y \in Sides : ToSet(Low(x)) \subseteq ToSet(y) => Len(Low(x)) <= Len(y)
  <2> SUFFICES ASSUME NEW x \in Sides, NEW y \in Sides, ToSet(Low(x)) \subseteq ToSet(y)
               PROVE  Len(Low(x)) <= Len(y)
    OBVIOUS
  <2> DEFINE t == Low(x)
  <2>1. t \in Sides /\ Len(t) \in Nat
    <3>1. t \in Sides
      BY LowParts
    <3> QED
      BY <3>1, SideParts
  <2> HIDE DEF t
  <2>2. \A k \in 1 .. Len(t) : \E z \in ToSet(y) : z[1] = t[k][1]
    <3>1. \A k \in 1 .. Len(t) : t[k] \in ToSet(t)
      BY <2>1, InSide
    <3> QED
      BY <3>1 DEF t
  <2>3. Len(t) <= Len(t)
    BY <2>1
  <2>4. Len(t) <= Len(y)
    BY <2>1, <2>2, <2>3, AsLow
  <2> QED
    BY <2>4 DEF t
<1>2. Len(Low(l)) <= Len(m) /\ Len(Low(m)) <= Len(l)
  BY <1>1
<1> DEFINE n == Len(Low(l))
<1>3. /\ Len(l) \in Nat /\ Len(m) \in Nat /\ Depth \in Nat
      /\ Len(Low(l)) = IF Len(l) <= Depth THEN Len(l) ELSE Depth
      /\ Len(Low(m)) = IF Len(m) <= Depth THEN Len(m) ELSE Depth
  BY LowParts, SideParts, LevelAssumption
<1>4. Len(Low(m)) = n /\ n \in Nat /\ n <= Len(l) /\ n <= Len(m)
  BY <1>2, <1>3
<1>5. \A k \in 1 .. n : Low(l)[k] = l[k] /\ Low(m)[k] = m[k]
  BY <1>4, LowParts
<1>6. \A k \in 1 .. n : Low(l)[k] \in ToSet(Low(l)) /\ Low(m)[k] \in ToSet(Low(m))
  <2>1. Low(l) \in Sides /\ Low(m) \in Sides
    BY LowParts
  <2> QED
    BY <1>4, <2>1, InSide
<1>7. \A k \in 1 .. n : l[k] \in ToSet(m) /\ m[k] \in ToSet(l)
  BY <1>5, <1>6
<1> HIDE DEF n
<1>8. \A k \in 1 .. n : l[k] = m[k]
  BY <1>4, <1>7, SameUpTo
<1>9. Low(l) = [k \in 1 .. n |-> Low(l)[k]] /\ Low(m) = [k \in 1 .. n |-> Low(m)[k]]
  BY <1>4, LowParts, SideParts DEF n
<1> QED
  BY <1>5, <1>8, <1>9

\* What is beyond the beginning of a side is not at the beginning of another one that
\* has the prices the first begins with.
LEMMA Beyond ==
  ASSUME NEW o \in Sides, NEW l \in Sides, NEW x \in ToSet(o), x \notin ToSet(Low(o)),
         \A y \in ToSet(Low(o)) : \E z \in ToSet(l) : z[1] = y[1]
  PROVE  \A y \in ToSet(Low(l)) : y[1] < x[1]
<1>1. PICK k \in 1 .. Len(o) : x = o[k]
  BY InSide
<1>2. Len(o) \in Nat /\ Depth \in Nat /\ Depth >= 1 /\ Low(o) \in Sides /\ Low(l) \in Sides
  BY SideParts, LowParts, LevelAssumption
<1>3. ~(k <= Len(Low(o)))
  <2> SUFFICES ASSUME k <= Len(Low(o))
               PROVE  FALSE
    OBVIOUS
  <2>1. k \in 1 .. Len(Low(o))
    BY <1>2, SideParts
  <2>2. x = Low(o)[k]
    BY <1>1, <2>1, LowParts
  <2> QED
    BY <1>2, <2>1, <2>2, InSide
<1>4. Len(Low(o)) = Depth /\ Depth < k /\ Depth \in 1 .. Len(o)
  <2>1. Len(Low(o)) = IF Len(o) <= Depth THEN Len(o) ELSE Depth
    BY LowParts
  <2> QED
    BY <1>2, <1>3, <2>1
<1>5. \A j \in 1 .. Depth : Low(o)[j] = o[j] /\ Low(o)[j] \in ToSet(Low(o))
  BY <1>2, <1>4, LowParts, InSide
<1>6. \A j \in 1 .. Depth : \E z \in ToSet(l) : z[1] = o[j][1]
  BY <1>5
<1>7. Depth <= Len(l) /\ \A j \in 1 .. Depth : l[j][1] <= o[j][1]
  <2>1. Depth <= Len(o)
    BY <1>2, <1>4
  <2> QED
    BY <1>2, <1>6, <2>1, AsLow
<1>8. o[Depth][1] < x[1] /\ o[Depth][1] \in Nat /\ x[1] \in Nat
  BY <1>1, <1>4, SideParts
<1> SUFFICES ASSUME NEW y \in ToSet(Low(l))
             PROVE  y[1] < x[1]
  OBVIOUS
<1>9. PICK j \in 1 .. Len(Low(l)) : y = Low(l)[j]
  BY <1>2, InSide
<1>10. Len(Low(l)) = Depth
  <2>1. Len(l) \in Nat /\ Len(Low(l)) = IF Len(l) <= Depth THEN Len(l) ELSE Depth
    BY SideParts, LowParts
  <2> QED
    BY <1>2, <1>7, <2>1
<1>11. y = l[j] /\ j \in 1 .. Len(l) /\ Depth \in 1 .. Len(l) /\ j <= Depth
  <2>1. Len(l) \in Nat
    BY SideParts
  <2> QED
    BY <1>2, <1>7, <1>9, <1>10, <2>1, LowParts
<1>12. /\ l[j][1] \in Nat /\ l[Depth][1] \in Nat
       /\ j = Depth \/ l[j][1] < l[Depth][1]
  BY <1>11, SideParts
<1>13. l[Depth][1] <= o[Depth][1]
  BY <1>2, <1>7
<1> QED
  BY <1>8, <1>11, <1>12, <1>13

-----------------------------------------------------------------------------
(* The book and the one over bounded vectors. *)

SideInv(full, top, removed) ==
  /\ full \in Sides /\ top \in Sides
  /\ Len(top) <= Depth
  /\ ToSet(top) \subseteq ToSet(full)
  /\ ~removed => top = Low(full)

LevelsInv ==
  /\ gaps \in BOOLEAN
  /\ SideInv(asks, topAsks, gaps)
  /\ SideInv(bids, topBids, gaps)

LEMMA SnapshotLevels ==
  ASSUME NEW s \in Snapshots
  PROVE  s.asks \in Seq(Levels) /\ s.bids \in Seq(Levels)
<1>1. \A side \in {s.asks, s.bids} : side \in Seq(ToSet(side)) /\ ToSet(side) \subseteq Levels
  BY LevelAssumption DEF Levels
<1>2. ASSUME NEW side, side \in Seq(ToSet(side)), ToSet(side) \subseteq Levels
      PROVE  side \in Seq(Levels)
  <2> DEFINE T == ToSet(side)
  <2>1. T \subseteq Levels /\ side \in Seq(T)
    BY <1>2
  <2> HIDE DEF T
  <2>2. Len(side) \in Nat /\ side \in [1 .. Len(side) -> T]
    BY <2>1
  <2>3. side \in [1 .. Len(side) -> Levels]
    BY <2>1, <2>2
  <2> QED
    BY <2>2, <2>3
<1> QED
  BY <1>1, <1>2

LEMMA EmptySide == <<>> \in Sides /\ Low(<<>>) = <<>> /\ ToSet(<<>>) = {}
<1>1. <<>> \in Sides /\ Len(<<>>) = 0
  BY DEF Sides, Sorted
<1>2. Len(<<>>) <= Depth
  BY <1>1, LevelAssumption
<1>3. \A x : x \notin ToSet(<<>>)
  BY DEF ToSet
<1> QED
  BY <1>1, <1>2, <1>3, LowParts

LEMMA UpdateSide ==
  ASSUME NEW full, NEW top, NEW removed, SideInv(full, top, removed),
         NEW p \in Prices, NEW v \in Volumes
  PROVE  SideInv(VecInsert(full, p, v), TopInsert(top, p, v), removed \/ v = 0)
<1>0. /\ full \in Sides /\ top \in Sides /\ Len(top) <= Depth
      /\ ToSet(top) \subseteq ToSet(full)
      /\ ~removed => top = Low(full)
  BY DEF SideInv
<1>1. top = Low(top) /\ Len(top) \in Nat /\ Depth \in Nat
  BY <1>0, LowParts, SideParts, LevelAssumption
<1> DEFINE F == VecInsert(full, p, v)
           W == VecInsert(top, p, v)
           T == TopInsert(top, p, v)
<1>2. /\ F \in Sides /\ ToSet(F) = Put(ToSet(full), p, v)
      /\ W \in Sides /\ ToSet(W) = Put(ToSet(top), p, v)
  BY <1>0, VecInsertSide
<1>3. ToSet(W) \subseteq ToSet(F)
  BY <1>0, <1>2 DEF Put
<1>4. CASE v = 0
  <2>1. T = LevelRemove(top, p) /\ W = LevelRemove(top, p)
    BY <1>4 DEF TopInsert, VecInsert
  <2>2. Len(LevelRemove(top, p)) <= Len(top)
    BY <1>0, RemoveSide
  <2>3. Len(T) \in Nat /\ T \in Sides
    BY <1>2, <2>1, SideParts
  <2> HIDE DEF T, F, W
  <2>4. Len(T) <= Depth
    BY <1>0, <1>1, <2>1, <2>2, <2>3
  <2>5. SideInv(F, T, removed \/ v = 0)
    BY <1>2, <1>3, <1>4, <2>1, <2>3, <2>4 DEF SideInv
  <2> QED
    BY <2>5 DEF T, F
<1>5. CASE v # 0
  <2>0. v \in Volumes \ {0}
    BY <1>5
  <2>1. TopInsert(Low(top), p, v) = Low(VecInsert(top, p, v))
    BY <1>0, <2>0, TopInsertBegins
  <2>2. T = Low(W)
    BY <1>1, <2>1
  <2>3. ~removed => T = Low(F)
    BY <1>0, <2>0, TopInsertBegins
  <2> HIDE DEF T, F, W
  <2>4. Low(W) \in Sides /\ Len(Low(W)) <= Depth /\ ToSet(Low(W)) \subseteq ToSet(W)
    BY <1>2, LowFits
  <2>5. SideInv(F, T, removed \/ v = 0)
    BY <1>2, <1>3, <2>2, <2>3, <2>4 DEF SideInv
  <2> QED
    BY <2>5 DEF T, F
<1> QED
  BY <1>4, <1>5

LEMMA SnapshotSide ==
  ASSUME NEW more \in Seq(Levels)
  PROVE  SideInv(InsertAll(<<>>, more), TopInsertAll(<<>>, more), FALSE)
<1> DEFINE F == InsertAll(<<>>, more)
           T == TopInsertAll(<<>>, more)
<1>1. F \in Sides /\ T = Low(F)
  BY EmptySide, InsertAllSide, TopRuns
<1> HIDE DEF F, T
<1>2. T \in Sides /\ Len(T) <= Depth /\ ToSet(T) \subseteq ToSet(F)
  BY <1>1, LowFits
<1>3. SideInv(F, T, FALSE)
  BY <1>1, <1>2 DEF SideInv
<1> QED
  BY <1>3 DEF F, T

\* The other book merges its side into the side, its bounded one into the bounded one.
LEMMA MergeSide ==
  ASSUME NEW full, NEW top, NEW removed, SideInv(full, top, removed),
         NEW o \in Sides,
         NEW f \in Seq(Levels), ToSet(f) = ToSet(o), OnePerPrice(f),
         NEW t \in Seq(Levels), ToSet(t) = ToSet(Low(o)), OnePerPrice(t)
  PROVE  SideInv(InsertAll(full, f), TopInsertAll(top, t), removed)
<1>0. /\ full \in Sides /\ top \in Sides /\ Len(top) <= Depth
      /\ ToSet(top) \subseteq ToSet(full)
      /\ ~removed => top = Low(full)
      /\ Low(o) \in Sides /\ ToSet(Low(o)) \subseteq ToSet(o)
  BY LowParts DEF SideInv
<1>1. top = Low(top)
  BY <1>0, LowParts
<1> DEFINE F == InsertAll(full, f)
           W == InsertAll(top, t)
<1>2. /\ F \in Sides
      /\ \A x : x \in ToSet(F) <=>
                  \/ x \in ToSet(o)
                  \/ x \in ToSet(full) /\ \A y \in ToSet(o) : y[1] # x[1]
  BY <1>0, MergedSide
<1>3. /\ W \in Sides
      /\ \A x : x \in ToSet(W) <=>
                  \/ x \in ToSet(Low(o))
                  \/ x \in ToSet(top) /\ \A y \in ToSet(Low(o)) : y[1] # x[1]
  BY <1>0, MergedSide
<1>4. TopInsertAll(top, t) = Low(W)
  BY <1>0, <1>1, TopRuns
<1> HIDE DEF F, W
<1>5. Low(W) \in Sides /\ Len(Low(W)) <= Depth /\ ToSet(Low(W)) \subseteq ToSet(W)
  BY <1>3, LowFits
<1>6. Low(F) \in Sides /\ ToSet(Low(F)) \subseteq ToSet(F)
  BY <1>2, LowParts
<1>7. ToSet(Low(W)) \subseteq ToSet(F)
  <2> SUFFICES ASSUME NEW x \in ToSet(Low(W)), x \notin ToSet(o)
               PROVE  x \in ToSet(F)
    BY <1>2
  <2>1. x \in ToSet(full)
    BY <1>0, <1>3, <1>5
  <2>2. ASSUME NEW y \in ToSet(o), y[1] = x[1]
        PROVE  FALSE
    <3>1. y \notin ToSet(Low(o))
      BY <1>0, <1>3, <1>5, <2>2
    <3>2. \A z \in ToSet(Low(o)) : \E w \in ToSet(W) : w[1] = z[1]
      BY <1>3
    <3>3. x[1] < y[1]
      BY <1>3, <3>1, <3>2, Beyond
    <3>4. x[1] \in Nat
      BY <1>0, <2>1, OnSide
    <3> QED
      BY <2>2, <3>3, <3>4
  <2> QED
    BY <1>2, <2>1, <2>2
<1>8. ASSUME ~removed
      PROVE  Low(W) = Low(F)
  <2>1. ASSUME NEW x \in ToSet(Low(F))
        PROVE  x \in ToSet(W)
    <3>0. x \in ToSet(F) /\ x[1] \in Nat
      BY <1>2, <1>6, <2>1, OnSide
    <3>1. CASE x \in ToSet(o)
      <4> SUFFICES ASSUME x \notin ToSet(Low(o))
                   PROVE  FALSE
        BY <1>3
      <4>1. \A z \in ToSet(Low(o)) : \E w \in ToSet(F) : w[1] = z[1]
        BY <1>0, <1>2
      <4>2. x[1] < x[1]
        BY <1>2, <2>1, <3>1, <4>1, Beyond
      <4> QED
        BY <3>0, <4>2
    <3>2. CASE x \notin ToSet(o)
      <4>1. x \in ToSet(full) /\ \A y \in ToSet(o) : y[1] # x[1]
        BY <1>2, <3>0, <3>2
      <4>2. x \in ToSet(Low(full))
        <5> SUFFICES ASSUME x \notin ToSet(Low(full))
                     PROVE  FALSE
          OBVIOUS
        <5>1. \A z \in ToSet(Low(full)) : \E w \in ToSet(F) : w[1] = z[1]
          <6>1. ToSet(Low(full)) \subseteq ToSet(full)
            BY <1>0, LowParts
          <6> QED
            BY <1>2, <6>1
        <5>2. x[1] < x[1]
          BY <1>0, <1>2, <2>1, <4>1, <5>1, Beyond
        <5> QED
          BY <3>0, <5>2
      <4> QED
        BY <1>0, <1>3, <1>8, <4>1, <4>2
    <3> QED
      BY <3>1, <3>2
  <2>2. ToSet(Low(F)) \subseteq ToSet(W)
    BY <2>1
  <2> QED
    BY <1>2, <1>3, <1>7, <2>2, LowsAgree
<1>9. SideInv(F, Low(W), removed)
  BY <1>2, <1>5, <1>7, <1>8 DEF SideInv
<1> QED
  BY <1>4, <1>9 DEF F

LEMMA LevelsInit == Init => LevelsInv
<1> SUFFICES ASSUME Init
             PROVE  LevelsInv
  OBVIOUS
<1>1. asks = <<>> /\ bids = <<>> /\ topAsks = <<>> /\ topBids = <<>> /\ gaps = FALSE
  BY DEF Init
<1>2. Len(<<>>) <= Depth
  BY LevelAssumption
<1>3. SideInv(<<>>, <<>>, FALSE)
  BY <1>2, EmptySide DEF SideInv
<1> QED
  BY <1>1, <1>3 DEF LevelsInv

LEMMA LevelsStep ==
  ASSUME LevelsInv, [Next]_vars
  PROVE  LevelsInv'
<1>0. /\ gaps \in BOOLEAN
      /\ SideInv(asks, topAsks, gaps) /\ SideInv(bids, topBids, gaps)
  BY DEF LevelsInv
<1>1. CASE UpdateAsk
  <2>1. PICK p \in Prices, v \in Volumes :
          /\ asks' = VecInsert(asks, p, v)
          /\ topAsks' = TopInsert(topAsks, p, v)
          /\ gaps' = (gaps \/ v = 0)
          /\ UNCHANGED <<bids, topBids>>
    BY <1>1 DEF UpdateAsk
  <2>2. SideInv(VecInsert(asks, p, v), TopInsert(topAsks, p, v), gaps \/ v = 0)
    BY <1>0, UpdateSide
  <2>3. SideInv(bids, topBids, gaps \/ v = 0)
    BY <1>0 DEF SideInv
  <2>4. SideInv(asks', topAsks', gaps')
    BY <2>1, <2>2
  <2>5. SideInv(bids', topBids', gaps')
    BY <2>1, <2>3
  <2>6. gaps' \in BOOLEAN
    BY <2>1
  <2> QED
    BY <2>4, <2>5, <2>6 DEF LevelsInv, SideInv
<1>2. CASE UpdateBid
  <2>1. PICK p \in Prices, v \in Volumes :
          /\ bids' = VecInsert(bids, p, v)
          /\ topBids' = TopInsert(topBids, p, v)
          /\ gaps' = (gaps \/ v = 0)
          /\ UNCHANGED <<asks, topAsks>>
    BY <1>2 DEF UpdateBid
  <2>2. SideInv(VecInsert(bids, p, v), TopInsert(topBids, p, v), gaps \/ v = 0)
    BY <1>0, UpdateSide
  <2>3. SideInv(asks, topAsks, gaps \/ v = 0)
    BY <1>0 DEF SideInv
  <2>4. SideInv(bids', topBids', gaps')
    BY <2>1, <2>2
  <2>5. SideInv(asks', topAsks', gaps')
    BY <2>1, <2>3
  <2>6. gaps' \in BOOLEAN
    BY <2>1
  <2> QED
    BY <2>4, <2>5, <2>6 DEF LevelsInv, SideInv
<1>3. CASE ApplySnapshot
  <2>1. PICK s \in Snapshots :
          /\ asks' = InsertAll(<<>>, s.asks) /\ bids' = InsertAll(<<>>, s.bids)
          /\ topAsks' = TopInsertAll(<<>>, s.asks) /\ topBids' = TopInsertAll(<<>>, s.bids)
          /\ gaps' = FALSE
    BY <1>3 DEF ApplySnapshot
  <2>2. s.asks \in Seq(Levels) /\ s.bids \in Seq(Levels)
    BY SnapshotLevels
  <2>3. /\ SideInv(InsertAll(<<>>, s.asks), TopInsertAll(<<>>, s.asks), FALSE)
        /\ SideInv(InsertAll(<<>>, s.bids), TopInsertAll(<<>>, s.bids), FALSE)
    BY <2>2, SnapshotSide
  <2>4. SideInv(asks', topAsks', gaps') /\ SideInv(bids', topBids', gaps')
    BY <2>1, <2>3
  <2> QED
    BY <2>1, <2>4 DEF LevelsInv, SideInv
<1>4. CASE Merge
  <2>1. PICK s \in Snapshots :
          /\ asks' = InsertAll(asks, InsertAll(<<>>, s.asks))
          /\ bids' = InsertAll(bids, Reverse(InsertAll(<<>>, s.bids)))
          /\ topAsks' = TopInsertAll(topAsks, TopInsertAll(<<>>, s.asks))
          /\ topBids' = TopInsertAll(topBids, Reverse(TopInsertAll(<<>>, s.bids)))
          /\ gaps' = gaps
    BY <1>4 DEF Merge
  <2> DEFINE a == InsertAll(<<>>, s.asks)
             b == InsertAll(<<>>, s.bids)
  <2>2. s.asks \in Seq(Levels) /\ s.bids \in Seq(Levels)
    BY SnapshotLevels
  <2>3. /\ a \in Sides /\ TopInsertAll(<<>>, s.asks) = Low(a)
        /\ b \in Sides /\ TopInsertAll(<<>>, s.bids) = Low(b)
    BY <2>2, EmptySide, InsertAllSide, TopRuns
  <2> HIDE DEF a, b
  <2>4. Low(a) \in Sides /\ Low(b) \in Sides
    BY <2>3, LowParts
  <2>5. SideInv(InsertAll(asks, a), TopInsertAll(topAsks, Low(a)), gaps)
    BY <1>0, <2>3, <2>4, SideOrders, MergeSide
  <2>6. SideInv(InsertAll(bids, Reverse(b)), TopInsertAll(topBids, Reverse(Low(b))), gaps)
    BY <1>0, <2>3, <2>4, SideOrders, MergeSide
  <2>7. SideInv(asks', topAsks', gaps')
    BY <2>1, <2>3, <2>5 DEF a
  <2>8. SideInv(bids', topBids', gaps')
    BY <2>1, <2>3, <2>6 DEF b
  <2> QED
    BY <1>0, <2>1, <2>7, <2>8 DEF LevelsInv, SideInv
<1>5. CASE UNCHANGED vars
  <2>1. /\ asks' = asks /\ bids' = bids /\ topAsks' = topAsks /\ topBids' = topBids
        /\ gaps' = gaps
    BY <1>5 DEF vars
  <2> QED
    BY <1>0, <2>1 DEF LevelsInv, SideInv
<1> QED
  BY <1>1, <1>2, <1>3, <1>4, <1>5 DEF Next

LEMMA LevelsAlways == Spec => []LevelsInv
<1>1. LevelsInv /\ [Next]_vars => LevelsInv'
  BY LevelsStep
<1> QED
  BY <1>1, LevelsInit, PTL DEF Spec

\* A bounded vector never tells of a level that is gone or has another volume: whatever
\* was put in, pushed out, taken out and merged (BoundedVec::insert and remove,
\* Orderbook::merge), for any depth, it is sorted, within its depth, and tells only what
\* the book over whole vectors tells; as long as nothing was taken out its asks are the
\* lowest of that book.
THEOREM BoundedVecIsTrue == Spec => []TopsAreTrue
<1>1. LevelsInv => TopsAreTrue
  <2> SUFFICES ASSUME LevelsInv
               PROVE  TopsAreTrue
    OBVIOUS
  <2>1. \A side \in {asks, bids, topAsks, topBids} : Sorted(side)
    BY DEF LevelsInv, SideInv, Sides
  <2> QED
    BY <2>1 DEF LevelsInv, SideInv, TopsAreTrue, Low
<1> QED
  BY <1>1, LevelsAlways, PTL

-----------------------------------------------------------------------------
(* The map. *)

LEMMA MapParts ==
  ASSUME NEW l \in Sides
  PROVE  /\ AsMap(l) = [p \in DOMAIN AsMap(l) |-> AsMap(l)[p]]
         /\ DOMAIN AsMap(l) = {x[1] : x \in ToSet(l)}
         /\ \A x \in ToSet(l) : AsMap(l)[x[1]] = x[2]
<1> DEFINE P == {l[k][1] : k \in DOMAIN l}
<1>1. AsMap(l) = [p \in P |-> l[CHOOSE k \in DOMAIN l : l[k][1] = p][2]]
  BY DEF AsMap
<1>2. P = {x[1] : x \in ToSet(l)}
  BY DEF ToSet
<1>3. ASSUME NEW x \in ToSet(l)
      PROVE  AsMap(l)[x[1]] = x[2]
  <2>1. PICK k \in DOMAIN l : x = l[k]
    BY DEF ToSet
  <2> DEFINE i == CHOOSE i \in DOMAIN l : l[i][1] = x[1]
  <2>2. i \in DOMAIN l /\ l[i][1] = x[1]
    BY <2>1
  <2>3. AsMap(l)[x[1]] = l[i][2]
    BY <1>1, <2>1
  <2> HIDE DEF i
  <2>4. l[i] \in ToSet(l)
    BY <2>2 DEF ToSet
  <2>5. l[i] = x
    BY <2>2, <2>4, OncePerPrice
  <2> QED
    BY <2>3, <2>5
<1> HIDE DEF P
<1> QED
  BY <1>1, <1>2, <1>3

\* A map that says what the levels of a side say is the map of the side.
LEMMA IsMap ==
  ASSUME NEW l \in Sides, NEW D, NEW f, f = [p \in D |-> f[p]],
         \A x \in ToSet(l) : x[1] \in D /\ f[x[1]] = x[2],
         \A p \in D : \E x \in ToSet(l) : x[1] = p
  PROVE  AsMap(l) = f
<1> DEFINE m == AsMap(l)
<1>1. /\ m = [p \in DOMAIN m |-> m[p]] /\ DOMAIN m = {x[1] : x \in ToSet(l)}
      /\ \A x \in ToSet(l) : m[x[1]] = x[2]
  BY MapParts
<1> HIDE DEF m
<1>2. DOMAIN m = D
  BY <1>1
<1>3. \A p \in D : m[p] = f[p]
  BY <1>1
<1>4. m = f
  BY <1>1, <1>2, <1>3
<1> QED
  BY <1>4 DEF m

LEMMA InsertIsMap ==
  ASSUME NEW l \in Sides, NEW p \in Prices, NEW v \in Volumes
  PROVE  AsMap(VecInsert(l, p, v)) = Map!MapInsert(AsMap(l), p, v)
<1> DEFINE m == AsMap(l)
           w == VecInsert(l, p, v)
           f == Map!MapInsert(m, p, v)
           D == IF v = 0 THEN DOMAIN m \ {p} ELSE DOMAIN m \cup {p}
<1>1. DOMAIN m = {x[1] : x \in ToSet(l)} /\ \A x \in ToSet(l) : m[x[1]] = x[2]
  BY MapParts
<1>2. w \in Sides /\ ToSet(w) = Put(ToSet(l), p, v)
  BY VecInsertSide
<1> HIDE DEF m, w
<1>3. /\ f = [q \in D |-> f[q]]
      /\ \A q \in D : f[q] = IF v # 0 /\ q = p THEN v ELSE m[q]
  BY DEF Map!MapInsert, Map!MapRemove
<1> HIDE DEF f
<1>4. \A x : x \in ToSet(w) <=> (x \in ToSet(l) /\ x[1] # p) \/ (v # 0 /\ x = <<p, v>>)
  BY <1>2 DEF Put
<1>5. \A q : q \in D <=> (q \in DOMAIN m /\ q # p) \/ (v # 0 /\ q = p)
  OBVIOUS
<1> HIDE DEF D
<1>6. ASSUME NEW x \in ToSet(w)
      PROVE  x[1] \in D /\ f[x[1]] = x[2]
  <2>1. CASE x \in ToSet(l) /\ x[1] # p
    BY <1>1, <1>3, <1>5, <2>1
  <2>2. CASE v # 0 /\ x = <<p, v>>
    BY <1>3, <1>5, <2>2
  <2> QED
    BY <1>4, <2>1, <2>2
<1>7. ASSUME NEW q \in D
      PROVE  \E x \in ToSet(w) : x[1] = q
  <2>1. CASE q \in DOMAIN m /\ q # p
    BY <1>1, <1>4, <2>1
  <2>2. CASE v # 0 /\ q = p
    <3>1. <<p, v>> \in ToSet(w)
      BY <1>4, <2>2
    <3> QED
      BY <2>2, <3>1
  <2> QED
    BY <1>5, <2>1, <2>2
<1>8. AsMap(w) = f
  BY <1>2, <1>3, <1>6, <1>7, IsMap
<1> QED
  BY <1>8 DEF w, f, m

LEMMA MergeIsMap ==
  ASSUME NEW l \in Sides, NEW o \in Sides, NEW more \in Seq(Levels),
         ToSet(more) = ToSet(o), OnePerPrice(more)
  PROVE  AsMap(InsertAll(l, more)) = Map!MapMerge(AsMap(l), AsMap(o))
<1> DEFINE m == AsMap(l)
           n == AsMap(o)
           w == InsertAll(l, more)
           f == Map!MapMerge(m, n)
           D == DOMAIN m \cup DOMAIN n
<1>1. /\ DOMAIN m = {x[1] : x \in ToSet(l)} /\ \A x \in ToSet(l) : m[x[1]] = x[2]
      /\ DOMAIN n = {x[1] : x \in ToSet(o)} /\ \A x \in ToSet(o) : n[x[1]] = x[2]
  BY MapParts
<1>2. /\ w \in Sides
      /\ \A x : x \in ToSet(w) <=>
                  \/ x \in ToSet(o)
                  \/ x \in ToSet(l) /\ \A y \in ToSet(o) : y[1] # x[1]
  BY MergedSide
<1> HIDE DEF m, n, w
<1>3. /\ f = [q \in D |-> f[q]]
      /\ \A q \in D : f[q] = IF q \in DOMAIN n THEN n[q] ELSE m[q]
  BY DEF Map!MapMerge
<1> HIDE DEF f
<1>4. ASSUME NEW x \in ToSet(w)
      PROVE  x[1] \in D /\ f[x[1]] = x[2]
  <2>1. CASE x \in ToSet(o)
    BY <1>1, <1>3, <2>1
  <2>2. CASE x \in ToSet(l) /\ \A y \in ToSet(o) : y[1] # x[1]
    <3>1. x[1] \in DOMAIN m /\ x[1] \notin DOMAIN n
      BY <1>1, <2>2
    <3> QED
      BY <1>1, <1>3, <2>2, <3>1
  <2> QED
    BY <1>2, <2>1, <2>2
<1>5. ASSUME NEW q \in D
      PROVE  \E x \in ToSet(w) : x[1] = q
  <2>1. CASE q \in DOMAIN n
    BY <1>1, <1>2, <2>1
  <2>2. CASE q \in DOMAIN m /\ q \notin DOMAIN n
    <3>1. PICK x \in ToSet(l) : x[1] = q
      BY <1>1, <2>2
    <3>2. \A y \in ToSet(o) : y[1] # q
      BY <1>1, <2>2
    <3> QED
      BY <1>2, <3>1, <3>2
  <2> QED
    BY <2>1, <2>2
<1> HIDE DEF D
<1>6. AsMap(w) = f
  BY <1>2, <1>3, <1>4, <1>5, IsMap
<1> QED
  BY <1>6 DEF w, f, m, n

LEMMA GreatestOf ==
  ASSUME NEW n \in Nat, NEW T \in SUBSET (1 .. n), T # {}
  PROVE  Max(T) \in T /\ \A y \in T : y <= Max(T)
<1> DEFINE U == {k \in 0 .. n : n - k \in T}
<1>1. U # {} /\ U \in SUBSET (0 .. n)
  <2>1. PICK y \in T : y \in 1 .. n
    OBVIOUS
  <2>2. n - y \in 0 .. n /\ n - (n - y) = y
    BY <2>1
  <2> QED
    BY <2>1, <2>2
<1>2. PICK k \in U : \A m \in 0 .. n : m < k => m \notin U
  <2> HIDE DEF U
  <2> QED
    BY <1>1, LeastFailure
<1>3. n - k \in T /\ k \in 0 .. n
  BY <1>2
<1>4. ASSUME NEW y \in T, ~(y <= n - k)
      PROVE  FALSE
  <2>1. y \in 1 .. n /\ n - y \in 0 .. n /\ n - y < k /\ n - (n - y) = y
    BY <1>3, <1>4
  <2> QED
    BY <1>2, <1>4, <2>1
<1>5. \E x \in T : \A y \in T : x >= y
  BY <1>3, <1>4
<1>6. Max(T) \in T /\ \A y \in T : Max(T) >= y
  BY <1>5 DEF Max
<1> QED
  BY <1>6

LEMMA SnapshotIsMap ==
  ASSUME NEW more \in Seq(Levels)
  PROVE  AsMap(InsertAll(<<>>, more)) = Map!MapOf(more)
<1> DEFINE n == Len(more)
           w == InsertAll(<<>>, more)
           f == Map!MapOf(more)
           D == {more[k][1] : k \in DOMAIN more}
           At(p) == {k \in DOMAIN more : more[k][1] = p}
<1>1. n \in Nat /\ DOMAIN more = 1 .. n
  OBVIOUS
<1>2. /\ w \in Sides
      /\ \A x : x \in ToSet(w) <=>
                  \E j \in 1 .. n : x = more[j] /\ \A i \in 1 .. n : j < i => more[i][1] # x[1]
  BY EmptySide, InsertAllSide DEF HasAfter
<1>3. /\ f = [p \in D |-> f[p]]
      /\ \A p \in D : f[p] = more[Max(At(p))][2]
  <2>1. f = [p \in D |-> more[Max(At(p))][2]]
    BY Zenon DEF Map!MapOf, Map!Max, Max
  <2> HIDE DEF f, D, At
  <2> QED
    BY <2>1
<1> HIDE DEF w, f
<1>4. ASSUME NEW p \in D
      PROVE  /\ Max(At(p)) \in 1 .. n /\ more[Max(At(p))][1] = p
             /\ \A i \in 1 .. n : Max(At(p)) < i => more[i][1] # p
  <2> DEFINE T == At(p)
  <2>1. T \in SUBSET (1 .. n) /\ T # {}
    BY <1>1
  <2>2. \A k : k \in T <=> k \in 1 .. n /\ more[k][1] = p
    BY <1>1
  <2> HIDE DEF T
  <2> HIDE DEF n
  <2>3. Max(T) \in T /\ \A y \in T : y <= Max(T)
    BY <1>1, <2>1, GreatestOf
  <2>4. Max(T) \in 1 .. n /\ more[Max(T)][1] = p
    BY <2>2, <2>3
  <2>5. \A i \in 1 .. n : Max(T) < i => i \notin T
    BY <1>1, <2>3, <2>4
  <2>6. \A i \in 1 .. n : Max(T) < i => more[i][1] # p
    BY <2>2, <2>5
  <2> QED
    BY <2>4, <2>6 DEF T
<1> HIDE DEF At
<1>5. ASSUME NEW x \in ToSet(w)
      PROVE  x[1] \in D /\ f[x[1]] = x[2]
  <2>1. PICK j \in 1 .. n : x = more[j] /\ \A i \in 1 .. n : j < i => more[i][1] # x[1]
    BY <1>2
  <2>2. x[1] \in D
    BY <1>1, <2>1
  <2> DEFINE i == Max(At(x[1]))
  <2>3. /\ i \in 1 .. n /\ more[i][1] = x[1]
        /\ \A k \in 1 .. n : i < k => more[k][1] # x[1]
        /\ f[x[1]] = more[i][2]
    BY <1>3, <1>4, <2>2
  <2> HIDE DEF i
  <2>4. i = j
    BY <1>1, <2>1, <2>3
  <2> QED
    BY <2>1, <2>2, <2>3, <2>4
<1>6. ASSUME NEW p \in D
      PROVE  \E x \in ToSet(w) : x[1] = p
  <2> DEFINE i == Max(At(p))
  <2>1. /\ i \in 1 .. n /\ more[i][1] = p
        /\ \A k \in 1 .. n : i < k => more[k][1] # p
    BY <1>4
  <2> HIDE DEF i
  <2>2. more[i] \in ToSet(w)
    BY <1>2, <2>1
  <2> QED
    BY <2>1, <2>2
<1> HIDE DEF D
<1>7. AsMap(w) = f
  BY <1>2, <1>3, <1>5, <1>6, IsMap
<1> QED
  BY <1>7 DEF w, f

LEMMA MapStep ==
  ASSUME LevelsInv, [Next]_vars
  PROVE  [Map!Update \/ Map!Replace \/ Map!Merge]_(Map!book)
<1>0. asks \in Sides /\ bids \in Sides
  BY DEF LevelsInv, SideInv
<1>1. CASE UpdateAsk
  <2>1. PICK p \in Prices, v \in Volumes : asks' = VecInsert(asks, p, v) /\ bids' = bids
    BY <1>1 DEF UpdateAsk
  <2>2. AsMap(asks') = Map!MapInsert(AsMap(asks), p, v)
    BY <1>0, <2>1, InsertIsMap
  <2>3. Map!Update
    BY <2>1, <2>2 DEF Map!Update
  <2> QED
    BY <2>3
<1>2. CASE UpdateBid
  <2>1. PICK p \in Prices, v \in Volumes : bids' = VecInsert(bids, p, v) /\ asks' = asks
    BY <1>2 DEF UpdateBid
  <2>2. AsMap(bids') = Map!MapInsert(AsMap(bids), p, v)
    BY <1>0, <2>1, InsertIsMap
  <2>3. Map!Update
    BY <2>1, <2>2 DEF Map!Update
  <2> QED
    BY <2>3
<1>3. CASE ApplySnapshot
  <2>1. PICK s \in Snapshots :
          asks' = InsertAll(<<>>, s.asks) /\ bids' = InsertAll(<<>>, s.bids)
    BY <1>3 DEF ApplySnapshot
  <2>2. AsMap(asks') = Map!MapOf(s.asks) /\ AsMap(bids') = Map!MapOf(s.bids)
    BY <2>1, SnapshotLevels, SnapshotIsMap
  <2>3. Map!Replace
    BY <2>2 DEF Map!Replace
  <2> QED
    BY <2>3
<1>4. CASE Merge
  <2>1. PICK s \in Snapshots :
          /\ asks' = InsertAll(asks, InsertAll(<<>>, s.asks))
          /\ bids' = InsertAll(bids, Reverse(InsertAll(<<>>, s.bids)))
    BY <1>4 DEF Merge
  <2> DEFINE a == InsertAll(<<>>, s.asks)
             b == InsertAll(<<>>, s.bids)
  <2>2. /\ a \in Sides /\ AsMap(a) = Map!MapOf(s.asks)
        /\ b \in Sides /\ AsMap(b) = Map!MapOf(s.bids)
    BY SnapshotLevels, EmptySide, InsertAllSide, SnapshotIsMap
  <2> HIDE DEF a, b
  <2>3. AsMap(InsertAll(asks, a)) = Map!MapMerge(AsMap(asks), AsMap(a))
    BY <1>0, <2>2, SideOrders, MergeIsMap
  <2>4. AsMap(InsertAll(bids, Reverse(b))) = Map!MapMerge(AsMap(bids), AsMap(b))
    BY <1>0, <2>2, SideOrders, MergeIsMap
  <2>5. AsMap(asks') = Map!MapMerge(AsMap(asks), Map!MapOf(s.asks))
    BY <2>1, <2>2, <2>3 DEF a
  <2>6. AsMap(bids') = Map!MapMerge(AsMap(bids), Map!MapOf(s.bids))
    BY <2>1, <2>2, <2>4 DEF b
  <2>7. Map!Merge
    BY <2>5, <2>6 DEF Map!Merge
  <2> QED
    BY <2>7
<1>5. CASE UNCHANGED vars
  <2>1. asks' = asks /\ bids' = bids
    BY <1>5 DEF vars
  <2> QED
    BY <2>1 DEF Map!book
<1> QED
  BY <1>1, <1>2, <1>3, <1>4, <1>5 DEF Next

\* The sorted vector keeps what the BTreeMap keeps, whatever is inserted, taken out,
\* replaced and merged, so that the engine may run over either (PriceLevelStorage).
THEOREM SortedVecIsMap == Spec => ImplementsMap
<1>1. Init => Map!Init
  <2> SUFFICES ASSUME Init
               PROVE  Map!Init
    OBVIOUS
  <2>1. asks = <<>> /\ bids = <<>>
    BY DEF Init
  <2>2. AsMap(<<>>) = <<>>
    <3>1. AsMap(<<>>) = [p \in DOMAIN AsMap(<<>>) |-> AsMap(<<>>)[p]] /\ DOMAIN AsMap(<<>>) = {}
      BY EmptySide, MapParts
    <3> QED
      BY <3>1
  <2> QED
    BY <2>1, <2>2 DEF Map!Init, Map!EmptyMap
<1>2. LevelsInv /\ [Next]_vars => [Map!Update \/ Map!Replace \/ Map!Merge]_(Map!book)
  BY MapStep
<1> QED
  BY <1>1, <1>2, LevelsAlways, PTL DEF Spec, ImplementsMap, Map!Spec

-----------------------------------------------------------------------------
(* Counting. *)

\* As many values as places, if none is there twice.
LEMMA AsMany ==
  ASSUME NEW m \in Int, NEW n \in Int, m <= n + 1, NEW f,
         \A i, j \in m .. n : f[i] = f[j] => i = j
  PROVE  /\ IsFiniteSet({f[k] : k \in m .. n})
         /\ Cardinality({f[k] : k \in m .. n}) = (n + 1) - m
<1> DEFINE T == {f[k] : k \in m .. n}
           g == [k \in m .. n |-> f[k]]
<1>1. g \in Bijection(m .. n, T)
  <2>1. g \in [m .. n -> T]
    OBVIOUS
  <2>2. \A i, j \in m .. n : g[i] = g[j] => i = j
    OBVIOUS
  <2>3. \A t \in T : \E k \in m .. n : g[k] = t
    OBVIOUS
  <2> QED
    BY <2>1, <2>2, <2>3 DEF Bijection, Injection, Surjection, IsInjective
<1>2. IsFiniteSet(m .. n) /\ Cardinality(m .. n) = IF m > n THEN 0 ELSE (n - m) + 1
  BY FS_Interval
<1>3. IsFiniteSet(T) /\ Cardinality(T) = Cardinality(m .. n)
  <2> HIDE DEF T, g
  <2>1. ExistsBijection(m .. n, T)
    BY <1>1 DEF ExistsBijection
  <2> QED
    BY <1>2, <2>1, FS_Bijection
<1> QED
  BY <1>2, <1>3

\* Sets that do not meet are counted one after the other.
LEMMA CountedApart ==
  ASSUME NEW S, NEW T, IsFiniteSet(S), IsFiniteSet(T), \A x \in S : x \notin T
  PROVE  IsFiniteSet(S \cup T) /\ Cardinality(S \cup T) = Cardinality(S) + Cardinality(T)
<1>1. Cardinality(S \cap T) = 0
  <2>1. S \cap T = {}
    OBVIOUS
  <2> QED
    BY <2>1, FS_EmptySet
<1>2. Cardinality(S) \in Nat /\ Cardinality(T) \in Nat
  BY FS_CardinalityType
<1>3. /\ IsFiniteSet(S \cup T)
      /\ Cardinality(S \cup T) = Cardinality(S) + Cardinality(T) - Cardinality(S \cap T)
  BY FS_Union
<1> QED
  BY <1>1, <1>2, <1>3

-----------------------------------------------------------------------------
(* What levels are worth. *)

LEMMA WorthRuns ==
  ASSUME NEW t \in Seq(Levels)
  PROVE  LET u == WorthUpTo(t) IN
         /\ u[0] = 0
         /\ \A k \in 1 .. Len(t) : u[k] = u[k - 1] + t[k][1] * t[k][2]
         /\ \A k \in 0 .. Len(t) : u[k] \in Nat
<1> DEFINE n == Len(t)
           step == [k \in 1 .. n |-> [v \in Nat |-> v + t[k][1] * t[k][2]]]
           IsRun(f) == f = [k \in 0 .. n |->
                              IF k = 0 THEN 0 ELSE f[k - 1] + t[k][1] * t[k][2]]
<1>1. n \in Nat /\ \A k \in 1 .. n : t[k][1] \in Nat /\ t[k][2] \in Nat
  <2>1. n \in Nat /\ \A k \in 1 .. n : t[k] \in Levels
    OBVIOUS
  <2>2. Volumes \subseteq Nat
    BY LevelAssumption
  <2> QED
    BY <2>1, <2>2, LevelParts
<1>2. \A k \in 1 .. n : t[k][1] * t[k][2] \in Nat
  BY <1>1
<1>3. step \in [1 .. n -> [Nat -> Nat]]
  BY <1>2
<1>4. PICK g : TakesSteps(g, n, Nat, 0, step)
  <2> HIDE DEF step, n
  <2> QED
    BY <1>1, <1>3, StepsRun
<1>5. g \in [0 .. n -> Nat] /\ g[0] = 0 /\ \A k \in 1 .. n : g[k] = step[k][g[k - 1]]
  BY <1>4 DEF TakesSteps
<1>6. \A k \in 1 .. n : g[k] = g[k - 1] + t[k][1] * t[k][2]
  <2> SUFFICES ASSUME NEW k \in 1 .. n
               PROVE  g[k] = g[k - 1] + t[k][1] * t[k][2]
    OBVIOUS
  <2>1. k - 1 \in 0 .. n
    BY <1>1
  <2>2. g[k - 1] \in Nat
    BY <1>5, <2>1
  <2> QED
    BY <1>5, <2>2
<1>7. IsRun(g)
  <2>1. \A k \in 0 .. n : k = 0 \/ k \in 1 .. n
    BY <1>1
  <2> QED
    BY <1>5, <1>6, <2>1
<1>8. WorthUpTo(t) = CHOOSE f : IsRun(f)
  BY DEF WorthUpTo
<1> DEFINE u == WorthUpTo(t)
<1>9. IsRun(u)
  <2> HIDE DEF IsRun
  <2> QED
    BY <1>7, <1>8
<1> HIDE DEF u
<1>10. \A k \in 0 .. n : u[k] = IF k = 0 THEN 0 ELSE u[k - 1] + t[k][1] * t[k][2]
  BY <1>9
<1>11. u[0] = 0 /\ \A k \in 1 .. n : u[k] = u[k - 1] + t[k][1] * t[k][2]
  BY <1>1, <1>10
<1>12. \A k \in 0 .. n : u[k] \in Nat
  <2> DEFINE T == {k \in 0 .. n : u[k] \in Nat}
  <2>1. 0 \in T
    BY <1>1, <1>11
  <2>2. ASSUME NEW k \in 0 .. n - 1, k \in T
        PROVE  k + 1 \in T
    <3>1. k + 1 \in 1 .. n /\ k + 1 \in 0 .. n /\ (k + 1) - 1 = k
      BY <1>1
    <3>2. u[k + 1] = u[k] + t[k + 1][1] * t[k + 1][2]
      BY <1>11, <3>1
    <3>3. u[k] \in Nat /\ t[k + 1][1] * t[k + 1][2] \in Nat
      BY <1>2, <2>2, <3>1
    <3> QED
      BY <3>1, <3>2, <3>3
  <2>3. \A k \in 0 .. n : k \in T
    <3> HIDE DEF T, n
    <3> QED
      BY <1>1, <2>1, <2>2, UpTo
  <2> QED
    BY <2>3
<1> QED
  BY <1>11, <1>12 DEF u

\* Levels of different prices are worth what the map they are in says of these prices.
LEMMA WorthCounts ==
  ASSUME NEW t \in Seq(Levels), OnePerPrice(t), NEW map,
         \A k \in 1 .. Len(t) : map[t[k][1]] = t[k][2]
  PROVE  Worth(t) = Reference(map, {t[k][1] : k \in 1 .. Len(t)}) /\ Worth(t) \in Nat
<1> DEFINE n == Len(t)
           u == WorthUpTo(t)
           Seen(k) == {t[j][1] : j \in 1 .. k}
           Cells(P) == UNION {{p} \X (1 .. p * map[p]) : p \in P}
           T == {k \in 0 .. n : IsFiniteSet(Cells(Seen(k))) /\ Cardinality(Cells(Seen(k))) = u[k]}
<1>1. /\ n \in Nat
      /\ \A k \in 1 .. n : t[k][1] \in Nat /\ t[k][2] \in Nat
      /\ \A j, k \in 1 .. n : t[j][1] = t[k][1] => j = k
  <2>1. n \in Nat /\ \A k \in 1 .. n : t[k] \in Levels
    OBVIOUS
  <2>2. Volumes \subseteq Nat
    BY LevelAssumption
  <2> QED
    BY <2>1, <2>2, LevelParts DEF OnePerPrice
<1>2. /\ u[0] = 0 /\ \A k \in 1 .. n : u[k] = u[k - 1] + t[k][1] * t[k][2]
      /\ \A k \in 0 .. n : u[k] \in Nat
  BY WorthRuns
<1> HIDE DEF u
<1>3. 0 \in T
  <2>1. Cells(Seen(0)) = {}
    OBVIOUS
  <2> HIDE DEF Cells, Seen
  <2>2. IsFiniteSet(Cells(Seen(0))) /\ Cardinality(Cells(Seen(0))) = 0
    BY <2>1, FS_EmptySet
  <2>3. 0 \in 0 .. n
    BY <1>1
  <2> QED
    BY <1>2, <2>2, <2>3
<1>4. ASSUME NEW k \in 0 .. n - 1, k \in T
      PROVE  k + 1 \in T
  <2>1. k + 1 \in 1 .. n /\ k + 1 \in 0 .. n /\ (k + 1) - 1 = k
    BY <1>1
  <2> DEFINE p == t[k + 1][1]
             v == t[k + 1][2]
             New == {p} \X (1 .. p * map[p])
  <2>2. p \in Nat /\ v \in Nat /\ map[p] = v /\ p * v \in Nat
    BY <1>1, <2>1
  <2>3. p \notin Seen(k)
    <3>1. \A j \in 1 .. k : j \in 1 .. n /\ j # k + 1
      BY <1>1
    <3> QED
      BY <1>1, <2>1, <3>1
  <2>4. Seen(k + 1) = Seen(k) \cup {p}
    <3>1. \A j : j \in 1 .. k + 1 <=> j \in 1 .. k \/ j = k + 1
      BY <1>1
    <3> QED
      BY <3>1
  <2>5. IsFiniteSet(New) /\ Cardinality(New) = p * v
    <3> HIDE DEF p, v
    <3>1. IsFiniteSet(1 .. p * v) /\ Cardinality(1 .. p * v) = p * v
      <4>1. Cardinality(1 .. p * v) = IF 1 > p * v THEN 0 ELSE p * v - 1 + 1
        BY <2>2, FS_Interval
      <4> HIDE DEF New
      <4>2. IsFiniteSet(1 .. p * v)
        BY <2>2, FS_Interval
      <4> DEFINE c == p * v
      <4>3. c \in Nat
        BY <2>2
      <4> HIDE DEF c
      <4>4. Cardinality(1 .. c) = IF 1 > c THEN 0 ELSE c - 1 + 1
        BY <4>1 DEF c
      <4>5. Cardinality(1 .. c) = c
        BY <4>3, <4>4
      <4> QED
        BY <4>2, <4>5 DEF c
    <3>2. IsFiniteSet({p}) /\ Cardinality({p}) = 1
      BY FS_Singleton
    <3> DEFINE S == 1 .. p * v
    <3>3. New = {p} \X S
      BY <2>2
    <3> HIDE DEF S, New
    <3>4. IsFiniteSet(New) /\ Cardinality(New) = 1 * Cardinality(S)
      BY <3>1, <3>2, <3>3, FS_Product DEF S
    <3> QED
      BY <2>2, <3>1, <3>4 DEF S
  <2>6. Cells(Seen(k + 1)) = Cells(Seen(k)) \cup New
    <3> HIDE DEF Seen, p
    <3> QED
      BY <2>4
  <2>7. \A x \in Cells(Seen(k)) : x \notin New
    <3> HIDE DEF Seen, p
    <3> QED
      BY <2>3
  <2> HIDE DEF Cells, Seen, New
  <2>8. /\ IsFiniteSet(Cells(Seen(k + 1)))
        /\ Cardinality(Cells(Seen(k + 1))) = Cardinality(Cells(Seen(k))) + p * v
    BY <1>4, <2>5, <2>6, <2>7, CountedApart, ZenonT(30)
  <2> QED
    BY <1>2, <1>4, <2>1, <2>8
<1>5. n \in T
  <2> HIDE DEF T, n
  <2>1. \A k \in 0 .. n : k \in T
    BY <1>1, <1>3, <1>4, UpTo
  <2>2. n \in 0 .. n
    BY <1>1
  <2> QED
    BY <2>1, <2>2
<1>6. Worth(t) = u[n]
  BY DEF Worth, u
<1> QED
  BY <1>1, <1>2, <1>5, <1>6 DEF Reference

\* The first levels of a list are worth what the map says of their prices.
LEMMA PrefixCounts ==
  ASSUME NEW t \in Seq(Levels), OnePerPrice(t), NEW map,
         \A k \in 1 .. Len(t) : map[t[k][1]] = t[k][2],
         NEW r \in 0 .. Len(t)
  PROVE  /\ Worth(SubSeq(t, 1, r)) = Reference(map, {t[k][1] : k \in 1 .. r})
         /\ Worth(SubSeq(t, 1, r)) \in Nat
<1> DEFINE s == SubSeq(t, 1, r)
<1>1. Len(t) \in Nat /\ \A k \in 1 .. r : k \in 1 .. Len(t) /\ t[k] \in Levels
  OBVIOUS
<1>2. s \in Seq(Levels) /\ Len(s) = r /\ \A k \in 1 .. r : s[k] = t[k]
  BY <1>1, SubSeqProperties
<1> HIDE DEF s
<1>3. OnePerPrice(s) /\ \A k \in 1 .. Len(s) : map[s[k][1]] = s[k][2]
  BY <1>1, <1>2 DEF OnePerPrice
<1>4. Worth(s) = Reference(map, {s[k][1] : k \in 1 .. Len(s)}) /\ Worth(s) \in Nat
  BY <1>2, <1>3, WorthCounts
<1>5. {s[k][1] : k \in 1 .. Len(s)} = {t[k][1] : k \in 1 .. r}
  BY <1>2
<1> QED
  BY <1>4, <1>5 DEF s

\* In a list in some order of prices (Ahead) the level at a place has as many others
\* ahead of it as there are places before, so the first n levels are those with fewer
\* than n ahead of them.
InOrder(t, Ahead) ==
  \A j, k \in 1 .. Len(t) : <<t[j][1], t[k][1]>> \in Ahead <=> j < k

Foremost(P, Ahead, n) == {p \in P : Cardinality({q \in P : <<q, p>> \in Ahead}) < n}

LEMMA FirstOnes ==
  ASSUME NEW t \in Seq(Levels), OnePerPrice(t), NEW Ahead, InOrder(t, Ahead), NEW n \in Nat
  PROVE  \E r \in 0 .. Len(t) :
           /\ IterFromFirst(t, n) = SubSeq(t, 1, r)
           /\ Foremost({t[k][1] : k \in 1 .. Len(t)}, Ahead, n) = {t[k][1] : k \in 1 .. r}
<1> DEFINE P == {t[k][1] : k \in 1 .. Len(t)}
           Lead(p) == {q \in P : <<q, p>> \in Ahead}
           r == Min({n, Len(t)})
<1>1. Len(t) \in Nat /\ \A j, k \in 1 .. Len(t) : t[j][1] = t[k][1] => j = k
  BY DEF OnePerPrice
<1>2. r \in 0 .. Len(t) /\ r <= n /\ (r = n \/ r = Len(t))
  BY <1>1 DEF Min
<1> HIDE DEF r
<1>3. ASSUME NEW k \in 1 .. Len(t)
      PROVE  Cardinality(Lead(t[k][1])) = k - 1
  <2>1. Lead(t[k][1]) = {t[j][1] : j \in 1 .. k - 1}
    <3>1. \A j \in 1 .. Len(t) : <<t[j][1], t[k][1]>> \in Ahead <=> j \in 1 .. k - 1
      BY <1>1 DEF InOrder
    <3>2. \A j \in 1 .. k - 1 : j \in 1 .. Len(t)
      BY <1>1
    <3> QED
      BY <3>1, <3>2
  <2> DEFINE f == [j \in 1 .. Len(t) |-> t[j][1]]
  <2>2. \A j \in 1 .. k - 1 : j \in 1 .. Len(t) /\ f[j] = t[j][1]
    BY <1>1
  <2>3. \A i, j \in 1 .. k - 1 : f[i] = f[j] => i = j
    BY <1>1, <2>2
  <2> HIDE DEF f
  <2>4. {t[j][1] : j \in 1 .. k - 1} = {f[j] : j \in 1 .. k - 1}
    BY <2>2
  <2>5. Cardinality({f[j] : j \in 1 .. k - 1}) = ((k - 1) + 1) - 1
    <3>1. 1 \in Int /\ k - 1 \in Int /\ 1 <= (k - 1) + 1
      BY <1>1
    <3> QED
      BY <2>3, <3>1, AsMany
  <2>6. ((k - 1) + 1) - 1 = k - 1
    BY <1>1
  <2> HIDE DEF Lead
  <2>7. Cardinality(Lead(t[k][1])) = Cardinality({f[j] : j \in 1 .. k - 1})
    BY <2>1, <2>4
  <2> QED
    BY <2>5, <2>6, <2>7
<1>4. Foremost(P, Ahead, n) = {t[k][1] : k \in 1 .. r}
  <2>3. Foremost(P, Ahead, n) = {p \in P : Cardinality(Lead(p)) < n}
    BY DEF Foremost
  <2> HIDE DEF Lead
  <2>1. \A k \in 1 .. Len(t) : Cardinality(Lead(t[k][1])) < n <=> k \in 1 .. r
    BY <1>1, <1>2, <1>3
  <2>2. \A k \in 1 .. r : k \in 1 .. Len(t)
    BY <1>1, <1>2
  <2> QED
    BY <2>1, <2>2, <2>3
<1>5. IterFromFirst(t, n) = SubSeq(t, 1, r)
  BY DEF IterFromFirst, r
<1> QED
  BY <1>2, <1>4, <1>5

\* Levels up to the first beyond a boundary are all that are not beyond it.
LEMMA UntilBoundary ==
  ASSUME NEW t \in Seq(Levels), NEW beyond,
         \A j, k \in 1 .. Len(t) : j < k /\ t[j][1] \in beyond => t[k][1] \in beyond
  PROVE  \E r \in 0 .. Len(t) :
           /\ Until(t, beyond) = SubSeq(t, 1, r)
           /\ \A k \in 1 .. Len(t) : k <= r <=> t[k][1] \notin beyond
<1> DEFINE stops == {k \in DOMAIN t : t[k][1] \in beyond}
<1>1. Len(t) \in Nat /\ DOMAIN t = 1 .. Len(t)
  OBVIOUS
<1>2. CASE stops = {}
  <2>1. Until(t, beyond) = t
    BY <1>2 DEF Until
  <2>2. t = SubSeq(t, 1, Len(t))
    BY SubSeqFull
  <2>3. \A k \in 1 .. Len(t) : k <= Len(t) <=> t[k][1] \notin beyond
    BY <1>1, <1>2
  <2>4. Until(t, beyond) = SubSeq(t, 1, Len(t)) /\ Len(t) \in 0 .. Len(t)
    BY <1>1, <2>1, <2>2
  <2> QED
    BY <2>3, <2>4
<1>3. CASE stops # {}
  <2>1. Min(stops) \in stops /\ \A y \in stops : Min(stops) <= y
    <3>1. stops \in SUBSET Nat
      BY <1>1
    <3> HIDE DEF stops
    <3> QED
      BY <1>3, <3>1, LeastOf
  <2> DEFINE m == Min(stops)
  <2>2. Until(t, beyond) = SubSeq(t, 1, m - 1)
    BY <1>3 DEF Until
  <2> HIDE DEF m
  <2>3. /\ m \in 1 .. Len(t) /\ t[m][1] \in beyond
        /\ \A k \in 1 .. Len(t) : t[k][1] \in beyond => m <= k
    BY <1>1, <2>1 DEF m
  <2>4. m - 1 \in 0 .. Len(t)
    BY <1>1, <2>3
  <2>5. \A k \in 1 .. Len(t) : k <= m - 1 <=> t[k][1] \notin beyond
    <3> SUFFICES ASSUME NEW k \in 1 .. Len(t)
                 PROVE  k <= m - 1 <=> t[k][1] \notin beyond
      OBVIOUS
    <3>1. k \in Nat /\ m \in Nat
      BY <1>1, <2>3
    <3>2. k <= m - 1 <=> ~(m <= k)
      BY <3>1
    <3>3. m <= k => k = m \/ m < k
      BY <3>1
    <3> QED
      BY <2>3, <3>2, <3>3
  <2> QED
    BY <2>2, <2>4, <2>5
<1> QED
  BY <1>2, <1>3

-----------------------------------------------------------------------------
(* Both sides as lists, best first. *)

LEMMA ListedSide ==
  ASSUME NEW l \in Sides
  PROVE  /\ l \in Seq(Levels) /\ OnePerPrice(l) /\ Len(l) \in Nat
         /\ \A j, k \in 1 .. Len(l) : l[j][1] < l[k][1] <=> j < k
         /\ \A k \in 1 .. Len(l) : AsMap(l)[l[k][1]] = l[k][2]
         /\ DOMAIN AsMap(l) = {l[k][1] : k \in 1 .. Len(l)}
         /\ DOMAIN AsMap(l) \subseteq Prices
<1>1. /\ Len(l) \in Nat /\ l \in Seq(Levels)
      /\ \A k \in 1 .. Len(l) : l[k] \in Levels /\ l[k][1] \in Nat
      /\ \A j, k \in 1 .. Len(l) : j < k => l[j][1] < l[k][1]
      /\ ToSet(l) = {l[k] : k \in 1 .. Len(l)}
  BY SideParts DEF Sides
<1>2. \A j, k \in 1 .. Len(l) : l[j][1] < l[k][1] <=> j < k
  <2> SUFFICES ASSUME NEW j \in 1 .. Len(l), NEW k \in 1 .. Len(l), l[j][1] < l[k][1], ~(j < k)
               PROVE  FALSE
    BY <1>1
  <2>1. j = k \/ k < j
    BY <1>1
  <2>2. l[j][1] \in Nat /\ l[k][1] \in Nat
    BY <1>1
  <2> QED
    BY <1>1, <2>1, <2>2
<1>3. /\ DOMAIN AsMap(l) = {x[1] : x \in ToSet(l)}
      /\ \A x \in ToSet(l) : AsMap(l)[x[1]] = x[2]
  BY MapParts
<1>4. \A k \in 1 .. Len(l) : l[k] \in ToSet(l)
  BY <1>1
<1>5. DOMAIN AsMap(l) = {l[k][1] : k \in 1 .. Len(l)}
  BY <1>1, <1>3
<1>6. \A k \in 1 .. Len(l) : l[k][1] \in Prices
  BY <1>1, LevelParts
<1> QED
  BY <1>1, <1>2, <1>3, <1>4, <1>5, <1>6, SideOrders

LEMMA ListedReverse ==
  ASSUME NEW l \in Sides
  PROVE  LET t == Reverse(l) IN
         /\ t \in Seq(Levels) /\ OnePerPrice(t) /\ Len(t) = Len(l)
         /\ \A j, k \in 1 .. Len(t) : t[j][1] > t[k][1] <=> j < k
         /\ \A k \in 1 .. Len(t) : AsMap(l)[t[k][1]] = t[k][2]
         /\ DOMAIN AsMap(l) = {t[k][1] : k \in 1 .. Len(t)}
<1> DEFINE n == Len(l)
           t == Reverse(l)
<1>1. /\ n \in Nat /\ l \in Seq(Levels)
      /\ \A j, k \in 1 .. n : l[j][1] < l[k][1] <=> j < k
      /\ \A k \in 1 .. n : AsMap(l)[l[k][1]] = l[k][2]
      /\ DOMAIN AsMap(l) = {l[k][1] : k \in 1 .. n}
  BY ListedSide
<1>2. t \in Seq(Levels) /\ OnePerPrice(t) /\ t = [k \in 1 .. n |-> l[(n - k) + 1]]
  BY SideOrders DEF Reverse
<1> HIDE DEF t
<1>3. \A k \in 1 .. n : (n - k) + 1 \in 1 .. n /\ (n - ((n - k) + 1)) + 1 = k
  BY <1>1
<1>4. Len(t) = n /\ \A k \in 1 .. n : t[k] = l[(n - k) + 1] /\ l[k] = t[(n - k) + 1]
  BY <1>1, <1>2, <1>3
<1>5. \A j, k \in 1 .. n : t[j][1] > t[k][1] <=> j < k
  <2> SUFFICES ASSUME NEW j \in 1 .. n, NEW k \in 1 .. n
               PROVE  t[j][1] > t[k][1] <=> j < k
    OBVIOUS
  <2>1. l[(n - k) + 1][1] < l[(n - j) + 1][1] <=> (n - k) + 1 < (n - j) + 1
    BY <1>1, <1>3
  <2>2. (n - k) + 1 < (n - j) + 1 <=> j < k
    BY <1>1
  <2>3. l[(n - j) + 1][1] \in Nat /\ l[(n - k) + 1][1] \in Nat
    BY <1>3, SideParts
  <2> QED
    BY <1>4, <2>1, <2>2, <2>3
<1>6. \A k \in 1 .. n : AsMap(l)[t[k][1]] = t[k][2]
  BY <1>1, <1>3, <1>4, ZenonT(30)
<1>7. {l[k][1] : k \in 1 .. n} = {t[k][1] : k \in 1 .. n}
  <2>1. \A k \in 1 .. n : \E j \in 1 .. n : l[k] = t[j]
    BY <1>3, <1>4
  <2>2. \A k \in 1 .. n : \E j \in 1 .. n : t[k] = l[j]
    BY <1>3, <1>4
  <2>3. ASSUME NEW k \in 1 .. n
        PROVE  l[k][1] \in {t[j][1] : j \in 1 .. n}
    BY <2>1
  <2>4. ASSUME NEW k \in 1 .. n
        PROVE  t[k][1] \in {l[j][1] : j \in 1 .. n}
    BY <2>2
  <2> QED
    BY <2>3, <2>4
<1> QED
  BY <1>1, <1>2, <1>4, <1>5, <1>6, <1>7 DEF t

LEMMA EmptyMap ==
  ASSUME NEW l \in Sides
  PROVE  AsMap(l) = <<>> <=> l = <<>>
<1>1. ASSUME l = <<>>
      PROVE  AsMap(l) = <<>>
  <2>1. AsMap(l) = [p \in DOMAIN AsMap(l) |-> AsMap(l)[p]] /\ DOMAIN AsMap(l) = {}
    BY <1>1, EmptySide, MapParts
  <2> QED
    BY <2>1
<1>2. ASSUME l # <<>>
      PROVE  AsMap(l) # <<>>
  <2>1. l \in Seq(Levels) /\ DOMAIN AsMap(l) = {l[k][1] : k \in 1 .. Len(l)}
    BY ListedSide
  <2>2. 1 \in 1 .. Len(l)
    <3>1. Len(l) \in Nat /\ Len(l) # 0
      BY <1>2, <2>1, EmptySeq
    <3> QED
      BY <3>1
  <2>3. DOMAIN AsMap(l) # {}
    BY <2>1, <2>2
  <2> QED
    BY <2>3
<1> QED
  BY <1>1, <1>2

LEMMA AskLiquidityExact ==
  ASSUME asks \in Sides, NEW s \in Slippages
  PROVE  LET a == AsMap(asks) IN
         AskLiquidity(s) = IF a = <<>> THEN {} ELSE
           {Reference(a, {p \in DOMAIN a : 100 * p <= Min(DOMAIN a) * (100 + s)})}
<1> DEFINE a == AsMap(asks)
           n == Len(asks)
<1>0. /\ asks \in Seq(Levels) /\ OnePerPrice(asks) /\ n \in Nat
      /\ \A j, k \in 1 .. n : asks[j][1] < asks[k][1] <=> j < k
      /\ \A k \in 1 .. n : a[asks[k][1]] = asks[k][2]
      /\ DOMAIN a = {asks[k][1] : k \in 1 .. n} /\ DOMAIN a \subseteq Prices
      /\ s \in Nat /\ Prices \subseteq Nat
  <2>1. s \in 0 .. 100 /\ Prices \subseteq Nat
    BY LevelAssumption
  <2>2. s \in Nat
    BY <2>1
  <2>3. /\ asks \in Seq(Levels) /\ OnePerPrice(asks) /\ n \in Nat
        /\ \A j, k \in 1 .. n : asks[j][1] < asks[k][1] <=> j < k
        /\ \A k \in 1 .. n : a[asks[k][1]] = asks[k][2]
        /\ DOMAIN a = {asks[k][1] : k \in 1 .. n} /\ DOMAIN a \subseteq Prices
    BY ListedSide
  <2> HIDE DEF a
  <2> QED
    BY <2>1, <2>2, <2>3
<1>1. CASE asks = <<>>
  BY <1>1, EmptyMap DEF AskLiquidity, BestAsk, First
<1>2. CASE asks # <<>>
  <2> DEFINE best == asks[1]
             B == {p \in Prices : 100 * p > best[1] * (100 + s)}
  <2>1. a # <<>>
    BY <1>2, EmptyMap
  <2>2. AskLiquidity(s) = {Worth(Until(asks, B))}
    <3>1. Head(asks) = best
      BY <1>0, <1>2
    <3>2. BestAsk = {best}
      BY <1>2, <3>1 DEF BestAsk, First
    <3> HIDE DEF best
    <3> QED
      BY <3>2 DEF AskLiquidity
  <2>3. 1 \in 1 .. n
    <3>1. n \in Nat /\ n # 0
      BY <1>0, <1>2, EmptySeq
    <3> QED
      BY <3>1
  <2>4. Min(DOMAIN a) = best[1]
    <3>1. best[1] \in DOMAIN a /\ DOMAIN a \subseteq Nat
      BY <1>0, <2>3
    <3>2. \A p \in DOMAIN a : best[1] <= p
      <4> SUFFICES ASSUME NEW k \in 1 .. n
                   PROVE  asks[1][1] <= asks[k][1]
        BY <1>0
      <4>1. k = 1 \/ 1 < k
        BY <1>0
      <4>2. asks[k][1] \in Nat /\ asks[1][1] \in Nat
        BY <1>0, <2>3
      <4> QED
        BY <1>0, <2>3, <4>1, <4>2
    <3>3. Min(DOMAIN a) \in DOMAIN a /\ \A p \in DOMAIN a : Min(DOMAIN a) <= p
      BY <3>1, LeastOf
    <3> DEFINE m == Min(DOMAIN a)
    <3> HIDE DEF m, a, best
    <3>4. m \in DOMAIN a /\ \A p \in DOMAIN a : m <= p
      BY <3>3 DEF m
    <3>5. m <= best[1] /\ best[1] <= m /\ m \in Nat /\ best[1] \in Nat
      BY <3>1, <3>2, <3>4
    <3> QED
      BY <3>5 DEF m
  <2> DEFINE c == best[1] * (100 + s)
  <2>5. c \in Nat
    <3>1. best[1] \in Nat
      BY <1>0, <2>3
    <3> QED
      BY <1>0, <3>1
  <2>6. B = {p \in Prices : 100 * p > c}
    OBVIOUS
  <2> HIDE DEF c, B
  <2>7. \A j, k \in 1 .. n : j < k /\ asks[j][1] \in B => asks[k][1] \in B
    <3> SUFFICES ASSUME NEW j \in 1 .. n, NEW k \in 1 .. n, j < k, asks[j][1] \in B
                 PROVE  asks[k][1] \in B
      OBVIOUS
    <3>1. asks[j][1] < asks[k][1] /\ asks[k][1] \in Prices
      BY <1>0
    <3>2. asks[j][1] \in Nat /\ asks[k][1] \in Nat /\ 100 * asks[j][1] > c
      BY <1>0, <2>6
    <3>3. 100 * asks[k][1] > c
      BY <2>5, <3>1, <3>2
    <3> QED
      BY <2>6, <3>1, <3>3
  <2>8. PICK r \in 0 .. n : /\ Until(asks, B) = SubSeq(asks, 1, r)
                            /\ \A k \in 1 .. n : k <= r <=> asks[k][1] \notin B
    BY <1>0, <2>7, UntilBoundary
  <2>9. Worth(Until(asks, B)) = Reference(a, {asks[k][1] : k \in 1 .. r})
    <3> HIDE DEF a
    <3> QED
      BY <1>0, <2>8, PrefixCounts
  <2>10. {asks[k][1] : k \in 1 .. r} = {p \in DOMAIN a : 100 * p <= c}
    <3>1. \A k \in 1 .. n : k \in 1 .. r <=> 100 * asks[k][1] <= c
      <4> SUFFICES ASSUME NEW k \in 1 .. n
                   PROVE  k \in 1 .. r <=> 100 * asks[k][1] <= c
        OBVIOUS
      <4>1. asks[k][1] \in Prices /\ asks[k][1] \in Nat
        BY <1>0
      <4>2. asks[k][1] \notin B <=> 100 * asks[k][1] <= c
        BY <2>5, <2>6, <4>1
      <4>3. k \in 1 .. r <=> k <= r
        BY <1>0, <2>8
      <4> QED
        BY <2>8, <4>2, <4>3
    <3>2. \A k \in 1 .. r : k \in 1 .. n
      BY <1>0, <2>8
    <3> HIDE DEF a
    <3> QED
      BY <1>0, <3>1, <3>2
  <2> HIDE DEF best, a
  <2>11. {p \in DOMAIN a : 100 * p <= c} = {p \in DOMAIN a : 100 * p <= Min(DOMAIN a) * (100 + s)}
    BY <2>4 DEF c
  <2> QED
    BY <2>1, <2>2, <2>9, <2>10, <2>11 DEF a
<1> QED
  BY <1>1, <1>2

LEMMA BidLiquidityExact ==
  ASSUME bids \in Sides, NEW s \in Slippages
  PROVE  LET b == AsMap(bids) IN
         BidLiquidity(s) = IF b = <<>> THEN {} ELSE
           {Reference(b, {p \in DOMAIN b : 100 * p >= Max(DOMAIN b) * (100 - s)})}
<1> DEFINE b == AsMap(bids)
           t == Reverse(bids)
           n == Len(t)
<1>0. /\ t \in Seq(Levels) /\ OnePerPrice(t) /\ n \in Nat
      /\ \A j, k \in 1 .. n : t[j][1] > t[k][1] <=> j < k
      /\ \A k \in 1 .. n : b[t[k][1]] = t[k][2]
      /\ DOMAIN b = {t[k][1] : k \in 1 .. n} /\ DOMAIN b \subseteq Prices
      /\ 100 - s \in Nat /\ Prices \subseteq Nat
  <2>1. s \in 0 .. 100 /\ Prices \subseteq Nat /\ DOMAIN b \subseteq Prices
    BY ListedSide, LevelAssumption
  <2>2. 100 - s \in Nat
    BY <2>1
  <2>3. t \in Seq(Levels) => Len(t) \in Nat
    OBVIOUS
  <2> HIDE DEF b, t
  <2> QED
    BY <2>1, <2>2, <2>3, ListedReverse DEF b, t
<1>9. t = <<>> <=> bids = <<>>
  <2>1. Len(t) = Len(bids) /\ bids \in Seq(Levels)
    BY ListedReverse, ListedSide
  <2> HIDE DEF t
  <2> QED
    BY <1>0, <2>1, EmptySeq
<1> HIDE DEF t
<1>1. CASE bids = <<>>
  BY <1>1, <1>9, EmptyMap DEF BidLiquidity, BestBid, First, t
<1>2. CASE bids # <<>>
  <2> DEFINE best == t[1]
             B == {p \in Prices : 100 * p < best[1] * (100 - s)}
  <2>1. b # <<>>
    BY <1>2, EmptyMap
  <2>2. BidLiquidity(s) = {Worth(Until(t, B))}
    <3>1. Head(t) = best
      BY <1>0, <1>2, <1>9
    <3>2. BestBid = {best}
      BY <1>2, <1>9, <3>1 DEF BestBid, First, t
    <3> HIDE DEF best
    <3> QED
      BY <3>2 DEF BidLiquidity, t
  <2>3. 1 \in 1 .. n
    <3>1. n \in Nat /\ n # 0
      BY <1>0, <1>2, <1>9, EmptySeq
    <3> QED
      BY <3>1
  <2>4. Max(DOMAIN b) = best[1]
    <3>1. best[1] \in DOMAIN b /\ DOMAIN b \subseteq Nat
      BY <1>0, <2>3
    <3>2. \A p \in DOMAIN b : best[1] >= p
      <4> SUFFICES ASSUME NEW k \in 1 .. n
                   PROVE  t[1][1] >= t[k][1]
        BY <1>0
      <4>1. k = 1 \/ 1 < k
        BY <1>0
      <4>2. t[k][1] \in Nat /\ t[1][1] \in Nat
        BY <1>0, <2>3
      <4> QED
        BY <1>0, <2>3, <4>1, <4>2
    <3> DEFINE D == DOMAIN b
               m == Max(D)
    <3>3. m \in D /\ \A p \in D : m >= p
      <4> HIDE DEF D, best
      <4> QED
        BY <3>1, <3>2 DEF Max, D
    <3> HIDE DEF m, b, best
    <3>5. m <= best[1] /\ best[1] <= m /\ m \in Nat /\ best[1] \in Nat
      BY <3>1, <3>2, <3>3
    <3> QED
      BY <3>5 DEF m
  <2> DEFINE c == best[1] * (100 - s)
  <2>5. c \in Nat
    <3>1. best[1] \in Nat
      BY <1>0, <2>3
    <3> DEFINE x == 100 - s
    <3> HIDE DEF x, best
    <3>2. x \in Nat
      BY <1>0 DEF x
    <3> QED
      BY <3>1, <3>2 DEF x
  <2>6. B = {p \in Prices : 100 * p < c}
    OBVIOUS
  <2> HIDE DEF c, B
  <2>7. \A j, k \in 1 .. n : j < k /\ t[j][1] \in B => t[k][1] \in B
    <3> SUFFICES ASSUME NEW j \in 1 .. n, NEW k \in 1 .. n, j < k, t[j][1] \in B
                 PROVE  t[k][1] \in B
      OBVIOUS
    <3>1. t[j][1] > t[k][1] /\ t[k][1] \in Prices
      BY <1>0
    <3>2. t[j][1] \in Nat /\ t[k][1] \in Nat /\ 100 * t[j][1] < c
      BY <1>0, <2>6
    <3>3. 100 * t[k][1] < c
      BY <2>5, <3>1, <3>2
    <3> QED
      BY <2>6, <3>1, <3>3
  <2>8. PICK r \in 0 .. n : /\ Until(t, B) = SubSeq(t, 1, r)
                            /\ \A k \in 1 .. n : k <= r <=> t[k][1] \notin B
    BY <1>0, <2>7, UntilBoundary
  <2>9. Worth(Until(t, B)) = Reference(b, {t[k][1] : k \in 1 .. r})
    <3> HIDE DEF b
    <3> QED
      BY <1>0, <2>8, PrefixCounts
  <2>10. {t[k][1] : k \in 1 .. r} = {p \in DOMAIN b : 100 * p >= c}
    <3>1. \A k \in 1 .. n : k \in 1 .. r <=> 100 * t[k][1] >= c
      <4> SUFFICES ASSUME NEW k \in 1 .. n
                   PROVE  k \in 1 .. r <=> 100 * t[k][1] >= c
        OBVIOUS
      <4>1. t[k][1] \in Prices /\ t[k][1] \in Nat
        BY <1>0
      <4>2. t[k][1] \notin B <=> 100 * t[k][1] >= c
        BY <2>5, <2>6, <4>1
      <4>3. k \in 1 .. r <=> k <= r
        BY <1>0, <2>8
      <4> QED
        BY <2>8, <4>2, <4>3
    <3>2. \A k \in 1 .. r : k \in 1 .. n
      BY <1>0, <2>8
    <3> HIDE DEF b
    <3> QED
      BY <1>0, <3>1, <3>2
  <2> HIDE DEF best, b
  <2>11. {p \in DOMAIN b : 100 * p >= c} = {p \in DOMAIN b : 100 * p >= Max(DOMAIN b) * (100 - s)}
    BY <2>4 DEF c
  <2> QED
    BY <2>1, <2>2, <2>9, <2>10, <2>11 DEF b
<1> QED
  BY <1>1, <1>2

LEMMA LowestOnes ==
  ASSUME NEW l \in Sides, NEW n \in Nat
  PROVE  \E r \in 0 .. Len(l) :
           /\ IterFromFirst(l, n) = SubSeq(l, 1, r)
           /\ {p \in DOMAIN AsMap(l) : Cardinality({q \in DOMAIN AsMap(l) : q < p}) < n}
                = {l[k][1] : k \in 1 .. r}
<1> DEFINE D == DOMAIN AsMap(l)
           Ahead == {x \in Nat \X Nat : x[1] < x[2]}
<1>1. /\ l \in Seq(Levels) /\ OnePerPrice(l) /\ D = {l[k][1] : k \in 1 .. Len(l)}
      /\ \A j, k \in 1 .. Len(l) : l[j][1] < l[k][1] <=> j < k
  BY ListedSide
<1>2. D \subseteq Nat
  BY ListedSide, LevelAssumption
<1> HIDE DEF D
<1>3. \A p, q \in Nat : <<q, p>> \in Ahead <=> q < p
  OBVIOUS
<1> HIDE DEF Ahead
<1>4. InOrder(l, Ahead)
  <2>1. \A k \in 1 .. Len(l) : l[k][1] \in Nat
    BY <1>1, <1>2
  <2> QED
    BY <1>1, <1>3, <2>1 DEF InOrder
<1>5. PICK r \in 0 .. Len(l) :
        /\ IterFromFirst(l, n) = SubSeq(l, 1, r)
        /\ Foremost(D, Ahead, n) = {l[k][1] : k \in 1 .. r}
  BY <1>1, <1>4, FirstOnes
<1>6. ASSUME NEW p \in D
      PROVE  {q \in D : <<q, p>> \in Ahead} = {q \in D : q < p}
  BY <1>2, <1>3
<1>7. Foremost(D, Ahead, n) = {p \in D : Cardinality({q \in D : q < p}) < n}
  BY <1>6 DEF Foremost
<1> QED
  BY <1>5, <1>7 DEF D

LEMMA HighestOnes ==
  ASSUME NEW l \in Sides, NEW n \in Nat
  PROVE  \E r \in 0 .. Len(Reverse(l)) :
           /\ IterFromLast(l, n) = SubSeq(Reverse(l), 1, r)
           /\ {p \in DOMAIN AsMap(l) : Cardinality({q \in DOMAIN AsMap(l) : q > p}) < n}
                = {Reverse(l)[k][1] : k \in 1 .. r}
<1> DEFINE D == DOMAIN AsMap(l)
           t == Reverse(l)
           Ahead == {x \in Nat \X Nat : x[1] > x[2]}
<1>1. /\ t \in Seq(Levels) /\ OnePerPrice(t) /\ D = {t[k][1] : k \in 1 .. Len(t)}
      /\ \A j, k \in 1 .. Len(t) : t[j][1] > t[k][1] <=> j < k
  BY ListedReverse
<1>2. D \subseteq Nat
  BY ListedSide, LevelAssumption
<1> HIDE DEF D, t
<1>3. \A p, q \in Nat : <<q, p>> \in Ahead <=> q > p
  OBVIOUS
<1> HIDE DEF Ahead
<1>4. InOrder(t, Ahead)
  <2>1. \A k \in 1 .. Len(t) : t[k][1] \in Nat
    BY <1>1, <1>2
  <2> QED
    BY <1>1, <1>3, <2>1 DEF InOrder
<1>5. PICK r \in 0 .. Len(t) :
        /\ IterFromFirst(t, n) = SubSeq(t, 1, r)
        /\ Foremost(D, Ahead, n) = {t[k][1] : k \in 1 .. r}
  BY <1>1, <1>4, FirstOnes
<1>6. ASSUME NEW p \in D
      PROVE  {q \in D : <<q, p>> \in Ahead} = {q \in D : q > p}
  BY <1>2, <1>3
<1>7. Foremost(D, Ahead, n) = {p \in D : Cardinality({q \in D : q > p}) < n}
  BY <1>6 DEF Foremost
<1>8. IterFromLast(l, n) = IterFromFirst(t, n)
  BY DEF IterFromLast, t
<1> QED
  BY <1>5, <1>7, <1>8 DEF D, t

LEMMA ConcatSet ==
  ASSUME NEW S, NEW s \in Seq(S), NEW t \in Seq(S)
  PROVE  ToSet(s \o t) = ToSet(s) \cup ToSet(t)
<1> DEFINE m == Len(s)
           n == Len(t)
           u == s \o t
<1>1. /\ m \in Nat /\ n \in Nat /\ DOMAIN s = 1 .. m /\ DOMAIN t = 1 .. n /\ DOMAIN u = 1 .. m + n
      /\ \A k \in 1 .. m + n : u[k] = IF k <= m THEN s[k] ELSE t[k - m]
  BY ConcatProperties
<1> HIDE DEF u
<1>2. ASSUME NEW k \in 1 .. m + n
      PROVE  u[k] \in ToSet(s) \cup ToSet(t)
  <2>1. CASE k <= m
    <3>1. k \in 1 .. m /\ u[k] = s[k]
      BY <1>1, <2>1
    <3> QED
      BY <1>1, <3>1 DEF ToSet
  <2>2. CASE ~(k <= m)
    <3>1. k - m \in 1 .. n /\ u[k] = t[k - m]
      BY <1>1, <2>2
    <3> QED
      BY <1>1, <3>1 DEF ToSet
  <2> QED
    BY <2>1, <2>2
<1>3. ASSUME NEW k \in 1 .. m
      PROVE  s[k] \in ToSet(u)
  <2>1. k \in 1 .. m + n /\ u[k] = s[k]
    BY <1>1
  <2> QED
    BY <1>1, <2>1 DEF ToSet
<1>4. ASSUME NEW k \in 1 .. n
      PROVE  t[k] \in ToSet(u)
  <2>1. k + m \in 1 .. m + n /\ ~(k + m <= m) /\ (k + m) - m = k
    BY <1>1
  <2>2. u[k + m] = t[k]
    BY <1>1, <2>1
  <2> QED
    BY <1>1, <2>1, <2>2 DEF ToSet
<1>5. /\ ToSet(s) = {s[k] : k \in 1 .. m} /\ ToSet(t) = {t[k] : k \in 1 .. n}
      /\ ToSet(u) = {u[k] : k \in 1 .. m + n}
  BY <1>1 DEF ToSet
<1>6. ToSet(u) \subseteq ToSet(s) \cup ToSet(t)
  BY <1>2, <1>5
<1>7. ToSet(s) \cup ToSet(t) \subseteq ToSet(u)
  BY <1>3, <1>4, <1>5
<1> QED
  BY <1>6, <1>7 DEF u

\* Levels with their side.
Tag == {"Ask", "Bid"} \X Prices \X (Volumes \ {0})

LEMMA TaggedParts ==
  ASSUME NEW side \in {"Ask", "Bid"}, NEW t \in Seq(Levels)
  PROVE  /\ Tagged(side, t) \in Seq(Tag) /\ Len(Tagged(side, t)) = Len(t)
         /\ \A k \in 1 .. Len(t) : Tagged(side, t)[k] = <<side, t[k][1], t[k][2]>>
         /\ ToSet(Tagged(side, t)) = {<<side, t[k][1], t[k][2]>> : k \in 1 .. Len(t)}
<1> DEFINE w == Tagged(side, t)
           n == Len(t)
<1>1. n \in Nat /\ DOMAIN t = 1 .. n /\ \A k \in 1 .. n : t[k] \in Levels
  OBVIOUS
<1>2. w = [k \in 1 .. n |-> <<side, t[k][1], t[k][2]>>]
  BY <1>1 DEF Tagged
<1> HIDE DEF w
<1>3. \A k \in 1 .. n : <<side, t[k][1], t[k][2]>> \in Tag
  BY <1>1, LevelParts DEF Tag
<1>4. w \in [1 .. n -> Tag]
  BY <1>2, <1>3
<1>5. w \in Seq(Tag) /\ Len(w) = n /\ DOMAIN w = 1 .. n
  BY <1>1, <1>4
<1>6. \A k \in 1 .. n : w[k] = <<side, t[k][1], t[k][2]>>
  BY <1>2
<1>7. ToSet(w) = {<<side, t[k][1], t[k][2]>> : k \in 1 .. n}
  BY <1>5, <1>6 DEF ToSet
<1> QED
  BY <1>5, <1>6, <1>7 DEF w

\* The first levels of a list, with their side, say what the map says.
LEMMA TaggedPrefix ==
  ASSUME NEW side \in {"Ask", "Bid"}, NEW t \in Seq(Levels), NEW map,
         \A k \in 1 .. Len(t) : map[t[k][1]] = t[k][2],
         NEW r \in 0 .. Len(t)
  PROVE  /\ Tagged(side, SubSeq(t, 1, r)) \in Seq(Tag)
         /\ ToSet(Tagged(side, SubSeq(t, 1, r)))
              = {<<side, p, map[p]>> : p \in {t[k][1] : k \in 1 .. r}}
<1> DEFINE s == SubSeq(t, 1, r)
<1>1. Len(t) \in Nat /\ \A k \in 1 .. r : k \in 1 .. Len(t) /\ t[k] \in Levels
  OBVIOUS
<1>2. s \in Seq(Levels) /\ Len(s) = r /\ \A k \in 1 .. r : s[k] = t[k]
  BY <1>1, SubSeqProperties
<1> HIDE DEF s
<1>3. /\ Tagged(side, s) \in Seq(Tag)
      /\ ToSet(Tagged(side, s)) = {<<side, s[k][1], s[k][2]>> : k \in 1 .. r}
  BY <1>2, TaggedParts
<1>4. \A k \in 1 .. r : s[k][1] = t[k][1] /\ s[k][2] = map[t[k][1]]
  BY <1>1, <1>2
<1>5. {<<side, s[k][1], s[k][2]>> : k \in 1 .. r}
        = {<<side, t[k][1], map[t[k][1]]>> : k \in 1 .. r}
  BY <1>4
<1>6. {<<side, t[k][1], map[t[k][1]]>> : k \in 1 .. r}
        = {<<side, p, map[p]>> : p \in {t[k][1] : k \in 1 .. r}}
  OBVIOUS
<1> QED
  BY <1>3, <1>5, <1>6 DEF s

LEMMA SnapshotExact ==
  ASSUME asks \in Sides, bids \in Sides, NEW n \in Nat
  PROVE  LET a == AsMap(asks)
             b == AsMap(bids)
             Lowest == {p \in DOMAIN a : Cardinality({q \in DOMAIN a : q < p}) < n}
             Highest == {p \in DOMAIN b : Cardinality({q \in DOMAIN b : q > p}) < n}
             bid == Reference(b, Highest)
             ask == Reference(a, Lowest)
         IN /\ ToSet(Snapshot(n))
                 = {<<"Ask", p, a[p]>> : p \in Lowest} \cup {<<"Bid", p, b[p]>> : p \in Highest}
            /\ Imbalance(n) = IF bid + ask = 0 THEN {} ELSE {<<bid - ask, bid + ask>>}
<1> DEFINE a == AsMap(asks)
           b == AsMap(bids)
           t == Reverse(bids)
           Lowest == {p \in DOMAIN a : Cardinality({q \in DOMAIN a : q < p}) < n}
           Highest == {p \in DOMAIN b : Cardinality({q \in DOMAIN b : q > p}) < n}
<1>1. PICK r \in 0 .. Len(asks) : /\ IterFromFirst(asks, n) = SubSeq(asks, 1, r)
                                  /\ Lowest = {asks[k][1] : k \in 1 .. r}
  BY LowestOnes
<1>2. PICK s \in 0 .. Len(t) : /\ IterFromLast(bids, n) = SubSeq(t, 1, s)
                               /\ Highest = {t[k][1] : k \in 1 .. s}
  BY HighestOnes
<1>3. /\ asks \in Seq(Levels) /\ OnePerPrice(asks)
      /\ \A k \in 1 .. Len(asks) : a[asks[k][1]] = asks[k][2]
  BY ListedSide
<1>4. /\ t \in Seq(Levels) /\ OnePerPrice(t)
      /\ \A k \in 1 .. Len(t) : b[t[k][1]] = t[k][2]
  BY ListedReverse
<1> HIDE DEF a, b, t, Lowest, Highest
<1> DEFINE x == Tagged("Ask", IterFromFirst(asks, n))
           y == Tagged("Bid", IterFromLast(bids, n))
<1>5. x \in Seq(Tag) /\ ToSet(x) = {<<"Ask", p, a[p]>> : p \in Lowest}
  BY <1>1, <1>3, TaggedPrefix, SMTT(30)
<1>6. y \in Seq(Tag) /\ ToSet(y) = {<<"Bid", p, b[p]>> : p \in Highest}
  BY <1>2, <1>4, TaggedPrefix, SMTT(30)
<1>7. Snapshot(n) = x \o y
  BY DEF Snapshot
<1>8. ToSet(Snapshot(n))
        = {<<"Ask", p, a[p]>> : p \in Lowest} \cup {<<"Bid", p, b[p]>> : p \in Highest}
  <2> HIDE DEF x, y
  <2>1. ToSet(x \o y) = ToSet(x) \cup ToSet(y)
    BY <1>5, <1>6, ConcatSet
  <2> QED
    BY <1>5, <1>6, <1>7, <2>1
<1>9. Worth(IterFromFirst(asks, n)) = Reference(a, Lowest)
  BY <1>1, <1>3, PrefixCounts
<1>10. Worth(IterFromLast(bids, n)) = Reference(b, Highest)
  BY <1>2, <1>4, PrefixCounts
<1>11. Imbalance(n) =
         IF Reference(b, Highest) + Reference(a, Lowest) = 0 THEN {}
         ELSE {<<Reference(b, Highest) - Reference(a, Lowest),
                 Reference(b, Highest) + Reference(a, Lowest)>>}
  BY <1>9, <1>10 DEF Imbalance
<1> QED
  BY <1>8, <1>11 DEF a, b, Lowest, Highest

-----------------------------------------------------------------------------
(* Sorting by side and price. *)

Key(x) == <<x[1], x[2]>>

LEMMA TagParts ==
  ASSUME NEW x \in Tag
  PROVE  x = <<x[1], x[2], x[3]>> /\ x[1] \in {"Ask", "Bid"} /\ x[2] \in Prices /\ x[2] \in Nat
         /\ x[3] \in Volumes /\ x[3] # 0
<1>1. x = <<x[1], x[2], x[3]>> /\ x[1] \in {"Ask", "Bid"} /\ x[2] \in Prices
      /\ x[3] \in Volumes /\ x[3] # 0
  BY DEF Tag
<1>2. Prices \subseteq Nat
  BY LevelAssumption
<1> QED
  BY <1>1, <1>2

LEMMA BeforeOrders ==
  ASSUME NEW x \in Tag, NEW y \in Tag
  PROVE  /\ Before(x, y) => Key(x) # Key(y) /\ ~Before(y, x)
         /\ ~Before(x, y) /\ ~Before(y, x) => Key(x) = Key(y)
         /\ \A z \in Tag : Before(x, y) /\ Before(y, z) => Before(x, z)
<1>1. /\ x[1] \in {"Ask", "Bid"} /\ x[2] \in Nat /\ y[1] \in {"Ask", "Bid"} /\ y[2] \in Nat
      /\ \A z \in Tag : z[1] \in {"Ask", "Bid"} /\ z[2] \in Nat
  BY TagParts
<1>2. Before(x, y) => Key(x) # Key(y) /\ ~Before(y, x)
  BY <1>1 DEF Before, Key
<1>3. ~Before(x, y) /\ ~Before(y, x) => Key(x) = Key(y)
  BY <1>1 DEF Before, Key
<1>4. ASSUME NEW z \in Tag, Before(x, y), Before(y, z)
      PROVE  Before(x, z)
  BY <1>1, <1>4 DEF Before
<1> QED
  BY <1>2, <1>3, <1>4

KeysOnce(u) == \A j, k \in 1 .. Len(u) : Key(u[j]) = Key(u[k]) => j = k

Ordered(u) == u \in Seq(Tag) /\ \A j, k \in 1 .. Len(u) : j < k => Before(u[j], u[k])

LEMMA RankFits ==
  ASSUME NEW u \in Seq(Tag), KeysOnce(u)
  PROVE  \A i, j \in 1 .. Len(u) :
           /\ Rank(u, i) \in 1 .. Len(u)
           /\ Before(u[i], u[j]) => Rank(u, i) < Rank(u, j)
<1> DEFINE n == Len(u)
           Lower(i) == {k \in 1 .. n : Before(u[k], u[i])}
<1>1. n \in Nat /\ DOMAIN u = 1 .. n /\ \A k \in 1 .. n : u[k] \in Tag
  OBVIOUS
<1>2. IsFiniteSet(1 .. n) /\ Cardinality(1 .. n) = n
  <2>1. Cardinality(1 .. n) = IF 1 > n THEN 0 ELSE (n - 1) + 1
    BY <1>1, FS_Interval
  <2> HIDE DEF n
  <2> QED
    BY <1>1, <2>1, FS_Interval
<1>3. ASSUME NEW i \in 1 .. n
      PROVE  Rank(u, i) = Cardinality(Lower(i)) + 1
  <2>1. ASSUME NEW k \in 1 .. n
        PROVE  Precedes(u, k, i) <=> Before(u[k], u[i])
    <3>1. ~Before(u[k], u[i]) /\ ~Before(u[i], u[k]) => k = i
      BY <1>1, BeforeOrders DEF KeysOnce
    <3>2. i \in Int /\ ~(i < i)
      BY <1>1
    <3> QED
      BY <3>1, <3>2 DEF Precedes
  <2>2. {k \in DOMAIN u : Precedes(u, k, i)} = Lower(i)
    BY <1>1, <2>1
  <2> HIDE DEF Lower
  <2> QED
    BY <2>2 DEF Rank
<1>4. ASSUME NEW i \in 1 .. n
      PROVE  IsFiniteSet(Lower(i)) /\ Cardinality(Lower(i)) \in 0 .. n - 1
  <2>1. i \notin Lower(i)
    BY <1>1, BeforeOrders
  <2>2. Lower(i) \in SUBSET (1 .. n)
    OBVIOUS
  <2> HIDE DEF Lower, n
  <2>3. /\ IsFiniteSet(Lower(i)) /\ Cardinality(Lower(i)) <= n
        /\ n = Cardinality(Lower(i)) => 1 .. n = Lower(i)
    BY <1>2, <2>2, FS_Subset
  <2>4. Cardinality(Lower(i)) \in Nat
    BY <2>3, FS_CardinalityType
  <2>5. Cardinality(Lower(i)) # n
    BY <2>1, <2>3
  <2> QED
    BY <1>1, <2>3, <2>4, <2>5
<1>5. ASSUME NEW i \in 1 .. n, NEW j \in 1 .. n, Before(u[i], u[j])
      PROVE  Cardinality(Lower(i)) < Cardinality(Lower(j))
  <2>1. Lower(i) \in SUBSET Lower(j)
    BY <1>1, <1>5, BeforeOrders
  <2>2. i \in Lower(j) /\ i \notin Lower(i)
    BY <1>1, <1>5, BeforeOrders
  <2>3. IsFiniteSet(Lower(i)) /\ IsFiniteSet(Lower(j))
    BY <1>4
  <2> HIDE DEF Lower
  <2>4. Cardinality(Lower(i)) \in Nat /\ Cardinality(Lower(j)) \in Nat
    BY <2>3, FS_CardinalityType
  <2>5. Cardinality(Lower(i)) <= Cardinality(Lower(j))
        /\ (Cardinality(Lower(j)) = Cardinality(Lower(i)) => Lower(j) = Lower(i))
    BY <2>1, <2>3, FS_Subset
  <2> QED
    BY <2>2, <2>4, <2>5
<1> HIDE DEF Lower
<1>6. ASSUME NEW i \in 1 .. n
      PROVE  Rank(u, i) \in 1 .. n
  BY <1>1, <1>3, <1>4
<1>7. ASSUME NEW i \in 1 .. n, NEW j \in 1 .. n, Before(u[i], u[j])
      PROVE  Rank(u, i) < Rank(u, j)
  <2>1. Cardinality(Lower(i)) \in Nat /\ Cardinality(Lower(j)) \in Nat
    BY <1>4
  <2> QED
    BY <1>3, <1>5, <1>7, <2>1
<1> QED
  BY <1>6, <1>7

\* Sorting puts each level at its rank, and so in order.
LEMMA SortOrders ==
  ASSUME NEW u \in Seq(Tag), KeysOnce(u)
  PROVE  /\ Ordered(SortedLevels(u)) /\ Len(SortedLevels(u)) = Len(u)
         /\ ToSet(SortedLevels(u)) = ToSet(u)
<1> DEFINE n == Len(u)
           X == SortedLevels(u)
           f == [i \in 1 .. n |-> Rank(u, i)]
           from == [k \in 1 .. n |-> CHOOSE i \in 1 .. n : Rank(u, i) = k]
<1>1. n \in Nat /\ DOMAIN u = 1 .. n /\ \A k \in 1 .. n : u[k] \in Tag
  OBVIOUS
<1>2. \A i, j \in 1 .. n : /\ Rank(u, i) \in 1 .. n
                           /\ Before(u[i], u[j]) => Rank(u, i) < Rank(u, j)
  BY RankFits
<1>3. ASSUME NEW i \in 1 .. n, NEW j \in 1 .. n, Rank(u, i) = Rank(u, j)
      PROVE  i = j
  <2>1. ~Before(u[i], u[j]) /\ ~Before(u[j], u[i])
    <3>1. Rank(u, i) \in Int /\ Rank(u, j) \in Int
      BY <1>2
    <3> QED
      BY <1>2, <1>3, <3>1
  <2> QED
    BY <1>1, <2>1, BeforeOrders DEF KeysOnce
<1>4. \A k \in 1 .. n : \E i \in 1 .. n : Rank(u, i) = k
  <2>1. f \in Injection(1 .. n, 1 .. n)
    <3>1. f \in [1 .. n -> 1 .. n]
      BY <1>2
    <3>2. \A i, j \in 1 .. n : f[i] = f[j] => i = j
      BY <1>3
    <3> HIDE DEF f
    <3> QED
      BY <3>1, <3>2 DEF Injection, IsInjective
  <2>2. IsFiniteSet(1 .. n)
    BY <1>1, FS_Interval
  <2> DEFINE S == 1 .. n
  <2> HIDE DEF S
  <2>3. f \in Injection(S, S) => f \in Surjection(S, S)
    <3> HIDE DEF f
    <3>1. IsFiniteSet(S)
      BY <2>2 DEF S
    <3> QED
      BY <3>1, FS_Injection
  <2>4. f \in Surjection(1 .. n, 1 .. n)
    BY <2>1, <2>3 DEF S
  <2>5. \A k \in 1 .. n : \E i \in 1 .. n : f[i] = k
    <3> HIDE DEF f
    <3> QED
      BY <2>4 DEF Surjection
  <2> QED
    BY <2>5
<1>5. X = [k \in 1 .. n |-> u[from[k]]]
  <2>1. X = [k \in 1 .. n |-> u[CHOOSE i \in 1 .. n : Rank(u, i) = k]]
    BY <1>1 DEF SortedLevels
  <2> HIDE DEF X
  <2> QED
    BY <2>1
<1>6. \A k \in 1 .. n : from[k] \in 1 .. n /\ Rank(u, from[k]) = k
  BY <1>4
<1> HIDE DEF from, X
<1>7. \A i \in 1 .. n : from[Rank(u, i)] = i
  BY <1>2, <1>3, <1>6
<1>8. X \in Seq(Tag) /\ Len(X) = n /\ DOMAIN X = 1 .. n /\ \A k \in 1 .. n : X[k] = u[from[k]]
  <2>1. X \in [1 .. n -> Tag]
    BY <1>1, <1>5, <1>6
  <2> QED
    BY <1>1, <1>5, <2>1
<1>9. ASSUME NEW j \in 1 .. n, NEW k \in 1 .. n, j < k
      PROVE  Before(X[j], X[k])
  <2> SUFFICES ASSUME ~Before(X[j], X[k])
               PROVE  FALSE
    OBVIOUS
  <2>1. /\ from[j] \in 1 .. n /\ from[k] \in 1 .. n
        /\ Rank(u, from[j]) = j /\ Rank(u, from[k]) = k
        /\ X[j] = u[from[j]] /\ X[k] = u[from[k]]
    BY <1>6, <1>8
  <2>2. Before(X[k], X[j]) \/ Key(X[j]) = Key(X[k])
    BY <1>1, <2>1, BeforeOrders
  <2>3. CASE Before(X[k], X[j])
    <3>1. k < j
      BY <1>2, <2>1, <2>3
    <3> QED
      BY <1>1, <1>9, <3>1
  <2>4. CASE Key(X[j]) = Key(X[k])
    <3>1. from[j] = from[k]
      BY <2>1, <2>4 DEF KeysOnce
    <3>2. j = k
      BY <2>1, <3>1
    <3> QED
      BY <1>1, <1>9, <3>2
  <2> QED
    BY <2>2, <2>3, <2>4
<1>10. ToSet(X) = ToSet(u)
  <2>1. ToSet(X) = {X[k] : k \in 1 .. n} /\ ToSet(u) = {u[k] : k \in 1 .. n}
    BY <1>1, <1>8 DEF ToSet
  <2>2. \A k \in 1 .. n : X[k] \in {u[i] : i \in 1 .. n}
    BY <1>6, <1>8
  <2>3. \A i \in 1 .. n : u[i] \in {X[k] : k \in 1 .. n}
    BY <1>2, <1>7, <1>8
  <2> QED
    BY <2>1, <2>2, <2>3
<1> QED
  BY <1>8, <1>9, <1>10 DEF X, Ordered

-----------------------------------------------------------------------------
(* The walk of two pointers. *)

\* The levels before place i of one list that the other list has not.
Met(x, y, i) == {Key(x[k]) : k \in {l \in 1 .. i - 1 : x[l] \notin ToSet(y)}}

\* The pointers are at i and j: what is before one of them is before what is not yet
\* before the other, and n is the number of mismatches among it.
Aligned(x, y, i, j, n) ==
  /\ i \in 1 .. Len(x) + 1 /\ j \in 1 .. Len(y) + 1 /\ n \in Nat
  /\ \A k \in 1 .. Len(x), l \in 1 .. Len(y) :
       /\ k < i /\ l >= j => Before(x[k], y[l])
       /\ k >= i /\ l < j => Before(y[l], x[k])
  /\ IsFiniteSet(Met(x, y, i) \cup Met(y, x, j))
  /\ Cardinality(Met(x, y, i) \cup Met(y, x, j)) = n

LEMMA AlignedTurned ==
  ASSUME NEW x, NEW y, NEW i, NEW j, NEW n, Len(x) \in Nat, Len(y) \in Nat,
         Aligned(x, y, i, j, n)
  PROVE  Aligned(y, x, j, i, n)
<1>1. Met(x, y, i) \cup Met(y, x, j) = Met(y, x, j) \cup Met(x, y, i)
  OBVIOUS
<1> QED
  BY <1>1 DEF Aligned

LEMMA OrderedParts ==
  ASSUME NEW x, Ordered(x)
  PROVE  /\ x \in Seq(Tag) /\ Len(x) \in Nat /\ DOMAIN x = 1 .. Len(x)
         /\ \A k \in 1 .. Len(x) : x[k] \in Tag
         /\ \A j, k \in 1 .. Len(x) : j < k => Before(x[j], x[k])
         /\ \A z : z \in ToSet(x) <=> \E k \in 1 .. Len(x) : z = x[k]
BY DEF Ordered, ToSet

\* One place further in a list.
LEMMA MetNext ==
  ASSUME NEW x, NEW y, NEW i \in 1 .. Len(x), Len(x) \in Nat
  PROVE  Met(x, y, i + 1) =
           IF x[i] \notin ToSet(y) THEN Met(x, y, i) \cup {Key(x[i])} ELSE Met(x, y, i)
<1> DEFINE Old == {l \in 1 .. i - 1 : x[l] \notin ToSet(y)}
           New == {l \in 1 .. (i + 1) - 1 : x[l] \notin ToSet(y)}
<1>1. \A l : l \in 1 .. (i + 1) - 1 <=> l \in 1 .. i - 1 \/ l = i
  OBVIOUS
<1>2. CASE x[i] \notin ToSet(y)
  <2>1. New = Old \cup {i}
    BY <1>1, <1>2
  <2> HIDE DEF New, Old
  <2>2. {Key(x[k]) : k \in New} = {Key(x[k]) : k \in Old} \cup {Key(x[i])}
    BY <2>1
  <2> QED
    BY <1>2, <2>2 DEF Met, New, Old
<1>3. CASE x[i] \in ToSet(y)
  <2>1. New = Old
    BY <1>1, <1>3
  <2> HIDE DEF New, Old
  <2>2. {Key(x[k]) : k \in New} = {Key(x[k]) : k \in Old}
    BY <2>1
  <2> QED
    BY <1>3, <2>2 DEF Met, New, Old
<1> QED
  BY <1>2, <1>3

\* What has been met is before what has not.
LEMMA MetBefore ==
  ASSUME NEW x, Ordered(x), NEW y, Ordered(y), NEW i, NEW j, NEW n, Aligned(x, y, i, j, n),
         i <= Len(x), NEW key \in Met(x, y, i) \cup Met(y, x, j)
  PROVE  \E z \in Tag : Before(z, x[i]) /\ key = Key(z)
<1>1. /\ Len(x) \in Nat /\ Len(y) \in Nat
      /\ \A k \in 1 .. Len(x) : x[k] \in Tag
      /\ \A k \in 1 .. Len(y) : y[k] \in Tag
      /\ \A l, k \in 1 .. Len(x) : l < k => Before(x[l], x[k])
  BY OrderedParts
<1>2. /\ i \in 1 .. Len(x) /\ j \in 1 .. Len(y) + 1
      /\ \A l \in 1 .. Len(y) : l < j => Before(y[l], x[i])
  BY <1>1 DEF Aligned
<1>3. CASE key \in Met(x, y, i)
  <2>1. PICK k \in 1 .. i - 1 : key = Key(x[k])
    BY <1>3 DEF Met
  <2>2. k \in 1 .. Len(x) /\ k < i
    BY <1>1, <1>2
  <2> QED
    BY <1>1, <1>2, <2>1, <2>2
<1>4. CASE key \in Met(y, x, j)
  <2>1. PICK k \in 1 .. j - 1 : key = Key(y[k])
    BY <1>4 DEF Met
  <2>2. k \in 1 .. Len(y) /\ k < j
    BY <1>1, <1>2
  <2> QED
    BY <1>1, <1>2, <2>1, <2>2
<1> QED
  BY <1>3, <1>4

\* A level that comes before all the other list still has is a mismatch.
LEMMA OnlyHere ==
  ASSUME NEW x, Ordered(x), NEW y, Ordered(y), NEW i, NEW j, NEW n, Aligned(x, y, i, j, n),
         i <= Len(x), j <= Len(y) => Before(x[i], y[j])
  PROVE  Aligned(x, y, i + 1, j, n + 1)
<1>1. /\ Len(x) \in Nat /\ Len(y) \in Nat
      /\ \A k \in 1 .. Len(x) : x[k] \in Tag
      /\ \A k \in 1 .. Len(y) : y[k] \in Tag
      /\ \A l, k \in 1 .. Len(y) : l < k => Before(y[l], y[k])
      /\ \A z : z \in ToSet(y) <=> \E k \in 1 .. Len(y) : z = y[k]
  BY OrderedParts
<1>2. /\ i \in 1 .. Len(x) /\ j \in 1 .. Len(y) + 1 /\ n \in Nat
      /\ \A k \in 1 .. Len(x), l \in 1 .. Len(y) :
           /\ k < i /\ l >= j => Before(x[k], y[l])
           /\ k >= i /\ l < j => Before(y[l], x[k])
      /\ IsFiniteSet(Met(x, y, i) \cup Met(y, x, j))
      /\ Cardinality(Met(x, y, i) \cup Met(y, x, j)) = n
  BY <1>1 DEF Aligned
<1>3. ASSUME NEW l \in 1 .. Len(y)
      PROVE  IF l < j THEN Before(y[l], x[i]) ELSE Before(x[i], y[l])
  <2>1. CASE l < j
    BY <1>1, <1>2, <2>1
  <2>2. CASE ~(l < j)
    <3>1. j \in 1 .. Len(y) /\ Before(x[i], y[j]) /\ (l = j \/ j < l)
      BY <1>1, <1>2, <2>2
    <3> QED
      BY <1>1, <1>2, <2>2, <3>1, BeforeOrders
  <2> QED
    BY <2>1, <2>2
<1>4. x[i] \notin ToSet(y)
  <2> SUFFICES ASSUME NEW l \in 1 .. Len(y), x[i] = y[l]
               PROVE  FALSE
    BY <1>1
  <2>1. ~Before(x[i], y[l]) /\ ~Before(y[l], x[i])
    BY <1>1, <1>2, BeforeOrders
  <2> QED
    BY <1>3, <2>1
<1> DEFINE S == Met(x, y, i) \cup Met(y, x, j)
           T == Met(x, y, i + 1) \cup Met(y, x, j)
<1>5. T = S \cup {Key(x[i])}
  BY <1>1, <1>2, <1>4, MetNext
<1>6. Key(x[i]) \notin S
  <2> SUFFICES ASSUME Key(x[i]) \in S
               PROVE  FALSE
    OBVIOUS
  <2>1. PICK z \in Tag : Before(z, x[i]) /\ Key(x[i]) = Key(z)
    BY MetBefore
  <2> QED
    BY <1>1, <1>2, <2>1, BeforeOrders
<1>7. IsFiniteSet(T) /\ Cardinality(T) = n + 1
  <2> HIDE DEF S, T
  <2>1. IsFiniteSet(S) /\ Cardinality(S) = n
    BY <1>2 DEF S
  <2> QED
    BY <1>5, <1>6, <2>1, FS_AddElement
<1>8. ASSUME NEW k \in 1 .. Len(x), NEW l \in 1 .. Len(y)
      PROVE  /\ k < i + 1 /\ l >= j => Before(x[k], y[l])
             /\ k >= i + 1 /\ l < j => Before(y[l], x[k])
  <2>1. k < i + 1 => k < i \/ k = i
    BY <1>1, <1>2
  <2>2. k >= i + 1 => k >= i
    BY <1>1, <1>2
  <2>3. l >= j => ~(l < j)
    BY <1>1, <1>2
  <2> QED
    BY <1>2, <1>3, <2>1, <2>2, <2>3
<1>9. i + 1 \in 1 .. Len(x) + 1 /\ n + 1 \in Nat
  BY <1>1, <1>2
<1> QED
  BY <1>2, <1>7, <1>8, <1>9 DEF Aligned

\* Levels of the same key are a mismatch if they differ.
LEMMA InBoth ==
  ASSUME NEW x, Ordered(x), NEW y, Ordered(y), NEW i, NEW j, NEW n, Aligned(x, y, i, j, n),
         i <= Len(x), j <= Len(y), Key(x[i]) = Key(y[j])
  PROVE  Aligned(x, y, i + 1, j + 1, n + IF x[i][3] # y[j][3] THEN 1 ELSE 0)
<1>1. /\ Len(x) \in Nat /\ Len(y) \in Nat
      /\ \A k \in 1 .. Len(x) : x[k] \in Tag
      /\ \A k \in 1 .. Len(y) : y[k] \in Tag
      /\ \A l, k \in 1 .. Len(x) : l < k => Before(x[l], x[k])
      /\ \A l, k \in 1 .. Len(y) : l < k => Before(y[l], y[k])
      /\ \A z : z \in ToSet(x) <=> \E k \in 1 .. Len(x) : z = x[k]
      /\ \A z : z \in ToSet(y) <=> \E k \in 1 .. Len(y) : z = y[k]
  BY OrderedParts
<1>2. /\ i \in 1 .. Len(x) /\ j \in 1 .. Len(y) /\ n \in Nat
      /\ \A k \in 1 .. Len(x), l \in 1 .. Len(y) :
           /\ k < i /\ l >= j => Before(x[k], y[l])
           /\ k >= i /\ l < j => Before(y[l], x[k])
      /\ IsFiniteSet(Met(x, y, i) \cup Met(y, x, j))
      /\ Cardinality(Met(x, y, i) \cup Met(y, x, j)) = n
  BY <1>1 DEF Aligned
<1>3. x[i] \in Tag /\ y[j] \in Tag
  BY <1>1, <1>2
<1>4. x[i][3] = y[j][3] <=> x[i] = y[j]
  <2>1. /\ x[i] = <<x[i][1], x[i][2], x[i][3]>> /\ y[j] = <<y[j][1], y[j][2], y[j][3]>>
    BY <1>3, TagParts
  <2>2. x[i][1] = y[j][1] /\ x[i][2] = y[j][2]
    BY DEF Key
  <2> QED
    BY <2>1, <2>2
<1>5. ASSUME NEW l \in 1 .. Len(y), l # j
      PROVE  Key(x[i]) # Key(y[l])
  <2>1. l < j \/ j < l
    BY <1>1, <1>2, <1>5
  <2>2. Before(y[l], y[j]) \/ Before(y[j], y[l])
    BY <1>1, <1>2, <2>1
  <2> QED
    BY <1>1, <1>3, <2>2, BeforeOrders
<1>6. ASSUME NEW k \in 1 .. Len(x), k # i
      PROVE  Key(y[j]) # Key(x[k])
  <2>1. k < i \/ i < k
    BY <1>1, <1>2, <1>6
  <2>2. Before(x[k], x[i]) \/ Before(x[i], x[k])
    BY <1>1, <1>2, <2>1
  <2> QED
    BY <1>1, <1>3, <2>2, BeforeOrders
<1>7. x[i] \in ToSet(y) <=> x[i] = y[j]
  BY <1>1, <1>2, <1>5
<1>8. y[j] \in ToSet(x) <=> x[i] = y[j]
  BY <1>1, <1>2, <1>6
<1> DEFINE S == Met(x, y, i) \cup Met(y, x, j)
           T == Met(x, y, i + 1) \cup Met(y, x, j + 1)
           m == n + IF x[i][3] # y[j][3] THEN 1 ELSE 0
<1>9. Key(x[i]) \notin S
  <2> SUFFICES ASSUME Key(x[i]) \in S
               PROVE  FALSE
    OBVIOUS
  <2>1. PICK z \in Tag : Before(z, x[i]) /\ Key(x[i]) = Key(z)
    BY MetBefore
  <2> QED
    BY <1>3, <2>1, BeforeOrders
<1>10. T = IF x[i] = y[j] THEN S ELSE S \cup {Key(x[i])}
  <2>1. Met(x, y, i + 1) = IF x[i] = y[j] THEN Met(x, y, i) ELSE Met(x, y, i) \cup {Key(x[i])}
    BY <1>1, <1>2, <1>7, MetNext
  <2>2. Met(y, x, j + 1) = IF x[i] = y[j] THEN Met(y, x, j) ELSE Met(y, x, j) \cup {Key(x[i])}
    BY <1>1, <1>2, <1>8, MetNext
  <2> QED
    BY <2>1, <2>2
<1>11. IsFiniteSet(T) /\ Cardinality(T) = m /\ m \in Nat
  <2>1. IsFiniteSet(S) /\ Cardinality(S) = n
    BY <1>2
  <2> HIDE DEF S, T
  <2>2. CASE x[i] = y[j]
    BY <1>2, <1>4, <1>10, <2>1, <2>2
  <2>3. CASE x[i] # y[j]
    <3>1. m = n + 1
      BY <1>4, <2>3
    <3> HIDE DEF m
    <3>2. T = S \cup {Key(x[i])}
      BY <1>10, <2>3
    <3>3. IsFiniteSet(T) /\ Cardinality(T) = n + 1
      BY <1>9, <2>1, <3>2, FS_AddElement
    <3> QED
      BY <1>2, <3>1, <3>3
  <2> QED
    BY <2>2, <2>3
<1>12. ASSUME NEW k \in 1 .. Len(x), NEW l \in 1 .. Len(y)
       PROVE  /\ k < i + 1 /\ l >= j + 1 => Before(x[k], y[l])
              /\ k >= i + 1 /\ l < j + 1 => Before(y[l], x[k])
  <2>1. k < i + 1 /\ l >= j + 1 => Before(x[k], y[l])
    <3> SUFFICES ASSUME k < i + 1, l >= j + 1
                 PROVE  Before(x[k], y[l])
      OBVIOUS
    <3>1. (k < i \/ k = i) /\ l >= j /\ j < l
      BY <1>1, <1>2
    <3>2. CASE k = i
      <4>1. Before(y[j], y[l])
        BY <1>1, <1>2, <3>1
      <4> QED
        BY <1>1, <1>2, <3>2, <4>1 DEF Before, Key
    <3> QED
      BY <1>2, <3>1, <3>2
  <2>2. k >= i + 1 /\ l < j + 1 => Before(y[l], x[k])
    <3> SUFFICES ASSUME k >= i + 1, l < j + 1
                 PROVE  Before(y[l], x[k])
      OBVIOUS
    <3>1. (l < j \/ l = j) /\ k >= i /\ i < k
      BY <1>1, <1>2
    <3>2. CASE l = j
      <4>1. Before(x[i], x[k])
        BY <1>1, <1>2, <3>1
      <4> QED
        BY <1>1, <1>2, <3>2, <4>1 DEF Before, Key
    <3> QED
      BY <1>2, <3>1, <3>2
  <2> QED
    BY <2>1, <2>2
<1>13. i + 1 \in 1 .. Len(x) + 1 /\ j + 1 \in 1 .. Len(y) + 1
  BY <1>1, <1>2
<1> HIDE DEF m
<1>14. Aligned(x, y, i + 1, j + 1, m)
  BY <1>11, <1>12, <1>13 DEF Aligned
<1> QED
  BY <1>14 DEF m

Standing(i, j, n) == [i |-> i, j |-> j, n |-> n]

Pointers(x, y) == [i : 1 .. Len(x) + 1, j : 1 .. Len(y) + 1, n : Nat]

\* The loop is somewhere after each pass, and at the end of a list when it ends.
OnItsWay(x, y, k, at) ==
  /\ at = Standing(at.i, at.j, at.n) /\ Aligned(x, y, at.i, at.j, at.n)
  /\ at.i > Len(x) \/ at.j > Len(y) \/ (at.i - 1) + (at.j - 1) >= k

LEMMA PassType ==
  ASSUME NEW x, Len(x) \in Nat, NEW y, Len(y) \in Nat, NEW at \in Pointers(x, y)
  PROVE  Pass(x, y, at) \in Pointers(x, y)
<1>1. at.i \in 1 .. Len(x) + 1 /\ at.j \in 1 .. Len(y) + 1 /\ at.n \in Nat
  BY DEF Pointers
<1>2. CASE at.i > Len(x) \/ at.j > Len(y)
  BY <1>2 DEF Pass
<1>3. CASE ~(at.i > Len(x) \/ at.j > Len(y))
  <2>1. at.i + 1 \in 1 .. Len(x) + 1 /\ at.j + 1 \in 1 .. Len(y) + 1
        /\ at.n + 1 \in Nat /\ at.n + 0 \in Nat
    BY <1>1, <1>3
  <2> QED
    BY <1>1, <1>3, <2>1 DEF Pass, Pointers
<1> QED
  BY <1>2, <1>3

LEMMA PassKeeps ==
  ASSUME NEW x, Ordered(x), NEW y, Ordered(y), NEW k \in Nat, NEW at, OnItsWay(x, y, k, at)
  PROVE  OnItsWay(x, y, k + 1, Pass(x, y, at))
<1>1. /\ Len(x) \in Nat /\ Len(y) \in Nat
      /\ \A l \in 1 .. Len(x) : x[l] \in Tag
      /\ \A l \in 1 .. Len(y) : y[l] \in Tag
  BY OrderedParts
<1> DEFINE i == at.i
           j == at.j
           n == at.n
<1>2. /\ at = Standing(i, j, n) /\ Aligned(x, y, i, j, n)
      /\ i \in 1 .. Len(x) + 1 /\ j \in 1 .. Len(y) + 1 /\ n \in Nat
      /\ i > Len(x) \/ j > Len(y) \/ (i - 1) + (j - 1) >= k
  BY DEF OnItsWay, Aligned
<1> HIDE DEF i, j, n
<1>3. CASE i > Len(x) \/ j > Len(y)
  <2>1. Pass(x, y, at) = at
    BY <1>3 DEF Pass, i, j
  <2> QED
    BY <1>2, <1>3, <2>1 DEF OnItsWay, i, j, n
<1>4. CASE ~(i > Len(x) \/ j > Len(y))
  <2>1. i <= Len(x) /\ j <= Len(y) /\ (i - 1) + (j - 1) >= k
    BY <1>1, <1>2, <1>4
  <2>2. x[i] \in Tag /\ y[j] \in Tag
    BY <1>1, <1>2, <2>1
  <2>3. CASE Before(x[i], y[j])
    <3>1. Pass(x, y, at) = Standing(i + 1, j, n + 1)
      BY <1>4, <2>3 DEF Pass, Standing, i, j, n
    <3>2. Aligned(x, y, i + 1, j, n + 1)
      BY <1>2, <2>1, <2>3, OnlyHere
    <3>3. ((i + 1) - 1) + (j - 1) >= k + 1
      BY <1>1, <1>2, <2>1
    <3> QED
      BY <3>1, <3>2, <3>3 DEF OnItsWay, Standing
  <2>4. CASE Before(y[j], x[i])
    <3>0. ~Before(x[i], y[j])
      BY <2>2, <2>4, BeforeOrders
    <3>1. Pass(x, y, at) = Standing(i, j + 1, n + 1)
      BY <1>4, <2>4, <3>0 DEF Pass, Standing, i, j, n
    <3>2. Aligned(x, y, i, j + 1, n + 1)
      <4>1. Aligned(y, x, j, i, n)
        BY <1>1, <1>2, AlignedTurned
      <4>2. Aligned(y, x, j + 1, i, n + 1)
        BY <2>1, <2>4, <4>1, OnlyHere
      <4> QED
        BY <1>1, <4>2, AlignedTurned
    <3>3. (i - 1) + ((j + 1) - 1) >= k + 1
      BY <1>1, <1>2, <2>1
    <3> QED
      BY <3>1, <3>2, <3>3 DEF OnItsWay, Standing
  <2>5. CASE ~Before(x[i], y[j]) /\ ~Before(y[j], x[i])
    <3> DEFINE m == n + IF x[i][3] # y[j][3] THEN 1 ELSE 0
    <3>1. Pass(x, y, at) = Standing(i + 1, j + 1, m)
      BY <1>4, <2>5 DEF Pass, Standing, i, j, n
    <3>2. Key(x[i]) = Key(y[j])
      BY <2>2, <2>5, BeforeOrders
    <3>3. Aligned(x, y, i + 1, j + 1, m)
      BY <1>2, <2>1, <3>2, InBoth
    <3> HIDE DEF m
    <3>4. ((i + 1) - 1) + ((j + 1) - 1) >= k + 1
      BY <1>1, <1>2, <2>1
    <3> QED
      BY <3>1, <3>3, <3>4 DEF OnItsWay, Standing
  <2> QED
    BY <2>3, <2>4, <2>5
<1> QED
  BY <1>3, <1>4

LEMMA PassesRun ==
  ASSUME NEW x, Ordered(x), NEW y, Ordered(y)
  PROVE  LET u == Passes(x, y) IN
         /\ u[0] = Standing(1, 1, 0)
         /\ \A k \in 1 .. Len(x) + Len(y) : u[k] = Pass(x, y, u[k - 1])
<1> DEFINE m == Len(x) + Len(y)
           V == Pointers(x, y)
           step == [k \in 1 .. m |-> [v \in V |-> Pass(x, y, v)]]
           IsRun(f) == f = [k \in 0 .. m |->
                              IF k = 0 THEN [i |-> 1, j |-> 1, n |-> 0] ELSE Pass(x, y, f[k - 1])]
<1>1. Len(x) \in Nat /\ Len(y) \in Nat /\ m \in Nat
  <2>1. Len(x) \in Nat /\ Len(y) \in Nat
    BY OrderedParts
  <2> QED
    BY <2>1
<1>2. Standing(1, 1, 0) \in V
  BY <1>1 DEF Standing, Pointers
<1>3. step \in [1 .. m -> [V -> V]]
  <2>1. \A v \in V : Pass(x, y, v) \in V
    BY <1>1, PassType
  <2> HIDE DEF V, m
  <2> QED
    BY <2>1
<1>4. PICK g : TakesSteps(g, m, V, Standing(1, 1, 0), step)
  <2> HIDE DEF step, V, m
  <2> QED
    BY <1>1, <1>2, <1>3, StepsRun
<1> HIDE DEF V
<1>5. g \in [0 .. m -> V] /\ g[0] = Standing(1, 1, 0) /\ \A k \in 1 .. m : g[k] = step[k][g[k - 1]]
  BY <1>4 DEF TakesSteps
<1> HIDE DEF m
<1>6. \A k \in 1 .. m : g[k] = Pass(x, y, g[k - 1])
  <2> SUFFICES ASSUME NEW k \in 1 .. m
               PROVE  g[k] = Pass(x, y, g[k - 1])
    OBVIOUS
  <2>1. k - 1 \in 0 .. m
    BY <1>1
  <2>2. g[k - 1] \in V
    BY <1>5, <2>1
  <2>3. step[k][g[k - 1]] = Pass(x, y, g[k - 1])
    BY <2>2
  <2> QED
    BY <1>5, <2>3
<1>7. IsRun(g)
  <2>1. \A k \in 0 .. m : k = 0 \/ k \in 1 .. m
    BY <1>1
  <2>2. g = [k \in 0 .. m |-> g[k]]
    BY <1>5
  <2>3. \A k \in 0 .. m :
          g[k] = IF k = 0 THEN [i |-> 1, j |-> 1, n |-> 0] ELSE Pass(x, y, g[k - 1])
    BY <1>5, <1>6, <2>1 DEF Standing
  <2> QED
    BY <2>2, <2>3
<1>8. Passes(x, y) = CHOOSE f : IsRun(f)
  BY DEF Passes, m
<1> DEFINE u == Passes(x, y)
<1>9. IsRun(u)
  <2> HIDE DEF IsRun
  <2> QED
    BY <1>7, <1>8
<1> HIDE DEF u
<1>10. \A k \in 0 .. m :
         u[k] = IF k = 0 THEN [i |-> 1, j |-> 1, n |-> 0] ELSE Pass(x, y, u[k - 1])
  BY <1>9
<1>11. u[0] = Standing(1, 1, 0)
  BY <1>1, <1>10 DEF Standing
<1>12. \A k \in 1 .. m : u[k] = Pass(x, y, u[k - 1])
  <2>1. \A k \in 1 .. m : k \in 0 .. m /\ k # 0
    BY <1>1
  <2> QED
    BY <1>10, <2>1
<1> QED
  BY <1>11, <1>12 DEF u, m

LEMMA WalkAligns ==
  ASSUME NEW x, Ordered(x), NEW y, Ordered(y)
  PROVE  LET end == WalkEnd(x, y) IN
         /\ Aligned(x, y, end.i, end.j, end.n)
         /\ end.i > Len(x) \/ end.j > Len(y)
<1> DEFINE m == Len(x) + Len(y)
           u == Passes(x, y)
           T == {k \in 0 .. m : OnItsWay(x, y, k, u[k])}
<1>1. Len(x) \in Nat /\ Len(y) \in Nat /\ m \in Nat
  <2>1. Len(x) \in Nat /\ Len(y) \in Nat
    BY OrderedParts
  <2> QED
    BY <2>1
<1>2. u[0] = Standing(1, 1, 0) /\ \A k \in 1 .. m : u[k] = Pass(x, y, u[k - 1])
  BY PassesRun
<1> HIDE DEF u
<1>3. Aligned(x, y, 1, 1, 0)
  <2>1. Met(x, y, 1) = {} /\ Met(y, x, 1) = {}
    BY DEF Met
  <2>2. IsFiniteSet({}) /\ Cardinality({}) = 0
    BY FS_EmptySet
  <2>3. Met(x, y, 1) \cup Met(y, x, 1) = {}
    BY <2>1
  <2>4. 1 \in 1 .. Len(x) + 1 /\ 1 \in 1 .. Len(y) + 1 /\ 0 \in Nat
    BY <1>1
  <2>5. ASSUME NEW k \in 1 .. Len(x), NEW l \in 1 .. Len(y)
        PROVE  ~(k < 1) /\ ~(l < 1)
    BY <1>1
  <2>6. /\ IsFiniteSet(Met(x, y, 1) \cup Met(y, x, 1))
        /\ Cardinality(Met(x, y, 1) \cup Met(y, x, 1)) = 0
    BY <2>2, <2>3
  <2> HIDE DEF m, T
  <2> QED
    BY <2>4, <2>5, <2>6 DEF Aligned
<1>4. 0 \in T
  <2>1. OnItsWay(x, y, 0, u[0])
    BY <1>1, <1>2, <1>3 DEF OnItsWay, Standing
  <2> QED
    BY <1>1, <2>1
<1>5. ASSUME NEW k \in 0 .. m - 1, k \in T
      PROVE  k + 1 \in T
  <2>1. k \in Nat /\ k + 1 \in 1 .. m /\ k + 1 \in 0 .. m /\ (k + 1) - 1 = k
    BY <1>1
  <2>2. u[k + 1] = Pass(x, y, u[k])
    BY <1>2, <2>1
  <2>3. OnItsWay(x, y, k + 1, Pass(x, y, u[k]))
    BY <1>5, <2>1, PassKeeps
  <2> QED
    BY <2>1, <2>2, <2>3
<1>6. OnItsWay(x, y, m, u[m])
  <2> HIDE DEF T, m
  <2>1. \A k \in 0 .. m : k \in T
    BY <1>1, <1>4, <1>5, UpTo
  <2>2. m \in 0 .. m
    BY <1>1
  <2> QED
    BY <2>1, <2>2 DEF T
<1> DEFINE end == WalkEnd(x, y)
<1>7. end = u[m]
  BY DEF WalkEnd, u
<1> HIDE DEF end
<1>8. /\ Aligned(x, y, end.i, end.j, end.n)
      /\ end.i > Len(x) \/ end.j > Len(y) \/ (end.i - 1) + (end.j - 1) >= m
  BY <1>6, <1>7 DEF OnItsWay
<1>9. end.i \in 1 .. Len(x) + 1 /\ end.j \in 1 .. Len(y) + 1
  BY <1>8 DEF Aligned
<1>10. end.i > Len(x) \/ end.j > Len(y)
  BY <1>1, <1>8, <1>9
<1> QED
  BY <1>8, <1>10 DEF end

\* When one list is at its end, every level left of the other is a mismatch.
LEMMA LeftOver ==
  ASSUME NEW x, Ordered(x), NEW y, Ordered(y), NEW i, NEW j, NEW n, Aligned(x, y, i, j, n),
         j > Len(y)
  PROVE  Aligned(x, y, Len(x) + 1, j, n + (Len(x) + 1 - i))
<1> DEFINE m == Len(x) + 1 - i
           T == {k \in 0 .. m : Aligned(x, y, i + k, j, n + k)}
<1>1. Len(x) \in Nat /\ Len(y) \in Nat
  BY OrderedParts
<1>2. /\ i \in 1 .. Len(x) + 1 /\ j \in 1 .. Len(y) + 1 /\ n \in Nat
      /\ m \in Nat /\ i + m = Len(x) + 1
  <2>1. i \in 1 .. Len(x) + 1 /\ j \in 1 .. Len(y) + 1 /\ n \in Nat
    BY DEF Aligned
  <2> QED
    BY <1>1, <2>1
<1>3. 0 \in T
  <2>1. i + 0 = i /\ n + 0 = n /\ 0 \in 0 .. m
    BY <1>1, <1>2
  <2> HIDE DEF m
  <2> QED
    BY <2>1
<1>4. ASSUME NEW k \in 0 .. m - 1, k \in T
      PROVE  k + 1 \in T
  <2>1. /\ i + k <= Len(x) /\ ~(j <= Len(y)) /\ k + 1 \in 0 .. m
        /\ (i + k) + 1 = i + (k + 1) /\ (n + k) + 1 = n + (k + 1)
    BY <1>1, <1>2
  <2>2. Aligned(x, y, i + k, j, n + k)
    BY <1>4
  <2>3. Aligned(x, y, (i + k) + 1, j, (n + k) + 1)
    BY <2>1, <2>2, OnlyHere
  <2> HIDE DEF m
  <2> QED
    BY <2>1, <2>3
<1>5. Aligned(x, y, i + m, j, n + m)
  <2> HIDE DEF T, m
  <2>1. \A k \in 0 .. m : k \in T
    BY <1>2, <1>3, <1>4, UpTo
  <2>2. m \in 0 .. m
    BY <1>2
  <2> QED
    BY <2>1, <2>2 DEF T
<1> QED
  BY <1>2, <1>5

\* What two sets of levels say differently: the side and price of what only one has.
Apart(S, T) == {Key(z) : z \in (S \ T) \cup (T \ S)}

\* The walk counts these.
LEMMA WalkCounts ==
  ASSUME NEW x, Ordered(x), NEW y, Ordered(y)
  PROVE  Walk(x, y) = Cardinality(Apart(ToSet(x), ToSet(y)))
<1> DEFINE end == WalkEnd(x, y)
           i == end.i
           j == end.j
           n == end.n
           D == Met(x, y, Len(x) + 1) \cup Met(y, x, Len(y) + 1)
<1>1. Len(x) \in Nat /\ Len(y) \in Nat
  BY OrderedParts
<1>2. Aligned(x, y, i, j, n) /\ (i > Len(x) \/ j > Len(y))
  BY WalkAligns
<1>3. Walk(x, y) = n + (Len(x) + 1 - i) + (Len(y) + 1 - j)
  BY DEF Walk
<1> HIDE DEF end, i, j, n
<1>4. i \in 1 .. Len(x) + 1 /\ j \in 1 .. Len(y) + 1 /\ n \in Nat
  BY <1>2 DEF Aligned
<1>5. ASSUME NEW k, Aligned(x, y, Len(x) + 1, Len(y) + 1, k)
      PROVE  Cardinality(D) = k
  BY <1>5 DEF Aligned
<1>6. ASSUME j > Len(y)
      PROVE  Walk(x, y) = Cardinality(D)
  <2>1. j = Len(y) + 1 /\ Walk(x, y) = n + (Len(x) + 1 - i)
    BY <1>1, <1>3, <1>4, <1>6
  <2>2. Aligned(x, y, Len(x) + 1, Len(y) + 1, n + (Len(x) + 1 - i))
    BY <1>2, <1>6, <2>1, LeftOver
  <2> HIDE DEF D
  <2> QED
    BY <1>5, <2>1, <2>2
<1>7. ASSUME i > Len(x)
      PROVE  Walk(x, y) = Cardinality(D)
  <2>1. i = Len(x) + 1 /\ Walk(x, y) = n + (Len(y) + 1 - j)
    BY <1>1, <1>3, <1>4, <1>7
  <2>2. Aligned(y, x, j, i, n)
    BY <1>1, <1>2, AlignedTurned
  <2>3. Aligned(y, x, Len(y) + 1, Len(x) + 1, n + (Len(y) + 1 - j))
    BY <1>7, <2>1, <2>2, LeftOver
  <2>4. Aligned(x, y, Len(x) + 1, Len(y) + 1, n + (Len(y) + 1 - j))
    BY <1>1, <2>3, AlignedTurned
  <2> HIDE DEF D
  <2> QED
    BY <1>5, <2>1, <2>4
<1>8. ASSUME NEW u, Ordered(u), NEW v
      PROVE  Met(u, v, Len(u) + 1) = {Key(z) : z \in ToSet(u) \ ToSet(v)}
  <2>1. Len(u) \in Nat /\ \A z : z \in ToSet(u) <=> \E k \in 1 .. Len(u) : z = u[k]
    BY <1>8, OrderedParts
  <2>2. (Len(u) + 1) - 1 = Len(u)
    BY <2>1
  <2>3. Met(u, v, Len(u) + 1) = {Key(u[k]) : k \in {l \in 1 .. Len(u) : u[l] \notin ToSet(v)}}
    BY <2>2 DEF Met
  <2>4. ASSUME NEW k \in 1 .. Len(u), u[k] \notin ToSet(v)
        PROVE  Key(u[k]) \in {Key(z) : z \in ToSet(u) \ ToSet(v)}
    BY <2>1, <2>4
  <2>5. ASSUME NEW z \in ToSet(u) \ ToSet(v)
        PROVE  Key(z) \in {Key(u[k]) : k \in {l \in 1 .. Len(u) : u[l] \notin ToSet(v)}}
    BY <2>1
  <2> QED
    BY <2>3, <2>4, <2>5
<1>9. D = Apart(ToSet(x), ToSet(y))
  <2>1. /\ Met(x, y, Len(x) + 1) = {Key(z) : z \in ToSet(x) \ ToSet(y)}
        /\ Met(y, x, Len(y) + 1) = {Key(z) : z \in ToSet(y) \ ToSet(x)}
    BY <1>8
  <2> QED
    BY <2>1 DEF Apart
<1>10. Walk(x, y) = Cardinality(D)
  <2> HIDE DEF D
  <2> QED
    BY <1>2, <1>6, <1>7
<1> QED
  BY <1>9, <1>10

-----------------------------------------------------------------------------
(* Lists and maps. *)

\* A list has a volume at a price once.
Lists(t, map) ==
  /\ t \in Seq(Levels) /\ OnePerPrice(t)
  /\ DOMAIN map = {t[k][1] : k \in 1 .. Len(t)}
  /\ \A k \in 1 .. Len(t) : map[t[k][1]] = t[k][2]

LEMMA ListsMap ==
  ASSUME NEW t \in Seq(Levels), OnePerPrice(t)
  PROVE  Lists(t, AsMap(t))
<1>1. DOMAIN t = 1 .. Len(t)
  OBVIOUS
<1>2. AsMap(t) = [p \in {t[k][1] : k \in 1 .. Len(t)} |->
                    t[CHOOSE k \in 1 .. Len(t) : t[k][1] = p][2]]
  BY <1>1 DEF AsMap
<1>3. ASSUME NEW k \in 1 .. Len(t)
      PROVE  AsMap(t)[t[k][1]] = t[k][2]
  <2> DEFINE c == CHOOSE l \in 1 .. Len(t) : t[l][1] = t[k][1]
  <2>1. c \in 1 .. Len(t) /\ t[c][1] = t[k][1]
    OBVIOUS
  <2>2. AsMap(t)[t[k][1]] = t[c][2]
    BY <1>2, ZenonT(30)
  <2> HIDE DEF c
  <2>3. c = k
    BY <2>1 DEF OnePerPrice
  <2> QED
    BY <2>2, <2>3
<1> QED
  BY <1>2, <1>3 DEF Lists

VolumeAt(map, p) == IF p \in DOMAIN map THEN map[p] ELSE 0

\* What a list says of a price is what the map says of it.
LEMMA TaggedSays ==
  ASSUME NEW side \in {"Ask", "Bid"}, NEW t, NEW map, Lists(t, map)
  PROVE  ToSet(Tagged(side, t)) = {z \in Tag : z[1] = side /\ VolumeAt(map, z[2]) = z[3]}
<1> DEFINE S == ToSet(Tagged(side, t))
           T == {z \in Tag : z[1] = side /\ VolumeAt(map, z[2]) = z[3]}
<1>1. /\ t \in Seq(Levels) /\ DOMAIN map = {t[k][1] : k \in 1 .. Len(t)}
      /\ \A k \in 1 .. Len(t) : t[k] \in Levels /\ map[t[k][1]] = t[k][2]
  BY DEF Lists
<1>2. S = {<<side, t[k][1], t[k][2]>> : k \in 1 .. Len(t)}
  BY <1>1, TaggedParts
<1>3. ASSUME NEW k \in 1 .. Len(t)
      PROVE  <<side, t[k][1], t[k][2]>> \in T
  <2>1. t[k][1] \in Prices /\ t[k][2] \in Volumes \ {0}
    BY <1>1, LevelParts
  <2>2. <<side, t[k][1], t[k][2]>> \in Tag
    BY <2>1 DEF Tag
  <2>3. VolumeAt(map, t[k][1]) = t[k][2]
    BY <1>1 DEF VolumeAt
  <2> QED
    BY <2>2, <2>3
<1>4. ASSUME NEW z \in T
      PROVE  z \in {<<side, t[k][1], t[k][2]>> : k \in 1 .. Len(t)}
  <2>1. z = <<z[1], z[2], z[3]>> /\ z[1] = side /\ z[3] # 0 /\ VolumeAt(map, z[2]) = z[3]
    BY TagParts
  <2>2. z[2] \in DOMAIN map /\ map[z[2]] = z[3]
    BY <2>1 DEF VolumeAt
  <2>3. PICK k \in 1 .. Len(t) : z[2] = t[k][1]
    BY <1>1, <2>2
  <2> QED
    BY <1>1, <2>1, <2>2, <2>3
<1> HIDE DEF T
<1> QED
  BY <1>2, <1>3, <1>4 DEF T

\* What a book with two maps lists.
Listing(a, b) ==
  {z \in Tag : z[1] = "Ask" /\ VolumeAt(a, z[2]) = z[3]}
    \cup {z \in Tag : z[1] = "Bid" /\ VolumeAt(b, z[2]) = z[3]}

\* Both sides of a book in one list, in either order.
LEMMA BothSides ==
  ASSUME NEW s \in {"Ask", "Bid"}, NEW t, NEW map, Lists(t, map),
         NEW s2 \in {"Ask", "Bid"}, NEW t2, NEW map2, Lists(t2, map2), s # s2
  PROVE  LET u == Tagged(s, t) \o Tagged(s2, t2) IN
         /\ u \in Seq(Tag) /\ KeysOnce(u)
         /\ ToSet(u) = ToSet(Tagged(s, t)) \cup ToSet(Tagged(s2, t2))
<1> DEFINE x == Tagged(s, t)
           y == Tagged(s2, t2)
           m == Len(t)
           n == Len(t2)
           u == x \o y
<1>1. /\ t \in Seq(Levels) /\ t2 \in Seq(Levels) /\ m \in Nat /\ n \in Nat
      /\ \A j, k \in 1 .. m : t[j][1] = t[k][1] => j = k
      /\ \A j, k \in 1 .. n : t2[j][1] = t2[k][1] => j = k
  BY DEF Lists, OnePerPrice
<1>2. /\ x \in Seq(Tag) /\ Len(x) = m /\ \A k \in 1 .. m : x[k] = <<s, t[k][1], t[k][2]>>
      /\ y \in Seq(Tag) /\ Len(y) = n /\ \A k \in 1 .. n : y[k] = <<s2, t2[k][1], t2[k][2]>>
  BY <1>1, TaggedParts
<1> HIDE DEF x, y, m, n
<1>3. /\ u \in Seq(Tag) /\ Len(u) = m + n
      /\ \A k \in 1 .. m + n : u[k] = IF k <= m THEN x[k] ELSE y[k - m]
  <2>1. u \in Seq(Tag) /\ Len(u) = Len(x) + Len(y)
    BY <1>2, ConcatProperties
  <2>2. \A k \in 1 .. Len(x) + Len(y) : u[k] = IF k <= Len(x) THEN x[k] ELSE y[k - Len(x)]
    BY <1>2, ConcatProperties
  <2> HIDE DEF u
  <2> QED
    BY <1>2, <2>1, <2>2
<1> HIDE DEF u
<1>4. ASSUME NEW k \in 1 .. m + n
      PROVE  \/ k \in 1 .. m /\ Key(u[k]) = <<s, t[k][1]>>
             \/ k - m \in 1 .. n /\ Key(u[k]) = <<s2, t2[k - m][1]>>
  <2>1. CASE k <= m
    <3>1. k \in 1 .. m /\ u[k] = x[k]
      BY <1>1, <1>3, <2>1
    <3> QED
      BY <1>2, <3>1 DEF Key
  <2>2. CASE ~(k <= m)
    <3>1. k - m \in 1 .. n /\ u[k] = y[k - m]
      BY <1>1, <1>3, <2>2
    <3> QED
      BY <1>2, <3>1 DEF Key
  <2> QED
    BY <2>1, <2>2
<1>5. ASSUME NEW j \in 1 .. m + n, NEW k \in 1 .. m + n, Key(u[j]) = Key(u[k])
      PROVE  j = k
  <2>0. \A p, q : <<s, p>> # <<s2, q>> /\ (<<s, p>> = <<s, q>> => p = q)
                /\ (<<s2, p>> = <<s2, q>> => p = q)
    OBVIOUS
  <2>1. CASE j \in 1 .. m /\ Key(u[j]) = <<s, t[j][1]>>
    <3>1. k \in 1 .. m /\ Key(u[k]) = <<s, t[k][1]>>
      BY <1>4, <1>5, <2>0, <2>1
    <3>2. t[j][1] = t[k][1]
      BY <1>5, <2>0, <2>1, <3>1
    <3> QED
      BY <1>1, <2>1, <3>1, <3>2
  <2>2. CASE j - m \in 1 .. n /\ Key(u[j]) = <<s2, t2[j - m][1]>>
    <3>1. k - m \in 1 .. n /\ Key(u[k]) = <<s2, t2[k - m][1]>>
      BY <1>4, <1>5, <2>0, <2>2
    <3>2. t2[j - m][1] = t2[k - m][1]
      BY <1>5, <2>0, <2>2, <3>1
    <3>3. j - m = k - m
      BY <1>1, <2>2, <3>1, <3>2
    <3> QED
      BY <1>1, <3>3
  <2> QED
    BY <1>4, <2>1, <2>2
<1>6. KeysOnce(u)
  BY <1>3, <1>5 DEF KeysOnce
<1>7. ToSet(u) = ToSet(x) \cup ToSet(y)
  BY <1>2, ConcatSet DEF u
<1> QED
  BY <1>3, <1>6, <1>7 DEF u, x, y

\* Where maps say something else, it is at a price one of them lists.
LEMMA ListedDifferences ==
  ASSUME NEW t, NEW map, Lists(t, map), NEW t2, NEW map2, Lists(t2, map2)
  PROVE  /\ IsFiniteSet({p \in Prices : VolumeAt(map, p) # VolumeAt(map2, p)})
         /\ \A p \in Prices : VolumeAt(map, p) \in Volumes /\ VolumeAt(map2, p) \in Volumes
<1> DEFINE D == {p \in Prices : VolumeAt(map, p) # VolumeAt(map2, p)}
<1>1. ASSUME NEW l, NEW f, Lists(l, f)
      PROVE  IsFiniteSet(DOMAIN f) /\ \A p \in Prices : VolumeAt(f, p) \in Volumes
  <2>1. /\ Len(l) \in Nat /\ OnePerPrice(l)
        /\ \A k \in 1 .. Len(l) : l[k] \in Levels /\ f[l[k][1]] = l[k][2]
        /\ DOMAIN f = {l[k][1] : k \in 1 .. Len(l)}
    BY <1>1 DEF Lists
  <2>2. IsFiniteSet(DOMAIN f)
    <3> DEFINE n == Len(l)
               g == [k \in 1 .. n |-> l[k][1]]
    <3>1. \A i, j \in 1 .. n : g[i] = g[j] => i = j
      BY <2>1 DEF OnePerPrice
    <3>2. {g[k] : k \in 1 .. n} = DOMAIN f
      BY <2>1
    <3>3. 1 \in Int /\ n \in Int /\ 1 <= n + 1
      BY <2>1
    <3> HIDE DEF g, n
    <3>4. IsFiniteSet({g[k] : k \in 1 .. n}) /\ Cardinality({g[k] : k \in 1 .. n}) = (n + 1) - 1
      BY <3>1, <3>3, AsMany
    <3> QED
      BY <3>2, <3>4
  <2>3. ASSUME NEW p \in Prices
        PROVE  VolumeAt(f, p) \in Volumes
    <3>1. CASE p \in DOMAIN f
      <4>1. PICK k \in 1 .. Len(l) : p = l[k][1]
        BY <2>1, <3>1
      <4>2. f[p] = l[k][2] /\ l[k][2] \in Volumes
        BY <2>1, <4>1, LevelParts
      <4> QED
        BY <3>1, <4>2 DEF VolumeAt
    <3>2. CASE p \notin DOMAIN f
      BY <3>2, LevelAssumption DEF VolumeAt
    <3> QED
      BY <3>1, <3>2
  <2> QED
    BY <2>2, <2>3
<1>2. D \in SUBSET (DOMAIN map \cup DOMAIN map2)
  BY DEF VolumeAt
<1>3. IsFiniteSet(DOMAIN map) /\ IsFiniteSet(DOMAIN map2)
  BY <1>1
<1>4. IsFiniteSet(DOMAIN map \cup DOMAIN map2)
  BY <1>3, FS_Union
<1>5. IsFiniteSet(D)
  <2> HIDE DEF D
  <2> QED
    BY <1>2, <1>4, FS_Subset
<1> QED
  BY <1>1, <1>5

\* What two books list differently, by side and price.
LEMMA ApartPrices ==
  ASSUME NEW a, NEW b, NEW a2, NEW b2,
         \A p \in Prices : /\ VolumeAt(a, p) \in Volumes /\ VolumeAt(b, p) \in Volumes
                           /\ VolumeAt(a2, p) \in Volumes /\ VolumeAt(b2, p) \in Volumes
  PROVE  Apart(Listing(a, b), Listing(a2, b2))
           = ({"Ask"} \X {p \in Prices : VolumeAt(a, p) # VolumeAt(a2, p)})
               \cup ({"Bid"} \X {p \in Prices : VolumeAt(b, p) # VolumeAt(b2, p)})
<1> DEFINE S == Listing(a, b)
           T == Listing(a2, b2)
           Says(side, p, v) == VolumeAt(IF side = "Ask" THEN a ELSE b, p) = v
           Says2(side, p, v) == VolumeAt(IF side = "Ask" THEN a2 ELSE b2, p) = v
           A == {p \in Prices : VolumeAt(a, p) # VolumeAt(a2, p)}
           B == {p \in Prices : VolumeAt(b, p) # VolumeAt(b2, p)}
           D == ({"Ask"} \X A) \cup ({"Bid"} \X B)
<1>1. ASSUME NEW z \in Tag
      PROVE  /\ z \in S <=> Says(z[1], z[2], z[3])
             /\ z \in T <=> Says2(z[1], z[2], z[3])
  <2>1. z[1] = "Ask" \/ z[1] = "Bid"
    BY TagParts
  <2> QED
    BY <2>1 DEF Listing
<1>2. S \subseteq Tag /\ T \subseteq Tag
  BY DEF Listing
<1>3. ASSUME NEW side \in {"Ask", "Bid"}, NEW p \in Prices
      PROVE  <<side, p>> \in D <=>
               VolumeAt(IF side = "Ask" THEN a ELSE b, p)
                 # VolumeAt(IF side = "Ask" THEN a2 ELSE b2, p)
  BY <1>3
<1>4. ASSUME NEW z \in Tag, z \in (S \ T) \cup (T \ S)
      PROVE  Key(z) \in D
  <2>1. z[1] \in {"Ask", "Bid"} /\ z[2] \in Prices
    BY TagParts
  <2>2. VolumeAt(IF z[1] = "Ask" THEN a ELSE b, z[2])
          # VolumeAt(IF z[1] = "Ask" THEN a2 ELSE b2, z[2])
    BY <1>1, <1>4
  <2> HIDE DEF D
  <2> QED
    BY <1>3, <2>1, <2>2 DEF Key
<1>5. ASSUME NEW side \in {"Ask", "Bid"}, NEW p \in Prices, <<side, p>> \in D
      PROVE  \E z \in Tag : z \in (S \ T) \cup (T \ S) /\ <<side, p>> = Key(z)
  <2> DEFINE v == VolumeAt(IF side = "Ask" THEN a ELSE b, p)
             w == VolumeAt(IF side = "Ask" THEN a2 ELSE b2, p)
             Seen == \E z \in Tag : z \in (S \ T) \cup (T \ S) /\ <<side, p>> = Key(z)
  <2>1. v # w
    <3> HIDE DEF D
    <3> QED
      BY <1>3, <1>5
  <2>2. v \in Volumes /\ w \in Volumes
    <3>1. side = "Ask" \/ side = "Bid"
      OBVIOUS
    <3> QED
      BY <3>1
  <2>3. ASSUME NEW q \in Volumes, q # 0, v = q <=> w # q
        PROVE  Seen
    <3> DEFINE z == <<side, p, q>>
    <3>1. z \in Tag /\ z[1] = side /\ z[2] = p /\ z[3] = q
      BY <2>3 DEF Tag
    <3>2. (z \in S <=> v = q) /\ (z \in T <=> w = q)
      BY <1>1, <3>1
    <3>3. Key(z) = <<side, p>>
      BY DEF Key
    <3> HIDE DEF z, S, T, v, w
    <3>4. z \in (S \ T) \cup (T \ S)
      BY <2>3, <3>2
    <3> QED
      BY <3>1, <3>3, <3>4
  <2>4. v # 0 => Seen
    <3> HIDE DEF v, w, Seen
    <3> QED
      BY <2>1, <2>2, <2>3
  <2>5. w # 0 => Seen
    <3> HIDE DEF v, w, Seen
    <3> QED
      BY <2>1, <2>2, <2>3
  <2> QED
    BY <2>1, <2>4, <2>5
<1>6. \A x \in D : \E side \in {"Ask", "Bid"}, p \in Prices : x = <<side, p>>
  OBVIOUS
<1> HIDE DEF S, T, D
<1>7. Apart(S, T) \subseteq D
  BY <1>2, <1>4 DEF Apart
<1>8. D \subseteq Apart(S, T)
  BY <1>2, <1>5, <1>6 DEF Apart
<1> QED
  BY <1>7, <1>8 DEF S, T, D

\* compare_books counts the prices with another volume, side by side.
LEMMA CompareExact ==
  ASSUME asks \in Sides, bids \in Sides, NEW rest \in Snapshots,
         OnePerPrice(rest.asks), OnePerPrice(rest.bids)
  PROVE  CompareBooks(rest) =
           Cardinality({p \in Prices : VolumeAt(AsMap(asks), p) # VolumeAt(AsMap(rest.asks), p)})
           + Cardinality({p \in Prices : VolumeAt(AsMap(bids), p) # VolumeAt(AsMap(rest.bids), p)})
<1> DEFINE a == AsMap(asks)
           b == AsMap(bids)
           a2 == AsMap(rest.asks)
           b2 == AsMap(rest.bids)
           t == Reverse(bids)
           A == {p \in Prices : VolumeAt(a, p) # VolumeAt(a2, p)}
           B == {p \in Prices : VolumeAt(b, p) # VolumeAt(b2, p)}
           local == Snapshot(AllLevels)
           other == Tagged("Bid", rest.bids) \o Tagged("Ask", rest.asks)
<1>1. Lists(asks, a) /\ asks \in Seq(Levels) /\ Len(asks) \in Nat
  BY ListedSide DEF Lists
<1>2. Lists(t, b) /\ t \in Seq(Levels) /\ Len(t) \in Nat /\ Len(t) = Len(bids)
  BY ListedSide, ListedReverse DEF Lists
<1>3. Lists(rest.asks, a2) /\ Lists(rest.bids, b2)
  BY SnapshotLevels, ListsMap
<1> HIDE DEF a, b, a2, b2, t
<1>4. local = Tagged("Ask", asks) \o Tagged("Bid", t)
  <2>1. ASSUME NEW l \in Seq(Levels), Len(l) \in Nat, NEW n \in Nat, n >= Len(l)
        PROVE  IterFromFirst(l, n) = l
    <3>1. Min({n, Len(l)}) = Len(l)
      <4> DEFINE r == Min({n, Len(l)})
      <4>1. (r = n \/ r = Len(l)) /\ r <= n /\ r <= Len(l)
        BY <2>1 DEF Min
      <4> HIDE DEF r
      <4>2. r = Len(l)
        BY <2>1, <4>1
      <4> QED
        BY <4>2 DEF r
    <3>2. SubSeq(l, 1, Len(l)) = l
      OBVIOUS
    <3> QED
      BY <3>1, <3>2 DEF IterFromFirst
  <2>2. AllLevels \in Nat /\ AllLevels >= Len(asks) /\ AllLevels >= Len(t)
    BY <1>1, <1>2 DEF AllLevels
  <2>3. IterFromFirst(asks, AllLevels) = asks /\ IterFromFirst(t, AllLevels) = t
    BY <1>1, <1>2, <2>1, <2>2
  <2> QED
    BY <2>3 DEF Snapshot, IterFromLast, t
<1>5. /\ local \in Seq(Tag) /\ KeysOnce(local)
      /\ ToSet(local) = Listing(a, b)
  <2>1. /\ local \in Seq(Tag) /\ KeysOnce(local)
        /\ ToSet(local) = ToSet(Tagged("Ask", asks)) \cup ToSet(Tagged("Bid", t))
    BY <1>1, <1>2, <1>4, BothSides
  <2> HIDE DEF local
  <2> QED
    BY <1>1, <1>2, <2>1, TaggedSays DEF Listing
<1>6. /\ other \in Seq(Tag) /\ KeysOnce(other)
      /\ ToSet(other) = Listing(a2, b2)
  <2>1. /\ other \in Seq(Tag) /\ KeysOnce(other)
        /\ ToSet(other) = ToSet(Tagged("Bid", rest.bids)) \cup ToSet(Tagged("Ask", rest.asks))
    BY <1>3, BothSides
  <2> HIDE DEF other
  <2> QED
    BY <1>3, <2>1, TaggedSays DEF Listing
<1>7. CompareBooks(rest) = Walk(SortedLevels(local), SortedLevels(other))
  BY DEF CompareBooks
<1> HIDE DEF local, other
<1>8. /\ Ordered(SortedLevels(local)) /\ ToSet(SortedLevels(local)) = Listing(a, b)
      /\ Ordered(SortedLevels(other)) /\ ToSet(SortedLevels(other)) = Listing(a2, b2)
  BY <1>5, <1>6, SortOrders
<1>9. CompareBooks(rest) = Cardinality(Apart(Listing(a, b), Listing(a2, b2)))
  BY <1>7, <1>8, WalkCounts
<1>10. /\ IsFiniteSet(A) /\ IsFiniteSet(B)
       /\ \A p \in Prices : /\ VolumeAt(a, p) \in Volumes /\ VolumeAt(b, p) \in Volumes
                            /\ VolumeAt(a2, p) \in Volumes /\ VolumeAt(b2, p) \in Volumes
  BY <1>1, <1>2, <1>3, ListedDifferences, ZenonT(30)
<1>11. Apart(Listing(a, b), Listing(a2, b2)) = ({"Ask"} \X A) \cup ({"Bid"} \X B)
  BY <1>10, ApartPrices
<1>12. Cardinality(({"Ask"} \X A) \cup ({"Bid"} \X B)) = Cardinality(A) + Cardinality(B)
  <2>1. IsFiniteSet(A) /\ IsFiniteSet(B)
    BY <1>10
  <2> HIDE DEF A, B
  <2>2. Cardinality(A) \in Nat /\ Cardinality(B) \in Nat
    BY <2>1, FS_CardinalityType
  <2>3. \A s : IsFiniteSet({s}) /\ Cardinality({s}) = 1
    BY FS_Singleton
  <2>4. /\ IsFiniteSet({"Ask"} \X A) /\ Cardinality({"Ask"} \X A) = 1 * Cardinality(A)
        /\ IsFiniteSet({"Bid"} \X B) /\ Cardinality({"Bid"} \X B) = 1 * Cardinality(B)
    <3>1. ASSUME NEW P, IsFiniteSet(P), Cardinality(P) = 1, NEW Q, IsFiniteSet(Q)
          PROVE  IsFiniteSet(P \X Q) /\ Cardinality(P \X Q) = 1 * Cardinality(Q)
      BY <3>1, FS_Product
    <3> QED
      BY <2>1, <2>3, <3>1
  <2>5. \A x \in {"Ask"} \X A : x \notin {"Bid"} \X B
    OBVIOUS
  <2>6. Cardinality(({"Ask"} \X A) \cup ({"Bid"} \X B))
          = Cardinality({"Ask"} \X A) + Cardinality({"Bid"} \X B)
    BY <2>4, <2>5, CountedApart
  <2> QED
    BY <2>2, <2>4, <2>6
<1> QED
  BY <1>9, <1>11, <1>12 DEF a, b, a2, b2

-----------------------------------------------------------------------------

\* Whatever updates, snapshots and merges came before, the queries of the sorted vectors
\* say what the map of their levels says: liquidity up to a slippage, the levels and the
\* imbalance of a depth, and the number of mismatches compare_books counts.
THEOREM QueriesAlwaysExact == Spec => []QueriesExact
<1>1. ASSUME LevelsInv
      PROVE  QueriesExact
  <2>1. asks \in Sides /\ bids \in Sides
    BY <1>1 DEF LevelsInv, SideInv
  <2>2. Tops \subseteq Nat
    BY LevelAssumption
  <2>3. ASSUME NEW s \in Slippages
        PROVE  LET a == AsMap(asks)
                   b == AsMap(bids)
               IN /\ AskLiquidity(s) = IF a = <<>> THEN {} ELSE
                       {Reference(a, {p \in DOMAIN a : 100 * p <= Min(DOMAIN a) * (100 + s)})}
                  /\ BidLiquidity(s) = IF b = <<>> THEN {} ELSE
                       {Reference(b, {p \in DOMAIN b : 100 * p >= Max(DOMAIN b) * (100 - s)})}
    BY <2>1, AskLiquidityExact, BidLiquidityExact
  <2>4. ASSUME NEW n \in Tops
        PROVE  LET a == AsMap(asks)
                   b == AsMap(bids)
                   Lowest == {p \in DOMAIN a : Cardinality({q \in DOMAIN a : q < p}) < n}
                   Highest == {p \in DOMAIN b : Cardinality({q \in DOMAIN b : q > p}) < n}
                   bid == Reference(b, Highest)
                   ask == Reference(a, Lowest)
               IN /\ ToSet(Snapshot(n)) = {<<"Ask", p, a[p]>> : p \in Lowest}
                                            \cup {<<"Bid", p, b[p]>> : p \in Highest}
                  /\ Imbalance(n) = IF bid + ask = 0 THEN {} ELSE {<<bid - ask, bid + ask>>}
    BY <2>1, <2>2, SnapshotExact
  <2>5. ASSUME NEW rest \in Snapshots, OnePerPrice(rest.asks), OnePerPrice(rest.bids)
        PROVE  LET At(map, p) == IF p \in DOMAIN map THEN map[p] ELSE 0
               IN  CompareBooks(rest) =
                     Cardinality({p \in Prices : At(AsMap(asks), p) # At(AsMap(rest.asks), p)})
                     + Cardinality({p \in Prices : At(AsMap(bids), p) # At(AsMap(rest.bids), p)})
    BY <2>1, <2>5, CompareExact DEF VolumeAt
  <2> QED
    BY <2>3, <2>4, <2>5 DEF QueriesExact
<1> QED
  BY <1>1, LevelsAlways, PTL

=============================================================================
