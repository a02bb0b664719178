--------------------------- MODULE SequenceLemmas ---------------------------
(***************************************************************************)
(* Facts about numbers, sequences and sums that the proofs of several      *)
(* modules need: induction as a statement about a set, and what            *)
(* FlattenSeq makes of sequences put together.                             *)
(***************************************************************************)
EXTENDS Integers, Sequences, SequencesExt, FiniteSetsExt, SequenceTheorems,
        FiniteSetTheorems, WellFoundedInduction, TLAPS

-----------------------------------------------------------------------------
(* Numbers. *)

LEMMA LeastOf ==
  ASSUME NEW T \in SUBSET Nat, T # {}
  PROVE  Min(T) \in T /\ \A y \in T : Min(T) <= y
<1> DEFINE less == OpToRel(<, Nat)
<1>1. IsWellFoundedOn(less, Nat)
  BY NatLessThanWellFounded
<1>2. \A x, y \in Nat : x < y => <<x, y>> \in less
  BY DEF OpToRel
<1> HIDE DEF less
<1>3. PICK x \in T : \A y \in T : <<y, x>> \notin less
  BY <1>1, WFMin
<1>4. \A y \in T : x <= y
  <2> SUFFICES ASSUME NEW y \in T, ~(x <= y)
               PROVE  FALSE
    OBVIOUS
  <2>1. y < x /\ x \in Nat /\ y \in Nat
    OBVIOUS
  <2>2. <<y, x>> \in less
    BY <1>2, <2>1
  <2> QED
    BY <1>3, <2>2
<1> QED
  BY <1>4 DEF Min

\* What fails for some number up to n fails for a least one.
LEMMA LeastFailure ==
  ASSUME NEW n \in Nat, NEW T \in SUBSET (0 .. n), T # {}
  PROVE  \E k \in T : \A m \in 0 .. n : m < k => m \notin T
<1>1. T \in SUBSET Nat
  OBVIOUS
<1>2. PICK k : k \in T /\ \A y \in T : k <= y
  BY <1>1, LeastOf
<1>3. ASSUME NEW m \in 0 .. n, m < k
      PROVE  m \notin T
  BY <1>2, <1>3
<1> QED
  BY <1>2, <1>3

\* Induction up to n, about membership in a set.
LEMMA UpTo ==
  ASSUME NEW n \in Nat, NEW T, 0 \in T,
         \A k \in 0 .. n - 1 : k \in T => k + 1 \in T
  PROVE  \A k \in 0 .. n : k \in T
<1> DEFINE Bad == {k \in 0 .. n : k \notin T}
<1> SUFFICES ASSUME Bad # {}
             PROVE  FALSE
  OBVIOUS
<1>1. PICK k \in Bad : \A m \in 0 .. n : m < k => m \notin Bad
  <2>1. Bad \in SUBSET (0 .. n)
    OBVIOUS
  <2> HIDE DEF Bad
  <2> QED
    BY <2>1, LeastFailure
<1>2. k # 0 /\ k \in 0 .. n
  BY <1>1
<1>3. k - 1 \in 0 .. n - 1 /\ k - 1 \in 0 .. n /\ k - 1 < k /\ (k - 1) + 1 = k
  BY <1>2
<1>4. k - 1 \in T
  BY <1>1, <1>3
<1> QED
  BY <1>1, <1>3, <1>4

\* Where n steps lead from a, if step k leads from v to step[k][v].
TakesSteps(f, n, V, a, step) ==
  f \in [0 .. n -> V] /\ f[0] = a /\ \A k \in 1 .. n : f[k] = step[k][f[k - 1]]

\* Any number of steps can be taken one after the other.
LEMMA StepsRun ==
  ASSUME NEW n \in Nat, NEW V, NEW a \in V, NEW step \in [1 .. n -> [V -> V]]
  PROVE  \E f : TakesSteps(f, n, V, a, step)
<1> DEFINE Runs(m) == {f \in [0 .. m -> V] :
                         f[0] = a /\ \A k \in 1 .. m : f[k] = step[k][f[k - 1]]}
           T == {m \in 0 .. n : Runs(m) # {}}
<1>1. 0 \in T
  <2>1. [k \in 0 .. 0 |-> a] \in Runs(0)
    OBVIOUS
  <2> HIDE DEF Runs
  <2> QED
    BY <2>1
<1>2. ASSUME NEW m \in 0 .. n - 1, m \in T
      PROVE  m + 1 \in T
  <2>1. PICK f \in [0 .. m -> V] : f[0] = a /\ \A k \in 1 .. m : f[k] = step[k][f[k - 1]]
    BY <1>2
  <2>2. m \in 0 .. m /\ m + 1 \in 1 .. n /\ f[m] \in V
    BY <2>1
  <2>3. step[m + 1][f[m]] \in V
    <3>1. step[m + 1] \in [V -> V]
      BY <2>2
    <3> QED
      BY <2>2, <3>1
  <2> DEFINE g == [k \in 0 .. m + 1 |-> IF k = m + 1 THEN step[m + 1][f[m]] ELSE f[k]]
  <2>4. g \in [0 .. m + 1 -> V]
    BY <2>1, <2>3
  <2>5. g[0] = a
    BY <2>1
  <2>6. ASSUME NEW k \in 1 .. m + 1
        PROVE  g[k] = step[k][g[k - 1]]
    <3>1. CASE k = m + 1
      <4>1. g[k] = step[m + 1][f[m]] /\ k - 1 = m
        BY <3>1
      <4>2. g[m] = f[m]
        BY <2>2
      <4> QED
        BY <3>1, <4>1, <4>2
    <3>2. CASE k # m + 1
      <4>1. k \in 1 .. m /\ k - 1 \in 0 .. m
        BY <3>2
      <4> QED
        BY <2>1, <3>2, <4>1
    <3> QED
      BY <3>1, <3>2
  <2>7. g \in Runs(m + 1)
    BY <2>4, <2>5, <2>6
  <2> HIDE DEF Runs
  <2> QED
    BY <2>7
<1>3. n \in T
  <2> HIDE DEF T
  <2>1. \A k \in 0 .. n : k \in T
    BY <1>1, <1>2, UpTo
  <2> QED
    BY <2>1
<1> QED
  BY <1>3 DEF TakesSteps

-----------------------------------------------------------------------------
(* Sequences. *)

\* Induction over sequences, about membership in a set.
LEMMA EverySeq ==
  ASSUME NEW S, NEW T, <<>> \in T,
         \A s \in Seq(S), x \in S : s \in T => Append(s, x) \in T
  PROVE  \A s \in Seq(S) : s \in T
<1> SUFFICES ASSUME NEW s \in Seq(S)
             PROVE  s \in T
  OBVIOUS
<1> DEFINE U == {k \in 0 .. Len(s) : SubSeq(s, 1, k) \in T}
<1>1. Len(s) \in Nat
  OBVIOUS
<1>2. 0 \in U
  <2>1. SubSeq(s, 1, 0) = <<>>
    BY SubSeqEmpty, 0 < 1, 0 \in Int, 1 \in Int
  <2>2. 0 \in 0 .. Len(s)
    BY <1>1
  <2> QED
    BY <2>1, <2>2
<1>3. ASSUME NEW k \in 0 .. Len(s) - 1, k \in U
      PROVE  k + 1 \in U
  <2>1. k + 1 \in 1 .. Len(s) /\ s[k + 1] \in S
    BY <1>1, ElementOfSeq
  <2>2. SubSeq(s, 1, k) \in Seq(S)
    <3>1. \A i \in 1 .. k : s[i] \in S
      BY <1>1
    <3> QED
      BY <1>1, <3>1, SubSeqProperties
  <2>3. SubSeq(s, 1, k + 1) = Append(SubSeq(s, 1, k), s[k + 1])
    <3>1. SubSeq(s, 1, k + 1) = SubSeq(s, 1, (k + 1) - 1) \o <<s[k + 1]>>
      BY <2>1, SubSeqRecursiveSecond, 1 \in 1 .. Len(s), k + 1 \in 1 .. Len(s)
    <3> QED
      BY <2>1, <2>2, <3>1, AppendIsConcat, (k + 1) - 1 = k
  <2>4. SubSeq(s, 1, k) \in T
    BY <1>3
  <2>5. Append(SubSeq(s, 1, k), s[k + 1]) \in T
    BY <2>1, <2>2, <2>4
  <2>6. SubSeq(s, 1, k + 1) \in T
    BY <2>3, <2>5
  <2>7. k + 1 \in 0 .. Len(s)
    BY <2>1
  <2> QED
    BY <2>6, <2>7
<1>4. Len(s) \in U
  <2> HIDE DEF U
  <2>1. \A k \in 0 .. Len(s) : k \in U
    BY <1>1, <1>2, <1>3, UpTo
  <2> QED
    BY <1>1, <2>1
<1> QED
  BY <1>4, SubSeqFull, ZenonT(30)

LEMMA PrefixOfConcat ==
  ASSUME NEW S, NEW s \in Seq(S), NEW t \in Seq(S)
  PROVE  IsPrefix(s, s \o t)
<1>1. /\ Len(s) \in Nat /\ Len(t) \in Nat /\ Len(s \o t) = Len(s) + Len(t)
      /\ \A k \in 1 .. Len(s) : (s \o t)[k] = s[k]
  OBVIOUS
<1>2. SubSeq(s, 1, Len(s)) = SubSeq(s \o t, 1, Len(s))
  BY <1>1
<1> QED
  BY <1>1, <1>2 DEF IsPrefix

-----------------------------------------------------------------------------
(* Sequences of sequences, put together. *)

\* FlattenSeq grows by one sequence after the other.
LEMMA FlattenRuns ==
  ASSUME NEW S, NEW ss \in Seq(Seq(S)), ss # <<>>
  PROVE  \E f \in [1 .. Len(ss) -> Seq(S)] :
           /\ f[1] = ss[1] /\ \A k \in 2 .. Len(ss) : f[k] = f[k - 1] \o ss[k]
           /\ FlattenSeq(ss) = f[Len(ss)]
<1> DEFINE n == Len(ss)
           IsFlat(f) == f = [i \in 1 .. n |-> IF i = 1 THEN ss[i] ELSE f[i - 1] \o ss[i]]
           step == [k \in 1 .. n |-> [v \in Seq(S) |-> v \o ss[k]]]
<1>1. n \in Nat \ {0} /\ \A k \in 1 .. n : ss[k] \in Seq(S)
  BY EmptySeq
<1>2. step \in [1 .. n -> [Seq(S) -> Seq(S)]]
  BY <1>1, ConcatProperties
<1>3. PICK g : TakesSteps(g, n, Seq(S), <<>>, step)
  <2> HIDE DEF step, n
  <2>1. n \in Nat /\ <<>> \in Seq(S)
    BY <1>1, EmptySeq
  <2> QED
    BY <1>2, <2>1, StepsRun
<1>4. g \in [0 .. n -> Seq(S)] /\ g[0] = <<>> /\ \A k \in 1 .. n : g[k] = g[k - 1] \o ss[k]
  <2>1. g \in [0 .. n -> Seq(S)] /\ g[0] = <<>> /\ \A k \in 1 .. n : g[k] = step[k][g[k - 1]]
    BY <1>3 DEF TakesSteps
  <2> SUFFICES ASSUME NEW k \in 1 .. n
               PROVE  g[k] = g[k - 1] \o ss[k]
    BY <2>1
  <2>2. k - 1 \in 0 .. n
    BY <1>1
  <2>3. g[k - 1] \in Seq(S)
    BY <2>1, <2>2
  <2> QED
    BY <2>1, <2>3
<1> DEFINE f == [i \in 1 .. n |-> g[i]]
<1>5. IsFlat(f)
  <2>1. g[1] = ss[1]
    <3>1. 1 \in 1 .. n /\ 1 - 1 = 0
      BY <1>1
    <3>2. g[1] = g[1 - 1] \o ss[1] /\ ss[1] \in Seq(S)
      BY <1>1, <1>4, <3>1
    <3>3. g[1] = <<>> \o ss[1]
      BY <1>4, <3>1, <3>2
    <3> QED
      BY <3>2, <3>3, ConcatEmptySeq
  <2>2. ASSUME NEW k \in 1 .. n, k # 1
        PROVE  f[k] = f[k - 1] \o ss[k]
    <3>1. k - 1 \in 1 .. n
      BY <1>1, <2>2
    <3> QED
      BY <1>4, <3>1
  <2> QED
    BY <2>1, <2>2
<1> DEFINE u == CHOOSE v : IsFlat(v)
<1>6. FlattenSeq(ss) = u[n]
  BY <1>1 DEF FlattenSeq
<1>7. IsFlat(u)
  <2> HIDE DEF IsFlat, f
  <2> QED
    BY <1>5
<1> HIDE DEF u
<1>8. \A k \in 1 .. n : u[k] = IF k = 1 THEN ss[k] ELSE u[k - 1] \o ss[k]
  BY <1>7
<1>9. \A k \in 1 .. n : u[k] \in Seq(S)
  <2> DEFINE T == {k \in 0 .. n : k = 0 \/ u[k] \in Seq(S)}
  <2>1. 0 \in T
    BY <1>1
  <2>2. ASSUME NEW k \in 0 .. n - 1, k \in T
        PROVE  k + 1 \in T
    <3>0. k + 1 \in 1 .. n /\ k + 1 \in 0 .. n
      BY <1>1
    <3>1. CASE k = 0
      <4>1. u[1] = ss[1] /\ ss[1] \in Seq(S)
        BY <1>1, <1>8
      <4> QED
        BY <3>0, <3>1, <4>1
    <3>2. CASE k # 0
      <4>1. u[k] \in Seq(S) /\ ss[k + 1] \in Seq(S)
        BY <1>1, <2>2, <3>0, <3>2
      <4>2. u[k + 1] = u[(k + 1) - 1] \o ss[k + 1]
        <5>1. k + 1 # 1
          BY <1>1, <3>2
        <5> HIDE DEF n
        <5> QED
          BY <1>8, <3>0, <5>1
      <4>3. u[k + 1] = u[k] \o ss[k + 1]
        BY <4>2, (k + 1) - 1 = k
      <4>4. u[k + 1] \in Seq(S)
        BY <4>1, <4>3, ConcatProperties
      <4> QED
        BY <3>0, <4>4
    <3> QED
      BY <3>1, <3>2
  <2>3. \A k \in 0 .. n : k \in T
    <3> HIDE DEF T, n
    <3> QED
      BY <1>1, <2>1, <2>2, UpTo
  <2> QED
    BY <2>3
<1>10. u = [i \in 1 .. n |-> u[i]]
  BY <1>7
<1>11. u \in [1 .. n -> Seq(S)]
  BY <1>9, <1>10
<1>12. u[1] = ss[1] /\ \A k \in 2 .. n : u[k] = u[k - 1] \o ss[k]
  <2>1. 1 \in 1 .. n /\ \A k \in 2 .. n : k \in 1 .. n /\ k # 1
    BY <1>1
  <2> HIDE DEF n
  <2> QED
    BY <1>8, <2>1
<1> QED
  BY <1>6, <1>11, <1>12

LEMMA FlattenEmpty == FlattenSeq(<<>>) = <<>>
BY DEF FlattenSeq

\* One sequence more.
LEMMA FlattenAppend ==
  ASSUME NEW S, NEW ss \in Seq(Seq(S)), NEW x \in Seq(S)
  PROVE  FlattenSeq(Append(ss, x)) = FlattenSeq(ss) \o x
<1> DEFINE tt == Append(ss, x)
           n == Len(ss)
<1>1. /\ tt \in Seq(Seq(S)) /\ tt # <<>> /\ Len(tt) = n + 1 /\ n \in Nat
      /\ \A k \in 1 .. n : tt[k] = ss[k]
      /\ tt[n + 1] = x
  BY AppendProperties
<1> HIDE DEF tt
<1>2. PICK g \in [1 .. n + 1 -> Seq(S)] :
        /\ g[1] = tt[1] /\ \A k \in 2 .. n + 1 : g[k] = g[k - 1] \o tt[k]
        /\ FlattenSeq(tt) = g[n + 1]
  <2>1. \E g \in [1 .. Len(tt) -> Seq(S)] :
          /\ g[1] = tt[1] /\ \A k \in 2 .. Len(tt) : g[k] = g[k - 1] \o tt[k]
          /\ FlattenSeq(tt) = g[Len(tt)]
    BY <1>1, FlattenRuns
  <2>2. Len(tt) = n + 1
    BY <1>1
  <2> QED
    BY <2>1, <2>2
<1>3. CASE ss = <<>>
  <2>1. n = 0
    BY <1>3
  <2>2. FlattenSeq(tt) = x
    BY <1>1, <1>2, <2>1
  <2> QED
    BY <1>3, <2>2, FlattenEmpty, ConcatEmptySeq DEF tt
<1>4. CASE ss # <<>>
  <2>1. PICK f \in [1 .. n -> Seq(S)] :
          /\ f[1] = ss[1] /\ \A k \in 2 .. n : f[k] = f[k - 1] \o ss[k]
          /\ FlattenSeq(ss) = f[n]
    BY <1>4, FlattenRuns
  <2>2. n \in Nat \ {0}
    BY <1>4, EmptySeq
  <2> DEFINE T == {k \in 0 .. n : k = 0 \/ g[k] = f[k]}
  <2>3. 0 \in T
    BY <2>2
  <2>4. ASSUME NEW k \in 0 .. n - 1, k \in T
        PROVE  k + 1 \in T
    <3>0. k + 1 \in 1 .. n /\ k + 1 \in 0 .. n
      BY <2>2
    <3>1. CASE k = 0
      BY <1>1, <1>2, <2>1, <3>0, <3>1
    <3>2. CASE k # 0
      <4>1. k + 1 \in 2 .. n /\ k + 1 \in 2 .. n + 1 /\ (k + 1) - 1 = k
        BY <3>0, <3>2
      <4>2. g[k + 1] = g[k] \o tt[k + 1] /\ f[k + 1] = f[k] \o ss[k + 1]
        <5>1. g[k + 1] = g[(k + 1) - 1] \o tt[k + 1]
          BY <1>2, <4>1
        <5>2. f[k + 1] = f[(k + 1) - 1] \o ss[k + 1]
          BY <2>1, <4>1
        <5> QED
          BY <4>1, <5>1, <5>2
      <4>3. g[k] = f[k] /\ tt[k + 1] = ss[k + 1]
        BY <1>1, <2>4, <3>0, <3>2
      <4> QED
        BY <3>0, <4>2, <4>3
    <3> QED
      BY <3>1, <3>2
  <2>5. n \in T
    <3> HIDE DEF T, n
    <3>1. \A k \in 0 .. n : k \in T
      BY <2>2, <2>3, <2>4, UpTo
    <3> QED
      BY <2>2, <3>1
  <2>6. g[n] = f[n]
    BY <2>2, <2>5
  <2>7. g[n + 1] = g[n] \o tt[n + 1]
    <3>1. n + 1 \in 2 .. n + 1 /\ (n + 1) - 1 = n
      BY <2>2
    <3>2. g[n + 1] = g[(n + 1) - 1] \o tt[n + 1]
      BY <1>2, <3>1
    <3> QED
      BY <3>1, <3>2
  <2> QED
    BY <1>1, <1>2, <2>1, <2>6, <2>7 DEF tt
<1> QED
  BY <1>3, <1>4

LEMMA FlattenType ==
  ASSUME NEW S, NEW ss \in Seq(Seq(S))
  PROVE  FlattenSeq(ss) \in Seq(S)
<1>1. CASE ss = <<>>
  BY <1>1, FlattenEmpty, EmptySeq
<1>2. CASE ss # <<>>
  <2>1. Len(ss) \in 1 .. Len(ss)
    BY <1>2, EmptySeq
  <2>2. PICK f \in [1 .. Len(ss) -> Seq(S)] : FlattenSeq(ss) = f[Len(ss)]
    BY <1>2, FlattenRuns
  <2> QED
    BY <2>1, <2>2
<1> QED
  BY <1>1, <1>2

\* What two sequences are put together to is what each is, put together.
LEMMA FlattenConcat ==
  ASSUME NEW S, NEW ss \in Seq(Seq(S)), NEW tt \in Seq(Seq(S))
  PROVE  FlattenSeq(ss \o tt) = FlattenSeq(ss) \o FlattenSeq(tt)
<1> DEFINE T == {t \in Seq(Seq(S)) : FlattenSeq(ss \o t) = FlattenSeq(ss) \o FlattenSeq(t)}
<1>1. <<>> \in T
  <2>1. <<>> \in Seq(Seq(S)) /\ ss \o <<>> = ss
    BY EmptySeq, ConcatEmptySeq
  <2>2. FlattenSeq(ss) \o <<>> = FlattenSeq(ss)
    BY FlattenType, ConcatEmptySeq
  <2> QED
    BY <2>1, <2>2, FlattenEmpty
<1>2. ASSUME NEW t \in Seq(Seq(S)), NEW x \in Seq(S), t \in T
      PROVE  Append(t, x) \in T
  <2>1. Append(t, x) \in Seq(Seq(S)) /\ ss \o Append(t, x) = Append(ss \o t, x)
    <3>1. Append(t, x) = t \o <<x>> /\ <<x>> \in Seq(Seq(S)) /\ Append(t, x) \in Seq(Seq(S))
      BY AppendIsConcat, AppendProperties
    <3>2. ss \o t \in Seq(Seq(S)) /\ (ss \o t) \o <<x>> = ss \o (t \o <<x>>)
      <4> DEFINE Q == Seq(S)
      <4>1. <<x>> \in Seq(Q) /\ t \in Seq(Q) /\ ss \in Seq(Q)
        BY <3>1
      <4> HIDE DEF Q
      <4>2. ss \o t \in Seq(Q)
        BY <4>1, ConcatProperties
      <4>3. (ss \o t) \o <<x>> = ss \o (t \o <<x>>)
        BY <4>1, ConcatAssociative, SMTT(30)
      <4> QED
        BY <4>2, <4>3 DEF Q
    <3>3. Append(ss \o t, x) = (ss \o t) \o <<x>>
      BY <3>2, AppendIsConcat
    <3> QED
      BY <3>1, <3>2, <3>3
  <2>2. FlattenSeq(Append(ss \o t, x)) = FlattenSeq(ss \o t) \o x
    BY ConcatProperties, FlattenAppend
  <2>3. FlattenSeq(Append(t, x)) = FlattenSeq(t) \o x
    BY FlattenAppend
  <2>4. (FlattenSeq(ss) \o FlattenSeq(t)) \o x = FlattenSeq(ss) \o (FlattenSeq(t) \o x)
    BY FlattenType, ConcatAssociative, SMTT(30)
  <2>5. FlattenSeq(ss \o t) = FlattenSeq(ss) \o FlattenSeq(t)
    BY <1>2
  <2> QED
    BY <2>1, <2>2, <2>3, <2>4, <2>5
<1> HIDE DEF T
<1>3. tt \in T
  BY <1>1, <1>2, EverySeq
<1> QED
  BY <1>3 DEF T

LEMMA FlattenOne ==
  ASSUME NEW S, NEW x \in Seq(S)
  PROVE  FlattenSeq(<<x>>) = x
<1>1. <<>> \in Seq(Seq(S)) /\ Append(<<>>, x) = <<x>>
  BY EmptySeq
<1>2. FlattenSeq(Append(<<>>, x)) = <<>> \o x
  BY <1>1, FlattenAppend, FlattenEmpty
<1> QED
  BY <1>1, <1>2, ConcatEmptySeq

LEMMA FlattenHead ==
  ASSUME NEW S, NEW ss \in Seq(Seq(S)), ss # <<>>
  PROVE  FlattenSeq(ss) = Head(ss) \o FlattenSeq(Tail(ss))
<1>1. Head(ss) \in Seq(S) /\ Tail(ss) \in Seq(Seq(S)) /\ <<Head(ss)>> \in Seq(Seq(S))
  BY HeadTailProperties
<1>2. ss = <<Head(ss)>> \o Tail(ss)
  BY <1>1
<1>3. FlattenSeq(<<Head(ss)>> \o Tail(ss)) = FlattenSeq(<<Head(ss)>>) \o FlattenSeq(Tail(ss))
  BY <1>1, FlattenConcat
<1> QED
  BY <1>1, <1>2, <1>3, FlattenOne

Has(s, v) == \E i \in 1 .. Len(s) : s[i] = v

\* What is in the result is in one of the sequences, and the other way round.
LEMMA FlattenHas ==
  ASSUME NEW S, NEW ss \in Seq(Seq(S)), NEW v
  PROVE  Has(FlattenSeq(ss), v) <=> \E k \in 1 .. Len(ss) : Has(ss[k], v)
<1> DEFINE T == {t \in Seq(Seq(S)) : Has(FlattenSeq(t), v) <=> \E k \in 1 .. Len(t) : Has(t[k], v)}
<1>1. <<>> \in T
  BY FlattenEmpty, EmptySeq DEF Has
<1>2. ASSUME NEW t \in Seq(Seq(S)), NEW x \in Seq(S), t \in T
      PROVE  Append(t, x) \in T
  <2>1. FlattenSeq(Append(t, x)) = FlattenSeq(t) \o x /\ FlattenSeq(t) \in Seq(S)
    BY FlattenAppend, FlattenType
  <2>2. ASSUME NEW a \in Seq(S)
        PROVE  Has(a \o x, v) <=> Has(a, v) \/ Has(x, v)
    <3>1. /\ Len(a \o x) = Len(a) + Len(x) /\ Len(a) \in Nat /\ Len(x) \in Nat
          /\ \A i \in 1 .. Len(a) + Len(x) : (a \o x)[i] = IF i <= Len(a) THEN a[i] ELSE x[i - Len(a)]
      BY ConcatProperties
    <3>2. ASSUME Has(a, v)
          PROVE  Has(a \o x, v)
      <4>1. PICK i \in 1 .. Len(a) : a[i] = v
        BY <3>2 DEF Has
      <4> QED
        BY <3>1, <4>1 DEF Has
    <3>3. ASSUME Has(x, v)
          PROVE  Has(a \o x, v)
      <4>1. PICK i \in 1 .. Len(x) : x[i] = v
        BY <3>3 DEF Has
      <4>2. i + Len(a) \in 1 .. Len(a) + Len(x) /\ ~(i + Len(a) <= Len(a)) /\ (i + Len(a)) - Len(a) = i
        BY <3>1
      <4>3. (a \o x)[i + Len(a)] = v
        BY <3>1, <4>1, <4>2 DEF Has
      <4> QED
        BY <3>1, <4>2, <4>3 DEF Has
    <3>4. ASSUME Has(a \o x, v)
          PROVE  Has(a, v) \/ Has(x, v)
      <4>1. PICK i \in 1 .. Len(a) + Len(x) : (a \o x)[i] = v
        BY <3>1, <3>4 DEF Has
      <4>2. CASE i <= Len(a)
        BY <3>1, <4>1, <4>2 DEF Has
      <4>3. CASE ~(i <= Len(a))
        <5>1. i - Len(a) \in 1 .. Len(x) /\ x[i - Len(a)] = v
          BY <3>1, <4>1, <4>3
        <5> QED
          BY <5>1 DEF Has
      <4> QED
        BY <4>2, <4>3
    <3> QED
      BY <3>2, <3>3, <3>4
  <2>3. /\ Len(Append(t, x)) = Len(t) + 1 /\ Len(t) \in Nat
        /\ \A k \in 1 .. Len(t) : Append(t, x)[k] = t[k]
        /\ Append(t, x)[Len(t) + 1] = x
        /\ Append(t, x) \in Seq(Seq(S))
    BY AppendProperties
  <2>4. (\E k \in 1 .. Len(t) + 1 : Has(Append(t, x)[k], v)) <=> (\E k \in 1 .. Len(t) : Has(t[k], v)) \/ Has(x, v)
    <3>1. ASSUME NEW k \in 1 .. Len(t) + 1
          PROVE  k \in 1 .. Len(t) \/ k = Len(t) + 1
      BY <2>3
    <3>2. Len(t) + 1 \in 1 .. Len(t) + 1 /\ \A k \in 1 .. Len(t) : k \in 1 .. Len(t) + 1
      BY <2>3
    <3> QED
      BY <2>3, <3>1, <3>2
  <2>5. Has(FlattenSeq(t), v) <=> \E k \in 1 .. Len(t) : Has(t[k], v)
    BY <1>2
  <2> QED
    BY <2>1, <2>2, <2>3, <2>4, <2>5
<1> HIDE DEF T
<1>3. ss \in T
  BY <1>1, <1>2, EverySeq
<1> QED
  BY <1>3 DEF T

=============================================================================
