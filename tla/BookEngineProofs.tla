-------------------------- MODULE BookEngineProofs --------------------------
(***************************************************************************)
(* Theorems about the order-book engine, for any symbols, any batches and  *)
(* any number of track calls.  What ties books, loops and the activation   *)
(* report together is the map of handles: a symbol's handle is that of its *)
(* newest loop, and no status is Active that no item made so.              *)
(***************************************************************************)
EXTENDS BookEngine, FiniteSetTheorems, WellFoundedInduction, SequenceTheorems, TLAPS

-----------------------------------------------------------------------------
(* The last place a symbol has in a batch. *)

\* Among the sets of what lies above a member, the least is that above the greatest.
LEMMA GreatestExists ==
  ASSUME NEW n \in Nat, NEW S \in SUBSET (1 .. n), S # {}
  PROVE  Max(S) \in S /\ \A k \in S : Max(S) >= k
<1> DEFINE Above(k) == {j \in S : j > k}
           Aboves   == {Above(k) : k \in S}
<1>1. IsFiniteSet(S)
  <2>1. IsFiniteSet(1 .. n)
    BY FS_Interval, n \in Int, 1 \in Int
  <2> QED
    BY <2>1, FS_Subset
<1>2. IsWellFoundedOn(StrictSubsetOrdering(S), FiniteSubsetsOf(S))
  BY FS_StrictSubsetOrderingWellFounded
<1>3. Aboves \subseteq FiniteSubsetsOf(S) /\ Aboves # {}
  <2>1. ASSUME NEW k \in S PROVE Above(k) \in FiniteSubsetsOf(S)
    <3>1. Above(k) \in SUBSET S
      OBVIOUS
    <3>2. IsFiniteSet(Above(k))
      BY <1>1, <3>1, FS_Subset
    <3> QED
      BY <3>1, <3>2 DEF FiniteSubsetsOf
  <2> QED
    BY <2>1
<1>4. PICK top \in Aboves : \A A \in Aboves : <<A, top>> \notin StrictSubsetOrdering(S)
  <2> HIDE DEF Aboves
  <2> QED
    BY <1>2, <1>3, WFMin
<1>5. PICK k \in S : top = Above(k)
  BY <1>4
<1>6. \A j \in S : k >= j
  <2> SUFFICES ASSUME NEW j \in S, j > k PROVE FALSE
    OBVIOUS
  <2>1. Above(j) \subseteq Above(k) /\ j \in Above(k) /\ j \notin Above(j)
    <3>1. \A i \in S : i \in Int
      OBVIOUS
    <3>2. (\A i \in S : i > j => i > k) /\ ~(j > j)
      BY <3>1
    <3> QED
      BY <3>2
  <2>2. <<Above(j), Above(k)>> \in StrictSubsetOrdering(S)
    BY <2>1 DEF StrictSubsetOrdering
  <2> QED
    BY <1>4, <1>5, <2>2
<1> QED
  BY <1>6 DEF Max

-----------------------------------------------------------------------------
(* The invariant. *)

Loop == [symbol : Symbols, call : Calls, runs : BOOLEAN,
         status : {"Initializing", "Active"}, got : BOOLEAN]

Types ==
  /\ loops \in Seq(Loop)
  /\ handle \in [Symbols -> Nat]
  /\ batch \in [Calls -> Seq(Symbols)]
  /\ added \in Seq(Batches)

\* The handle of a symbol is its newest loop's; a symbol without one has no loop.
HandlesAreNewest ==
  \A s \in Symbols :
    /\ handle[s] # 0 => handle[s] \in DOMAIN loops /\ loops[handle[s]].symbol = s
    /\ \A j \in DOMAIN loops : loops[j].symbol = s => j <= handle[s]

ActiveGotItem == \A i \in DOMAIN loops : loops[i].status = "Active" => loops[i].got

EngineInv == Types /\ HandlesAreNewest /\ ActiveGotItem /\ BooksAreFed

LEMMA EngineInit == Init => EngineInv
BY DEF Init, EngineInv, Types, HandlesAreNewest, ActiveGotItem, BooksAreFed

\* A step that touches none of this.
LEMMA Bystander ==
  ASSUME EngineInv, UNCHANGED <<loops, handle, batch, added, books, failed>>
  PROVE  EngineInv'
BY DEF EngineInv, Types, HandlesAreNewest, ActiveGotItem, BooksAreFed

-----------------------------------------------------------------------------
(* New loops. *)

LEMMA FreshLoops ==
  ASSUME NEW c \in Calls, NEW symbols \in Seq(Symbols), Types, StartLoops(c, symbols)
  PROVE  /\ loops' \in Seq(Loop)
         /\ Len(loops') = Len(loops) + Len(symbols)
         /\ \A i \in 1 .. Len(loops) : loops'[i] = loops[i]
         /\ \A k \in 1 .. Len(symbols) :
              /\ loops'[Len(loops) + k].symbol = symbols[k]
              /\ loops'[Len(loops) + k].status = "Initializing"
<1> DEFINE new == Fresh(c, symbols)
<1>1. /\ new \in Seq(Loop) /\ Len(new) = Len(symbols)
      /\ \A k \in 1 .. Len(symbols) :
           new[k].symbol = symbols[k] /\ new[k].status = "Initializing"
  <2>1. new = [k \in 1 .. Len(symbols) |->
                 [symbol |-> symbols[k], call |-> c, runs |-> TRUE,
                  status |-> "Initializing", got |-> FALSE]]
    BY DEF Fresh
  <2>2. \A k \in 1 .. Len(symbols) : new[k] \in Loop
    BY <2>1 DEF Loop
  <2> QED
    BY <2>1, <2>2
<1>2. loops \in Seq(Loop) /\ loops' = loops \o new
  BY DEF Types, StartLoops
<1> HIDE DEF new
<1>3. Len(loops) \in Nat /\ Len(symbols) \in Nat
  BY <1>2
<1>4. loops' \in Seq(Loop) /\ Len(loops') = Len(loops) + Len(symbols)
  <2>1. loops \o new \in Seq(Loop) /\ Len(loops \o new) = Len(loops) + Len(new)
    BY <1>1, <1>2, ConcatProperties
  <2> QED
    BY <1>1, <1>2, <2>1
<1>5. \A i \in 1 .. Len(loops) : loops'[i] = loops[i]
  BY <1>1, <1>2
<1>6. \A k \in 1 .. Len(symbols) : loops'[Len(loops) + k] = new[k]
  BY <1>1, <1>2, <1>3
<1> QED
  BY <1>1, <1>4, <1>5, <1>6

LEMMA FreshHandles ==
  ASSUME NEW c \in Calls, NEW symbols \in Seq(Symbols), Types, HandlesAreNewest,
         StartLoops(c, symbols)
  PROVE  handle' \in [Symbols -> Nat] /\ HandlesAreNewest'
<1> DEFINE n == Len(loops)
           Places(s) == {k \in DOMAIN symbols : symbols[k] = s}
<1>1. /\ n \in Nat /\ Len(symbols) \in Nat
      /\ DOMAIN symbols = 1 .. Len(symbols) /\ DOMAIN loops = 1 .. n
  BY DEF Types
<1>2. \A s \in Symbols :
        handle'[s] = IF s \in ToSet(symbols) THEN n + Max(Places(s)) ELSE handle[s]
  BY DEF StartLoops
<1>3. ASSUME NEW s \in ToSet(symbols)
      PROVE  /\ Max(Places(s)) \in DOMAIN symbols /\ symbols[Max(Places(s))] = s
             /\ \A k \in Places(s) : Max(Places(s)) >= k
  <2>1. Places(s) \in SUBSET (1 .. Len(symbols)) /\ Places(s) # {}
    BY <1>1 DEF ToSet
  <2>2. Max(Places(s)) \in Places(s) /\ \A k \in Places(s) : Max(Places(s)) >= k
    <3> HIDE DEF Places
    <3> QED
      BY <1>1, <2>1, GreatestExists
  <2> QED
    BY <2>2
<1> HIDE DEF n
<1>4. DOMAIN loops' = 1 .. n + Len(symbols)
  BY <1>1, FreshLoops DEF n
<1>5. ASSUME NEW s \in Symbols
      PROVE  /\ handle'[s] \in Nat
             /\ handle'[s] # 0 => handle'[s] \in DOMAIN loops' /\ loops'[handle'[s]].symbol = s
             /\ \A j \in DOMAIN loops' : loops'[j].symbol = s => j <= handle'[s]
  <2>1. /\ \A i \in 1 .. n : loops'[i] = loops[i]
        /\ \A k \in 1 .. Len(symbols) : loops'[n + k].symbol = symbols[k]
    BY FreshLoops DEF n
  <2>2. \A j \in DOMAIN loops' : j \in 1 .. n \/ \E k \in 1 .. Len(symbols) : j = n + k
    <3>1. \A j \in 1 .. n + Len(symbols) : j > n => j - n \in 1 .. Len(symbols) /\ j = n + (j - n)
      BY <1>1
    <3> QED
      BY <1>1, <1>4, <3>1
  <2>3. CASE s \in ToSet(symbols)
    <3> DEFINE m == Max(Places(s))
    <3>1. m \in 1 .. Len(symbols) /\ symbols[m] = s /\ handle'[s] = n + m
      BY <1>1, <1>2, <1>3, <2>3
    <3>2. \A k \in 1 .. Len(symbols) : symbols[k] = s => m >= k
      BY <1>1, <1>3, <2>3
    <3> HIDE DEF m
    <3>3. ASSUME NEW j \in DOMAIN loops', loops'[j].symbol = s PROVE j <= n + m
      <4>1. CASE j \in 1 .. n
        BY <1>1, <3>1, <4>1
      <4>2. ASSUME NEW k \in 1 .. Len(symbols), j = n + k PROVE j <= n + m
        BY <1>1, <2>1, <3>1, <3>2, <3>3, <4>2
      <4> QED
        BY <2>2, <4>1, <4>2
    <3>4. n + m \in DOMAIN loops' /\ n + m \in Nat
      BY <1>1, <1>4, <3>1
    <3>5. loops'[n + m].symbol = s
      BY <2>1, <3>1
    <3> QED
      BY <3>1, <3>3, <3>4, <3>5
  <2>4. CASE s \notin ToSet(symbols)
    <3>1. handle'[s] = handle[s] /\ handle[s] \in Nat
      BY <1>2, <2>4 DEF Types
    <3>2. /\ handle[s] # 0 => handle[s] \in 1 .. n /\ loops[handle[s]].symbol = s
          /\ \A j \in 1 .. n : loops[j].symbol = s => j <= handle[s]
      BY <1>1 DEF HandlesAreNewest
    <3>3. \A k \in 1 .. Len(symbols) : symbols[k] # s
      BY <1>1, <2>4 DEF ToSet
    <3>4. 1 .. n \subseteq DOMAIN loops'
      BY <1>1, <1>4
    <3> QED
      BY <2>1, <2>2, <3>1, <3>2, <3>3, <3>4
  <2> QED
    BY <2>3, <2>4
<1>6. handle' \in [Symbols -> Nat]
  <2>1. handle' = [s \in Symbols |-> handle'[s]]
    BY DEF StartLoops
  <2> QED
    BY <1>5, <2>1
<1> QED
  BY <1>5, <1>6 DEF HandlesAreNewest

\* Loops start for a batch: what they track is fed, nobody's handle goes astray.
LEMMA LoopsStart ==
  ASSUME EngineInv, NEW c \in Calls, NEW symbols \in Seq(Symbols), StartLoops(c, symbols),
         books' \subseteq books \cup ToSet(symbols), failed' = failed,
         batch' \in [Calls -> Seq(Symbols)], added' \in Seq(Batches)
  PROVE  EngineInv'
<1>1. Types'
  BY FreshLoops, FreshHandles DEF EngineInv, Types
<1>2. HandlesAreNewest'
  BY FreshHandles DEF EngineInv
<1>3. /\ Len(loops) \in Nat /\ Len(symbols) \in Nat
      /\ DOMAIN loops = 1 .. Len(loops) /\ DOMAIN symbols = 1 .. Len(symbols)
      /\ DOMAIN loops' = 1 .. Len(loops) + Len(symbols)
  <2>1. loops' \in Seq(Loop) /\ Len(loops') = Len(loops) + Len(symbols)
    BY FreshLoops DEF EngineInv
  <2> QED
    BY <2>1 DEF EngineInv, Types
<1>4. \A i \in DOMAIN loops : i \in DOMAIN loops' /\ loops'[i] = loops[i]
  BY <1>3, FreshLoops DEF EngineInv
<1>5. ASSUME NEW k \in DOMAIN symbols
      PROVE  /\ Len(loops) + k \in DOMAIN loops'
             /\ loops'[Len(loops) + k].symbol = symbols[k]
             /\ loops'[Len(loops) + k].status = "Initializing"
  BY <1>3, FreshLoops DEF EngineInv
<1>6. ActiveGotItem'
  <2> SUFFICES ASSUME NEW i \in DOMAIN loops', loops'[i].status = "Active"
               PROVE  loops'[i].got
    BY DEF ActiveGotItem
  <2>1. CASE i \in DOMAIN loops
    BY <1>4, <2>1 DEF EngineInv, ActiveGotItem
  <2>2. CASE i \notin DOMAIN loops
    <3>1. i - Len(loops) \in DOMAIN symbols /\ i = Len(loops) + (i - Len(loops))
      BY <1>3, <2>2
    <3>2. loops'[i].status = "Initializing"
      BY <1>5, <3>1
    <3> QED
      BY <3>2
  <2> QED
    BY <2>1, <2>2
<1>7. BooksAreFed'
  <2> SUFFICES ASSUME NEW s \in books', s \notin failed
               PROVE  \E i \in DOMAIN loops' : loops'[i].symbol = s
    BY DEF BooksAreFed
  <2>1. CASE s \in books
    BY <1>4, <2>1 DEF EngineInv, BooksAreFed
  <2>2. CASE s \in ToSet(symbols)
    <3>1. PICK k \in DOMAIN symbols : symbols[k] = s
      BY <2>2 DEF ToSet
    <3> QED
      BY <1>5, <3>1
  <2> QED
    BY <2>1, <2>2
<1> QED
  BY <1>1, <1>2, <1>6, <1>7 DEF EngineInv

\* A loop gets an item, starts over or ends.
LEMMA LoopChanges ==
  ASSUME EngineInv, NEW i \in DOMAIN loops, NEW l \in Loop,
         l.symbol = loops[i].symbol, l.status = "Active" => l.got,
         loops' = [loops EXCEPT ![i] = l],
         books' \subseteq books \cup {l.symbol},
         UNCHANGED <<handle, batch, added, failed>>
  PROVE  EngineInv'
<1>1. /\ loops' \in Seq(Loop) /\ DOMAIN loops' = DOMAIN loops
      /\ \A j \in DOMAIN loops : loops'[j] = IF j = i THEN l ELSE loops[j]
  BY DEF EngineInv, Types
<1>2. \A j \in DOMAIN loops : loops'[j].symbol = loops[j].symbol
  BY <1>1
<1>3. Types'
  BY <1>1 DEF EngineInv, Types
<1>4. HandlesAreNewest'
  BY <1>1, <1>2 DEF EngineInv, HandlesAreNewest
<1>5. ActiveGotItem'
  BY <1>1 DEF EngineInv, ActiveGotItem
<1>6. BooksAreFed'
  BY <1>1, <1>2 DEF EngineInv, BooksAreFed
<1> QED
  BY <1>3, <1>4, <1>5, <1>6 DEF EngineInv

-----------------------------------------------------------------------------
(* Every step. *)

LEMMA BatchIsSeq ==
  ASSUME NEW symbols \in Batches
  PROVE  symbols \in Seq(Symbols)
BY EngineAssumption

LEMMA TakenIsBatch ==
  ASSUME EngineInv, added # <<>>
  PROVE  Head(added) \in Batches /\ Tail(added) \in Seq(Batches)
BY DEF EngineInv, Types

LEMMA TrackStep ==
  ASSUME EngineInv, NEW c \in Calls, Track(c)
  PROVE  EngineInv'
<1>1. PICK symbols \in Batches :
        \/ Runs(c, symbols)
        \/ batch' = [batch EXCEPT ![c] = symbols] /\ UNCHANGED <<loops, handle>>
  BY DEF Track
<1>2. UNCHANGED <<books, added, failed>> /\ symbols \in Seq(Symbols)
  BY BatchIsSeq DEF Track
<1>3. CASE Runs(c, symbols)
  <2>1. StartLoops(c, symbols) /\ batch' \in [Calls -> Seq(Symbols)]
    BY <1>3 DEF Runs, EngineInv, Types
  <2>2. added' \in Seq(Batches)
    BY <1>2 DEF EngineInv, Types
  <2> QED
    BY <1>2, <2>1, <2>2, LoopsStart
<1>4. CASE batch' = [batch EXCEPT ![c] = symbols] /\ UNCHANGED <<loops, handle>>
  <2>1. batch' \in [Calls -> Seq(Symbols)]
    BY <1>2, <1>4 DEF EngineInv, Types
  <2> QED
    BY <1>2, <1>4, <2>1 DEF EngineInv, Types, HandlesAreNewest, ActiveGotItem, BooksAreFed
<1> QED
  BY <1>1, <1>3, <1>4

LEMMA ArriveStep ==
  ASSUME EngineInv, NEW c \in Calls, SnapshotsArrive(c)
  PROVE  EngineInv'
<1>1. batch[c] \in Seq(Symbols)
  BY DEF EngineInv, Types
<1>2. /\ StartLoops(c, batch[c]) /\ books' = books \cup ToSet(batch[c])
      /\ UNCHANGED <<added, failed>> /\ batch' = [batch EXCEPT ![c] = <<>>]
  BY DEF SnapshotsArrive, Runs
<1>3. batch' \in [Calls -> Seq(Symbols)] /\ added' \in Seq(Batches)
  BY <1>2 DEF EngineInv, Types
<1> QED
  BY <1>1, <1>2, <1>3, LoopsStart

LEMMA FailStep ==
  ASSUME EngineInv, NEW c \in Calls, SnapshotsFail(c)
  PROVE  EngineInv'
<1>1. /\ books' \subseteq books \cup ToSet(batch[c])
      /\ failed' = failed \cup ToSet(batch[c])
      /\ batch' = [batch EXCEPT ![c] = <<>>]
      /\ UNCHANGED <<added, loops, handle>>
  BY DEF SnapshotsFail
<1>2. batch' \in [Calls -> Seq(Symbols)]
  BY <1>1 DEF EngineInv, Types
<1>3. Types' /\ HandlesAreNewest' /\ ActiveGotItem'
  BY <1>1, <1>2 DEF EngineInv, Types, HandlesAreNewest, ActiveGotItem
<1>4. BooksAreFed'
  BY <1>1 DEF EngineInv, BooksAreFed
<1> QED
  BY <1>3, <1>4 DEF EngineInv

LEMMA AdditionalStep ==
  ASSUME EngineInv, TrackAdditional
  PROVE  EngineInv'
<1>1. PICK symbols \in Batches : added' = Append(added, symbols)
  BY DEF TrackAdditional
<1>2. added' \in Seq(Batches)
  BY <1>1 DEF EngineInv, Types
<1> QED
  BY <1>2 DEF TrackAdditional, EngineInv, Types, HandlesAreNewest, ActiveGotItem, BooksAreFed

LEMMA TakeStep ==
  ASSUME EngineInv, NEW c \in Calls, TakeAdded(c)
  PROVE  EngineInv'
<1> DEFINE symbols == Head(added)
<1>1. symbols \in Seq(Symbols) /\ added' \in Seq(Batches) /\ UNCHANGED <<books, failed>>
  BY TakenIsBatch, BatchIsSeq DEF TakeAdded
<1>2. \/ Runs(c, symbols)
      \/ batch' = [batch EXCEPT ![c] = symbols] /\ UNCHANGED <<loops, handle>>
  BY DEF TakeAdded
<1> HIDE DEF symbols
<1>3. CASE Runs(c, symbols)
  <2>1. StartLoops(c, symbols) /\ batch' \in [Calls -> Seq(Symbols)]
    BY <1>3 DEF Runs, EngineInv, Types
  <2> QED
    BY <1>1, <2>1, LoopsStart
<1>4. CASE batch' = [batch EXCEPT ![c] = symbols] /\ UNCHANGED <<loops, handle>>
  <2>1. batch' \in [Calls -> Seq(Symbols)]
    BY <1>1, <1>4 DEF EngineInv, Types
  <2> QED
    BY <1>1, <1>4, <2>1 DEF EngineInv, Types, HandlesAreNewest, ActiveGotItem, BooksAreFed
<1> QED
  BY <1>2, <1>3, <1>4

LEMMA LoopStep ==
  ASSUME EngineInv, NEW i \in DOMAIN loops, LoopReceives(i) \/ LoopRestarts(i) \/ LoopEnds(i)
  PROVE  EngineInv'
<1>1. loops[i] \in Loop
  BY DEF EngineInv, Types
<1>2. CASE LoopReceives(i)
  <2> DEFINE l == [loops[i] EXCEPT !.status = "Active", !.got = TRUE]
  <2>1. l \in Loop /\ l.symbol = loops[i].symbol /\ l.got
    BY <1>1 DEF Loop
  <2>2. /\ loops' = [loops EXCEPT ![i] = l] /\ books' = books \cup {loops[i].symbol}
        /\ UNCHANGED <<handle, batch, added, failed>>
    BY <1>2 DEF LoopReceives
  <2> HIDE DEF l
  <2> QED
    BY <2>1, <2>2, LoopChanges
<1>3. CASE LoopRestarts(i)
  <2> DEFINE l == [loops[i] EXCEPT !.status = "Initializing"]
  <2>1. l \in Loop /\ l.symbol = loops[i].symbol /\ l.status # "Active"
    BY <1>1 DEF Loop
  <2>2. /\ loops' = [loops EXCEPT ![i] = l]
        /\ UNCHANGED <<books, handle, batch, added, failed>>
    BY <1>3 DEF LoopRestarts
  <2> HIDE DEF l
  <2> QED
    BY <2>1, <2>2, LoopChanges
<1>4. CASE LoopEnds(i)
  <2> DEFINE l == [loops[i] EXCEPT !.runs = FALSE]
  <2>1. l \in Loop /\ l.symbol = loops[i].symbol /\ (l.status = "Active" => l.got)
    BY <1>1 DEF Loop, EngineInv, ActiveGotItem
  <2>2. /\ loops' = [loops EXCEPT ![i] = l]
        /\ UNCHANGED <<books, handle, batch, added, failed>>
    BY <1>4 DEF LoopEnds
  <2> HIDE DEF l
  <2> QED
    BY <2>1, <2>2, LoopChanges
<1> QED
  BY <1>2, <1>3, <1>4

LEMMA EngineStep ==
  ASSUME EngineInv, [Next]_vars
  PROVE  EngineInv'
<1>1. ASSUME NEW c \in Calls, TrackReturns(c) PROVE EngineInv'
  BY <1>1, Bystander DEF TrackReturns
<1>2. CASE Activates
  BY <1>2, Bystander DEF Activates
<1>3. CASE UNCHANGED vars
  BY <1>3, Bystander DEF vars
<1> QED
  BY <1>1, <1>2, <1>3, TrackStep, ArriveStep, FailStep, TakeStep, AdditionalStep, LoopStep
     DEF Next

LEMMA EngineInvariant == Spec => []EngineInv
BY EngineInit, EngineStep, PTL DEF Spec

\* Only the monitor reports, and it looks at every handle: at the newest loop of each.
LEMMA ActivationStep ==
  ASSUME EngineInv, [Next]_vars, active' # active, NEW i \in DOMAIN loops, Newest(i)
  PROVE  loops[i].got
<1>1. Activates
  <2>1. ASSUME NEW c \in Calls,
               \/ Track(c) \/ SnapshotsArrive(c) \/ SnapshotsFail(c)
               \/ TrackReturns(c) \/ TakeAdded(c)
        PROVE  active' = active
    BY <2>1 DEF Track, SnapshotsArrive, SnapshotsFail, TrackReturns, TakeAdded
  <2>2. ASSUME NEW j \in DOMAIN loops, LoopReceives(j) \/ LoopRestarts(j) \/ LoopEnds(j)
        PROVE  active' = active
    BY <2>2 DEF LoopReceives, LoopRestarts, LoopEnds
  <2>3. TrackAdditional => active' = active
    BY DEF TrackAdditional
  <2>4. UNCHANGED vars => active' = active
    BY DEF vars
  <2> QED
    BY <2>1, <2>2, <2>3, <2>4 DEF Next
<1> DEFINE s == loops[i].symbol
<1>2. s \in Symbols /\ handle[s] \in Nat /\ i \in Nat \ {0}
  <2>1. loops \in Seq(Loop) /\ handle \in [Symbols -> Nat]
    BY DEF EngineInv, Types
  <2>2. loops[i] \in Loop /\ i \in Nat \ {0}
    BY <2>1
  <2>3. s \in Symbols
    BY <2>2 DEF Loop
  <2> QED
    BY <2>1, <2>2, <2>3
<1>3. i <= handle[s]
  BY <1>2 DEF EngineInv, HandlesAreNewest
<1>4. handle[s] # 0 /\ handle[s] \in DOMAIN loops /\ loops[handle[s]].symbol = s
  BY <1>2, <1>3 DEF EngineInv, HandlesAreNewest
<1>5. handle[s] <= i
  BY <1>4 DEF Newest
<1>6. handle[s] = i
  BY <1>2, <1>3, <1>5
<1>7. loops[i].status = "Active"
  BY <1>1, <1>2, <1>4, <1>6 DEF Activates
<1> QED
  BY <1>7 DEF EngineInv, ActiveGotItem

\* Whatever symbols are tracked, added or tracked anew, in any order, and whichever of
\* their snapshots fail: a book in the map has a loop that feeds it, or was in a batch
\* whose failure was reported.
THEOREM BooksFed == Spec => []BooksAreFed
<1>1. EngineInv => BooksAreFed
  BY DEF EngineInv
<1> QED
  BY <1>1, EngineInvariant, PTL

\* spawn_activation_monitor never reports the engine active before the newest loop of
\* every symbol started on has had its first item.
THEOREM ActivationIsHonest == Spec => ActivationHonest
<1>1. EngineInv /\ [Next]_vars
        => [active' # active => \A i \in DOMAIN loops : Newest(i) => loops[i].got]_vars
  BY ActivationStep
<1> QED
  BY <1>1, EngineInvariant, PTL DEF Spec, ActivationHonest

=============================================================================
