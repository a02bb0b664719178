----------------------------- MODULE PriceLevels -----------------------------
(***************************************************************************)
(* An order book over sorted vectors (core/src/orderbook/storage.rs,       *)
(* types.rs), the same book over vectors of bounded length, the queries of *)
(* a book, and the comparison with a REST snapshot that reconciliation     *)
(* rests on (engine.rs).  Both sides are kept in ascending order of price. *)
(***************************************************************************)
EXTENDS Integers, Sequences, SequencesExt, FiniteSetsExt

CONSTANTS
  Prices, Volumes, Snapshots,  \* as in LevelMap
  Depth,                       \* DEPTH of BoundedVec
  Slippages,                   \* slippages asked about, in percent
  Tops                         \* depths asked about

ASSUME LevelAssumption ==
  /\ Prices \subseteq Nat \ {0} /\ Volumes \subseteq Nat /\ 0 \in Volumes
  /\ Depth \in Nat \ {0} /\ Slippages \subseteq 0 .. 100 /\ Tops \subseteq Nat
  /\ \A s \in Snapshots : \A side \in {s.asks, s.bids} :   \* no empty levels
       side \in Seq(ToSet(side)) /\ ToSet(side) \subseteq Prices \X (Volumes \ {0})

VARIABLES
  asks, bids,        \* the book over SortedVec
  topAsks, topBids,  \* the book over BoundedVec, given the same updates
  gaps               \* a level was removed since the book was replaced (history)

vars == <<asks, bids, topAsks, topBids, gaps>>

-----------------------------------------------------------------------------
(* SortedVec and BoundedVec. *)

\* A slip: the place after the levels of the same price.
PlaceAfter(levels, price) == Cardinality({k \in DOMAIN levels : levels[k][1] <= price}) + 1

\* partition_point, counted from 1.
PartitionPoint(levels, price) == Cardinality({k \in DOMAIN levels : levels[k][1] < price}) + 1

LevelRemove(levels, price) ==
  LET at == {k \in DOMAIN levels : levels[k][1] = price}
  IN IF at = {} THEN levels ELSE RemoveAt(levels, Min(at))

IsAt(levels, price, idx) == idx \in DOMAIN levels /\ levels[idx][1] = price

VecInsert(levels, price, volume) ==
  LET idx == PartitionPoint(levels, price) IN
  IF volume = 0 THEN LevelRemove(levels, price)
  ELSE IF IsAt(levels, price, idx) THEN [levels EXCEPT ![idx][2] = volume]
  ELSE InsertAt(levels, idx, <<price, volume>>)

\* A slip: a new level always pushes the last one out.
TopInsertAlways(levels, price, volume) ==
  LET idx == PartitionPoint(levels, price) IN
  IF volume = 0 THEN LevelRemove(levels, price)
  ELSE IF IsAt(levels, price, idx) THEN [levels EXCEPT ![idx][2] = volume]
  ELSE IF Len(levels) < Depth THEN InsertAt(levels, idx, <<price, volume>>)
  ELSE InsertAt(Front(levels), Min({idx, Len(levels)}), <<price, volume>>)

\* A full vector takes a level in only below its last, which it gives up.
TopInsert(levels, price, volume) ==
  LET idx == PartitionPoint(levels, price) IN
  IF volume = 0 THEN LevelRemove(levels, price)
  ELSE IF IsAt(levels, price, idx) THEN [levels EXCEPT ![idx][2] = volume]
  ELSE IF Len(levels) < Depth THEN InsertAt(levels, idx, <<price, volume>>)
  ELSE IF price < Last(levels)[1] THEN InsertAt(Front(levels), idx, <<price, volume>>)
  ELSE levels

\* Levels are inserted one after the other; after k of them there is InsertedUpTo[k].
InsertedUpTo(levels, more) ==
  LET after[k \in 0 .. Len(more)] ==
        IF k = 0 THEN levels ELSE VecInsert(after[k - 1], more[k][1], more[k][2])
  IN after

TopInsertedUpTo(levels, more) ==
  LET after[k \in 0 .. Len(more)] ==
        IF k = 0 THEN levels ELSE TopInsert(after[k - 1], more[k][1], more[k][2])
  IN after

InsertAll(levels, more)    == InsertedUpTo(levels, more)[Len(more)]
TopInsertAll(levels, more) == TopInsertedUpTo(levels, more)[Len(more)]

IterFromFirst(levels, n) == SubSeq(levels, 1, Min({n, Len(levels)}))
IterFromLast(levels, n)  == IterFromFirst(Reverse(levels), n)

-----------------------------------------------------------------------------
(* Orderbook: updates. *)

Init ==
  /\ asks = <<>> /\ bids = <<>>
  /\ topAsks = <<>> /\ topBids = <<>>
  /\ gaps = FALSE

UpdateAsk ==
  \E p \in Prices, v \in Volumes :
    /\ asks' = VecInsert(asks, p, v)
    /\ topAsks' = TopInsert(topAsks, p, v)
    /\ gaps' = (gaps \/ v = 0)
    /\ UNCHANGED <<bids, topBids>>

UpdateBid ==
  \E p \in Prices, v \in Volumes :
    /\ bids' = VecInsert(bids, p, v)
    /\ topBids' = TopInsert(topBids, p, v)
    /\ gaps' = (gaps \/ v = 0)
    /\ UNCHANGED <<asks, topAsks>>

\* apply_snapshot on a default book, which is then inserted.
ApplySnapshot ==
  \E s \in Snapshots :
    /\ asks' = InsertAll(<<>>, s.asks) /\ bids' = InsertAll(<<>>, s.bids)
    /\ topAsks' = TopInsertAll(<<>>, s.asks) /\ topBids' = TopInsertAll(<<>>, s.bids)
    /\ gaps' = FALSE

\* merge: the asks of another book over the same storage from the lowest, its bids from
\* the highest.
Merge ==
  \E s \in Snapshots :
    /\ asks' = InsertAll(asks, InsertAll(<<>>, s.asks))
    /\ bids' = InsertAll(bids, Reverse(InsertAll(<<>>, s.bids)))
    /\ topAsks' = TopInsertAll(topAsks, TopInsertAll(<<>>, s.asks))
    /\ topBids' = TopInsertAll(topBids, Reverse(TopInsertAll(<<>>, s.bids)))
    /\ UNCHANGED gaps

Next == UpdateAsk \/ UpdateBid \/ ApplySnapshot \/ Merge

Spec == Init /\ [][Next]_vars

-----------------------------------------------------------------------------
(* Orderbook: queries. *)

First(levels) == IF levels = <<>> THEN {} ELSE {Head(levels)}

BestAsk == First(asks)
BestBid == First(Reverse(bids))

\* The running sum: WorthUpTo[k] for the first k levels.
WorthUpTo(levels) ==
  LET sum[k \in 0 .. Len(levels)] ==
        IF k = 0 THEN 0 ELSE sum[k - 1] + levels[k][1] * levels[k][2]
  IN sum

Worth(levels) == WorthUpTo(levels)[Len(levels)]

\* liquidity: levels are summed from the best one outwards until one is beyond the
\* boundary; {} if the side is empty.
Until(levels, beyond) ==
  LET stops == {k \in DOMAIN levels : levels[k][1] \in beyond}
  IN IF stops = {} THEN levels ELSE SubSeq(levels, 1, Min(stops) - 1)

AskLiquidity(slippage) ==
  {Worth(Until(asks, {p \in Prices : 100 * p > best[1] * (100 + slippage)})) : best \in BestAsk}

BidLiquidity(slippage) ==
  {Worth(Until(Reverse(bids), {p \in Prices : 100 * p < best[1] * (100 - slippage)})) :
     best \in BestBid}

\* snapshot(Some(n)), asks before bids; snapshot(None) is the one with every level.
Tagged(side, levels) == [k \in DOMAIN levels |-> <<side, levels[k][1], levels[k][2]>>]

Snapshot(n) == Tagged("Ask", IterFromFirst(asks, n)) \o Tagged("Bid", IterFromLast(bids, n))

AllLevels == Len(asks) + Len(bids)

\* imbalance as a fraction: {<<bids - asks, bids + asks>>}, {} if there is nothing.
Imbalance(n) ==
  LET ask == Worth(IterFromFirst(asks, n))
      bid == Worth(IterFromLast(bids, n))
  IN IF bid + ask = 0 THEN {} ELSE {<<bid - ask, bid + ask>>}

-----------------------------------------------------------------------------
(* compare_books. *)

Before(x, y) ==   \* by side, bids first, then by price
  \/ x[1] = "Bid" /\ y[1] = "Ask"
  \/ x[1] = y[1] /\ x[2] < y[2]

\* sort_by_key keeps the order of levels with the same key: a level comes after those
\* before it by key and, of its own key, after those that were before it.
Precedes(levels, i, j) ==
  \/ Before(levels[i], levels[j])
  \/ ~Before(levels[j], levels[i]) /\ i < j

Rank(levels, i) == Cardinality({j \in DOMAIN levels : Precedes(levels, j, i)}) + 1

SortedLevels(levels) ==
  [k \in DOMAIN levels |-> levels[CHOOSE i \in DOMAIN levels : Rank(levels, i) = k]]

\* One pass of the loop of two pointers: i in the local list, j in that of REST, n
\* mismatches so far.
Pass(local, rest, at) ==
  IF at.i > Len(local) \/ at.j > Len(rest) THEN at
  ELSE IF Before(local[at.i], rest[at.j]) THEN [i |-> at.i + 1, j |-> at.j, n |-> at.n + 1]
  ELSE IF Before(rest[at.j], local[at.i]) THEN [i |-> at.i, j |-> at.j + 1, n |-> at.n + 1]
  ELSE [i |-> at.i + 1, j |-> at.j + 1,
        n |-> at.n + IF local[at.i][3] # rest[at.j][3] THEN 1 ELSE 0]

Passes(local, rest) ==
  LET after[k \in 0 .. Len(local) + Len(rest)] ==
        IF k = 0 THEN [i |-> 1, j |-> 1, n |-> 0] ELSE Pass(local, rest, after[k - 1])
  IN after

\* Where the loop ends: each pass moves a pointer.
WalkEnd(local, rest) == Passes(local, rest)[Len(local) + Len(rest)]

\* A slip: levels only REST has, behind the last local one, are not counted.
WalkShort(local, rest) ==
  LET end == WalkEnd(local, rest) IN end.n + (Len(local) + 1 - end.i)

\* The loop, and what is left of either list.
Walk(local, rest) ==
  LET end == WalkEnd(local, rest)
  IN end.n + (Len(local) + 1 - end.i) + (Len(rest) + 1 - end.j)

CompareBooks(rest) ==
  Walk(SortedLevels(Snapshot(AllLevels)),
       SortedLevels(Tagged("Bid", rest.bids) \o Tagged("Ask", rest.asks)))

-----------------------------------------------------------------------------
(* Properties. *)

AsMap(levels) == [p \in {levels[k][1] : k \in DOMAIN levels} |->
                    levels[CHOOSE k \in DOMAIN levels : levels[k][1] = p][2]]

Map == INSTANCE LevelMap WITH asks <- AsMap(asks), bids <- AsMap(bids)

Sorted(levels) == \A j, k \in DOMAIN levels : j < k => levels[j][1] < levels[k][1]

\* SortedVec does what the BTreeMap does, so that the engine may use either
\* (PriceLevelStorage): a place found by partition_point in a vector that was not quite
\* sorted would show here.
ImplementsMap == Map!Spec

\* A BoundedVec never tells of a level that is gone or has another volume, whatever it
\* gave up and took in since, and stays sorted and within its depth; of the asks it holds
\* just the lowest until a level is removed.
TopsAreTrue ==
  /\ \A side \in {asks, bids, topAsks, topBids} : Sorted(side)
  /\ Len(topAsks) <= Depth /\ Len(topBids) <= Depth
  /\ ToSet(topAsks) \subseteq ToSet(asks) /\ ToSet(topBids) \subseteq ToSet(bids)
  /\ ~gaps => topAsks = IterFromFirst(asks, Depth)

\* What the doc of BoundedVec says of the other side, "For bids: keeps the highest DEPTH
\* prices" (storage.rs:141), until a level is removed.  It does not hold: the vector does
\* not know its side, and keeps the lowest.
BidsKeepHighest == ~gaps => topBids = Reverse(IterFromLast(bids, Depth))

\* What the levels of a map at some prices are worth, counted one by one.
Reference(map, wanted) == Cardinality(UNION {{p} \X (1 .. p * map[p]) : p \in wanted})

\* No price is listed twice.
OnePerPrice(levels) ==
  \A j, k \in 1 .. Len(levels) : levels[j][1] = levels[k][1] => j = k

\* The queries, which walk sorted vectors and stop early, say what the map of levels
\* says; compare_books counts each price with different volumes once, and finds nothing
\* right after the book was replaced by what it is compared with.
QueriesExact ==
  LET a == AsMap(asks)
      b == AsMap(bids)
      At(map, p) == IF p \in DOMAIN map THEN map[p] ELSE 0
      Lowest(n)  == {p \in DOMAIN a : Cardinality({q \in DOMAIN a : q < p}) < n}
      Highest(n) == {p \in DOMAIN b : Cardinality({q \in DOMAIN b : q > p}) < n}
  IN
  /\ \A s \in Slippages :
       /\ AskLiquidity(s) = IF a = <<>> THEN {} ELSE
            {Reference(a, {p \in DOMAIN a : 100 * p <= Min(DOMAIN a) * (100 + s)})}
       /\ BidLiquidity(s) = IF b = <<>> THEN {} ELSE
            {Reference(b, {p \in DOMAIN b : 100 * p >= Max(DOMAIN b) * (100 - s)})}
  /\ \A n \in Tops :
       /\ ToSet(Snapshot(n)) =
            {<<"Ask", p, a[p]>> : p \in Lowest(n)} \cup {<<"Bid", p, b[p]>> : p \in Highest(n)}
       /\ LET bid == Reference(b, Highest(n))
              ask == Reference(a, Lowest(n))
          IN Imbalance(n) = IF bid + ask = 0 THEN {} ELSE {<<bid - ask, bid + ask>>}
  /\ \A rest \in Snapshots :
       OnePerPrice(rest.asks) /\ OnePerPrice(rest.bids) =>
       CompareBooks(rest) =
         Cardinality({p \in Prices : At(a, p) # At(AsMap(rest.asks), p)})
           + Cardinality({p \in Prices : At(b, p) # At(AsMap(rest.bids), p)})

=============================================================================
