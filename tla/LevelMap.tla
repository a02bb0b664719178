------------------------------ MODULE LevelMap ------------------------------
(***************************************************************************)
(* What a price-level storage promises (core/src/orderbook/storage.rs): a  *)
(* side of a book is a map from prices to volumes that never holds an      *)
(* empty level.  The BTreeMap implementation is this map.                  *)
(***************************************************************************)
EXTENDS Integers, Sequences, SequencesExt, FiniteSetsExt

CONSTANTS
  Prices,     \* prices
  Volumes,    \* volumes, with 0 for a level that is gone
  Snapshots   \* what replaces or is merged into a book: [asks, bids], each a sequence
              \* of <<price, volume>>, none of them empty

VARIABLES asks, bids

book == <<asks, bids>>

EmptyMap == <<>>

MapRemove(map, price) == [p \in DOMAIN map \ {price} |-> map[p]]

MapInsert(map, price, volume) ==
  IF volume = 0 THEN MapRemove(map, price)
  ELSE [p \in DOMAIN map \cup {price} |-> IF p = price THEN volume ELSE map[p]]

\* Levels put into a fresh map one after the other: of each price the last one holds.
MapOf(levels) ==
  [p \in {levels[k][1] : k \in DOMAIN levels} |->
     levels[Max({k \in DOMAIN levels : levels[k][1] = p})][2]]

\* The levels of another map are put into a map, which keeps those the other has not.
MapMerge(map, other) ==
  [p \in DOMAIN map \cup DOMAIN other |-> IF p \in DOMAIN other THEN other[p] ELSE map[p]]

Init == asks = EmptyMap /\ bids = EmptyMap

Update ==
  \E p \in Prices, v \in Volumes :
    \/ asks' = MapInsert(asks, p, v) /\ UNCHANGED bids
    \/ bids' = MapInsert(bids, p, v) /\ UNCHANGED asks

\* A fresh book that holds a snapshot.
Replace == \E s \in Snapshots : asks' = MapOf(s.asks) /\ bids' = MapOf(s.bids)

Merge ==
  \E s \in Snapshots :
    asks' = MapMerge(asks, MapOf(s.asks)) /\ bids' = MapMerge(bids, MapOf(s.bids))

Spec == Init /\ [][Update \/ Replace \/ Merge]_book

=============================================================================
