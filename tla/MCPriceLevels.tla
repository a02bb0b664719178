---------------------------- MODULE MCPriceLevels ----------------------------
(***************************************************************************)
(* An instance of PriceLevels for TLC: snapshots of up to two levels on    *)
(* each side, in the order the exchange lists them, best first.            *)
(***************************************************************************)
EXTENDS PriceLevels

Level == Prices \X (Volumes \ {0})

Ascending == {<<>>} \cup {<<x>> : x \in Level} \cup {<<x, y>> : x \in Level, y \in Level}

SomeSnapshots ==
  {[asks |-> s, bids |-> Reverse(s)] : s \in {t \in Ascending : Sorted(t)}}
    \cup {[asks |-> <<>>, bids |-> <<x>>] : x \in Level}
    \cup {[asks |-> <<<<1, 1>>, <<1, 2>>>>, bids |-> <<>>]}   \* a price listed twice

=============================================================================
