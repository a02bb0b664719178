-------------------------- MODULE MCAccountEngine --------------------------
(***************************************************************************)
(* An instance of AccountEngine for TLC: one symbol, one order placed with *)
(* an intent, fills on both sides at two prices, of which some averages    *)
(* divide and others are rounded.                                          *)
(***************************************************************************)
EXTENDS AccountEngine, TLC

CONSTANTS btc, order, uuid

OneSymbol == {btc}
OneOrder  == {order}
OneIntent == {uuid}

Low  == 100
High == 200

Trade(side, price, quantity, fee) ==
  [type |-> "fill", order |-> order, symbol |-> btc, side |-> side, price |-> price,
   quantity |-> quantity, fee |-> fee, intent |-> NoIntent]

Fills ==
  {Trade(side, Low, quantity, 0) : side \in Sides, quantity \in {1, 2}}
    \cup {Trade(side, High, quantity, 1) : side \in Sides, quantity \in {1, 2}}

SomeInputs ==
  Fills \cup
  {[type |-> "placed", order |-> order, quantity |-> 2, intent |-> uuid],
   [type |-> "cancelled", order |-> order],
   [type |-> "funding", amount |-> -1],
   [type |-> "deposit", amount |-> 2],
   [type |-> "withdraw", amount |-> 1],
   [type |-> "snapshot", collateral |-> 1,
    positions |-> (btc :> [side |-> "short", size |-> 1, entry |-> Low]),
    orders |-> (order :> [quantity |-> 2, filled |-> 1, intent |-> NoIntent])],
   [type |-> "spot", balances |-> 1]}

SomeReports ==
  [collateral : {0, 1}, sizes : {Nothing} \cup {btc :> n : n \in -1 .. 1},
   orders : SUBSET OneOrder]

=============================================================================
