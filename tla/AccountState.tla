---------------------------- MODULE AccountState ----------------------------
(***************************************************************************)
(* The account as a fold of events (core/src/account/types.rs): what apply *)
(* makes of each event, what it refuses, and what is left behind when it   *)
(* refuses half-way.  And reconcile, which compares an account with what   *)
(* the exchange reports.                                                   *)
(*                                                                         *)
(* Amounts are whole numbers of a unit so small that entry prices are too. *)
(* An order's price and symbol, and a fill's time, are never read and left *)
(* out; spot balances are replaced as a whole and stand for a number.      *)
(***************************************************************************)
EXTENDS Integers, Sequences, FiniteSets, Functions

CONSTANTS
  Symbols,
  OrderIds,
  Intents,          \* trade_intent_uuid values
  NoIntent,         \* its absence
  MaxRecentFills    \* MAX_RECENT_FILLS

ASSUME AccountAssumption ==
  /\ NoIntent \notin Intents
  /\ MaxRecentFills \in Nat \ {0}

Sides    == {"long", "short"}
Intent   == Intents \cup {NoIntent}
Position == [side : Sides, size : Nat, entry : Int]
Order    == [quantity : Nat, filled : Nat, intent : Intent]

\* A map from some of the keys to values.
IsMap(map, Keys, Values) == \E K \in SUBSET Keys : map \in [K -> Values]

Nothing == [k \in {} |-> k]

New ==
  [collateral |-> 0, positions |-> Nothing, orders |-> Nothing, realized |-> 0,
   funding |-> 0, fills |-> <<>>, spot |-> 0]

IsAccount(acc) ==
  /\ DOMAIN acc = DOMAIN New
  /\ acc.collateral \in Int
  /\ IsMap(acc.positions, Symbols, Position)
  /\ IsMap(acc.orders, OrderIds, Order)
  /\ acc.realized \in Int
  /\ acc.funding \in Int
  /\ acc.fills \in Seq([order : OrderIds, intent : Intent])
  /\ Len(acc.fills) <= MaxRecentFills
  /\ acc.spot \in Nat

Placed    == [type : {"placed"}, order : OrderIds, quantity : Nat \ {0}, intent : Intent]
Cancelled == [type : {"cancelled"}, order : OrderIds]
Fill      == [type : {"fill"}, order : OrderIds, symbol : Symbols, side : Sides, price : Nat,
              quantity : Nat \ {0}, fee : Int, intent : Intent]
Cash      == [type : {"funding"}, amount : Int] \cup [type : {"deposit", "withdraw"}, amount : Nat]
Spot      == [type : {"spot"}, balances : Nat]

\* The exchange reports no empty positions (get_positions) and no filled orders.
IsSnapshot(e) ==
  /\ e.type = "snapshot"
  /\ e.collateral \in Int
  /\ IsMap(e.positions, Symbols, Position)
  /\ \A s \in DOMAIN e.positions : e.positions[s].size > 0
  /\ IsMap(e.orders, OrderIds, Order)
  /\ \A o \in DOMAIN e.orders : e.orders[o].filled < e.orders[o].quantity

\* AccountEvent
IsEvent(e) == e \in Placed \cup Cancelled \cup Fill \cup Cash \cup Spot \/ IsSnapshot(e)

-----------------------------------------------------------------------------
(* apply *)

Put(map, key, value) == [k \in DOMAIN map \cup {key} |-> IF k = key THEN value ELSE map[k]]
Remove(map, key)     == Restrict(map, DOMAIN map \ {key})

Held(acc, e)    == e.symbol \in DOMAIN acc.positions
Adds(acc, e)    == Held(acc, e) /\ acc.positions[e.symbol].side = e.side
Reduces(acc, e) == Held(acc, e) /\ acc.positions[e.symbol].side # e.side

\* InsufficientCollateral: a fee or a withdrawal beyond the collateral.
Unaffordable(acc, e) ==
  \/ e.type = "fill" /\ acc.collateral < e.fee
  \/ e.type = "withdraw" /\ acc.collateral < e.amount

\* PositionSizeMismatch: a fill against a smaller position.
Oversized(acc, e) ==
  e.type = "fill" /\ Reduces(acc, e) /\ e.quantity > acc.positions[e.symbol].size

Refused(acc, e) == Unaffordable(acc, e) \/ Oversized(acc, e)

\* What apply leaves of the account it refuses an event for: the fee of a fill is
\* charged before its size is looked at.
AfterRefusal(acc, e) ==
  IF Unaffordable(acc, e) THEN acc ELSE [acc EXCEPT !.collateral = @ - e.fee]

Average(pos, e) == (pos.size * pos.entry + e.quantity * e.price) \div (pos.size + e.quantity)

\* A slip: the entry price of the last fill instead of the average.
PositionsAtLastPrice(acc, e) ==
  IF Adds(acc, e)
  THEN Put(acc.positions, e.symbol,
           [side |-> e.side, size |-> acc.positions[e.symbol].size + e.quantity,
            entry |-> e.price])
  ELSE IF Reduces(acc, e)
  THEN IF e.quantity = acc.positions[e.symbol].size
       THEN Remove(acc.positions, e.symbol)
       ELSE [acc.positions EXCEPT ![e.symbol].size = @ - e.quantity]
  ELSE Put(acc.positions, e.symbol, [side |-> e.side, size |-> e.quantity, entry |-> e.price])

\* Another: an emptied position stays.
PositionsKeptEmpty(acc, e) ==
  IF Adds(acc, e)
  THEN Put(acc.positions, e.symbol,
           [side |-> e.side, size |-> acc.positions[e.symbol].size + e.quantity,
            entry |-> Average(acc.positions[e.symbol], e)])
  ELSE IF Reduces(acc, e)
  THEN [acc.positions EXCEPT ![e.symbol].size = @ - e.quantity]
  ELSE Put(acc.positions, e.symbol, [side |-> e.side, size |-> e.quantity, entry |-> e.price])

\* A fill opens a position, adds to it at the average price, or reduces it, to
\* nothing at most.
FilledPositions(acc, e) ==
  IF Adds(acc, e)
  THEN Put(acc.positions, e.symbol,
           [side |-> e.side, size |-> acc.positions[e.symbol].size + e.quantity,
            entry |-> Average(acc.positions[e.symbol], e)])
  ELSE IF Reduces(acc, e)
  THEN IF e.quantity = acc.positions[e.symbol].size
       THEN Remove(acc.positions, e.symbol)
       ELSE [acc.positions EXCEPT ![e.symbol].size = @ - e.quantity]
  ELSE Put(acc.positions, e.symbol, [side |-> e.side, size |-> e.quantity, entry |-> e.price])

\* What a fill realises of the position it reduces.
Pnl(acc, e) ==
  IF ~Reduces(acc, e) THEN 0
  ELSE LET pos == acc.positions[e.symbol] IN
       IF pos.side = "long" THEN (e.price - pos.entry) * e.quantity
                            ELSE (pos.entry - e.price) * e.quantity

\* The order of a fill, which is removed once it is filled.
FilledOrders(acc, e) ==
  IF e.order \notin DOMAIN acc.orders THEN acc.orders
  ELSE IF acc.orders[e.order].filled + e.quantity >= acc.orders[e.order].quantity
  THEN Remove(acc.orders, e.order)
  ELSE [acc.orders EXCEPT ![e.order].filled = @ + e.quantity]

\* The intent a fill is recorded with: its own, or that of its order if that is
\* open still.
ResolvedIntent(acc, e) ==
  LET open == FilledOrders(acc, e) IN
  IF e.intent # NoIntent \/ e.order \notin DOMAIN open THEN e.intent
  ELSE open[e.order].intent

\* A slip: the buffer is never trimmed.
Untrimmed(fills) == fills

\* The newest MaxRecentFills of them.
Latest(fills) ==
  IF Len(fills) > MaxRecentFills
  THEN SubSeq(fills, Len(fills) - MaxRecentFills + 1, Len(fills))
  ELSE fills

Filled(acc, e) ==
  [acc EXCEPT
     !.collateral = @ - e.fee + Pnl(acc, e),
     !.realized   = @ + Pnl(acc, e),
     !.positions  = FilledPositions(acc, e),
     !.orders     = FilledOrders(acc, e),
     !.fills      = Latest(Append(@, [order |-> e.order, intent |-> ResolvedIntent(acc, e)]))]

\* What apply makes of an account when it does not refuse.
Applied(acc, e) ==
  CASE e.type = "placed" ->
         [acc EXCEPT !.orders = Put(@, e.order,
            [quantity |-> e.quantity, filled |-> 0, intent |-> e.intent])]
    [] e.type = "cancelled" -> [acc EXCEPT !.orders = Remove(@, e.order)]
    [] e.type = "fill"      -> Filled(acc, e)
    [] e.type = "funding"   ->
         [acc EXCEPT !.collateral = @ + e.amount, !.funding = @ + e.amount]
    [] e.type = "deposit"   -> [acc EXCEPT !.collateral = @ + e.amount]
    [] e.type = "withdraw"  -> [acc EXCEPT !.collateral = @ - e.amount]
    [] e.type = "snapshot"  ->
         [acc EXCEPT !.collateral = e.collateral, !.positions = e.positions,
                     !.orders = e.orders]
    [] e.type = "spot"      -> [acc EXCEPT !.spot = e.balances]

-----------------------------------------------------------------------------
(* reconcile *)

Signed(pos) == IF pos.side = "long" THEN pos.size ELSE -pos.size

SignedSize(acc, s) == IF s \in DOMAIN acc.positions THEN Signed(acc.positions[s]) ELSE 0

\* What the exchange reports: collateral, signed sizes by symbol, ids of open orders.
IsReport(report) ==
  /\ report.collateral \in Int
  /\ IsMap(report.sizes, Symbols, Int)
  /\ report.orders \subseteq OrderIds

\* A slip: positions the exchange does not report are not looked at.
PositionDiffsReported(acc, report) ==
  {[symbol |-> s, local |-> SignedSize(acc, s), exchange |-> report.sizes[s]] :
     s \in {t \in DOMAIN report.sizes : SignedSize(acc, t) # report.sizes[t]}}

\* PositionMismatch: reported sizes that differ, and ghosts, which only this side has.
PositionDiffs(acc, report) ==
  {[symbol |-> s, local |-> SignedSize(acc, s), exchange |-> report.sizes[s]] :
     s \in {t \in DOMAIN report.sizes : SignedSize(acc, t) # report.sizes[t]}}
  \cup
  {[symbol |-> s, local |-> SignedSize(acc, s), exchange |-> 0] :
     s \in {t \in DOMAIN acc.positions \ DOMAIN report.sizes : acc.positions[t].size # 0}}

UnknownOrders(acc, report) == report.orders \ DOMAIN acc.orders

\* reconcile finds nothing.
Reconciled(acc, report) ==
  /\ acc.collateral = report.collateral
  /\ PositionDiffs(acc, report) = {}
  /\ UnknownOrders(acc, report) = {}

=============================================================================
