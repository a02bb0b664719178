---------------------------- MODULE MCRestClient ----------------------------
(***************************************************************************)
(* Instances of RestClient for TLC.                                        *)
(***************************************************************************)
EXTENDS RestClient

CONSTANTS a, b, purr, c1, c2, o1, o2

BothCallers == {c1, c2}
BothOrders == {o1, o2}
OneCaller == {c1}
OneOrder == {o1}
NoneEarly == {{}}
NoneOrOne == {{}} \cup {{o} : o \in BothOrders}
Alike == Permutations(BothCallers) \cup Permutations(BothOrders)

\* Limit and market orders, trigger orders of both kinds at both prices, and one
\* that cannot be built.
SomeSpecs ==
  LET Order(type, tif, trigger) ==
        [type |-> type, tif |-> tif, price |-> {100}, trigger |-> trigger, reduceOnly |-> TRUE]
  IN {Order("Limit", "Alo", {}), Order("Market", "Gtc", {}), Order("StopLoss", "Ioc", {90}),
      Order("TakeProfit", "Gtc", {110}), Order("StopLoss", "Gtc", {})}

Contexts ==
  LET Ctx(x, y) == [oi |-> x, rest |-> y] IN
  {[names |-> <<a, b>>, ctxs |-> cs] : cs \in {<<Ctx({7}, {}), Ctx({8}, {5})>>, <<Ctx({7}, {4})>>}}

Meta == {[names |-> <<a, b>>, delisted |-> {a}]}

\* Of every answer, parts that parse next to parts that do not.
SomeReads ==
  [what \in {"openInterest", "assetContext", "allContexts", "szDecimals"} |-> Contexts] @@
  [what \in {"listings", "universe"} |-> Meta] @@
  ("ping" :> {TRUE, FALSE}) @@ ("symbols" :> {<<a, b>>}) @@ ("price" :> {a :> {3} @@ b :> {}}) @@
  ("l2Book" :> {<<>>, <<[levels |-> <<<<[price |-> {1}, volume |-> {2}], [price |-> {}, volume |-> {2}]>>>>,
                         time |-> 5]>>}) @@
  ("fundings" :> {<<[symbol |-> a, venues |-> <<[venue |-> "x", entry |-> <<>>],
                     [venue |-> "y", entry |-> <<{4}>>], [venue |-> "z", entry |-> <<{}>>]>>]>>}) @@
  ("positions" :> {<<[coin |-> a, szi |-> {-2}, entry |-> {3}], [coin |-> b, szi |-> {0}, entry |-> {3}]>>}) @@
  ("openOrders" :> {<<[oid |-> 1, coin |-> a, px |-> {2}, orig |-> {5}, left |-> {3}],
                      [oid |-> 2, coin |-> b, px |-> {}, orig |-> {5}, left |-> {3}]>>}) @@
  ("userRateLimit" :> {[used |-> {1}, cap |-> {9}], [used |-> {1}, cap |-> {}]})

SomeSpot ==
  LET Row(coin, total, hold, token) == [coin |-> coin, total |-> total, hold |-> hold, token |-> token]
  IN {[balances |-> <<Row("USDC", {9}, {2}, 0), Row("PURR", {3}, {0}, 1)>>, after |-> (0 :> {5})],
      [balances |-> <<Row("USDC", {}, {2}, 0)>>, after |-> <<>>]}

SomePerp ==
  {[value |-> {6}, margin |-> {4}, upnl |-> <<{1}, {}>>],
   [value |-> {}, margin |-> {4}, upnl |-> <<>>]}

=============================================================================
