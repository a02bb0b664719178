-------------------------- MODULE MCClientStreams --------------------------
(***************************************************************************)
(* An instance of ClientStreams for TLC.                                   *)
(***************************************************************************)
EXTENDS ClientStreams

CONSTANTS s1, s2, u, v, c

TwoSlots == {s1, s2}
Alike == Permutations(TwoSlots)

Good(x) == [num |-> {x}]
Bad     == [num |-> {}]

Event(fills, funding, spot, liquidation) ==
  [fills |-> fills, funding |-> funding, spot |-> spot, liquidation |-> liquidation]

Message(channel, of, data, means) ==
  [channel |-> channel, of |-> of, data |-> data, means |-> means]

Entry(kind, x) == [kind |-> kind, num |-> x]

\* Events of two users, under the two names of their channel.
Events ==
  { Message("user", u, Event({<<Good(1), Bad, Good(2)>>}, {Good(3)}, {<<Bad>>}, {Bad}),
            ("user_fills" :> <<1, 2>>) @@ ("funding_payments" :> <<3>>)),
    Message("userEvents", v, Event({}, {Bad}, {<<Good(4), Good(5)>>}, {Good(6)}),
            ("spot_balance_with_address" :> <<<<4, 5>>>>) @@ ("liquidation" :> <<6>>)) }

OfUser(x) ==
  { Message("orderUpdates", x, <<[status |-> "open", num |-> {}], [status |-> "triggered", num |-> {7}]>>,
            "order_updates" :> <<[status |-> "Placed", num |-> {}],
                                 [status |-> "PartiallyFilled", num |-> {7}]>>),
    Message("userNonFundingLedgerUpdates", x,
            <<Entry("deposit", {8}), Entry("withdraw", {9}), Entry("transfer", {1}), Entry("deposit", {})>>,
            ("deposits" :> <<8>>) @@ ("withdrawals" :> <<9>>)) }

OfCoin(x) ==
  { Message("l2Book", x, [coin |-> x, levels |-> <<<<[price |-> {1}, volume |-> {2}], [price |-> {}, volume |-> {2}]>>>>],
            "l2_snapshot" :> <<[symbol |-> x, bids |-> <<[price |-> 1, volume |-> 2]>>, asks |-> <<>>]>>),
    Message("activeAssetCtx", x, [coin |-> x, num |-> {3}, premium |-> {}],
            "asset_context" :> <<[symbol |-> x, rest |-> 3, premium |-> {}]>>),
    Message("trades", x, <<[coin |-> x, num |-> {4}], [coin |-> x, num |-> {}]>>, "fill" :> <<4>>),
    Message("error", x, <<>>, <<>>) }

SomeMessages == Events \cup OfUser(u) \cup OfCoin(c)

=============================================================================
