---------------------------- MODULE StreamEvents ----------------------------
(***************************************************************************)
(* The messages of the exchange's WebSocket: what the Hyperliquid client   *)
(* asks for (ws/outbound.rs, ws/manager.rs) and what its streams make of   *)
(* an answer (ws/inbound.rs, the closures of client.rs).                   *)
(*                                                                         *)
(* A decimal is a set as in RestReplies: {x}, or {} if it does not parse.  *)
(* An optional part of a message is a set too.  The numbers of one entry   *)
(* stand or fall together and are kept as one.                             *)
(***************************************************************************)
EXTENDS RestReplies

CoinTypes == {"L2Book", "Trades", "ActiveAssetCtx"}
UserTypes == {"UserEvents", "OrderUpdates", "NonFundingLedger"}

Sub(type, of) == [type |-> type, of |-> of]

-----------------------------------------------------------------------------
(* What names a subscription on the wire, in three places of the code.     *)

\* subscribe_message and its to_json.
Outbound(sub) ==
  CASE sub.type = "L2Book"           -> [type |-> "l2Book", coin |-> sub.of]
    [] sub.type = "Trades"           -> [type |-> "trades", coin |-> sub.of]
    [] sub.type = "ActiveAssetCtx"   -> [type |-> "activeAssetCtx", coin |-> sub.of]
    [] sub.type = "UserEvents"       -> [type |-> "user", user |-> sub.of]
    [] sub.type = "OrderUpdates"     -> [type |-> "orderUpdates", user |-> sub.of]
    [] sub.type = "NonFundingLedger" ->
         [type |-> "userNonFundingLedgerUpdates", user |-> sub.of]

\* A slip: user events are given up under the other name their messages go by.
PayloadOfChannel(sub) ==
  IF sub.type = "UserEvents" THEN [type |-> "userEvents", user |-> sub.of] ELSE Outbound(sub)

\* subscription_payload, for unsubscribe_message.
SubscriptionPayload(sub) ==
  LET name ==
        CASE sub.type = "L2Book"           -> "l2Book"
          [] sub.type = "Trades"           -> "trades"
          [] sub.type = "ActiveAssetCtx"   -> "activeAssetCtx"
          [] sub.type = "UserEvents"       -> "user"
          [] sub.type = "OrderUpdates"     -> "orderUpdates"
          [] sub.type = "NonFundingLedger" -> "userNonFundingLedgerUpdates"
  IN IF sub.type \in CoinTypes THEN [type |-> name, coin |-> sub.of]
     ELSE [type |-> name, user |-> sub.of]

\* subscription_from_response: the subscription a payload is of, if any.
FromResponse(payload) ==
  LET Names == [l2Book |-> "L2Book", trades |-> "Trades", activeAssetCtx |-> "ActiveAssetCtx",
                user |-> "UserEvents", orderUpdates |-> "OrderUpdates",
                userNonFundingLedgerUpdates |-> "NonFundingLedger"]
  IN IF payload.type \notin DOMAIN Names THEN {}
     ELSE LET type == Names[payload.type] IN
          IF type \in CoinTypes THEN {Sub(type, payload.coin)} ELSE {Sub(type, payload.user)}

-----------------------------------------------------------------------------
(* What arrives: [channel, data].  TryFrom<HyperliquidWsEnvelope>.         *)

Inbound(channel) ==
  CASE channel = "l2Book"                      -> "L2Book"
    [] channel = "activeAssetCtx"              -> "ActiveAssetCtx"
    [] channel = "trades"                      -> "Trades"
    [] channel \in {"user", "userEvents"}      -> "UserEvents"
    [] channel = "orderUpdates"                -> "OrderUpdates"
    [] channel = "userNonFundingLedgerUpdates" -> "NonFundingLedger"
    [] channel = "subscriptionResponse"        -> "SubscriptionResponse"
    [] OTHER                                   -> "Unknown"

\* matches_message: a message about a coin says which (trades by the first of them), a
\* message about a user does not: it is the user the manager is for.
MatchesMessage(sub, msg, managerUser) ==
  /\ Inbound(msg.channel) = sub.type
  /\ CASE sub.type \in {"L2Book", "ActiveAssetCtx"} -> msg.data.coin = sub.of
       [] sub.type = "Trades"     -> msg.data # <<>> /\ msg.data[1].coin = sub.of
       [] sub.type \in UserTypes  -> managerUser = {sub.of}

-----------------------------------------------------------------------------
(* Conversions: the items a stream yields for the data of its channel.     *)

\* One item per entry that parses.
Each(entries) == Values([k \in DOMAIN entries |-> entries[k].num])

AsL2Snapshot(book) ==
  <<[symbol |-> book.coin, bids |-> Levels(book.levels, 1), asks |-> Levels(book.levels, 2)]>>

\* Fields that must be numbers, and those that may be missing.
AsAssetContext(update) ==
  IF Known(update.num)
  THEN <<[symbol |-> update.coin, rest |-> Value(update.num), premium |-> update.premium]>>
  ELSE <<>>

AsTrades(trades) == Each(trades)

AsLiquidation(event) ==
  IF Known(event.liquidation) THEN Each(<<Value(event.liquidation)>>) ELSE <<>>

AsUserFills(event) == IF Known(event.fills) THEN Each(Value(event.fills)) ELSE <<>>

AsFundingPayment(event) ==
  IF Known(event.funding) THEN Each(<<Value(event.funding)>>) ELSE <<>>

\* All balances are one item; without any there is none.
AsSpotBalance(event) ==
  LET rows == IF Known(event.spot) THEN Each(Value(event.spot)) ELSE <<>>
  IN IF rows = <<>> THEN <<>> ELSE <<rows>>

\* No update is left out: what does not parse is an empty field, and a status
\* the code does not know is a partial fill.
Status(text) ==
  CASE text = "open"                       -> "Placed"
    [] text = "filled"                     -> "Filled"
    [] text \in {"canceled", "cancelled"}  -> "Cancelled"
    [] OTHER                               -> "PartiallyFilled"

AsOrderUpdates(updates) ==
  [k \in DOMAIN updates |-> [status |-> Status(updates[k].status), num |-> updates[k].num]]

OfKind(ledger, kind) == Each(SelectSeq(ledger, LAMBDA e : e.kind = kind))

AsDeposits(ledger) == OfKind(ledger, "deposit")
AsWithdrawals(ledger) == OfKind(ledger, "withdraw")

=============================================================================
