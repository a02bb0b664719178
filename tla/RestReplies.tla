---------------------------- MODULE RestReplies ----------------------------
(***************************************************************************)
(* What the Hyperliquid client makes of the exchange's answers to its      *)
(* info requests (client.rs): pure conversions.                            *)
(*                                                                         *)
(* A decimal in an answer is a set: {x}, or {} where the text is not a     *)
(* number or the field is null.  A result is <<x>>, or <<>> for an error.  *)
(***************************************************************************)
EXTENDS Integers, Sequences, SequencesExt, FiniteSetsExt

Value(raw)  == CHOOSE x \in raw : TRUE
Known(raw)  == raw # {}
Ok(x)       == <<x>>
Err         == <<>>
Values(s)   == FlattenSeq([k \in DOMAIN s |-> IF Known(s[k]) THEN <<Value(s[k])>> ELSE <<>>])

-----------------------------------------------------------------------------
(* metaAndAssetCtxs: [names |-> the universe, ctxs |-> a context per name]. *)
(* A context is its open interest and, as one, the other three fields that *)
(* must be numbers (funding, mark price, day volume).                      *)

\* An asset has one place in the universe.
IsContexts(reply) ==
  /\ reply.names \in Seq(ToSet(reply.names)) /\ reply.ctxs \in Seq(ToSet(reply.ctxs))
  /\ \A i, j \in DOMAIN reply.names : reply.names[i] = reply.names[j] => i = j

Place(names, symbol) == {i \in DOMAIN names : names[i] = symbol}

\* The context at the place of the name, <<>> if there is none.
ContextOf(reply, symbol) ==
  LET at == Place(reply.names, symbol) \cap DOMAIN reply.ctxs
  IN IF at = {} THEN <<>> ELSE <<reply.ctxs[Min(at)]>>

GetOpenInterest(reply, symbol) ==
  LET ctx == ContextOf(reply, symbol)
  IN IF ctx # <<>> /\ Known(ctx[1].oi) THEN Ok(Value(ctx[1].oi)) ELSE Err

AssetContext(symbol, ctx) ==
  [symbol |-> symbol, oi |-> Value(ctx.oi), rest |-> Value(ctx.rest)]

Complete(ctx) == Known(ctx.oi) /\ Known(ctx.rest)

ParsedContext(symbol, ctx) == IF Complete(ctx) THEN Ok(AssetContext(symbol, ctx)) ELSE Err

GetAssetContext(reply, symbol) ==
  LET ctx == ContextOf(reply, symbol)
  IN IF ctx = <<>> THEN Err ELSE ParsedContext(symbol, ctx[1])

\* A slip: contexts that do not parse are dropped before they are paired with names.
ZippedAfterFilter(reply) ==
  LET good == SelectSeq(reply.ctxs, Complete)
  IN [k \in 1 .. Min({Len(reply.names), Len(good)}) |-> <<reply.names[k], good[k]>>]

Zipped(reply) ==
  [k \in 1 .. Min({Len(reply.names), Len(reply.ctxs)}) |-> <<reply.names[k], reply.ctxs[k]>>]

GetAllAssetContexts(reply) ==
  LET pairs == Zipped(reply)
  IN FlattenSeq([k \in DOMAIN pairs |-> ParsedContext(pairs[k][1], pairs[k][2])])

\* Sizes' decimals come with the name: here the name's place stands for them.
GetSzDecimals(reply, symbol) ==
  LET at == Place(reply.names, symbol) IN IF at = {} THEN Err ELSE Ok(Max(at))

\* The two ways to read contexts agree: asking for one symbol, or for its open
\* interest, tells what the list of all has for it, and fails where the list has
\* nothing (the open interest alone may still be known).
ViewsAgreeOn(reply) ==
  LET all == GetAllAssetContexts(reply) IN
  /\ \A k \in DOMAIN all :
       /\ GetAssetContext(reply, all[k].symbol) = Ok(all[k])
       /\ GetOpenInterest(reply, all[k].symbol) = Ok(all[k].oi)
       /\ GetSzDecimals(reply, all[k].symbol) # Err
  /\ \A s \in ToSet(reply.names) :
       GetAssetContext(reply, s) # Err => \E k \in DOMAIN all : all[k].symbol = s

-----------------------------------------------------------------------------
(* The other answers about the market. *)

\* allMids: a function from names to decimals.
GetPrice(mids, symbol) ==
  IF symbol \in DOMAIN mids /\ Known(mids[symbol]) THEN Ok(Value(mids[symbol])) ELSE Err

\* l2Book: <<>> for null, else <<book>> with a sequence of levels per side, each
\* [price, volume]; a side may be missing, a level that does not parse is skipped.
Levels(sides, side) ==
  IF side \notin DOMAIN sides THEN <<>>
  ELSE LET good == SelectSeq(sides[side], LAMBDA l : Known(l.price) /\ Known(l.volume))
       IN [k \in DOMAIN good |-> [price |-> Value(good[k].price), volume |-> Value(good[k].volume)]]

GetL2Orderbook(reply) ==
  IF reply = <<>> THEN [bids |-> <<>>, asks |-> <<>>, sequence |-> 0]
  ELSE [bids |-> Levels(reply[1].levels, 1), asks |-> Levels(reply[1].levels, 2),
        sequence |-> reply[1].time]

\* predictedFundings: per symbol a sequence of [venue, entry], entry <<>> for null;
\* what has no rate is left out, the rest is flattened.
GetPredictedFundings(reply) ==
  LET Rates(symbol, venues) ==
        LET good == SelectSeq(venues, LAMBDA v : v.entry # <<>> /\ Known(v.entry[1]))
        IN [k \in DOMAIN good |->
              [symbol |-> symbol, venue |-> good[k].venue, rate |-> Value(good[k].entry[1])]]
  IN FlattenSeq([k \in DOMAIN reply |-> Rates(reply[k].symbol, reply[k].venues)])

\* meta, as lifecycle events and as the current universe.
GetListingEvents(names, delisted) ==
  [k \in DOMAIN names |->
     [ticker |-> names[k], event |-> IF names[k] \in delisted THEN "delist" ELSE "list"]]

GetCurrentUniverse(names, delisted) ==
  [k \in DOMAIN names |-> [ticker |-> names[k], delisted |-> names[k] \in delisted]]

-----------------------------------------------------------------------------
(* The answers about an account. *)

\* clearinghouseState positions: [coin, szi (signed), entry]; empty positions and
\* those without an entry price are left out.
GetPositions(positions) ==
  LET open == SelectSeq(positions, LAMBDA p : Known(p.szi) /\ Value(p.szi) # 0 /\ Known(p.entry))
  IN [k \in DOMAIN open |->
        LET size == Value(open[k].szi) IN
        [symbol |-> open[k].coin, side |-> IF size > 0 THEN "Buy" ELSE "Sell",
         size |-> IF size > 0 THEN size ELSE -size, entry |-> Value(open[k].entry)]]

\* openOrders: [oid, coin, px, orig, left].
GetOpenOrders(orders) ==
  LET good == SelectSeq(orders, LAMBDA o : Known(o.px) /\ Known(o.orig) /\ Known(o.left))
  IN [k \in DOMAIN good |->
        [id |-> good[k].oid, symbol |-> good[k].coin, price |-> Value(good[k].px),
         filled |-> Value(good[k].orig) - Value(good[k].left)]]

\* userRateLimit: four fields, all of which must be there.
GetUserRateLimit(fields) ==
  IF \A k \in DOMAIN fields : Known(fields[k]) THEN Ok([k \in DOMAIN fields |-> Value(fields[k])])
  ELSE Err

\* One number, or none.
Decimal(raw) == raw \subseteq Int /\ \A x, y \in raw : x = y

\* No token of the spot account has the name the client gives the perp row.
IsSpotReply(state) ==
  /\ state.balances \in Seq(ToSet(state.balances))
  /\ \A b \in ToSet(state.balances) : Decimal(b.total) /\ Decimal(b.hold) /\ b.coin # "PERP"
  /\ \A t \in DOMAIN state.after : Decimal(state.after[t])

\* spotClearinghouseState: [balances |-> of [coin, total, hold, token], after |->
\* what is left of a token after maintenance].  margin is the perp account's.
SpotRow(balance, after, margin) ==
  LET equity == Value(balance.total)
      hold   == Value(balance.hold)
      free   == equity - hold
      safe   == IF balance.token \in DOMAIN after THEN after[balance.token] ELSE {}
  IN [token |-> balance.coin, equity |-> equity, free |-> free, hold |-> hold,
      usable |-> Min({free} \cup safe), maintenance |-> {equity - s : s \in safe},
      marginUsed |-> IF balance.coin = "USDC" THEN margin ELSE {}]

MapSpotState(state, margin) ==
  IF \A k \in DOMAIN state.balances :
       Known(state.balances[k].total) /\ Known(state.balances[k].hold)
  THEN Ok([k \in DOMAIN state.balances |-> SpotRow(state.balances[k], state.after, margin)])
  ELSE Err

\* clearinghouseState as a balance: [value, margin, upnl |-> one per position].
MapPerpState(state) ==
  IF ~Known(state.value) THEN Err
  ELSE LET equity == Value(state.value)
           margin == IF Known(state.margin) THEN Value(state.margin) ELSE 0
       IN Ok([token |-> "PERP", equity |-> equity, free |-> equity - margin, hold |-> 0,
              usable |-> equity - margin, maintenance |-> {equity - margin},
              marginUsed |-> {margin}, settled |-> equity - FoldLeft(+, 0, Values(state.upnl))])

=============================================================================
