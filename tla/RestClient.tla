----------------------------- MODULE RestClient -----------------------------
(***************************************************************************)
(* The REST side of the Hyperliquid client (client.rs): calls of several   *)
(* tasks that share one client, its rate limiters, its nonce and its cache *)
(* of asset indexes, and the exchange that answers them.                   *)
(*                                                                         *)
(* A call is cut where it awaits, where it takes a lock and where it does  *)
(* one atomic operation; anything may happen between two of its steps.     *)
(* An info request is asked of the limiter, read by the exchange and       *)
(* answered; an action is given a nonce, signed, admitted, charged to the  *)
(* address, put on the wire and handled.  Answers get lost, callers give   *)
(* up, and what was on the wire then may still be handled.                 *)
(***************************************************************************)
EXTENDS RateLimits, RestReplies

CONSTANTS
  Callers,      \* tasks that use the client
  Auths,        \* how it is made: with nothing, a "key" or an "external" signer
  Ops,          \* the calls they make, among AllOps
  Symbols,      \* assets
  FirstListed,  \* the one listed from the start
  Delisted,     \* those delisted long ago, which keep their place
  Spot,         \* an asset the perp universe never has
  Cloids,       \* client order ids, used once each
  Early,        \* which of them may be orders on Spot, placed by other means before
  Specs,        \* orders: [type, tif, price, trigger, reduceOnly], trigger {} for none
  ReadReplies,  \* of each plain read, the answers it may get
  SpotReplies,  \* of the spot account
  PerpReplies,  \* of the perp account
  Budgets,      \* actions of the address (ADDR_INITIAL_BUFFER 10 000, or with_budgets)
  Clocks,       \* milliseconds the wall clock may show
  Ttl,          \* UNIVERSE_TTL (the code: 600 s)
  MaxTime,      \* bound: ticks of the monotonic clock
  MaxCalls      \* bound: calls in all

AllOps == {"place", "change", "cancel", "cancelAll", "balance", "read"}
Reads  == DOMAIN ReadReplies

ASSUME RestAssumption ==
  /\ Ops \subseteq AllOps /\ Auths \subseteq {"none", "key", "external"}
  /\ FirstListed \in Symbols /\ Delisted \subseteq {FirstListed}
  /\ Clocks \subseteq Nat /\ Budgets \subseteq Nat
  /\ Ttl \in Nat /\ MaxTime \in Nat /\ MaxCalls \in Nat
  /\ MaxWeight >= 20   \* no request is heavier
  /\ \A spec \in Specs : spec.type \in {"Limit", "Market", "TakeProfit", "StopLoss"}
  /\ Spot \notin Symbols /\ "none" \notin Cloids
  /\ \A early \in Early : early \subseteq Cloids
  /\ \A r \in SpotReplies : IsSpotReply(r)
  /\ \A r \in PerpReplies : Decimal(r.value) /\ Decimal(r.margin)
  /\ \A what \in {"openInterest", "assetContext", "allContexts", "szDecimals"} \cap Reads :
       \A r \in ReadReplies[what] : IsContexts(r)

VARIABLES
  auth,       \* how the client was made
  now,        \* the monotonic clock
  window,     \* RestRateLimiter::entries
  address,    \* AddressRateLimiter::inner
  lastNonce,  \* HyperliquidClient::last_nonce
  cache,      \* asset_index_cache: <<>>, or <<the universe and when it was written>>
  at,         \* of each caller: which step of its call is next, "idle" for none
  job,        \* what it called
  post,       \* its info request or its action: "none", "asked" or "answered"
  reply,      \* the answer, {} while there is none
  got,        \* what earlier answers gave it
  seen,       \* next_nonce: the last nonce it saw and the clock it read
  calls,      \* calls started
  universe,   \* the exchange: its assets in the order they were listed
  resting,    \* orders on its books
  wire,       \* actions sent and not handled yet
  spared,     \* orders an "ok" cancel named and left resting, with an error of their own
  issued,     \* history: nonces handed out, in order
  spent,      \* history: weight admitted up to each tick
  asked,      \* history: what each order was placed as, <<>> if it was not
  settled,    \* history: of each caller, orders its call must leave off the books
  gone,       \* history: orders a call said are off the books
  refused,    \* history: orders whose placement was said to be rate-limited
  denied      \* history: assets listed when a call began that it could not find

clockVars  == <<auth, now, calls>>
limitVars  == <<window, address, spent>>
nonceVars  == <<lastNonce, issued, seen>>
callVars   == <<at, job, post, reply, got>>
venueVars  == <<universe, resting, wire, spared>>
orderVars  == <<asked, settled, gone, refused, denied>>
vars == <<clockVars, limitVars, nonceVars, callVars, venueVars, orderVars, cache>>

Nothing == [targets |-> {}, index |-> 0, nonce |-> 0, spot |-> <<>>, rows |-> <<>>]
Unseen  == [last |-> 0, clock |-> 0]

\* with_network and the constructors that take a key or a signer, all with a fresh
\* nonce, limiter and cache.
Init ==
  /\ auth \in Auths
  /\ now = 0
  /\ window = <<>>
  /\ \E budget \in Budgets : address = NewAddress(budget)
  /\ lastNonce = 0
  /\ cache = <<>>
  /\ at = [c \in Callers |-> "idle"]
  /\ job = [c \in Callers |-> [op |-> "none"]]
  /\ post = [c \in Callers |-> "none"]
  /\ reply = [c \in Callers |-> {}]
  /\ got = [c \in Callers |-> Nothing]
  /\ seen = [c \in Callers |-> Unseen]
  /\ calls = 0
  /\ universe = <<FirstListed>>
  /\ wire = {}
  /\ spared = {}
  /\ issued = <<>>
  /\ spent = [t \in 0 .. MaxTime |-> 0]
  /\ \E early \in Early :
       /\ resting = {[cloid |-> o, coin |-> Spot, reduceOnly |-> FALSE] : o \in early}
       /\ asked = [o \in Cloids |->
            IF o \in early THEN <<[coin |-> Spot, reduceOnly |-> FALSE]>> ELSE <<>>]
  /\ settled = [c \in Callers |-> {}]
  /\ gone = {}
  /\ refused = {}
  /\ denied = {}

-----------------------------------------------------------------------------
(* Starting and ending a call. *)

Begin(c, j, step) ==
  /\ j.op \in Ops
  /\ calls' = calls + 1
  /\ job' = [job EXCEPT ![c] = j]
  /\ at' = [at EXCEPT ![c] = step]
  /\ got' = [got EXCEPT ![c] = Nothing]
  /\ UNCHANGED <<auth, now, post, reply>>

Listed(s) == s \in ToSet(universe)

\* place_order: whoever places an order gives it an id of its own.  The rest of what
\* the order says is only looked at when it is built.
PlaceOrder(c) ==
  \E s \in Symbols, o \in Cloids, reduce \in {spec.reduceOnly : spec \in Specs} :
    /\ asked[o] = <<>>
    /\ Begin(c, [op |-> "place", coin |-> s, cloid |-> o, reduceOnly |-> reduce, known |-> Listed(s)],
             "lookup")
    /\ asked' = [asked EXCEPT ![o] = <<[coin |-> s, reduceOnly |-> reduce]>>]
    /\ UNCHANGED <<settled, gone, refused, denied>>

\* require_user_address: without one the call ends at once.
BeginAsUser(c, j, step) ==
  /\ auth # "none"
  /\ Begin(c, j, step)
  /\ UNCHANGED orderVars

Change(c) ==
  \E o \in Cloids : asked[o] # <<>> /\ BeginAsUser(c, [op |-> "change", cloid |-> o], "orders")

CancelOne(c) ==
  \E o \in Cloids : asked[o] # <<>> /\ BeginAsUser(c, [op |-> "cancel", cloid |-> o], "orders")

CancelAll(c) == BeginAsUser(c, [op |-> "cancelAll"], "orders")

GetBalance(c) == BeginAsUser(c, [op |-> "balance"], "spot")

OfUser == {"positions", "openOrders", "userRateLimit"}

ReadWeight(what) == IF what \in {"ping", "price", "l2Book", "positions"} THEN 2 ELSE 20

\* What is read only matters when the answer is converted.
ReadOne(c) ==
  \E what \in Reads :
    /\ what \in OfUser => auth # "none"
    /\ Begin(c, [op |-> "read", weight |-> ReadWeight(what)], "read")
    /\ UNCHANGED orderVars

Start(c) ==
  /\ at[c] = "idle"
  /\ calls < MaxCalls
  /\ PlaceOrder(c) \/ Change(c) \/ CancelOne(c) \/ CancelAll(c) \/ GetBalance(c) \/ ReadOne(c)
  /\ UNCHANGED <<limitVars, nonceVars, venueVars, cache>>

\* The call returns; what it told the caller is remembered.
Finish(c, how) ==
  /\ at' = [at EXCEPT ![c] = "idle"]
  /\ job' = [job EXCEPT ![c] = [op |-> "none"]]
  /\ post' = [post EXCEPT ![c] = "none"]
  /\ reply' = [reply EXCEPT ![c] = {}]
  /\ got' = [got EXCEPT ![c] = Nothing]
  /\ settled' = [settled EXCEPT ![c] = {}]
  /\ gone' = IF how = "ok" THEN gone \cup settled[c] ELSE gone
  /\ refused' = IF how = "limited" /\ job[c].op = "place" THEN refused \cup {job[c].cloid} ELSE refused
  /\ denied' = IF how = "notFound" /\ job[c].op = "place" /\ job[c].known
                THEN denied \cup {job[c].coin} ELSE denied
  /\ UNCHANGED asked

\* The answer of an info request is used up, the call goes on.
GoesOn(c, step, have) ==
  /\ at' = [at EXCEPT ![c] = step]
  /\ post' = [post EXCEPT ![c] = "none"]
  /\ reply' = [reply EXCEPT ![c] = {}]
  /\ got' = [got EXCEPT ![c] = have]
  /\ UNCHANGED <<job, orderVars>>

-----------------------------------------------------------------------------
(* Info requests: info_post and parse_response. *)

InfoSteps == {"orders", "index", "meta", "spot", "perp", "perpAgain", "read"}

Weight(c) ==
  CASE at[c] \in {"orders", "index", "meta"} -> 20
    [] at[c] = "spot" -> 15
    [] at[c] \in {"perp", "perpAgain"} -> 2
    [] at[c] = "read" -> job[c].weight

\* get_balance returns these rows.
ReturnsRows(c, rows) ==
  /\ at' = [at EXCEPT ![c] = "idle"]
  /\ post' = [post EXCEPT ![c] = "none"]
  /\ reply' = [reply EXCEPT ![c] = {}]
  /\ got' = [got EXCEPT ![c] = [Nothing EXCEPT !.rows = rows]]
  /\ job' = [job EXCEPT ![c] = [op |-> "none"]]
  /\ UNCHANGED orderVars

\* A slip: without its perp row a balance is taken for complete.
InfoFailsSoftly(c, why) ==
  IF at[c] = "perp" /\ MapSpotState(got[c].spot[1], {}) # Err
  THEN ReturnsRows(c, MapSpotState(got[c].spot[1], {}))
  ELSE Finish(c, why)

\* A slip: orders that could not be read are taken for orders that are not there.
InfoFailsAsDone(c, why) == Finish(c, IF at[c] = "orders" THEN "ok" ELSE why)

\* An info request that fails ends the call, except that get_balance, if it could
\* read the spot account, asks for the perp account a second time.
InfoFails(c, why) ==
  IF at[c] = "perp" /\ why # "panic" /\ MapSpotState(got[c].spot[1], {}) # Err
  THEN GoesOn(c, "perpAgain", got[c])
  ELSE Finish(c, why)

\* Weight that is admitted now counts from now on.
Spend(weight) ==
  spent' = [t \in 0 .. MaxTime |-> IF t < now THEN spent[t] ELSE spent[t] + weight]

Ask(c) ==
  /\ at[c] \in InfoSteps
  /\ post[c] = "none"
  /\ LET grant == RestAcquire(window, now, Weight(c)) IN
     /\ window' = grant.window
     /\ IF grant.answer = "ok"
        THEN /\ post' = [post EXCEPT ![c] = "asked"]
             /\ Spend(Weight(c))
             /\ UNCHANGED <<at, job, reply, got, orderVars>>
        ELSE InfoFails(c, grant.answer) /\ UNCHANGED spent
  /\ UNCHANGED <<clockVars, address, nonceVars, venueVars, cache>>

\* Nothing that could still put the order on the books is under way.
Quiet(o) ==
  /\ \A r \in wire : r.kind = "order" => r.cloid # o
  /\ \A c \in Callers : at[c] # "idle" /\ job[c].op = "place" => job[c].cloid # o

MustGo(c) ==
  CASE job[c].op = "cancel" -> {o \in {job[c].cloid} : Quiet(o)}
    [] job[c].op = "cancelAll" -> {o.cloid : o \in resting}
    [] OTHER -> {}

\* The exchange reads what other calls may change before the answer arrives.
VenueReads(c) ==
  /\ at[c] \in {"orders", "index", "meta"}
  /\ post[c] = "asked"
  /\ post' = [post EXCEPT ![c] = "answered"]
  /\ reply' = [reply EXCEPT ![c] = IF at[c] = "orders" THEN resting ELSE universe]
  /\ settled' = IF at[c] = "orders" THEN [settled EXCEPT ![c] = MustGo(c)] ELSE settled
  /\ UNCHANGED <<clockVars, limitVars, nonceVars, venueVars, cache, at, job, got, asked, gone, refused, denied>>

\* The request or its answer is lost, or the answer does not parse.
InfoLost(c) ==
  /\ at[c] \in InfoSteps
  /\ post[c] # "none"
  /\ InfoFails(c, "failed")
  /\ UNCHANGED <<clockVars, limitVars, nonceVars, venueVars, cache>>

Arrived(c, step) ==
  /\ at[c] = step
  /\ post[c] = IF step \in {"orders", "index", "meta"} THEN "answered" ELSE "asked"
  /\ UNCHANGED <<clockVars, limitVars, nonceVars, venueVars>>


\* openOrders: the one order asked for, or all.
OrdersArrive(c) ==
  LET op    == job[c].op
      found == IF op = "cancelAll" THEN reply[c]
               ELSE {o \in reply[c] : o.cloid = job[c].cloid}
      have  == [got[c] EXCEPT !.targets = found]
  IN /\ Arrived(c, "orders")
     /\ IF found # {} THEN GoesOn(c, IF op = "change" THEN "lookup" ELSE "meta", have)
        ELSE Finish(c, IF op = "change" THEN "failed" ELSE "ok")
     /\ UNCHANGED cache

PlaceIn(names, s) == CHOOSE i \in DOMAIN names : names[i] = s

\* A slip: delisted assets are not counted.
IndexOfListed(names, s) ==
  Max({1, Cardinality({i \in 1 .. PlaceIn(names, s) : names[i] \notin Delisted})})

IndexIn(names, s) == PlaceIn(names, s)

\* The asset a lookup is for: the one to place on, or that of the order to change.
Coin(c) ==
  IF job[c].op = "place" THEN job[c].coin ELSE (CHOOSE o \in got[c].targets : TRUE).coin

\* asset_index_lookup: from the cache while it is fresh and has the asset.
Hit(s) == cache # <<>> /\ now - cache[1].at < Ttl /\ s \in ToSet(cache[1].names)

\* A slip: a fresh cache that lacks the asset is taken at its word.
LookUpTrusting(c) ==
  /\ at[c] = "lookup"
  /\ IF Hit(Coin(c))
     THEN GoesOn(c, "key", [got[c] EXCEPT !.index = IndexIn(cache[1].names, Coin(c))])
     ELSE IF cache # <<>> /\ now - cache[1].at < Ttl THEN Finish(c, "notFound")
     ELSE GoesOn(c, "index", got[c])
  /\ UNCHANGED <<clockVars, limitVars, nonceVars, venueVars, cache>>

LookUp(c) ==
  /\ at[c] = "lookup"
  /\ IF Hit(Coin(c))
     THEN GoesOn(c, "key", [got[c] EXCEPT !.index = IndexIn(cache[1].names, Coin(c))])
     ELSE GoesOn(c, "index", got[c])
  /\ UNCHANGED <<clockVars, limitVars, nonceVars, venueVars, cache>>

IndexArrives(c) ==
  LET names == reply[c] IN
  /\ Arrived(c, "index")
  /\ IF Coin(c) \in ToSet(names)
     THEN /\ GoesOn(c, "key", [got[c] EXCEPT !.index = IndexIn(names, Coin(c))])
          /\ cache' = <<[names |-> names, at |-> now]>>
     ELSE Finish(c, "notFound") /\ UNCHANGED cache

\* The cancels: cancel_order_by_cloid needs its asset, cancel_all_order leaves out
\* orders whose asset the answer does not have.
MetaArrives(c) ==
  LET known == {o \in got[c].targets : o.coin \in ToSet(reply[c])} IN
  /\ Arrived(c, "meta")
  /\ IF job[c].op = "cancel" /\ known = {} THEN Finish(c, "failed")
     ELSE GoesOn(c, "key", [got[c] EXCEPT !.targets =
            {[cloid |-> o.cloid, index |-> IndexIn(reply[c], o.coin)] : o \in known}])
  /\ UNCHANGED cache

SpotArrives(c) ==
  /\ Arrived(c, "spot")
  /\ \E r \in SpotReplies : GoesOn(c, "perp", [got[c] EXCEPT !.spot = <<r>>])
  /\ UNCHANGED cache

\* The rows of both accounts, the perp row last; either may turn out not to parse.
Balance(c, perp, margin) ==
  LET rows == MapSpotState(got[c].spot[1], margin)
      last == MapPerpState(perp)
  IN IF rows = Err \/ last = Err THEN Err ELSE Ok(Append(rows[1], last[1]))

\* The first answer also gives the margin of the USDC row, a second one does not.
PerpArrives(c) ==
  \E step \in {"perp", "perpAgain"} :
    /\ Arrived(c, step)
    /\ \E r \in PerpReplies :
         ReturnsRows(c, Balance(c, r, IF step = "perp" THEN r.margin ELSE {}))
    /\ UNCHANGED cache

\* What a plain read returns: the answer as the client converts it, s the asset asked
\* for.
Converted(what, r, s) ==
  CASE what = "ping" -> Ok(r)
    [] what = "symbols" -> Ok(r)
    [] what = "openInterest" -> GetOpenInterest(r, s)
    [] what = "assetContext" -> GetAssetContext(r, s)
    [] what = "allContexts" -> Ok(GetAllAssetContexts(r))
    [] what = "szDecimals" -> GetSzDecimals(r, s)
    [] what = "l2Book" -> Ok(GetL2Orderbook(r))
    [] what = "price" -> GetPrice(r, s)
    [] what = "fundings" -> Ok(GetPredictedFundings(r))
    [] what = "positions" -> Ok(GetPositions(r))
    [] what = "openOrders" -> Ok(GetOpenOrders(r))
    [] what = "userRateLimit" -> GetUserRateLimit(r)
    [] what = "listings" -> Ok(GetListingEvents(r.names, r.delisted))
    [] what = "universe" -> Ok(GetCurrentUniverse(r.names, r.delisted))

ReadArrives(c) ==
  /\ Arrived(c, "read")
  /\ \E what \in {x \in Reads : ReadWeight(x) = job[c].weight /\ (x \in OfUser => auth # "none")} :
       \E r \in ReadReplies[what], s \in Symbols :
         Finish(c, IF Converted(what, r, s) = Err THEN "failed" ELSE "ok")
  /\ UNCHANGED cache

Info(c) ==
  \/ Ask(c) \/ VenueReads(c) \/ InfoLost(c) \/ LookUp(c)
  \/ OrdersArrive(c) \/ IndexArrives(c) \/ MetaArrives(c)
  \/ SpotArrives(c) \/ PerpArrives(c) \/ ReadArrives(c)

-----------------------------------------------------------------------------
(* An order twice over: the fields that are signed, and those that are sent. *)

IsTrigger(spec) == spec.type \in {"TakeProfit", "StopLoss"}
IsMarket(spec)  == spec.tif = "Ioc"

\* A trigger order without a trigger price is not built.
Buildable(spec) == IsTrigger(spec) => spec.trigger # {}

Tpsl(spec) == IF spec.type = "TakeProfit" THEN "tp" ELSE "sl"

SignedKind(spec) ==
  IF IsTrigger(spec) THEN <<"trigger", IsMarket(spec), spec.trigger, Tpsl(spec)>>
  ELSE <<"limit", IF spec.type = "Limit" THEN spec.tif ELSE "Ioc">>

SentKind(spec) ==
  CASE IsTrigger(spec) /\ IsMarket(spec) -> <<"trigger", TRUE, spec.trigger, Tpsl(spec)>>
    [] IsTrigger(spec) /\ ~IsMarket(spec) -> <<"trigger", FALSE, spec.trigger, Tpsl(spec)>>
    [] spec.type = "Limit" -> <<"limit", spec.tif>>
    [] spec.type = "Market" -> <<"limit", "Ioc">>

\* build_order_msgpack and build_trigger_order_msgpack, in the order of the fields.
Signed(spec, index) ==
  <<index,
    IF IsTrigger(spec) /\ IsMarket(spec) THEN spec.trigger ELSE spec.price,
    spec.reduceOnly,
    SignedKind(spec)>>

\* A slip: the body of a market trigger order has the limit price.
SentAtLimit(spec, index) == <<index, spec.price, spec.reduceOnly, SentKind(spec)>>

\* The body place_order formats next to it.
Sent(spec, index) ==
  <<index,
    IF IsTrigger(spec) /\ IsMarket(spec) /\ spec.trigger # {} THEN spec.trigger ELSE spec.price,
    spec.reduceOnly,
    SentKind(spec)>>

-----------------------------------------------------------------------------
(* Signed actions: submit_signed_action, and the same steps in place_order. *)

\* Orders the call may be for.
SpecsOf(c) == {spec \in Specs : spec.reduceOnly = job[c].reduceOnly}

\* next_nonce begins: whoever can sign, if an order could be built, reads the clock
\* and the last nonce.
ReadNonce(c) ==
  /\ at[c] = "key"
  /\ \/ /\ auth = "none" \/ (job[c].op = "place" /\ \E spec \in SpecsOf(c) : ~Buildable(spec))
        /\ Finish(c, "failed")
        /\ UNCHANGED seen
     \/ /\ auth # "none"
        /\ \E t \in Clocks : seen' = [seen EXCEPT ![c] = [last |-> lastNonce, clock |-> t]]
        /\ at' = [at EXCEPT ![c] = "swap"]
        /\ UNCHANGED <<job, post, reply, got, orderVars>>
  /\ UNCHANGED <<clockVars, limitVars, lastNonce, issued, venueVars, cache>>

Candidate(c) == Max({seen[c].clock, seen[c].last + 1})

\* A slip: the nonce is stored whatever was stored meanwhile.
SwapBlindly(c) ==
  /\ at[c] = "swap"
  /\ lastNonce' = Candidate(c)
  /\ issued' = Append(issued, Candidate(c))
  /\ got' = [got EXCEPT ![c].nonce = Candidate(c)]
  /\ at' = [at EXCEPT ![c] = "sign"]
  /\ UNCHANGED <<seen, clockVars, limitVars, job, post, reply, venueVars, orderVars, cache>>

\* The compare-and-swap: it fails if the last nonce is not the one seen, and then
\* sees the one that is.
SwapNonce(c) ==
  /\ at[c] = "swap"
  /\ IF seen[c].last = lastNonce
     THEN /\ lastNonce' = Candidate(c)
          /\ issued' = Append(issued, Candidate(c))
          /\ got' = [got EXCEPT ![c].nonce = Candidate(c)]
          /\ at' = [at EXCEPT ![c] = "sign"]
          /\ seen' = [seen EXCEPT ![c] = Unseen]
     ELSE /\ seen' = [seen EXCEPT ![c].last = lastNonce]
          /\ UNCHANGED <<lastNonce, issued, got, at>>
  /\ UNCHANGED <<clockVars, limitVars, job, post, reply, venueVars, orderVars, cache>>

\* sign_action, sign_with_msgpack: a key signs at once; an external signer takes its
\* time, and may fail.
SignFails(c) ==
  /\ at[c] = "sign"
  /\ auth = "external"
  /\ Finish(c, "failed")
  /\ UNCHANGED <<clockVars, limitVars, nonceVars, venueVars, cache>>

\* What is signed asks for its weight.
Admit(c) ==
  LET grant == RestAcquire(window, now, 1) IN
  /\ at[c] = "sign"
  /\ window' = grant.window
  /\ IF grant.answer = "ok"
     THEN /\ at' = [at EXCEPT ![c] = "charge"]
          /\ Spend(1)
          /\ UNCHANGED <<job, post, reply, got, orderVars>>
     ELSE Finish(c, grant.answer) /\ UNCHANGED spent
  /\ UNCHANGED <<clockVars, address, nonceVars, venueVars, cache>>

\* What may go on the wire; all but an order is signed as it is sent.
Actions(c) ==
  LET j == job[c]
      base == [nonce |-> got[c].nonce, kind |-> "cancel", cloid |-> "none", index |-> got[c].index,
               targets |-> {}, forged |-> FALSE, reduceOnly |-> FALSE]
  IN CASE j.op = "place" ->
            {[base EXCEPT !.kind = "order", !.cloid = j.cloid, !.reduceOnly = j.reduceOnly,
                          !.forged = Signed(spec, got[c].index) # Sent(spec, got[c].index)] :
               spec \in {spec \in SpecsOf(c) : Buildable(spec)}}
       [] j.op = "change" -> {[base EXCEPT !.kind = "modify", !.cloid = j.cloid]}
       [] OTHER -> {[base EXCEPT !.targets = got[c].targets]}

\* A slip: the action is sent before the address is asked.
ChargeAfterwards(c) ==
  LET grant == AddressAcquire(address, now, 1, FALSE) IN
  /\ at[c] = "charge"
  /\ address' = grant.address
  /\ \E r \in Actions(c) : wire' = wire \cup {r}
  /\ IF grant.answer = "ok"
     THEN /\ at' = [at EXCEPT ![c] = "exchange"]
          /\ post' = [post EXCEPT ![c] = "asked"]
          /\ UNCHANGED <<job, reply, got, orderVars>>
     ELSE Finish(c, grant.answer)
  /\ UNCHANGED <<clockVars, window, spent, nonceVars, universe, resting, spared, cache>>

\* The address is charged, for one action that is no cancel whatever it is, and the
\* action sent; nothing awaits in between.
Charge(c) ==
  LET grant == AddressAcquire(address, now, 1, FALSE) IN
  /\ at[c] = "charge"
  /\ address' = grant.address
  /\ IF grant.answer = "ok"
     THEN /\ \E r \in Actions(c) : wire' = wire \cup {r}
          /\ at' = [at EXCEPT ![c] = "exchange"]
          /\ post' = [post EXCEPT ![c] = "asked"]
          /\ UNCHANGED <<job, reply, got, orderVars>>
     ELSE Finish(c, grant.answer) /\ UNCHANGED wire
  /\ UNCHANGED <<clockVars, window, spent, nonceVars, universe, resting, spared, cache>>

\* The exchange answers, or the caller stops waiting.
Returns(c) ==
  /\ at[c] = "exchange"
  /\ \/ post[c] = "answered" /\ Finish(c, reply[c])
     \/ Finish(c, "failed")
  /\ UNCHANGED <<clockVars, limitVars, nonceVars, venueVars, cache>>

Submit(c) == ReadNonce(c) \/ SwapNonce(c) \/ SignFails(c) \/ Admit(c) \/ Charge(c) \/ Returns(c)

-----------------------------------------------------------------------------
(* The exchange. *)

\* An action comes to books and answer.  An order rests, is filled at once, or is
\* rejected; one signed otherwise than it reads is not the client's.  The modify
\* the client sends makes a plain order of what it changes.  Each part of an action
\* has a status of its own: an answer that is "ok" may have changed nothing, or have
\* left some of the orders it cancels where they are, and submit_signed_action does
\* not look.
Outcomes(r) ==
  LET rejected == [resting |-> resting, spared |-> spared, answer |-> "failed"]
      taken   == [resting |-> resting, spared |-> spared, answer |-> "ok"]
      named   == {o \in resting : o.cloid = r.cloid}
      hit     == {o \in resting : \E t \in r.targets :
                    o.cloid = t.cloid /\ o.coin = universe[t.index]}
      new     == [cloid |-> r.cloid, coin |-> universe[r.index], reduceOnly |-> r.reduceOnly]
      plain   == {[o EXCEPT !.reduceOnly = FALSE] : o \in named}
      without(off) == [taken EXCEPT !.resting = @ \ off,
                                    !.spared = @ \cup {o.cloid : o \in hit \ off}]
  IN {rejected} \cup
     CASE r.kind = "order" -> IF r.forged THEN {} ELSE {taken, [taken EXCEPT !.resting = @ \cup {new}]}
       [] r.kind = "modify" ->
            IF named = {} THEN {} ELSE {taken, [taken EXCEPT !.resting = (@ \ named) \cup plain]}
       [] r.kind = "cancel" -> {without(off) : off \in SUBSET hit}

VenueHandles ==
  /\ \E r \in wire : \E out \in Outcomes(r) :
       LET waits == {c \in Callers : at[c] = "exchange" /\ post[c] = "asked" /\ got[c].nonce = r.nonce}
       IN /\ wire' = wire \ {r}
          /\ resting' = out.resting
          /\ spared' = out.spared
          /\ post' = [c \in Callers |-> IF c \in waits THEN "answered" ELSE post[c]]
          /\ reply' = [c \in Callers |-> IF c \in waits THEN out.answer ELSE reply[c]]
  /\ UNCHANGED <<clockVars, limitVars, nonceVars, at, job, got, universe, orderVars, cache>>

ActionLost ==
  /\ \E r \in wire : wire' = wire \ {r}
  /\ UNCHANGED <<clockVars, limitVars, nonceVars, callVars, universe, resting, spared, orderVars, cache>>

OrderFills ==
  /\ \E o \in resting : resting' = resting \ {o}
  /\ UNCHANGED <<clockVars, limitVars, nonceVars, callVars, universe, wire, spared, orderVars, cache>>

\* Assets are listed at the end.
Lists ==
  /\ \E s \in Symbols : ~Listed(s) /\ universe' = Append(universe, s)
  /\ UNCHANGED <<clockVars, limitVars, nonceVars, callVars, resting, wire, spared, orderVars, cache>>

Tick ==
  /\ now < MaxTime
  /\ now' = now + 1
  /\ UNCHANGED <<auth, calls, limitVars, nonceVars, callVars, venueVars, orderVars, cache>>

\* rest_budget_snapshot, which trims the window.
ReadBudget ==
  /\ window' = BudgetSnapshot(window, now).window
  /\ UNCHANGED <<clockVars, address, spent, nonceVars, callVars, venueVars, orderVars, cache>>

Next ==
  \/ \E c \in Callers : Start(c) \/ Info(c) \/ Submit(c)
  \/ VenueHandles \/ ActionLost \/ OrderFills \/ Lists
  \/ Tick \/ ReadBudget

Spec == Init /\ [][Next]_vars

-----------------------------------------------------------------------------
(* Properties. *)

TypeOK ==
  /\ now \in 0 .. MaxTime /\ calls \in 0 .. MaxCalls
  /\ \A j, k \in DOMAIN window : j <= k => window[j].at <= window[k].at /\ window[k].at <= now
  /\ address.consumed <= calls
  /\ lastNonce \in Nat
  /\ at \in [Callers -> InfoSteps \cup {"idle", "lookup", "key", "swap", "sign", "charge", "exchange"}]
  /\ \A c \in Callers : (at[c] = "idle") = (job[c].op = "none")
  /\ \A c \in Callers : post[c] # "none" => at[c] \in InfoSteps \cup {"exchange"}

\* The limiter's promise to the exchange: at no time was more weight than the
\* budget admitted within the last window (rate_limiter.rs:4).
WindowKept ==
  spent[now] - (IF now < Window THEN 0 ELSE spent[now - Window]) <= MaxWeight

\* Of all the client sends, cancels included, no more than one action per interval is
\* let through once the address has used its budget (client.rs:389 charges each as one
\* that is no cancel; for such the limiter promises this, rate_limiter.rs:8).
PaceKept == address.consumed <= address.budget + 1 + now \div Interval

\* A cancel is refused only when the cancels in it do not fit the limit for cancels,
\* which is up to twice the budget (rate_limiter.rs:9, "Cancels use a higher limit").
CancelsHaveHeadroom ==
  [][\A c \in Callers :
       at[c] = "charge" /\ at'[c] = "idle" /\ job[c].op \in {"cancel", "cancelAll"} =>
         address.consumed + Cardinality(got[c].targets) > CancelLimit(address.budget)]_vars

\* An error that says "rate_limited" means that nothing was sent (client.rs:281): the
\* order it was about neither rests nor is on its way.
RefusedNeverSent == \A o \in resting \cup wire : o.cloid \notin refused

\* An order rests on the market it was placed for, whatever was listed or
\* cached since and delisted before (client.rs:322).
RightMarket == \A o \in resting : o.coin = asked[o.cloid][1].coin

\* What is sent is what was signed, field for field, for every kind of order
\* (client.rs:1430 builds the body apart from the bytes that are signed).
SignedIsSent == \A r \in wire : ~r.forged

\* An asset that was listed when the order was placed is never "not found", however
\* old the cache is (client.rs:322).
ListedIsFound == denied = {}

\* After a cancel that returned Ok, an order it was for rests only if the exchange
\* answered it with an error of its own, which the client does not look at
\* (client.rs:409), or if it is on an asset the perp universe does not have, which
\* cancel_all_order leaves out (client.rs:1684); everything else it was for is off the
\* books (client.rs:1622: "the desired terminal state already holds"): the one order,
\* unless its placement was still under way when the orders were read, or all that
\* rested then.
CancelledUnlessSpared ==
  \A o \in resting : o.cloid \in gone => o.cloid \in spared \/ ~Listed(o.coin)

Whole(rows) ==
  LET perp == rows[Len(rows)] IN
  /\ \A k \in DOMAIN rows : rows[k].token = "PERP" <=> k = Len(rows)
  /\ \A k \in DOMAIN rows :
       /\ rows[k].usable <= rows[k].free
       /\ rows[k].marginUsed \subseteq perp.marginUsed

\* A balance is whole or an error: the perp account is its last row and no other, its
\* margin is the one the USDC row has, if that has one, and no row offers more than
\* is free (client.rs:1952).
BalanceWhole == \A c \in Callers : got[c].rows # Err => Whole(got[c].rows[1])

\* Reading one asset's context, its open interest or all contexts tells the same of
\* one answer (client.rs:1126: "Prefer this over repeated get_asset_context calls"), and
\* the universe is delisted where the listing events say so (client.rs:2543).
ViewsAgree ==
  \A c \in Callers : at[c] = "read" =>
    /\ \A what \in {"openInterest", "assetContext", "allContexts"} \cap Reads :
         \A r \in ReadReplies[what] : ViewsAgreeOn(r)
    /\ \A what \in {"listings", "universe"} \cap Reads : \A r \in ReadReplies[what] :
         LET events == GetListingEvents(r.names, r.delisted)
             status == GetCurrentUniverse(r.names, r.delisted)
         IN [k \in DOMAIN events |-> <<events[k].ticker, events[k].event = "delist">>]
              = [k \in DOMAIN status |-> <<status[k].ticker, status[k].delisted>>]

\* The nonces are those of a source that never repeats or goes back (client.rs:154).
Source == INSTANCE NonceSource
NoncesFresh == Source!Spec

=============================================================================
