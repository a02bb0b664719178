--------------------------- MODULE ClientStreams ---------------------------
(***************************************************************************)
(* The streams of the Hyperliquid client (client.rs): which manager and    *)
(* which subscription a subscribe_* call uses, the table of per-user       *)
(* managers, the unsubscribe_* calls, and what of the exchange's messages  *)
(* each stream yields.                                                     *)
(*                                                                         *)
(* The managers are the tasks of WsManager, here with one step per command *)
(* and connections that hold: how they fail is the subject of that module. *)
(***************************************************************************)
EXTENDS StreamEvents, FiniteSets

CONSTANTS
  Slots,      \* one subscribe_* call each
  Users,      \* addresses
  Coins,
  Nobody,     \* stands for a client without an address
  Addresses,  \* what the client's user_address may be: users, or Nobody
  Methods,    \* the subscribe_* methods explored
  Messages,   \* what the exchange may send: [channel, data] as it arrives, of whom or
              \* what it is (of), and the items each method should yield (means)
  FanoutCapacity, \* of a subscription's broadcast channel (FANOUT_CAPACITY 1024)
  MaxAsked,   \* bound: unsubscribe calls
  MaxOutside  \* bound: messages sent and unsubscribe calls together, but for a last shutdown

CoinMethods == {"l2_update", "l2_snapshot", "asset_context", "fill"}
OwnMethods  == {"user_fills", "order_updates", "funding_payments", "deposits", "withdrawals",
                "spot_balance"}
AnyMethods  == {"liquidation", "spot_balance_with_address"}   \* of a user given

ASSUME StreamAssumption ==
  /\ Addresses \subseteq Users \cup {Nobody} /\ Nobody \notin Users
  /\ Methods \subseteq CoinMethods \cup OwnMethods \cup AnyMethods
  /\ IsFiniteSet(Slots) /\ MaxAsked \in Nat /\ MaxOutside \in Nat
  /\ FanoutCapacity \in Nat \ {0}

\* A message about a coin says so itself; the trades of a message are of one coin.
ASSUME MessageAssumption ==
  \A msg \in Messages :
    /\ Inbound(msg.channel) \in {"L2Book", "ActiveAssetCtx"} => msg.data.coin = msg.of
    /\ Inbound(msg.channel) = "Trades" => msg.data = <<>> \/ msg.data[1].coin = msg.of

VARIABLES
  registered,  \* user_address
  managers,    \* user_ws_managers: the manager of each user, Market for none
  made,        \* the users managers were spawned for, in order: they are 1, 2, ...
  held,        \* ref_count of each manager's subscriptions
  queue,       \* each manager's commands, oldest first
  told,        \* what the exchange sends on a manager's connection
  turned,      \* what it turned down
  wire,        \* what it sent and the manager has not read
  sent,        \* number of messages sent (bound)
  stage,       \* where the stream of each slot is
  ask,         \* what it was asked for
  via,         \* its manager
  inbox,       \* what it has not read of its channel
  lagged,      \* whether the channel overwrote what it had not read, and it has not noticed
  yielded,     \* what it yielded
  owed,        \* what its channel had to carry to it, Err for what was overwritten (history)
  asked        \* the unsubscribe calls made (history)

table   == <<registered, managers, made>>
server  == <<told, turned, wire, sent>>
reading == <<inbox, lagged, yielded, owed>>
vars == <<table, held, queue, server, stage, ask, via, reading, asked>>

Market == 0
Ids    == 0 .. Cardinality(Slots)
Subs   == [type : CoinTypes, of : Coins] \cup [type : UserTypes, of : Users]

ManagerUser(m) == IF m = Market THEN {} ELSE {made[m]}

TypeOf(method) ==
  CASE method = "l2_snapshot"              -> "L2Book"
    [] method = "asset_context"            -> "ActiveAssetCtx"
    [] method = "fill"                     -> "Trades"
    [] method = "order_updates"            -> "OrderUpdates"
    [] method \in {"deposits", "withdrawals"} -> "NonFundingLedger"
    [] OTHER                               -> "UserEvents"

SubOf(s) == Sub(TypeOf(ask[s].method), ask[s].of)

\* The closure a method hands to managed_stream; each conversion looks at messages of
\* its own channel only.
Items(method, msg) ==
  IF Inbound(msg.channel) # TypeOf(method) THEN <<>>
  ELSE CASE method = "l2_snapshot"      -> AsL2Snapshot(msg.data)
         [] method = "asset_context"    -> AsAssetContext(msg.data)
         [] method = "fill"             -> AsTrades(msg.data)
         [] method = "liquidation"      -> AsLiquidation(msg.data)
         [] method = "user_fills"       -> AsUserFills(msg.data)
         [] method = "order_updates"    -> AsOrderUpdates(msg.data)
         [] method = "funding_payments" -> AsFundingPayment(msg.data)
         [] method = "deposits"         -> AsDeposits(msg.data)
         [] method = "withdrawals"      -> AsWithdrawals(msg.data)
         [] OTHER                       -> AsSpotBalance(msg.data)

\* A conversion returns a list.
ASSUME ListAssumption ==
  \A msg \in Messages, method \in Methods \ {"l2_update"} :
    LET items == Items(method, msg) IN items \in Seq(ToSet(items))

Oks(items) == [k \in DOMAIN items |-> Ok(items[k])]

\* What a stream makes of what its channel carries, Ok(message) or Err.
Read(s, carried) ==
  IF carried = Err THEN <<Err>> ELSE Oks(Items(ask[s].method, carried[1]))

NoAsk == [method |-> "l2_update", of |-> Nobody]

Init ==
  /\ registered \in Addresses
  /\ managers = [u \in Users |-> Market]
  /\ made = <<>>
  /\ held = [m \in Ids |-> [x \in Subs |-> 0]]
  /\ queue = [m \in Ids |-> <<>>]
  /\ told = [m \in Ids |-> {}] /\ turned = [m \in Ids |-> {}]
  /\ wire = [m \in Ids |-> <<>>] /\ sent = 0
  /\ stage = [s \in Slots |-> "idle"]
  /\ ask = [s \in Slots |-> NoAsk]
  /\ via = [s \in Slots |-> Market]
  /\ inbox = [s \in Slots |-> <<>>]
  /\ lagged = [s \in Slots |-> FALSE]
  /\ yielded = [s \in Slots |-> <<>>]
  /\ owed = [s \in Slots |-> <<>>]
  /\ asked = <<>>

-----------------------------------------------------------------------------
(* The subscribe_* calls. *)

\* What a call can be for: the client's own address, or what it is given.
Targets(method) ==
  CASE method \in CoinMethods -> Coins
    [] method \in OwnMethods  -> {registered}
    [] method \in AnyMethods  -> Users

\* A market method clones the market manager.  A user method looks the user's manager up
\* under the read lock.  subscribe_l2_update, and a method about the client's own address
\* without one, return a stream of one error.
Subscribe(s) ==
  /\ stage[s] = "idle"
  /\ \E method \in Methods : \E x \in Targets(method) :
       /\ ask' = [ask EXCEPT ![s] = [method |-> method, of |-> x]]
       /\ \/ /\ method = "l2_update" \/ x = Nobody
             /\ stage' = [stage EXCEPT ![s] = "over"]
             /\ yielded' = [yielded EXCEPT ![s] = <<Err>>]
             /\ UNCHANGED via
          \/ /\ method \in CoinMethods \ {"l2_update"}
             /\ stage' = [stage EXCEPT ![s] = "made"]
             /\ UNCHANGED <<via, yielded>>
          \/ /\ method \notin CoinMethods /\ x # Nobody
             /\ via' = [via EXCEPT ![s] = managers[x]]
             /\ stage' = [stage EXCEPT ![s] = IF managers[x] # Market THEN "made" ELSE "missed"]
             /\ UNCHANGED yielded
  /\ UNCHANGED <<table, held, queue, server, inbox, lagged, owed, asked>>

\* HyperliquidWsManager::new: the task is spawned.
Spawn(s) ==
  /\ made' = Append(made, ask[s].of)
  /\ managers' = [managers EXCEPT ![ask[s].of] = Len(made')]
  /\ via' = [via EXCEPT ![s] = Len(made')]

\* A slip: the manager is made without another look at the table.
InsertBlindly(s) == Spawn(s)

\* entry().or_insert_with, under the write lock.
InsertManager(s) ==
  LET m == managers[ask[s].of] IN
  IF m = Market THEN Spawn(s)
  ELSE via' = [via EXCEPT ![s] = m] /\ UNCHANGED <<made, managers>>

GetOrCreate(s) ==
  /\ stage[s] = "missed"
  /\ InsertManager(s)
  /\ stage' = [stage EXCEPT ![s] = "made"]
  /\ UNCHANGED <<registered, held, queue, server, ask, reading, asked>>

Queued(m, commands) == queue' = [queue EXCEPT ![m] = @ \o commands]

Acquire(s)   == [op |-> "acquire", sub |-> SubOf(s), from |-> s]
Release(sub) == [op |-> "release", sub |-> sub]

\* The stream is polled for the first time.
Open(s) ==
  /\ stage[s] = "made"
  /\ stage' = [stage EXCEPT ![s] = "acquiring"]
  /\ Queued(via[s], <<Acquire(s)>>)
  /\ UNCHANGED <<table, held, server, ask, via, reading, asked>>

\* A slip: after what was overwritten the stream goes on as if nothing were missing.
RecvPastGap(s) ==
  /\ stage[s] \in {"live", "detached"}
  /\ inbox[s] # <<>>
  /\ inbox' = [inbox EXCEPT ![s] = Tail(@)]
  /\ lagged' = [lagged EXCEPT ![s] = FALSE]
  /\ yielded' = [yielded EXCEPT ![s] = @ \o Read(s, Head(inbox[s]))]
  /\ UNCHANGED <<table, held, queue, server, stage, ask, via, owed, asked>>

\* The stream is told first that it lagged, then it gets what the channel still has.
Recv(s) ==
  /\ stage[s] \in {"live", "detached"}
  /\ \/ /\ lagged[s]
        /\ lagged' = [lagged EXCEPT ![s] = FALSE]
        /\ yielded' = [yielded EXCEPT ![s] = Append(@, Err)]
        /\ UNCHANGED inbox
     \/ /\ ~lagged[s] /\ inbox[s] # <<>>
        /\ inbox' = [inbox EXCEPT ![s] = Tail(@)]
        /\ yielded' = [yielded EXCEPT ![s] = @ \o Read(s, Head(inbox[s]))]
        /\ UNCHANGED lagged
  /\ UNCHANGED <<table, held, queue, server, stage, ask, via, owed, asked>>

\* The channel is closed and drained: an error ends the stream, ReleaseOnDrop follows.
RecvClosed(s) ==
  /\ stage[s] = "detached" /\ inbox[s] = <<>> /\ ~lagged[s]
  /\ stage' = [stage EXCEPT ![s] = "closed"]
  /\ yielded' = [yielded EXCEPT ![s] = Append(@, Err)]
  /\ Queued(via[s], <<Release(SubOf(s))>>)
  /\ UNCHANGED <<table, held, server, ask, via, inbox, lagged, owed, asked>>

\* The consumer drops the stream.  What releases its subscription exists only once the
\* manager has answered: a stream dropped before that releases nothing, and if its command
\* is queued already the reference it stands for is never given back.
Drop(s) ==
  /\ stage[s] \in {"made", "acquiring", "live", "detached"}
  /\ stage' = [stage EXCEPT ![s] = "over"]
  /\ inbox' = [inbox EXCEPT ![s] = <<>>]
  /\ lagged' = [lagged EXCEPT ![s] = FALSE]
  /\ IF stage[s] \in {"made", "acquiring"} THEN UNCHANGED queue
     ELSE Queued(via[s], <<Release(SubOf(s))>>)
  /\ ask' = [ask EXCEPT ![s] = NoAsk]
  /\ via' = [via EXCEPT ![s] = Market]
  /\ yielded' = [yielded EXCEPT ![s] = <<>>]
  /\ owed' = [owed EXCEPT ![s] = <<>>]
  /\ UNCHANGED <<table, held, server, asked>>

-----------------------------------------------------------------------------
(* The unsubscribe_* calls. *)

UserReleases(u) ==
  <<Release(Sub("UserEvents", u)), Release(Sub("OrderUpdates", u)),
    Release(Sub("NonFundingLedger", u))>>

InBounds == sent + Len(asked) < MaxOutside

Asks(what) == Len(asked) < MaxAsked /\ asked' = Append(asked, what)

\* unsubscribe_user on the market manager and on that of every user in the table: one
\* reference of each subscription, however many streams share it.
UnsubscribeUserEvents ==
  /\ InBounds /\ Asks(ToSet(made) \cup ({registered} \cap Users))
  /\ queue' = [m \in Ids |->
       queue[m] \o (IF m = Market /\ registered # Nobody THEN UserReleases(registered)
                    ELSE IF m \in {managers[u] : u \in Users} \ {Market} THEN UserReleases(made[m])
                    ELSE <<>>)]
  /\ UNCHANGED <<table, held, server, stage, ask, via, reading>>

\* unsubscribe_by_coin.
ReleaseCoin(c) ==
  Queued(Market, <<Release(Sub("L2Book", c)), Release(Sub("Trades", c)),
                   Release(Sub("ActiveAssetCtx", c))>>)

UnsubscribeMarketData(c) ==
  /\ InBounds /\ Asks({c})
  /\ ReleaseCoin(c)
  /\ UNCHANGED <<table, held, server, stage, ask, via, reading>>

UnsubscribeAll ==
  /\ Asks(Coins)
  /\ Queued(Market, <<[op |-> "shutdown"]>>)
  /\ UNCHANGED <<table, held, server, stage, ask, via, reading>>

-----------------------------------------------------------------------------
(* The managers. *)

\* A slip: one channel for all of a manager's subscriptions.
AllReceivers(m, sub) == {s \in Slots : via[s] = m /\ stage[s] = "live"}

Receivers(m, sub) == {s \in Slots : via[s] = m /\ stage[s] = "live" /\ SubOf(s) = sub}

\* A channel with FanoutCapacity unread entries overwrites the oldest.
Full(s) == Len(inbox[s]) = FanoutCapacity

Carry(receivers, carried) ==
  /\ inbox' = [s \in Slots |->
       IF s \notin receivers THEN inbox[s]
       ELSE Append(IF Full(s) THEN Tail(inbox[s]) ELSE inbox[s], carried)]
  /\ lagged' = [s \in Slots |-> lagged[s] \/ (s \in receivers /\ Full(s))]

\* The oldest entry that was not read gives way to the error that says so, of which one
\* stands for all that was overwritten since the stream was read.
Overwritten(s) ==
  LET oldest == Len(owed[s]) - FanoutCapacity + 1 IN
  IF lagged[s] THEN RemoveAt(owed[s], oldest) ELSE [owed[s] EXCEPT ![oldest] = Err]

\* History: to whom a channel has something to carry.
Owe(streams, carried) ==
  owed' = [s \in Slots |->
    IF s \notin streams THEN owed[s]
    ELSE Append(IF Full(s) THEN Overwritten(s) ELSE owed[s], carried)]

Detach(receivers) == [s \in Slots |-> IF s \in receivers THEN "detached" ELSE stage[s]]

\* With nothing left to subscribe to the manager closes its socket.
GiveUp(m, subs) ==
  /\ held' = [held EXCEPT ![m] = [x \in Subs |-> IF x \in subs THEN 0 ELSE @[x]]]
  /\ LET idle == \A x \in Subs : held'[m][x] = 0
         gone == {SubscriptionPayload(x) : x \in subs}
     IN /\ told' = [told EXCEPT ![m] = IF idle THEN {} ELSE @ \ gone]
        /\ turned' = [turned EXCEPT ![m] = IF idle THEN {} ELSE @ \ gone]
        /\ wire' = [wire EXCEPT ![m] = IF idle THEN <<>> ELSE @]
  /\ UNCHANGED sent

\* The first reference subscribes, and the exchange takes it or turns it down.
HandleAcquire(m, cmd) ==
  /\ held' = [held EXCEPT ![m][cmd.sub] = @ + 1]
  /\ stage' = [stage EXCEPT ![cmd.from] = IF @ = "acquiring" THEN "live" ELSE @]
  /\ \/ /\ held[m][cmd.sub] > 0
        /\ UNCHANGED server
     \/ /\ held[m][cmd.sub] = 0
        /\ told' = [told EXCEPT ![m] = @ \cup {Outbound(cmd.sub)}]
        /\ UNCHANGED <<turned, wire, sent>>
     \/ /\ held[m][cmd.sub] = 0
        /\ turned' = [turned EXCEPT ![m] = @ \cup {Outbound(cmd.sub)}]
        /\ wire' = [wire EXCEPT ![m] = Append(@,
             [channel |-> "subscriptionResponse",
              data |-> [subscription |-> Outbound(cmd.sub), success |-> FALSE]])]
        /\ UNCHANGED <<told, sent>>
  /\ UNCHANGED <<inbox, lagged, owed>>

HandleRelease(m, cmd) ==
  LET count == held[m][cmd.sub] IN
  /\ \/ /\ count = 1
        /\ GiveUp(m, {cmd.sub})
        /\ stage' = Detach(Receivers(m, cmd.sub))
     \/ /\ count # 1
        /\ held' = [held EXCEPT ![m][cmd.sub] = IF count > 1 THEN count - 1 ELSE count]
        /\ UNCHANGED <<server, stage>>
  /\ UNCHANGED <<inbox, lagged, owed>>

HandleShutdown(m, cmd) ==
  LET all == UNION {Receivers(m, x) : x \in Subs} IN
  /\ GiveUp(m, Subs)
  /\ stage' = Detach(all)
  /\ Carry(all, Err)
  /\ Owe({s \in Slots : via[s] = m /\ stage[s] = "live"}, Err)

HandleCommand(m) ==
  /\ queue[m] # <<>>
  /\ queue' = [queue EXCEPT ![m] = Tail(@)]
  /\ LET cmd == Head(queue[m]) IN
     \/ cmd.op = "acquire"  /\ HandleAcquire(m, cmd)
     \/ cmd.op = "release"  /\ HandleRelease(m, cmd)
     \/ cmd.op = "shutdown" /\ HandleShutdown(m, cmd)
  /\ UNCHANGED <<table, ask, via, yielded, asked>>

\* The exchange sends what was asked for on this connection, under a name of its own for
\* the channel, or something no channel is known for.
Publish(m) ==
  /\ InBounds
  /\ sent' = sent + 1
  /\ \E msg \in Messages :
       /\ \E payload \in told[m] :
            LET sub == Value(FromResponse(payload)) IN
            sub.of = msg.of /\ Inbound(msg.channel) \in {sub.type, "Unknown"}
       /\ wire' = [wire EXCEPT ![m] = Append(@, msg)]
  /\ UNCHANGED <<table, held, queue, told, turned, stage, ask, via, reading, asked>>

\* Streams a message is for: those of its coin or user and of its kind.  An empty list of
\* trades is of no coin.
Concerned(m, msg) ==
  {s \in Slots : /\ via[s] = m /\ stage[s] = "live"
                 /\ ask[s].of = msg.of /\ TypeOf(ask[s].method) = Inbound(msg.channel)
                 /\ msg.data # <<>> \/ Inbound(msg.channel) # "Trades"}

\* dispatch_message: a rejection goes to the streams of its subscription, a message to
\* every subscription it matches, what is unknown to none.
Deliver(m, msg) ==
  \/ /\ Inbound(msg.channel) = "SubscriptionResponse"
     /\ Carry(UNION {Receivers(m, x) : x \in FromResponse(msg.data.subscription)}, Err)
     /\ Owe({s \in Slots : /\ via[s] = m /\ stage[s] = "live"
                           /\ Outbound(SubOf(s)) = msg.data.subscription}, Err)
  \/ /\ Inbound(msg.channel) = "Unknown"
     /\ UNCHANGED <<inbox, lagged, owed>>
  \/ /\ Inbound(msg.channel) \in CoinTypes \cup UserTypes
     /\ LET matching == {x \in Subs : held[m][x] > 0 /\ MatchesMessage(x, msg, ManagerUser(m))}
        IN Carry(UNION {Receivers(m, x) : x \in matching}, Ok(msg))
     /\ Owe(Concerned(m, msg), Ok(msg))

Dispatch(m) ==
  /\ wire[m] # <<>>
  /\ wire' = [wire EXCEPT ![m] = Tail(@)]
  /\ Deliver(m, Head(wire[m]))
  /\ UNCHANGED <<table, held, queue, told, turned, sent, stage, ask, via, yielded, asked>>

-----------------------------------------------------------------------------

Next ==
  \/ \E s \in Slots :
       \/ Subscribe(s) \/ GetOrCreate(s) \/ Open(s) \/ Recv(s) \/ RecvClosed(s) \/ Drop(s)
  \/ UnsubscribeUserEvents \/ UnsubscribeAll
  \/ \E c \in Coins : UnsubscribeMarketData(c)
  \/ \E m \in Ids : HandleCommand(m) \/ Publish(m) \/ Dispatch(m)

Spec == Init /\ [][Next]_vars

-----------------------------------------------------------------------------
(* Properties. *)

\* A user has one manager, and so one connection and one count of references, however
\* many first calls race between the read lock and the write lock of
\* get_or_create_user_manager; and a stream's manager is the one of the user it asks about
\* (market methods: the market's), which may be another than the client's own.
OneManagerPerUser ==
  /\ \A k, n \in DOMAIN made : made[k] = made[n] => k = n
  /\ \A s \in Slots :
       stage[s] \in {"made", "acquiring", "live", "detached"} =>
         /\ ManagerUser(via[s]) = IF ask[s].method \in CoinMethods THEN {} ELSE {ask[s].of}
         /\ via[s] # Market => via[s] = managers[ask[s].of]

\* What a stream is going to yield of what its channel holds already.
Pending(s) ==
  (IF lagged[s] THEN <<Err>> ELSE <<>>)
    \o FlattenSeq([k \in DOMAIN inbox[s] |-> Read(s, inbox[s][k])])

\* The items a method should make of a message.
Meant(msg, method) == IF method \in DOMAIN msg.means THEN msg.means[method] ELSE <<>>

Due(s) ==
  FlattenSeq([k \in DOMAIN owed[s] |->
    IF owed[s][k] = Err THEN <<Err>> ELSE Oks(Meant(owed[s][k][1], ask[s].method))])

\* A stream yields, in order and once, every item of its own kind that arrives for its
\* coin or user while it is attached, and nothing else: although streams share
\* subscriptions, user messages name no user, and one user message carries items of
\* four methods.  Where its channel overwrote messages it was too slow for
\* (manager.rs:708), it yields an error in their place; other errors stand where its
\* subscription was turned down, the manager shut down or the channel closed.
YieldsItsOwn ==
  \A s \in Slots :
    IF stage[s] \in {"live", "detached"}
    THEN yielded[s] \o Pending(s) = Due(s)
    ELSE IsPrefix(yielded[s], Append(Due(s), Err))

\* On every connection the exchange holds exactly the subscriptions the manager counts:
\* an unsubscribe names what the subscribe named (outbound.rs and subscription_payload
\* spell it twice), and nothing is left behind when the last stream goes.
ServerAgrees ==
  \A m \in Ids :
    told[m] \cup turned[m] = {Outbound(x) : x \in {y \in Subs : held[m][y] > 0}}

\* Streams of a coin or a user nobody unsubscribed are not closed: neither by the
\* unsubscribing of others, nor by the second release a closed stream sends.
EndsOnlyOnRequest ==
  \A s \in Slots :
    stage[s] \in {"detached", "closed"} => \E k \in DOMAIN asked : ask[s].of \in asked[k]

=============================================================================
