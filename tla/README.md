# A TLA+ model of Guilder

Guilder is a Rust trading library: one abstraction over exchanges, a client for Hyperliquid, and
a core that keeps order books and an account in memory. This directory holds TLA+ modules for its
stateful parts, the TLC configurations that check them on small instances, and theorems about them
that TLAPS checks for every instance. Paths below are relative to the repository; `HL` stands for
`src/client/guilder-client-hyperliquid`.

1. [The system](#the-system)
2. [The modules](#the-modules)
3. [The runs](#the-runs)
4. [Fairness](#fairness)
5. [Proofs](#proofs)
6. [Where the code disagrees with its documentation](#where-the-code-disagrees-with-its-documentation)
7. [Not modelled](#not-modelled)
8. [The plan](#the-plan)

## The system

| Component | State it keeps | Operations | Correct when |
|---|---|---|---|
| WebSocket subscription manager (`HL/src/ws/manager.rs`) | the map of subscriptions with their reference counts and broadcast channels, the socket, the command queue | Acquire, Release, Shutdown; connect, replay, dispatch, heartbeat, give up, exit | the count is the number of holders; a held stream stays open; the server holds what the map holds; what is missed is announced; data resumes; the task ends |
| WebSocket transport (`HL/src/ws/transport.rs`) | the socket, the flag `closed` | connect, send, recv, close, is_connected | the manager knows a closed socket from an open one |
| Managed streams (`managed_stream`) | the receiver, the guard that releases on drop | first poll, recv, drop | each releases once what it acquired once |
| Order-book sync loops (`src/core/src/orderbook/sync.rs`) | the stream, the last sequence, the symbol's status | open, apply, fail, re-snapshot, delay, end | a loop ends only when asked to, and recovers from everything else |
| Order-book engine (`src/core/src/orderbook/engine.rs`) | the shared map of books, the statuses, the channel of added symbols, the health record | track, hot-add, reconcile, activation, queries | readers see whole books; books do not go back; reconciliation repairs; no book is left that nobody feeds; "active" means every symbol has data; what is added is tracked |
| Status handle (`src/core/src/status.rs`) | one status | set, read | it says whether the stream delivers |
| Price-level storage (`src/core/src/orderbook/storage.rs`, `types.rs`) | sorted levels, bounded or not | set level, replace, merge, best, liquidity, snapshot, imbalance | sorted vectors behave like the map; a bounded one never tells of a wrong level; queries say what the map says |
| Account engine (`src/core/src/account/`) | the account behind an `ArcSwap`, the channel to the consumer | process, apply, from_events, reconcile | consumers pass through the engine's accounts; a fill conserves value; reconcile finds every difference |
| Rate limiters (`HL/src/rate_limiter.rs`) | a window of weights, a budget per address | acquire, budget snapshot | no window exceeds its budget; beyond the budget of an address actions are spaced |
| Order entry and REST reads (`HL/src/client.rs`) | the last nonce, the asset index cache; orders on the exchange | next nonce, look up an index, place, change, cancel, cancel all, balance, plain reads | nonces rise; an order rests on its own market; "rate limited" means not sent; a cancelled order is gone unless the exchange kept it; a balance is whole |
| Signing (`HL/src/client.rs`) | none | build, sign | what is sent is what was signed |
| Per-user managers and client streams (`HL/src/client.rs`) | a map of subscription managers; streams | get or create; subscribe, unsubscribe | one manager per user; a stream yields its own items, or an error in their place, and ends only when asked to |
| Inbound and outbound messages (`HL/src/ws/`) | none | name a subscription, match a message, convert it | the three spellings agree |
| Trait code generator, currency pairs, error types, Binance and template clients, demonstration programs | none | | |

How they interact. A stream of the client is a `managed_stream`: its first poll sends Acquire on an
unbounded queue and awaits a receiver of the subscription's broadcast channel; dropping it sends
Release. One task per manager takes commands, and frames from the socket, in a `tokio::select!`
loop. A sync loop holds one such stream per symbol and writes the shared map of books, which REST
snapshots and the reconciliation task write as well; all of the engine's tasks share one thread, so
they interleave at `await` only. The account engine is called by its owner and hands accepted events
to a consumer through an unbounded channel, while readers load the account at any moment. Market
streams share one manager; each user address has one of its own, made at the first use. REST calls of
any number of tasks share the nonce, the cache of asset indexes and the two limiters, each behind its
own atomic or lock that is not held over an `await`.

What is hard here. Commands wait in a queue while the connection breaks, so what a Release says may
be out of date when it is handled. Connecting, backing off and replaying do not look at commands.
A consumer can be dropped at every `await`. A broadcast ring overwrites its oldest messages, markers
included. A loop drops and reopens its stream while the manager reconnects. REST answers are older
than what the stream has delivered in the meantime. An error can leave a step half done. Between a
nonce and its action, an index and its order, two reads of one balance, or a read of the orders and the
cancel that follows, other tasks and the exchange go on.
`PROJECT.json` lists each such hazard at its line with the properties that cover it.

## The modules

| Module | Models | Extends |
|---|---|---|
| `WsManager` | the subscription manager, its socket, the streams and the server | |
| `ManagedSync` | the sync loops as consumers of the manager (composition) | `WsManager` |
| `BookSync` | the stored book of one symbol: loop, REST, reconciliation, venue | |
| `AccountState` | the account as a fold of events, and reconcile (operators only) | |
| `AccountEngine` | the engine, its readers and the consumer of its events | `AccountState` |
| `RateLimits` | both rate limiters (operators only) | |
| `RestReplies` | what the client makes of REST answers (operators only) | |
| `RestClient` | the REST side: calls of several tasks, nonce, cache, limiters, exchange | `RateLimits`, `RestReplies` |
| `NonceSource` | abstract: a source of rising nonces, implemented by `RestClient` | |
| `StreamEvents` | what the client makes of WebSocket messages (operators only) | `RestReplies` |
| `ClientStreams` | the streams of the client, per-user managers, unsubscribing | `StreamEvents` |
| `LevelMap` | abstract: a side of a book as a map, implemented by `PriceLevels` | |
| `PriceLevels` | sorted and bounded vectors of levels, queries, `compare_books` | |
| `BookEngine` | track, hot-add, statuses and activation over several symbols | |
| `WsManagerProofs` | theorems about the manager and the loops that consume it | `ManagedSync` |
| `BookSyncProofs`, `AccountEngineProofs`, `RestClientProofs`, `ClientStreamsProofs`, `PriceLevelsProofs`, `BookEngineProofs` | theorems | the module they are about |
| `SequenceLemmas` | lemmas on numbers, sequences and flattening that several of these need | |
| `MCWsManager`, `MCManagedSync`, `MCBookSync`, `MCAccountEngine`, `MCRestClient`, `MCClientStreams`, `MCPriceLevels`, `MCBookEngine` | instances for TLC | the module they instantiate |

Some definitions come with a deliberately wrong variant next to them, each called a slip in its
comment (`HandleAcquireTwice`, `LoopRetriesKeeping`, `Untrimmed`, ...). No specification uses them. They
are what a plausible mistake in the code would look like: put in the place of the right definition,
each makes the property it is paired with in `PROJECT.json` fail, which shows that the property is not vacuous.

### WsManager

| Variable | In the code |
|---|---|
| `mode` | where `run_manager` is: waiting for commands with nothing subscribed (`parked`), connecting or backing off, in `replay_subscriptions`, in the inner `select!` loop (`running`), gone |
| `ref` | `ManagedSubscription::ref_count`; 0 is no entry in the map |
| `link`, `closed` | the socket as it is, and the field `HyperliquidWs::closed` |
| `cmds` | the `mpsc` queue of `ManagerCommand` |
| `st` | each stream: before its first poll, awaiting the answer to Acquire, dropped while awaiting, reading, reading what is left of a closed channel, dropped with its Release queued |
| `inbox`, `lost` | the unread part of the stream's broadcast ring, and `RecvError::Lagged` pending |
| `handle` | the client's own clone of the manager |
| `wire`, `told`, `missed` | the server: frames under way, its view of each subscription on this connection, and whether events were missed |
| `afterData`, `leaked`, `meddled` | history, for the properties only |

Each command handler is one action. It is one in the code as well as far as others can see: what it
awaits is the send limiter and the socket, and nobody but the task itself touches the map. A
connection attempt that fails changes nothing that is modelled but the delay before the next, so it
is no step. The four ways to give a connection up are four actions (`RecvFails`, `HeartbeatFails`,
`IdleTimeout`, `ParseFails`), because only the first sets `closed`. A message is reduced to what a consumer
needs to be told: whether events of its subscription were missed just before it ("gap"), or whether it was sent for a
subscription that was given up while it was under way ("late"). A late frame that finds the subscription acquired again reaches its
streams as any event does. The server, the network and the timing of events are assumptions about the outside and marked external.

### ManagedSync

Adds `loop` and `status` per slot. A loop is the only consumer of its slot, so each of its steps is a
step of the slot's stream together with a change of the loop: `LoopOpens` with `Open`, `LoopApplies`,
`LoopFails` and `LoopHearsShutdown` with `Recv`, `LoopRetries` and `LoopEnds` with `Drop` or
`RecvClosed`. It is the mode the Hyperliquid client is used in, where every message is a whole book.
`is_shutdown_error` recognises two texts; the first is the marker `"shut"`, the second the end of
the stream.

### BookSync

`venue` is the sequence of books the exchange has had and `asOf` the index of the one the stored book
was last written from. Both modes of `sync_loop` are covered (`wsIsTruth`: whole books; otherwise an
initial REST snapshot and level updates, several to a sequence number), with and without
reconciliation. A REST call is two steps, the venue's reading (`RestReads`, `ReconReads`) and the
arrival of the answer, with anything in between. Comparing and replacing are one step: both run on the
engine's thread without an `await`. The stream is any that behaves as `ManagedSync` shows: it can
lose what was under way, yield an error, resume by itself, or end. `last_seq` only tells a further
level of a message from a new message, which changes the log and nothing else, and is left out.

### AccountState and AccountEngine

`Applied` is `AccountState::apply` for an event it accepts, `Refused` says when it does not, and
`AfterRefusal` what is left then: the fee of an oversized fill is already charged. `Reconciled`,
`PositionDiffs` and `UnknownOrders` are `reconcile`. The engine stores the new account (`Accept`) and
then sends the event (`Send`); both are separate because readers load the account in between. A refused
event is dropped with the copy it was tried on (`Drop`). The consumer replays what it
receives like `from_events` does (`Receive`). Amounts are whole numbers of a small unit.

### RateLimits, RestReplies and RestClient

A call is `at` one step at a time, cut where the code awaits, takes a lock or does one atomic
operation. An info request is admitted by the limiter and sent (`Ask`), read by the exchange
(`VenueReads`) and answered (`OrdersArrive`, `IndexArrives`, `MetaArrives`, `SpotArrives`, `PerpArrives`, `ReadArrives`)
or lost (`InfoLost`). An action takes a nonce in a load and a compare-and-swap (`ReadNonce`,
`SwapNonce`), is admitted (`Admit`), charged to the address and put on the wire without an `await` in
between (`Charge`), and handled (`VenueHandles`) or lost (`ActionLost`); a caller that was told of an error may find
its action handled all the same (`Returns`).

| Variable | In the code |
|---|---|
| `window`, `address` | `RestRateLimiter::entries`, `AddressRateLimiter::inner` |
| `lastNonce`, `cache` | `last_nonce` and `asset_index_cache` of the client |
| `at`, `job`, `post`, `reply`, `got`, `seen` | the local state of each call's future |
| `universe`, `resting`, `wire` | the exchange and the network (external) |
| `issued`, `spent`, `asked`, `settled`, `gone`, `refused`, `denied`, `spared` | history, for the properties only |

The wall clock that nonces are made from may show any member of `Clocks` at any time; the limiters use
the monotonic clock `now`. `PoppedTo` pops entries off the front of the window until one is young. `spent` is the
weight admitted up to each tick, so that what was admitted in a window is a difference of two of its values.
A decimal in an answer is a set, empty where the text does not parse, so that every branch on a failed parse is
there. Which order type a `place` is of is chosen when the action is built; nothing before looks at
it. Cancel-by-id looks the order up, then its asset; both answers can be older than the order. An answer "ok" to a cancel has a
status for each order in it, which the client does not look at: `Outcomes` takes any part of the orders off and notes the rest
in `spared`. An order may rest on `Spot`, an asset of no place in the perp universe (`Early`, placed by other means): openOrders lists it,
cancel-by-id fails on it, and `cancel_all_order` leaves it out without a word (`MetaArrives`).

### StreamEvents and ClientStreams

A slot is one `subscribe_*` call: which manager it uses (`via`), found or made under a read lock and
then a write lock, what it subscribes to, and which conversion its closure applies. A stream that has not read `FanoutCapacity` entries of its
channel loses the oldest to the next one (`Carry`) and is told so before it reads on (`lagged`, `Recv`). `owed` is history: what the
channel had to carry to the stream, taken from whom a message is of and of which kind it is (`Concerned`), not from `matches_message`, with one
error for all that was overwritten since the stream was read (`Overwritten`). A message carries what it should mean to each method
(`means`), chosen with it in `MCClientStreams`; `YieldsItsOwn` compares what comes out of the closures (`yielded`) with that. The managers are those of `WsManager`,
reduced to one step per command on connections that hold. A stream dropped while it awaits the answer to Acquire leaks its
reference, as in `WsManager`. `unsubscribe_*` and the second Release of a stream whose channel was closed
are in; so is the exchange, which turns down a subscription it cannot read.

### LevelMap and PriceLevels

`asks` and `bids` are `SortedVec`s, `topAsks` and `topBids` `BoundedVec`s given the same calls. Insertion
looks for its place as the code does, by `position` or by `partition_point`, and not by sorting.
`LevelMap` is the promise of `PriceLevelStorage`, which the `BTreeMap` keeps by itself: a snapshot put into a fresh
map is the function from each price to the last volume it has (`MapOf`), and merging lets the other map's levels
prevail (`MapMerge`). `AsMap` is the refinement mapping. `merge` takes a book over the same storage, so the bounded
book merges a bounded one, and its bids from the last level to the first, as `iter_from_last` hands them out. The queries are checked against counts over
the map: what levels are worth is the number of cells of price times volume. `compare_books` sorts both lists by side and price, as a
stable sort does (`Rank`), and walks them; each pass of its loop with two pointers is `Pass`, and `Walk` adds what is
left of either list. A REST answer may list a price twice; the count is only claimed for answers that do not.

### BookEngine

Each call of `track` has a `stage`; the first that gets to run its loops takes `add_rx` (`driver`) and is the one that
serves `track_additional`. While it awaits the snapshots of added symbols its loops are
not polled, so `Polled` asks for the stage "running". `handle` is the map of status handles: tracking a
symbol again replaces its handle, and what the loop it belonged to does to it is no longer seen. A
batch may name a symbol twice; then the later loop's handle is kept. The monitor takes the lock once and
reads all statuses without an `await`: one step. What a loop does to its book is `BookSync`; a book here is there or not.

## The runs

| Run | Checks | Instance |
|---|---|---|
| `ws_manager` | `RefCountExact`, `HeldStreamsStayOpen`, `ServerInStep`, `DataResumes`, `ManagerEnds` | two streams on one subscription, ring of one; streams may be abandoned while waiting, subscriptions refused, and one third-party release or shutdown |
| `managed_sync` | `SyncTypeOK`, `LoopsEndOnlyOnRequest`, `NeverOvercounted`, `ServerInStep`, `OwnEventsUnbroken` | two loops, each with a symbol and a subscription of its own, ring of one, third-party releases and shutdowns |
| `book_sync` | `TypeOK`, `WholeBooks`, `BooksMoveForward`, `Converges` | two levels, two volumes, three books at the venue, all four modes |
| `account` | `TypeOK`, `ReplicaFollows`, `NothingSpent`, `ReconcileTells`, `FillsAreFair` | four events out of fifteen, buffer of two fills |
| `rest_client` | `TypeOK`, `WindowKept`, `PaceKept`, `RefusedNeverSent`, `RightMarket`, `SignedIsSent`, `ListedIsFound`, `CancelledUnlessSpared`, `BalanceWhole`, `ViewsAgree`, `NoncesFresh` | two tasks, two calls in all, two assets of which one is listed later, two orders of which one may rest on spot, five kinds of order |
| `client_streams` | `OneManagerPerUser`, `YieldsItsOwn`, `ServerAgrees`, `EndsOnlyOnRequest` | two streams of any of eleven methods, two users, one coin, channels of one entry, two messages or unsubscribe calls and a shutdown |
| `price_levels` | `ImplementsMap`, `TopsAreTrue`, `QueriesExact` | three prices, two volumes, depth two |
| `book_engine` | `BooksAreFed`, `ActivationHonest`, `HotAddsServed` | two symbols, two calls of `track`, four symbols asked for in all |
| `sync_recovers` | `LoopRecovers`, violated | one loop |
| `account_intent` | `FillsKnowIntent`, violated | as `account` |
| `cancel_headroom` | `CancelsHaveHeadroom`, violated | one task, one order, four calls, a budget of two actions |
| `bounded_bids` | `BidsKeepHighest`, violated | as `price_levels` |

What they show. The reference count survives every order of queued commands, reconnects and
streams that are dropped while waiting; the last only leak a reference each, and never a channel. With
third parties releasing what they do not hold, the count is no longer exact but never too high
(`NeverOvercounted`). Between two events of its own subscription a consumer never misses any unless an error
came between, even when the error marker itself was overwritten in the ring; frames left over from a subscription that was
released reach whoever acquires it again, but before all events of its own, never between or behind them. What was missed behind a
left-over does not show (see the divergences below). A sync loop never
takes a reconnect, a lag or anything done to another symbol for a shutdown. In whole-book mode a
reader never sees levels of two books, whatever REST and the stream do to each other; without
reconciliation a book never goes back, with it the book is right in the end. A fill neither makes nor
loses value at its own price in any branch of `apply`, and the consumer of the account engine is
always at an account the engine had.

On the REST side, whatever steps of other calls, listings, lost answers and delistings fall between the steps of a
call: an order lands on the market it was meant for, though its index was looked up several awaits
earlier, because an index never changes its asset; a cancel that returns `Ok` has taken off the books what it was for,
except for orders the exchange refused to cancel one by one, orders on assets that are not in the perp universe, and a placement
that was still under way when it read the orders; a refusal by either limiter means that nothing was
sent, though the weight and the nonce are spent; a balance is never put together from half of its two
answers. An address past its budget sends one action an interval, cancels among them, which the limiter would let through sooner
if it was told that they are cancels. The client's nonces are those of a single rising source. Each stream gets just the items of its
kind and its user, or an error where it was too slow for them, though messages name no user, and each user has one manager however many first uses
race. Sorted vectors do what the map does; a bounded one keeps the lowest prices, which are the best asks but the worst bids. No book is left without a loop that feeds it unless its batch
failed, "active" is never reported early, and what was hot-added is taken up while some call
of `track` got to run, even one whose own loops have all ended.

Bounds, and why they are enough:

- Two slots on one subscription (`ws_manager`) are needed for a count above one and a release that is not the last;
  two subscriptions (`managed_sync`) for a map that does not become empty, where a left-over frame can find its subscription acquired
  again on the same socket, and for a replay with a choice of order. More slots add no new kind of interleaving: streams interact
  through the count only. The theorems lift the bound.
- `FanoutCapacity` 1 (the code: 1024) makes the ring overflow at once, and overwrites markers as well as events. The theorems hold for every capacity.
- `WireCap` 1: a frame under way when a command or the end of the connection overtakes it.
- `MaxLeaks` 1 (`ws_manager`): one abandoned stream per subscription, one at a time, to keep `leaked` finite. `MaxForeign` 1
  and one Shutdown in the queue at a time: in `managed_sync` they can come again and again, not pile up; in `ws_manager`, for the sake of
  its liveness properties, only once (`MayMeddle`). `Optional` says which of these moves a run explores.
- `MaxMoves` 3: a book, a newer one, and a still newer one that overtakes an answer. `StreamCap` 2:
  repeated books and breaks are only added to a channel shorter than that; the venue's own changes always are.
- `rest_client`: two calls are needed for every race (two cache misses, two nonces, a cancel and a
  placement); `Window` 2 and `MaxTime` 2 let entries expire while others stay; `MaxWeight` 41 admits two of
  the heavy requests (20) and one more; `Budgets` {0} puts the address at its limit from the start, `Interval` 1
  spaces actions by a tick. `Early`: none or one of the orders rests on spot. `Clocks` {2}: a wall clock that stands still is what makes two nonces collide; the
  theorem covers every clock. `Ttl` 1: the cache goes stale during the run. A client with an external
  signer does what one with a key does and may also fail to sign, so it and a client without either are enough.
- `cancel_headroom`: two actions of budget, so that the limit for cancels is four; one task that places and cancels, on a clock that stands still.
- `client_streams`: two streams are what shares a manager or a subscription; a channel of one entry overflows with the second of two messages,
  `MaxOutside` 2, or with the error of a last shutdown; `spot_balance` calls
  `spot_balance_with_address` with the client's own address and is left out of `Methods`.
- `price_levels`: three prices are a level before, at and behind another one, and one more than the depth.
- `book_engine`: two symbols, asked for four times in all, let a symbol be tracked, added and tracked again; the
  batches include one that names a symbol twice.
- `MaxEvents` 4: place, open, add to, and close or reduce. `MaxRecentFills` 2 (the code: 200). One symbol
  and one order: `apply` touches only those an event names. Prices of 100 and 200 make averages that come
  out whole and averages that are rounded.

Deadlock is not checked where the system may stop: the manager's task ends, all bounded moves are used up.

`SYMMETRY` is used for interchangeable slots, tasks and client order ids in `rest_client` and `client_streams`, which check no liveness.

## Fairness

`WsManager!Fairness`. The task takes what is ready; `tokio::select!` polls its branches in random
order, so a queued command, or the closed queue, which is ready again in each pass of the inner
loop, is taken in the end even though other branches are taken in between and though the loop is left
and entered again: strong fairness of `HandleCommand` and `Exit`. Connecting, replaying, dispatching and noticing the end of the connection stay
possible until they happen: weak fairness. Consumers poll the streams they hold. The server publishes
again and again while it is subscribed, though the connection may come and go: strong fairness of
`Publish`. Nobody is obliged to open or drop a stream, and connections need not break. The liveness properties assume
`Settled`: from some point on the connection neither breaks nor falls silent for 40 s nor carries a frame that does not parse. Without it nothing
can be promised. `DataResumes` further excepts a stream whose subscription the server turned down on this connection: it is asked for again with
the next one only; and a consumer so slow that it finds nothing but lag errors.

`ManagedSync!SyncFairness` is the same for the composed system, with weak fairness for each loop, which is
a future of its own that is polled. `BookSync!Fairness`: the loop's and the reconciliation task's
own steps are taken (weak); REST calls of reconciliation succeed again and again though not always
(strong), which is what the interval timer retries for.

`BookEngine!Fairness`: the call that holds `add_rx` selects over it again and again, and every REST request
is answered or fails (the HTTP client gives up in the end): weak fairness of `TakeAdded`, and of the two
outcomes of a batch together. No loop is obliged to do anything, nor is anybody obliged to track.

## Proofs

All of these hold for every value of the constants that satisfies the module's `ASSUME`.

| Theorem | States | Along which invariant |
|---|---|---|
| `TypeCorrect` | `WsManager!Spec => []TypeOK` | itself |
| `RefCountCorrect`, `StreamsStayOpen` | `[]RefCountExact`, `[]HeldStreamsStayOpen` | `CountInv` |
| `NeverOvercountedCorrect` | `[]NeverOvercounted` | itself, with `CountInv` |
| `ServerCorrect` | `[]ServerInStep` | `LinkInv` |
| `SyncIsManaged` | `ManagedSync!SyncSpec => WsManager!Spec` | none: step by step |
| `SyncTypeCorrect` | `SyncSpec => []SyncTypeOK` | itself, with `TypeOK` |
| `EndsOnRequest` | `SyncSpec => []LoopsEndOnlyOnRequest` | `Unasked`, with `CountInv` |
| `BookTypeCorrect`, `WholeBooksCorrect` | `BookSync!Spec => []TypeOK`, `[]WholeBooks` | `BookInv` |
| `BooksForward` | `BooksMoveForward` | `BookInv` |
| `AccountTypeCorrect`, `ReplicaCorrect` | `AccountEngine!Spec => []TypeOK`, `[]ReplicaFollows` | `AccountInv` |
| `NothingSpentCorrect` | `[]NothingSpent` | `AccountInv` and `Unspent(state)` |
| `ReconcileCorrect` | `[]ReconcileTells` | `AccountInv` |
| `FillsAreAlwaysFair` | `FillsAreFair` | `AccountInv`, by the cases of `apply` |
| `OwnEventsAreUnbroken` | `WsManager!Spec => []OwnEventsUnbroken` | `GapInv`, with `CountInv` and `LinkInv` |
| `NoncesCorrect` | `RestClient!Spec` implements `NonceSource!Spec` | `NonceInv` |
| `TypeCorrect` | `RestClient!Spec => []TypeOK` | `CountInv`, with `CallInv`, `NonceInv`, `WindowInv`, `PaceInv` |
| `WindowIsKept` | `[]WindowKept` | `WindowInv`, with `CallInv` |
| `PaceIsKept` | `[]PaceKept` | `PaceInv` |
| `BalanceIsAlwaysWhole` | `[]BalanceWhole` | `BalanceInv`, with `CallInv` |
| `SignedIsWhatIsSent`, `RefusedIsNeverSent`, `RightMarketAlways`, `ListedIsAlwaysFound`, `CancelledUnlessAlwaysSpared` | `[]SignedIsSent`, `[]RefusedNeverSent`, `[]RightMarket`, `[]ListedIsFound`, `[]CancelledUnlessSpared` | `OrderInv`, with `CallInv` and `NonceInv` |
| `ViewsAlwaysAgree` | `RestClient!Spec => []ViewsAgree` | none: about the conversions, for every answer (`ContextsAgree`) |
| `ManagersAreOnePerUser`, `StreamsEndOnlyOnRequest` | `ClientStreams!Spec => []OneManagerPerUser`, `[]EndsOnlyOnRequest` | `StreamInv` |
| `ServerAlwaysAgrees` | `[]ServerAgrees` | `ServerInv`, with `StreamInv` |
| `StreamsYieldWhatArrives` | `ClientStreams!Spec => []YieldsWhatArrives` | `ReadInv`, with `RouteInv` and `StreamInv` |
| `BoundedVecIsTrue` | `PriceLevels!Spec => []TopsAreTrue` | `LevelsInv` |
| `QueriesAlwaysExact` | `[]QueriesExact` | `LevelsInv`, and `Aligned` along the walk |
| `SortedVecIsMap` | `PriceLevels!Spec` implements `LevelMap!Spec` | `LevelsInv` |
| `BooksFed`, `ActivationIsHonest` | `BookEngine!Spec => []BooksAreFed`, `ActivationHonest` | `EngineInv` |

*The count.* `RefCountExact` alone is not inductive: handling a Release lowers the count whatever the
stream that sent it is doing. `QueueInStep` supplies what is missing: each queued command
agrees with the stage of the stream it came from, no stream has two, and a command from nobody
has left its mark in `meddled`. Then handling the Acquire of a stream makes it a holder just when the
count rises (or leaks it), and handling its Release ends its holding just when the count falls. That
the last reference leaves with the last holder gives `HeldStreamsStayOpen`. The lemmas `OpenCounted` to
`ShutdownCounted` treat the actions that queue or take a command, `Untouched` all others.

*The server.* `ServerInStep` speaks of the inner loop; what it needs from before is `LinkInStep`: with no
connection the server holds nothing, and during a replay only subscriptions with an entry, each
once. `ReplayDone` then turns "every entry was sent" into equality.

*Overcounting.* `NeverOvercounted` speaks of subscriptions third parties meddle with, where the count is not exact.
It is preserved because a Release takes away at most one reference, and never a stream without trying to take one
(`ReleaseKeeps`); a stream that loses its channel stays among those that will release (`Keepers`).

*Gaps.* `OwnEventsUnbroken` looks at two neighbours in what a stream was given, but whether the next frame will be such a
neighbour is decided long before: on the wire, at the server, or while the manager replays. What does not continue the events before it, an
event behind a gap or a left-over, is a seam (`Seam`), and `GapInv` says in each of these places where seams can be. `WireInStep`: only the first event
of a subscription under way may follow a gap, left-overs come before all events of the same subscription, and no event is under way
while the server has missed one or has not subscribed. `StreamsInStep`: while the manager connects and replays, the newest item of each listener is
not an event, because giving a connection up marks all of them; in the inner loop nothing under way to a listener whose newest item is an event is a
seam. `EntriesInStep`: whoever listens has an entry, so the marker reaches all of them.
`GapsShow` is the property itself for the ring with what was read last in front of it; a lag counts as an error, which is why a ring that
overwrites the marker still shows the loss.

*The loops.* Each step of a loop is a step of its stream (`LoopStepIsStep`), so `CountInv` holds under the loops too.
`Unasked` adds that the shutdown marker is only ever in the channel of a stream whose subscription was meddled with; it follows from
`ShutdownAsked`, for a shutdown is only handled once it has marked everything, and from the other
broadcasts carrying something else. That the end of the stream has such a cause is `HeldStreamsStayOpen`.

*The stored book.* `BookInv` follows what is on its way to the book. Everything in the stream and in a REST answer is
something the venue had, under its number (`Genuine`, `InChan`), which makes whatever is written whole (`WholeBooks`). The
stream never falls back (`Rising`), and, without reconciliation, the answer and the stream
are never older than the stored book (`Ahead`): a stream that is dropped takes along what it held, and the one that
follows the re-snapshot opens after REST was read. The `Carries` lemmas say what appending, losing the end and reading the front
do to a stream; then there is one lemma per action.

*The account.* `UnderWay` relates the accounts readers could load (`trail`) to the events on their way:
each pending event is accepted by the account at its place and leads to the next. An accepted event
extends it at the end (`AcceptedUnderWay`), a received one shortens it at the front
(`ReceivedUnderWay`), which also shows that a consumer never meets a refused event, so that its account is always well-formed (`AppliedType`).
`NoDiffs` shows that the two loops of `reconcile` together say the same as the comparison of signed sizes. That a fill is fair is arithmetic in each case of
`apply`: opening, adding, reducing and closing; what an averaged price loses is the remainder of its division.

*The nonces.* `NonceInv` says that the last nonce bounds all that were handed out. It is preserved because
`SwapNonce` succeeds only when the nonce seen is the last one at that moment, and the candidate
is greater than what was seen (`CandidateIsNew`); `StepOnNonces` shows that no other step of the module touches
nonces. Each step is then `Issue` of `NonceSource` or leaves it alone.

*The limiters.* That the weight in a window is within the budget follows from what the window *is*: its entries are all that was
admitted within the last `Window` ticks, in the order of time. `WindowFits` says so with sums: what was spent after a time is
the sum of the entries behind the place where that time splits the window (`Accounted`). Popping old entries and pushing
a new one keep this, by lemmas about running sums (`UsedUpTo`). `PaceInv` bounds the actions let through by the time the last one
beyond the budget was let through, and `Intervals` turns an interval that has passed into one more. The type invariant
needs that an address is charged at most once a call, by counting the calls that may still charge it (`Charging`).

*A balance.* `BalanceInv` follows the first answer while the second is awaited and says of returned rows that they are whole; the rest is
about the two conversions: a row offers no more than is free (`UsableIsFree`), and only the last is named like the perp account. That the reads of
one answer agree (`ContextsAgree`) needs no invariant: an asset has one place in the universe, and each read takes the context at that place.

*Orders.* The five properties of orders share one invariant. `VenueInv` says of everything that rests or is on its way that
it was placed, on which market, and by a call that got that far; `ToldInv` what the calls that have returned said; `OrderFits`,
`ReplyFits`, `NonceFits` and `SettledFits` what each call holds at each step: the index it looked up points at the order's market in a
universe that only grows (`Points`), what it signed is what it will send, what it must leave off the books is settled once it
was answered, unless it was spared or is on spot (`Held` is what is left for a cancel to do). An answer is matched to its action by the nonce, so that no call takes another's answer for its own rests on
`Apart`, which rests on `NonceInv`. `Kept` collects what no step takes back.

*The client's streams.* `TableInv` makes the table of managers exact, through the re-check under the write lock. A release names a
subscription and not a stream, so equality of counts, as in `WsManager`, is out of reach once somebody unsubscribes; `CountInv` says instead that a manager counts
at least the streams that listen and the releases queued, of whatever nobody asked to end. So the last reference
of such a subscription goes when nobody listens to it (`LastRelease`). `ServerInv` compares the exchange with the counts by name; it needs
that different subscriptions have different names (`Names`).

*What a stream yields.* `YieldsWhatArrives` says, for any messages and any conversions, that a stream has yielded, and will yield of what its channel holds, just what its closure
makes of each entry it was owed, in their order; and that a closed stream has yielded all of it and a last error. `ReadInv` says so for each slot (`SlotRead`): what is
owed is split (`Parted`) into what is gone, read or overwritten, and the contents of the channel; the reading of what is gone
is what was yielded, with the lag error still to come (`Gap`) behind it. `GivenRoom` and `GivenFull` show that this survives a further entry in a channel
with room and in a full one, `Replaced` what an overwritten entry becomes, `RecvRead` and `ClosedRead` the steps of the stream. That a message which
reaches the channel is owed to just its slots (`ReachedOwn`, `OwnReached`) rests on `RouteInv`: a message on a connection is about something subscribed on it, and
the subscription of a stream that listens is counted, whoever unsubscribed. What a conversion makes of one message is no matter of this theorem:
`YieldsItsOwn` compares it with what the messages mean, in the run.

*Price levels.* A side is an ascending sequence, and such a sequence is given by the set of its levels (`SameSide`). So each operation is
described by what it makes of that set: `VecInsertSide` for one level, from where `partition_point` finds its place (`PlaceFound`);
`InsertedLevels` for many; `MergedSide` for another side in any order of its own. From there on the operations are those of
`LevelMap`. A bounded vector is the beginning (`Low`) of a side, of asks and bids alike, and stays one while levels are put in (`TopInsertBegins`, `TopRuns`). After a removal
it is the beginning of some side whose levels the whole one has; that this survives a merge of two bounded books
needs `Beyond`: a level the other bounded book has given up is higher than every level the merged one keeps.

*The queries.* A list that begins with the best level and is left early is a beginning of that list (`FirstOnes`, `UntilBoundary`), which the map
describes by how many prices are better. The running sum over a beginning counts its cells (`WorthRuns`, `WorthCounts`). Sorting puts each level at its
rank, and as many ranks as places, all different, fill them (`RankFits`, `SortOrders`). `Aligned` is the loop invariant of `compare_books`: what is before one pointer
comes before all that is not yet before the other, and the count is the number of sides and prices met that the other list lacks or has with another
volume. Each pass keeps it (`PassKeeps`) and moves a pointer, so that the loop ends at the end of a list (`WalkAligns`), and the rest of the other list is
all mismatches (`LeftOver`).

*The engine.* `ActivationHonest` speaks of newest loops, the monitor of handles. `HandlesAreNewest` joins them: a
symbol's handle is its newest loop's, and a symbol without one has no loop. It needs the last place a
symbol has in a batch, whose existence is `GreatestExists`, from well-foundedness of set inclusion. With `ActiveGotItem`
an active newest loop has had an item. `LoopsStart` covers the four ways loops start, `LoopChanges` the three
steps of a loop.

The assumptions the theorems use: `WsAssumption` (each slot asks for one of the subscriptions, slots are
finite in number, capacities are positive), `BookAssumption` (levels are finite in number, volumes are natural numbers with 0), `AccountAssumption` and `EngineAssumption` of `AccountEngine` (the events and reports
offered are well-formed; a snapshot holds no empty position and no filled order, as the exchange
reports none), `LimitAssumption` and `RestAssumption` (clocks and budgets are natural numbers; no request outweighs a
window; a number in an answer parses to one number or to none; no token of the spot account is called as the perp row is, whose name
`HL/src/lib.rs:8` reserves; an asset has one place in the universe an answer lists), `StreamAssumption` (addresses are those of users, methods are the client's), `MessageAssumption`
(a message about a coin names it, and all trades of a message are of one coin), `ListAssumption` (a conversion returns a list), `LevelAssumption` (prices are
positive, snapshots hold no empty level) and `EngineAssumption` of `BookEngine` (batches are lists of symbols). TLC evaluates them in every run.

Model-checked only are `DataResumes`, `ManagerEnds`, `Converges`, `HotAddsServed` and the violated `LoopRecovers`: liveness under
fairness, out of the prover's reach; and `YieldsItsOwn`, of which `YieldsWhatArrives` is the part that does not depend on what the conversions make of
each message. Every other safety property of the runs is a theorem, except the violated `FillsKnowIntent`, `CancelsHaveHeadroom` and `BidsKeepHighest`.

## Where the code disagrees with its documentation

Shown by a run:

- `LoopRecovers`. After `close()` the transport still says it is connected. A sync loop that reacts to the
  reconnect marker drops its stream, the last reference; the manager closes the socket it has just made, and the loop's
  next Acquire is subscribed on the closed socket, fails, and makes the loop drop its stream again. This can repeat for ever on a
  connection that never breaks, though streams are said to reconnect by themselves.
- `FillsKnowIntent`. A fill that completes its order is recorded without the order's intent, because the order is
  removed before it is looked up.
- `CancelsHaveHeadroom`. `HL/src/rate_limiter.rs:9` gives cancels a higher limit and counts a batch by its size; the
  client asks for one action that is not a cancel, whatever it sends (`HL/src/client.rs:389`), so a cancel is refused that the limit for cancels would admit.
- `BidsKeepHighest`. `src/core/src/orderbook/storage.rs:140-141` says that a `BoundedVec` of bids keeps the highest prices; `insert` keeps the
  lowest on either side (`TopInsert`).

`PROJECT.json` quotes the lines. Noted by reading; the models do what the code does:

- `src/core/src/orderbook/engine.rs:584-585` says that `unsubscribe_all` ends all sync loops without reconnecting; a
  loop in its reconnect delay does not hear it and subscribes again.
- `src/core/README.md:29` says that gaps in update sequences are detected and repaired; sequences are only
  compared for equality, for the log.
- `src/core/src/orderbook/engine.rs:611-613` takes any mismatch with a REST answer for a stale local book; the answer may be
  the stale one.
- `src/core/src/orderbook/engine.rs:150-152` says that `track` blocks until all streams end. The first call never returns, because the
  engine holds a sender of the channel it also waits on (`Returns`).
- `HL/src/client.rs` near line 1551 says that `change_order_by_cloid` modifies price and size; it also clears reduce-only
  and makes the order a plain Gtc limit order.
- `HL/src/ws/manager.rs:17`, `:99` and `:302` say that messages of a recently unsubscribed coin are dropped during a grace period. They are only
  looked for when nothing matches (`HL/src/ws/manager.rs:554-570`): once the subscription is acquired again, left-over frames reach the new
  stream as its own, and what was missed behind them does not show. `OwnEventsUnbroken` says what holds all the same.
- `src/abstraction/trading.yaml:115` says that `cancel_all_order` cancels all orders. It returns `Ok(true)` although
  it leaves out orders on assets the perp `meta` does not have (`HL/src/client.rs:1681-1684`), and, like cancel-by-id, whatever the exchange answered for single
  orders (`HL/src/client.rs:404-417`). `CancelledUnlessSpared` says what holds all the same.
- `src/abstraction/trading.yaml:217` says that `unsubscribe_user_events` unsubscribes all user streams; it releases one reference
  of each subscription.

## Not modelled

- JSON text, msgpack bytes, digests and signatures: sequential conversions, which the repository's vectors test.
  Messages are records, and what is signed is the fields it encodes.
- The trait code generator and its output, currency pairs and error types: no state. Binance and
  template clients are stubs. The demonstration and stress programs only call the client.
- Backoff lengths, send spacing (`WsSendRateLimiter`), log thresholds, counters of messages and drifts, the health
  record and the stale report of the engine: nothing in the code reads them back, and no property is about them.
- `acquire_blocking` and `record_fill` of the limiters, `PlaceOrder` and `CancelOrder` over the socket: used nowhere.
- The `None` case of a reconciliation for a symbol without a book: books are never removed.
- The digits of a `Decimal`: amounts in the account are whole numbers of a smallest unit, and an averaged entry price is rounded to it.
- In `BookSync` one symbol has one loop; two loops on one symbol are in `BookEngine`, where a book has no content.
  Connections hold in `ClientStreams`; that they break is in `WsManager`, which has one manager.

## The plan

In order of importance. Done:

1. `WsManager` with its proofs: everything else consumes its streams.
2. `ManagedSync`: the composition with the sync loops, where liveness across the two is decided.
3. `BookSync`: the stored book between stream, REST and reconciliation.
4. `AccountState`, `AccountEngine` with their proofs.
5. `RateLimits`, `RestReplies`, `RestClient`, and the refinement of `NonceSource` with its proof.
6. `StreamEvents`, `ClientStreams`.
7. `LevelMap`, `PriceLevels`, by refinement.
8. `BookEngine` with its proofs.
9. The proofs of `BookSync`, `ManagedSync` and of `NeverOvercounted`.
10. The proofs of `RestClient`: types, limiters, orders, balances.
11. The proofs of `ClientStreams`: managers, ends of streams, the exchange.
12. The proof of `OwnEventsUnbroken`.
13. The proofs of `PriceLevels`, with the refinement of `LevelMap`.
14. The proofs that the client's streams yield what arrives for them, that the views of one answer agree, that fills are fair, and
    that the queries and `compare_books` are exact.

Left:

15. The refinement of one subscription's part of `WsManager` by a manager of `ClientStreams`, whose connections hold.
