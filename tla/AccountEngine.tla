--------------------------- MODULE AccountEngine ---------------------------
(***************************************************************************)
(* AccountEngine (core/src/account/engine.rs): one owner processes events, *)
(* readers load the current account at any moment, and a consumer gets the *)
(* events that were accepted and keeps an account of its own from them, as *)
(* from_events does.                                                       *)
(***************************************************************************)
EXTENDS AccountState

CONSTANTS
  Inputs,      \* the events that may be offered
  Reports,     \* what the exchange may report for reconcile
  MaxEvents    \* bound: events offered in all

ASSUME EngineAssumption ==
  /\ \A e \in Inputs : IsEvent(e)
  /\ \A report \in Reports : IsReport(report)
  /\ MaxEvents \in Nat

VARIABLES
  state,       \* the account behind the ArcSwap
  sending,     \* the event process has stored and not sent yet, in a sequence
  queue,       \* events the consumer has not received, oldest first
  replica,     \* the consumer's account
  offered,     \* how many events were offered
  trail        \* the accounts readers could load, oldest first (history)

vars == <<state, sending, queue, replica, offered, trail>>

Init ==
  /\ state = New
  /\ sending = <<>>
  /\ queue = <<>>
  /\ replica = New
  /\ offered = 0
  /\ trail = <<New>>

\* process has returned, and is called again.
Offer ==
  /\ sending = <<>>
  /\ offered < MaxEvents
  /\ offered' = offered + 1

\* A slip: the event is handed on although apply refused it.
AcceptAlways(e) ==
  /\ Offer
  /\ state' = IF Refused(state, e) THEN state ELSE Applied(state, e)
  /\ trail' = Append(trail, state')
  /\ sending' = <<e>>
  /\ UNCHANGED <<queue, replica>>

\* process: apply succeeds on a copy, which is stored...
Accept(e) ==
  /\ Offer
  /\ ~Refused(state, e)
  /\ state' = Applied(state, e)
  /\ trail' = Append(trail, state')
  /\ sending' = <<e>>
  /\ UNCHANGED <<queue, replica>>

\* ...and then the event is sent.
Send ==
  /\ sending # <<>>
  /\ queue' = queue \o sending
  /\ sending' = <<>>
  /\ UNCHANGED <<state, replica, offered, trail>>

\* process: apply refuses; the copy, changed or not, is dropped with the event.
Drop(e) ==
  /\ Offer
  /\ Refused(state, e)
  /\ UNCHANGED <<state, sending, queue, replica, trail>>

\* from_events: a refused event is logged, what it did until then remains.
Replay(acc, e) == IF Refused(acc, e) THEN AfterRefusal(acc, e) ELSE Applied(acc, e)

\* The consumer replays the next event it gets.
Receive ==
  /\ queue # <<>>
  /\ replica' = Replay(replica, Head(queue))
  /\ queue' = Tail(queue)
  /\ UNCHANGED <<state, sending, offered, trail>>

Next ==
  \/ \E e \in Inputs : Accept(e) \/ Drop(e)
  \/ Send
  \/ Receive

Spec == Init /\ [][Next]_vars

-----------------------------------------------------------------------------

TypeOK ==
  /\ IsAccount(state)
  /\ IsAccount(replica)
  /\ sending \in {<<>>} \cup {<<e>> : e \in Inputs}
  /\ queue \in Seq(Inputs)
  /\ offered \in 0 .. MaxEvents
  /\ trail # <<>>
  /\ \A k \in DOMAIN trail : IsAccount(trail[k])

\* What the consumer has is an account that readers could load, the one after just
\* the events it received: never one ahead of the engine, never one that a refused
\* event got into (process: "dropped (not forwarded) so downstream consumers only
\* see consistent transitions").
ReplicaFollows == replica = trail[Len(trail) - Len(queue) - Len(sending)]

\* No position is empty, no order that is open is filled, whatever fills, snapshots,
\* cancels and placements come in whatever order (the two removals in apply).
NothingSpent ==
  /\ \A s \in DOMAIN state.positions : state.positions[s].size > 0
  /\ \A o \in DOMAIN state.orders : state.orders[o].filled < state.orders[o].quantity

Unrealized(acc, s, mark) ==
  IF s \notin DOMAIN acc.positions THEN 0
  ELSE Signed(acc.positions[s]) * (mark - acc.positions[s].entry)

\* What the account is worth more after a fill than before, marked at the fill's price.
Gained(before, after, e) ==
  (after.collateral + Unrealized(after, e.symbol, e.price))
    - (before.collateral + Unrealized(before, e.symbol, e.price))

\* The average of a position and what is added to it is a whole number.
Divides(pos, e) == (pos.size * pos.entry + e.quantity * e.price) % (pos.size + e.quantity) = 0

\* How much of it may be owing to the rounding of an average: less than a unit for every
\* piece, and nothing if the average divides.
Rounding(acc, e) ==
  IF Adds(acc, e) /\ ~Divides(acc.positions[e.symbol], e)
  THEN acc.positions[e.symbol].size + e.quantity - 1 ELSE 0

\* A fill trades at a price and neither makes nor loses money at it: marked at its own
\* price, the account is worth what it was, less the fee and but for the rounding, and
\* the position changes by the quantity, whether the fill opens, adds, reduces or closes
\* (apply, equity).
FillsAreFair ==
  [][\A e \in Inputs : e.type = "fill" /\ Accept(e) =>
       /\ Gained(state, state', e) + e.fee \in -Rounding(state, e) .. Rounding(state, e)
       /\ SignedSize(state', e.symbol) = SignedSize(state, e.symbol)
            + IF e.side = "long" THEN e.quantity ELSE -e.quantity]_vars

\* reconcile finds nothing exactly when collateral and every signed position agree
\* and every order the exchange has is known here; orders only this side has are
\* not looked for (reconcile in types.rs).
ReconcileTells ==
  \A report \in Reports :
    Reconciled(state, report) <=>
      /\ state.collateral = report.collateral
      /\ \A s \in Symbols : SignedSize(state, s) =
           IF s \in DOMAIN report.sizes THEN report.sizes[s] ELSE 0
      /\ report.orders \subseteq DOMAIN state.orders

\* A fill of an order whose intent is known is recorded with that intent (types.rs:
\* "Record fill with intent context for strategy feedback", and the test
\* fill_records_intent_uuid_in_recent_fill).
FillsKnowIntent ==
  [][\A e \in Inputs :
       /\ e.type = "fill" /\ Accept(e)
       /\ e.intent = NoIntent
       /\ e.order \in DOMAIN state.orders
       => state'.fills[Len(state'.fills)].intent = state.orders[e.order].intent]_vars

=============================================================================
