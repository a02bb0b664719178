----------------------------- MODULE RateLimits -----------------------------
(***************************************************************************)
(* The two rate limiters of the Hyperliquid client (rate_limiter.rs), as   *)
(* operators: each call runs under the limiter's mutex and is one step of  *)
(* whoever calls it.  A window is the sequence of admitted requests, each  *)
(* with the time it was admitted at and its weight, oldest first.          *)
(***************************************************************************)
EXTENDS Integers, Sequences, SequencesExt

CONSTANTS
  Window,     \* length of the sliding window (the code: 60 s)
  MaxWeight,  \* what a window admits (MAX_WEIGHT 1200, or with_budgets)
  Interval    \* ADDR_THROTTLE_INTERVAL: between actions once the budget is used up

ASSUME LimitAssumption ==
  /\ Window \in Nat \ {0} /\ Interval \in Nat \ {0}
  /\ MaxWeight \in Nat

\* The weight of the first k requests, for every k.
UsedUpTo(window) ==
  LET sum[k \in 0 .. Len(window)] == IF k = 0 THEN 0 ELSE sum[k - 1] + window[k].weight
  IN sum

Used(window) == UsedUpTo(window)[Len(window)]

\* Entries are popped off the front until one is younger than width.
PoppedTo(window, now, width) ==
  LET young == {k \in DOMAIN window : now - window[k].at < width}
  IN IF young = {} THEN <<>> ELSE SubSeq(window, Min(young), Len(window))

Pruned(window, now) == PoppedTo(window, now, Window)

\* A slip: an entry is dropped a moment too early.
PrunedEarly(window, now) == PoppedTo(window, now, Window - 1)

Recent(window, now) == Pruned(window, now)

\* A slip: an entry is pushed on the wrong end.
PushedFront(window, entry) == <<entry>> \o window

Pushed(window, entry) == Append(window, entry)

\* RestRateLimiter::acquire: the window it leaves and what it answers.  A request
\* turned down by an empty window unwraps the entry that is not there.
RestAcquire(window, now, weight) ==
  LET kept == Recent(window, now) IN
  IF Used(kept) + weight <= MaxWeight
  THEN [window |-> Pushed(kept, [at |-> now, weight |-> weight]), answer |-> "ok"]
  ELSE [window |-> kept, answer |-> IF kept = <<>> THEN "panic" ELSE "limited"]

\* RestRateLimiter::budget_snapshot: the window it leaves and what it tells.
BudgetSnapshot(window, now) ==
  LET kept == Recent(window, now)
      used == Used(kept)
  IN [window |-> kept,
      told   |-> [left |-> IF used < MaxWeight THEN MaxWeight - used ELSE 0,
                  max |-> MaxWeight, entries |-> Len(kept)]]

-----------------------------------------------------------------------------
(* AddrState: how many actions the address has, how many it has used, and  *)
(* when one was last let through beyond its budget, {} if never.           *)

NewAddress(budget) == [budget |-> budget, consumed |-> 0, throttled |-> {}]

\* A slip: the time of an action let through is not kept.
MarkNothing(address, now) == address.throttled

Mark(address, now) == {now}

\* AddressRateLimiter::cancel_limit.
CancelLimit(budget) == Min({budget + 100000, budget * 2})

\* AddressRateLimiter::acquire: count actions at once, all cancels or none.  Beyond
\* the limit single actions are let through, an interval apart.
AddressAcquire(address, now, count, isCancel) ==
  LET limit  == IF isCancel THEN CancelLimit(address.budget) ELSE address.budget
      paused == \E t \in address.throttled : now - t < Interval
  IN IF address.consumed + count <= limit
     THEN [address |-> [address EXCEPT !.consumed = @ + count], answer |-> "ok"]
     ELSE IF paused \/ count > 1
     THEN [address |-> address, answer |-> "limited"]
     ELSE [address |-> [address EXCEPT !.consumed = @ + 1, !.throttled = Mark(address, now)],
           answer |-> "ok"]

=============================================================================
