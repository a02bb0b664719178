------------------------ MODULE AccountEngineProofs ------------------------
(***************************************************************************)
(* Theorems about the account engine, for every set of events and reports. *)
(* The accounts readers could load, one per accepted event, are what ties  *)
(* the events under way to the engine's account and to the consumer's.     *)
(* A fill is fair one case at a time: a position opened, added to, reduced *)
(* or closed, long or short; what an average loses is its remainder.       *)
(***************************************************************************)
EXTENDS AccountEngine, SequenceTheorems, TLAPS

-----------------------------------------------------------------------------
(* Maps. *)

LEMMA MapDomain ==
  ASSUME NEW map, NEW Keys, NEW Values, IsMap(map, Keys, Values)
  PROVE  DOMAIN map \subseteq Keys /\ \A k \in DOMAIN map : map[k] \in Values
BY DEF IsMap

LEMMA PutIsMap ==
  ASSUME NEW map, NEW Keys, NEW Values, IsMap(map, Keys, Values),
         NEW key \in Keys, NEW value \in Values
  PROVE  IsMap(Put(map, key, value), Keys, Values)
<1>1. DOMAIN map \cup {key} \in SUBSET Keys
  BY MapDomain
<1>2. \A k \in DOMAIN map \cup {key} : (IF k = key THEN value ELSE map[k]) \in Values
  BY MapDomain
<1>3. Put(map, key, value) \in [DOMAIN map \cup {key} -> Values]
  BY <1>2 DEF Put
<1> QED
  BY <1>1, <1>3 DEF IsMap

LEMMA RemoveIsMap ==
  ASSUME NEW map, NEW Keys, NEW Values, IsMap(map, Keys, Values), NEW key
  PROVE  IsMap(Remove(map, key), Keys, Values)
<1>1. DOMAIN map \ {key} \in SUBSET Keys
  BY MapDomain
<1>2. Remove(map, key) \in [DOMAIN map \ {key} -> Values]
  BY MapDomain DEF Remove, Restrict
<1> QED
  BY <1>1, <1>2 DEF IsMap

LEMMA NothingIsMap ==
  ASSUME NEW Keys, NEW Values
  PROVE  IsMap(Nothing, Keys, Values)
<1>1. Nothing \in [{} -> Values]
  BY DEF Nothing
<1> QED
  BY <1>1 DEF IsMap

\* A map with a value changed is still a map.
LEMMA ExceptIsMap ==
  ASSUME NEW map, NEW Keys, NEW Values, IsMap(map, Keys, Values),
         NEW key \in DOMAIN map, NEW value \in Values
  PROVE  IsMap([map EXCEPT ![key] = value], Keys, Values)
<1>1. PICK K \in SUBSET Keys : map \in [K -> Values]
  BY DEF IsMap
<1>2. [map EXCEPT ![key] = value] \in [K -> Values]
  BY <1>1
<1> QED
  BY <1>1, <1>2 DEF IsMap

-----------------------------------------------------------------------------
(* Types. *)

LEMMA NewIsAccount == IsAccount(New)
<1>1. IsMap(Nothing, Symbols, Position) /\ IsMap(Nothing, OrderIds, Order)
  BY NothingIsMap
<1>2. 0 <= MaxRecentFills
  BY AccountAssumption
<1> QED
  BY <1>1, <1>2 DEF IsAccount, New

LEMMA FilledPositionsType ==
  ASSUME NEW acc, IsAccount(acc), NEW e \in Fill, ~Refused(acc, e)
  PROVE  IsMap(FilledPositions(acc, e), Symbols, Position)
<1> DEFINE s == e.symbol  P == acc.positions
<1>1. s \in Symbols /\ e.side \in Sides /\ e.price \in Nat /\ e.quantity \in Nat \ {0}
  BY DEF Fill
<1>2. IsMap(P, Symbols, Position)
  BY DEF IsAccount
<1>3. s \in DOMAIN P => P[s].side \in Sides /\ P[s].size \in Nat /\ P[s].entry \in Int
  <2>1. s \in DOMAIN P => P[s] \in Position
    BY <1>2, MapDomain
  <2> QED
    BY <2>1 DEF Position
<1>4. CASE Adds(acc, e)
  <2>1. s \in DOMAIN P
    BY <1>4 DEF Adds, Held
  <2>2. Average(P[s], e) \in Int /\ P[s].size + e.quantity \in Nat
    <3>1. P[s].size * P[s].entry + e.quantity * e.price \in Int
      BY <1>1, <1>3, <2>1
    <3>2. P[s].size + e.quantity \in Nat \ {0}
      BY <1>1, <1>3, <2>1
    <3> QED
      BY <3>1, <3>2 DEF Average
  <2>3. [side |-> e.side, size |-> P[s].size + e.quantity, entry |-> Average(P[s], e)]
          \in Position
    BY <1>1, <2>2 DEF Position
  <2> QED
    BY <1>1, <1>2, <1>4, <2>3, PutIsMap DEF FilledPositions
<1>5. CASE Reduces(acc, e)
  <2>1. s \in DOMAIN P /\ ~Adds(acc, e) /\ e.type = "fill"
    BY <1>5 DEF Adds, Reduces, Held, Fill
  <2>2. e.quantity <= P[s].size
    BY <1>1, <1>3, <1>5, <2>1 DEF Refused, Oversized
  <2>3. [P[s] EXCEPT !.size = @ - e.quantity] \in Position
    <3>1. P[s] \in Position
      BY <1>2, <2>1, MapDomain
    <3> QED
      BY <1>1, <1>3, <2>1, <2>2, <3>1 DEF Position
  <2>4. IsMap([P EXCEPT ![s] = [P[s] EXCEPT !.size = @ - e.quantity]], Symbols, Position)
    BY <1>2, <2>1, <2>3, ExceptIsMap
  <2>5. [P EXCEPT ![s].size = @ - e.quantity]
          = [P EXCEPT ![s] = [P[s] EXCEPT !.size = @ - e.quantity]]
    OBVIOUS
  <2>6. IsMap(Remove(P, s), Symbols, Position)
    BY <1>2, RemoveIsMap
  <2> QED
    BY <1>5, <2>1, <2>4, <2>5, <2>6 DEF FilledPositions
<1>6. CASE ~Adds(acc, e) /\ ~Reduces(acc, e)
  <2>1. [side |-> e.side, size |-> e.quantity, entry |-> e.price] \in Position
    BY <1>1 DEF Position
  <2> QED
    BY <1>1, <1>2, <1>6, <2>1, PutIsMap DEF FilledPositions
<1> QED
  BY <1>4, <1>5, <1>6

LEMMA FilledOrdersType ==
  ASSUME NEW acc, IsAccount(acc), NEW e \in Fill
  PROVE  IsMap(FilledOrders(acc, e), OrderIds, Order)
<1> DEFINE o == e.order  O == acc.orders
<1>1. IsMap(O, OrderIds, Order)
  BY DEF IsAccount
<1>2. CASE o \notin DOMAIN O
  BY <1>1, <1>2 DEF FilledOrders
<1>3. CASE o \in DOMAIN O
  <2>1. O[o] \in Order
    BY <1>1, <1>3, MapDomain
  <2>2. [O[o] EXCEPT !.filled = @ + e.quantity] \in Order
    BY <2>1 DEF Order, Fill
  <2>3. IsMap([O EXCEPT ![o] = [O[o] EXCEPT !.filled = @ + e.quantity]], OrderIds, Order)
    BY <1>1, <1>3, <2>2, ExceptIsMap
  <2>4. [O EXCEPT ![o].filled = @ + e.quantity]
          = [O EXCEPT ![o] = [O[o] EXCEPT !.filled = @ + e.quantity]]
    OBVIOUS
  <2>5. IsMap(Remove(O, o), OrderIds, Order)
    BY <1>1, RemoveIsMap
  <2> QED
    BY <1>3, <2>3, <2>4, <2>5 DEF FilledOrders
<1> QED
  BY <1>2, <1>3

\* The buffer of fills keeps its type and its bound when a fill is added.
LEMMA LatestType ==
  ASSUME NEW T, NEW fills \in Seq(T), NEW x \in T
  PROVE  /\ Latest(Append(fills, x)) \in Seq(T)
         /\ Len(Latest(Append(fills, x))) <= MaxRecentFills
<1> DEFINE f == Append(fills, x)
<1>1. f \in Seq(T) /\ Len(f) \in Nat
  OBVIOUS
<1> HIDE DEF f
<1>2. MaxRecentFills \in Nat \ {0}
  BY AccountAssumption
<1>3. CASE Len(f) > MaxRecentFills
  <2>1. Len(f) - MaxRecentFills + 1 \in 1 .. Len(f)
    BY <1>1, <1>2, <1>3
  <2>2. /\ SubSeq(f, Len(f) - MaxRecentFills + 1, Len(f)) \in Seq(T)
        /\ Len(SubSeq(f, Len(f) - MaxRecentFills + 1, Len(f))) = MaxRecentFills
    BY <1>1, <1>2, <2>1
  <2> QED
    BY <1>2, <1>3, <2>2 DEF Latest, f
<1>4. CASE ~(Len(f) > MaxRecentFills)
  BY <1>1, <1>2, <1>4 DEF Latest, f
<1> QED
  BY <1>3, <1>4

\* A recorded fill carries its own intent or one of the account's.
LEMMA IntentType ==
  ASSUME NEW acc, IsAccount(acc), NEW e \in Fill
  PROVE  ResolvedIntent(acc, e) \in Intent
<1>1. IsMap(FilledOrders(acc, e), OrderIds, Order)
  BY FilledOrdersType
<1>2. \A o \in DOMAIN FilledOrders(acc, e) : FilledOrders(acc, e)[o] \in Order
  BY <1>1, MapDomain
<1> QED
  BY <1>2 DEF ResolvedIntent, Fill, Order

LEMMA FilledType ==
  ASSUME NEW acc, IsAccount(acc), NEW e \in Fill, ~Refused(acc, e)
  PROVE  IsAccount(Filled(acc, e))
<1>1. IsMap(FilledPositions(acc, e), Symbols, Position)
  BY FilledPositionsType
<1>2. IsMap(FilledOrders(acc, e), OrderIds, Order)
  BY FilledOrdersType
<1>3. Pnl(acc, e) \in Int
  <2>1. Reduces(acc, e) => acc.positions[e.symbol] \in Position
    BY MapDomain DEF IsAccount, Reduces, Held
  <2> QED
    BY <2>1 DEF Pnl, Position, Fill
<1> DEFINE x == [order |-> e.order, intent |-> ResolvedIntent(acc, e)]
           T == [order : OrderIds, intent : Intent]
<1>4. x \in T
  BY IntentType DEF Fill
<1> HIDE DEF x, T
<1>5. /\ Latest(Append(acc.fills, x)) \in Seq(T)
      /\ Len(Latest(Append(acc.fills, x))) <= MaxRecentFills
  BY <1>4, LatestType DEF IsAccount, T
<1> DEFINE f == Latest(Append(acc.fills, x))
<1> HIDE DEF f
<1>6. Filled(acc, e) = [acc EXCEPT
     !.collateral = @ - e.fee + Pnl(acc, e),
     !.realized   = @ + Pnl(acc, e),
     !.positions  = FilledPositions(acc, e),
     !.orders     = FilledOrders(acc, e),
     !.fills      = f]
  BY DEF Filled, f, x
<1>7. acc.collateral \in Int /\ acc.realized \in Int /\ e.fee \in Int
  BY DEF IsAccount, Fill
<1>8. acc.collateral - e.fee + Pnl(acc, e) \in Int /\ acc.realized + Pnl(acc, e) \in Int
  BY <1>3, <1>7
<1>9. f \in Seq(T) /\ Len(f) <= MaxRecentFills
  BY <1>5 DEF f
<1> QED
  BY <1>1, <1>2, <1>6, <1>8, <1>9 DEF IsAccount, New, T

\* apply keeps the account an account when it does not refuse.
LEMMA AppliedType ==
  ASSUME NEW acc, IsAccount(acc), NEW e, IsEvent(e), ~Refused(acc, e)
  PROVE  IsAccount(Applied(acc, e))
<1>1. CASE e \in Placed
  <2> DEFINE order == [quantity |-> e.quantity, filled |-> 0, intent |-> e.intent]
  <2>1. order \in Order /\ e.order \in OrderIds
    BY <1>1 DEF Placed, Order
  <2>2. IsMap(Put(acc.orders, e.order, order), OrderIds, Order)
    BY <2>1, PutIsMap DEF IsAccount
  <2>3. Applied(acc, e) = [acc EXCEPT !.orders = Put(acc.orders, e.order, order)]
    BY <1>1 DEF Applied, Placed
  <2> HIDE DEF order
  <2> QED
    BY <2>2, <2>3 DEF IsAccount, New
<1>2. CASE e \in Cancelled
  <2>1. IsMap(Remove(acc.orders, e.order), OrderIds, Order)
    BY RemoveIsMap DEF IsAccount
  <2>2. Applied(acc, e) = [acc EXCEPT !.orders = Remove(acc.orders, e.order)]
    BY <1>2 DEF Applied, Cancelled
  <2> QED
    BY <2>1, <2>2 DEF IsAccount, New
<1>3. CASE e \in Fill
  <2>1. Applied(acc, e) = Filled(acc, e)
    BY <1>3 DEF Applied, Fill
  <2> QED
    BY <1>3, <2>1, FilledType
<1>4. CASE e \in Cash
  <2>1. acc.collateral \in Int /\ acc.funding \in Int /\ e.amount \in Int
    BY <1>4 DEF IsAccount, Cash
  <2>2. CASE e.type = "funding"
    <3>1. Applied(acc, e) = [acc EXCEPT !.collateral = @ + e.amount, !.funding = @ + e.amount]
      BY <2>2 DEF Applied
    <3>2. acc.collateral + e.amount \in Int /\ acc.funding + e.amount \in Int
      BY <2>1
    <3> QED
      BY <3>1, <3>2 DEF IsAccount, New
  <2>3. CASE e.type = "deposit"
    <3>1. Applied(acc, e) = [acc EXCEPT !.collateral = @ + e.amount]
      BY <2>3 DEF Applied
    <3>2. acc.collateral + e.amount \in Int
      BY <2>1
    <3> QED
      BY <3>1, <3>2 DEF IsAccount, New
  <2>4. CASE e.type = "withdraw"
    <3>1. Applied(acc, e) = [acc EXCEPT !.collateral = @ - e.amount]
      BY <2>4 DEF Applied
    <3>2. acc.collateral - e.amount \in Int
      BY <2>1
    <3> QED
      BY <3>1, <3>2 DEF IsAccount, New
  <2> QED
    BY <1>4, <2>2, <2>3, <2>4 DEF Cash
<1>5. CASE e \in Spot
  <2>1. Applied(acc, e) = [acc EXCEPT !.spot = e.balances] /\ e.balances \in Nat
    BY <1>5 DEF Applied, Spot
  <2> QED
    BY <2>1 DEF IsAccount, New
<1>6. CASE IsSnapshot(e)
  <2>1. Applied(acc, e) =
          [acc EXCEPT !.collateral = e.collateral, !.positions = e.positions,
                      !.orders = e.orders]
    BY <1>6 DEF Applied, IsSnapshot
  <2> QED
    BY <1>6, <2>1 DEF IsSnapshot, IsAccount, New
<1> QED
  BY <1>1, <1>2, <1>3, <1>4, <1>5, <1>6 DEF IsEvent

-----------------------------------------------------------------------------
(* Events under way. *)

IsSeq(s) == \E S : s \in Seq(S)

\* The accounts t readers could load tell, from the back, what the events under way
\* will make of the consumer's account r on the way to the engine's account s.
UnderWay(t, p, r, s) ==
  /\ IsSeq(t)
  /\ p \in Seq(Inputs)
  /\ Len(t) > Len(p)
  /\ s = t[Len(t)]
  /\ r = t[Len(t) - Len(p)]
  /\ \A k \in 1 .. Len(p) :
       /\ ~Refused(t[Len(t) - Len(p) + k - 1], p[k])
       /\ t[Len(t) - Len(p) + k] = Applied(t[Len(t) - Len(p) + k - 1], p[k])

AccountInv == TypeOK /\ UnderWay(trail, queue \o sending, replica, state)

LEMMA AppendIsSeq ==
  ASSUME NEW s, IsSeq(s), NEW x
  PROVE  /\ IsSeq(Append(s, x))
         /\ Len(s) \in Nat
         /\ Len(Append(s, x)) = Len(s) + 1
         /\ \A k \in 1 .. Len(s) : Append(s, x)[k] = s[k]
         /\ Append(s, x)[Len(s) + 1] = x
<1>1. PICK S : s \in Seq(S)
  BY DEF IsSeq
<1>2. Len(s) \in Nat /\ s \in [1 .. Len(s) -> S]
  BY <1>1
<1>3. s \in [1 .. Len(s) -> S \cup {x}]
  BY <1>2
<1>4. s \in Seq(S \cup {x})
  BY <1>2, <1>3, SeqDef
<1> DEFINE T == S \cup {x}
<1>5. s \in Seq(T) /\ x \in T
  BY <1>4
<1> HIDE DEF T
<1>6. Append(s, x) \in Seq(T)
  BY <1>5
<1> QED
  BY <1>2, <1>5, <1>6 DEF IsSeq

LEMMA AcceptedUnderWay ==
  ASSUME NEW t, NEW p, NEW r, NEW s, UnderWay(t, p, r, s),
         NEW e \in Inputs, ~Refused(s, e)
  PROVE  UnderWay(Append(t, Applied(s, e)), Append(p, e), r, Applied(s, e))
<1> DEFINE x == Applied(s, e)  u == Append(t, x)  q == Append(p, e)
<1>1. /\ IsSeq(u) /\ Len(t) \in Nat /\ Len(u) = Len(t) + 1 /\ u[Len(t) + 1] = x
      /\ \A k \in 1 .. Len(t) : u[k] = t[k]
  BY AppendIsSeq DEF UnderWay
<1>2. /\ q \in Seq(Inputs) /\ Len(p) \in Nat /\ Len(q) = Len(p) + 1
      /\ q[Len(p) + 1] = e
      /\ \A k \in 1 .. Len(p) : q[k] = p[k]
  BY DEF UnderWay
<1>3. Len(t) > Len(p) /\ s = t[Len(t)] /\ r = t[Len(t) - Len(p)]
  BY DEF UnderWay
<1> HIDE DEF x, u, q
<1>4. Len(u) > Len(q) /\ x = u[Len(u)] /\ r = u[Len(u) - Len(q)]
  BY <1>1, <1>2, <1>3
<1>5. ASSUME NEW k \in 1 .. Len(q)
      PROVE  /\ ~Refused(u[Len(u) - Len(q) + k - 1], q[k])
             /\ u[Len(u) - Len(q) + k] = Applied(u[Len(u) - Len(q) + k - 1], q[k])
  <2>1. CASE k = Len(q)
    <3>1. /\ Len(u) - Len(q) + k - 1 = Len(t) /\ Len(u) - Len(q) + k = Len(t) + 1
          /\ q[k] = e /\ u[Len(t)] = s
      BY <1>1, <1>2, <1>3, <2>1
    <3> QED
      BY <1>1, <3>1 DEF x
  <2>2. CASE k # Len(q)
    <3>1. /\ k \in 1 .. Len(p)
          /\ Len(u) - Len(q) + k - 1 = Len(t) - Len(p) + k - 1
          /\ Len(u) - Len(q) + k = Len(t) - Len(p) + k
          /\ Len(t) - Len(p) + k - 1 \in 1 .. Len(t)
          /\ Len(t) - Len(p) + k \in 1 .. Len(t)
      BY <1>1, <1>2, <1>3, <2>2
    <3>2. /\ ~Refused(t[Len(t) - Len(p) + k - 1], p[k])
          /\ t[Len(t) - Len(p) + k] = Applied(t[Len(t) - Len(p) + k - 1], p[k])
      BY <3>1 DEF UnderWay
    <3>3. /\ u[Len(t) - Len(p) + k - 1] = t[Len(t) - Len(p) + k - 1]
          /\ u[Len(t) - Len(p) + k] = t[Len(t) - Len(p) + k]
          /\ q[k] = p[k]
      BY <1>1, <1>2, <3>1
    <3> QED
      BY <3>1, <3>2, <3>3
  <2> QED
    BY <2>1, <2>2
<1> QED
  BY <1>1, <1>2, <1>4, <1>5 DEF UnderWay, x, u, q

LEMMA ReceivedUnderWay ==
  ASSUME NEW t, NEW p, NEW r, NEW s, UnderWay(t, p, r, s), p # <<>>
  PROVE  /\ ~Refused(r, Head(p))
         /\ UnderWay(t, Tail(p), Applied(r, Head(p)), s)
<1>1. /\ p \in Seq(Inputs) /\ Len(p) \in Nat \ {0} /\ Head(p) = p[1]
      /\ Tail(p) \in Seq(Inputs) /\ Len(Tail(p)) = Len(p) - 1
      /\ \A k \in 1 .. Len(p) - 1 : Tail(p)[k] = p[k + 1]
  BY DEF UnderWay
<1>2. Len(t) \in Nat /\ Len(t) > Len(p) /\ r = t[Len(t) - Len(p)]
  BY DEF UnderWay, IsSeq
<1>3. /\ ~Refused(t[Len(t) - Len(p)], p[1])
      /\ t[Len(t) - Len(p) + 1] = Applied(t[Len(t) - Len(p)], p[1])
  <2>1. /\ 1 \in 1 .. Len(p)
        /\ Len(t) - Len(p) + 1 - 1 = Len(t) - Len(p)
    BY <1>1, <1>2
  <2> QED
    BY <2>1 DEF UnderWay
<1> DEFINE q == Tail(p)
<1>4. Len(t) - Len(q) = Len(t) - Len(p) + 1
  BY <1>1, <1>2
<1>5. ASSUME NEW k \in 1 .. Len(q)
      PROVE  /\ ~Refused(t[Len(t) - Len(q) + k - 1], q[k])
             /\ t[Len(t) - Len(q) + k] = Applied(t[Len(t) - Len(q) + k - 1], q[k])
  <2>1. /\ k + 1 \in 1 .. Len(p) /\ q[k] = p[k + 1]
        /\ Len(t) - Len(q) + k - 1 = Len(t) - Len(p) + (k + 1) - 1
        /\ Len(t) - Len(q) + k = Len(t) - Len(p) + (k + 1)
    BY <1>1, <1>2
  <2>2. /\ ~Refused(t[Len(t) - Len(p) + (k + 1) - 1], p[k + 1])
        /\ t[Len(t) - Len(p) + (k + 1)] =
             Applied(t[Len(t) - Len(p) + (k + 1) - 1], p[k + 1])
    BY <2>1 DEF UnderWay
  <2> QED
    BY <2>1, <2>2
<1>6. Len(t) > Len(q)
  BY <1>1, <1>2
<1>7. IsSeq(t) /\ s = t[Len(t)]
  BY DEF UnderWay
<1> HIDE DEF q
<1>8. q \in Seq(Inputs) /\ Applied(r, Head(p)) = t[Len(t) - Len(q)]
  BY <1>1, <1>2, <1>3, <1>4 DEF q
<1>9. UnderWay(t, q, Applied(r, Head(p)), s)
  BY <1>5, <1>6, <1>7, <1>8 DEF UnderWay
<1> QED
  BY <1>1, <1>2, <1>3, <1>9 DEF q

-----------------------------------------------------------------------------
(* The invariant. *)

LEMMA SendingIsSeq == TypeOK => sending \in Seq(Inputs)
<1> SUFFICES ASSUME TypeOK PROVE sending \in Seq(Inputs)
  OBVIOUS
<1>1. CASE sending = <<>>
  BY <1>1
<1>2. ASSUME NEW e \in Inputs, sending = <<e>> PROVE sending \in Seq(Inputs)
  <2>1. <<e>> \in Seq(Inputs)
    OBVIOUS
  <2> QED
    BY <1>2, <2>1
<1>3. sending = <<>> \/ \E e \in Inputs : sending = <<e>>
  BY DEF TypeOK
<1> QED
  BY <1>1, <1>2, <1>3

LEMMA InitAccountInv == Init => AccountInv
<1> SUFFICES ASSUME Init PROVE AccountInv
  OBVIOUS
<1>1. TypeOK
  BY NewIsAccount, EngineAssumption DEF Init, TypeOK
<1>2. <<New>> \in Seq({New}) /\ queue \o sending = <<>> /\ Len(<<New>>) = 1
  BY DEF Init
<1>3. UnderWay(<<New>>, <<>>, New, New)
  <2>1. IsSeq(<<New>>)
    BY <1>2 DEF IsSeq
  <2> QED
    BY <2>1 DEF UnderWay
<1> QED
  BY <1>1, <1>2, <1>3 DEF AccountInv, Init

LEMMA AcceptKeepsInv ==
  ASSUME AccountInv, NEW e \in Inputs, Accept(e)
  PROVE  AccountInv'
<1>1. /\ IsAccount(state) /\ IsAccount(replica) /\ queue \in Seq(Inputs)
      /\ offered \in 0 .. MaxEvents
      /\ \A k \in DOMAIN trail : IsAccount(trail[k])
  BY DEF AccountInv, TypeOK
<1>2. /\ sending = <<>> /\ offered < MaxEvents /\ offered' = offered + 1
      /\ ~Refused(state, e) /\ state' = Applied(state, e)
      /\ trail' = Append(trail, state') /\ sending' = <<e>>
      /\ queue' = queue /\ replica' = replica
  BY DEF Accept, Offer
<1>3. IsAccount(Applied(state, e))
  BY <1>1, <1>2, AppliedType, EngineAssumption
<1>4. /\ queue \o sending = queue
      /\ queue' \o sending' = Append(queue, e)
  BY <1>1, <1>2
<1>5. UnderWay(trail', queue' \o sending', replica', state')
  <2>1. UnderWay(trail, queue, replica, state)
    BY <1>4 DEF AccountInv
  <2> QED
    BY <1>2, <1>4, <2>1, AcceptedUnderWay
<1>6. TypeOK'
  <2>1. offered' \in 0 .. MaxEvents
    BY <1>1, <1>2, EngineAssumption
  <2>2. trail' # <<>> /\ \A k \in DOMAIN trail' : IsAccount(trail'[k])
    <3>1. IsSeq(trail)
      BY DEF AccountInv, UnderWay
    <3>2. /\ IsSeq(trail') /\ Len(trail) \in Nat /\ Len(trail') = Len(trail) + 1
          /\ trail'[Len(trail) + 1] = state'
          /\ \A k \in 1 .. Len(trail) : trail'[k] = trail[k]
      BY <1>2, <3>1, AppendIsSeq
    <3>3. DOMAIN trail = 1 .. Len(trail) /\ DOMAIN trail' = 1 .. Len(trail) + 1
      BY <3>1, <3>2 DEF IsSeq
    <3>4. ASSUME NEW k \in DOMAIN trail' PROVE IsAccount(trail'[k])
      <4>1. CASE k = Len(trail) + 1
        BY <1>2, <1>3, <3>2, <4>1
      <4>2. CASE k # Len(trail) + 1
        BY <1>1, <3>2, <3>3, <4>2
      <4> QED
        BY <4>1, <4>2
    <3> QED
      BY <3>2, <3>4
  <2> QED
    BY <1>1, <1>2, <1>3, <2>1, <2>2 DEF TypeOK
<1> QED
  BY <1>5, <1>6 DEF AccountInv

LEMMA ReceiveKeepsInv ==
  ASSUME AccountInv, Receive
  PROVE  AccountInv'
<1> DEFINE p == queue \o sending
<1>1. /\ IsAccount(replica) /\ queue \in Seq(Inputs)
      /\ sending \in {<<>>} \cup {<<e>> : e \in Inputs}
  BY DEF AccountInv, TypeOK
<1>2. sending \in Seq(Inputs)
  BY SendingIsSeq DEF AccountInv
<1>3. /\ queue # <<>> /\ queue' = Tail(queue) /\ sending' = sending
      /\ replica' = Replay(replica, Head(queue))
      /\ state' = state /\ trail' = trail /\ offered' = offered
  BY DEF Receive
<1>4. /\ p # <<>> /\ Head(p) = Head(queue) /\ Tail(p) = queue' \o sending'
      /\ Head(queue) \in Inputs /\ Tail(queue) \in Seq(Inputs)
  <2>1. Len(queue) \in Nat \ {0} /\ Len(sending) \in Nat
    BY <1>1, <1>2, <1>3
  <2>2. /\ p \in Seq(Inputs) /\ Len(p) = Len(queue) + Len(sending)
        /\ \A k \in 1 .. Len(p) :
             p[k] = IF k <= Len(queue) THEN queue[k] ELSE sending[k - Len(queue)]
    BY <1>1, <1>2, <2>1
  <2>3. Head(p) = Head(queue) /\ Head(queue) \in Inputs /\ Tail(queue) \in Seq(Inputs)
    BY <1>1, <2>1, <2>2
  <2>4. Tail(p) = Tail(queue) \o sending
    BY <1>1, <1>2, <2>1, <2>2
  <2> QED
    BY <1>3, <2>1, <2>2, <2>3, <2>4
<1>5. /\ ~Refused(replica, Head(queue))
      /\ UnderWay(trail, queue' \o sending', Applied(replica, Head(queue)), state)
  <2>1. UnderWay(trail, p, replica, state)
    BY DEF AccountInv
  <2> HIDE DEF p
  <2>2. /\ ~Refused(replica, Head(p))
        /\ UnderWay(trail, Tail(p), Applied(replica, Head(p)), state)
    BY <1>4, <2>1, ReceivedUnderWay
  <2> QED
    BY <1>4, <2>2
<1>6. replica' = Applied(replica, Head(queue))
  BY <1>3, <1>5 DEF Replay
<1>7. IsAccount(replica')
  BY <1>1, <1>4, <1>5, <1>6, AppliedType, EngineAssumption
<1>8. TypeOK'
  BY <1>3, <1>4, <1>7 DEF AccountInv, TypeOK
<1> QED
  BY <1>3, <1>5, <1>6, <1>8 DEF AccountInv

LEMMA AccountInvStep == AccountInv /\ [Next]_vars => AccountInv'
<1> SUFFICES ASSUME AccountInv, [Next]_vars PROVE AccountInv'
  OBVIOUS
<1>1. ASSUME NEW e \in Inputs, Accept(e) PROVE AccountInv'
  BY <1>1, AcceptKeepsInv
<1>2. ASSUME NEW e \in Inputs, Drop(e) PROVE AccountInv'
  <2>1. offered' \in 0 .. MaxEvents
    BY <1>2, EngineAssumption DEF Drop, Offer, AccountInv, TypeOK
  <2> QED
    BY <1>2, <2>1 DEF Drop, AccountInv, TypeOK
<1>3. CASE Send
  <2>1. /\ queue \in Seq(Inputs) /\ sending \in {<<>>} \cup {<<e>> : e \in Inputs}
        /\ queue' = queue \o sending /\ sending' = <<>>
        /\ state' = state /\ replica' = replica /\ offered' = offered /\ trail' = trail
    BY <1>3 DEF Send, AccountInv, TypeOK
  <2>2. sending \in Seq(Inputs)
    BY SendingIsSeq DEF AccountInv
  <2>3. queue' \in Seq(Inputs) /\ queue' \o sending' = queue \o sending
    BY <2>1, <2>2
  <2>4. UnderWay(trail', queue' \o sending', replica', state')
    BY <2>1, <2>3 DEF AccountInv
  <2>5. TypeOK'
    BY <2>1, <2>3 DEF AccountInv, TypeOK
  <2> QED
    BY <2>4, <2>5 DEF AccountInv
<1>4. CASE Receive
  BY <1>4, ReceiveKeepsInv
<1>5. CASE UNCHANGED vars
  BY <1>5 DEF vars, AccountInv, TypeOK
<1> QED
  BY <1>1, <1>2, <1>3, <1>4, <1>5 DEF Next

\* State, replica and every account that readers could load are accounts: maps stay
\* maps, amounts numbers, the buffer of fills within MAX_RECENT_FILLS (apply).
THEOREM AccountTypeCorrect == Spec => []TypeOK
<1>1. AccountInv => TypeOK
  BY DEF AccountInv
<1> QED
  BY <1>1, InitAccountInv, AccountInvStep, PTL DEF Spec

\* The consumer's account is the one readers could load after just the events it has
\* received, whatever is refused and wherever the sender and the consumer are
\* (process, from_events).
THEOREM ReplicaCorrect == Spec => []ReplicaFollows
<1>1. AccountInv => ReplicaFollows
  <2> SUFFICES ASSUME AccountInv PROVE ReplicaFollows
    OBVIOUS
  <2>1. queue \in Seq(Inputs) /\ sending \in Seq(Inputs)
    BY SendingIsSeq DEF AccountInv, TypeOK
  <2>2. Len(queue \o sending) = Len(queue) + Len(sending)
    BY <2>1
  <2>3. IsSeq(trail) /\ replica = trail[Len(trail) - Len(queue \o sending)]
    BY DEF AccountInv, UnderWay
  <2>4. Len(trail) - Len(queue \o sending) = Len(trail) - Len(queue) - Len(sending)
    BY <2>1, <2>2, <2>3 DEF IsSeq
  <2> QED
    BY <2>3, <2>4 DEF ReplicaFollows
<1> QED
  BY <1>1, InitAccountInv, AccountInvStep, PTL DEF Spec

-----------------------------------------------------------------------------
(* Nothing spent remains. *)

Unspent(acc) ==
  /\ \A s \in DOMAIN acc.positions : acc.positions[s].size > 0
  /\ \A o \in DOMAIN acc.orders : acc.orders[o].filled < acc.orders[o].quantity

LEMMA UnspentPositions ==
  ASSUME NEW acc, IsAccount(acc), Unspent(acc), NEW e \in Fill, ~Refused(acc, e)
  PROVE  \A s \in DOMAIN FilledPositions(acc, e) : FilledPositions(acc, e)[s].size > 0
<1> DEFINE s == e.symbol  P == acc.positions
<1>1. /\ e.quantity \in Nat \ {0} /\ e.type = "fill"
      /\ \A t \in DOMAIN P : P[t] \in Position /\ P[t].size \in Nat /\ P[t].size > 0
  <2>1. \A t \in DOMAIN P : P[t] \in Position
    BY MapDomain DEF IsAccount
  <2> QED
    BY <2>1 DEF Fill, Unspent, Position
<1>2. CASE Adds(acc, e)
  <2>1. P[s].size + e.quantity > 0
    BY <1>1, <1>2 DEF Adds, Held
  <2>2. FilledPositions(acc, e)
          = Put(P, s, [side |-> e.side, size |-> P[s].size + e.quantity,
                       entry |-> Average(P[s], e)])
    BY <1>2 DEF FilledPositions
  <2> QED
    BY <1>1, <2>1, <2>2 DEF Put
<1>3. CASE Reduces(acc, e)
  <2>1. s \in DOMAIN P /\ ~Adds(acc, e)
    BY <1>3 DEF Reduces, Adds, Held
  <2>2. CASE e.quantity = P[s].size
    <3>1. FilledPositions(acc, e) = Remove(P, s)
      BY <1>3, <2>1, <2>2 DEF FilledPositions
    <3> QED
      BY <1>1, <3>1 DEF Remove, Restrict
  <2>3. CASE e.quantity # P[s].size
    <3>1. P[s].size - e.quantity > 0
      BY <1>1, <1>3, <2>1, <2>3 DEF Refused, Oversized
    <3>2. FilledPositions(acc, e) = [P EXCEPT ![s].size = @ - e.quantity]
      BY <1>3, <2>1, <2>3 DEF FilledPositions
    <3>3. DOMAIN FilledPositions(acc, e) = DOMAIN P
      BY <3>2
    <3>4. \A t \in DOMAIN P : t # s => FilledPositions(acc, e)[t] = P[t]
      BY <3>2
    <3>5. FilledPositions(acc, e)[s].size = P[s].size - e.quantity
      <4>1. P[s] \in Position
        BY <1>1, <2>1
      <4> QED
        BY <2>1, <3>2, <4>1 DEF Position
    <3> QED
      BY <1>1, <3>1, <3>3, <3>4, <3>5
  <2> QED
    BY <2>2, <2>3
<1>4. CASE ~Adds(acc, e) /\ ~Reduces(acc, e)
  <2>1. FilledPositions(acc, e)
          = Put(P, s, [side |-> e.side, size |-> e.quantity, entry |-> e.price])
    BY <1>4 DEF FilledPositions
  <2> QED
    BY <1>1, <2>1 DEF Put
<1> QED
  BY <1>2, <1>3, <1>4

LEMMA UnspentOrders ==
  ASSUME NEW acc, IsAccount(acc), Unspent(acc), NEW e \in Fill
  PROVE  \A o \in DOMAIN FilledOrders(acc, e) :
           FilledOrders(acc, e)[o].filled < FilledOrders(acc, e)[o].quantity
<1> DEFINE i == e.order  O == acc.orders  F == FilledOrders(acc, e)
<1>1. /\ e.quantity \in Nat
      /\ \A o \in DOMAIN O : O[o] \in Order
      /\ \A o \in DOMAIN O : O[o].filled < O[o].quantity
  <2>1. \A o \in DOMAIN O : O[o] \in Order
    BY MapDomain DEF IsAccount
  <2> QED
    BY <2>1 DEF Fill, Unspent
<1>2. CASE i \notin DOMAIN O
  BY <1>1, <1>2 DEF FilledOrders
<1>3. CASE i \in DOMAIN O /\ O[i].filled + e.quantity >= O[i].quantity
  <2>1. F = Remove(O, i)
    BY <1>3 DEF FilledOrders
  <2> QED
    BY <1>1, <2>1 DEF Remove, Restrict
<1>4. CASE i \in DOMAIN O /\ ~(O[i].filled + e.quantity >= O[i].quantity)
  <2>1. F = [O EXCEPT ![i].filled = @ + e.quantity]
    BY <1>4 DEF FilledOrders
  <2>2. O[i] \in Order
    BY <1>1, <1>4
  <2>3. F[i].filled = O[i].filled + e.quantity /\ F[i].quantity = O[i].quantity
    BY <1>4, <2>1, <2>2 DEF Order
  <2>4. O[i].filled \in Nat /\ O[i].quantity \in Nat
    BY <2>2 DEF Order
  <2>5. DOMAIN F = DOMAIN O /\ \A o \in DOMAIN O : o # i => F[o] = O[o]
    BY <2>1
  <2>6. F[i].filled < F[i].quantity
    BY <1>1, <1>4, <2>3, <2>4
  <2> HIDE DEF F
  <2>7. ASSUME NEW o \in DOMAIN F PROVE F[o].filled < F[o].quantity
    <3>1. CASE o = i
      BY <2>6, <3>1
    <3>2. CASE o # i
      BY <1>1, <2>5, <2>7, <3>2
    <3> QED
      BY <3>1, <3>2
  <2> QED
    BY <2>7 DEF F
<1> QED
  BY <1>2, <1>3, <1>4

LEMMA UnspentApplied ==
  ASSUME NEW acc, IsAccount(acc), Unspent(acc), NEW e, IsEvent(e), ~Refused(acc, e)
  PROVE  Unspent(Applied(acc, e))
<1>1. CASE e \in Placed
  <2> DEFINE order == [quantity |-> e.quantity, filled |-> 0, intent |-> e.intent]
  <2>1. Applied(acc, e) = [acc EXCEPT !.orders = Put(acc.orders, e.order, order)]
    BY <1>1 DEF Applied, Placed
  <2>2. Applied(acc, e).positions = acc.positions
        /\ Applied(acc, e).orders = Put(acc.orders, e.order, order)
    BY <2>1 DEF IsAccount, New
  <2>3. order.filled < order.quantity
    BY <1>1 DEF Placed
  <2> HIDE DEF order
  <2>4. \A o \in DOMAIN Put(acc.orders, e.order, order) :
          Put(acc.orders, e.order, order)[o].filled < Put(acc.orders, e.order, order)[o].quantity
    BY <2>3 DEF Put, Unspent
  <2> QED
    BY <2>2, <2>4 DEF Unspent
<1>2. CASE e \in Cancelled
  <2>1. Applied(acc, e) = [acc EXCEPT !.orders = Remove(acc.orders, e.order)]
    BY <1>2 DEF Applied, Cancelled
  <2>2. Applied(acc, e).positions = acc.positions
        /\ Applied(acc, e).orders = Remove(acc.orders, e.order)
    BY <2>1 DEF IsAccount, New
  <2> QED
    BY <2>2 DEF Unspent, Remove, Restrict
<1>3. CASE e \in Fill
  <2>1. Applied(acc, e) = Filled(acc, e)
    BY <1>3 DEF Applied, Fill
  <2>2. Filled(acc, e).positions = FilledPositions(acc, e)
        /\ Filled(acc, e).orders = FilledOrders(acc, e)
    BY DEF Filled, IsAccount, New
  <2> QED
    BY <1>3, <2>1, <2>2, UnspentPositions, UnspentOrders DEF Unspent
<1>4. CASE e \in Cash \cup Spot
  <2>1. Applied(acc, e).positions = acc.positions /\ Applied(acc, e).orders = acc.orders
    BY <1>4 DEF Applied, Cash, Spot, IsAccount, New
  <2> QED
    BY <2>1 DEF Unspent
<1>5. CASE IsSnapshot(e)
  <2>1. Applied(acc, e).positions = e.positions /\ Applied(acc, e).orders = e.orders
    BY <1>5 DEF Applied, IsSnapshot, IsAccount, New
  <2> QED
    BY <1>5, <2>1 DEF Unspent, IsSnapshot
<1> QED
  BY <1>1, <1>2, <1>3, <1>4, <1>5 DEF IsEvent

\* No position is ever empty and no open order ever filled, whatever the events and
\* their order (apply).
THEOREM NothingSpentCorrect == Spec => []NothingSpent
<1>1. NothingSpent <=> Unspent(state)
  BY DEF NothingSpent, Unspent
<1>2. Init => Unspent(state)
  BY DEF Init, Unspent, New, Nothing
<1>3. AccountInv /\ Unspent(state) /\ [Next]_vars => Unspent(state)'
  <2> SUFFICES ASSUME AccountInv, Unspent(state), [Next]_vars PROVE Unspent(state')
    OBVIOUS
  <2>1. ASSUME NEW e \in Inputs, Accept(e) PROVE Unspent(state')
    BY <2>1, UnspentApplied, EngineAssumption DEF Accept, AccountInv, TypeOK
  <2>2. (\E e \in Inputs : Drop(e)) \/ Send \/ Receive \/ UNCHANGED vars => state' = state
    BY DEF Drop, Send, Receive, vars
  <2> QED
    BY <2>1, <2>2 DEF Next
<1> QED
  BY <1>1, <1>2, <1>3, InitAccountInv, AccountInvStep, PTL DEF Spec

-----------------------------------------------------------------------------
(* reconcile *)

\* The ghost test, by size, is the test of signed sizes against nothing.
LEMMA NoDiffs ==
  ASSUME NEW acc, IsAccount(acc), NEW report, IsReport(report)
  PROVE  PositionDiffs(acc, report) = {} <=>
           \A s \in Symbols : SignedSize(acc, s) =
             IF s \in DOMAIN report.sizes THEN report.sizes[s] ELSE 0
<1>1. DOMAIN report.sizes \subseteq Symbols /\ DOMAIN acc.positions \subseteq Symbols
  BY MapDomain DEF IsReport, IsAccount
<1>2. \A s \in DOMAIN acc.positions : SignedSize(acc, s) = 0 <=> acc.positions[s].size = 0
  <2>1. \A s \in DOMAIN acc.positions : acc.positions[s] \in Position
    BY MapDomain DEF IsAccount
  <2>2. \A s \in DOMAIN acc.positions : acc.positions[s].size \in Nat
    BY <2>1 DEF Position
  <2> QED
    BY <2>2 DEF SignedSize, Signed
<1>3. \A s \in Symbols : s \notin DOMAIN acc.positions => SignedSize(acc, s) = 0
  BY DEF SignedSize
<1>4. PositionDiffs(acc, report) = {} <=>
        /\ \A s \in DOMAIN report.sizes : SignedSize(acc, s) = report.sizes[s]
        /\ \A s \in DOMAIN acc.positions \ DOMAIN report.sizes : acc.positions[s].size = 0
  BY DEF PositionDiffs
<1> QED
  BY <1>1, <1>2, <1>3, <1>4

\* reconcile finds nothing exactly when collateral, every signed position and the
\* exchange's orders are what this side has.
THEOREM ReconcileCorrect == Spec => []ReconcileTells
<1>1. AccountInv => ReconcileTells
  <2> SUFFICES ASSUME AccountInv, NEW report \in Reports
               PROVE  Reconciled(state, report) <=>
                        /\ state.collateral = report.collateral
                        /\ \A s \in Symbols : SignedSize(state, s) =
                             IF s \in DOMAIN report.sizes THEN report.sizes[s] ELSE 0
                        /\ report.orders \subseteq DOMAIN state.orders
    BY DEF ReconcileTells
  <2>1. IsAccount(state) /\ IsReport(report)
    BY EngineAssumption DEF AccountInv, TypeOK
  <2>2. UnknownOrders(state, report) = {} <=> report.orders \subseteq DOMAIN state.orders
    BY DEF UnknownOrders
  <2> QED
    BY <2>1, <2>2, NoDiffs DEF Reconciled
<1> QED
  BY <1>1, InitAccountInv, AccountInvStep, PTL DEF Spec

-----------------------------------------------------------------------------
(* A fill is fair. *)

LEMMA Division ==
  ASSUME NEW a \in Int, NEW n \in Nat \ {0}
  PROVE  /\ a \div n \in Int /\ a % n = a - n * (a \div n)
         /\ a - n * (a \div n) \in 0 .. n - 1
OBVIOUS

\* A position of which a part is sold at a price.
LEMMA SoldPart ==
  ASSUME NEW size \in Int, NEW part \in Int, NEW gain \in Int
  PROVE  (size - part) * gain + gain * part = size * gain
OBVIOUS

\* A position and what is bought of it at a price, at one entry price for both.
LEMMA BoughtMore ==
  ASSUME NEW size \in Int, NEW more \in Int, NEW price \in Int, NEW entry \in Int, NEW mean \in Int
  PROVE  (size + more) * (price - mean) - size * (price - entry)
           = (size * entry + more * price) - (size + more) * mean
OBVIOUS

LEMMA Negated ==
  ASSUME NEW x \in Int, NEW y \in Int
  PROVE  (-x) * y = -(x * y)
OBVIOUS

\* What a position of one side is worth at a price.
Worth(pos, price) == (IF pos.side = "long" THEN pos.size ELSE -pos.size) * (price - pos.entry)

LEMMA WorthIs ==
  ASSUME NEW acc, NEW s, NEW price
  PROVE  /\ s \in DOMAIN acc.positions => Unrealized(acc, s, price) = Worth(acc.positions[s], price)
         /\ s \notin DOMAIN acc.positions => Unrealized(acc, s, price) = 0
BY DEF Unrealized, Signed, Worth

LEMMA WorthBySide ==
  ASSUME NEW pos \in Position, NEW price \in Int
  PROVE  /\ pos.side = "long" => Worth(pos, price) = pos.size * (price - pos.entry)
         /\ pos.side # "long" => Worth(pos, price) = -(pos.size * (price - pos.entry))
         /\ Worth(pos, price) \in Int
<1>1. pos.size \in Int /\ price - pos.entry \in Int
  BY DEF Position
<1>2. PICK gain \in Int : gain = price - pos.entry
  BY <1>1
<1>3. (-pos.size) * gain = -(pos.size * gain) /\ pos.size * gain \in Int
  BY <1>1, Negated
<1> QED
  BY <1>2, <1>3 DEF Worth

\* To add to a position at a price leaves what it is worth there, but for the rounding.
LEMMA AddedWorth ==
  ASSUME NEW pos \in Position, NEW e \in Fill, pos.side = e.side, NEW after,
         after = [side |-> e.side, size |-> pos.size + e.quantity, entry |-> Average(pos, e)],
         NEW room \in Nat,
         Divides(pos, e) => room = 0, ~Divides(pos, e) => room = pos.size + e.quantity - 1
  PROVE  after \in Position /\ Worth(after, e.price) - Worth(pos, e.price) \in -room .. room
<1> DEFINE total == pos.size * pos.entry + e.quantity * e.price
           n == pos.size + e.quantity
           mean == total \div n
<1>1. /\ pos.size \in Nat /\ pos.entry \in Int /\ e.quantity \in Nat \ {0} /\ e.price \in Nat
      /\ pos.side \in Sides
  BY DEF Position, Fill
<1>2. total \in Int /\ n \in Nat \ {0}
  BY <1>1
<1>3. n * (e.price - mean) - pos.size * (e.price - pos.entry) = total - n * mean /\ mean \in Int
  <2>1. PICK v \in Int : v = mean
    BY <1>2, Division
  <2>2. (pos.size + e.quantity) * (e.price - v) - pos.size * (e.price - pos.entry)
          = (pos.size * pos.entry + e.quantity * e.price) - (pos.size + e.quantity) * v
    BY <1>1, BoughtMore
  <2> HIDE DEF mean
  <2> QED
    BY <2>1, <2>2
<1>4. after = [side |-> e.side, size |-> n, entry |-> mean]
  BY DEF Average
<1>5. total % n = total - n * mean /\ total - n * mean \in 0 .. n - 1
  BY <1>2, Division
<1>6. (total % n = 0 => room = 0) /\ (total % n # 0 => room = n - 1)
  <2>1. Divides(pos, e) <=> total % n = 0
    BY Zenon DEF Divides
  <2>2. (Divides(pos, e) => room = 0) /\ (~Divides(pos, e) => room = n - 1)
    BY <1>1 DEF n
  <2> HIDE DEF total, n
  <2> QED
    BY <2>1, <2>2
<1> HIDE DEF total, n, mean
<1>7. after \in Position
  BY <1>1, <1>2, <1>3, <1>4 DEF Position
<1>8. PICK old \in Int, new \in Int :
        old = pos.size * (e.price - pos.entry) /\ new = n * (e.price - mean)
  BY <1>1, <1>2, <1>3
<1>9. new - old \in 0 .. room
  BY <1>2, <1>3, <1>5, <1>6, <1>8
<1>10. /\ pos.side = "long" => Worth(pos, e.price) = old /\ Worth(after, e.price) = new
       /\ pos.side # "long" => Worth(pos, e.price) = -old /\ Worth(after, e.price) = -new
  BY <1>1, <1>4, <1>7, <1>8, WorthBySide
<1> QED
  BY <1>7, <1>8, <1>9, <1>10

\* To reduce a position at a price makes of it what was gained there.
LEMMA ReducedWorth ==
  ASSUME NEW pos \in Position, NEW e \in Fill, e.quantity <= pos.size
  PROVE  LET left == [pos EXCEPT !.size = @ - e.quantity]
             made == IF pos.side = "long" THEN (e.price - pos.entry) * e.quantity
                     ELSE (pos.entry - e.price) * e.quantity
         IN /\ left \in Position /\ made \in Int /\ Worth(left, e.price) + made = Worth(pos, e.price)
            /\ e.quantity = pos.size => Worth(left, e.price) = 0
<1> DEFINE left == [pos EXCEPT !.size = @ - e.quantity]
           made == IF pos.side = "long" THEN (e.price - pos.entry) * e.quantity
                   ELSE (pos.entry - e.price) * e.quantity
<1>1. /\ pos.size \in Nat /\ pos.entry \in Int /\ e.quantity \in Nat /\ e.price \in Nat
      /\ pos.side \in Sides
  BY DEF Position, Fill
<1>2. PICK gain \in Int : gain = e.price - pos.entry
  BY <1>1
<1>3. /\ left \in Position /\ left.side = pos.side /\ left.size = pos.size - e.quantity
      /\ left.entry = pos.entry
  BY <1>1 DEF Position
<1>4. /\ pos.side = "long" => made = gain * e.quantity
      /\ pos.side # "long" => made = -(gain * e.quantity)
  <2>1. pos.entry - e.price = -gain
    BY <1>1, <1>2
  <2>2. (-gain) * e.quantity = -(gain * e.quantity)
    BY <1>1, Negated
  <2> QED
    BY <1>2, <2>1, <2>2
<1> HIDE DEF left, made
<1>5. (pos.size - e.quantity) * gain + gain * e.quantity = pos.size * gain
  BY <1>1, SoldPart
<1>6. /\ pos.side = "long" => /\ Worth(pos, e.price) = pos.size * gain
                              /\ Worth(left, e.price) = (pos.size - e.quantity) * gain
      /\ pos.side # "long" => /\ Worth(pos, e.price) = -(pos.size * gain)
                              /\ Worth(left, e.price) = -((pos.size - e.quantity) * gain)
  BY <1>1, <1>2, <1>3, WorthBySide
<1>7. PICK x \in Int, y \in Int, z \in Int :
        /\ x = (pos.size - e.quantity) * gain /\ y = gain * e.quantity /\ z = pos.size * gain
        /\ x + y = z
  BY <1>1, <1>5
<1>8. e.quantity = pos.size => x = 0
  <2>1. 0 * gain = 0 /\ (e.quantity = pos.size => pos.size - e.quantity = 0)
    BY <1>1
  <2> QED
    BY <1>7, <2>1
<1>9. left \in Position /\ made \in Int /\ Worth(left, e.price) + made = Worth(pos, e.price)
  BY <1>3, <1>4, <1>6, <1>7
<1>10. e.quantity = pos.size => Worth(left, e.price) = 0
  BY <1>6, <1>7, <1>8
<1> QED
  BY <1>9, <1>10 DEF left, made

LEMMA FilledIsFair ==
  ASSUME NEW acc, IsAccount(acc), NEW e \in Fill, ~Refused(acc, e)
  PROVE  /\ Gained(acc, Filled(acc, e), e) + e.fee \in -Rounding(acc, e) .. Rounding(acc, e)
         /\ SignedSize(Filled(acc, e), e.symbol) = SignedSize(acc, e.symbol)
              + IF e.side = "long" THEN e.quantity ELSE -e.quantity
<1> DEFINE s == e.symbol
           P == acc.positions
           new == Filled(acc, e)
<1>1. /\ s \in Symbols /\ e.side \in Sides /\ e.price \in Nat /\ e.quantity \in Nat \ {0}
      /\ e.fee \in Int /\ e.type = "fill"
  BY DEF Fill
<1>2. /\ acc.collateral \in Int
      /\ IsMap(P, Symbols, Position)
      /\ DOMAIN acc = DOMAIN New
  BY DEF IsAccount
<1>3. s \in DOMAIN P => P[s] \in Position
  BY <1>2, MapDomain
<1>4. /\ new.collateral = acc.collateral - e.fee + Pnl(acc, e)
      /\ new.positions = FilledPositions(acc, e)
  BY <1>2 DEF Filled, New
<1> DEFINE Q == FilledPositions(acc, e)
<1>5. /\ Unrealized(new, s, e.price) = IF s \in DOMAIN Q THEN Worth(Q[s], e.price) ELSE 0
      /\ Unrealized(acc, s, e.price) = IF s \in DOMAIN P THEN Worth(P[s], e.price) ELSE 0
      /\ SignedSize(new, s) = IF s \in DOMAIN Q THEN Signed(Q[s]) ELSE 0
      /\ SignedSize(acc, s) = IF s \in DOMAIN P THEN Signed(P[s]) ELSE 0
  <2>1. new.positions = Q
    BY <1>4
  <2> HIDE DEF Q, new
  <2> QED
    BY <2>1, WorthIs DEF SignedSize
<1> DEFINE gained == Gained(acc, new, e)
           more == IF e.side = "long" THEN e.quantity ELSE -e.quantity
<1>6. gained = (new.collateral + Unrealized(new, s, e.price))
                 - (acc.collateral + Unrealized(acc, s, e.price))
  BY DEF Gained
<1> HIDE DEF new, gained
<1>7. CASE Adds(acc, e)
  <2>1. s \in DOMAIN P /\ P[s].side = e.side /\ P[s] \in Position
    BY <1>3, <1>7 DEF Adds, Held
  <2> DEFINE after == [side |-> e.side, size |-> P[s].size + e.quantity, entry |-> Average(P[s], e)]
             room == Rounding(acc, e)
  <2>2. s \in DOMAIN Q /\ Q[s] = after
    BY <1>7 DEF FilledPositions, Put
  <2>3. /\ Divides(P[s], e) => room = 0
        /\ ~Divides(P[s], e) => room = P[s].size + e.quantity - 1
        /\ room \in Nat
    <3>1. P[s].size + e.quantity - 1 \in Nat
      BY <1>1, <2>1 DEF Position
    <3>2. Divides(P[s], e) => room = 0
      BY <1>7 DEF Rounding
    <3>3. ~Divides(P[s], e) => room = P[s].size + e.quantity - 1
      BY <1>7 DEF Rounding
    <3> HIDE DEF room
    <3> QED
      BY <3>1, <3>2, <3>3
  <2>4. after \in Position /\ Worth(after, e.price) - Worth(P[s], e.price) \in -room .. room
    <3> HIDE DEF room
    <3> QED
      BY <2>1, <2>3, AddedWorth
  <2>5. Worth(after, e.price) \in Int /\ Worth(P[s], e.price) \in Int
    BY <1>1, <2>1, <2>4, WorthBySide
  <2>6. Pnl(acc, e) = 0
    BY <2>1 DEF Pnl, Reduces
  <2>7. Signed(after) = Signed(P[s]) + more
    BY <1>1, <2>1 DEF Signed, Position
  <2> HIDE DEF after, room, Q
  <2>8. gained + e.fee = Worth(after, e.price) - Worth(P[s], e.price)
    BY <1>1, <1>2, <1>4, <1>5, <1>6, <2>1, <2>2, <2>5, <2>6
  <2> QED
    BY <1>5, <2>1, <2>2, <2>4, <2>7, <2>8 DEF gained, room, new
<1>8. CASE Reduces(acc, e)
  <2>1. /\ s \in DOMAIN P /\ P[s].side # e.side /\ P[s] \in Position /\ ~Adds(acc, e)
        /\ e.quantity <= P[s].size
    <3>1. s \in DOMAIN P /\ P[s].side # e.side /\ P[s] \in Position
      BY <1>3, <1>8 DEF Reduces, Held
    <3>2. ~(e.quantity > P[s].size)
      BY <1>1, <1>8 DEF Refused, Oversized
    <3>3. P[s].size \in Nat
      BY <3>1 DEF Position
    <3> QED
      BY <1>1, <3>1, <3>2, <3>3 DEF Adds
  <2> DEFINE left == [P[s] EXCEPT !.size = @ - e.quantity]
             made == Pnl(acc, e)
  <2>2. /\ left \in Position /\ made \in Int /\ Worth(left, e.price) + made = Worth(P[s], e.price)
        /\ e.quantity = P[s].size => Worth(left, e.price) = 0
    <3>1. made = IF P[s].side = "long" THEN (e.price - P[s].entry) * e.quantity
                 ELSE (P[s].entry - e.price) * e.quantity
      BY <1>8 DEF Pnl
    <3> QED
      BY <2>1, <3>1, ReducedWorth
  <2>3. IF e.quantity = P[s].size THEN s \notin DOMAIN Q ELSE s \in DOMAIN Q /\ Q[s] = left
    <3>1. CASE e.quantity = P[s].size
      <4>1. Q = Remove(P, s)
        BY <1>8, <2>1, <3>1 DEF FilledPositions
      <4> QED
        BY <3>1, <4>1 DEF Remove, Restrict
    <3>2. CASE e.quantity # P[s].size
      <4>1. Q = [P EXCEPT ![s].size = @ - e.quantity]
        BY <1>8, <2>1, <3>2 DEF FilledPositions
      <4> QED
        BY <2>1, <3>2, <4>1
    <3> QED
      BY <3>1, <3>2
  <2>4. Worth(left, e.price) \in Int /\ Worth(P[s], e.price) \in Int
    BY <1>1, <2>1, <2>2, WorthBySide
  <2>5. Signed(left) = Signed(P[s]) + more /\ (e.quantity = P[s].size => Signed(left) = 0)
    BY <1>1, <2>1 DEF Signed, Position, Sides
  <2>6. Rounding(acc, e) = 0
    BY <2>1 DEF Rounding
  <2> HIDE DEF left, made, Q
  <2>7. /\ Unrealized(new, s, e.price) = Worth(left, e.price)
        /\ SignedSize(new, s) = Signed(left)
    BY <1>5, <2>2, <2>3, <2>5
  <2>8. new.collateral = acc.collateral - e.fee + made
    BY <1>4 DEF made
  <2>9. gained + e.fee = 0
    BY <1>1, <1>2, <1>5, <1>6, <2>1, <2>2, <2>4, <2>7, <2>8
  <2>10. gained + e.fee \in -Rounding(acc, e) .. Rounding(acc, e)
    BY <2>6, <2>9
  <2> QED
    BY <1>5, <2>1, <2>5, <2>7, <2>10 DEF gained, new
<1>9. CASE ~Adds(acc, e) /\ ~Reduces(acc, e)
  <2>1. s \notin DOMAIN P
    BY <1>9 DEF Adds, Reduces, Held
  <2> DEFINE opened == [side |-> e.side, size |-> e.quantity, entry |-> e.price]
  <2>2. s \in DOMAIN Q /\ Q[s] = opened
    BY <1>9 DEF FilledPositions, Put
  <2>3. opened \in Position /\ Worth(opened, e.price) = 0
    <3>1. e.price - e.price = 0 /\ \A n \in Int : n * 0 = 0
      BY <1>1
    <3>2. opened \in Position
      BY <1>1 DEF Position
    <3>3. (IF e.side = "long" THEN e.quantity ELSE -e.quantity) \in Int
      BY <1>1
    <3> QED
      BY <3>1, <3>2, <3>3 DEF Worth
  <2>4. Signed(opened) = more /\ more \in Int
    BY <1>1 DEF Signed
  <2>5. Pnl(acc, e) = 0 /\ Rounding(acc, e) = 0
    BY <1>9 DEF Pnl, Rounding
  <2> HIDE DEF opened, Q
  <2>6. gained + e.fee = 0
    BY <1>1, <1>2, <1>4, <1>5, <1>6, <2>1, <2>2, <2>3, <2>5
  <2>7. gained + e.fee \in -Rounding(acc, e) .. Rounding(acc, e)
    BY <2>5, <2>6
  <2>8. SignedSize(new, s) = SignedSize(acc, s) + more
    BY <1>5, <2>1, <2>2, <2>4
  <2> QED
    BY <2>7, <2>8 DEF gained, new
<1> QED
  BY <1>7, <1>8, <1>9

\* Marked at the price of a fill, the account is worth after it what it was before, less
\* the fee and but for the rounding of an average, and the position changes by the
\* quantity: whatever the sizes, prices and fees, and whether the fill opens, adds,
\* reduces or closes (apply).
THEOREM FillsAreAlwaysFair == Spec => FillsAreFair
<1>1. ASSUME AccountInv, NEW e \in Inputs, e.type = "fill", Accept(e)
      PROVE  /\ Gained(state, state', e) + e.fee \in -Rounding(state, e) .. Rounding(state, e)
             /\ SignedSize(state', e.symbol) = SignedSize(state, e.symbol)
                  + IF e.side = "long" THEN e.quantity ELSE -e.quantity
  <2>1. e \in Fill
    BY <1>1, EngineAssumption DEF IsEvent, IsSnapshot, Placed, Cancelled, Cash, Spot
  <2>2. IsAccount(state) /\ ~Refused(state, e) /\ state' = Applied(state, e)
    BY <1>1 DEF AccountInv, TypeOK, Accept
  <2>3. Applied(state, e) = Filled(state, e)
    BY <1>1 DEF Applied
  <2> QED
    BY <2>1, <2>2, <2>3, FilledIsFair
<1>2. AccountInv /\ [Next]_vars =>
        [\A e \in Inputs : e.type = "fill" /\ Accept(e) =>
           /\ Gained(state, state', e) + e.fee \in -Rounding(state, e) .. Rounding(state, e)
           /\ SignedSize(state', e.symbol) = SignedSize(state, e.symbol)
                + IF e.side = "long" THEN e.quantity ELSE -e.quantity]_vars
  BY <1>1
<1> QED
  BY <1>2, InitAccountInv, AccountInvStep, PTL DEF Spec, FillsAreFair

=============================================================================
