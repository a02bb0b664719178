------------------------ MODULE ClientStreamsProofs ------------------------
(***************************************************************************)
(* Theorems about the streams of the client, for every number of calls,    *)
(* users and coins and every message the exchange may send.                *)
(*                                                                         *)
(* The table of managers is exact: it names the manager of every user one  *)
(* was made for (TableInv).  A release says of which subscription but not  *)
(* for which stream, so what a manager counts is compared with the streams *)
(* that listen and the releases in its queue: it counts at least as many,  *)
(* until somebody unsubscribes (CountInv).  So the last reference of a     *)
(* subscription that nobody unsubscribed is given up when none listens.    *)
(*                                                                         *)
(* What a stream yields is compared with what its channel had to carry to  *)
(* it, slot by slot (SlotRead): that is what is gone, read or overwritten, *)
(* and then what is still in the channel; an error stands for all that was *)
(* overwritten since the stream was read (Parted, Gap).  A message on its  *)
(* way is about a subscription of its connection (WireInv), and the        *)
(* subscription of a stream that listens is counted, requested or not      *)
(* (LiveInv): so who matches a message is who asked for its kind about the *)
(* coin or user it is of.                                                  *)
(***************************************************************************)
EXTENDS ClientStreams, SequenceLemmas

Command ==
  [op : {"acquire"}, sub : Subs, from : Slots] \cup [op : {"release"}, sub : Subs]
    \cup [op : {"shutdown"}]

\* Somebody called an unsubscribe_* that covers the coin or user.
Requested(of) == \E k \in DOMAIN asked : of \in asked[k]

\* The manager of a user is in the table as long as it lives.
TableInv ==
  /\ registered \in Users \cup {Nobody}
  /\ made \in Seq(Users) /\ managers \in [Users -> Nat]
  /\ \A u \in Users : managers[u] # Market => managers[u] \in DOMAIN made /\ made[managers[u]] = u
  /\ \A k \in DOMAIN made : managers[made[k]] = k

Coined(s) == ask[s].method \in CoinMethods \ {"l2_update"} /\ ask[s].of \in Coins

Personal(s) == ask[s].method \in OwnMethods \cup AnyMethods /\ ask[s].of \in Users

\* A stream of the market uses the market's manager, a stream of a user the user's.
SlotFits(s) ==
  /\ stage[s] = "idle" => via[s] = Market
  /\ stage[s] \notin {"idle", "over"} =>
       \/ Coined(s) /\ via[s] = Market /\ stage[s] # "missed"
       \/ Personal(s) /\ (stage[s] # "missed" => via[s] # Market /\ via[s] = managers[ask[s].of])

SlotInv ==
  /\ stage = [s \in Slots |-> stage[s]] /\ ask = [s \in Slots |-> ask[s]]
  /\ via = [s \in Slots |-> via[s]]
  /\ \A s \in Slots : SlotFits(s)

\* What may be subscribed to on a manager's connection.
Fits(m, x) ==
  /\ x \in Subs
  /\ IF m = Market THEN x.type \in CoinTypes
     ELSE x.type \in UserTypes /\ m \in DOMAIN made /\ x.of = made[m]

\* A command agrees with the stream it is for, unless that was dropped meanwhile, or with
\* the call it came from.
InStep(m, cmd) ==
  /\ cmd.op = "acquire" =>
       /\ Fits(m, cmd.sub)
       /\ \/ stage[cmd.from] = "acquiring" /\ via[cmd.from] = m /\ SubOf(cmd.from) = cmd.sub
          \/ stage[cmd.from] = "over"
  /\ cmd.op = "release" => (m = Market => cmd.sub.of \in Coins \/ Requested(cmd.sub.of))
  /\ cmd.op = "shutdown" => m = Market /\ \A c \in Coins : Requested(c)

\* A stream asks for its subscription once.
OneEach(q) ==
  \A k, l \in DOMAIN q :
    q[k].op = "acquire" /\ q[l].op = "acquire" /\ q[k].from = q[l].from => k = l

QueueInv ==
  /\ asked \in Seq(SUBSET (Users \cup Coins))
  /\ queue = [m \in Ids |-> queue[m]]
  /\ \A m \in Ids :
       /\ queue[m] \in Seq(Command)
       /\ \A k \in DOMAIN queue[m] : InStep(m, queue[m][k])
       /\ OneEach(queue[m])

Releases(q, x) == {k \in DOMAIN q : q[k].op = "release" /\ q[k].sub = x}

\* What is counted covers the streams that listen and the releases to come.
CountInv ==
  /\ held \in [Ids -> [Subs -> Nat]]
  /\ \A m \in Ids : \A x \in Subs :
       ~Requested(x.of) =>
         held[m][x] >= Cardinality(Receivers(m, x)) + Cardinality(Releases(queue[m], x))

StreamInv == TableInv /\ SlotInv /\ QueueInv /\ CountInv /\ EndsOnlyOnRequest

-----------------------------------------------------------------------------
(* Commands: how a queue grows and shrinks. *)

LEMMA ReleasesAreFinite ==
  ASSUME NEW q \in Seq(Command), NEW x
  PROVE  IsFiniteSet(Releases(q, x)) /\ Cardinality(Releases(q, x)) \in Nat
<1>1. Len(q) \in Nat /\ DOMAIN q = 1 .. Len(q)
  OBVIOUS
<1>2. IsFiniteSet(1 .. Len(q))
  BY <1>1, FS_Interval
<1>3. Releases(q, x) \in SUBSET (1 .. Len(q))
  BY <1>1 DEF Releases
<1>4. IsFiniteSet(Releases(q, x))
  BY <1>2, <1>3, FS_Subset
<1> QED
  BY <1>4, FS_CardinalityType

LEMMA OthersAdded ==
  ASSUME NEW q \in Seq(Command), NEW w \in Seq(Command), NEW x,
         \A k \in DOMAIN w : ~(w[k].op = "release" /\ w[k].sub = x)
  PROVE  Releases(q \o w, x) = Releases(q, x)
<1>1. /\ Len(q) \in Nat /\ Len(w) \in Nat /\ Len(q \o w) = Len(q) + Len(w)
      /\ DOMAIN q = 1 .. Len(q) /\ DOMAIN w = 1 .. Len(w)
      /\ DOMAIN (q \o w) = 1 .. Len(q) + Len(w)
  OBVIOUS
<1>2. \A k \in 1 .. Len(q) : (q \o w)[k] = q[k]
  OBVIOUS
<1>3. \A k \in 1 .. Len(q) + Len(w) : k \notin 1 .. Len(q) =>
        k - Len(q) \in DOMAIN w /\ (q \o w)[k] = w[k - Len(q)]
  BY <1>1
<1>4. \A k \in 1 .. Len(q) : k \in 1 .. Len(q) + Len(w)
  BY <1>1
<1> QED
  BY <1>1, <1>2, <1>3, <1>4 DEF Releases

LEMMA OneAdded ==
  ASSUME NEW q \in Seq(Command), NEW e \in Command, NEW x, e.op = "release", e.sub = x
  PROVE  Cardinality(Releases(q \o <<e>>, x)) = Cardinality(Releases(q, x)) + 1
<1>1. /\ Len(q) \in Nat /\ DOMAIN q = 1 .. Len(q)
      /\ DOMAIN (q \o <<e>>) = 1 .. Len(q) + 1
      /\ \A k \in 1 .. Len(q) : (q \o <<e>>)[k] = q[k]
      /\ (q \o <<e>>)[Len(q) + 1] = e
  OBVIOUS
<1>2. 1 .. Len(q) + 1 = (1 .. Len(q)) \cup {Len(q) + 1} /\ Len(q) + 1 \notin 1 .. Len(q)
  BY <1>1
<1>3. Releases(q \o <<e>>, x) = Releases(q, x) \cup {Len(q) + 1}
  BY <1>1, <1>2 DEF Releases
<1>4. Len(q) + 1 \notin Releases(q, x)
  BY <1>1, <1>2 DEF Releases
<1> QED
  BY <1>3, <1>4, ReleasesAreFinite, FS_AddElement

LEMMA HeadRemoved ==
  ASSUME NEW q \in Seq(Command), q # <<>>, NEW x
  PROVE  Cardinality(Releases(Tail(q), x)) <=
           Cardinality(Releases(q, x)) - (IF Head(q).op = "release" /\ Head(q).sub = x THEN 1 ELSE 0)
<1> DEFINE old == Releases(q, x) \ {1}
           new == Releases(Tail(q), x)
           f   == [k \in old |-> k - 1]
<1>1. /\ Len(q) \in Nat \ {0} /\ DOMAIN q = 1 .. Len(q) /\ Head(q) = q[1]
      /\ Tail(q) \in Seq(Command) /\ DOMAIN Tail(q) = 1 .. Len(q) - 1
      /\ \A k \in 1 .. Len(q) - 1 : Tail(q)[k] = q[k + 1]
  OBVIOUS
<1>2. \A k \in old : k - 1 \in new
  <2> SUFFICES ASSUME NEW k \in old
               PROVE  k - 1 \in new
    OBVIOUS
  <2>1. k \in 1 .. Len(q) /\ k # 1 /\ q[k].op = "release" /\ q[k].sub = x
    BY <1>1 DEF Releases
  <2>2. k - 1 \in 1 .. Len(q) - 1 /\ (k - 1) + 1 = k
    BY <1>1, <2>1
  <2> QED
    BY <1>1, <2>1, <2>2 DEF Releases
<1>3. \A l \in new : l + 1 \in old /\ (l + 1) - 1 = l
  <2> SUFFICES ASSUME NEW l \in new
               PROVE  l + 1 \in old /\ (l + 1) - 1 = l
    OBVIOUS
  <2>1. l \in 1 .. Len(q) - 1 /\ Tail(q)[l].op = "release" /\ Tail(q)[l].sub = x
    BY <1>1 DEF Releases
  <2>2. l + 1 \in 1 .. Len(q) /\ l + 1 # 1 /\ (l + 1) - 1 = l
    BY <1>1, <2>1
  <2> QED
    BY <1>1, <2>1, <2>2 DEF Releases
<1>4. IsFiniteSet(Releases(q, x)) /\ Cardinality(Releases(q, x)) \in Nat
  BY ReleasesAreFinite
<1>5. IsFiniteSet(old) /\ Cardinality(old) =
        (IF 1 \in Releases(q, x) THEN Cardinality(Releases(q, x)) - 1 ELSE Cardinality(Releases(q, x)))
  BY <1>4, FS_RemoveElement
<1>6. 1 \in Releases(q, x) <=> (Head(q).op = "release" /\ Head(q).sub = x)
  BY <1>1 DEF Releases
<1> HIDE DEF old, new
<1>7. f \in Surjection(old, new)
  BY <1>2, <1>3 DEF Surjection
<1> HIDE DEF f
<1>8. Cardinality(new) <= Cardinality(old)
  BY <1>5, <1>7, FS_Surjection
<1> QED
  BY <1>4, <1>5, <1>6, <1>8 DEF old, new

LEMMA OneEachGrows ==
  ASSUME NEW q \in Seq(Command), NEW w \in Seq(Command), OneEach(q), OneEach(w),
         \A k \in DOMAIN q, l \in DOMAIN w :
           q[k].op = "acquire" /\ w[l].op = "acquire" => q[k].from # w[l].from
  PROVE  OneEach(q \o w)
<1>1. /\ Len(q) \in Nat /\ Len(w) \in Nat
      /\ DOMAIN q = 1 .. Len(q) /\ DOMAIN w = 1 .. Len(w)
      /\ DOMAIN (q \o w) = 1 .. Len(q) + Len(w)
      /\ \A k \in 1 .. Len(q) : (q \o w)[k] = q[k]
  OBVIOUS
<1>2. \A k \in DOMAIN (q \o w) : k \notin DOMAIN q =>
        k \in Nat /\ k - Len(q) \in DOMAIN w /\ (q \o w)[k] = w[k - Len(q)]
  BY <1>1
<1>3. SUFFICES ASSUME NEW k \in DOMAIN (q \o w), NEW l \in DOMAIN (q \o w),
                      (q \o w)[k].op = "acquire", (q \o w)[l].op = "acquire",
                      (q \o w)[k].from = (q \o w)[l].from
               PROVE  k = l
  BY DEF OneEach
<1>4. CASE k \in DOMAIN q /\ l \in DOMAIN q
  BY <1>1, <1>3, <1>4 DEF OneEach
<1>5. CASE k \in DOMAIN q /\ l \notin DOMAIN q
  BY <1>1, <1>2, <1>3, <1>5
<1>6. CASE k \notin DOMAIN q /\ l \in DOMAIN q
  BY <1>1, <1>2, <1>3, <1>6
<1>7. CASE k \notin DOMAIN q /\ l \notin DOMAIN q
  <2>1. k - Len(q) = l - Len(q)
    BY <1>2, <1>3, <1>7 DEF OneEach
  <2> QED
    BY <1>1, <1>2, <1>7, <2>1
<1> QED
  BY <1>4, <1>5, <1>6, <1>7

LEMMA OneEachShrinks ==
  ASSUME NEW q \in Seq(Command), q # <<>>, OneEach(q)
  PROVE  /\ OneEach(Tail(q))
         /\ \A k \in DOMAIN Tail(q) : k + 1 \in DOMAIN q /\ Tail(q)[k] = q[k + 1]
         /\ Head(q).op = "acquire" =>
              \A k \in DOMAIN Tail(q) : Tail(q)[k].op = "acquire" => Tail(q)[k].from # Head(q).from
<1>1. /\ Len(q) \in Nat \ {0} /\ DOMAIN q = 1 .. Len(q) /\ Head(q) = q[1]
      /\ DOMAIN Tail(q) = 1 .. Len(q) - 1
  OBVIOUS
<1>2. \A k \in DOMAIN Tail(q) :
        k \in Nat /\ k + 1 \in DOMAIN q /\ k + 1 # 1 /\ Tail(q)[k] = q[k + 1]
  BY <1>1
<1>3. 1 \in DOMAIN q
  BY <1>1
<1>4. \A k, l \in DOMAIN Tail(q) : k + 1 = l + 1 => k = l
  BY <1>2
<1> QED
  BY <1>1, <1>2, <1>3, <1>4 DEF OneEach

-----------------------------------------------------------------------------
(* The table of managers. *)

LEMMA TableInit == Init => TableInv
BY StreamAssumption DEF Init, TableInv, Market

\* What a stream of the client asks for is a subscription.
LEMMA SubOfFits ==
  ASSUME NEW s \in Slots, Coined(s) \/ Personal(s)
  PROVE  SubOf(s) \in Subs /\ SubOf(s).of = ask[s].of
<1> DEFINE m == ask[s].method
<1>1. CASE Coined(s)
  <2>1. m \in {"l2_snapshot", "asset_context", "fill"} /\ ask[s].of \in Coins
    BY <1>1 DEF Coined, CoinMethods
  <2>2. TypeOf(m) \in CoinTypes
    BY <2>1 DEF TypeOf, CoinTypes
  <2> HIDE DEF m
  <2>3. Sub(TypeOf(m), ask[s].of) \in [type : CoinTypes, of : Coins]
    BY <2>1, <2>2 DEF Sub
  <2> QED
    BY <2>3 DEF SubOf, Subs, Sub, m
<1>2. CASE Personal(s)
  <2>1. m \in {"user_fills", "order_updates", "funding_payments", "deposits", "withdrawals",
               "spot_balance", "liquidation", "spot_balance_with_address"} /\ ask[s].of \in Users
    BY <1>2 DEF Personal, OwnMethods, AnyMethods
  <2>2. TypeOf(m) \in UserTypes
    BY <2>1 DEF TypeOf, UserTypes
  <2> HIDE DEF m
  <2>3. Sub(TypeOf(m), ask[s].of) \in [type : UserTypes, of : Users]
    BY <2>1, <2>2 DEF Sub
  <2> QED
    BY <2>3 DEF SubOf, Subs, Sub, m
<1> QED
  BY <1>1, <1>2

\* A stream asks for what fits its manager.
LEMMA AskedFits ==
  ASSUME StreamInv, NEW s \in Slots, stage[s] \notin {"idle", "over", "missed"}
  PROVE  /\ Fits(via[s], SubOf(s)) /\ SubOf(s) \in Subs /\ SubOf(s).of = ask[s].of
         /\ SubOf(s).type = TypeOf(ask[s].method)
         /\ \/ Coined(s) /\ via[s] = Market
            \/ Personal(s) /\ via[s] # Market /\ via[s] = managers[ask[s].of]
<1>1. \/ Coined(s) /\ via[s] = Market
      \/ Personal(s) /\ via[s] # Market /\ via[s] = managers[ask[s].of]
  BY DEF StreamInv, SlotInv, SlotFits
<1>2. SubOf(s) \in Subs /\ SubOf(s).of = ask[s].of
  BY <1>1, SubOfFits
<1>3. SubOf(s).type = TypeOf(ask[s].method)
  BY DEF SubOf, Sub
<1>4. CASE Coined(s) /\ via[s] = Market
  <2>1. SubOf(s).type \in CoinTypes
    BY <1>3, <1>4 DEF Coined, TypeOf, CoinMethods, CoinTypes
  <2> QED
    BY <1>2, <1>3, <1>4, <2>1 DEF Fits
<1>5. CASE Personal(s) /\ via[s] # Market /\ via[s] = managers[ask[s].of]
  <2>1. SubOf(s).type \in UserTypes
    BY <1>3, <1>5 DEF Personal, TypeOf, OwnMethods, AnyMethods, UserTypes
  <2>2. ask[s].of \in Users
    BY <1>5 DEF Personal
  <2>3. via[s] \in DOMAIN made /\ made[via[s]] = ask[s].of
    BY <1>5, <2>2 DEF StreamInv, TableInv
  <2> QED
    BY <1>2, <1>3, <1>5, <2>1, <2>3 DEF Fits
<1> QED
  BY <1>1, <1>4, <1>5

\* A manager is made for a user who has none.
LEMMA TableGrows ==
  ASSUME TableInv, NEW u \in Users, managers[u] = Market, registered' = registered,
         made' = Append(made, u), managers' = [managers EXCEPT ![u] = Len(made')]
  PROVE  /\ TableInv'
         /\ managers'[u] # Market
         /\ \A x \in Users : managers[x] # Market => managers'[x] = managers[x]
<1>1. /\ made \in Seq(Users) /\ Len(made) \in Nat /\ DOMAIN made = 1 .. Len(made)
      /\ managers \in [Users -> Nat]
  BY DEF TableInv
<1>2. /\ made' \in Seq(Users) /\ Len(made') = Len(made) + 1
      /\ DOMAIN made' = 1 .. Len(made) + 1
      /\ made'[Len(made) + 1] = u
      /\ \A k \in DOMAIN made : k \in DOMAIN made' /\ made'[k] = made[k]
  BY <1>1
<1>3. /\ managers' \in [Users -> Nat] /\ managers'[u] = Len(made) + 1
      /\ \A x \in Users : x # u => managers'[x] = managers[x]
  BY <1>1, <1>2
<1>4. ASSUME NEW x \in Users, managers'[x] # Market
      PROVE  managers'[x] \in DOMAIN made' /\ made'[managers'[x]] = x
  <2>1. CASE x = u
    BY <1>1, <1>2, <1>3, <2>1
  <2>2. CASE x # u
    BY <1>2, <1>3, <1>4, <2>2 DEF TableInv
  <2> QED
    BY <2>1, <2>2
<1>5. ASSUME NEW k \in DOMAIN made'
      PROVE  managers'[made'[k]] = k
  <2>1. CASE k = Len(made) + 1
    BY <1>2, <1>3, <2>1
  <2>2. CASE k # Len(made) + 1
    <3>1. k \in DOMAIN made /\ k # Market
      BY <1>1, <1>2, <2>2 DEF Market
    <3>2. managers[made[k]] = k /\ made[k] \in Users
      BY <1>1, <3>1 DEF TableInv
    <3> QED
      BY <1>2, <1>3, <3>1, <3>2
  <2> QED
    BY <2>1, <2>2
<1> QED
  BY <1>1, <1>2, <1>3, <1>4, <1>5 DEF TableInv, Market

-----------------------------------------------------------------------------
(* What a step leaves alone. *)

\* What is sent to each manager, w, is put behind what its queue holds.
Sends(w) ==
  /\ queue' = [m \in Ids |-> queue'[m]]
  /\ \A m \in Ids : w[m] \in Seq(Command) /\ queue'[m] = queue[m] \o w[m]

\* A manager once made is for that user.
MadeStays == \A k \in DOMAIN made : k \in DOMAIN made' /\ made'[k] = made[k]

LEMMA FitsStays ==
  ASSUME MadeStays, NEW m, NEW x, Fits(m, x)
  PROVE  Fits(m, x)'
BY DEF MadeStays, Fits

\* An unsubscribe is never taken back, nor a manager.
Recalled == MadeStays /\ \A x : Requested(x) => Requested(x)'

LEMMA CommandKept ==
  ASSUME NEW m, NEW cmd, InStep(m, cmd), Recalled,
         cmd.op = "acquire" => \/ /\ stage'[cmd.from] = stage[cmd.from]
                                  /\ via'[cmd.from] = via[cmd.from]
                                  /\ ask'[cmd.from] = ask[cmd.from]
                               \/ stage'[cmd.from] = "over"
  PROVE  InStep(m, cmd)'
BY FitsStays DEF InStep, SubOf, Recalled

\* A stream that has asked for its subscription stands still until it is given, or is
\* over for good.
Waits == \A s \in Slots :
  /\ stage[s] = "over" => stage'[s] = "over"
  /\ stage[s] = "acquiring" =>
       \/ stage'[s] = stage[s] /\ via'[s] = via[s] /\ ask'[s] = ask[s]
       \/ stage'[s] = "over"

LEMMA QueueGrows ==
  ASSUME QueueInv, Recalled, Waits, asked' \in Seq(SUBSET (Users \cup Coins)),
         NEW w, Sends(w),
         \A m \in Ids : /\ OneEach(w[m])
                        /\ \A l \in DOMAIN w[m] :
                             /\ InStep(m, w[m][l])'
                             /\ \A k \in DOMAIN queue[m] :
                                  queue[m][k].op = "acquire" /\ w[m][l].op = "acquire" =>
                                    queue[m][k].from # w[m][l].from
  PROVE  QueueInv'
<1>1. ASSUME NEW m \in Ids
      PROVE  /\ queue'[m] \in Seq(Command)
             /\ (\A k \in DOMAIN queue[m] : InStep(m, queue[m][k]))'
             /\ OneEach(queue'[m])
  <2>0. PICK q, a : q = queue[m] /\ a = w[m]
    OBVIOUS
  <2>1. q \in Seq(Command) /\ a \in Seq(Command) /\ queue'[m] = q \o a
    BY <2>0 DEF QueueInv, Sends
  <2>2. OneEach(q) /\ OneEach(a)
    BY <2>0 DEF QueueInv
  <2>3. \A k \in DOMAIN q, l \in DOMAIN a :
          q[k].op = "acquire" /\ a[l].op = "acquire" => q[k].from # a[l].from
    BY <2>0
  <2>4. ASSUME NEW k \in DOMAIN q
        PROVE  InStep(m, q[k])'
    <3>1. InStep(m, q[k])
      BY <2>0 DEF QueueInv
    <3>2. q[k] \in Command
      BY <2>1
    <3>3. q[k].op = "acquire" =>
            q[k].from \in Slots /\ stage[q[k].from] \in {"acquiring", "over"}
      BY <3>1, <3>2 DEF Command, InStep
    <3> QED
      BY <3>1, <3>3, CommandKept DEF Waits
  <2>5. \A l \in DOMAIN a : InStep(m, a[l])'
    BY <2>0
  <2>6. OneEach(q \o a)
    BY <2>1, <2>2, <2>3, OneEachGrows
  <2>7. q \o a \in Seq(Command)
    BY <2>1
  <2>8. \A k \in DOMAIN (q \o a) :
          \/ k \in DOMAIN q /\ (q \o a)[k] = q[k]
          \/ k - Len(q) \in DOMAIN a /\ (q \o a)[k] = a[k - Len(q)]
    BY <2>1
  <2>9. ASSUME NEW k \in DOMAIN (q \o a)
        PROVE  InStep(m, (q \o a)[k])'
    BY <2>4, <2>5, <2>8
  <2> QED
    BY <2>1, <2>6, <2>7, <2>9
<1>2. queue' = [m \in Ids |-> queue'[m]]
  BY DEF Sends
<1> QED
  BY <1>1, <1>2 DEF QueueInv

LEMMA ListenersAreFinite ==
  ASSUME NEW m, NEW x
  PROVE  /\ IsFiniteSet(Receivers(m, x)) /\ Cardinality(Receivers(m, x)) \in Nat
         /\ IsFiniteSet(Receivers(m, x)') /\ Cardinality(Receivers(m, x)') \in Nat
<1>1. IsFiniteSet(Slots)
  BY StreamAssumption
<1>2. Receivers(m, x) \in SUBSET Slots /\ Receivers(m, x)' \in SUBSET Slots
  BY DEF Receivers
<1> QED
  BY <1>1, <1>2, FS_Subset, FS_CardinalityType

\* With no more listeners and no more releases than there were, what was counted is enough.
LEMMA CountKept ==
  ASSUME CountInv, Recalled, held' = held,
         \A m \in Ids : queue[m] \in Seq(Command),
         \A m \in Ids : \A x \in Subs : ~Requested(x.of)' =>
           /\ Receivers(m, x)' \subseteq Receivers(m, x)
           /\ Releases(queue'[m], x) = Releases(queue[m], x)
  PROVE  CountInv'
<1> SUFFICES ASSUME NEW m \in Ids, NEW x \in Subs, ~Requested(x.of)'
             PROVE  held'[m][x] >=
                      Cardinality(Receivers(m, x)') + Cardinality(Releases(queue'[m], x))
  BY DEF CountInv
<1>1. held[m][x] \in Nat
  BY DEF CountInv
<1>2. held[m][x] >= Cardinality(Receivers(m, x)) + Cardinality(Releases(queue[m], x))
  BY DEF CountInv, Recalled
<1>3. Cardinality(Releases(queue[m], x)) \in Nat
  BY ReleasesAreFinite
<1>4. /\ IsFiniteSet(Receivers(m, x))
      /\ Cardinality(Receivers(m, x)) \in Nat /\ Cardinality(Receivers(m, x)') \in Nat
  BY ListenersAreFinite
<1>5. Receivers(m, x)' \in SUBSET Receivers(m, x)
  OBVIOUS
<1> DEFINE old == Receivers(m, x)
<1>6. PICK new : new = Receivers(m, x)'
  OBVIOUS
<1> HIDE DEF old
<1>7. Cardinality(new) <= Cardinality(old)
  BY <1>4, <1>5, <1>6, FS_Subset DEF old
<1> QED
  BY <1>1, <1>2, <1>3, <1>4, <1>6, <1>7 DEF old

\* One stream moves, and is not given its subscription yet.
Moves(s) ==
  /\ stage' = [stage EXCEPT ![s] = stage'[s]] /\ stage[s] # "over" /\ stage'[s] # "live"
  /\ stage[s] = "acquiring" => stage'[s] = "over"
  /\ ask' = [ask EXCEPT ![s] = ask'[s]]
  /\ via' = [via EXCEPT ![s] = via'[s]]
  /\ SlotFits(s)'
  /\ asked' = asked /\ held' = held /\ MadeStays
  /\ \A u \in Users : managers[u] # Market => managers'[u] = managers[u]

LEMMA SlotMoves ==
  ASSUME StreamInv, NEW s \in Slots, Moves(s),
         stage'[s] \in {"detached", "closed"} => Requested(ask[s].of) /\ ask'[s] = ask[s]
  PROVE  /\ SlotInv' /\ EndsOnlyOnRequest' /\ Recalled /\ Waits
         /\ \A m, x : Receivers(m, x)' \subseteq Receivers(m, x)
<1>1. /\ stage = [d \in Slots |-> stage[d]] /\ ask = [d \in Slots |-> ask[d]]
      /\ via = [d \in Slots |-> via[d]]
  BY DEF StreamInv, SlotInv
<1>2. /\ stage' = [d \in Slots |-> stage'[d]] /\ ask' = [d \in Slots |-> ask'[d]]
      /\ via' = [d \in Slots |-> via'[d]]
      /\ \A d \in Slots : d # s => stage'[d] = stage[d] /\ ask'[d] = ask[d] /\ via'[d] = via[d]
  BY <1>1 DEF Moves
<1>3. ASSUME NEW d \in Slots, d # s
      PROVE  SlotFits(d)'
  <2>1. SlotFits(d)
    BY DEF StreamInv, SlotInv
  <2> QED
    BY <1>2, <1>3, <2>1 DEF SlotFits, Coined, Personal, Moves
<1>4. SlotInv'
  BY <1>2, <1>3 DEF SlotInv, Moves
<1>5. Recalled
  BY DEF Moves, Recalled, Requested
<1>6. Waits
  BY <1>2 DEF Waits, Moves
<1>7. EndsOnlyOnRequest'
  BY <1>2 DEF Moves, StreamInv, EndsOnlyOnRequest, Requested
<1>8. \A m, x : Receivers(m, x)' \subseteq Receivers(m, x)
  BY <1>2 DEF Receivers, Moves, SubOf
<1> QED
  BY <1>4, <1>5, <1>6, <1>7, <1>8

LEMMA QueueKept ==
  ASSUME QueueInv, Recalled, Waits, asked' \in Seq(SUBSET (Users \cup Coins)), queue' = queue
  PROVE  QueueInv'
<1>1. ASSUME NEW m \in Ids, NEW k \in DOMAIN queue[m]
      PROVE  InStep(m, queue[m][k])'
  <2>1. PICK cmd : cmd = queue[m][k]
    OBVIOUS
  <2>2. cmd \in Command /\ InStep(m, cmd)
    BY <2>1 DEF QueueInv
  <2>3. cmd.op = "acquire" => cmd.from \in Slots /\ stage[cmd.from] \in {"acquiring", "over"}
    BY <2>2 DEF Command, InStep
  <2>4. InStep(m, cmd)'
    BY <2>2, <2>3, CommandKept DEF Waits
  <2> QED
    BY <2>1, <2>4
<1> QED
  BY <1>1 DEF QueueInv

LEMMA OneSent ==
  ASSUME QueueInv, Recalled, Waits, asked' \in Seq(SUBSET (Users \cup Coins)),
         NEW n, NEW e \in Command, Queued(n, <<e>>), InStep(n, e)',
         e.op = "acquire" => stage[e.from] \notin {"acquiring", "over"}
  PROVE  /\ QueueInv'
         /\ \A m \in Ids : queue'[m] = IF m = n THEN queue[m] \o <<e>> ELSE queue[m]
<1>1. PICK w : w = [m \in Ids |-> IF m = n THEN <<e>> ELSE <<>>]
  OBVIOUS
<1>2. /\ queue = [m \in Ids |-> queue[m]]
      /\ \A m \in Ids : queue[m] \in Seq(Command)
  BY DEF QueueInv
<1>3. /\ queue' = [m \in Ids |-> queue'[m]]
      /\ \A m \in Ids : queue'[m] = IF m = n THEN queue[m] \o <<e>> ELSE queue[m]
  BY <1>2 DEF Queued
<1>4. ASSUME NEW m \in Ids
      PROVE  w[m] \in Seq(Command) /\ queue'[m] = queue[m] \o w[m]
  <2>1. CASE m = n
    BY <1>1, <1>3, <2>1, SMTT(30)
  <2>2. CASE m # n
    <3>1. w[m] = <<>> /\ queue'[m] = queue[m]
      BY <1>1, <1>3, <2>2
    <3> QED
      BY <1>2, <3>1
  <2> QED
    BY <2>1, <2>2
<1>5. ASSUME NEW m \in Ids, NEW l \in DOMAIN w[m]
      PROVE  m = n /\ l = 1 /\ w[m] = <<e>>
  BY <1>1, <1>5
<1>6. ASSUME NEW m \in Ids, NEW k \in DOMAIN queue[m],
             queue[m][k].op = "acquire", e.op = "acquire"
      PROVE  queue[m][k].from # e.from
  BY <1>6 DEF QueueInv, InStep
<1>7. \A m \in Ids : OneEach(w[m])
  BY <1>5 DEF OneEach
<1>8. \A m \in Ids : \A l \in DOMAIN w[m] : InStep(m, w[m][l])'
  <2> SUFFICES ASSUME NEW m \in Ids, NEW l \in DOMAIN w[m]
               PROVE  InStep(m, w[m][l])'
    OBVIOUS
  <2>1. w[m][l] = e /\ m = n
    BY <1>5
  <2> QED
    BY <2>1
<1>9. \A m \in Ids : \A l \in DOMAIN w[m] : w[m][l] = e
  BY <1>5
<1>10. Sends(w)
  BY <1>3, <1>4 DEF Sends
<1> QED
  BY <1>3, <1>6, <1>7, <1>8, <1>9, <1>10, QueueGrows

-----------------------------------------------------------------------------
(* The steps of a stream. *)

\* A stream that moves and sends nothing.
LEMMA SilentMove ==
  ASSUME StreamInv, NEW s \in Slots, Moves(s), TableInv', queue' = queue,
         stage'[s] \notin {"detached", "closed"}
  PROVE  StreamInv'
<1>1. SlotInv' /\ EndsOnlyOnRequest' /\ Recalled /\ Waits
  BY SlotMoves
<1>2. \A m, x : Receivers(m, x)' \subseteq Receivers(m, x)
  BY SlotMoves
<1>3. asked' \in Seq(SUBSET (Users \cup Coins)) /\ held' = held
  BY DEF Moves, StreamInv, QueueInv
<1>4. QueueInv'
  BY <1>1, <1>3, QueueKept DEF StreamInv
<1>5. CountInv'
  BY <1>1, <1>2, <1>3, CountKept DEF StreamInv, QueueInv
<1> QED
  BY <1>1, <1>4, <1>5 DEF StreamInv

LEMMA SubscribeStep ==
  ASSUME StreamInv, NEW s \in Slots, Subscribe(s)
  PROVE  StreamInv'
<1>0. PICK method \in Methods : \E x \in Targets(method) :
        /\ ask' = [ask EXCEPT ![s] = [method |-> method, of |-> x]]
        /\ \/ stage' = [stage EXCEPT ![s] = "over"] /\ via' = via
           \/ /\ method \in CoinMethods \ {"l2_update"}
              /\ stage' = [stage EXCEPT ![s] = "made"]
              /\ via' = via
           \/ /\ method \notin CoinMethods /\ x # Nobody
              /\ via' = [via EXCEPT ![s] = managers[x]]
              /\ stage' = [stage EXCEPT ![s] = IF managers[x] # Market THEN "made" ELSE "missed"]
  BY DEF Subscribe
<1>1. UNCHANGED <<registered, managers, made, held, queue, asked>> /\ stage[s] = "idle"
  BY DEF Subscribe, table
<1>2. PICK x \in Targets(method) :
        /\ ask' = [ask EXCEPT ![s] = [method |-> method, of |-> x]]
        /\ \/ stage' = [stage EXCEPT ![s] = "over"] /\ via' = via
           \/ /\ method \in CoinMethods \ {"l2_update"}
              /\ stage' = [stage EXCEPT ![s] = "made"]
              /\ via' = via
           \/ /\ method \notin CoinMethods /\ x # Nobody
              /\ via' = [via EXCEPT ![s] = managers[x]]
              /\ stage' = [stage EXCEPT ![s] = IF managers[x] # Market THEN "made" ELSE "missed"]
  BY <1>0
<1>3. /\ stage = [d \in Slots |-> stage[d]] /\ ask = [d \in Slots |-> ask[d]]
      /\ via = [d \in Slots |-> via[d]] /\ via[s] = Market
  BY <1>1 DEF StreamInv, SlotInv, SlotFits
<1>4. /\ stage' = [stage EXCEPT ![s] = stage'[s]] /\ ask' = [ask EXCEPT ![s] = ask'[s]]
      /\ via' = [via EXCEPT ![s] = via'[s]] /\ stage'[s] \in {"over", "made", "missed"}
  BY <1>2, <1>3
<1>5. TableInv'
  BY <1>1 DEF StreamInv, TableInv
<1>6. SlotFits(s)'
  <2>1. ask'[s].method = method /\ ask'[s].of = x
    BY <1>2, <1>3
  <2>2. CASE stage' = [stage EXCEPT ![s] = "over"]
    BY <1>3, <2>2 DEF SlotFits
  <2>3. CASE /\ method \in CoinMethods \ {"l2_update"}
             /\ stage' = [stage EXCEPT ![s] = "made"] /\ via' = via
    <3>1. x \in Coins
      BY <1>2, <2>3 DEF Targets, CoinMethods, OwnMethods, AnyMethods
    <3>2. stage'[s] = "made" /\ via'[s] = Market
      BY <1>3, <2>3
    <3> QED
      BY <2>1, <2>3, <3>1, <3>2 DEF SlotFits, Coined
  <2>4. CASE /\ method \notin CoinMethods /\ x # Nobody
             /\ via' = [via EXCEPT ![s] = managers[x]]
             /\ stage' = [stage EXCEPT ![s] = IF managers[x] # Market THEN "made" ELSE "missed"]
    <3>1. method \in OwnMethods \cup AnyMethods
      BY <2>4, StreamAssumption
    <3>2. registered \in Users \cup {Nobody}
      BY DEF StreamInv, TableInv
    <3>3. x \in Users
      BY <1>2, <2>4, <3>1, <3>2 DEF Targets, CoinMethods, OwnMethods, AnyMethods
    <3>4. /\ via'[s] = managers[x] /\ managers' = managers
          /\ stage'[s] = IF managers[x] # Market THEN "made" ELSE "missed"
      BY <1>1, <1>3, <2>4
    <3> QED
      BY <2>1, <3>1, <3>3, <3>4 DEF SlotFits, Personal
  <2> QED
    BY <1>2, <2>2, <2>3, <2>4
<1>7. Moves(s)
  BY <1>1, <1>4, <1>6 DEF Moves, MadeStays
<1> QED
  BY <1>1, <1>4, <1>5, <1>7, SilentMove

\* Between the two locks others may have made the manager; it is made only if they did not.
LEMMA GetOrCreateStep ==
  ASSUME StreamInv, NEW s \in Slots, GetOrCreate(s)
  PROVE  StreamInv'
<1> DEFINE u == ask[s].of
<1>1. /\ UNCHANGED <<registered, held, queue, ask, asked>>
      /\ stage[s] = "missed" /\ stage' = [stage EXCEPT ![s] = "made"] /\ InsertManager(s)
  BY DEF GetOrCreate
<1>2. /\ stage = [d \in Slots |-> stage[d]] /\ ask = [d \in Slots |-> ask[d]]
      /\ via = [d \in Slots |-> via[d]] /\ Personal(s) /\ u \in Users
  BY <1>1 DEF StreamInv, SlotInv, SlotFits, Personal
<1>3. /\ TableInv' /\ managers'[u] # Market
      /\ \A x \in Users : managers[x] # Market => managers'[x] = managers[x]
      /\ via' = [via EXCEPT ![s] = managers'[u]] /\ MadeStays
  <2>1. CASE managers[u] = Market
    <3>1. /\ made' = Append(made, u) /\ managers' = [managers EXCEPT ![u] = Len(made')]
          /\ via' = [via EXCEPT ![s] = Len(made')]
      BY <1>1, <2>1 DEF InsertManager, Spawn
    <3>2. managers \in [Users -> Nat]
      BY DEF StreamInv, TableInv
    <3>3. managers'[u] = Len(made')
      BY <1>2, <3>1, <3>2
    <3> HIDE DEF u
    <3>4. /\ TableInv' /\ managers'[u] # Market
          /\ \A x \in Users : managers[x] # Market => managers'[x] = managers[x]
      BY <1>1, <1>2, <2>1, <3>1, TableGrows DEF StreamInv
    <3>5. MadeStays
      BY <1>2, <3>1, AppendProperties DEF StreamInv, TableInv, MadeStays
    <3> QED
      BY <3>1, <3>3, <3>4, <3>5
  <2>2. CASE managers[u] # Market
    <3>1. via' = [via EXCEPT ![s] = managers[u]] /\ UNCHANGED <<made, managers>>
      BY <1>1, <2>2 DEF InsertManager
    <3> QED
      BY <1>1, <2>2, <3>1 DEF StreamInv, TableInv, MadeStays
  <2> QED
    BY <2>1, <2>2
<1>4. SlotFits(s)'
  BY <1>1, <1>2, <1>3 DEF SlotFits, Personal
<1>5. stage'[s] = "made" /\ via' = [via EXCEPT ![s] = via'[s]] /\ ask' = [ask EXCEPT ![s] = ask'[s]]
  BY <1>1, <1>2, <1>3
<1>6. Moves(s)
  BY <1>1, <1>3, <1>4, <1>5 DEF Moves, MadeStays
<1> QED
  BY <1>1, <1>3, <1>5, <1>6, SilentMove

LEMMA OpenStep ==
  ASSUME StreamInv, NEW s \in Slots, Open(s)
  PROVE  StreamInv'
<1>1. /\ UNCHANGED <<registered, managers, made, held, ask, via, asked>>
      /\ stage[s] = "made" /\ stage' = [stage EXCEPT ![s] = "acquiring"]
      /\ Queued(via[s], <<Acquire(s)>>)
  BY DEF Open, table
<1>2. /\ stage = [d \in Slots |-> stage[d]] /\ ask = [d \in Slots |-> ask[d]]
      /\ via = [d \in Slots |-> via[d]] /\ SlotFits(s)
  BY DEF StreamInv, SlotInv
<1>3. stage'[s] = "acquiring"
  BY <1>1, <1>2
<1>4. /\ stage' = [stage EXCEPT ![s] = stage'[s]] /\ ask' = [ask EXCEPT ![s] = ask'[s]]
      /\ via' = [via EXCEPT ![s] = via'[s]]
  BY <1>1, <1>2
<1>5. SlotFits(s)'
  BY <1>1, <1>2, <1>3 DEF SlotFits, Coined, Personal
<1>6. Moves(s)
  BY <1>1, <1>3, <1>4, <1>5 DEF Moves, MadeStays
<1>7. SlotInv' /\ EndsOnlyOnRequest' /\ Recalled /\ Waits
  BY <1>3, <1>6, SlotMoves
<1>8. \A m, x : Receivers(m, x)' \subseteq Receivers(m, x)
  BY <1>3, <1>6, SlotMoves
<1>9. TableInv'
  BY <1>1 DEF StreamInv, TableInv
<1>10. asked' \in Seq(SUBSET (Users \cup Coins)) /\ QueueInv /\ CountInv
  BY <1>1 DEF StreamInv, QueueInv
<1>11. PICK n, e : n = via[s] /\ e = Acquire(s)
  OBVIOUS
<1>12. Coined(s) \/ Personal(s)
  BY <1>1, <1>2 DEF SlotFits
<1>13. SubOf(s) \in Subs /\ SubOf(s)' = SubOf(s)
  BY <1>1, <1>12, SubOfFits DEF SubOf
<1>14. e \in Command /\ e.op = "acquire" /\ e.from = s /\ e.sub = SubOf(s)
  BY <1>11, <1>13 DEF Acquire, Command
<1>15. InStep(n, e)'
  <2>1. Fits(via[s], SubOf(s))
    BY <1>1, AskedFits
  <2>2. Fits(n, SubOf(s))'
    BY <1>1, <1>7, <1>11, <1>13, <2>1, FitsStays DEF Recalled
  <2> QED
    BY <1>1, <1>3, <1>11, <1>13, <1>14, <2>2 DEF InStep
<1>16. /\ QueueInv'
       /\ \A m \in Ids : queue'[m] = IF m = n THEN queue[m] \o <<e>> ELSE queue[m]
  BY <1>1, <1>7, <1>10, <1>11, <1>14, <1>15, OneSent
<1>17. ASSUME NEW m \in Ids, NEW x
       PROVE  Releases(queue'[m], x) = Releases(queue[m], x)
  <2>1. queue[m] \in Seq(Command) /\ <<e>> \in Seq(Command)
    BY <1>10, <1>14 DEF QueueInv
  <2>2. Releases(queue[m] \o <<e>>, x) = Releases(queue[m], x)
    BY <1>14, <2>1, OthersAdded
  <2> QED
    BY <1>16, <2>2
<1>18. CountInv'
  BY <1>1, <1>7, <1>8, <1>10, <1>17, CountKept DEF QueueInv
<1> QED
  BY <1>7, <1>9, <1>16, <1>18 DEF StreamInv

\* A stream that listened, or was cut off, ends and gives its reference back.
LEMMA ReleaseSent ==
  ASSUME StreamInv, NEW s \in Slots, Moves(s), TableInv',
         stage[s] \in {"live", "detached"}, stage'[s] \in {"closed", "over"},
         stage'[s] = "closed" => Requested(ask[s].of) /\ ask'[s] = ask[s],
         Queued(via[s], <<Release(SubOf(s))>>)
  PROVE  StreamInv'
<1>1. SlotInv' /\ EndsOnlyOnRequest' /\ Recalled /\ Waits
  BY SlotMoves
<1>2. \A m, x : Receivers(m, x)' \subseteq Receivers(m, x)
  BY SlotMoves
<1>3. /\ asked' \in Seq(SUBSET (Users \cup Coins)) /\ QueueInv /\ CountInv
      /\ held' = held /\ asked' = asked
  BY DEF Moves, StreamInv, QueueInv
<1>4. SlotFits(s) /\ stage = [d \in Slots |-> stage[d]] /\ (stage[s] = "detached" => Requested(ask[s].of))
  BY DEF StreamInv, SlotInv, EndsOnlyOnRequest, Requested
<1>5. \/ Coined(s) /\ via[s] = Market
      \/ Personal(s) /\ via[s] # Market
  BY <1>4 DEF SlotFits
<1>6. SubOf(s) \in Subs /\ SubOf(s).of = ask[s].of
  BY <1>5, SubOfFits
<1>7. PICK n, e : n = via[s] /\ e = Release(SubOf(s))
  OBVIOUS
<1>8. e \in Command /\ e.op = "release" /\ e.sub = SubOf(s)
  BY <1>6, <1>7 DEF Release, Command
<1>9. InStep(n, e)'
  BY <1>5, <1>6, <1>7, <1>8 DEF InStep, Coined
<1>10. /\ QueueInv'
       /\ \A m \in Ids : queue'[m] = IF m = n THEN queue[m] \o <<e>> ELSE queue[m]
  BY <1>1, <1>3, <1>7, <1>8, <1>9, OneSent
<1>11. ASSUME NEW m \in Ids, NEW x \in Subs, ~Requested(x.of)'
       PROVE  held'[m][x] >= Cardinality(Receivers(m, x)') + Cardinality(Releases(queue'[m], x))
  <2>1. /\ held[m][x] \in Nat
        /\ held[m][x] >= Cardinality(Receivers(m, x)) + Cardinality(Releases(queue[m], x))
    BY <1>1, <1>3, <1>11 DEF CountInv, Recalled
  <2>2. queue[m] \in Seq(Command) /\ <<e>> \in Seq(Command)
    BY <1>3, <1>8 DEF QueueInv
  <2>3. Cardinality(Releases(queue[m], x)) \in Nat
    BY <2>2, ReleasesAreFinite
  <2>4. PICK old, new : old = Receivers(m, x) /\ new = Receivers(m, x)'
    OBVIOUS
  <2>5. IsFiniteSet(old) /\ Cardinality(old) \in Nat /\ Cardinality(new) \in Nat
    BY <2>4, ListenersAreFinite
  <2>6. new \in SUBSET old
    BY <1>2, <2>4
  <2>7. CASE m = n /\ x = SubOf(s)
    <3>1. stage[s] = "live"
      BY <1>1, <1>4, <1>6, <1>11, <2>7 DEF Recalled
    <3>2. s \in old /\ s \notin new
      BY <1>7, <2>4, <2>7, <3>1 DEF Receivers
    <3>3. new \in SUBSET (old \ {s})
      BY <2>6, <3>2
    <3>4. /\ IsFiniteSet(old \ {s})
          /\ Cardinality(old \ {s}) = Cardinality(old) - 1
      BY <2>5, <3>2, FS_RemoveElement
    <3>5. Cardinality(new) <= Cardinality(old) - 1
      BY <3>3, <3>4, FS_Subset
    <3>6. Cardinality(Releases(queue'[m], x)) = Cardinality(Releases(queue[m], x)) + 1
      BY <1>8, <1>10, <2>2, <2>7, OneAdded
    <3> QED
      BY <1>3, <2>1, <2>3, <2>4, <2>5, <3>5, <3>6
  <2>8. CASE ~(m = n /\ x = SubOf(s))
    <3>1. Cardinality(new) <= Cardinality(old)
      BY <2>5, <2>6, FS_Subset
    <3>2. Releases(queue'[m], x) = Releases(queue[m], x)
      <4>1. CASE m = n
        <5>1. e.sub # x
          BY <1>8, <2>8, <4>1
        <5>2. \A k \in DOMAIN <<e>> : <<e>>[k].sub # x
          BY <5>1
        <5>3. Releases(queue[m] \o <<e>>, x) = Releases(queue[m], x)
          BY <2>2, <5>2, OthersAdded
        <5> QED
          BY <1>10, <4>1, <5>3
      <4>2. CASE m # n
        BY <1>10, <4>2
      <4> QED
        BY <4>1, <4>2
    <3> QED
      BY <1>3, <2>1, <2>3, <2>4, <2>5, <3>1, <3>2
  <2> QED
    BY <2>7, <2>8
<1>12. CountInv'
  BY <1>3, <1>11 DEF CountInv
<1> QED
  BY <1>1, <1>10, <1>12 DEF StreamInv

LEMMA EndStep ==
  ASSUME StreamInv, NEW s \in Slots, RecvClosed(s) \/ Drop(s)
  PROVE  StreamInv'
<1>1. /\ UNCHANGED <<registered, managers, made, held, asked>>
      /\ stage[s] \in {"made", "acquiring", "live", "detached"}
      /\ \/ /\ stage' = [stage EXCEPT ![s] = "closed"] /\ stage[s] = "detached"
            /\ UNCHANGED <<ask, via>>
         \/ /\ stage' = [stage EXCEPT ![s] = "over"]
            /\ ask' = [ask EXCEPT ![s] = NoAsk] /\ via' = [via EXCEPT ![s] = Market]
      /\ IF stage[s] \in {"made", "acquiring"} THEN queue' = queue
         ELSE Queued(via[s], <<Release(SubOf(s))>>)
  BY DEF RecvClosed, Drop, table
<1>2. /\ stage = [d \in Slots |-> stage[d]] /\ ask = [d \in Slots |-> ask[d]]
      /\ via = [d \in Slots |-> via[d]] /\ SlotFits(s)
      /\ stage[s] = "detached" => Requested(ask[s].of)
  BY DEF StreamInv, SlotInv, EndsOnlyOnRequest, Requested
<1>3. \/ stage'[s] = "over"
      \/ stage'[s] = "closed" /\ stage[s] = "detached" /\ UNCHANGED <<ask, via>>
  BY <1>1, <1>2
<1>4. /\ stage' = [stage EXCEPT ![s] = stage'[s]] /\ ask' = [ask EXCEPT ![s] = ask'[s]]
      /\ via' = [via EXCEPT ![s] = via'[s]]
  BY <1>1, <1>2
<1>5. SlotFits(s)'
  BY <1>1, <1>2, <1>3 DEF SlotFits, Coined, Personal
<1>6. Moves(s)
  BY <1>1, <1>3, <1>4, <1>5 DEF Moves, MadeStays
<1>7. TableInv'
  BY <1>1 DEF StreamInv, TableInv
<1>8. CASE stage[s] \in {"made", "acquiring"}
  BY <1>1, <1>3, <1>6, <1>7, <1>8, SilentMove
<1>9. CASE stage[s] \notin {"made", "acquiring"}
  BY <1>1, <1>2, <1>3, <1>6, <1>7, <1>9, ReleaseSent
<1> QED
  BY <1>8, <1>9

\* What is read, sent or dispatched is no concern of the references.
LEMMA ReadStep ==
  ASSUME StreamInv, UNCHANGED <<registered, managers, made, held, queue, stage, ask, via, asked>>
  PROVE  StreamInv'
<1>1. TableInv' /\ SlotInv' /\ EndsOnlyOnRequest'
  BY DEF StreamInv, TableInv, SlotInv, SlotFits, Coined, Personal, EndsOnlyOnRequest
<1>2. Recalled /\ Waits
  BY DEF Recalled, Requested, Waits, MadeStays
<1>3. asked' \in Seq(SUBSET (Users \cup Coins))
  BY DEF StreamInv, QueueInv
<1>4. QueueInv'
  BY <1>2, <1>3, QueueKept DEF StreamInv
<1>5. \A m, x : Receivers(m, x)' = Receivers(m, x)
  BY DEF Receivers, SubOf
<1>6. CountInv'
  BY <1>2, <1>5, CountKept DEF StreamInv, QueueInv
<1> QED
  BY <1>1, <1>4, <1>6 DEF StreamInv

-----------------------------------------------------------------------------
(* The unsubscribe_* calls: one more is asked, and every queue grows by    *)
(* releases of what it is asked for, or a shutdown.                        *)

Unsubscribes(w, what) ==
  /\ what \in SUBSET (Users \cup Coins)
  /\ asked' = Append(asked, what)
  /\ Sends(w)
  /\ \A m \in Ids : \A l \in DOMAIN w[m] :
       \/ w[m][l].op = "release" /\ w[m][l].sub.of \in what
       \/ w[m][l].op = "shutdown" /\ m = Market /\ Coins \subseteq what
  /\ UNCHANGED <<registered, managers, made, held, stage, ask, via>>

LEMMA UnsubscribeStep ==
  ASSUME StreamInv, NEW w, NEW what, Unsubscribes(w, what)
  PROVE  StreamInv'
<1>1. /\ asked \in Seq(SUBSET (Users \cup Coins)) /\ asked' = Append(asked, what)
      /\ what \in SUBSET (Users \cup Coins)
  BY DEF StreamInv, QueueInv, Unsubscribes
<1>2. /\ asked' \in Seq(SUBSET (Users \cup Coins))
      /\ Len(asked) + 1 \in DOMAIN asked' /\ asked'[Len(asked) + 1] = what
      /\ \A k \in DOMAIN asked : k \in DOMAIN asked' /\ asked'[k] = asked[k]
  BY <1>1
<1>3. Recalled /\ \A x \in what : Requested(x)'
  <2>1. MadeStays
    BY DEF Unsubscribes, MadeStays
  <2> QED
    BY <1>2, <2>1 DEF Recalled, Requested
<1>4. /\ UNCHANGED <<registered, managers, made, held, stage, ask, via>> /\ Sends(w)
      /\ \A m \in Ids : \A l \in DOMAIN w[m] :
           \/ w[m][l].op = "release" /\ w[m][l].sub.of \in what
           \/ w[m][l].op = "shutdown" /\ m = Market /\ Coins \subseteq what
  BY DEF Unsubscribes
<1>5. Waits /\ TableInv' /\ SlotInv'
  BY <1>4 DEF Waits, StreamInv, TableInv, SlotInv, SlotFits, Coined, Personal
<1>6. EndsOnlyOnRequest'
  BY <1>3, <1>4 DEF StreamInv, EndsOnlyOnRequest, Recalled, Requested
<1>7. ASSUME NEW m \in Ids, NEW l \in DOMAIN w[m]
      PROVE  InStep(m, w[m][l])' /\ w[m][l].op # "acquire"
  <2>1. PICK cmd : cmd = w[m][l]
    OBVIOUS
  <2>2. \/ cmd.op = "release" /\ Requested(cmd.sub.of)'
        \/ cmd.op = "shutdown" /\ m = Market /\ \A c \in Coins : Requested(c)'
    BY <1>3, <1>4, <2>1
  <2>3. InStep(m, cmd)'
    BY <2>2 DEF InStep
  <2> QED
    BY <2>1, <2>2, <2>3
<1>8. \A m \in Ids : OneEach(w[m])
  BY <1>7 DEF OneEach
<1>9. QueueInv'
  <2>1. \A m \in Ids : \A l \in DOMAIN w[m] : InStep(m, w[m][l])'
    BY <1>7
  <2>2. \A m \in Ids : \A l \in DOMAIN w[m] : w[m][l].op # "acquire"
    BY <1>7
  <2> QED
    BY <1>2, <1>3, <1>4, <1>5, <1>8, <2>1, <2>2, QueueGrows DEF StreamInv
<1>10. ASSUME NEW m \in Ids, NEW x \in Subs, ~Requested(x.of)'
       PROVE  /\ Receivers(m, x)' \subseteq Receivers(m, x)
              /\ Releases(queue'[m], x) = Releases(queue[m], x)
  <2>1. queue[m] \in Seq(Command) /\ w[m] \in Seq(Command) /\ queue'[m] = queue[m] \o w[m]
    BY <1>4 DEF StreamInv, QueueInv, Sends
  <2>2. \A l \in DOMAIN w[m] : ~(w[m][l].op = "release" /\ w[m][l].sub = x)
    BY <1>3, <1>4, <1>10
  <2>3. Releases(queue[m] \o w[m], x) = Releases(queue[m], x)
    BY <2>1, <2>2, OthersAdded
  <2>4. Receivers(m, x)' = Receivers(m, x)
    BY <1>4 DEF Receivers, SubOf
  <2> QED
    BY <2>1, <2>3, <2>4
<1>11. CountInv'
  BY <1>3, <1>4, <1>10, CountKept DEF StreamInv, QueueInv
<1> QED
  BY <1>5, <1>6, <1>9, <1>11 DEF StreamInv

LEMMA UnsubscribeUserEventsStep ==
  ASSUME StreamInv, UnsubscribeUserEvents
  PROVE  StreamInv'
<1>1. /\ registered \in Users \cup {Nobody} /\ made \in Seq(Users) /\ managers \in [Users -> Nat]
      /\ \A u \in Users : managers[u] # Market => managers[u] \in DOMAIN made
      /\ queue = [m \in Ids |-> queue[m]]
  BY DEF StreamInv, TableInv, QueueInv
<1> DEFINE Of(m) == IF m = Market /\ registered # Nobody THEN UserReleases(registered)
                    ELSE IF m \in {managers[u] : u \in Users} \ {Market} THEN UserReleases(made[m])
                    ELSE <<>>
<1>2. PICK w, what : /\ w = [m \in Ids |-> Of(m)]
                     /\ what = ToSet(made) \cup ({registered} \cap Users)
  OBVIOUS
<1>3. what \in SUBSET (Users \cup Coins)
  BY <1>1, <1>2 DEF ToSet
<1>4. ASSUME NEW m \in Ids
      PROVE  w[m] = <<>> \/ \E u \in what \cap Users : w[m] = UserReleases(u)
  <2>1. CASE m = Market /\ registered # Nobody
    BY <1>1, <1>2, <2>1
  <2>2. CASE /\ ~(m = Market /\ registered # Nobody)
             /\ m \in {managers[u] : u \in Users} \ {Market}
    <3>1. m \in DOMAIN made
      BY <1>1, <2>2
    <3>2. made[m] \in ToSet(made) /\ made[m] \in Users
      BY <1>1, <3>1 DEF ToSet
    <3> QED
      BY <1>2, <2>2, <3>2
  <2>3. CASE /\ ~(m = Market /\ registered # Nobody)
             /\ m \notin {managers[u] : u \in Users} \ {Market}
    BY <1>2, <2>3
  <2> QED
    BY <2>1, <2>2, <2>3
<1>5. ASSUME NEW u \in Users
      PROVE  /\ UserReleases(u) \in Seq(Command)
             /\ \A l \in DOMAIN UserReleases(u) :
                  UserReleases(u)[l].op = "release" /\ UserReleases(u)[l].sub.of = u
  <2>1. \A type \in UserTypes : /\ Release(Sub(type, u)) \in Command
                                /\ Release(Sub(type, u)).op = "release"
                                /\ Release(Sub(type, u)).sub.of = u
    BY DEF Release, Sub, Command, Subs
  <2> QED
    BY <2>1 DEF UserReleases, UserTypes
<1>6. ASSUME NEW m \in Ids
      PROVE  w[m] \in Seq(Command)
  <2>1. <<>> \in Seq(Command)
    OBVIOUS
  <2>2. CASE w[m] = <<>>
    BY <2>1, <2>2
  <2>3. CASE \E u \in what \cap Users : w[m] = UserReleases(u)
    BY <1>5, <2>3
  <2> QED
    BY <1>4, <2>2, <2>3
<1>7. \A m \in Ids : \A l \in DOMAIN w[m] : w[m][l].op = "release" /\ w[m][l].sub.of \in what
  BY <1>4, <1>5
<1>8. /\ queue' = [m \in Ids |-> queue[m] \o w[m]]
      /\ asked' = Append(asked, what)
      /\ UNCHANGED <<registered, managers, made, held, stage, ask, via>>
  BY <1>2 DEF UnsubscribeUserEvents, Asks, table
<1>9. Sends(w)
  BY <1>6, <1>8 DEF Sends
<1>10. Unsubscribes(w, what)
  BY <1>3, <1>7, <1>8, <1>9 DEF Unsubscribes
<1> QED
  BY <1>10, UnsubscribeStep

\* A call on the market's manager.
UnsubscribesMarket(what, commands) ==
  /\ what \in SUBSET Coins /\ commands \in Seq(Command)
  /\ \A l \in DOMAIN commands : \/ commands[l].op = "release" /\ commands[l].sub.of \in what
                                \/ commands[l].op = "shutdown" /\ Coins \subseteq what
  /\ asked' = Append(asked, what)
  /\ Queued(Market, commands)
  /\ UNCHANGED <<registered, managers, made, held, stage, ask, via>>

LEMMA UnsubscribeMarketStep ==
  ASSUME StreamInv, UnsubscribeAll \/ \E c \in Coins : UnsubscribeMarketData(c)
  PROVE  StreamInv'
<1>1. queue = [m \in Ids |-> queue[m]] /\ \A m \in Ids : queue[m] \in Seq(Command)
  BY DEF StreamInv, QueueInv
<1>2. PICK what, e : UnsubscribesMarket(what, e)
  <2>1. CASE UnsubscribeAll
    <3>1. <<[op |-> "shutdown"]>> \in Seq(Command)
      BY DEF Command
    <3>2. UnsubscribesMarket(Coins, <<[op |-> "shutdown"]>>)
      BY <2>1, <3>1 DEF UnsubscribesMarket, UnsubscribeAll, Asks, table
    <3> QED
      BY <3>2
  <2>2. ASSUME NEW c \in Coins, UnsubscribeMarketData(c)
        PROVE  \E what, e : UnsubscribesMarket(what, e)
    <3>1. PICK one, three : one = {c} /\ three = <<Release(Sub("L2Book", c)), Release(Sub("Trades", c)),
                                                  Release(Sub("ActiveAssetCtx", c))>>
      OBVIOUS
    <3>2. \A type \in CoinTypes : /\ Release(Sub(type, c)) \in Command
                                  /\ Release(Sub(type, c)).op = "release"
                                  /\ Release(Sub(type, c)).sub.of = c
      BY DEF Release, Sub, Command, Subs
    <3>3. /\ three \in Seq(Command)
          /\ \A l \in DOMAIN three : three[l].op = "release" /\ three[l].sub.of \in one
      BY <3>1, <3>2 DEF CoinTypes
    <3>4. /\ asked' = Append(asked, one) /\ Queued(Market, three) /\ one \in SUBSET Coins
          /\ UNCHANGED <<registered, managers, made, held, stage, ask, via>>
      BY <2>2, <3>1 DEF UnsubscribeMarketData, Asks, ReleaseCoin, table
    <3>5. UnsubscribesMarket(one, three)
      BY <3>3, <3>4 DEF UnsubscribesMarket
    <3> QED
      BY <3>5
  <2> QED
    BY <2>1, <2>2
<1>3. /\ what \in SUBSET Coins /\ e \in Seq(Command)
      /\ \A l \in DOMAIN e : \/ e[l].op = "release" /\ e[l].sub.of \in what
                             \/ e[l].op = "shutdown" /\ Coins \subseteq what
      /\ asked' = Append(asked, what)
      /\ Queued(Market, e)
      /\ UNCHANGED <<registered, managers, made, held, stage, ask, via>>
  BY <1>2 DEF UnsubscribesMarket
<1>4. PICK w : w = [m \in Ids |-> IF m = Market THEN e ELSE <<>>]
  OBVIOUS
<1>5. ASSUME NEW m \in Ids
      PROVE  w[m] \in Seq(Command) /\ queue'[m] = queue[m] \o w[m]
  <2>1. CASE m = Market
    BY <1>1, <1>3, <1>4, <2>1 DEF Queued
  <2>2. CASE m # Market
    <3>1. w[m] = <<>> /\ queue'[m] = queue[m]
      BY <1>1, <1>3, <1>4, <2>2 DEF Queued
    <3> QED
      BY <1>1, <3>1
  <2> QED
    BY <2>1, <2>2
<1>6. Sends(w)
  BY <1>1, <1>3, <1>5 DEF Sends, Queued
<1>7. ASSUME NEW m \in Ids, NEW l \in DOMAIN w[m]
      PROVE  \/ w[m][l].op = "release" /\ w[m][l].sub.of \in what
             \/ w[m][l].op = "shutdown" /\ m = Market /\ Coins \subseteq what
  <2>1. m = Market /\ w[m] = e
    BY <1>4, <1>7
  <2> QED
    BY <1>3, <2>1
<1>8. Unsubscribes(w, what)
  BY <1>3, <1>6, <1>7 DEF Unsubscribes
<1> QED
  BY <1>8, UnsubscribeStep

-----------------------------------------------------------------------------
(* The managers take their commands. *)

\* The oldest command leaves the queue.  Of the streams that wait only the one it is from
\* may move, of those that are over none.
LEMMA QueueShrinks ==
  ASSUME QueueInv, NEW n \in Ids, queue[n] # <<>>, queue' = [queue EXCEPT ![n] = Tail(@)],
         UNCHANGED <<made, via, ask, asked>>,
         \A s \in Slots : stage[s] \in {"acquiring", "over"} =>
           \/ stage'[s] = stage[s]
           \/ /\ stage[s] = "acquiring"
              /\ Head(queue[n]).op = "acquire" /\ Head(queue[n]).from = s
  PROVE  /\ QueueInv' /\ Recalled
         /\ Head(queue[n]) \in Command /\ InStep(n, Head(queue[n]))
         /\ \A m \in Ids : queue'[m] = IF m = n THEN Tail(queue[n]) ELSE queue[m]
<1>1. /\ queue = [m \in Ids |-> queue[m]]
      /\ \A m \in Ids : queue[m] \in Seq(Command) /\ OneEach(queue[m])
      /\ \A m \in Ids : \A k \in DOMAIN queue[m] : InStep(m, queue[m][k])
  BY DEF QueueInv
<1>2. /\ queue' = [m \in Ids |-> queue'[m]]
      /\ \A m \in Ids : queue'[m] = IF m = n THEN Tail(queue[n]) ELSE queue[m]
  BY <1>1
<1>3. Recalled
  BY DEF Recalled, Requested, MadeStays
<1>4. PICK head : head = Head(queue[n])
  OBVIOUS
<1>5. head \in Command /\ InStep(n, head)
  <2>1. 1 \in DOMAIN queue[n] /\ head = queue[n][1] /\ queue[n][1] \in Command
    BY <1>1, <1>4
  <2> QED
    BY <1>1, <2>1
<1>6. ASSUME NEW m \in Ids
      PROVE  queue'[m] \in Seq(Command) /\ OneEach(queue'[m])
  <2>1. CASE m = n
    BY <1>1, <1>2, <2>1, OneEachShrinks
  <2>2. CASE m # n
    BY <1>1, <1>2, <2>2
  <2> QED
    BY <2>1, <2>2
<1>7. ASSUME NEW m \in Ids, NEW k \in DOMAIN queue'[m]
      PROVE  (k \in DOMAIN queue[m] => InStep(m, queue[m][k]))'
  <2>1. PICK cmd : cmd = queue'[m][k]
    OBVIOUS
  <2>2. /\ cmd \in Command /\ InStep(m, cmd)
        /\ m = n /\ cmd.op = "acquire" /\ head.op = "acquire" => cmd.from # head.from
    <3>1. CASE m = n
      <4>1. /\ k + 1 \in DOMAIN queue[n] /\ cmd = queue[n][k + 1]
            /\ cmd.op = "acquire" /\ head.op = "acquire" => cmd.from # head.from
        BY <1>1, <1>2, <1>4, <1>7, <2>1, <3>1, OneEachShrinks
      <4>2. queue[n][k + 1] \in Command
        BY <1>1, <4>1
      <4> QED
        BY <1>1, <3>1, <4>1, <4>2
    <3>2. CASE m # n
      <4>1. k \in DOMAIN queue[m] /\ cmd = queue[m][k]
        BY <1>2, <1>7, <2>1, <3>2
      <4>2. queue[m][k] \in Command
        BY <1>1, <4>1
      <4> QED
        BY <1>1, <3>2, <4>1, <4>2
    <3> QED
      BY <3>1, <3>2
  <2>3. cmd.op = "acquire" =>
          /\ cmd.from \in Slots /\ stage[cmd.from] \in {"acquiring", "over"}
          /\ stage[cmd.from] = "acquiring" => via[cmd.from] = m
    BY <2>2 DEF Command, InStep
  <2>4. head.op = "acquire" /\ stage[head.from] = "acquiring" => via[head.from] = n
    BY <1>5 DEF InStep
  <2>5. cmd.op = "acquire" => stage'[cmd.from] = stage[cmd.from]
    BY <1>4, <2>2, <2>3, <2>4
  <2>6. InStep(m, cmd)'
    BY <1>3, <2>2, <2>5, CommandKept
  <2> QED
    BY <2>1, <2>6
<1>8. QueueInv'
  BY <1>1, <1>2, <1>6, <1>7 DEF QueueInv
<1> QED
  BY <1>2, <1>3, <1>4, <1>5, <1>8

\* Streams that listen are cut off.
LEMMA StreamsDetach ==
  ASSUME StreamInv, NEW R, stage' = Detach(R), UNCHANGED <<ask, via, managers, asked>>,
         \A s \in R \cap Slots : stage[s] = "live" /\ Requested(ask[s].of)
  PROVE  /\ SlotInv' /\ EndsOnlyOnRequest'
         /\ \A m, x : Receivers(m, x)' = Receivers(m, x) \ R
         /\ \A s \in Slots : stage[s] \in {"acquiring", "over"} => stage'[s] = stage[s]
<1>1. /\ stage = [s \in Slots |-> stage[s]] /\ ask = [s \in Slots |-> ask[s]]
      /\ via = [s \in Slots |-> via[s]]
  BY DEF StreamInv, SlotInv
<1>2. /\ stage' = [s \in Slots |-> stage'[s]]
      /\ \A s \in Slots : stage'[s] = IF s \in R THEN "detached" ELSE stage[s]
  BY DEF Detach
<1>3. ASSUME NEW s \in Slots
      PROVE  SlotFits(s)'
  <2>1. SlotFits(s) /\ (s \in R => stage[s] = "live")
    BY DEF StreamInv, SlotInv
  <2> QED
    BY <1>2, <2>1 DEF SlotFits, Coined, Personal
<1>4. EndsOnlyOnRequest'
  BY <1>2 DEF StreamInv, EndsOnlyOnRequest, Requested
<1>5. \A m, x : Receivers(m, x)' = Receivers(m, x) \ R
  BY <1>2 DEF Receivers, SubOf
<1> QED
  BY <1>1, <1>2, <1>3, <1>4, <1>5 DEF SlotInv

\* What is left when subscriptions are given up.
LEMMA GivenUp ==
  ASSUME CountInv, NEW n \in Ids, NEW gone, GiveUp(n, gone)
  PROVE  /\ held' \in [Ids -> [Subs -> Nat]]
         /\ \A m \in Ids : \A x \in Subs :
              held'[m][x] = IF m = n /\ x \in gone THEN 0 ELSE held[m][x]
<1>1. held \in [Ids -> [Subs -> Nat]]
  BY DEF CountInv
<1>2. held' = [held EXCEPT ![n] = [x \in Subs |-> IF x \in gone THEN 0 ELSE @[x]]]
  BY DEF GiveUp
<1>3. PICK left : left = [x \in Subs |-> IF x \in gone THEN 0 ELSE held[n][x]]
  OBVIOUS
<1>4. left \in [Subs -> Nat]
  BY <1>1, <1>3
<1>5. held' = [held EXCEPT ![n] = left]
  BY <1>2, <1>3
<1> QED
  BY <1>1, <1>3, <1>4, <1>5

LEMMA AcquireStep ==
  ASSUME StreamInv, NEW n \in Ids, HandleCommand(n), Head(queue[n]).op = "acquire"
  PROVE  StreamInv'
<1>1. PICK cmd : cmd = Head(queue[n])
  OBVIOUS
<1>2. /\ queue[n] # <<>> /\ queue' = [queue EXCEPT ![n] = Tail(@)]
      /\ UNCHANGED <<registered, managers, made, ask, via, asked>>
      /\ held' = [held EXCEPT ![n][cmd.sub] = @ + 1]
      /\ stage' = [stage EXCEPT ![cmd.from] = IF @ = "acquiring" THEN "live" ELSE @]
  BY <1>1 DEF HandleCommand, HandleAcquire, table
<1>3. /\ stage = [s \in Slots |-> stage[s]] /\ ask = [s \in Slots |-> ask[s]]
      /\ via = [s \in Slots |-> via[s]]
  BY DEF StreamInv, SlotInv
<1>4. \A s \in Slots : stage'[s] = IF s = cmd.from /\ stage[s] = "acquiring" THEN "live" ELSE stage[s]
  BY <1>2, <1>3
<1>5. /\ QueueInv' /\ Recalled /\ cmd \in Command /\ InStep(n, cmd)
      /\ \A m \in Ids : queue'[m] = IF m = n THEN Tail(queue[n]) ELSE queue[m]
  BY <1>1, <1>2, <1>4, QueueShrinks, ZenonT(40) DEF StreamInv
<1>6. /\ cmd.op = "acquire" /\ cmd.from \in Slots /\ cmd.sub \in Subs
      /\ stage[cmd.from] = "acquiring" => via[cmd.from] = n /\ SubOf(cmd.from) = cmd.sub
  BY <1>1, <1>5 DEF Command, InStep
<1>7. TableInv'
  BY <1>2 DEF StreamInv, TableInv
<1>8. ASSUME NEW s \in Slots
      PROVE  SlotFits(s)'
  <2>1. SlotFits(s)
    BY DEF StreamInv, SlotInv
  <2>2. CASE stage[s] = "acquiring"
    BY <1>2, <1>4, <2>1, <2>2 DEF SlotFits, Coined, Personal
  <2>3. CASE stage[s] # "acquiring"
    BY <1>2, <1>4, <2>1, <2>3 DEF SlotFits, Coined, Personal
  <2> QED
    BY <2>2, <2>3
<1>9. SlotInv'
  BY <1>2, <1>3, <1>8 DEF SlotInv
<1>10. EndsOnlyOnRequest'
  BY <1>2, <1>4 DEF StreamInv, EndsOnlyOnRequest
<1>11. held \in [Ids -> [Subs -> Nat]]
  BY DEF StreamInv, CountInv
<1>12. /\ held' \in [Ids -> [Subs -> Nat]]
       /\ \A m \in Ids : \A x \in Subs :
            held'[m][x] = IF m = n /\ x = cmd.sub THEN held[m][x] + 1 ELSE held[m][x]
  <2>1. PICK more : more = [held[n] EXCEPT ![cmd.sub] = @ + 1]
    OBVIOUS
  <2>2. /\ more \in [Subs -> Nat]
        /\ \A x \in Subs : more[x] = IF x = cmd.sub THEN held[n][x] + 1 ELSE held[n][x]
    BY <1>6, <1>11, <2>1
  <2>3. held' = [held EXCEPT ![n] = more]
    BY <1>2, <2>1
  <2> QED
    BY <1>11, <2>2, <2>3
<1>13. ASSUME NEW m \in Ids, NEW x \in Subs, ~Requested(x.of)'
       PROVE  held'[m][x] >= Cardinality(Receivers(m, x)') + Cardinality(Releases(queue'[m], x))
  <2>1. /\ held[m][x] \in Nat
        /\ held[m][x] >= Cardinality(Receivers(m, x)) + Cardinality(Releases(queue[m], x))
    BY <1>5, <1>11, <1>13 DEF StreamInv, CountInv, Recalled
  <2>2. queue[m] \in Seq(Command) /\ queue'[m] \in Seq(Command)
    BY <1>5 DEF StreamInv, QueueInv
  <2>3. Cardinality(Releases(queue[m], x)) \in Nat /\ Cardinality(Releases(queue'[m], x)) \in Nat
    BY <2>2, ReleasesAreFinite
  <2>4. Cardinality(Releases(queue'[m], x)) <= Cardinality(Releases(queue[m], x))
    <3>1. CASE m = n
      <4>1. Cardinality(Releases(Tail(queue[n]), x)) <= Cardinality(Releases(queue[n], x)) - 0
        BY <1>1, <1>2, <1>6, <2>2, <3>1, HeadRemoved
      <4> QED
        BY <1>5, <2>3, <3>1, <4>1
    <3>2. CASE m # n
      BY <1>5, <2>3, <3>2
    <3> QED
      BY <3>1, <3>2
  <2>5. PICK old, new : old = Receivers(m, x) /\ new = Receivers(m, x)'
    OBVIOUS
  <2>6. IsFiniteSet(old) /\ IsFiniteSet(new) /\ Cardinality(old) \in Nat /\ Cardinality(new) \in Nat
    BY <2>5, ListenersAreFinite
  <2>7. CASE m = n /\ x = cmd.sub
    <3>1. new \subseteq old \cup {cmd.from}
      BY <1>2, <1>4, <2>5 DEF Receivers, SubOf
    <3>2. /\ IsFiniteSet(old \cup {cmd.from})
          /\ Cardinality(old \cup {cmd.from}) <= Cardinality(old) + 1
      BY <2>6, FS_AddElement, SMTT(30)
    <3>3. Cardinality(new) <= Cardinality(old \cup {cmd.from})
      BY <3>1, <3>2, FS_Subset
    <3>4. Cardinality(old \cup {cmd.from}) \in Nat
      BY <3>2, FS_CardinalityType
    <3> QED
      BY <1>12, <2>1, <2>3, <2>4, <2>5, <2>6, <2>7, <3>2, <3>3, <3>4
  <2>8. CASE ~(m = n /\ x = cmd.sub)
    <3>1. stage[cmd.from] = "acquiring" => SubOf(cmd.from)' = cmd.sub /\ via'[cmd.from] = n
      BY <1>2, <1>6 DEF SubOf
    <3>2. \A s \in new : s \in old
      BY <1>2, <1>4, <2>5, <2>8, <3>1 DEF Receivers, SubOf
    <3>3. Cardinality(new) <= Cardinality(old)
      BY <2>6, <3>2, FS_Subset
    <3> QED
      BY <1>12, <2>1, <2>3, <2>4, <2>5, <2>6, <2>8, <3>3
  <2> QED
    BY <2>7, <2>8
<1> QED
  BY <1>5, <1>7, <1>9, <1>10, <1>12, <1>13 DEF StreamInv, CountInv

\* What was counted, less one for the release taken, still covers the listeners that stay
\* and the releases to come.
LEMMA CountFalls ==
  ASSUME StreamInv, NEW n \in Ids, queue[n] # <<>>, NEW cmd \in Command, cmd = Head(queue[n]),
         cmd.op = "release", UNCHANGED asked,
         \A m \in Ids : queue'[m] = IF m = n THEN Tail(queue[n]) ELSE queue[m],
         held' \in [Ids -> [Subs -> Nat]],
         \A m \in Ids : \A x \in Subs : ~(m = n /\ x = cmd.sub) => held'[m][x] = held[m][x],
         ~Requested(cmd.sub.of) => held'[n][cmd.sub] >= held[n][cmd.sub] - 1,
         \A m, x : Receivers(m, x)' \subseteq Receivers(m, x)
  PROVE  CountInv'
<1>1. cmd.sub \in Subs /\ \A x : Requested(x)' <=> Requested(x)
  BY DEF Command, Requested
<1>2. ASSUME NEW m \in Ids, NEW x \in Subs, ~Requested(x.of)'
      PROVE  held'[m][x] >= Cardinality(Receivers(m, x)') + Cardinality(Releases(queue'[m], x))
  <2>1. /\ held[m][x] \in Nat /\ held'[m][x] \in Nat
        /\ held[m][x] >= Cardinality(Receivers(m, x)) + Cardinality(Releases(queue[m], x))
        /\ ~Requested(x.of)
    BY <1>1, <1>2 DEF StreamInv, CountInv
  <2>2. queue[m] \in Seq(Command) /\ queue[n] \in Seq(Command)
    BY DEF StreamInv, QueueInv
  <2>3. Tail(queue[n]) \in Seq(Command)
    BY <2>2
  <2>4. /\ Cardinality(Releases(queue[m], x)) \in Nat
        /\ Cardinality(Releases(Tail(queue[n]), x)) \in Nat
    BY <2>2, <2>3, ReleasesAreFinite
  <2>5. PICK old, new : old = Receivers(m, x) /\ new = Receivers(m, x)'
    OBVIOUS
  <2>6. IsFiniteSet(old) /\ Cardinality(old) \in Nat /\ Cardinality(new) \in Nat
    BY <2>5, ListenersAreFinite
  <2>7. new \in SUBSET old
    BY <2>5
  <2>8. Cardinality(new) <= Cardinality(old)
    BY <2>6, <2>7, FS_Subset
  <2>9. CASE m = n /\ x = cmd.sub
    <3>1. Cardinality(Releases(Tail(queue[n]), x)) <= Cardinality(Releases(queue[n], x)) - 1
      BY <2>2, <2>9, HeadRemoved
    <3>2. held'[m][x] >= held[m][x] - 1 /\ queue'[m] = Tail(queue[n])
      BY <2>1, <2>9
    <3> QED
      BY <2>1, <2>4, <2>5, <2>6, <2>8, <2>9, <3>1, <3>2, SMTT(30)
  <2>10. CASE m = n /\ x # cmd.sub
    <3>1. Cardinality(Releases(Tail(queue[n]), x)) <= Cardinality(Releases(queue[n], x)) - 0
      BY <2>2, <2>10, HeadRemoved
    <3>2. held'[m][x] = held[m][x] /\ queue'[m] = Tail(queue[n])
      BY <2>10
    <3> QED
      BY <2>1, <2>4, <2>5, <2>6, <2>8, <2>10, <3>1, <3>2
  <2>11. CASE m # n
    BY <2>1, <2>4, <2>5, <2>6, <2>8, <2>11
  <2> QED
    BY <2>9, <2>10, <2>11
<1> QED
  BY <1>2 DEF CountInv

\* The last reference that nobody unsubscribed is given up when no stream listens.
LEMMA LastRelease ==
  ASSUME StreamInv, NEW n \in Ids, queue[n] # <<>>, NEW cmd \in Command, cmd = Head(queue[n]),
         cmd.op = "release", held[n][cmd.sub] = 1, ~Requested(cmd.sub.of)
  PROVE  Receivers(n, cmd.sub) = {}
<1>1. cmd.sub \in Subs
  BY DEF Command
<1>2. queue[n] \in Seq(Command) /\ Tail(queue[n]) \in Seq(Command)
  BY DEF StreamInv, QueueInv
<1>3. /\ Cardinality(Releases(queue[n], cmd.sub)) \in Nat
      /\ Cardinality(Releases(Tail(queue[n]), cmd.sub)) \in Nat
  BY <1>2, ReleasesAreFinite
<1>4. Cardinality(Releases(Tail(queue[n]), cmd.sub)) <= Cardinality(Releases(queue[n], cmd.sub)) - 1
  BY <1>2, HeadRemoved
<1>5. 1 >= Cardinality(Receivers(n, cmd.sub)) + Cardinality(Releases(queue[n], cmd.sub))
  BY <1>1 DEF StreamInv, CountInv
<1>6. IsFiniteSet(Receivers(n, cmd.sub)) /\ Cardinality(Receivers(n, cmd.sub)) \in Nat
  BY ListenersAreFinite
<1>7. Cardinality(Receivers(n, cmd.sub)) = 0
  BY <1>3, <1>4, <1>5, <1>6
<1> QED
  BY <1>6, <1>7, FS_EmptySet

LEMMA ReleaseStep ==
  ASSUME StreamInv, NEW n \in Ids, HandleCommand(n), Head(queue[n]).op = "release"
  PROVE  StreamInv'
<1>1. PICK cmd : cmd = Head(queue[n])
  OBVIOUS
<1>2. /\ queue[n] # <<>> /\ queue' = [queue EXCEPT ![n] = Tail(@)]
      /\ UNCHANGED <<registered, managers, made, ask, via, asked>>
      /\ HandleRelease(n, cmd)
  BY <1>1 DEF HandleCommand, table
<1>3. cmd \in Command /\ cmd.op = "release" /\ cmd.sub \in Subs
  <2>1. queue[n] \in Seq(Command)
    BY DEF StreamInv, QueueInv
  <2> QED
    BY <1>1, <1>2, <2>1 DEF Command
<1>4. held \in [Ids -> [Subs -> Nat]] /\ stage = [s \in Slots |-> stage[s]]
  BY DEF StreamInv, CountInv, SlotInv
<1>5. PICK R :
        /\ stage' = Detach(R)
        /\ \A s \in R \cap Slots : stage[s] = "live" /\ Requested(ask[s].of)
        /\ held' \in [Ids -> [Subs -> Nat]]
        /\ \A m \in Ids : \A x \in Subs : ~(m = n /\ x = cmd.sub) => held'[m][x] = held[m][x]
        /\ ~Requested(cmd.sub.of) => held'[n][cmd.sub] >= held[n][cmd.sub] - 1
  <2>1. CASE held[n][cmd.sub] = 1
    <3>1. PICK R : R = Receivers(n, cmd.sub)
      OBVIOUS
    <3>2. GiveUp(n, {cmd.sub}) /\ stage' = Detach(R)
      BY <1>2, <2>1, <3>1 DEF HandleRelease
    <3>3. /\ held' \in [Ids -> [Subs -> Nat]]
          /\ \A m \in Ids : \A x \in Subs :
               held'[m][x] = IF m = n /\ x \in {cmd.sub} THEN 0 ELSE held[m][x]
      BY <3>2, GivenUp DEF StreamInv
    <3>4. ASSUME NEW s \in R
          PROVE  stage[s] = "live" /\ Requested(ask[s].of)
      <4>1. s \in Slots /\ stage[s] = "live" /\ SubOf(s) = cmd.sub
        BY <3>1 DEF Receivers
      <4>2. Coined(s) \/ Personal(s)
        BY <4>1 DEF StreamInv, SlotInv, SlotFits
      <4>3. ask[s].of = cmd.sub.of
        BY <4>1, <4>2, SubOfFits
      <4>4. Requested(cmd.sub.of)
        BY <1>1, <1>2, <1>3, <2>1, <3>1, LastRelease
      <4> QED
        BY <4>1, <4>3, <4>4
    <3> QED
      BY <1>3, <2>1, <3>2, <3>3, <3>4
  <2>2. CASE held[n][cmd.sub] # 1
    <3>1. /\ stage' = stage
          /\ held' = [held EXCEPT ![n][cmd.sub] = IF held[n][cmd.sub] > 1 THEN held[n][cmd.sub] - 1
                                                   ELSE held[n][cmd.sub]]
      BY <1>2, <2>2 DEF HandleRelease
    <3>2. PICK less, count : /\ count = (IF held[n][cmd.sub] > 1 THEN held[n][cmd.sub] - 1
                                         ELSE held[n][cmd.sub])
                             /\ less = [held[n] EXCEPT ![cmd.sub] = count]
      OBVIOUS
    <3>3. count \in Nat /\ count >= held[n][cmd.sub] - 1
      BY <1>3, <1>4, <3>2
    <3>4. /\ less \in [Subs -> Nat] /\ less[cmd.sub] = count
          /\ \A x \in Subs : x # cmd.sub => less[x] = held[n][x]
      BY <1>3, <1>4, <3>2, <3>3
    <3>5. held' = [held EXCEPT ![n] = less]
      BY <3>1, <3>2
    <3>6. /\ held' \in [Ids -> [Subs -> Nat]] /\ held'[n] = less
          /\ \A m \in Ids : m # n => held'[m] = held[m]
      BY <1>4, <3>4, <3>5
    <3>7. stage' = Detach({})
      BY <1>4, <3>1 DEF Detach
    <3> QED
      BY <3>3, <3>4, <3>6, <3>7
  <2> QED
    BY <2>1, <2>2
<1>6. /\ SlotInv' /\ EndsOnlyOnRequest'
      /\ \A m, x : Receivers(m, x)' = Receivers(m, x) \ R
      /\ \A s \in Slots : stage[s] \in {"acquiring", "over"} => stage'[s] = stage[s]
  BY <1>2, <1>5, StreamsDetach
<1>7. /\ QueueInv'
      /\ \A m \in Ids : queue'[m] = IF m = n THEN Tail(queue[n]) ELSE queue[m]
  BY <1>2, <1>6, QueueShrinks DEF StreamInv
<1>8. CountInv'
  BY <1>1, <1>2, <1>3, <1>5, <1>6, <1>7, CountFalls
<1>9. TableInv'
  BY <1>2 DEF StreamInv, TableInv
<1> QED
  BY <1>6, <1>7, <1>8, <1>9 DEF StreamInv

\* A shutdown comes to the market's manager, after unsubscribe_all.
LEMMA ShutdownStep ==
  ASSUME StreamInv, NEW n \in Ids, HandleCommand(n), Head(queue[n]).op = "shutdown"
  PROVE  StreamInv'
<1>1. PICK cmd : cmd = Head(queue[n])
  OBVIOUS
<1>2. PICK R : R = UNION {Receivers(n, x) : x \in Subs}
  OBVIOUS
<1>3. /\ queue[n] # <<>> /\ queue' = [queue EXCEPT ![n] = Tail(@)]
      /\ UNCHANGED <<registered, managers, made, ask, via, asked>>
      /\ GiveUp(n, Subs) /\ stage' = Detach(R)
  BY <1>1, <1>2 DEF HandleCommand, HandleShutdown, table
<1>4. queue[n] \in Seq(Command) /\ 1 \in DOMAIN queue[n] /\ cmd = queue[n][1]
  BY <1>1, <1>3 DEF StreamInv, QueueInv
<1>5. n = Market /\ \A c \in Coins : Requested(c)
  BY <1>1, <1>4 DEF StreamInv, QueueInv, InStep
<1>6. ASSUME NEW s \in R
      PROVE  s \in Slots /\ stage[s] = "live" /\ Requested(ask[s].of)
  <2>1. s \in Slots /\ stage[s] = "live" /\ via[s] = n
    BY <1>2 DEF Receivers
  <2>2. Coined(s)
    BY <1>5, <2>1 DEF StreamInv, SlotInv, SlotFits
  <2> QED
    BY <1>5, <2>1, <2>2 DEF Coined
<1>7. /\ SlotInv' /\ EndsOnlyOnRequest'
      /\ \A m, x : Receivers(m, x)' = Receivers(m, x) \ R
      /\ \A s \in Slots : stage[s] \in {"acquiring", "over"} => stage'[s] = stage[s]
  BY <1>3, <1>6, StreamsDetach
<1>8. /\ QueueInv' /\ Recalled
      /\ \A m \in Ids : queue'[m] = IF m = n THEN Tail(queue[n]) ELSE queue[m]
  BY <1>3, <1>7, QueueShrinks DEF StreamInv
<1>9. /\ held' \in [Ids -> [Subs -> Nat]]
      /\ \A m \in Ids : \A x \in Subs : held'[m][x] = IF m = n /\ x \in Subs THEN 0 ELSE held[m][x]
  BY <1>3, GivenUp DEF StreamInv
<1>10. ASSUME NEW m \in Ids, NEW x \in Subs, ~Requested(x.of)'
       PROVE  held'[m][x] >= Cardinality(Receivers(m, x)') + Cardinality(Releases(queue'[m], x))
  <2>1. CASE m = n
    <3>1. Receivers(m, x)' = {}
      BY <1>2, <1>7, <2>1
    <3>2. queue'[m] \in Seq(Command) /\ \A k \in DOMAIN queue'[m] : queue'[m][k].op = "release" =>
            queue'[m][k].sub.of \in Coins \/ Requested(queue[m][k].sub.of)'
      BY <1>5, <1>8, <2>1 DEF QueueInv, InStep
    <3>3. \A c \in Coins : Requested(c)'
      BY <1>5, <1>8 DEF Recalled
    <3>4. Releases(queue'[m], x) = {}
      BY <1>10, <3>2, <3>3 DEF Releases
    <3> QED
      BY <1>9, <2>1, <3>1, <3>4, FS_EmptySet
  <2>2. CASE m # n
    <3>1. queue'[m] = queue[m] /\ held'[m][x] = held[m][x] /\ ~Requested(x.of)
      BY <1>8, <1>9, <1>10, <2>2 DEF Recalled
    <3>2. /\ held[m][x] \in Nat
          /\ held[m][x] >= Cardinality(Receivers(m, x)) + Cardinality(Releases(queue[m], x))
      BY <3>1 DEF StreamInv, CountInv
    <3>3. Cardinality(Releases(queue[m], x)) \in Nat
      BY ReleasesAreFinite DEF StreamInv, QueueInv
    <3>4. PICK old, new : old = Receivers(m, x) /\ new = Receivers(m, x)'
      OBVIOUS
    <3>5. IsFiniteSet(old) /\ Cardinality(old) \in Nat /\ Cardinality(new) \in Nat
      BY <3>4, ListenersAreFinite
    <3>6. new \in SUBSET old
      BY <1>7, <3>4
    <3>7. Cardinality(new) <= Cardinality(old)
      BY <3>5, <3>6, FS_Subset
    <3> QED
      BY <3>1, <3>2, <3>3, <3>4, <3>5, <3>7
  <2> QED
    BY <2>1, <2>2
<1>11. CountInv'
  BY <1>9, <1>10 DEF CountInv
<1>12. TableInv'
  BY <1>3 DEF StreamInv, TableInv
<1> QED
  BY <1>7, <1>8, <1>11, <1>12 DEF StreamInv

LEMMA StreamInit == Init => StreamInv
<1> SUFFICES ASSUME Init PROVE StreamInv
  OBVIOUS
<1>1. TableInv
  BY TableInit
<1>2. SlotInv
  BY DEF Init, SlotInv, SlotFits
<1>3. QueueInv
  <2>1. asked = <<>> /\ queue = [m \in Ids |-> <<>>]
    BY DEF Init
  <2>2. \A m \in Ids : queue[m] = <<>>
    BY <2>1
  <2> QED
    BY <2>1, <2>2 DEF QueueInv, OneEach
<1>4. ASSUME NEW m \in Ids, NEW x \in Subs
      PROVE  held[m][x] >= Cardinality(Receivers(m, x)) + Cardinality(Releases(queue[m], x))
  <2>1. Receivers(m, x) = {}
    BY DEF Init, Receivers
  <2>2. Releases(queue[m], x) = {}
    BY DEF Init, Releases
  <2>3. held[m][x] = 0
    BY DEF Init
  <2> QED
    BY <2>1, <2>2, <2>3, FS_EmptySet
<1>5. held \in [Ids -> [Subs -> Nat]]
  BY DEF Init
<1>6. EndsOnlyOnRequest
  BY DEF Init, EndsOnlyOnRequest
<1> QED
  BY <1>1, <1>2, <1>3, <1>4, <1>5, <1>6 DEF StreamInv, CountInv

LEMMA StreamStep ==
  ASSUME StreamInv, [Next]_vars
  PROVE  StreamInv'
<1>1. CASE \E s \in Slots : Subscribe(s) \/ GetOrCreate(s) \/ Open(s) \/ RecvClosed(s) \/ Drop(s)
  BY <1>1, SubscribeStep, GetOrCreateStep, OpenStep, EndStep
<1>2. CASE UNCHANGED vars \/ \E s \in Slots : Recv(s)
  <2>1. UNCHANGED <<registered, managers, made, held, queue, stage, ask, via, asked>>
    BY <1>2 DEF vars, table, Recv
  <2> QED
    BY <2>1, ReadStep
<1>3. CASE \E m \in Ids : Publish(m) \/ Dispatch(m)
  <2>1. UNCHANGED <<registered, managers, made, held, queue, stage, ask, via, asked>>
    BY <1>3 DEF Publish, Dispatch, table
  <2> QED
    BY <2>1, ReadStep
<1>4. CASE UnsubscribeUserEvents \/ UnsubscribeAll \/ \E c \in Coins : UnsubscribeMarketData(c)
  BY <1>4, UnsubscribeUserEventsStep, UnsubscribeMarketStep
<1>5. ASSUME NEW m \in Ids, HandleCommand(m)
      PROVE  StreamInv'
  <2>1. Head(queue[m]).op \in {"acquire", "release", "shutdown"}
    BY <1>5 DEF HandleCommand
  <2> QED
    BY <1>5, <2>1, AcquireStep, ReleaseStep, ShutdownStep
<1> QED
  BY <1>1, <1>2, <1>3, <1>4, <1>5 DEF Next

LEMMA StreamInvariant == Spec => []StreamInv
BY StreamInit, StreamStep, PTL DEF Spec

\* A user has one manager, however many first calls race for the write lock of the table,
\* and a stream's manager is the one of the user, or the market, it asks about.
THEOREM ManagersAreOnePerUser == Spec => []OneManagerPerUser
<1>1. StreamInv => OneManagerPerUser
  <2> SUFFICES ASSUME StreamInv
               PROVE  OneManagerPerUser
    OBVIOUS
  <2>1. \A k, n \in DOMAIN made : made[k] = made[n] => k = n
    BY DEF StreamInv, TableInv
  <2>2. ASSUME NEW s \in Slots, stage[s] \in {"made", "acquiring", "live", "detached"}
        PROVE  /\ ManagerUser(via[s]) = IF ask[s].method \in CoinMethods THEN {} ELSE {ask[s].of}
               /\ via[s] # Market => via[s] = managers[ask[s].of]
    <3>1. \/ Coined(s) /\ via[s] = Market
          \/ Personal(s) /\ via[s] # Market /\ via[s] = managers[ask[s].of]
      BY <2>2 DEF StreamInv, SlotInv, SlotFits
    <3>2. CASE Coined(s) /\ via[s] = Market
      BY <3>2 DEF Coined, ManagerUser
    <3>3. CASE Personal(s) /\ via[s] # Market /\ via[s] = managers[ask[s].of]
      <4>1. ask[s].of \in Users /\ ask[s].method \notin CoinMethods
        BY <3>3 DEF Personal, CoinMethods, OwnMethods, AnyMethods
      <4>2. made[via[s]] = ask[s].of
        BY <3>3, <4>1 DEF StreamInv, TableInv
      <4> QED
        BY <3>3, <4>1, <4>2 DEF ManagerUser
    <3> QED
      BY <3>1, <3>2, <3>3
  <2> QED
    BY <2>1, <2>2 DEF OneManagerPerUser
<1> QED
  BY <1>1, StreamInvariant, PTL

\* A stream of a coin or a user that nobody unsubscribed is not cut off, whoever drops or
\* unsubscribes what else, although a release does not say whose reference it gives back.
THEOREM StreamsEndOnlyOnRequest == Spec => []EndsOnlyOnRequest
<1>1. StreamInv => EndsOnlyOnRequest
  BY DEF StreamInv
<1> QED
  BY <1>1, StreamInvariant, PTL

-----------------------------------------------------------------------------
(* The exchange holds what is counted. *)

\* What names a subscription is spelled alike where it is given up, and names no other.
LEMMA Names ==
  /\ \A x \in Subs : SubscriptionPayload(x) = Outbound(x)
  /\ \A x, y \in Subs : Outbound(x) = Outbound(y) => x = y
<1>1. ASSUME NEW x \in Subs
      PROVE  /\ SubscriptionPayload(x) = Outbound(x)
             /\ x = Sub(x.type, x.of) /\ x.type \in CoinTypes \cup UserTypes
             /\ x.type \in CoinTypes => Outbound(x).coin = x.of
             /\ x.type \in UserTypes => Outbound(x).user = x.of
  BY DEF Subs, Sub, CoinTypes, UserTypes, SubscriptionPayload, Outbound
<1>2. ASSUME NEW x \in Subs, NEW y \in Subs, Outbound(x).type = Outbound(y).type
      PROVE  x.type = y.type
  BY <1>1, <1>2 DEF CoinTypes, UserTypes, Outbound
<1> QED
  BY <1>1, <1>2

Named(count) == {Outbound(x) : x \in {y \in Subs : count[y] > 0}}

ServerInv ==
  /\ told = [m \in Ids |-> told[m]] /\ turned = [m \in Ids |-> turned[m]]
  /\ \A m \in Ids : told[m] \cup turned[m] = Named(held[m])

LEMMA GiveUpAgrees ==
  ASSUME ServerInv, CountInv, NEW n \in Ids, NEW gone \in SUBSET Subs, GiveUp(n, gone)
  PROVE  ServerInv'
<1>1. /\ held' \in [Ids -> [Subs -> Nat]] /\ held \in [Ids -> [Subs -> Nat]]
      /\ \A m \in Ids : \A x \in Subs :
           held'[m][x] = IF m = n /\ x \in gone THEN 0 ELSE held[m][x]
  BY GivenUp DEF CountInv
<1>2. PICK dropped : dropped = {SubscriptionPayload(x) : x \in gone}
  OBVIOUS
<1>3. PICK idle : idle = (\A x \in Subs : held'[n][x] = 0)
  OBVIOUS
<1>4. /\ told' = [told EXCEPT ![n] = IF idle THEN {} ELSE @ \ dropped]
      /\ turned' = [turned EXCEPT ![n] = IF idle THEN {} ELSE @ \ dropped]
  BY <1>2, <1>3 DEF GiveUp
<1>5. /\ told' = [m \in Ids |-> told'[m]] /\ turned' = [m \in Ids |-> turned'[m]]
      /\ \A m \in Ids : m # n => told'[m] = told[m] /\ turned'[m] = turned[m]
  BY <1>4 DEF ServerInv
<1>6. told'[n] \cup turned'[n] = Named(held'[n])
  <2>1. CASE \A x \in Subs : held'[n][x] = 0
    <3>1. told'[n] = {} /\ turned'[n] = {}
      BY <1>3, <1>4, <2>1 DEF ServerInv
    <3>2. Named(held'[n]) = {}
      BY <2>1 DEF Named
    <3> QED
      BY <3>1, <3>2
  <2>2. CASE ~(\A x \in Subs : held'[n][x] = 0)
    <3>1. told'[n] = told[n] \ dropped /\ turned'[n] = turned[n] \ dropped
      BY <1>3, <1>4, <2>2 DEF ServerInv
    <3>2. told'[n] \cup turned'[n] = Named(held[n]) \ dropped
      BY <3>1 DEF ServerInv
    <3>3. dropped = {Outbound(x) : x \in gone}
      BY <1>2, Names
    <3>4. \A x \in Subs : Outbound(x) \in dropped <=> x \in gone
      BY <3>3, Names
    <3>5. \A x \in Subs : held'[n][x] > 0 <=> held[n][x] > 0 /\ x \notin gone
      BY <1>1
    <3>6. Named(held[n]) \ dropped = Named(held'[n])
      BY <3>4, <3>5 DEF Named
    <3> QED
      BY <3>2, <3>6
  <2> QED
    BY <2>1, <2>2
<1>7. ASSUME NEW m \in Ids, m # n
      PROVE  Named(held'[m]) = Named(held[m])
  BY <1>1, <1>7 DEF Named
<1>8. \A m \in Ids : told'[m] \cup turned'[m] = Named(held'[m])
  BY <1>5, <1>6, <1>7 DEF ServerInv
<1> QED
  BY <1>5, <1>8 DEF ServerInv

LEMMA ServerStep ==
  ASSUME ServerInv, StreamInv, [Next]_vars
  PROVE  ServerInv'
<1>1. CASE UNCHANGED <<held, told, turned>>
  BY <1>1 DEF ServerInv
<1>2. ASSUME NEW n \in Ids, HandleCommand(n)
      PROVE  ServerInv'
  <2>1. PICK cmd : cmd = Head(queue[n])
    OBVIOUS
  <2>2. cmd \in Command
    BY <1>2, <2>1 DEF HandleCommand, StreamInv, QueueInv
  <2>3. held \in [Ids -> [Subs -> Nat]]
    BY DEF StreamInv, CountInv
  <2>4. CASE cmd.op = "acquire"
    <3>1. HandleAcquire(n, cmd) /\ cmd.sub \in Subs
      BY <1>2, <2>1, <2>2, <2>4 DEF HandleCommand, Command
    <3>2. /\ held'[n][cmd.sub] > 0
          /\ \A m \in Ids : \A x \in Subs : ~(m = n /\ x = cmd.sub) => held'[m][x] = held[m][x]
      <4>1. PICK more : more = [held[n] EXCEPT ![cmd.sub] = @ + 1]
        OBVIOUS
      <4>2. /\ more[cmd.sub] > 0
            /\ \A x \in Subs : x # cmd.sub => more[x] = held[n][x]
        BY <2>3, <3>1, <4>1
      <4>3. held' = [held EXCEPT ![n] = more]
        BY <3>1, <4>1 DEF HandleAcquire
      <4> QED
        BY <2>3, <4>2, <4>3
    <3>3. \/ held[n][cmd.sub] > 0 /\ told' = told /\ turned' = turned
          \/ told' = [told EXCEPT ![n] = @ \cup {Outbound(cmd.sub)}] /\ turned' = turned
          \/ turned' = [turned EXCEPT ![n] = @ \cup {Outbound(cmd.sub)}] /\ told' = told
      BY <3>1 DEF HandleAcquire, server
    <3>4. /\ told' = [m \in Ids |-> told'[m]] /\ turned' = [m \in Ids |-> turned'[m]]
          /\ \A m \in Ids : m # n => told'[m] = told[m] /\ turned'[m] = turned[m]
      BY <3>3 DEF ServerInv
    <3>5. told'[n] \cup turned'[n] = Named(held[n]) \cup {Outbound(cmd.sub)}
      <4>1. told[n] \cup turned[n] = Named(held[n])
        BY DEF ServerInv
      <4>2. held[n][cmd.sub] > 0 => Outbound(cmd.sub) \in Named(held[n])
        BY <3>1 DEF Named
      <4>3. \/ held[n][cmd.sub] > 0 /\ told'[n] = told[n] /\ turned'[n] = turned[n]
            \/ told'[n] = told[n] \cup {Outbound(cmd.sub)} /\ turned'[n] = turned[n]
            \/ turned'[n] = turned[n] \cup {Outbound(cmd.sub)} /\ told'[n] = told[n]
        BY <3>3 DEF ServerInv
      <4> QED
        BY <4>1, <4>2, <4>3
    <3>6. Named(held'[n]) = Named(held[n]) \cup {Outbound(cmd.sub)}
      BY <3>1, <3>2 DEF Named
    <3>7. \A m \in Ids : m # n => Named(held'[m]) = Named(held[m])
      BY <3>2 DEF Named
    <3>8. \A m \in Ids : told'[m] \cup turned'[m] = Named(held'[m])
      BY <3>4, <3>5, <3>6, <3>7 DEF ServerInv
    <3> QED
      BY <3>4, <3>8 DEF ServerInv
  <2>5. CASE cmd.op = "release"
    <3>1. HandleRelease(n, cmd) /\ cmd.sub \in Subs
      BY <1>2, <2>1, <2>2, <2>5 DEF HandleCommand, Command
    <3>2. CASE held[n][cmd.sub] = 1
      BY <3>1, <3>2, GiveUpAgrees DEF HandleRelease, StreamInv
    <3>3. CASE held[n][cmd.sub] # 1
      <4>1. /\ told' = told /\ turned' = turned
            /\ held' = [held EXCEPT ![n][cmd.sub] =
                 IF held[n][cmd.sub] > 1 THEN held[n][cmd.sub] - 1 ELSE held[n][cmd.sub]]
        BY <3>1, <3>3 DEF HandleRelease, server
      <4>2. PICK less : less = [held[n] EXCEPT ![cmd.sub] =
                 IF held[n][cmd.sub] > 1 THEN held[n][cmd.sub] - 1 ELSE held[n][cmd.sub]]
        OBVIOUS
      <4>3. \A x \in Subs : less[x] > 0 <=> held[n][x] > 0
        BY <2>3, <3>1, <3>3, <4>2
      <4>4. held' = [held EXCEPT ![n] = less]
        BY <4>1, <4>2
      <4>5. /\ held'[n] = less
            /\ \A m \in Ids : m # n => held'[m] = held[m]
        BY <2>3, <4>4
      <4>6. Named(less) = Named(held[n])
        BY <4>3 DEF Named
      <4>7. \A m \in Ids : Named(held'[m]) = Named(held[m])
        BY <4>5, <4>6
      <4> QED
        BY <4>1, <4>7 DEF ServerInv
    <3> QED
      BY <3>2, <3>3
  <2>6. CASE cmd.op = "shutdown"
    <3>1. GiveUp(n, Subs)
      BY <1>2, <2>1, <2>6 DEF HandleCommand, HandleShutdown
    <3> QED
      BY <3>1, GiveUpAgrees DEF StreamInv
  <2> QED
    BY <2>2, <2>4, <2>5, <2>6 DEF Command
<1>3. CASE ~(\E n \in Ids : HandleCommand(n))
  <2>1. UNCHANGED <<held, told, turned>>
    BY <1>3 DEF Next, vars, server, Subscribe, GetOrCreate, Open, Recv, RecvClosed, Drop,
       UnsubscribeUserEvents, UnsubscribeAll, UnsubscribeMarketData, Publish, Dispatch
  <2> QED
    BY <1>1, <2>1
<1> QED
  BY <1>2, <1>3

\* On every connection the exchange holds exactly what the manager counts, whatever is
\* subscribed, turned down, given up or shut down, and in whatever order.
THEOREM ServerAlwaysAgrees == Spec => []ServerAgrees
<1>1. Init => ServerInv
  BY DEF Init, ServerInv, Named
<1>2. ServerInv => ServerAgrees
  BY DEF ServerInv, Named, ServerAgrees
<1> QED
  BY <1>1, <1>2, ServerStep, StreamInvariant, PTL DEF Spec

-----------------------------------------------------------------------------
(* What a stream makes of what it is given. *)

\* What a method may make of a message, and what a channel carries.
Made == UNION {UNION {ToSet(Oks(Items(method, msg))) : msg \in Messages}
                 : method \in Methods \ {"l2_update"}}

Yield == {Err} \cup Made

Carried == {Err} \cup {Ok(msg) : msg \in Messages}

ReadAll(s, box) == [k \in DOMAIN box |-> Read(s, box[k])]

\* All a stream makes of a list of what its channel carried.
Reading(s, box) == FlattenSeq(ReadAll(s, box))

LEMMA ItemsMade ==
  ASSUME NEW msg \in Messages, NEW method \in Methods \ {"l2_update"}
  PROVE  Oks(Items(method, msg)) \in Seq(Made)
<1> DEFINE given == Items(method, msg)
           oks == Oks(given)
<1>1. given \in Seq(ToSet(given))
  BY ListAssumption
<1>2. oks \in [1 .. Len(given) -> ToSet(oks)] /\ Len(given) \in Nat
  <2> HIDE DEF given
  <2>1. Len(given) \in Nat /\ DOMAIN given = 1 .. Len(given)
    BY <1>1
  <2>2. oks = [k \in 1 .. Len(given) |-> Ok(given[k])]
    BY <2>1 DEF Oks
  <2> HIDE DEF oks
  <2>3. \A k \in 1 .. Len(given) : oks[k] \in ToSet(oks)
    BY <2>1, <2>2 DEF ToSet
  <2> QED
    BY <2>1, <2>2, <2>3
<1>3. ToSet(oks) \subseteq Made
  BY DEF Made
<1> HIDE DEF oks, given
<1>4. oks \in [1 .. Len(given) -> Made]
  BY <1>2, <1>3
<1>5. oks \in Seq(Made)
  BY <1>2, <1>4
<1> QED
  BY <1>5 DEF oks, given

LEMMA ReadType ==
  ASSUME NEW s \in Slots, ask[s].method \in Methods \ {"l2_update"}
  PROVE  /\ Read(s, Err) = <<Err>>
         /\ \A carried \in Carried : Read(s, carried) \in Seq(Yield)
<1>1. Read(s, Err) = <<Err>>
  BY DEF Read
<1>2. <<Err>> \in Seq(Yield)
  BY DEF Yield
<1>3. ASSUME NEW msg \in Messages
      PROVE  Read(s, Ok(msg)) \in Seq(Yield)
  <2>1. Ok(msg) # Err /\ Ok(msg)[1] = msg
    BY DEF Ok, Err
  <2>2. Read(s, Ok(msg)) = Oks(Items(ask[s].method, msg))
    BY <2>1 DEF Read
  <2>3. Oks(Items(ask[s].method, msg)) \in Seq(Made)
    BY ItemsMade
  <2> QED
    BY <2>2, <2>3 DEF Yield
<1> QED
  BY <1>1, <1>2, <1>3 DEF Carried

LEMMA ReadAllType ==
  ASSUME NEW s \in Slots, ask[s].method \in Methods \ {"l2_update"},
         NEW box \in Seq(Carried)
  PROVE  /\ ReadAll(s, box) \in Seq(Seq(Yield)) /\ Len(ReadAll(s, box)) = Len(box)
         /\ \A k \in 1 .. Len(box) : ReadAll(s, box)[k] = Read(s, box[k])
         /\ Reading(s, box) \in Seq(Yield)
<1>1. Len(box) \in Nat /\ DOMAIN box = 1 .. Len(box) /\ \A k \in 1 .. Len(box) : box[k] \in Carried
  OBVIOUS
<1>2. ReadAll(s, box) = [k \in 1 .. Len(box) |-> Read(s, box[k])]
  BY <1>1 DEF ReadAll
<1>3. \A k \in 1 .. Len(box) : Read(s, box[k]) \in Seq(Yield)
  BY <1>1, ReadType
<1>4. ReadAll(s, box) \in Seq(Seq(Yield)) /\ Len(ReadAll(s, box)) = Len(box)
  BY <1>1, <1>2, <1>3
<1> QED
  BY <1>2, <1>4, FlattenType DEF Reading

LEMMA ReadingNothing == \A s : Reading(s, <<>>) = <<>>
<1>1. \A s : ReadAll(s, <<>>) = <<>>
  BY DEF ReadAll
<1> QED
  BY <1>1, FlattenEmpty DEF Reading

LEMMA ReadingOne ==
  ASSUME NEW s \in Slots, ask[s].method \in Methods \ {"l2_update"}, NEW carried \in Carried
  PROVE  Reading(s, <<carried>>) = Read(s, carried)
<1>1. Read(s, carried) \in Seq(Yield)
  BY ReadType
<1>2. ReadAll(s, <<carried>>) = <<Read(s, carried)>>
  BY DEF ReadAll
<1> QED
  BY <1>1, <1>2, FlattenOne DEF Reading

\* What is carried one after the other is read one after the other.
LEMMA ReadingJoins ==
  ASSUME NEW s \in Slots, ask[s].method \in Methods \ {"l2_update"},
         NEW a \in Seq(Carried), NEW b \in Seq(Carried)
  PROVE  Reading(s, a \o b) = Reading(s, a) \o Reading(s, b)
<1> DEFINE Q == Seq(Yield)
           ab == a \o b
           ra == ReadAll(s, a)
           rb == ReadAll(s, b)
           rab == ReadAll(s, ab)
<1>1. /\ Len(a) \in Nat /\ Len(b) \in Nat /\ Len(ab) = Len(a) + Len(b) /\ ab \in Seq(Carried)
      /\ \A k \in 1 .. Len(a) + Len(b) : ab[k] = IF k <= Len(a) THEN a[k] ELSE b[k - Len(a)]
  BY ConcatProperties
<1> HIDE DEF ab
<1>2. ra \in Seq(Q) /\ Len(ra) = Len(a) /\ \A k \in 1 .. Len(a) : ra[k] = Read(s, a[k])
  BY ReadAllType
<1>3. rb \in Seq(Q) /\ Len(rb) = Len(b) /\ \A k \in 1 .. Len(b) : rb[k] = Read(s, b[k])
  BY ReadAllType
<1>4. /\ rab \in Seq(Q) /\ Len(rab) = Len(a) + Len(b)
      /\ \A k \in 1 .. Len(a) + Len(b) : rab[k] = Read(s, ab[k])
  BY <1>1, ReadAllType
<1> HIDE DEF ra, rb, rab, Q
<1> DEFINE both == ra \o rb
<1>5. /\ both \in Seq(Q) /\ Len(both) = Len(a) + Len(b)
      /\ \A k \in 1 .. Len(a) + Len(b) : both[k] = IF k <= Len(a) THEN ra[k] ELSE rb[k - Len(a)]
  <2>1. /\ both \in Seq(Q) /\ Len(both) = Len(ra) + Len(rb)
        /\ \A k \in 1 .. Len(ra) + Len(rb) :
             both[k] = IF k <= Len(ra) THEN ra[k] ELSE rb[k - Len(ra)]
    BY <1>2, <1>3, ConcatProperties, ZenonT(40)
  <2> HIDE DEF both
  <2> QED
    BY <1>2, <1>3, <2>1
<1> HIDE DEF both
<1>6. \A k \in 1 .. Len(a) + Len(b) : rab[k] = both[k]
  <2> SUFFICES ASSUME NEW k \in 1 .. Len(a) + Len(b)
               PROVE  rab[k] = both[k]
    OBVIOUS
  <2>1. CASE k <= Len(a)
    <3>1. k \in 1 .. Len(a) /\ ab[k] = a[k] /\ both[k] = ra[k]
      BY <1>1, <1>5, <2>1
    <3> QED
      BY <1>2, <1>4, <3>1
  <2>2. CASE ~(k <= Len(a))
    <3>1. k - Len(a) \in 1 .. Len(b) /\ ab[k] = b[k - Len(a)] /\ both[k] = rb[k - Len(a)]
      BY <1>1, <1>5, <2>2
    <3> QED
      BY <1>3, <1>4, <3>1
  <2> QED
    BY <2>1, <2>2
<1>7. rab = both
  BY <1>4, <1>5, <1>6, SeqEqual
<1>8. FlattenSeq(both) = FlattenSeq(ra) \o FlattenSeq(rb)
  BY <1>2, <1>3, FlattenConcat DEF both, Q
<1> QED
  BY <1>7, <1>8 DEF Reading, ra, rb, rab, ab

-----------------------------------------------------------------------------
(* What a slot has read, is going to read and is owed. *)

Attached(s) == stage[s] \in {"live", "detached"}

Fresh(s) == inbox[s] = <<>> /\ yielded[s] = <<>> /\ owed[s] = <<>> /\ lagged[s] = FALSE

\* The error a stream has not noticed yet.
Gap(s) == IF lagged[s] THEN <<Err>> ELSE <<>>

ReadTypes(s) ==
  /\ inbox[s] \in Seq(Carried) /\ yielded[s] \in Seq(Yield) /\ owed[s] \in Seq(Carried)
  /\ Len(inbox[s]) <= FanoutCapacity /\ lagged[s] \in BOOLEAN
  /\ stage[s] \in {"idle", "missed", "made", "acquiring"} => Fresh(s)
  /\ stage[s] \notin {"idle", "over"} => ask[s].method \in Methods \ {"l2_update"}

\* What is owed is gone, read or overwritten, and then what is still in the channel.
Parted(s, gone) ==
  /\ gone \in Seq(Carried) /\ owed[s] = gone \o inbox[s]
  /\ Reading(s, gone) = yielded[s] \o Gap(s)

SlotRead(s) ==
  /\ ReadTypes(s)
  /\ Attached(s) => \E gone : Parted(s, gone)
  /\ stage[s] = "closed" => yielded[s] = Append(Reading(s, owed[s]), Err)

ReadInv ==
  /\ inbox = [s \in Slots |-> inbox[s]] /\ yielded = [s \in Slots |-> yielded[s]]
  /\ owed = [s \in Slots |-> owed[s]] /\ lagged = [s \in Slots |-> lagged[s]]
  /\ \A s \in Slots : SlotRead(s)

\* A slot a step has nothing to do with.
Still(s) ==
  /\ ask'[s] = ask[s] /\ inbox'[s] = inbox[s] /\ yielded'[s] = yielded[s] /\ owed'[s] = owed[s]
  /\ lagged'[s] = lagged[s]
  /\ \/ stage'[s] = stage[s]
     \/ Attached(s) /\ stage'[s] = "detached"

LEMMA ReadAlike ==
  ASSUME NEW s, ask'[s] = ask[s], NEW box
  PROVE  Reading(s, box)' = Reading(s, box')
BY DEF Reading, ReadAll, Read

LEMMA StillRead ==
  ASSUME NEW s \in Slots, SlotRead(s), Still(s)
  PROVE  SlotRead(s)'
<1>1. Attached(s)' <=> Attached(s)
  BY DEF Still, Attached
<1>2. ReadTypes(s)'
  BY DEF Still, Attached, SlotRead, ReadTypes, Fresh
<1>3. ASSUME NEW gone, Parted(s, gone)
      PROVE  Parted(s, gone)'
  BY <1>3 DEF Still, Parted, Gap, Reading, ReadAll, Read
<1>4. stage'[s] = "closed" => yielded'[s] = Append(Reading(s, owed[s])', Err)
  BY DEF Still, SlotRead, Reading, ReadAll, Read
<1> QED
  BY <1>1, <1>2, <1>3, <1>4 DEF SlotRead

\* A slot that has nothing yet.
LEMMA FreshRead ==
  ASSUME NEW s \in Slots, Fresh(s)', stage'[s] # "closed",
         stage'[s] \notin {"idle", "over"} => ask'[s].method \in Methods \ {"l2_update"}
  PROVE  SlotRead(s)'
<1>1. inbox'[s] = <<>> /\ yielded'[s] = <<>> /\ owed'[s] = <<>> /\ lagged'[s] = FALSE
  BY DEF Fresh
<1>2. <<>> \o <<>> = <<>>
  OBVIOUS
<1>3. ReadTypes(s)'
  <2>1. Len(<<>>) <= FanoutCapacity
    BY StreamAssumption
  <2>2. \A S : <<>> \in Seq(S)
    BY EmptySeq
  <2> QED
    BY <1>1, <2>1, <2>2 DEF ReadTypes
<1>4. Reading(s, <<>>)' = <<>>
  <2>1. Reading(s, <<>>)' = FlattenSeq([k \in DOMAIN <<>> |-> Read(s, <<>>[k])'])
    BY DEF Reading, ReadAll
  <2> QED
    BY <2>1, FlattenEmpty
<1>5. Parted(s, <<>>)'
  BY <1>1, <1>2, <1>4, EmptySeq DEF Parted, Gap
<1> QED
  BY <1>3, <1>5 DEF SlotRead

\* An element gives way to another, or goes, between two sequences.
LEMMA Replaced ==
  ASSUME NEW S, NEW a \in Seq(S), NEW b \in Seq(S), b # <<>>, NEW x \in S
  PROVE  /\ [a \o b EXCEPT ![Len(a) + 1] = x] = Append(a, x) \o Tail(b)
         /\ RemoveAt(a \o b, Len(a) + 1) = a \o Tail(b)
<1> DEFINE ab == a \o b
           n == Len(a)
           m == Len(b)
<1>1. /\ n \in Nat /\ m \in Nat \ {0} /\ ab \in Seq(S) /\ Len(ab) = n + m
      /\ \A i \in 1 .. n + m : ab[i] = IF i <= n THEN a[i] ELSE b[i - n]
  BY ConcatProperties, EmptySeq
<1>2. /\ Tail(b) \in Seq(S) /\ Len(Tail(b)) = m - 1
      /\ \A i \in 1 .. m - 1 : Tail(b)[i] = b[i + 1]
  BY HeadTailProperties
<1>3. [ab EXCEPT ![n + 1] = x] = Append(a, x) \o Tail(b)
  <2> DEFINE l == [ab EXCEPT ![n + 1] = x]
             ax == Append(a, x)
             r == ax \o Tail(b)
  <2>1. /\ l \in Seq(S) /\ Len(l) = n + m
        /\ \A i \in 1 .. n + m : l[i] = IF i = n + 1 THEN x ELSE ab[i]
    <3> HIDE DEF ab, n, m
    <3>1. ab \in [1 .. n + m -> S]
      BY <1>1
    <3>2. /\ l \in [1 .. n + m -> S]
          /\ \A i \in 1 .. n + m : l[i] = IF i = n + 1 THEN x ELSE ab[i]
      BY <3>1
    <3> HIDE DEF l
    <3> QED
      BY <1>1, <3>2
  <2>2. /\ ax \in Seq(S) /\ Len(ax) = n + 1
        /\ \A i \in 1 .. n : ax[i] = a[i]
        /\ ax[n + 1] = x
    BY AppendProperties
  <2> HIDE DEF ax, l, n, m, ab
  <2>3. /\ r \in Seq(S) /\ Len(r) = (n + 1) + (m - 1)
        /\ \A i \in 1 .. (n + 1) + (m - 1) :
             r[i] = IF i <= n + 1 THEN ax[i] ELSE Tail(b)[i - (n + 1)]
    <3>1. /\ r \in Seq(S) /\ Len(r) = Len(ax) + Len(Tail(b))
          /\ \A i \in 1 .. Len(ax) + Len(Tail(b)) :
               r[i] = IF i <= Len(ax) THEN ax[i] ELSE Tail(b)[i - Len(ax)]
      BY <1>2, <2>2, ConcatProperties
    <3> HIDE DEF r
    <3> QED
      BY <1>2, <2>2, <3>1
  <2> HIDE DEF r
  <2>4. ASSUME NEW i \in 1 .. n + m
        PROVE  l[i] = r[i]
    <3>1. i \in Nat /\ i \in 1 .. (n + 1) + (m - 1)
      BY <1>1
    <3>2. CASE i <= n
      <4>1. i \in 1 .. n /\ i <= n + 1 /\ i # n + 1
        BY <1>1, <3>1, <3>2
      <4> QED
        BY <1>1, <2>1, <2>2, <2>3, <3>1, <3>2, <4>1
    <3>3. CASE i = n + 1
      BY <2>1, <2>2, <2>3, <3>1, <3>3
    <3>4. CASE i > n + 1
      <4>1. /\ ~(i <= n + 1) /\ ~(i <= n) /\ i # n + 1 /\ i - (n + 1) \in 1 .. m - 1
            /\ (i - (n + 1)) + 1 = i - n
        BY <1>1, <3>1, <3>4
      <4> QED
        BY <1>1, <1>2, <2>1, <2>3, <3>1, <4>1
    <3> QED
      BY <1>1, <3>1, <3>2, <3>3, <3>4
  <2>5. Len(l) = Len(r)
    BY <1>1, <2>1, <2>3
  <2>6. l = r
    BY <2>1, <2>3, <2>4, <2>5, SeqEqual
  <2> QED
    BY <2>6 DEF l, r, ax
<1>4. RemoveAt(ab, n + 1) = a \o Tail(b)
  <2> DEFINE p == SubSeq(ab, 1, n)
             q == SubSeq(ab, n + 2, n + m)
  <2>1. RemoveAt(ab, n + 1) = p \o q
    <3> HIDE DEF ab, n, m
    <3>1. (n + 1) - 1 = n /\ (n + 1) + 1 = n + 2
      BY <1>1
    <3> QED
      BY <1>1, <3>1 DEF RemoveAt
  <2> HIDE DEF ab, n, m
  <2>2. \A i \in 1 .. n + m : ab[i] \in S
    BY <1>1
  <2>3. p = a
    <3>1. \A i \in 1 .. n : i \in 1 .. n + m /\ i <= n
      BY <1>1
    <3>2. \A i \in 1 .. n : ab[i] \in S
      BY <2>2, <3>1
    <3>3. /\ p \in Seq(S) /\ Len(p) = n
          /\ \A i \in 1 .. n : p[i] = ab[i]
      <4>1. /\ p \in Seq(S) /\ Len(p) = IF 1 <= n THEN n - 1 + 1 ELSE 0
            /\ \A i \in 1 .. n - 1 + 1 : p[i] = ab[1 + i - 1]
        BY <1>1, <3>2, SubSeqProperties
      <4>2. n - 1 + 1 = n /\ \A i \in 1 .. n : 1 + i - 1 = i
        BY <1>1
      <4> HIDE DEF p
      <4> QED
        BY <1>1, <4>1, <4>2
    <3>4. \A i \in 1 .. n : p[i] = a[i]
      BY <1>1, <3>1, <3>3
    <3> HIDE DEF p
    <3>5. Len(p) = Len(a)
      BY <3>3 DEF n
    <3> QED
      BY <3>3, <3>4, <3>5, SeqEqual
  <2>4. q = Tail(b)
    <3>1. \A i \in n + 2 .. n + m : i \in 1 .. n + m
      BY <1>1
    <3>2. \A i \in n + 2 .. n + m : ab[i] \in S
      BY <2>2, <3>1
    <3>3. /\ q \in Seq(S) /\ Len(q) = m - 1
          /\ \A i \in 1 .. m - 1 : q[i] = ab[n + 1 + i]
      <4>1. /\ q \in Seq(S) /\ Len(q) = IF n + 2 <= n + m THEN (n + m) - (n + 2) + 1 ELSE 0
            /\ \A i \in 1 .. (n + m) - (n + 2) + 1 : q[i] = ab[n + 2 + i - 1]
        BY <1>1, <3>2, SubSeqProperties
      <4>2. /\ (n + m) - (n + 2) + 1 = m - 1 /\ (n + 2 <= n + m <=> m - 1 > 0)
            /\ \A i \in 1 .. m - 1 : n + 2 + i - 1 = n + 1 + i
        BY <1>1
      <4> HIDE DEF q
      <4>3. (IF n + 2 <= n + m THEN (n + m) - (n + 2) + 1 ELSE 0) = m - 1
        BY <1>1, <4>2
      <4>4. \A i \in 1 .. m - 1 : q[i] = ab[n + 1 + i]
        BY <4>1, <4>2
      <4> QED
        BY <4>1, <4>3, <4>4
    <3>4. ASSUME NEW i \in 1 .. m - 1
          PROVE  q[i] = Tail(b)[i]
      <4>1. n + 1 + i \in 1 .. n + m /\ ~(n + 1 + i <= n) /\ (n + 1 + i) - n = i + 1
        BY <1>1
      <4> QED
        BY <1>1, <1>2, <3>3, <4>1
    <3> HIDE DEF q
    <3> QED
      BY <1>2, <3>3, <3>4, SeqEqual
  <2> HIDE DEF p, q
  <2> QED
    BY <2>1, <2>3, <2>4
<1> QED
  BY <1>3, <1>4

LEMMA CarriedJoins ==
  \A a, b, d \in Seq(Carried) : (a \o b) \o d = a \o (b \o d)
BY ConcatAssociative

LEMMA CarriedReplaced ==
  \A a, b \in Seq(Carried) : b # <<>> =>
    /\ [a \o b EXCEPT ![Len(a) + 1] = Err] = Append(a, Err) \o Tail(b)
    /\ RemoveAt(a \o b, Len(a) + 1) = a \o Tail(b)
<1>1. Err \in Carried
  BY DEF Carried
<1> QED
  BY <1>1, Replaced

\* What one channel is given: a full one overwrites its oldest entry.
Given(s, carried) ==
  /\ inbox'[s] = Append(IF Full(s) THEN Tail(inbox[s]) ELSE inbox[s], carried)
  /\ lagged'[s] = (lagged[s] \/ Full(s))
  /\ owed'[s] = Append(IF Full(s) THEN Overwritten(s) ELSE owed[s], carried)

\* A channel with room for one more.
LEMMA GivenRoom ==
  ASSUME NEW s \in Slots, SlotRead(s), stage[s] = "live",
         stage'[s] \in {"live", "detached"}, ask'[s] = ask[s], yielded'[s] = yielded[s],
         NEW carried \in Carried, Given(s, carried), ~Full(s)
  PROVE  SlotRead(s)'
<1>1. /\ ask[s].method \in Methods \ {"l2_update"} /\ inbox[s] \in Seq(Carried)
      /\ yielded[s] \in Seq(Yield) /\ owed[s] \in Seq(Carried)
      /\ Len(inbox[s]) <= FanoutCapacity /\ lagged[s] \in BOOLEAN
  BY DEF SlotRead, ReadTypes
<1>2. PICK gone : Parted(s, gone)
  BY DEF SlotRead, Attached
<1>3. /\ inbox'[s] = Append(inbox[s], carried) /\ owed'[s] = Append(owed[s], carried)
      /\ lagged'[s] = (lagged[s] \/ FALSE)
  BY DEF Given
<1>4. lagged'[s] = lagged[s]
  BY <1>1, <1>3
<1>5. /\ inbox'[s] \in Seq(Carried) /\ owed'[s] \in Seq(Carried)
      /\ Len(inbox'[s]) = Len(inbox[s]) + 1
  BY <1>1, <1>3, AppendProperties
<1>6. Len(inbox'[s]) <= FanoutCapacity
  BY <1>1, <1>5, StreamAssumption DEF Full
<1>7. gone \in Seq(Carried) /\ owed[s] = gone \o inbox[s]
  BY <1>2 DEF Parted
<1>8. owed'[s] = gone \o inbox'[s]
  <2>1. /\ Append(owed[s], carried) = owed[s] \o <<carried>>
        /\ Append(inbox[s], carried) = inbox[s] \o <<carried>> /\ <<carried>> \in Seq(Carried)
    BY <1>1, AppendIsConcat, SMTT(40)
  <2>2. (gone \o inbox[s]) \o <<carried>> = gone \o (inbox[s] \o <<carried>>)
    BY <1>1, <1>7, <2>1, CarriedJoins
  <2> QED
    BY <1>3, <1>7, <2>1, <2>2
<1>9. Parted(s, gone)'
  BY <1>2, <1>4, <1>7, <1>8, ReadAlike DEF Parted, Gap
<1>10. ReadTypes(s)'
  BY <1>1, <1>4, <1>5, <1>6 DEF ReadTypes
<1> QED
  BY <1>9, <1>10 DEF SlotRead

\* A channel without: the stream is going to yield an error for all that was overwritten.
LEMMA GivenFull ==
  ASSUME NEW s \in Slots, SlotRead(s), stage[s] = "live",
         stage'[s] \in {"live", "detached"}, ask'[s] = ask[s], yielded'[s] = yielded[s],
         NEW carried \in Carried, Given(s, carried), Full(s)
  PROVE  SlotRead(s)'
<1>1. /\ ask[s].method \in Methods \ {"l2_update"} /\ inbox[s] \in Seq(Carried)
      /\ yielded[s] \in Seq(Yield) /\ owed[s] \in Seq(Carried) /\ lagged[s] \in BOOLEAN
      /\ Len(inbox[s]) = FanoutCapacity /\ FanoutCapacity \in Nat \ {0}
  BY StreamAssumption DEF SlotRead, ReadTypes, Full
<1>2. PICK gone : Parted(s, gone)
  BY DEF SlotRead, Attached
<1> DEFINE rest == Tail(inbox[s])
<1>3. /\ inbox'[s] = Append(rest, carried) /\ owed'[s] = Append(Overwritten(s), carried)
      /\ lagged'[s] = TRUE
  BY DEF Given
<1>4. inbox[s] # <<>> /\ rest \in Seq(Carried) /\ Len(rest) = FanoutCapacity - 1
  <2>1. inbox[s] # <<>>
    BY <1>1
  <2> QED
    BY <1>1, <2>1, HeadTailProperties
<1>5. gone \in Seq(Carried) /\ owed[s] = gone \o inbox[s] /\ Reading(s, gone) = yielded[s] \o Gap(s)
  BY <1>2 DEF Parted
<1>6. Len(owed[s]) - FanoutCapacity + 1 = Len(gone) + 1
  <2>1. Len(gone \o inbox[s]) = Len(gone) + Len(inbox[s])
    BY <1>1, <1>5, ConcatProperties, ZenonT(40)
  <2>2. Len(gone) \in Nat
    BY <1>5
  <2> QED
    BY <1>1, <1>5, <2>1, <2>2
<1>7. Err \in Carried /\ <<Err>> \in Seq(Carried)
  BY DEF Carried
<1> HIDE DEF rest
<1>8. PICK past : /\ past \in Seq(Carried) /\ Overwritten(s) = past \o rest
                  /\ Reading(s, past) = yielded[s] \o <<Err>>
  <2>1. CASE lagged[s]
    <3>1. Overwritten(s) = RemoveAt(gone \o inbox[s], Len(gone) + 1)
      BY <1>5, <1>6, <2>1 DEF Overwritten
    <3>2. RemoveAt(gone \o inbox[s], Len(gone) + 1) = gone \o rest
      BY <1>1, <1>4, <1>5, CarriedReplaced DEF rest
    <3> QED
      BY <1>5, <2>1, <3>1, <3>2 DEF Gap
  <2>2. CASE ~lagged[s]
    <3>1. Overwritten(s) = [gone \o inbox[s] EXCEPT ![Len(gone) + 1] = Err]
      BY <1>5, <1>6, <2>2 DEF Overwritten
    <3>2. [gone \o inbox[s] EXCEPT ![Len(gone) + 1] = Err] = Append(gone, Err) \o rest
      BY <1>1, <1>4, <1>5, CarriedReplaced DEF rest
    <3>3. Append(gone, Err) = gone \o <<Err>> /\ Append(gone, Err) \in Seq(Carried)
      BY <1>5, <1>7, AppendIsConcat, AppendProperties
    <3>4. Reading(s, gone \o <<Err>>) = Reading(s, gone) \o Reading(s, <<Err>>)
      BY <1>1, <1>5, <1>7, ReadingJoins
    <3>5. Reading(s, <<Err>>) = <<Err>>
      BY <1>1, <1>7, ReadingOne, ReadType
    <3>6. Reading(s, gone) = yielded[s]
      BY <1>1, <1>5, <2>2, ConcatEmptySeq DEF Gap
    <3> QED
      BY <3>1, <3>2, <3>3, <3>4, <3>5, <3>6
  <2> QED
    BY <1>1, <2>1, <2>2
<1>9. owed'[s] = past \o inbox'[s] /\ owed'[s] \in Seq(Carried)
  <2>1. past \o rest \in Seq(Carried) /\ <<carried>> \in Seq(Carried)
    BY <1>4, <1>8, ConcatProperties
  <2>2. /\ Append(past \o rest, carried) = (past \o rest) \o <<carried>>
        /\ Append(rest, carried) = rest \o <<carried>>
        /\ Append(past \o rest, carried) \in Seq(Carried)
    BY <1>4, <2>1, AppendIsConcat, AppendProperties
  <2>3. (past \o rest) \o <<carried>> = past \o (rest \o <<carried>>)
    BY <1>4, <1>8, <2>1, CarriedJoins
  <2> QED
    BY <1>3, <1>8, <2>2, <2>3
<1>10. inbox'[s] \in Seq(Carried) /\ Len(inbox'[s]) <= FanoutCapacity
  <2>1. inbox'[s] \in Seq(Carried) /\ Len(inbox'[s]) = Len(rest) + 1
    <3>1. Append(rest, carried) \in Seq(Carried) /\ Len(Append(rest, carried)) = Len(rest) + 1
      BY <1>4, AppendProperties
    <3> QED
      BY <1>3, <3>1
  <2> QED
    BY <1>1, <1>4, <2>1
<1>11. Parted(s, past)'
  BY <1>3, <1>8, <1>9, ReadAlike DEF Parted, Gap
<1>12. ReadTypes(s)'
  BY <1>1, <1>3, <1>9, <1>10 DEF ReadTypes
<1> QED
  BY <1>11, <1>12 DEF SlotRead

\* A slot reads what is next in its channel, or that it lagged.
LEMMA RecvRead ==
  ASSUME NEW s \in Slots, SlotRead(s), Attached(s),
         stage'[s] = stage[s], ask'[s] = ask[s], owed'[s] = owed[s],
         \/ /\ lagged[s] /\ lagged'[s] = FALSE /\ inbox'[s] = inbox[s]
            /\ yielded'[s] = Append(yielded[s], Err)
         \/ /\ ~lagged[s] /\ lagged'[s] = lagged[s] /\ inbox[s] # <<>>
            /\ inbox'[s] = Tail(inbox[s])
            /\ yielded'[s] = yielded[s] \o Read(s, Head(inbox[s]))
  PROVE  SlotRead(s)'
<1>1. /\ ask[s].method \in Methods \ {"l2_update"} /\ inbox[s] \in Seq(Carried)
      /\ yielded[s] \in Seq(Yield) /\ owed[s] \in Seq(Carried) /\ lagged[s] \in BOOLEAN
      /\ Len(inbox[s]) <= FanoutCapacity /\ FanoutCapacity \in Nat
  BY StreamAssumption DEF SlotRead, ReadTypes, Attached
<1>2. PICK gone : Parted(s, gone)
  BY DEF SlotRead
<1>3. gone \in Seq(Carried) /\ owed[s] = gone \o inbox[s] /\ Reading(s, gone) = yielded[s] \o Gap(s)
  BY <1>2 DEF Parted
<1>4. CASE /\ lagged[s] /\ lagged'[s] = FALSE /\ inbox'[s] = inbox[s]
           /\ yielded'[s] = Append(yielded[s], Err)
  <2>1. Err \in Yield
    BY DEF Yield
  <2>2. yielded'[s] \in Seq(Yield) /\ yielded'[s] = yielded[s] \o <<Err>>
    BY <1>1, <1>4, <2>1, AppendProperties, AppendIsConcat
  <2>3. yielded'[s] \o <<>> = yielded'[s]
    BY <2>2, ConcatEmptySeq
  <2>4. Reading(s, gone) = yielded'[s] \o <<>>
    BY <1>3, <1>4, <2>2, <2>3 DEF Gap
  <2>5. Parted(s, gone)'
    BY <1>3, <1>4, <2>4, ReadAlike DEF Parted, Gap
  <2>6. ReadTypes(s)'
    BY <1>1, <1>4, <2>2 DEF ReadTypes, Attached
  <2> QED
    BY <2>5, <2>6 DEF SlotRead, Attached
<1>5. CASE /\ ~lagged[s] /\ lagged'[s] = lagged[s] /\ inbox[s] # <<>>
           /\ inbox'[s] = Tail(inbox[s])
           /\ yielded'[s] = yielded[s] \o Read(s, Head(inbox[s]))
  <2>0. PICK next, rest, past :
          next = Head(inbox[s]) /\ rest = Tail(inbox[s]) /\ past = Append(gone, next)
    OBVIOUS
  <2>1. /\ next \in Carried /\ rest \in Seq(Carried) /\ Len(rest) = Len(inbox[s]) - 1
        /\ Len(inbox[s]) \in Nat
    BY <1>1, <1>5, <2>0, HeadTailProperties
  <2>2. inbox[s] = <<next>> \o rest /\ <<next>> \in Seq(Carried)
    BY <1>1, <1>5, <2>0
  <2>3. past = gone \o <<next>> /\ past \in Seq(Carried)
    BY <1>3, <2>0, <2>1, AppendIsConcat, AppendProperties
  <2>4. owed[s] = past \o rest
    <3>1. (gone \o <<next>>) \o rest = gone \o (<<next>> \o rest)
      BY <1>3, <2>1, <2>2, CarriedJoins
    <3> QED
      BY <1>3, <2>2, <2>3, <3>1
  <2>5. Reading(s, past) = Reading(s, gone) \o Read(s, next)
    <3>1. Reading(s, gone \o <<next>>) = Reading(s, gone) \o Reading(s, <<next>>)
      BY <1>1, <1>3, <2>2, ReadingJoins
    <3>2. Reading(s, <<next>>) = Read(s, next)
      BY <1>1, <2>1, ReadingOne
    <3> QED
      BY <2>3, <3>1, <3>2
  <2>6. Reading(s, gone) = yielded[s]
    BY <1>1, <1>3, <1>5, ConcatEmptySeq DEF Gap
  <2>7. Read(s, next) \in Seq(Yield)
    BY <1>1, <2>1, ReadType
  <2>8. yielded'[s] = yielded[s] \o Read(s, next) /\ yielded'[s] \in Seq(Yield)
    BY <1>1, <1>5, <2>0, <2>7, ConcatProperties
  <2>9. yielded'[s] \o <<>> = yielded'[s]
    BY <2>8, ConcatEmptySeq
  <2>10. Reading(s, past) = yielded'[s] \o <<>>
    BY <2>5, <2>6, <2>8, <2>9
  <2>11. Parted(s, past)'
    <3>1. Gap(s)' = <<>> /\ inbox'[s] = rest
      BY <1>5, <2>0 DEF Gap
    <3>2. Reading(s, past)' = Reading(s, past)
      BY DEF Reading, ReadAll, Read
    <3> QED
      BY <2>3, <2>4, <2>10, <3>1, <3>2 DEF Parted
  <2>12. ReadTypes(s)'
    <3>1. Len(rest) <= FanoutCapacity
      BY <1>1, <2>1
    <3> QED
      BY <1>1, <1>5, <2>0, <2>1, <2>8, <3>1 DEF ReadTypes, Attached
  <2> QED
    BY <2>11, <2>12 DEF SlotRead, Attached
<1> QED
  BY <1>4, <1>5

\* The channel of a slot is closed and read to its end.
LEMMA ClosedRead ==
  ASSUME NEW s \in Slots, SlotRead(s), Attached(s), inbox[s] = <<>>, ~lagged[s],
         stage'[s] = "closed", ask'[s] = ask[s], owed'[s] = owed[s], inbox'[s] = inbox[s],
         lagged'[s] = lagged[s], yielded'[s] = Append(yielded[s], Err)
  PROVE  SlotRead(s)'
<1>1. /\ ask[s].method \in Methods \ {"l2_update"} /\ ReadTypes(s)
      /\ yielded[s] \in Seq(Yield) /\ owed[s] \in Seq(Carried)
  BY DEF SlotRead, ReadTypes, Attached
<1>2. PICK gone : Parted(s, gone)
  BY DEF SlotRead
<1>3. owed[s] = gone /\ Reading(s, gone) = yielded[s]
  BY <1>1, <1>2, ConcatEmptySeq DEF Parted, Gap
<1>4. Err \in Yield
  BY DEF Yield
<1>5. yielded'[s] \in Seq(Yield)
  BY <1>1, <1>4, AppendProperties
<1>6. ReadTypes(s)'
  BY <1>1, <1>5 DEF ReadTypes
<1>7. yielded'[s] = Append(Reading(s, owed[s])', Err)
  BY <1>3, ReadAlike
<1> QED
  BY <1>6, <1>7 DEF SlotRead, Attached

-----------------------------------------------------------------------------
(* What travels on a connection. *)

Rejection(x) ==
  [channel |-> "subscriptionResponse",
   data |-> [subscription |-> Outbound(x), success |-> FALSE]]

Frames == Messages \cup {Rejection(x) : x \in Subs}

\* A message is about what was asked for on its connection.
FrameFits(m, msg) ==
  \/ \E x \in Subs : msg = Rejection(x)
  \/ /\ msg \in Messages
     /\ \E x : Fits(m, x) /\ x.of = msg.of /\ Inbound(msg.channel) \in {x.type, "Unknown"}

ToldInv == \A m \in Ids : \A p \in told[m] : \E x : Fits(m, x) /\ p = Outbound(x)

WireInv ==
  /\ wire = [m \in Ids |-> wire[m]]
  /\ \A m \in Ids : /\ wire[m] \in Seq(Frames)
                    /\ \A k \in DOMAIN wire[m] : FrameFits(m, wire[m][k])

\* As long as a stream listens its subscription is counted, requested or not.
LiveInv == \A s \in Slots : stage[s] = "live" => via[s] \in Ids /\ held[via[s]][SubOf(s)] > 0

RouteInv == ToldInv /\ WireInv /\ LiveInv

\* The name of a subscription is read back as that subscription.
LEMMA NameRead == \A x \in Subs : FromResponse(Outbound(x)) = {x} /\ Value({x}) = x
<1> SUFFICES ASSUME NEW x \in Subs
             PROVE  FromResponse(Outbound(x)) = {x} /\ Value({x}) = x
  OBVIOUS
<1>1. x = [type |-> x.type, of |-> x.of] /\ x.type \in CoinTypes \cup UserTypes
  BY DEF Subs
<1>2. Value({x}) = x
  BY DEF Value
<1>3. ASSUME x.type = "L2Book"
      PROVE  FromResponse(Outbound(x)) = {x}
  BY <1>1, <1>3 DEF FromResponse, Outbound, Sub, CoinTypes
<1>4. ASSUME x.type = "Trades"
      PROVE  FromResponse(Outbound(x)) = {x}
  BY <1>1, <1>4 DEF FromResponse, Outbound, Sub, CoinTypes
<1>5. ASSUME x.type = "ActiveAssetCtx"
      PROVE  FromResponse(Outbound(x)) = {x}
  BY <1>1, <1>5 DEF FromResponse, Outbound, Sub, CoinTypes
<1>6. ASSUME x.type = "UserEvents"
      PROVE  FromResponse(Outbound(x)) = {x}
  BY <1>1, <1>6 DEF FromResponse, Outbound, Sub, CoinTypes
<1>7. ASSUME x.type = "OrderUpdates"
      PROVE  FromResponse(Outbound(x)) = {x}
  BY <1>1, <1>7 DEF FromResponse, Outbound, Sub, CoinTypes
<1>8. ASSUME x.type = "NonFundingLedger"
      PROVE  FromResponse(Outbound(x)) = {x}
  BY <1>1, <1>8 DEF FromResponse, Outbound, Sub, CoinTypes
<1> QED
  BY <1>1, <1>2, <1>3, <1>4, <1>5, <1>6, <1>7, <1>8 DEF CoinTypes, UserTypes

LEMMA FrameStays ==
  ASSUME MadeStays, NEW m, NEW msg, FrameFits(m, msg)
  PROVE  FrameFits(m, msg)'
BY FitsStays DEF FrameFits

\* No more is told, and what is on its way is what was, or part of it.
LEMMA RouteKept ==
  ASSUME RouteInv, MadeStays,
         \A m \in Ids : told'[m] \subseteq told[m],
         wire' = [m \in Ids |-> wire'[m]],
         \A m \in Ids : wire'[m] \in {wire[m], <<>>} \/ (wire[m] # <<>> /\ wire'[m] = Tail(wire[m])),
         LiveInv'
  PROVE  RouteInv'
<1>1. ToldInv'
  <2> SUFFICES ASSUME NEW m \in Ids, NEW p \in told'[m]
               PROVE  \E x : Fits(m, x)' /\ p = Outbound(x)
    BY DEF ToldInv
  <2>1. PICK x : Fits(m, x) /\ p = Outbound(x)
    BY DEF RouteInv, ToldInv
  <2> QED
    BY <2>1, FitsStays
<1>2. ASSUME NEW m \in Ids
      PROVE  (wire[m] \in Seq(Frames) /\ \A k \in DOMAIN wire[m] : FrameFits(m, wire[m][k]))'
  <2>0. PICK old, new : old = wire[m] /\ new = wire'[m]
    OBVIOUS
  <2>1. old \in Seq(Frames) /\ \A k \in DOMAIN old : FrameFits(m, old[k])'
    BY <2>0, FrameStays DEF RouteInv, WireInv
  <2>2. CASE new \in {old, <<>>}
    <3>1. new \in Seq(Frames) /\ \A k \in DOMAIN new : FrameFits(m, new[k])'
      <4>1. CASE new = old
        BY <2>1, <4>1
      <4>2. CASE new = <<>>
        BY <4>2, EmptySeq
      <4> QED
        BY <2>2, <4>1, <4>2
    <3> QED
      BY <2>0, <3>1
  <2>3. CASE old # <<>> /\ new = Tail(old)
    <3>1. /\ new \in Seq(Frames) /\ DOMAIN new = 1 .. Len(old) - 1
          /\ DOMAIN old = 1 .. Len(old) /\ Len(old) \in Nat
          /\ \A k \in 1 .. Len(old) - 1 : new[k] = old[k + 1]
      BY <2>1, <2>3, HeadTailProperties
    <3>2. \A k \in DOMAIN new : k + 1 \in DOMAIN old /\ new[k] = old[k + 1]
      BY <3>1
    <3>3. \A k \in DOMAIN new : FrameFits(m, new[k])'
      BY <2>1, <3>2
    <3> QED
      BY <2>0, <3>1, <3>3
  <2> QED
    BY <2>0, <2>2, <2>3
<1>3. WireInv'
  BY <1>2 DEF WireInv
<1> QED
  BY <1>1, <1>3 DEF RouteInv

\* One message more on a connection.
LEMMA WireLonger ==
  ASSUME RouteInv, NEW n \in Ids, NEW msg, FrameFits(n, msg), MadeStays,
         wire' = [wire EXCEPT ![n] = Append(@, msg)]
  PROVE  WireInv'
<1>1. /\ wire' = [m \in Ids |-> wire'[m]]
      /\ \A m \in Ids : wire'[m] = IF m = n THEN Append(wire[n], msg) ELSE wire[m]
  BY DEF RouteInv, WireInv
<1>2. msg \in Frames /\ FrameFits(n, msg)'
  BY FrameStays DEF FrameFits, Frames
<1>3. ASSUME NEW m \in Ids
      PROVE  (wire[m] \in Seq(Frames) /\ \A k \in DOMAIN wire[m] : FrameFits(m, wire[m][k]))'
  <2>0. PICK old, new : old = wire[m] /\ new = wire'[m]
    OBVIOUS
  <2>1. old \in Seq(Frames) /\ \A k \in DOMAIN old : FrameFits(m, old[k])'
    BY <2>0, FrameStays DEF RouteInv, WireInv
  <2>2. CASE m # n
    <3>1. new = old
      BY <1>1, <2>0, <2>2
    <3>2. new \in Seq(Frames) /\ \A k \in DOMAIN new : FrameFits(m, new[k])'
      BY <2>1, <3>1
    <3> QED
      BY <2>0, <3>2
  <2>3. CASE m = n
    <3>1. new = Append(old, msg)
      BY <1>1, <2>0, <2>3
    <3>2. /\ new \in Seq(Frames) /\ Len(old) \in Nat
          /\ DOMAIN new = 1 .. Len(old) + 1 /\ DOMAIN old = 1 .. Len(old)
          /\ \A k \in 1 .. Len(old) : new[k] = old[k]
          /\ new[Len(old) + 1] = msg
      BY <1>2, <2>1, <3>1, AppendProperties
    <3>3. \A k \in DOMAIN new : k \in DOMAIN old \/ k = Len(old) + 1
      BY <3>2
    <3>4. \A k \in DOMAIN new : FrameFits(m, new[k])'
      BY <1>2, <2>1, <2>3, <3>2, <3>3
    <3> QED
      BY <2>0, <3>2, <3>4
  <2> QED
    BY <2>2, <2>3
<1> QED
  BY <1>1, <1>3 DEF WireInv

LEMMA LiveKept ==
  ASSUME LiveInv,
         \A s \in Slots : stage'[s] = "live" =>
           /\ stage[s] = "live" /\ via'[s] = via[s] /\ ask'[s] = ask[s]
           /\ held'[via[s]][SubOf(s)] > 0
  PROVE  LiveInv'
BY DEF LiveInv, SubOf

\* The actions of streams and callers.
Client ==
  \/ \E s \in Slots :
       Subscribe(s) \/ GetOrCreate(s) \/ Open(s) \/ Recv(s) \/ RecvClosed(s) \/ Drop(s)
  \/ UnsubscribeUserEvents \/ UnsubscribeAll
  \/ \E c \in Coins : UnsubscribeMarketData(c)

Undisturbed ==
  /\ told' = told /\ wire' = wire /\ held' = held /\ MadeStays
  /\ \A s \in Slots : stage'[s] = "live" =>
       stage[s] = "live" /\ via'[s] = via[s] /\ ask'[s] = ask[s]

LEMMA ClientRoute ==
  ASSUME StreamInv, RouteInv, Client \/ UNCHANGED vars
  PROVE  RouteInv'
<1>1. /\ stage = [d \in Slots |-> stage[d]] /\ ask = [d \in Slots |-> ask[d]]
      /\ via = [d \in Slots |-> via[d]] /\ made \in Seq(Users)
  BY DEF StreamInv, SlotInv, TableInv
<1>2. Undisturbed
  <2>1. ASSUME NEW s \in Slots, Subscribe(s)
        PROVE  Undisturbed
    BY <1>1, <2>1 DEF Subscribe, table, server, MadeStays, Undisturbed
  <2>2. ASSUME NEW s \in Slots, GetOrCreate(s)
        PROVE  Undisturbed
    <3>1. made' = made \/ \E u \in Users : made' = Append(made, u)
      <4>1. Personal(s)
        BY <2>2 DEF GetOrCreate, StreamInv, SlotInv, SlotFits
      <4> QED
        BY <2>2, <4>1 DEF GetOrCreate, InsertManager, Spawn, Personal
    <3>2. MadeStays
      BY <1>1, <3>1, AppendProperties DEF MadeStays
    <3>3. /\ told' = told /\ wire' = wire /\ held' = held /\ ask' = ask
          /\ stage' = [stage EXCEPT ![s] = "made"]
          /\ \E m : via' = [via EXCEPT ![s] = m]
      BY <2>2 DEF GetOrCreate, InsertManager, Spawn, server
    <3>4. ASSUME NEW d \in Slots, stage'[d] = "live"
          PROVE  stage[d] = "live" /\ via'[d] = via[d] /\ ask'[d] = ask[d]
      <4>1. d # s
        BY <1>1, <3>3, <3>4
      <4> QED
        BY <1>1, <3>3, <3>4, <4>1
    <3> QED
      BY <3>2, <3>3, <3>4 DEF Undisturbed
  <2>3. ASSUME NEW s \in Slots, Open(s) \/ Recv(s) \/ RecvClosed(s) \/ Drop(s)
        PROVE  Undisturbed
    <3>1. /\ UNCHANGED <<told, wire, held, made>>
          /\ \/ UNCHANGED <<stage, ask, via>>
             \/ /\ \E to \in {"acquiring", "closed"} : stage' = [stage EXCEPT ![s] = to]
                /\ UNCHANGED <<ask, via>>
             \/ /\ stage' = [stage EXCEPT ![s] = "over"]
                /\ ask' = [ask EXCEPT ![s] = NoAsk] /\ via' = [via EXCEPT ![s] = Market]
      BY <2>3 DEF Open, Recv, RecvClosed, Drop, table, server
    <3>2. ASSUME NEW d \in Slots, stage'[d] = "live"
          PROVE  stage[d] = "live" /\ via'[d] = via[d] /\ ask'[d] = ask[d]
      BY <1>1, <3>1, <3>2
    <3> QED
      BY <3>1, <3>2 DEF MadeStays, Undisturbed
  <2>4. CASE UnsubscribeUserEvents \/ UnsubscribeAll \/ (\E c \in Coins : UnsubscribeMarketData(c))
               \/ UNCHANGED vars
    BY <2>4 DEF UnsubscribeUserEvents, UnsubscribeAll, UnsubscribeMarketData, vars, table, server,
                MadeStays, Undisturbed
  <2> QED
    BY <2>1, <2>2, <2>3, <2>4 DEF Client
<1>3. LiveInv'
  BY <1>2, LiveKept DEF RouteInv, LiveInv, Undisturbed
<1> QED
  BY <1>2, <1>3, RouteKept DEF RouteInv, WireInv, Undisturbed

LEMMA AcquireRoute ==
  ASSUME StreamInv, RouteInv, ServerInv, NEW n \in Ids, HandleCommand(n), Head(queue[n]).op = "acquire"
  PROVE  RouteInv'
<1>1. PICK cmd : cmd = Head(queue[n])
  OBVIOUS
<1>2. /\ HandleAcquire(n, cmd) /\ queue[n] # <<>>
      /\ UNCHANGED <<registered, managers, made, ask, via>>
  BY <1>1 DEF HandleCommand, table
<1>3. cmd \in Command /\ InStep(n, cmd)
  <2>1. queue[n] \in Seq(Command) /\ 1 \in DOMAIN queue[n] /\ cmd = queue[n][1]
    BY <1>1, <1>2 DEF StreamInv, QueueInv
  <2> QED
    BY <2>1 DEF StreamInv, QueueInv
<1>4. /\ cmd.from \in Slots /\ cmd.sub \in Subs
      /\ stage[cmd.from] = "acquiring" => via[cmd.from] = n /\ SubOf(cmd.from) = cmd.sub
  BY <1>1, <1>3 DEF Command, InStep
<1>5. Fits(n, cmd.sub)
  BY <1>1, <1>3 DEF InStep
<1>6. MadeStays /\ Fits(n, cmd.sub)'
  BY <1>2, <1>5, FitsStays DEF MadeStays
<1>7. ToldInv'
  <2> SUFFICES ASSUME NEW m \in Ids, NEW p \in told'[m]
               PROVE  \E x : Fits(m, x)' /\ p = Outbound(x)
    BY DEF ToldInv
  <2>1. told = [k \in Ids |-> told[k]]
    BY DEF ServerInv
  <2>2. p \in told[m] \/ (m = n /\ p = Outbound(cmd.sub))
    <3>1. told' = told \/ told' = [told EXCEPT ![n] = @ \cup {Outbound(cmd.sub)}]
      BY <1>2 DEF HandleAcquire, server
    <3> QED
      BY <2>1, <3>1
  <2>3. CASE p \in told[m]
    <3>1. PICK x : Fits(m, x) /\ p = Outbound(x)
      BY <2>3 DEF RouteInv, ToldInv
    <3> QED
      BY <1>6, <3>1, FitsStays
  <2> QED
    BY <1>6, <2>2, <2>3
<1>8. WireInv'
  <2>1. CASE wire' = wire
    <3>1. RouteInv => ToldInv /\ WireInv
      BY DEF RouteInv
    <3> QED
      BY <2>1, <1>2 DEF RouteInv, WireInv, FrameFits, Fits
  <2>2. CASE wire' # wire
    <3>1. wire' = [wire EXCEPT ![n] = Append(@, Rejection(cmd.sub))]
      BY <1>2, <2>2 DEF HandleAcquire, server, Rejection
    <3>2. FrameFits(n, Rejection(cmd.sub))
      BY <1>4 DEF FrameFits
    <3> QED
      BY <1>6, <3>1, <3>2, WireLonger
  <2> QED
    BY <2>1, <2>2
<1>9. held \in [Ids -> [Subs -> Nat]]
  BY DEF StreamInv, CountInv
<1>10. /\ held'[n][cmd.sub] > 0
       /\ \A m \in Ids : \A x \in Subs : held[m][x] > 0 => held'[m][x] > 0
  <2>1. PICK more : more = [held[n] EXCEPT ![cmd.sub] = @ + 1]
    OBVIOUS
  <2>2. more[cmd.sub] > 0 /\ \A x \in Subs : held[n][x] > 0 => more[x] > 0
    BY <1>4, <1>9, <2>1
  <2>3. held' = [held EXCEPT ![n] = more]
    BY <1>2, <2>1 DEF HandleAcquire
  <2> QED
    BY <1>9, <2>2, <2>3
<1>11. LiveInv'
  <2> SUFFICES ASSUME NEW s \in Slots, stage'[s] = "live"
               PROVE  via[s] \in Ids /\ held'[via[s]][SubOf(s)] > 0
    BY <1>2 DEF LiveInv, SubOf
  <2>1. CASE s = cmd.from /\ stage[s] = "acquiring"
    BY <1>4, <1>10, <2>1
  <2>2. CASE ~(s = cmd.from /\ stage[s] = "acquiring")
    <3>1. /\ stage' = [stage EXCEPT ![cmd.from] = IF @ = "acquiring" THEN "live" ELSE @]
          /\ stage = [d \in Slots |-> stage[d]]
      BY <1>2 DEF HandleAcquire, StreamInv, SlotInv
    <3>2. stage[s] = "live"
      BY <2>2, <3>1
    <3>3. via[s] \in Ids /\ held[via[s]][SubOf(s)] > 0 /\ SubOf(s) \in Subs
      BY <3>2, AskedFits DEF RouteInv, LiveInv
    <3> QED
      BY <1>9, <1>10, <3>3
  <2> QED
    BY <2>1, <2>2
<1> QED
  BY <1>7, <1>8, <1>11 DEF RouteInv

\* When a manager gives subscriptions up, the streams that listen to them are detached.
LEMMA GiveUpRoute ==
  ASSUME StreamInv, RouteInv, ServerInv, NEW n \in Ids, NEW gone \in SUBSET Subs, GiveUp(n, gone),
         UNCHANGED <<made, ask, via>>, NEW R, stage' = Detach(R),
         \A s \in Slots : stage[s] = "live" /\ via[s] = n /\ SubOf(s) \in gone => s \in R
  PROVE  RouteInv'
<1>1. /\ \A m \in Ids : told'[m] \subseteq told[m]
      /\ wire' = [m \in Ids |-> wire'[m]]
      /\ \A m \in Ids : wire'[m] \in {wire[m], <<>>}
  BY DEF GiveUp, ServerInv, RouteInv, WireInv
<1>2. \A m \in Ids : \A x \in Subs :
        held'[m][x] = IF m = n /\ x \in gone THEN 0 ELSE held[m][x]
  BY GivenUp DEF StreamInv
<1>3. \A s \in Slots : stage'[s] = "live" => stage[s] = "live" /\ s \notin R
  BY DEF Detach
<1>4. ASSUME NEW s \in Slots, stage'[s] = "live"
      PROVE  held'[via[s]][SubOf(s)] > 0
  <2>1. stage[s] = "live" /\ ~(via[s] = n /\ SubOf(s) \in gone)
    BY <1>3, <1>4
  <2>2. via[s] \in Ids /\ held[via[s]][SubOf(s)] > 0 /\ SubOf(s) \in Subs
    BY <2>1, AskedFits DEF RouteInv, LiveInv
  <2>3. held'[via[s]][SubOf(s)] = held[via[s]][SubOf(s)]
    BY <1>2, <2>1, <2>2
  <2> QED
    BY <2>2, <2>3
<1>5. LiveInv'
  BY <1>3, <1>4, LiveKept DEF RouteInv
<1>6. MadeStays
  BY DEF MadeStays
<1> QED
  BY <1>1, <1>5, <1>6, RouteKept

LEMMA ReleaseRoute ==
  ASSUME StreamInv, RouteInv, ServerInv, NEW n \in Ids, HandleCommand(n),
         Head(queue[n]).op \in {"release", "shutdown"}
  PROVE  RouteInv'
<1>1. PICK cmd : cmd = Head(queue[n])
  OBVIOUS
<1>2. /\ queue[n] # <<>> /\ UNCHANGED <<made, ask, via>>
      /\ \/ cmd.op = "release" /\ HandleRelease(n, cmd)
         \/ cmd.op = "shutdown" /\ HandleShutdown(n, cmd)
  BY <1>1 DEF HandleCommand, table
<1>3. cmd \in Command
  BY <1>1, <1>2 DEF StreamInv, QueueInv
<1>4. CASE cmd.op = "release" /\ held[n][cmd.sub] = 1
  <2>1. GiveUp(n, {cmd.sub}) /\ stage' = Detach(Receivers(n, cmd.sub)) /\ {cmd.sub} \in SUBSET Subs
    BY <1>2, <1>3, <1>4 DEF HandleRelease, HandleShutdown, Command
  <2>2. \A s \in Slots : stage[s] = "live" /\ via[s] = n /\ SubOf(s) \in {cmd.sub} =>
          s \in Receivers(n, cmd.sub)
    BY DEF Receivers
  <2> QED
    BY <1>2, <2>1, <2>2, GiveUpRoute
<1>5. CASE cmd.op = "release" /\ held[n][cmd.sub] # 1
  <2>1. /\ told' = told /\ wire' = wire /\ stage' = stage
        /\ held' = [held EXCEPT ![n][cmd.sub] =
             IF held[n][cmd.sub] > 1 THEN held[n][cmd.sub] - 1 ELSE held[n][cmd.sub]]
    BY <1>2, <1>5 DEF HandleRelease, server
  <2>2. held \in [Ids -> [Subs -> Nat]] /\ cmd.sub \in Subs
    BY <1>3, <1>5 DEF StreamInv, CountInv, Command
  <2>3. \A m \in Ids : \A x \in Subs : held[m][x] > 0 => held'[m][x] > 0
    <3>1. PICK less : less = [held[n] EXCEPT ![cmd.sub] =
                        IF held[n][cmd.sub] > 1 THEN held[n][cmd.sub] - 1 ELSE held[n][cmd.sub]]
      OBVIOUS
    <3>2. \A x \in Subs : held[n][x] > 0 => less[x] > 0
      BY <1>5, <2>2, <3>1
    <3>3. held' = [held EXCEPT ![n] = less]
      BY <2>1, <3>1
    <3> QED
      BY <2>2, <3>2, <3>3
  <2>4. ASSUME NEW s \in Slots, stage'[s] = "live"
        PROVE  stage[s] = "live" /\ held'[via[s]][SubOf(s)] > 0
    <3>1. stage[s] = "live"
      BY <2>1, <2>4
    <3> QED
      BY <2>3, <3>1, AskedFits DEF RouteInv, LiveInv
  <2>5. LiveInv'
    BY <1>2, <2>4, LiveKept DEF RouteInv
  <2>6. MadeStays
    BY <1>2 DEF MadeStays
  <2> QED
    BY <2>1, <2>5, <2>6, RouteKept DEF RouteInv, WireInv
<1>6. CASE cmd.op = "shutdown"
  <2>1. PICK R : R = UNION {Receivers(n, x) : x \in Subs}
    OBVIOUS
  <2>2. GiveUp(n, Subs) /\ stage' = Detach(R)
    BY <1>2, <1>6, <2>1 DEF HandleShutdown
  <2>3. \A s \in Slots : stage[s] = "live" /\ via[s] = n /\ SubOf(s) \in Subs => s \in R
    BY <2>1 DEF Receivers
  <2> QED
    BY <1>2, <2>2, <2>3, GiveUpRoute
<1> QED
  BY <1>2, <1>4, <1>5, <1>6

LEMMA PublishRoute ==
  ASSUME StreamInv, RouteInv, NEW n \in Ids, Publish(n)
  PROVE  RouteInv'
<1>1. PICK msg \in Messages :
        /\ \E payload \in told[n] :
             LET sub == Value(FromResponse(payload)) IN
             sub.of = msg.of /\ Inbound(msg.channel) \in {sub.type, "Unknown"}
        /\ wire' = [wire EXCEPT ![n] = Append(@, msg)]
  BY DEF Publish
<1>2. PICK payload \in told[n] :
        LET sub == Value(FromResponse(payload)) IN
        sub.of = msg.of /\ Inbound(msg.channel) \in {sub.type, "Unknown"}
  BY <1>1
<1>3. PICK x : Fits(n, x) /\ payload = Outbound(x)
  BY DEF RouteInv, ToldInv
<1>4. Value(FromResponse(payload)) = x
  BY <1>3, NameRead DEF Fits
<1>5. FrameFits(n, msg)
  BY <1>2, <1>3, <1>4 DEF FrameFits
<1>6. UNCHANGED <<made, told, held, stage, ask, via>>
  BY DEF Publish, table
<1>7. MadeStays
  BY <1>6 DEF MadeStays
<1>8. WireInv'
  BY <1>1, <1>5, <1>7, WireLonger
<1> QED
  BY <1>6, <1>8 DEF RouteInv, ToldInv, LiveInv, SubOf, Fits

LEMMA DispatchRoute ==
  ASSUME StreamInv, RouteInv, NEW n \in Ids, Dispatch(n)
  PROVE  RouteInv'
<1>1. /\ wire[n] # <<>> /\ wire' = [wire EXCEPT ![n] = Tail(@)]
      /\ UNCHANGED <<made, told, held, stage, ask, via>>
  BY DEF Dispatch, table
<1>2. /\ wire' = [m \in Ids |-> wire'[m]]
      /\ \A m \in Ids : wire'[m] \in {wire[m], <<>>} \/ (wire[m] # <<>> /\ wire'[m] = Tail(wire[m]))
  BY <1>1 DEF RouteInv, WireInv
<1>3. MadeStays /\ LiveInv'
  BY <1>1 DEF MadeStays, RouteInv, LiveInv, SubOf
<1> QED
  BY <1>1, <1>2, <1>3, RouteKept

-----------------------------------------------------------------------------
(* What each step does to what the slots read. *)

\* A step of one slot.
LEMMA OneReads ==
  ASSUME ReadInv, NEW s \in Slots, \A d \in Slots : d # s => Still(d), SlotRead(s)',
         inbox' = [d \in Slots |-> inbox'[d]], yielded' = [d \in Slots |-> yielded'[d]],
         owed' = [d \in Slots |-> owed'[d]], lagged' = [d \in Slots |-> lagged'[d]]
  PROVE  ReadInv'
<1>1. \A d \in Slots : d # s => SlotRead(d)'
  BY StillRead DEF ReadInv
<1> QED
  BY <1>1 DEF ReadInv

LEMMA SubscribeRead ==
  ASSUME StreamInv, ReadInv, NEW s \in Slots, Subscribe(s)
  PROVE  ReadInv'
<1>1. PICK method \in Methods : \E x \in Targets(method) :
        /\ ask' = [ask EXCEPT ![s] = [method |-> method, of |-> x]]
        /\ \/ /\ stage' = [stage EXCEPT ![s] = "over"]
              /\ yielded' = [yielded EXCEPT ![s] = <<Err>>]
           \/ /\ method # "l2_update" /\ yielded' = yielded
              /\ \/ stage' = [stage EXCEPT ![s] = "made"]
                 \/ stage' = [stage EXCEPT ![s] = "missed"]
  BY DEF Subscribe, CoinMethods
<1>2. PICK x :
        /\ ask' = [ask EXCEPT ![s] = [method |-> method, of |-> x]]
        /\ \/ /\ stage' = [stage EXCEPT ![s] = "over"]
              /\ yielded' = [yielded EXCEPT ![s] = <<Err>>]
           \/ /\ method # "l2_update" /\ yielded' = yielded
              /\ \/ stage' = [stage EXCEPT ![s] = "made"]
                 \/ stage' = [stage EXCEPT ![s] = "missed"]
  BY <1>1
<1>3. UNCHANGED <<inbox, lagged, owed>> /\ stage[s] = "idle"
  BY DEF Subscribe
<1>4. /\ stage = [d \in Slots |-> stage[d]] /\ ask = [d \in Slots |-> ask[d]]
      /\ inbox = [d \in Slots |-> inbox[d]] /\ yielded = [d \in Slots |-> yielded[d]]
      /\ owed = [d \in Slots |-> owed[d]] /\ lagged = [d \in Slots |-> lagged[d]]
  BY DEF StreamInv, SlotInv, ReadInv
<1>5. \A d \in Slots : d # s => Still(d)
  BY <1>2, <1>3, <1>4 DEF Still
<1>6. Fresh(s) /\ SlotRead(s)
  BY <1>3 DEF ReadInv, SlotRead, ReadTypes
<1>7. CASE stage' = [stage EXCEPT ![s] = "over"] /\ yielded' = [yielded EXCEPT ![s] = <<Err>>]
  <2>1. /\ stage'[s] = "over" /\ yielded'[s] = <<Err>> /\ inbox'[s] = inbox[s]
        /\ owed'[s] = owed[s] /\ lagged'[s] = lagged[s]
    BY <1>3, <1>4, <1>7
  <2>2. <<Err>> \in Seq(Yield)
    BY DEF Yield
  <2>3. ReadTypes(s)'
    BY <1>6, <2>1, <2>2 DEF SlotRead, ReadTypes
  <2>4. SlotRead(s)'
    BY <2>1, <2>3 DEF SlotRead, Attached
  <2>5. yielded' = [d \in Slots |-> yielded'[d]]
    BY <1>4, <1>7
  <2> QED
    BY <1>3, <1>4, <1>5, <2>4, <2>5, OneReads
<1>8. CASE yielded' = yielded /\ method # "l2_update"
  <2>1. Fresh(s)'
    BY <1>3, <1>6, <1>8 DEF Fresh
  <2>2. ask'[s].method \in Methods \ {"l2_update"} /\ stage'[s] # "closed"
    BY <1>2, <1>4, <1>8
  <2>3. SlotRead(s)'
    BY <2>1, <2>2, FreshRead
  <2> QED
    BY <1>3, <1>4, <1>5, <1>8, <2>3, OneReads
<1> QED
  BY <1>2, <1>7, <1>8

LEMMA OpenRead ==
  ASSUME StreamInv, ReadInv, NEW s \in Slots, GetOrCreate(s) \/ Open(s)
  PROVE  ReadInv'
<1>1. /\ UNCHANGED <<ask, inbox, lagged, yielded, owed>> /\ stage[s] \in {"missed", "made"}
      /\ \E to \in {"made", "acquiring"} : stage' = [stage EXCEPT ![s] = to]
  BY DEF GetOrCreate, Open, reading
<1>2. stage = [d \in Slots |-> stage[d]]
  BY DEF StreamInv, SlotInv
<1>3. SlotRead(s)
  BY DEF ReadInv
<1>4. Fresh(s)' /\ ask'[s].method \in Methods \ {"l2_update"}
  BY <1>1, <1>3 DEF SlotRead, ReadTypes, Fresh
<1>5. SlotRead(s)'
  BY <1>1, <1>2, <1>4, FreshRead
<1>6. \A d \in Slots : d # s => Still(d)
  BY <1>1, <1>2 DEF Still
<1> QED
  BY <1>1, <1>5, <1>6, OneReads DEF ReadInv

LEMMA ConsumeRead ==
  ASSUME StreamInv, ReadInv, NEW s \in Slots, Recv(s) \/ RecvClosed(s) \/ Drop(s)
  PROVE  ReadInv'
<1>1. /\ stage = [d \in Slots |-> stage[d]] /\ inbox = [d \in Slots |-> inbox[d]]
      /\ yielded = [d \in Slots |-> yielded[d]] /\ owed = [d \in Slots |-> owed[d]]
      /\ lagged = [d \in Slots |-> lagged[d]] /\ ask = [d \in Slots |-> ask[d]]
      /\ SlotRead(s)
  BY DEF StreamInv, SlotInv, ReadInv
<1>2. CASE Recv(s)
  <2>1. Attached(s) /\ UNCHANGED <<stage, ask, owed>>
    BY <1>2 DEF Recv, Attached
  <2>2. CASE /\ lagged[s] /\ lagged' = [lagged EXCEPT ![s] = FALSE]
             /\ yielded' = [yielded EXCEPT ![s] = Append(@, Err)] /\ inbox' = inbox
    <3>1. /\ lagged'[s] = FALSE /\ inbox'[s] = inbox[s] /\ yielded'[s] = Append(yielded[s], Err)
          /\ \A d \in Slots : d # s => lagged'[d] = lagged[d] /\ yielded'[d] = yielded[d]
      BY <1>1, <2>2
    <3>2. SlotRead(s)'
      BY <1>1, <2>1, <2>2, <3>1, RecvRead
    <3>3. \A d \in Slots : d # s => Still(d)
      BY <2>1, <2>2, <3>1 DEF Still
    <3>4. lagged' = [d \in Slots |-> lagged'[d]] /\ yielded' = [d \in Slots |-> yielded'[d]]
      BY <1>1, <2>2
    <3> QED
      BY <1>1, <2>1, <2>2, <3>2, <3>3, <3>4, OneReads
  <2>3. CASE /\ ~lagged[s] /\ inbox[s] # <<>> /\ inbox' = [inbox EXCEPT ![s] = Tail(@)]
             /\ yielded' = [yielded EXCEPT ![s] = @ \o Read(s, Head(inbox[s]))]
             /\ lagged' = lagged
    <3>1. /\ lagged'[s] = lagged[s] /\ inbox'[s] = Tail(inbox[s])
          /\ yielded'[s] = yielded[s] \o Read(s, Head(inbox[s]))
          /\ \A d \in Slots : d # s => inbox'[d] = inbox[d] /\ yielded'[d] = yielded[d]
      BY <1>1, <2>3
    <3>2. SlotRead(s)'
      BY <1>1, <2>1, <2>3, <3>1, RecvRead
    <3>3. \A d \in Slots : d # s => Still(d)
      BY <2>1, <2>3, <3>1 DEF Still
    <3>4. inbox' = [d \in Slots |-> inbox'[d]] /\ yielded' = [d \in Slots |-> yielded'[d]]
      BY <1>1, <2>3
    <3> QED
      BY <1>1, <2>1, <2>3, <3>2, <3>3, <3>4, OneReads
  <2> QED
    BY <1>2, <2>2, <2>3 DEF Recv
<1>3. CASE RecvClosed(s)
  <2>1. /\ Attached(s) /\ inbox[s] = <<>> /\ ~lagged[s] /\ UNCHANGED <<ask, owed, inbox, lagged>>
        /\ stage' = [stage EXCEPT ![s] = "closed"]
        /\ yielded' = [yielded EXCEPT ![s] = Append(@, Err)]
    BY <1>3 DEF RecvClosed, Attached
  <2>2. /\ stage'[s] = "closed" /\ yielded'[s] = Append(yielded[s], Err)
        /\ \A d \in Slots : d # s => stage'[d] = stage[d] /\ yielded'[d] = yielded[d]
    BY <1>1, <2>1
  <2>3. SlotRead(s)'
    BY <1>1, <2>1, <2>2, ClosedRead
  <2>4. \A d \in Slots : d # s => Still(d)
    BY <2>1, <2>2 DEF Still
  <2>5. yielded' = [d \in Slots |-> yielded'[d]]
    BY <1>1, <2>1
  <2> QED
    BY <1>1, <2>1, <2>3, <2>4, <2>5, OneReads
<1>4. CASE Drop(s)
  <2>1. /\ stage' = [stage EXCEPT ![s] = "over"] /\ inbox' = [inbox EXCEPT ![s] = <<>>]
        /\ lagged' = [lagged EXCEPT ![s] = FALSE] /\ ask' = [ask EXCEPT ![s] = NoAsk]
        /\ yielded' = [yielded EXCEPT ![s] = <<>>] /\ owed' = [owed EXCEPT ![s] = <<>>]
    BY <1>4 DEF Drop
  <2>2. Fresh(s)' /\ stage'[s] = "over"
    BY <1>1, <2>1 DEF Fresh
  <2>3. SlotRead(s)'
    BY <2>2, FreshRead
  <2>4. \A d \in Slots : d # s => Still(d)
    BY <1>1, <2>1 DEF Still
  <2>5. /\ inbox' = [d \in Slots |-> inbox'[d]] /\ yielded' = [d \in Slots |-> yielded'[d]]
        /\ owed' = [d \in Slots |-> owed'[d]] /\ lagged' = [d \in Slots |-> lagged'[d]]
    BY <1>1, <2>1
  <2> QED
    BY <2>3, <2>4, <2>5, OneReads
<1> QED
  BY <1>2, <1>3, <1>4

\* Nothing is read, given or owed, though streams may be detached.
LEMMA QuietRead ==
  ASSUME ReadInv, UNCHANGED <<ask, inbox, lagged, yielded, owed>>,
         \A s \in Slots : stage'[s] = stage[s] \/ (stage[s] = "live" /\ stage'[s] = "detached")
  PROVE  ReadInv'
<1>1. \A s \in Slots : Still(s)
  BY DEF Still, Attached
<1> QED
  BY <1>1, StillRead DEF ReadInv

\* Streams that listen are given what they are owed.
LEMMA CarriedRead ==
  ASSUME ReadInv, NEW R, NEW carried \in Carried, Carry(R, carried), Owe(R, carried),
         UNCHANGED <<ask, yielded>>,
         \A s \in Slots : s \in R => stage[s] = "live" /\ stage'[s] \in {"live", "detached"},
         \A s \in Slots : s \notin R => stage'[s] = stage[s]
  PROVE  ReadInv'
<1>1. ASSUME NEW s \in Slots, s \in R
      PROVE  SlotRead(s)'
  <2>1. lagged'[s] = (lagged[s] \/ (s \in R /\ Full(s)))
    BY DEF Carry
  <2>2. lagged'[s] = (lagged[s] \/ Full(s))
    BY <1>1, <2>1
  <2>3. Given(s, carried)
    BY <1>1, <2>2 DEF Given, Carry, Owe
  <2> QED
    BY <1>1, <2>3, GivenRoom, GivenFull DEF ReadInv
<1>2. ASSUME NEW s \in Slots, s \notin R
      PROVE  SlotRead(s)'
  <2>1. lagged'[s] = (lagged[s] \/ (s \in R /\ Full(s)))
    BY DEF Carry
  <2>2. SlotRead(s) /\ lagged[s] \in BOOLEAN
    BY DEF ReadInv, SlotRead, ReadTypes
  <2>3. lagged'[s] = lagged[s]
    BY <1>2, <2>1, <2>2
  <2>4. Still(s)
    BY <1>2, <2>3 DEF Still, Carry, Owe
  <2> QED
    BY <2>2, <2>4, StillRead
<1>3. /\ inbox' = [s \in Slots |-> inbox'[s]] /\ owed' = [s \in Slots |-> owed'[s]]
      /\ lagged' = [s \in Slots |-> lagged'[s]]
  BY DEF Carry, Owe
<1> QED
  BY <1>1, <1>2, <1>3 DEF ReadInv

LEMMA CommandRead ==
  ASSUME StreamInv, ReadInv, NEW n \in Ids, HandleCommand(n)
  PROVE  ReadInv'
<1>1. PICK cmd : cmd = Head(queue[n])
  OBVIOUS
<1>2. /\ queue[n] # <<>> /\ UNCHANGED <<ask, via, yielded>>
      /\ \/ cmd.op = "acquire" /\ HandleAcquire(n, cmd)
         \/ cmd.op = "release" /\ HandleRelease(n, cmd)
         \/ cmd.op = "shutdown" /\ HandleShutdown(n, cmd)
  BY <1>1 DEF HandleCommand
<1>3. /\ stage = [d \in Slots |-> stage[d]] /\ inbox = [d \in Slots |-> inbox[d]]
      /\ yielded = [d \in Slots |-> yielded[d]] /\ owed = [d \in Slots |-> owed[d]]
      /\ lagged = [d \in Slots |-> lagged[d]]
      /\ \A d \in Slots : SlotRead(d)
  BY DEF StreamInv, SlotInv, ReadInv
<1>4. CASE cmd.op = "acquire"
  <2>1. InStep(n, cmd) /\ cmd \in Command
    <3>1. queue[n] \in Seq(Command) /\ 1 \in DOMAIN queue[n] /\ cmd = queue[n][1]
      BY <1>1, <1>2 DEF StreamInv, QueueInv
    <3> QED
      BY <3>1 DEF StreamInv, QueueInv
  <2>2. PICK s \in Slots : s = cmd.from
    BY <1>4, <2>1 DEF Command
  <2>3. /\ stage' = [stage EXCEPT ![s] = IF @ = "acquiring" THEN "live" ELSE @]
        /\ UNCHANGED <<inbox, lagged, owed>>
    BY <1>2, <1>4, <2>2 DEF HandleAcquire
  <2>4. CASE stage[s] = "acquiring"
    <3>1. Fresh(s) /\ ask[s].method \in Methods \ {"l2_update"} /\ stage'[s] = "live"
      BY <1>3, <2>3, <2>4 DEF SlotRead, ReadTypes
    <3>2. Fresh(s)'
      BY <1>2, <2>3, <3>1 DEF Fresh
    <3>3. SlotRead(s)'
      BY <1>2, <3>1, <3>2, FreshRead
    <3>4. \A d \in Slots : d # s => Still(d)
      BY <1>2, <1>3, <2>3 DEF Still
    <3> QED
      BY <1>2, <1>3, <2>3, <3>3, <3>4, OneReads
  <2>5. CASE stage[s] # "acquiring"
    <3>1. \A d \in Slots : stage'[d] = stage[d]
      BY <1>3, <2>3, <2>5
    <3> QED
      BY <1>2, <2>3, <3>1, QuietRead
  <2> QED
    BY <2>4, <2>5
<1>5. CASE cmd.op = "release"
  <2>1. /\ UNCHANGED <<inbox, lagged, owed>>
        /\ stage' = stage \/ stage' = Detach(Receivers(n, cmd.sub))
    BY <1>2, <1>5 DEF HandleRelease
  <2>2. ASSUME NEW s \in Slots
        PROVE  stage'[s] = stage[s] \/ (stage[s] = "live" /\ stage'[s] = "detached")
    BY <2>1 DEF Detach, Receivers
  <2> QED
    BY <1>2, <2>1, <2>2, QuietRead
<1>6. CASE cmd.op = "shutdown"
  <2>1. PICK R : R = UNION {Receivers(n, x) : x \in Subs}
    OBVIOUS
  <2>2. R = {s \in Slots : via[s] = n /\ stage[s] = "live"}
    <3>1. ASSUME NEW s \in Slots, via[s] = n, stage[s] = "live"
          PROVE  s \in R
      <4>1. SubOf(s) \in Subs
        BY <3>1, AskedFits
      <4>2. s \in Receivers(n, SubOf(s))
        BY <3>1 DEF Receivers
      <4> QED
        BY <2>1, <4>1, <4>2
    <3>2. ASSUME NEW s \in R
          PROVE  s \in Slots /\ via[s] = n /\ stage[s] = "live"
      BY <2>1 DEF Receivers
    <3> QED
      BY <3>1, <3>2
  <2>3. stage' = Detach(R) /\ Carry(R, Err) /\ Owe(R, Err)
    BY <1>2, <1>6, <2>1, <2>2 DEF HandleShutdown
  <2>4. /\ \A s \in Slots : s \in R => stage[s] = "live" /\ stage'[s] \in {"live", "detached"}
        /\ \A s \in Slots : s \notin R => stage'[s] = stage[s]
    BY <2>2, <2>3 DEF Detach
  <2>5. Err \in Carried
    BY DEF Carried
  <2> QED
    BY <1>2, <2>3, <2>4, <2>5, CarriedRead
<1> QED
  BY <1>2, <1>4, <1>5, <1>6

LEMMA UnsubscribeRead ==
  ASSUME ReadInv, \/ UnsubscribeUserEvents \/ UnsubscribeAll \/ \E c \in Coins : UnsubscribeMarketData(c)
                  \/ \E m \in Ids : Publish(m)
                  \/ UNCHANGED vars
  PROVE  ReadInv'
<1>1. UNCHANGED <<ask, inbox, lagged, yielded, owed, stage>>
  BY DEF UnsubscribeUserEvents, UnsubscribeAll, UnsubscribeMarketData, Publish, reading, vars
<1> QED
  BY <1>1, QuietRead

-----------------------------------------------------------------------------
(* A message reaches the streams it is for. *)

\* What it takes to match, for each kind of channel.
LEMMA Matching ==
  ASSUME NEW x, NEW msg, NEW user, Inbound(msg.channel) = x.type
  PROVE  /\ x.type \in {"L2Book", "ActiveAssetCtx"} =>
              (MatchesMessage(x, msg, user) <=> msg.data.coin = x.of)
         /\ x.type = "Trades" =>
              (MatchesMessage(x, msg, user) <=> msg.data # <<>> /\ msg.data[1].coin = x.of)
         /\ x.type \in UserTypes => (MatchesMessage(x, msg, user) <=> user = {x.of})
<1> DEFINE named == msg.data.coin = x.of
           traded == msg.data # <<>> /\ msg.data[1].coin = x.of
           whose == user = {x.of}
           type == x.type
<1>1. MatchesMessage(x, msg, user) <=>
        CASE type \in {"L2Book", "ActiveAssetCtx"} -> named
          [] type = "Trades" -> traded
          [] type \in UserTypes -> whose
  BY DEF MatchesMessage
<1> HIDE DEF named, traded, whose, type
<1>2. ASSUME type \in {"L2Book", "ActiveAssetCtx"}
      PROVE  MatchesMessage(x, msg, user) <=> named
  BY <1>1, <1>2 DEF UserTypes
<1>3. ASSUME type = "Trades"
      PROVE  MatchesMessage(x, msg, user) <=> traded
  BY <1>1, <1>3 DEF UserTypes
<1>4. ASSUME type \in UserTypes
      PROVE  MatchesMessage(x, msg, user) <=> whose
  BY <1>1, <1>4 DEF UserTypes
<1> QED
  BY <1>2, <1>3, <1>4 DEF named, traded, whose, type

\* The streams a message is handed to on a connection.
Reached(m, msg) ==
  UNION {Receivers(m, x) :
           x \in {y \in Subs : held[m][y] > 0 /\ MatchesMessage(y, msg, ManagerUser(m))}}

\* Who is handed a message asked for its kind, about the coin or user it is of.
LEMMA ReachedOwn ==
  ASSUME NEW m \in Ids, NEW msg \in Messages, FrameFits(m, msg),
         ~\E x \in Subs : msg = Rejection(x), NEW s \in Reached(m, msg)
  PROVE  s \in Concerned(m, msg)
<1>1. PICK x \in Subs : MatchesMessage(x, msg, ManagerUser(m)) /\ s \in Receivers(m, x)
  BY DEF Reached
<1>2. /\ s \in Slots /\ via[s] = m /\ stage[s] = "live" /\ SubOf(s) = x
      /\ x.of = ask[s].of /\ x.type = TypeOf(ask[s].method)
  BY <1>1 DEF Receivers, SubOf, Sub
<1>3. x.type \in CoinTypes \cup UserTypes /\ Inbound(msg.channel) = x.type
  BY <1>1 DEF Subs, MatchesMessage
<1>4. ask[s].of = msg.of /\ (msg.data # <<>> \/ x.type # "Trades")
  <2>1. CASE x.type \in {"L2Book", "ActiveAssetCtx"}
    <3>1. msg.data.coin = x.of
      BY <1>1, <1>3, <2>1, Matching
    <3>2. msg.data.coin = msg.of
      BY <1>3, <2>1, MessageAssumption
    <3> QED
      BY <1>2, <2>1, <3>1, <3>2
  <2>2. CASE x.type = "Trades"
    <3>1. msg.data # <<>> /\ msg.data[1].coin = x.of
      BY <1>1, <1>3, <2>2, Matching
    <3>2. msg.data = <<>> \/ msg.data[1].coin = msg.of
      BY <1>3, <2>2, MessageAssumption
    <3> QED
      BY <1>2, <3>1, <3>2
  <2>3. CASE x.type \in UserTypes
    <3>1. ManagerUser(m) = {x.of}
      BY <1>1, <1>3, <2>3, Matching
    <3>2. m # Market /\ made[m] = x.of
      BY <3>1 DEF ManagerUser
    <3>3. msg.of = made[m]
      BY <3>2 DEF FrameFits, Fits
    <3>4. x.type # "Trades"
      BY <2>3 DEF UserTypes
    <3> QED
      BY <1>2, <3>2, <3>3, <3>4
  <2> QED
    BY <1>3, <2>1, <2>2, <2>3 DEF CoinTypes
<1> QED
  BY <1>2, <1>3, <1>4 DEF Concerned

\* Who asked for it is handed it: its subscription is counted and matches.
LEMMA OwnReached ==
  ASSUME StreamInv, LiveInv, NEW m \in Ids, NEW msg \in Messages,
         Inbound(msg.channel) \in CoinTypes \cup UserTypes, NEW s \in Concerned(m, msg)
  PROVE  s \in Reached(m, msg)
<1>1. PICK sub : sub = SubOf(s)
  OBVIOUS
<1>2. /\ s \in Slots /\ via[s] = m /\ stage[s] = "live" /\ ask[s].of = msg.of
      /\ TypeOf(ask[s].method) = Inbound(msg.channel)
      /\ msg.data # <<>> \/ Inbound(msg.channel) # "Trades"
  BY DEF Concerned
<1>3. Fits(m, sub) /\ sub \in Subs /\ sub.of = msg.of /\ sub.type = Inbound(msg.channel)
  BY <1>1, <1>2, AskedFits
<1>4. held[m][sub] > 0 /\ s \in Receivers(m, sub)
  BY <1>1, <1>2 DEF LiveInv, Receivers
<1>5. MatchesMessage(sub, msg, ManagerUser(m))
  <2>1. CASE sub.type \in {"L2Book", "ActiveAssetCtx"}
    <3>1. msg.data.coin = sub.of
      BY <1>3, <2>1, MessageAssumption
    <3> QED
      BY <1>3, <2>1, <3>1, Matching
  <2>2. CASE sub.type = "Trades"
    <3>1. msg.data = <<>> \/ msg.data[1].coin = sub.of
      BY <1>3, <2>2, MessageAssumption
    <3> QED
      BY <1>2, <1>3, <2>2, <3>1, Matching
  <2>3. CASE sub.type \in UserTypes
    <3>1. m # Market /\ made[m] = sub.of
      <4>1. sub.type \notin CoinTypes
        BY <2>3 DEF CoinTypes, UserTypes
      <4> QED
        BY <1>3, <4>1 DEF Fits
    <3>2. ManagerUser(m) = {sub.of}
      BY <3>1 DEF ManagerUser
    <3> QED
      BY <1>3, <2>3, <3>2, Matching
  <2> QED
    BY <1>3, <2>1, <2>2, <2>3 DEF CoinTypes
<1> QED
  BY <1>3, <1>4, <1>5 DEF Reached

\* A rejection is handed to those who asked for what it names.
LEMMA RejectionReached ==
  ASSUME NEW m \in Ids, NEW x \in Subs, StreamInv
  PROVE  UNION {Receivers(m, y) : y \in FromResponse(Outbound(x))}
           = {s \in Slots : via[s] = m /\ stage[s] = "live" /\ Outbound(SubOf(s)) = Outbound(x)}
<1>1. FromResponse(Outbound(x)) = {x}
  BY NameRead
<1>2. UNION {Receivers(m, y) : y \in {x}} = Receivers(m, x)
  OBVIOUS
<1>3. ASSUME NEW s \in Slots, stage[s] = "live"
      PROVE  SubOf(s) = x <=> Outbound(SubOf(s)) = Outbound(x)
  <2>1. SubOf(s) \in Subs
    BY <1>3, AskedFits
  <2> QED
    BY <2>1, Names
<1> QED
  BY <1>1, <1>2, <1>3 DEF Receivers

LEMMA DispatchRead ==
  ASSUME StreamInv, ReadInv, RouteInv, NEW m \in Ids, Dispatch(m)
  PROVE  ReadInv'
<1>1. PICK msg : msg = Head(wire[m])
  OBVIOUS
<1>2. wire[m] # <<>> /\ Deliver(m, msg) /\ UNCHANGED <<ask, stage, yielded>>
  BY <1>1 DEF Dispatch
<1>3. FrameFits(m, msg)
  <2>1. wire[m] \in Seq(Frames) /\ \A k \in DOMAIN wire[m] : FrameFits(m, wire[m][k])
    BY DEF RouteInv, WireInv
  <2>2. 1 \in DOMAIN wire[m] /\ msg = wire[m][1]
    BY <1>1, <1>2, <2>1
  <2> QED
    BY <2>1, <2>2
<1>4. ASSUME NEW R, NEW carried \in Carried, Carry(R, carried), Owe(R, carried),
             \A s \in R : stage[s] = "live"
      PROVE  ReadInv'
  BY <1>2, <1>4, CarriedRead
<1>5. CASE /\ Inbound(msg.channel) = "SubscriptionResponse"
           /\ Carry(UNION {Receivers(m, x) : x \in FromResponse(msg.data.subscription)}, Err)
           /\ Owe({s \in Slots : /\ via[s] = m /\ stage[s] = "live"
                                 /\ Outbound(SubOf(s)) = msg.data.subscription}, Err)
  <2>1. PICK x \in Subs : msg = Rejection(x)
    <3>1. CASE \E x \in Subs : msg = Rejection(x)
      BY <3>1
    <3>2. CASE \E x : Fits(m, x) /\ x.of = msg.of /\ Inbound(msg.channel) \in {x.type, "Unknown"}
      BY <1>5, <3>2 DEF Fits, CoinTypes, UserTypes
    <3> QED
      BY <1>3, <3>1, <3>2 DEF FrameFits
  <2>2. msg.data.subscription = Outbound(x)
    BY <2>1 DEF Rejection
  <2>3. PICK R : R = {s \in Slots : via[s] = m /\ stage[s] = "live" /\ Outbound(SubOf(s)) = Outbound(x)}
    OBVIOUS
  <2>4. Carry(R, Err) /\ Owe(R, Err)
    BY <1>5, <2>2, <2>3, RejectionReached
  <2>5. Err \in Carried
    BY DEF Carried
  <2> QED
    BY <1>4, <2>3, <2>4, <2>5
<1>6. CASE Inbound(msg.channel) = "Unknown" /\ UNCHANGED <<inbox, lagged, owed>>
  BY <1>2, <1>6, QuietRead
<1>7. CASE /\ Inbound(msg.channel) \in CoinTypes \cup UserTypes
           /\ Carry(Reached(m, msg), Ok(msg)) /\ Owe(Concerned(m, msg), Ok(msg))
  <2>1. ~\E x \in Subs : msg = Rejection(x)
    <3>1. \A x \in Subs : Inbound(Rejection(x).channel) = "SubscriptionResponse"
      BY DEF Rejection, Inbound
    <3> QED
      BY <1>7, <3>1 DEF CoinTypes, UserTypes
  <2>2. msg \in Messages
    BY <1>3, <2>1 DEF FrameFits
  <2>3. Reached(m, msg) = Concerned(m, msg)
    <3>1. Reached(m, msg) \subseteq Concerned(m, msg)
      BY <1>3, <2>1, <2>2, ReachedOwn
    <3>2. Concerned(m, msg) \subseteq Reached(m, msg)
      BY <1>7, <2>2, OwnReached DEF RouteInv
    <3> QED
      BY <3>1, <3>2
  <2>4. Ok(msg) \in Carried /\ \A s \in Concerned(m, msg) : stage[s] = "live"
    BY <2>2 DEF Carried, Concerned
  <2> QED
    BY <1>4, <1>7, <2>3, <2>4
<1> QED
  BY <1>2, <1>5, <1>6, <1>7 DEF Deliver, Reached

LEMMA RouteStep ==
  ASSUME StreamInv, ServerInv, RouteInv, [Next]_vars
  PROVE  RouteInv'
<1>1. CASE Client \/ UNCHANGED vars
  BY <1>1, ClientRoute
<1>2. ASSUME NEW m \in Ids, HandleCommand(m)
      PROVE  RouteInv'
  <2>1. Head(queue[m]).op \in {"acquire", "release", "shutdown"}
    BY <1>2 DEF HandleCommand
  <2> QED
    BY <1>2, <2>1, AcquireRoute, ReleaseRoute
<1>3. ASSUME NEW m \in Ids, Publish(m)
      PROVE  RouteInv'
  BY <1>3, PublishRoute
<1>4. ASSUME NEW m \in Ids, Dispatch(m)
      PROVE  RouteInv'
  BY <1>4, DispatchRoute
<1> QED
  BY <1>1, <1>2, <1>3, <1>4 DEF Next, Client

LEMMA SlotsStep ==
  ASSUME StreamInv, RouteInv, ReadInv, [Next]_vars
  PROVE  ReadInv'
<1>1. ASSUME NEW s \in Slots,
             Subscribe(s) \/ GetOrCreate(s) \/ Open(s) \/ Recv(s) \/ RecvClosed(s) \/ Drop(s)
      PROVE  ReadInv'
  BY <1>1, SubscribeRead, OpenRead, ConsumeRead
<1>2. CASE UnsubscribeUserEvents \/ UnsubscribeAll \/ (\E c \in Coins : UnsubscribeMarketData(c))
             \/ UNCHANGED vars
  BY <1>2, UnsubscribeRead
<1>3. ASSUME NEW m \in Ids, Publish(m)
      PROVE  ReadInv'
  BY <1>3, UnsubscribeRead
<1>4. ASSUME NEW m \in Ids, HandleCommand(m)
      PROVE  ReadInv'
  BY <1>4, CommandRead
<1>5. ASSUME NEW m \in Ids, Dispatch(m)
      PROVE  ReadInv'
  BY <1>5, DispatchRead
<1> QED
  BY <1>1, <1>2, <1>3, <1>4, <1>5 DEF Next

LEMMA ReadInit ==
  ASSUME Init
  PROVE  RouteInv /\ ReadInv
<1>1. RouteInv
  <2>1. ToldInv
    BY DEF Init, ToldInv
  <2>2. WireInv
    <3>1. \A m \in Ids : wire[m] = <<>>
      BY DEF Init
    <3>2. <<>> \in Seq(Frames)
      BY EmptySeq
    <3> QED
      BY <3>1, <3>2 DEF Init, WireInv
  <2>3. LiveInv
    BY DEF Init, LiveInv
  <2> QED
    BY <2>1, <2>2, <2>3 DEF RouteInv
<1>2. ASSUME NEW s \in Slots
      PROVE  SlotRead(s)
  <2>1. /\ inbox[s] = <<>> /\ yielded[s] = <<>> /\ owed[s] = <<>> /\ lagged[s] = FALSE
        /\ stage[s] = "idle"
    BY DEF Init
  <2>2. Len(<<>>) <= FanoutCapacity
    BY StreamAssumption
  <2>3. ReadTypes(s)
    BY <2>1, <2>2, EmptySeq DEF ReadTypes, Fresh
  <2> QED
    BY <2>1, <2>3 DEF SlotRead, Attached
<1> QED
  BY <1>1, <1>2 DEF Init, ReadInv

LEMMA YieldsJoin ==
  \A a, b, d \in Seq(Yield) : (a \o b) \o d = a \o (b \o d)
BY ConcatAssociative

\* What a stream yielded, and what it is going to yield of what its channel holds, is what
\* comes of reading, in order and once, all that its channel had to carry to it: the
\* messages of its own, an error where messages were overwritten, and the errors it is
\* told; one more ends it when the channel is closed.
YieldsWhatArrives ==
  \A s \in Slots :
    /\ stage[s] \in {"live", "detached"} => yielded[s] \o Pending(s) = Reading(s, owed[s])
    /\ stage[s] = "closed" => yielded[s] = Append(Reading(s, owed[s]), Err)

\* However streams share managers, subscriptions and connections, the way from the socket
\* to the consumer loses nothing of what is a stream's own without an error in its place,
\* and repeats, reorders and mixes up nothing.
THEOREM StreamsYieldWhatArrives == Spec => []YieldsWhatArrives
<1>1. Init => ServerInv
  BY DEF Init, ServerInv, Named
<1>2. Init => RouteInv /\ ReadInv
  BY ReadInit
<1>3. StreamInv /\ ServerInv /\ RouteInv /\ ReadInv /\ [Next]_vars =>
        ServerInv' /\ RouteInv' /\ ReadInv'
  BY ServerStep, RouteStep, SlotsStep
<1>4. ReadInv => YieldsWhatArrives
  <2> SUFFICES ASSUME ReadInv, NEW s \in Slots
               PROVE  /\ Attached(s) => yielded[s] \o Pending(s) = Reading(s, owed[s])
                      /\ stage[s] = "closed" => yielded[s] = Append(Reading(s, owed[s]), Err)
    BY DEF YieldsWhatArrives, Attached
  <2>1. SlotRead(s)
    BY DEF ReadInv
  <2>2. ASSUME Attached(s)
        PROVE  yielded[s] \o Pending(s) = Reading(s, owed[s])
    <3>1. PICK gone : Parted(s, gone)
      BY <2>1, <2>2 DEF SlotRead
    <3>2. /\ inbox[s] \in Seq(Carried) /\ yielded[s] \in Seq(Yield)
          /\ ask[s].method \in Methods \ {"l2_update"}
          /\ gone \in Seq(Carried) /\ owed[s] = gone \o inbox[s]
          /\ Reading(s, gone) = yielded[s] \o Gap(s)
      BY <2>1, <2>2, <3>1 DEF SlotRead, ReadTypes, Attached, Parted
    <3>3. PICK rest, gap : rest = Reading(s, inbox[s]) /\ gap = Gap(s)
      OBVIOUS
    <3>4. rest \in Seq(Yield) /\ gap \in Seq(Yield)
      <4>1. <<>> \in Seq(Yield) /\ <<Err>> \in Seq(Yield)
        BY EmptySeq DEF Yield
      <4>2. gap \in {<<>>, <<Err>>}
        BY <3>3 DEF Gap
      <4> QED
        BY <3>2, <3>3, <4>1, <4>2, ReadAllType DEF Reading
    <3>5. Pending(s) = gap \o rest
      BY <3>3 DEF Pending, Reading, ReadAll, Gap
    <3>6. Reading(s, owed[s]) = (yielded[s] \o gap) \o rest
      BY <3>2, <3>3, ReadingJoins
    <3>7. (yielded[s] \o gap) \o rest = yielded[s] \o (gap \o rest)
      BY <3>2, <3>4, YieldsJoin
    <3> QED
      BY <3>5, <3>6, <3>7
  <2> QED
    BY <2>1, <2>2 DEF SlotRead
<1> QED
  BY <1>1, <1>2, <1>3, <1>4, StreamInvariant, PTL DEF Spec

=============================================================================
