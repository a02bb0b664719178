-------------------------- MODULE RestClientProofs --------------------------
(***************************************************************************)
(* Theorems about the REST side of the client, for any number of tasks,    *)
(* any clock and any answers.                                              *)
(*                                                                         *)
(* The nonces are those of NonceSource: each is greater than all before    *)
(* it.  Only next_nonce touches them, in two steps between which anything  *)
(* may happen; what carries the proof is that the compare-and-swap         *)
(* succeeds only on the last nonce itself.                                 *)
(*                                                                         *)
(* The weight admitted in a window never passes the budget, as long as no  *)
(* request alone does: the entries a limiter keeps are all that were       *)
(* admitted within the window, newest last, and their running sums are     *)
(* differences of what was spent (WindowFits).                             *)
(*                                                                         *)
(* Past the initial budget of an address one request is admitted an        *)
(* interval: next_allowed is the last admission and an interval (PaceInv). *)
(*                                                                         *)
(* A balance is told as a whole: what was read of the spot and of the perp *)
(* state comes back unchanged in the two kinds of row (BalanceInv).        *)
(*                                                                         *)
(* What is sent of an order is what was signed, an order rests on the      *)
(* market it was placed for, a refused call has sent nothing and a         *)
(* cancelled order stays off the books.  One inductive invariant, OrderInv,*)
(* carries all of it.  It says of the exchange what rests and what is on   *)
(* its way (VenueInv), of the calls that returned what they told           *)
(* (ToldInv), and of each call under way what it holds and what it was     *)
(* answered (OrderFits to SettledFits).  That an answer is taken for one's *)
(* own action rests on the nonces: no two calls under way have the same    *)
(* (Apart), by NonceInv.                                                   *)
(*                                                                         *)
(* The list of all contexts has what each place of the universe parses to  *)
(* (AllContexts), and an asset has one place: so reading one asset agrees  *)
(* with it, whatever was answered.                                         *)
(***************************************************************************)
EXTENDS RestClient, SequenceLemmas

-----------------------------------------------------------------------------
(* The clock and the last nonce make the candidate. *)

LEMMA MaxOfTwo ==
  ASSUME NEW x \in Nat, NEW y \in Nat
  PROVE  Max({x, y}) \in Nat /\ Max({x, y}) >= x /\ Max({x, y}) >= y
<1>1. \E m \in {x, y} : \A z \in {x, y} : m >= z
  OBVIOUS
<1>2. Max({x, y}) \in {x, y} /\ \A z \in {x, y} : Max({x, y}) >= z
  BY <1>1 DEF Max
<1> QED
  BY <1>2

\* The last nonce bounds all that were handed out, and what a call saw is a
\* nonce and a time.
NonceInv ==
  /\ lastNonce \in Nat
  /\ issued \in Seq(Nat)
  /\ \A k \in 1 .. Len(issued) : issued[k] <= lastNonce
  /\ seen \in [Callers -> [last : Nat, clock : Nat]]

LEMMA NonceInit == Init => NonceInv
<1> SUFFICES ASSUME Init PROVE NonceInv
  OBVIOUS
<1>1. seen \in [Callers -> [last : Nat, clock : Nat]]
  BY DEF Init, Unseen
<1> QED
  BY <1>1 DEF Init, NonceInv

LEMMA CandidateIsNew ==
  ASSUME NonceInv, NEW c \in Callers
  PROVE  Candidate(c) \in Nat /\ Candidate(c) > seen[c].last
<1>1. seen[c].clock \in Nat /\ seen[c].last \in Nat
  BY DEF NonceInv
<1> QED
  BY <1>1, MaxOfTwo DEF Candidate

-----------------------------------------------------------------------------
(* Whose steps touch the nonces. *)

LEMMA StartKeepsNonces ==
  ASSUME NEW c \in Callers, Start(c)
  PROVE  UNCHANGED nonceVars
BY DEF Start

LEMMA InfoKeepsNonces ==
  ASSUME NEW c \in Callers, Info(c)
  PROVE  UNCHANGED nonceVars
<1>1. CASE Ask(c)
  BY <1>1 DEF Ask
<1>2. CASE VenueReads(c)
  BY <1>2 DEF VenueReads
<1>3. CASE InfoLost(c)
  BY <1>3 DEF InfoLost
<1>4. CASE LookUp(c)
  BY <1>4 DEF LookUp
<1>5. CASE OrdersArrive(c)
  BY <1>5 DEF OrdersArrive, Arrived
<1>6. CASE IndexArrives(c)
  BY <1>6 DEF IndexArrives, Arrived
<1>7. CASE MetaArrives(c)
  BY <1>7 DEF MetaArrives, Arrived
<1>8. CASE SpotArrives(c)
  BY <1>8 DEF SpotArrives, Arrived
<1>9. CASE PerpArrives(c)
  BY <1>9 DEF PerpArrives, Arrived
<1>10. CASE ReadArrives(c)
  BY <1>10 DEF ReadArrives, Arrived
<1> QED
  BY <1>1, <1>2, <1>3, <1>4, <1>5, <1>6, <1>7, <1>8, <1>9, <1>10 DEF Info

LEMMA SubmitOnNonces ==
  ASSUME NEW c \in Callers, Submit(c)
  PROVE  ReadNonce(c) \/ SwapNonce(c) \/ UNCHANGED nonceVars
<1>1. CASE SignFails(c)
  BY <1>1 DEF SignFails
<1>2. CASE Admit(c)
  BY <1>2 DEF Admit
<1>3. CASE Charge(c)
  BY <1>3 DEF Charge, nonceVars
<1>4. CASE Returns(c)
  BY <1>4 DEF Returns
<1> QED
  BY <1>1, <1>2, <1>3, <1>4 DEF Submit

LEMMA VenueKeepsNonces ==
  ASSUME VenueHandles \/ ActionLost \/ OrderFills \/ Lists \/ Tick \/ ReadBudget
  PROVE  UNCHANGED nonceVars
<1>1. CASE VenueHandles
  BY <1>1 DEF VenueHandles
<1>2. CASE ActionLost
  BY <1>2 DEF ActionLost
<1>3. CASE OrderFills
  BY <1>3 DEF OrderFills
<1>4. CASE Lists
  BY <1>4 DEF Lists
<1>5. CASE Tick
  BY <1>5 DEF Tick
<1>6. CASE ReadBudget
  BY <1>6 DEF ReadBudget
<1> QED
  BY <1>1, <1>2, <1>3, <1>4, <1>5, <1>6

LEMMA StepOnNonces ==
  ASSUME [Next]_vars
  PROVE  \/ \E c \in Callers : ReadNonce(c) \/ SwapNonce(c)
         \/ UNCHANGED nonceVars
<1>1. ASSUME NEW c \in Callers, Start(c) \/ Info(c) \/ Submit(c)
      PROVE  ReadNonce(c) \/ SwapNonce(c) \/ UNCHANGED nonceVars
  BY <1>1, StartKeepsNonces, InfoKeepsNonces, SubmitOnNonces
<1>2. CASE UNCHANGED vars
  BY <1>2 DEF vars
<1> QED
  BY <1>1, <1>2, VenueKeepsNonces DEF Next

-----------------------------------------------------------------------------
(* What the two steps of next_nonce do. *)

LEMMA ReadNonceStep ==
  ASSUME NonceInv, NEW c \in Callers, ReadNonce(c)
  PROVE  NonceInv' /\ UNCHANGED issued
<1>1. UNCHANGED <<lastNonce, issued>>
  BY DEF ReadNonce
<1>2. seen' \in [Callers -> [last : Nat, clock : Nat]]
  <2>1. CASE UNCHANGED seen
    BY <2>1 DEF NonceInv
  <2>2. CASE \E t \in Clocks : seen' = [seen EXCEPT ![c] = [last |-> lastNonce, clock |-> t]]
    BY <2>2, RestAssumption DEF NonceInv
  <2> QED
    BY <2>1, <2>2 DEF ReadNonce
<1> QED
  BY <1>1, <1>2 DEF NonceInv

\* A swap that fails sees the last nonce and hands out nothing; one that succeeds
\* hands out what is greater than the last, and stores it.
LEMMA SwapNonceStep ==
  ASSUME NonceInv, NEW c \in Callers, SwapNonce(c)
  PROVE  NonceInv' /\ (Source!Issue \/ UNCHANGED issued)
<1>1. CASE seen[c].last # lastNonce
  <2>1. UNCHANGED <<lastNonce, issued>> /\ seen' = [seen EXCEPT ![c].last = lastNonce]
    BY <1>1 DEF SwapNonce
  <2>2. seen' \in [Callers -> [last : Nat, clock : Nat]]
    BY <2>1 DEF NonceInv
  <2> QED
    BY <2>1, <2>2 DEF NonceInv
<1>2. CASE seen[c].last = lastNonce
  <2>1. /\ lastNonce' = Candidate(c)
        /\ issued' = Append(issued, Candidate(c))
        /\ seen' = [seen EXCEPT ![c] = Unseen]
    BY <1>2 DEF SwapNonce
  <2>2. Candidate(c) \in Nat /\ Candidate(c) > lastNonce
    BY <1>2, CandidateIsNew
  <2>3. /\ issued \in Seq(Nat) /\ Len(issued) \in Nat
        /\ Len(issued') = Len(issued) + 1
        /\ \A k \in 1 .. Len(issued) : issued'[k] = issued[k]
        /\ issued'[Len(issued) + 1] = Candidate(c)
        /\ issued' \in Seq(Nat)
    BY <2>1, <2>2 DEF NonceInv
  <2>4. seen' \in [Callers -> [last : Nat, clock : Nat]]
    BY <2>1 DEF NonceInv, Unseen
  <2>5. \A k \in 1 .. Len(issued) : issued[k] \in Nat /\ issued[k] < Candidate(c)
    BY <2>2, <2>3, SMTT(30) DEF NonceInv
  <2>6. \A k \in 1 .. Len(issued') : issued'[k] <= lastNonce'
    BY <2>1, <2>2, <2>3, <2>5
  <2>7. SubSeq(issued', 1, Len(issued)) = issued
    BY <2>1, <2>2, <2>3
  <2>8. Source!Issue
    BY <2>3, <2>5, <2>7 DEF Source!Issue
  <2> QED
    BY <2>1, <2>2, <2>3, <2>4, <2>6, <2>8 DEF NonceInv
<1> QED
  BY <1>1, <1>2

LEMMA NonceStep ==
  ASSUME NonceInv, [Next]_vars
  PROVE  NonceInv' /\ (Source!Issue \/ UNCHANGED issued)
<1>1. CASE UNCHANGED nonceVars
  BY <1>1 DEF nonceVars, NonceInv
<1> QED
  BY <1>1, StepOnNonces, ReadNonceStep, SwapNonceStep

\* next_nonce of any number of tasks, in any interleaving and with any wall clock, hands
\* out a nonce greater than all before it: the client implements NonceSource.
THEOREM NoncesCorrect == Spec => NoncesFresh
<1>1. Init => Source!Init
  BY DEF Init, Source!Init
<1>2. NonceInv /\ [Next]_vars => NonceInv' /\ [Source!Issue]_issued
  BY NonceStep
<1> QED
  BY <1>1, <1>2, NonceInit, PTL DEF Spec, NoncesFresh, Source!Spec

-----------------------------------------------------------------------------
(* What a call is doing. *)

Steps == InfoSteps \cup {"idle", "lookup", "key", "swap", "sign", "charge", "exchange"}

\* Which steps a call of each kind takes, and where an answer is awaited.
StepFits(c) ==
  /\ at[c] \in Steps
  /\ job[c].op \in AllOps \cup {"none"}
  /\ post[c] \in {"none", "asked", "answered"}
  /\ (at[c] = "idle") <=> (job[c].op = "none")
  /\ at[c] \in {"lookup", "index"} => job[c].op \in {"place", "change"}
  /\ at[c] = "orders" => job[c].op \in {"change", "cancel", "cancelAll"}
  /\ at[c] = "meta" => job[c].op \in {"cancel", "cancelAll"}
  /\ at[c] \in {"spot", "perp", "perpAgain"} => job[c].op = "balance"
  /\ at[c] = "read" => job[c].op = "read"
  /\ job[c].op = "read" => job[c].weight \in {2, 20}
  /\ at[c] \in {"key", "swap", "sign", "charge", "exchange"} =>
       job[c].op \in {"place", "change", "cancel", "cancelAll"}
  /\ post[c] # "none" => at[c] \in InfoSteps \cup {"exchange"}

\* These are functions of the callers.
Functions4 ==
  /\ at = [c \in Callers |-> at[c]]
  /\ job = [c \in Callers |-> job[c]]
  /\ post = [c \in Callers |-> post[c]]

CallInv == Functions4 /\ \A c \in Callers : StepFits(c)

\* A step that is one caller's alone, and fits it.
LEMMA OneCaller ==
  ASSUME CallInv, NEW c \in Callers,
         at' = [at EXCEPT ![c] = at'[c]],
         job' = [job EXCEPT ![c] = job'[c]],
         post' = [post EXCEPT ![c] = post'[c]],
         StepFits(c)'
  PROVE  CallInv'
BY DEF CallInv, Functions4, StepFits

\* A call that returns.
LEMMA FinishFits ==
  ASSUME CallInv, NEW c \in Callers, NEW how, Finish(c, how)
  PROVE  /\ CallInv'
         /\ at' = [at EXCEPT ![c] = "idle"]
<1>1. at'[c] = "idle" /\ job'[c].op = "none" /\ post'[c] = "none"
  BY DEF Finish, CallInv, Functions4
<1>2. StepFits(c)'
  BY <1>1 DEF StepFits, Steps
<1> QED
  BY <1>1, <1>2, OneCaller DEF Finish

\* The answer of an info request is used up.
LEMMA GoesOnFits ==
  ASSUME CallInv, NEW c \in Callers, NEW step \in Steps, NEW have, GoesOn(c, step, have),
         at[c] # "idle", step # "idle",
         step \in {"lookup", "index"} => job[c].op \in {"place", "change"},
         step = "meta" => job[c].op \in {"cancel", "cancelAll"},
         step \in {"perp", "perpAgain"} => job[c].op = "balance",
         step = "key" => job[c].op \in {"place", "change", "cancel", "cancelAll"},
         step \in {"lookup", "index", "meta", "perp", "perpAgain", "key"}
  PROVE  /\ CallInv'
         /\ at' = [at EXCEPT ![c] = step]
<1>1. at'[c] = step /\ job'[c] = job[c] /\ post'[c] = "none"
  BY DEF GoesOn, CallInv, Functions4
<1>2. StepFits(c)'
  BY <1>1 DEF StepFits, CallInv
<1>3. job' = [job EXCEPT ![c] = job'[c]]
  BY DEF GoesOn, CallInv, Functions4
<1> QED
  BY <1>1, <1>2, <1>3, OneCaller DEF GoesOn

LEMMA StartFits ==
  ASSUME CallInv, NEW c \in Callers, Start(c)
  PROVE  CallInv' /\ at' = [at EXCEPT ![c] = at'[c]]
<1>1. ASSUME NEW j, NEW step, Begin(c, j, step),
             j.op \in AllOps, step \in InfoSteps \cup {"lookup"},
             step = "lookup" => j.op = "place",
             step = "orders" => j.op \in {"change", "cancel", "cancelAll"},
             step = "spot" => j.op = "balance",
             step = "read" => j.op = "read",
             j.op = "read" => j.weight \in {2, 20},
             step \in {"lookup", "orders", "spot", "read"}
      PROVE  CallInv' /\ at' = [at EXCEPT ![c] = at'[c]]
  <2>1. at'[c] = step /\ job'[c] = j /\ post'[c] = post[c] /\ at[c] = "idle"
    BY <1>1 DEF Begin, CallInv, Functions4, Start
  <2>2. StepFits(c)'
    BY <1>1, <2>1 DEF StepFits, CallInv, Steps, InfoSteps, AllOps
  <2>3. post' = [post EXCEPT ![c] = post'[c]]
    BY <1>1 DEF Begin, CallInv, Functions4
  <2> QED
    BY <1>1, <2>1, <2>2, <2>3, OneCaller DEF Begin
<1>2. CASE PlaceOrder(c)
  BY <1>1, <1>2 DEF PlaceOrder, AllOps
<1>3. CASE Change(c)
  BY <1>1, <1>3 DEF Change, BeginAsUser, AllOps, InfoSteps
<1>4. CASE CancelOne(c)
  BY <1>1, <1>4 DEF CancelOne, BeginAsUser, AllOps, InfoSteps
<1>5. CASE CancelAll(c)
  BY <1>1, <1>5 DEF CancelAll, BeginAsUser, AllOps, InfoSteps
<1>6. CASE GetBalance(c)
  BY <1>1, <1>6 DEF GetBalance, BeginAsUser, AllOps, InfoSteps
<1>7. CASE ReadOne(c)
  BY <1>1, <1>7 DEF ReadOne, ReadWeight, AllOps, InfoSteps
<1> QED
  BY <1>2, <1>3, <1>4, <1>5, <1>6, <1>7 DEF Start

LEMMA InfoFailsFits ==
  ASSUME CallInv, NEW c \in Callers, NEW why, InfoFails(c, why), at[c] \in InfoSteps
  PROVE  CallInv' /\ at' = [at EXCEPT ![c] = at'[c]] /\ at'[c] \in {"idle", "perpAgain"}
<1>1. CASE GoesOn(c, "perpAgain", got[c]) /\ at[c] = "perp"
  <2>1. job[c].op = "balance"
    BY <1>1 DEF CallInv, StepFits
  <2>2. CallInv' /\ at' = [at EXCEPT ![c] = "perpAgain"]
    BY <1>1, <2>1, GoesOnFits DEF Steps, InfoSteps
  <2> QED
    BY <2>2 DEF CallInv, Functions4
<1>2. CASE Finish(c, why)
  <2>1. CallInv' /\ at' = [at EXCEPT ![c] = "idle"]
    BY <1>2, FinishFits
  <2> QED
    BY <2>1 DEF CallInv, Functions4
<1> QED
  BY <1>1, <1>2 DEF InfoFails

\* A caller that stays where it is, or goes to another step of the same call without
\* using up an answer.
LEMMA StaysFits ==
  ASSUME CallInv, NEW c \in Callers, UNCHANGED job,
         at' = [at EXCEPT ![c] = at'[c]], post' = [post EXCEPT ![c] = post'[c]],
         StepFits(c)'
  PROVE  CallInv'
<1>1. job' = [job EXCEPT ![c] = job'[c]]
  BY DEF CallInv, Functions4
<1> QED
  BY <1>1, OneCaller

LEMMA InfoFits ==
  ASSUME CallInv, NEW c \in Callers, Info(c)
  PROVE  CallInv' /\ at' = [at EXCEPT ![c] = at'[c]] /\ at[c] # "idle"
<1> DEFINE P == CallInv' /\ at' = [at EXCEPT ![c] = at'[c]] /\ at[c] # "idle"
<1>0. /\ "idle" \notin InfoSteps
      /\ at = [at EXCEPT ![c] = at[c]]
      /\ \A x : at' = [at EXCEPT ![c] = x] => at'[c] = x
  BY DEF InfoSteps, CallInv, Functions4
<1>1. CASE Ask(c)
  <2>1. CASE UNCHANGED <<at, job>> /\ post' = [post EXCEPT ![c] = "asked"]
    <3>1. at'[c] = at[c] /\ job'[c] = job[c] /\ post'[c] = "asked"
      BY <2>1 DEF CallInv, Functions4
    <3>2. StepFits(c)'
      BY <1>1, <3>1 DEF StepFits, CallInv, Ask
    <3> QED
      BY <1>0, <1>1, <2>1, <3>1, <3>2, StaysFits DEF Ask
  <2>2. ASSUME NEW why, InfoFails(c, why)
        PROVE  P
    BY <1>0, <1>1, <2>2, InfoFailsFits DEF Ask
  <2> QED
    BY <1>1, <2>1, <2>2 DEF Ask
<1>2. CASE VenueReads(c)
  <2>1. /\ UNCHANGED <<at, job>> /\ post' = [post EXCEPT ![c] = "answered"]
        /\ at[c] \in {"orders", "index", "meta"}
    BY <1>2 DEF VenueReads
  <2>2. at'[c] = at[c] /\ job'[c] = job[c] /\ post'[c] = "answered"
    BY <2>1 DEF CallInv, Functions4
  <2>3. StepFits(c)'
    BY <2>1, <2>2 DEF StepFits, CallInv, InfoSteps
  <2> QED
    BY <1>0, <2>1, <2>2, <2>3, StaysFits
<1>3. CASE InfoLost(c)
  BY <1>0, <1>3, InfoFailsFits DEF InfoLost
<1>4. CASE LookUp(c)
  BY <1>0, <1>4, GoesOnFits DEF LookUp, CallInv, StepFits, Steps, InfoSteps
<1>5. CASE OrdersArrive(c)
  BY <1>0, <1>5, GoesOnFits, FinishFits
     DEF OrdersArrive, Arrived, CallInv, StepFits, Steps, InfoSteps
<1>6. CASE IndexArrives(c)
  BY <1>0, <1>6, GoesOnFits, FinishFits
     DEF IndexArrives, Arrived, CallInv, StepFits, Steps, InfoSteps
<1>7. CASE MetaArrives(c)
  BY <1>0, <1>7, GoesOnFits, FinishFits
     DEF MetaArrives, Arrived, CallInv, StepFits, Steps, InfoSteps
<1>8. CASE SpotArrives(c)
  BY <1>0, <1>8, GoesOnFits DEF SpotArrives, Arrived, CallInv, StepFits, Steps, InfoSteps
<1>9. CASE PerpArrives(c)
  <2>1. PICK rows : ReturnsRows(c, rows) /\ at[c] \in {"perp", "perpAgain"}
    BY <1>9 DEF PerpArrives, Arrived
  <2>2. at'[c] = "idle" /\ job'[c].op = "none" /\ post'[c] = "none"
    BY <2>1 DEF ReturnsRows, CallInv, Functions4
  <2>3. StepFits(c)'
    BY <2>2 DEF StepFits, Steps
  <2> QED
    BY <1>0, <2>1, <2>2, <2>3, OneCaller DEF ReturnsRows
<1>10. CASE ReadArrives(c)
  BY <1>0, <1>10, FinishFits DEF ReadArrives, Arrived
<1> QED
  BY <1>1, <1>2, <1>3, <1>4, <1>5, <1>6, <1>7, <1>8, <1>9, <1>10 DEF Info

LEMMA SubmitFits ==
  ASSUME CallInv, NEW c \in Callers, Submit(c)
  PROVE  CallInv' /\ at' = [at EXCEPT ![c] = at'[c]] /\ at[c] # "idle"
<1>0. /\ at = [at EXCEPT ![c] = at[c]] /\ post = [post EXCEPT ![c] = post[c]]
      /\ \A x : at' = [at EXCEPT ![c] = x] => at'[c] = x
      /\ \A x : post' = [post EXCEPT ![c] = x] => post'[c] = x
  BY DEF CallInv, Functions4
<1>1. ASSUME NEW step \in {"swap", "sign", "charge"}, at' = [at EXCEPT ![c] = step],
             UNCHANGED <<job, post>>, at[c] \in {"key", "swap", "sign"}
      PROVE  CallInv'
  <2>1. at'[c] = step /\ job'[c] = job[c] /\ post'[c] = post[c]
    BY <1>0, <1>1
  <2>2. post[c] = "none"
    BY <1>1 DEF CallInv, StepFits, InfoSteps
  <2>3. StepFits(c)'
    BY <1>1, <2>1, <2>2 DEF StepFits, CallInv, Steps
  <2> QED
    BY <1>0, <1>1, <2>1, <2>3, StaysFits
<1>2. CASE ReadNonce(c)
  BY <1>0, <1>1, <1>2, FinishFits DEF ReadNonce
<1>3. CASE SwapNonce(c)
  <2>1. CASE seen[c].last = lastNonce
    BY <1>0, <1>1, <1>3, <2>1 DEF SwapNonce
  <2>2. CASE seen[c].last # lastNonce
    <3>1. UNCHANGED <<at, job, post>> /\ at[c] = "swap"
      BY <1>3, <2>2 DEF SwapNonce
    <3>2. CallInv'
      BY <3>1 DEF CallInv, Functions4, StepFits
    <3> QED
      BY <1>0, <3>1, <3>2
  <2> QED
    BY <2>1, <2>2
<1>4. CASE SignFails(c)
  BY <1>0, <1>4, FinishFits DEF SignFails
<1>5. CASE Admit(c)
  BY <1>0, <1>1, <1>5, FinishFits DEF Admit
<1>6. CASE Charge(c)
  <2>1. CASE at' = [at EXCEPT ![c] = "exchange"] /\ post' = [post EXCEPT ![c] = "asked"]
             /\ UNCHANGED job
    <3>1. at'[c] = "exchange" /\ job'[c] = job[c] /\ post'[c] = "asked" /\ at[c] = "charge"
      BY <1>0, <1>6, <2>1 DEF Charge
    <3>2. StepFits(c)'
      BY <3>1 DEF StepFits, CallInv, Steps
    <3> QED
      BY <1>0, <2>1, <3>1, <3>2, StaysFits
  <2> QED
    BY <1>0, <1>6, <2>1, FinishFits DEF Charge
<1>7. CASE Returns(c)
  BY <1>0, <1>7, FinishFits DEF Returns
<1> QED
  BY <1>2, <1>3, <1>4, <1>5, <1>6, <1>7 DEF Submit

\* What the exchange does of its own accord, and the passage of time.
Outside == VenueHandles \/ ActionLost \/ OrderFills \/ Lists \/ Tick \/ ReadBudget

LEMMA OutsideFits ==
  ASSUME CallInv, Outside \/ UNCHANGED vars
  PROVE  CallInv' /\ UNCHANGED <<at, job, got>>
<1>1. CASE VenueHandles
  <2>1. UNCHANGED <<at, job, got>>
    BY <1>1 DEF VenueHandles
  <2>2. /\ post' = [c \in Callers |-> post'[c]]
        /\ \A c \in Callers : \/ post'[c] = post[c]
                              \/ post'[c] = "answered" /\ at[c] = "exchange"
    BY <1>1 DEF VenueHandles
  <2> QED
    BY <2>1, <2>2 DEF CallInv, Functions4, StepFits
<1>2. CASE ActionLost \/ OrderFills \/ Lists \/ Tick \/ ReadBudget \/ UNCHANGED vars
  <2>1. UNCHANGED callVars
    BY <1>2 DEF ActionLost, OrderFills, Lists, Tick, ReadBudget, vars
  <2> QED
    BY <2>1 DEF callVars, CallInv, Functions4, StepFits
<1> QED
  BY <1>1, <1>2 DEF Outside

LEMMA CallInit == Init => CallInv
BY DEF Init, CallInv, Functions4, StepFits, Steps

LEMMA CallStep ==
  ASSUME CallInv, [Next]_vars
  PROVE  CallInv'
BY StartFits, InfoFits, SubmitFits, OutsideFits DEF Next, Outside

LEMMA CallInvariant == Spec => []CallInv
BY CallInit, CallStep, PTL DEF Spec

-----------------------------------------------------------------------------
(* The weight limiter. *)

Entry == [at : Nat, weight : Nat]

\* The running sum of the weights is there for every window, and is what it should be.
LEMMA RunningSum ==
  ASSUME NEW w \in Seq(Entry)
  PROVE  /\ UsedUpTo(w) \in [0 .. Len(w) -> Nat]
         /\ UsedUpTo(w)[0] = 0
         /\ \A k \in 1 .. Len(w) : UsedUpTo(w)[k] = UsedUpTo(w)[k - 1] + w[k].weight
<1> DEFINE Sums(n) == {f \in [0 .. n -> Nat] :
                         f[0] = 0 /\ \A k \in 1 .. n : f[k] = f[k - 1] + w[k].weight}
           Bad == {n \in 0 .. Len(w) : Sums(n) = {}}
           IsSum(f) == f = [k \in 0 .. Len(w) |-> IF k = 0 THEN 0 ELSE f[k - 1] + w[k].weight]
<1>1. Len(w) \in Nat /\ \A k \in 1 .. Len(w) : w[k].weight \in Nat
  <2>1. \A e \in Entry : e.weight \in Nat
    BY DEF Entry
  <2>2. Len(w) \in Nat /\ \A k \in 1 .. Len(w) : w[k] \in Entry
    OBVIOUS
  <2> QED
    BY <2>1, <2>2
<1>2. ASSUME Bad # {}
      PROVE  FALSE
  <2>0. \A T \in SUBSET Nat : T # {} => \E n \in T : \A m \in T : n <= m
    BY LeastOf
  <2>1. PICK n \in Bad : \A m \in Bad : n <= m
    <3> HIDE DEF Sums
    <3>1. Bad \in SUBSET Nat
      BY <1>1
    <3> QED
      BY <1>2, <2>0, <3>1
  <2>2. n # 0
    <3>1. [k \in 0 .. 0 |-> 0] \in Sums(0)
      OBVIOUS
    <3> QED
      BY <2>1, <3>1
  <2>3. n \in 1 .. Len(w) /\ n - 1 \in 0 .. Len(w) /\ n - 1 \notin Bad
    <3> HIDE DEF Sums
    <3>1. n \in 1 .. Len(w) /\ n - 1 \in 0 .. Len(w)
      BY <1>1, <2>1, <2>2
    <3> QED
      BY <1>1, <2>1, <3>1
  <2>4. PICK f : f \in Sums(n - 1)
    BY <2>3
  <2> DEFINE g == [k \in 0 .. n |-> IF k = n THEN f[n - 1] + w[n].weight ELSE f[k]]
  <2>5. f[n - 1] \in Nat /\ w[n].weight \in Nat
    BY <1>1, <2>3, <2>4
  <2>6. g \in [0 .. n -> Nat]
    BY <2>3, <2>4, <2>5
  <2>7. g[0] = 0 /\ \A k \in 1 .. n : g[k] = g[k - 1] + w[k].weight
    <3>1. n \in Nat /\ n >= 1 /\ f[0] = 0 /\ \A k \in 1 .. n - 1 : f[k] = f[k - 1] + w[k].weight
      BY <1>1, <2>3, <2>4
    <3>2. g[n] = f[n - 1] + w[n].weight /\ \A k \in 0 .. n - 1 : g[k] = f[k]
      BY <3>1
    <3> HIDE DEF g, Sums, Bad
    <3>3. g[0] = 0
      BY <3>1, <3>2
    <3>4. ASSUME NEW k \in 1 .. n
          PROVE  g[k] = g[k - 1] + w[k].weight
      <4>1. CASE k = n
        <5>1. n - 1 \in 0 .. n - 1
          BY <3>1
        <5> QED
          BY <3>2, <4>1, <5>1
      <4>2. CASE k # n
        <5>1. k \in 1 .. n - 1 /\ k \in 0 .. n - 1 /\ k - 1 \in 0 .. n - 1
          BY <3>1, <3>4, <4>2
        <5> QED
          BY <3>1, <3>2, <5>1
      <4> QED
        BY <4>1, <4>2
    <3> QED
      BY <3>3, <3>4
  <2>8. g \in Sums(n)
    BY <2>6, <2>7
  <2> QED
    BY <2>1, <2>8
<1>3. PICK f : f \in Sums(Len(w))
  <2>1. Len(w) \in 0 .. Len(w)
    BY <1>1
  <2> HIDE DEF Sums
  <2> QED
    BY <1>2, <2>1
<1>4. IsSum(f)
  BY <1>1, <1>3
<1>5. UsedUpTo(w) = CHOOSE h : IsSum(h)
  BY DEF UsedUpTo
<1> DEFINE u == UsedUpTo(w)
<1>6. IsSum(u)
  <2> HIDE DEF IsSum
  <2> QED
    BY <1>4, <1>5
<1> HIDE DEF u
<1>7. u[0] = 0 /\ \A k \in 1 .. Len(w) : u[k] = u[k - 1] + w[k].weight
  <2>1. \A k \in 0 .. Len(w) : u[k] = IF k = 0 THEN 0 ELSE u[k - 1] + w[k].weight
    BY <1>6
  <2> QED
    BY <1>1, <2>1
<1>8. \A k \in 0 .. Len(w) : u[k] \in Nat
  <2> DEFINE Odd == {k \in 0 .. Len(w) : u[k] \notin Nat}
  <2> SUFFICES ASSUME Odd # {}
               PROVE  FALSE
    OBVIOUS
  <2>1. PICK k \in Odd : \A m \in Odd : k <= m
    <3>1. Odd \in SUBSET Nat
      BY <1>1
    <3> HIDE DEF Odd
    <3> QED
      BY <3>1, LeastOf
  <2>2. k # 0
    BY <1>7, <2>1
  <2>3. k - 1 \in 0 .. Len(w) /\ k \in 1 .. Len(w) /\ k - 1 \notin Odd
    BY <1>1, <2>1, <2>2
  <2> QED
    BY <1>1, <1>7, <2>1, <2>3, SMTT(30)
<1>9. u \in [0 .. Len(w) -> Nat]
  <2>1. u = [k \in 0 .. Len(w) |-> u[k]]
    BY <1>6
  <2> QED
    BY <1>8, <2>1
<1> QED
  BY <1>7, <1>9 DEF u

\* Where two windows have the same weights, their sums differ by what came before.
LEMMA SumsShift ==
  ASSUME NEW v \in Seq(Entry), NEW w \in Seq(Entry), NEW d \in Nat, NEW n \in Nat,
         n <= Len(v), n + d <= Len(w),
         \A j \in 1 .. n : v[j].weight = w[j + d].weight
  PROVE  \A j \in 0 .. n : UsedUpTo(v)[j] + UsedUpTo(w)[d] = UsedUpTo(w)[j + d]
<1> DEFINE x == UsedUpTo(v)
           y == UsedUpTo(w)
           Odd == {j \in 0 .. n : x[j] + y[d] # y[j + d]}
<1>1. /\ Len(v) \in Nat /\ Len(w) \in Nat
      /\ x[0] = 0 /\ \A j \in 1 .. n : x[j] = x[j - 1] + v[j].weight
      /\ \A j \in 1 .. Len(w) : y[j] = y[j - 1] + w[j].weight
  BY RunningSum
<1>2. (\A j \in 0 .. n : x[j] \in Nat) /\ (\A j \in 0 .. Len(w) : y[j] \in Nat)
  <2>1. x \in [0 .. Len(v) -> Nat] /\ y \in [0 .. Len(w) -> Nat]
    BY RunningSum
  <2> HIDE DEF x, y
  <2>2. \A j \in 0 .. Len(v) : x[j] \in Nat
    BY <2>1
  <2>3. \A j \in 0 .. Len(w) : y[j] \in Nat
    BY <2>1
  <2>4. \A j \in 0 .. n : j \in 0 .. Len(v)
    BY <1>1
  <2> QED
    BY <2>2, <2>3, <2>4
<1>3. \A j \in 1 .. n : w[j + d].weight \in Nat
  <2>1. \A e \in Entry : e.weight \in Nat
    BY DEF Entry
  <2>2. \A j \in 1 .. n : j + d \in 1 .. Len(w) /\ w[j + d] \in Entry
    BY <1>1
  <2> QED
    BY <2>1, <2>2
<1> HIDE DEF x, y, Entry
<1> SUFFICES ASSUME Odd # {}
             PROVE  FALSE
  BY DEF x, y
<1>4. PICK j \in Odd : \A i \in Odd : j <= i
  <2>1. Odd \in SUBSET Nat
    OBVIOUS
  <2> HIDE DEF Odd
  <2> QED
    BY <2>1, LeastOf
<1>5. j # 0
  <2>1. y[d] \in Nat /\ 0 + y[d] = y[0 + d]
    <3>1. d \in 0 .. Len(w) /\ 0 + d = d
      BY <1>1
    <3>2. y[d] \in Nat
      BY <1>2, <3>1
    <3> QED
      BY <3>1, <3>2
  <2> QED
    BY <1>1, <1>4, <2>1
<1>6. j \in 1 .. n /\ j - 1 \in 0 .. n /\ x[j - 1] + y[d] = y[(j - 1) + d]
  BY <1>4, <1>5
<1>7. /\ x[j] = x[j - 1] + v[j].weight
      /\ j + d \in 1 .. Len(w) /\ (j + d) - 1 = (j - 1) + d
      /\ y[j + d] = y[(j + d) - 1] + w[j + d].weight
      /\ v[j].weight = w[j + d].weight
      /\ x[j - 1] \in Nat /\ y[d] \in Nat /\ v[j].weight \in Nat
  <2>1. j + d \in 1 .. Len(w) /\ (j + d) - 1 = (j - 1) + d /\ d \in 0 .. Len(w)
    BY <1>1, <1>6
  <2>2. x[j] = x[j - 1] + v[j].weight /\ v[j].weight = w[j + d].weight
    BY <1>1, <1>6
  <2>3. y[j + d] = y[(j + d) - 1] + w[j + d].weight
    BY <1>1, <2>1
  <2>4. x[j - 1] \in Nat /\ y[d] \in Nat /\ v[j].weight \in Nat
    BY <1>2, <1>3, <1>6, <2>1, <2>2
  <2> QED
    BY <2>1, <2>2, <2>3, <2>4
<1>8. x[j] + y[d] = y[j + d]
  <2>1. ASSUME NEW p \in Nat, NEW q \in Nat, NEW g \in Nat
        PROVE  (p + g) + q = (p + q) + g
    OBVIOUS
  <2>2. (x[j - 1] + v[j].weight) + y[d] = (x[j - 1] + y[d]) + v[j].weight
    BY <1>7, <2>1
  <2>3. y[j + d] = y[(j - 1) + d] + v[j].weight
    BY <1>7
  <2> QED
    BY <1>6, <1>7, <2>2, <2>3
<1> QED
  BY <1>4, <1>8

\* The sums never fall.
LEMMA SumsRise ==
  ASSUME NEW w \in Seq(Entry), NEW k \in 0 .. Len(w)
  PROVE  UsedUpTo(w)[k] <= Used(w)
<1> DEFINE y == UsedUpTo(w)
           n == Len(w)
           Odd == {j \in 0 .. n : y[n - j] > y[n]}
<1>1. n \in Nat /\ \A j \in 1 .. n : y[j] = y[j - 1] + w[j].weight
  BY RunningSum
<1>2. \A j \in 0 .. n : y[j] \in Nat
  <2>1. y \in [0 .. n -> Nat]
    BY RunningSum
  <2> HIDE DEF y, n
  <2> QED
    BY <2>1
<1>3. \A j \in 1 .. n : w[j].weight \in Nat
  <2>1. \A e \in Entry : e.weight \in Nat
    BY DEF Entry
  <2>2. \A j \in 1 .. n : w[j] \in Entry
    OBVIOUS
  <2> QED
    BY <2>1, <2>2
<1>4. Used(w) = y[n]
  BY DEF Used
<1>5. k \in 0 .. n
  OBVIOUS
<1> HIDE DEF y, n, Entry
<1>6. Odd = {}
  <2> SUFFICES ASSUME Odd # {}
               PROVE  FALSE
    OBVIOUS
  <2>1. PICK j \in Odd : \A i \in Odd : j <= i
    <3>1. Odd \in SUBSET Nat
      OBVIOUS
    <3> HIDE DEF Odd
    <3> QED
      BY <3>1, LeastOf
  <2>2. j # 0
    BY <1>1, <1>2, <2>1
  <2>3. j - 1 \in 0 .. n /\ n - j \in 0 .. n /\ n - (j - 1) \in 1 .. n
    BY <1>1, <2>1, <2>2
  <2>4. j - 1 \notin Odd
    BY <2>1, <2>3
  <2>5. ~(y[n - (j - 1)] > y[n]) /\ y[n - j] > y[n]
    BY <2>1, <2>3, <2>4
  <2>6. (n - (j - 1)) - 1 = n - j
    BY <1>1, <2>1
  <2>7. y[n - (j - 1)] = y[n - j] + w[n - (j - 1)].weight
    BY <1>1, <2>3, <2>6
  <2>8. /\ y[n - (j - 1)] \in Nat /\ y[n - j] \in Nat /\ y[n] \in Nat
        /\ w[n - (j - 1)].weight \in Nat
    BY <1>1, <1>2, <1>3, <2>3
  <2> QED
    BY <2>5, <2>7, <2>8
<1>7. n - k \in 0 .. n /\ n - (n - k) = k /\ y[k] \in Nat /\ y[n] \in Nat
  BY <1>1, <1>2, <1>5
<1>8. n - k \notin Odd
  BY <1>6
<1>9. ~(y[n - (n - k)] > y[n])
  BY <1>7, <1>8
<1>10. y[k] <= y[n]
  BY <1>7, <1>9
<1> QED
  BY <1>4, <1>10 DEF y

\* What is popped off the front is old; what is left is the rest, in its order.
LEMMA PrunedIsRest ==
  ASSUME NEW w \in Seq(Entry), NEW t \in Nat
  PROVE  \E d \in 0 .. Len(w) :
           /\ Pruned(w, t) \in Seq(Entry)
           /\ Len(Pruned(w, t)) = Len(w) - d
           /\ \A j \in 1 .. Len(w) - d : Pruned(w, t)[j] = w[j + d]
           /\ \A j \in 1 .. d : w[j].at <= t - Window
<1> DEFINE young == {k \in DOMAIN w : t - w[k].at < Window}
           v == Pruned(w, t)
<1>1. Len(w) \in Nat /\ DOMAIN w = 1 .. Len(w) /\ \A k \in 1 .. Len(w) : w[k].at \in Nat
  <2>1. \A e \in Entry : e.at \in Nat
    BY DEF Entry
  <2>2. Len(w) \in Nat /\ \A j \in 1 .. Len(w) : w[j] \in Entry
    OBVIOUS
  <2> QED
    BY <2>1, <2>2
<1>2. v = IF young = {} THEN <<>> ELSE SubSeq(w, Min(young), Len(w))
  BY DEF Pruned, PoppedTo
<1> HIDE DEF v, Entry
<1>3. CASE young = {}
  <2>1. \A j \in 1 .. Len(w) : w[j].at <= t - Window
    BY <1>1, <1>3, LimitAssumption
  <2>2. v \in Seq(Entry) /\ Len(v) = 0
    BY <1>2, <1>3
  <2> QED
    BY <1>1, <2>1, <2>2 DEF v
<1>4. CASE young # {}
  <2> DEFINE m == Min(young)
  <2>1. m \in young /\ \A k \in young : m <= k
    <3>1. young \in SUBSET Nat
      BY <1>1
    <3> HIDE DEF young
    <3> QED
      BY <1>4, <3>1, LeastOf
  <2> HIDE DEF m
  <2>2. m \in 1 .. Len(w)
    BY <1>1, <2>1
  <2>3. ASSUME NEW j \in 1 .. m - 1
        PROVE  w[j].at <= t - Window
    <3>1. j \in 1 .. Len(w) /\ j < m /\ w[j].at \in Nat
      BY <1>1, <2>2
    <3>2. ~(m <= j)
      BY <2>2, <3>1
    <3>3. ~(t - w[j].at < Window)
      BY <1>1, <2>1, <3>1, <3>2
    <3> QED
      BY <3>1, <3>3, LimitAssumption
  <2>4. v = SubSeq(w, m, Len(w))
    BY <1>2, <1>4 DEF m
  <2>5. /\ v \in Seq(Entry)
        /\ Len(v) = Len(w) - (m - 1)
        /\ \A j \in 1 .. Len(w) - (m - 1) : v[j] = w[j + (m - 1)]
    BY <1>1, <2>2, <2>4, SubSeqProperties
  <2>6. m - 1 \in 0 .. Len(w)
    BY <1>1, <2>2
  <2> QED
    BY <2>3, <2>5, <2>6 DEF v
<1> QED
  BY <1>3, <1>4

\* The weight admitted up to a tick.
SpentBy(s, t) == IF t < 0 THEN 0 ELSE s[t]

\* Among the first k requests are all those admitted up to t.
Splits(w, k, t) ==
  /\ \A j \in 1 .. k : w[j].at <= t
  /\ \A j \in k + 1 .. Len(w) : w[j].at > t

\* What was admitted after a tick that is not older than the window is in the window.
Accounted(w, s, t0) ==
  \A t \in t0 - Window .. t0 : \A k \in 0 .. Len(w) :
    Splits(w, k, t) => s[t0] - SpentBy(s, t) = UsedUpTo(w)[Len(w)] - UsedUpTo(w)[k]

\* A window, the weight admitted so far and the time, of one limiter.
WindowFits(w, s, t0) ==
  /\ w \in Seq(Entry)
  /\ t0 \in 0 .. MaxTime
  /\ s \in [0 .. MaxTime -> Nat]
  /\ \A t \in t0 .. MaxTime : s[t] = s[t0]
  /\ \A j, k \in 1 .. Len(w) : j <= k => w[j].at <= w[k].at
  /\ \A j \in 1 .. Len(w) : w[j].at <= t0
  /\ Used(w) <= MaxWeight
  /\ Accounted(w, s, t0)

LEMMA SumsAreNumbers ==
  ASSUME NEW w \in Seq(Entry)
  PROVE  /\ Len(w) \in Nat
         /\ \A k \in 0 .. Len(w) : UsedUpTo(w)[k] \in Nat
         /\ Used(w) = UsedUpTo(w)[Len(w)]
         /\ Used(w) \in Nat
         /\ \A k \in 1 .. Len(w) : w[k].at \in Nat /\ w[k].weight \in Nat
<1>1. Len(w) \in Nat /\ UsedUpTo(w) \in [0 .. Len(w) -> Nat]
  BY RunningSum
<1>2. \A k \in 0 .. Len(w) : UsedUpTo(w)[k] \in Nat
  BY <1>1
<1>3. \A k \in 1 .. Len(w) : w[k] \in Entry
  OBVIOUS
<1>4. \A e \in Entry : e.at \in Nat /\ e.weight \in Nat
  BY DEF Entry
<1> QED
  BY <1>1, <1>2, <1>3, <1>4 DEF Used

\* An empty window at the start.
LEMMA FreshFits == WindowFits(<<>>, [t \in 0 .. MaxTime |-> 0], 0)
<1> DEFINE w == <<>>
           s == [t \in 0 .. MaxTime |-> 0]
<1>1. w \in Seq(Entry) /\ Len(w) = 0 /\ 0 \in 0 .. MaxTime
  BY RestAssumption
<1>2. UsedUpTo(w)[0] = 0 /\ Used(w) = 0
  BY <1>1, RunningSum DEF Used
<1>3. \A t \in 0 - Window .. 0 : SpentBy(s, t) = 0
  BY LimitAssumption, RestAssumption DEF SpentBy
<1>4. Accounted(w, s, 0)
  <2> SUFFICES ASSUME NEW t \in 0 - Window .. 0, NEW k \in 0 .. Len(w)
               PROVE  s[0] - SpentBy(s, t) = UsedUpTo(w)[Len(w)] - UsedUpTo(w)[k]
    BY DEF Accounted
  <2>1. s[0] = 0 /\ k = 0
    BY <1>1
  <2> QED
    BY <1>1, <1>2, <1>3, <2>1
<1> QED
  BY <1>1, <1>2, <1>4, LimitAssumption, RestAssumption DEF WindowFits

\* Popping what is too old.
LEMMA PruneFits ==
  ASSUME NEW w, NEW s, NEW t0, WindowFits(w, s, t0)
  PROVE  WindowFits(Pruned(w, t0), s, t0)
<1> DEFINE v == Pruned(w, t0)
<1>1. w \in Seq(Entry) /\ t0 \in Nat
  BY RestAssumption DEF WindowFits
<1>2. PICK d \in 0 .. Len(w) :
        /\ v \in Seq(Entry)
        /\ Len(v) = Len(w) - d
        /\ \A j \in 1 .. Len(w) - d : v[j] = w[j + d]
        /\ \A j \in 1 .. d : w[j].at <= t0 - Window
  BY <1>1, PrunedIsRest
<1> HIDE DEF v
<1>3. /\ Len(w) \in Nat /\ d \in Nat /\ Len(v) \in Nat /\ Len(v) + d = Len(w)
      /\ \A j \in 1 .. Len(v) : j + d \in 1 .. Len(w) /\ v[j] = w[j + d]
  <2>1. Len(w) \in Nat
    BY <1>1, SumsAreNumbers
  <2>2. d \in Nat /\ d <= Len(w)
    BY <2>1
  <2> QED
    BY <1>2, <2>1, <2>2
<1>4. \A j \in 0 .. Len(v) : UsedUpTo(v)[j] + UsedUpTo(w)[d] = UsedUpTo(w)[j + d]
  <2>1. \A j \in 1 .. Len(v) : v[j].weight = w[j + d].weight
    BY <1>3
  <2>2. Len(v) <= Len(v) /\ Len(v) + d <= Len(w)
    BY <1>3
  <2> QED
    BY <1>1, <1>2, <1>3, <2>1, <2>2, SumsShift
<1>5. \A j, k \in 1 .. Len(v) : j <= k => v[j].at <= v[k].at
  BY <1>3 DEF WindowFits
<1>6. \A j \in 1 .. Len(v) : v[j].at <= t0
  BY <1>3 DEF WindowFits
<1>7. Used(v) <= MaxWeight
  <2>1. UsedUpTo(v)[Len(v)] + UsedUpTo(w)[d] = UsedUpTo(w)[Len(w)]
    BY <1>3, <1>4
  <2>2. Used(v) + UsedUpTo(w)[d] = Used(w) /\ Used(v) \in Nat /\ Used(w) \in Nat /\ UsedUpTo(w)[d] \in Nat
    BY <1>1, <1>2, <2>1, SumsAreNumbers
  <2>3. Used(w) <= MaxWeight
    BY DEF WindowFits
  <2> QED
    BY <2>2, <2>3, LimitAssumption
<1>8. ASSUME NEW t \in t0 - Window .. t0, NEW k \in 0 .. Len(v), Splits(v, k, t)
      PROVE  s[t0] - SpentBy(s, t) = UsedUpTo(v)[Len(v)] - UsedUpTo(v)[k]
  <2>1. k + d \in 0 .. Len(w) /\ k \in Nat /\ t \in Int
    BY <1>3, <1>1, LimitAssumption
  <2>2. \A j \in 1 .. k + d : w[j].at <= t
    <3>1. \A j \in 1 .. d : w[j].at \in Nat
      BY <1>1, <1>2, SumsAreNumbers
    <3>2. \A j \in 1 .. d : w[j].at <= t
      <4>1. t0 - Window \in Int /\ t0 - Window <= t
        BY <1>1, <2>1, LimitAssumption
      <4>2. \A j \in 1 .. d : w[j].at <= t0 - Window
        BY <1>1, <1>2, <3>1, LimitAssumption
      <4> QED
        BY <2>1, <3>1, <4>1, <4>2
    <3>3. \A j \in d + 1 .. k + d : j - d \in 1 .. k /\ j - d \in 1 .. Len(v) /\ (j - d) + d = j
      BY <1>3, <2>1
    <3>4. \A j \in d + 1 .. k + d : w[j].at <= t
      BY <1>3, <1>8, <3>3 DEF Splits
    <3> QED
      BY <1>3, <2>1, <3>2, <3>4, SMTT(30)
  <2>3. \A j \in k + d + 1 .. Len(w) : w[j].at > t
    <3>1. \A j \in k + d + 1 .. Len(w) : j - d \in k + 1 .. Len(v) /\ j - d \in 1 .. Len(v) /\ (j - d) + d = j
      BY <1>3, <2>1
    <3> QED
      BY <1>3, <1>8, <3>1 DEF Splits
  <2>4. s[t0] - SpentBy(s, t) = UsedUpTo(w)[Len(w)] - UsedUpTo(w)[k + d]
    BY <2>1, <2>2, <2>3 DEF WindowFits, Accounted, Splits
  <2>5. /\ UsedUpTo(v)[Len(v)] + UsedUpTo(w)[d] = UsedUpTo(w)[Len(w)]
        /\ UsedUpTo(v)[k] + UsedUpTo(w)[d] = UsedUpTo(w)[k + d]
    <3>1. Len(v) \in 0 .. Len(v)
      BY <1>3
    <3> QED
      BY <1>3, <1>4, <3>1
  <2>6. UsedUpTo(v)[Len(v)] \in Nat /\ UsedUpTo(v)[k] \in Nat /\ UsedUpTo(w)[d] \in Nat
    <3>1. Len(v) \in 0 .. Len(v)
      BY <1>3
    <3> QED
      BY <1>1, <1>2, <3>1, SumsAreNumbers
  <2> QED
    BY <2>4, <2>5, <2>6
<1>9. Accounted(v, s, t0)
  BY <1>8 DEF Accounted
<1> QED
  BY <1>2, <1>5, <1>6, <1>7, <1>9 DEF WindowFits, v

\* A request that is admitted, in the window and in the weight admitted so far.
Charged(s, t0, x) == [t \in 0 .. MaxTime |-> IF t < t0 THEN s[t] ELSE s[t] + x]

LEMMA PushFits ==
  ASSUME NEW w, NEW s, NEW t0, NEW x \in Nat, WindowFits(w, s, t0),
         Used(w) + x <= MaxWeight
  PROVE  WindowFits(Append(w, [at |-> t0, weight |-> x]), Charged(s, t0, x), t0)
<1> DEFINE e == [at |-> t0, weight |-> x]
           v == Append(w, e)
           z == Charged(s, t0, x)
           n == Len(w)
<1>1. /\ w \in Seq(Entry) /\ t0 \in Nat /\ t0 \in 0 .. MaxTime /\ MaxTime \in Nat
      /\ s \in [0 .. MaxTime -> Nat] /\ e \in Entry
  BY RestAssumption DEF WindowFits, Entry
<1>2. /\ v \in Seq(Entry) /\ n \in Nat /\ Len(v) = n + 1
      /\ \A j \in 1 .. n : v[j] = w[j]
      /\ v[n + 1] = e
  <2> HIDE DEF e
  <2> QED
    BY <1>1
<1>3. e.at = t0 /\ e.weight = x
  OBVIOUS
<1> HIDE DEF v, n, e
<1>4. \A j \in 1 .. n + 1 : j \in 1 .. n \/ j = n + 1
  BY <1>2
<1>5. \A j \in 0 .. n : UsedUpTo(v)[j] = UsedUpTo(w)[j]
  <2>1. \A j \in 1 .. n : v[j].weight = w[j + 0].weight
    BY <1>2
  <2>2. n <= Len(v) /\ n + 0 <= Len(w) /\ 0 \in Nat
    BY <1>2 DEF n
  <2>3. \A j \in 0 .. n : UsedUpTo(v)[j] + UsedUpTo(w)[0] = UsedUpTo(w)[j + 0]
    BY <1>1, <1>2, <2>1, <2>2, SumsShift, ZenonT(30)
  <2>4. UsedUpTo(w)[0] = 0 /\ \A j \in 0 .. n : UsedUpTo(v)[j] \in Nat
    <3>1. \A j \in 0 .. n : j \in 0 .. Len(v)
      BY <1>2
    <3> QED
      BY <1>1, <1>2, <3>1, RunningSum, SumsAreNumbers
  <2>5. \A j \in 0 .. n : UsedUpTo(v)[j] + 0 = UsedUpTo(w)[j]
    BY <1>2, <2>3, <2>4
  <2> QED
    BY <2>4, <2>5
<1>6. UsedUpTo(v)[n + 1] = UsedUpTo(w)[n] + x
  <2>1. n + 1 \in 1 .. Len(v) /\ (n + 1) - 1 = n /\ n \in 0 .. n
    BY <1>2
  <2>2. UsedUpTo(v)[n + 1] = UsedUpTo(v)[(n + 1) - 1] + v[n + 1].weight
    BY <1>2, <2>1, RunningSum
  <2> QED
    BY <1>2, <1>3, <1>5, <2>1, <2>2
<1>7. UsedUpTo(w)[n] \in Nat /\ Used(w) = UsedUpTo(w)[n]
  BY <1>1, SumsAreNumbers DEF n, Used
<1>8. Used(v) <= MaxWeight
  BY <1>2, <1>6, <1>7 DEF Used
<1>9. /\ z \in [0 .. MaxTime -> Nat]
      /\ \A t \in 0 .. MaxTime : t < t0 => z[t] = s[t]
      /\ \A t \in t0 .. MaxTime : z[t] = s[t0] + x
  <2>1. \A t \in 0 .. MaxTime : s[t] \in Nat /\ s[t] + x \in Nat
    BY <1>1
  <2>2. \A t \in t0 .. MaxTime : t \in 0 .. MaxTime /\ ~(t < t0) /\ s[t] = s[t0]
    BY <1>1 DEF WindowFits
  <2> QED
    BY <2>1, <2>2 DEF Charged
<1>10. \A j, k \in 1 .. Len(v) : j <= k => v[j].at <= v[k].at
  <2>1. \A j \in 1 .. n : w[j].at <= t0
    BY DEF WindowFits, n
  <2>2. \A j, k \in 1 .. n : j <= k => w[j].at <= w[k].at
    BY DEF WindowFits, n
  <2>3. \A j \in 1 .. n : v[j].at <= v[n + 1].at
    BY <1>2, <1>3, <2>1
  <2>4. v[n + 1].at <= v[n + 1].at
    BY <1>1, <1>2, <1>3
  <2>5. \A j \in 1 .. n : ~(n + 1 <= j)
    BY <1>2
  <2>6. \A j, k \in 1 .. n : j <= k => v[j].at <= v[k].at
    BY <1>2, <2>2
  <2>7. \A j \in 1 .. Len(v) : j \in 1 .. n \/ j = n + 1
    BY <1>2
  <2> QED
    BY <2>3, <2>4, <2>5, <2>6, <2>7
<1>11. \A j \in 1 .. Len(v) : v[j].at <= t0
  <2>1. \A j \in 1 .. n : w[j].at <= t0
    BY DEF WindowFits, n
  <2> QED
    BY <1>1, <1>2, <1>3, <1>4, <2>1
<1>12. ASSUME NEW t \in t0 - Window .. t0, NEW k \in 0 .. Len(v), Splits(v, k, t)
       PROVE  z[t0] - SpentBy(z, t) = UsedUpTo(v)[Len(v)] - UsedUpTo(v)[k]
  <2>0. t \in Int /\ t <= t0 /\ t0 \in t0 .. MaxTime
    BY <1>1, LimitAssumption
  <2>1. CASE k = n + 1
    <3>1. t = t0
      <4>1. n + 1 \in 1 .. k
        BY <1>2, <2>1
      <4> QED
        BY <1>2, <1>3, <1>12, <2>0, <4>1, <1>1 DEF Splits
    <3>2. SpentBy(z, t) = z[t0] /\ z[t0] \in Nat
      BY <1>1, <1>9, <3>1 DEF SpentBy
    <3>3. UsedUpTo(v)[k] \in Nat
      BY <1>2, SumsAreNumbers
    <3> QED
      BY <1>2, <2>1, <3>2, <3>3
  <2>2. CASE k # n + 1
    <3>1. k \in 0 .. n /\ k \in Nat /\ n + 1 \in k + 1 .. Len(v)
      BY <1>2, <2>2
    <3>2. t < t0
      BY <1>1, <1>2, <1>3, <1>12, <2>0, <3>1 DEF Splits
    <3>3. Splits(w, k, t)
      <4>1. \A j \in 1 .. k : j \in 1 .. n
        BY <1>2, <3>1
      <4>2. \A j \in k + 1 .. n : j \in 1 .. n /\ j \in k + 1 .. Len(v)
        BY <1>2, <3>1
      <4>3. \A j \in 1 .. k : w[j].at <= t
        BY <1>2, <1>12, <4>1 DEF Splits
      <4>4. \A j \in k + 1 .. n : w[j].at > t
        BY <1>2, <1>12, <4>2 DEF Splits
      <4> QED
        BY <4>3, <4>4 DEF Splits, n
    <3>4. s[t0] - SpentBy(s, t) = UsedUpTo(w)[n] - UsedUpTo(w)[k]
      BY <3>1, <3>3 DEF WindowFits, Accounted, n
    <3>5. SpentBy(z, t) = SpentBy(s, t) /\ SpentBy(s, t) \in Nat
      BY <1>1, <1>9, <2>0, <3>2 DEF SpentBy
    <3>6. z[t0] = s[t0] + x /\ s[t0] \in Nat
      BY <1>1, <1>9, <2>0
    <3>7. UsedUpTo(v)[k] = UsedUpTo(w)[k] /\ UsedUpTo(w)[k] \in Nat
      BY <1>1, <1>5, <3>1, SumsAreNumbers DEF n
    <3>8. UsedUpTo(v)[Len(v)] = UsedUpTo(w)[n] + x
      BY <1>2, <1>6
    <3>9. /\ z[t0] - SpentBy(z, t) = (s[t0] + x) - SpentBy(s, t)
          /\ UsedUpTo(v)[Len(v)] - UsedUpTo(v)[k] = (UsedUpTo(w)[n] + x) - UsedUpTo(w)[k]
      BY <3>5, <3>6, <3>7, <3>8
    <3> QED
      <4>1. ASSUME NEW a \in Nat, NEW b \in Nat, NEW f \in Nat, NEW g \in Nat, a - b = f - g
            PROVE  (a + x) - b = (f + x) - g
        BY <4>1
      <4>2. s[t0] \in Nat /\ SpentBy(s, t) \in Nat /\ UsedUpTo(w)[n] \in Nat /\ UsedUpTo(w)[k] \in Nat
        BY <1>7, <3>5, <3>6, <3>7
      <4>3. (s[t0] + x) - SpentBy(s, t) = (UsedUpTo(w)[n] + x) - UsedUpTo(w)[k]
        BY <3>4, <4>1, <4>2, SMTT(30)
      <4> HIDE DEF z
      <4> QED
        BY <3>9, <4>3
  <2> QED
    BY <2>1, <2>2
<1>13. Accounted(v, z, t0)
  BY <1>12 DEF Accounted
<1>14. \A t \in t0 .. MaxTime : z[t] = z[t0]
  BY <1>1, <1>9
<1> QED
  BY <1>1, <1>2, <1>8, <1>9, <1>10, <1>11, <1>13, <1>14 DEF WindowFits, v, e

\* Time passes.
LEMMA LaterFits ==
  ASSUME NEW w, NEW s, NEW t0, WindowFits(w, s, t0), t0 < MaxTime
  PROVE  WindowFits(w, s, t0 + 1)
<1>1. /\ w \in Seq(Entry) /\ t0 \in Nat /\ t0 + 1 \in 0 .. MaxTime /\ MaxTime \in Nat
      /\ s \in [0 .. MaxTime -> Nat]
  BY RestAssumption DEF WindowFits
<1>2. Len(w) \in Nat /\ \A j \in 1 .. Len(w) : w[j].at \in Nat /\ w[j].at <= t0
  BY <1>1, SumsAreNumbers DEF WindowFits
<1>3. s[t0 + 1] = s[t0] /\ \A t \in t0 + 1 .. MaxTime : s[t] = s[t0]
  BY <1>1 DEF WindowFits
<1>4. \A j \in 1 .. Len(w) : w[j].at <= t0 + 1 /\ ~(w[j].at > t0 + 1)
  BY <1>1, <1>2
<1>5. ASSUME NEW t \in (t0 + 1) - Window .. t0 + 1, NEW k \in 0 .. Len(w), Splits(w, k, t)
      PROVE  s[t0 + 1] - SpentBy(s, t) = UsedUpTo(w)[Len(w)] - UsedUpTo(w)[k]
  <2>1. CASE t = t0 + 1
    <3>1. k = Len(w)
      <4> SUFFICES ASSUME k # Len(w)
                   PROVE  FALSE
        OBVIOUS
      <4>1. k + 1 \in k + 1 .. Len(w) /\ k + 1 \in 1 .. Len(w)
        BY <1>2
      <4> QED
        BY <1>4, <1>5, <2>1, <4>1 DEF Splits
    <3>2. SpentBy(s, t) = s[t0 + 1] /\ s[t0 + 1] \in Nat
      BY <1>1, <2>1 DEF SpentBy
    <3>3. UsedUpTo(w)[k] \in Nat
      BY <1>1, SumsAreNumbers
    <3> QED
      BY <3>1, <3>2, <3>3
  <2>2. CASE t # t0 + 1
    <3>1. t \in t0 - Window .. t0
      BY <1>1, <2>2, LimitAssumption
    <3> QED
      BY <1>3, <1>5, <3>1 DEF WindowFits, Accounted
  <2> QED
    BY <2>1, <2>2
<1>6. Accounted(w, s, t0 + 1)
  BY <1>5 DEF Accounted
<1> QED
  BY <1>1, <1>3, <1>4, <1>6 DEF WindowFits

\* No more than the budget is in the window, so no more was admitted within it.
LEMMA FitsKept ==
  ASSUME NEW w, NEW s, NEW t0, WindowFits(w, s, t0)
  PROVE  s[t0] - (IF t0 < Window THEN 0 ELSE s[t0 - Window]) <= MaxWeight
<1> DEFINE t == t0 - Window
           young == {j \in 1 .. Len(w) : w[j].at > t}
<1>1. w \in Seq(Entry) /\ t0 \in Nat /\ Window \in Nat /\ t \in Int /\ t \in t0 - Window .. t0
  BY RestAssumption, LimitAssumption DEF WindowFits
<1>2. Len(w) \in Nat /\ \A j \in 1 .. Len(w) : w[j].at \in Nat
  BY <1>1, SumsAreNumbers
<1>3. \A j, k \in 1 .. Len(w) : j <= k => w[j].at <= w[k].at
  BY DEF WindowFits
<1>4. \E k \in 0 .. Len(w) : Splits(w, k, t)
  <2>1. CASE young = {}
    <3>1. \A j \in 1 .. Len(w) : w[j].at <= t
      BY <1>1, <1>2, <2>1
    <3>2. Len(w) \in 0 .. Len(w) /\ Len(w) + 1 .. Len(w) = {}
      BY <1>2
    <3>3. Splits(w, Len(w), t)
      BY <3>1, <3>2 DEF Splits
    <3> QED
      BY <3>2, <3>3
  <2>2. CASE young # {}
    <3>1. young \in SUBSET Nat
      BY <1>2
    <3>2. PICK m \in young : \A j \in young : m <= j
      <4> HIDE DEF young
      <4> QED
        BY <2>2, <3>1, LeastOf
    <3>3. m \in 1 .. Len(w) /\ m - 1 \in 0 .. Len(w) /\ w[m].at > t
      BY <1>2, <3>2
    <3>4. \A j \in 1 .. m - 1 : w[j].at <= t
      <4> SUFFICES ASSUME NEW j \in 1 .. m - 1
                   PROVE  w[j].at <= t
        OBVIOUS
      <4>1. j \in 1 .. Len(w) /\ ~(m <= j)
        BY <1>2, <3>3
      <4>2. j \notin young
        BY <3>2, <4>1
      <4> QED
        BY <1>1, <1>2, <4>1, <4>2
    <3>5. \A j \in (m - 1) + 1 .. Len(w) : w[j].at > t
      <4> SUFFICES ASSUME NEW j \in (m - 1) + 1 .. Len(w)
                   PROVE  w[j].at > t
        OBVIOUS
      <4>1. j \in 1 .. Len(w) /\ m <= j
        BY <1>2, <3>3
      <4>2. w[m].at <= w[j].at
        BY <1>3, <3>3, <4>1
      <4> QED
        BY <1>1, <1>2, <3>3, <4>1, <4>2
    <3>6. Splits(w, m - 1, t)
      BY <3>4, <3>5 DEF Splits
    <3> QED
      BY <3>3, <3>6
  <2> QED
    BY <2>1, <2>2
<1>5. PICK k \in 0 .. Len(w) : Splits(w, k, t)
  BY <1>4
<1>6. s[t0] - SpentBy(s, t) = UsedUpTo(w)[Len(w)] - UsedUpTo(w)[k]
  BY <1>1, <1>5 DEF WindowFits, Accounted
<1>7. /\ UsedUpTo(w)[Len(w)] = Used(w) /\ Used(w) \in Nat /\ UsedUpTo(w)[k] \in Nat
      /\ Used(w) <= MaxWeight
  BY <1>1, SumsAreNumbers DEF WindowFits
<1>8. SpentBy(s, t) = IF t0 < Window THEN 0 ELSE s[t0 - Window]
  BY <1>1 DEF SpentBy
<1>9. s[t0] - SpentBy(s, t) <= MaxWeight
  BY <1>6, <1>7, LimitAssumption
<1> QED
  BY <1>8, <1>9

\* RestRateLimiter::acquire.
LEMMA AcquireFits ==
  ASSUME NEW w, NEW s, NEW t0, NEW x \in Nat, WindowFits(w, s, t0)
  PROVE  /\ RestAcquire(w, t0, x).answer = "ok" =>
              WindowFits(RestAcquire(w, t0, x).window, Charged(s, t0, x), t0)
         /\ RestAcquire(w, t0, x).answer # "ok" =>
              WindowFits(RestAcquire(w, t0, x).window, s, t0)
<1> DEFINE v == Pruned(w, t0)
<1>1. WindowFits(v, s, t0)
  BY PruneFits
<1>2. RestAcquire(w, t0, x) =
        IF Used(v) + x <= MaxWeight
        THEN [window |-> Append(v, [at |-> t0, weight |-> x]), answer |-> "ok"]
        ELSE [window |-> v, answer |-> IF v = <<>> THEN "panic" ELSE "limited"]
  BY DEF RestAcquire, Recent, Pushed
<1> HIDE DEF v
<1>3. CASE Used(v) + x <= MaxWeight
  BY <1>1, <1>2, <1>3, PushFits
<1>4. CASE ~(Used(v) + x <= MaxWeight)
  BY <1>1, <1>2, <1>4
<1> QED
  BY <1>3, <1>4

WindowInv == WindowFits(window, spent, now)

\* An acquisition of the client's, with what it writes down.
LEMMA ClientAcquires ==
  ASSUME WindowInv, NEW x \in Nat, UNCHANGED now,
         window' = RestAcquire(window, now, x).window,
         IF RestAcquire(window, now, x).answer = "ok" THEN Spend(x) ELSE UNCHANGED spent
  PROVE  WindowInv'
<1>1. spent' = IF RestAcquire(window, now, x).answer = "ok" THEN Charged(spent, now, x) ELSE spent
  BY DEF Spend, Charged
<1> QED
  BY <1>1, AcquireFits DEF WindowInv

LEMMA WeightIsNumber ==
  ASSUME CallInv, NEW c \in Callers, at[c] \in InfoSteps
  PROVE  Weight(c) \in Nat
BY DEF Weight, InfoSteps, CallInv, StepFits

LEMMA AskOnWindow ==
  ASSUME CallInv, WindowInv, NEW c \in Callers, Ask(c)
  PROVE  WindowInv'
<1>1. Weight(c) \in Nat /\ UNCHANGED now
  BY WeightIsNumber DEF Ask, clockVars
<1>2. /\ window' = RestAcquire(window, now, Weight(c)).window
      /\ IF RestAcquire(window, now, Weight(c)).answer = "ok"
         THEN Spend(Weight(c)) ELSE UNCHANGED spent
  BY DEF Ask
<1> QED
  BY <1>1, <1>2, ClientAcquires

LEMMA AdmitOnWindow ==
  ASSUME WindowInv, NEW c \in Callers, Admit(c)
  PROVE  WindowInv'
<1>1. UNCHANGED now
  BY DEF Admit, clockVars
<1>2. /\ window' = RestAcquire(window, now, 1).window
      /\ IF RestAcquire(window, now, 1).answer = "ok" THEN Spend(1) ELSE UNCHANGED spent
  BY DEF Admit
<1> QED
  BY <1>1, <1>2, ClientAcquires

\* Nothing else in a call touches the window or the time.
LEMMA CallKeepsWindow ==
  ASSUME NEW c \in Callers, Start(c) \/ Info(c) \/ Submit(c), ~Ask(c), ~Admit(c)
  PROVE  UNCHANGED <<window, spent, now>>
<1>1. CASE Start(c)
  BY <1>1 DEF Start, limitVars, PlaceOrder, Change, CancelOne, CancelAll, GetBalance, ReadOne,
              BeginAsUser, Begin
<1>2. CASE Info(c)
  BY <1>2 DEF Info, VenueReads, InfoLost, LookUp, OrdersArrive, IndexArrives, MetaArrives,
              SpotArrives, PerpArrives, ReadArrives, Arrived, limitVars, clockVars
<1>3. CASE Submit(c)
  BY <1>3 DEF Submit, ReadNonce, SwapNonce, SignFails, Charge, Returns, limitVars, clockVars
<1> QED
  BY <1>1, <1>2, <1>3

LEMMA WindowStep ==
  ASSUME CallInv, WindowInv, [Next]_vars
  PROVE  WindowInv'
<1>1. CASE UNCHANGED <<window, spent, now>>
  BY <1>1 DEF WindowInv
<1>2. ASSUME NEW c \in Callers, Start(c) \/ Info(c) \/ Submit(c)
      PROVE  WindowInv'
  BY <1>1, <1>2, AskOnWindow, AdmitOnWindow, CallKeepsWindow
<1>3. CASE VenueHandles \/ ActionLost \/ OrderFills \/ Lists \/ UNCHANGED vars
  BY <1>1, <1>3 DEF VenueHandles, ActionLost, OrderFills, Lists, vars, limitVars, clockVars
<1>4. CASE Tick
  BY <1>4, LaterFits DEF Tick, limitVars, WindowInv
<1>5. CASE ReadBudget
  <2>1. window' = Pruned(window, now) /\ UNCHANGED <<spent, now>>
    BY <1>5 DEF ReadBudget, BudgetSnapshot, Recent, clockVars
  <2> QED
    BY <2>1, PruneFits DEF WindowInv
<1> QED
  BY <1>2, <1>3, <1>4, <1>5 DEF Next

LEMMA WindowInit == Init => WindowInv
BY FreshFits DEF Init, WindowInv

\* Whatever the calls of any number of tasks weigh and however they interleave, no
\* window of time sees more weight admitted than the budget: RestRateLimiter keeps what
\* it promises the exchange.
THEOREM WindowIsKept == Spec => []WindowKept
<1>1. WindowInv => WindowKept
  BY FitsKept DEF WindowInv, WindowKept
<1> QED
  BY <1>1, CallInit, CallStep, WindowInit, WindowStep, PTL DEF Spec

-----------------------------------------------------------------------------
(* The address limiter. *)

\* Beyond its budget an address was let through at most once per interval.
PaceInv ==
  /\ now \in Nat /\ address.consumed \in Nat /\ address.budget \in Nat
  /\ address = [budget |-> address.budget, consumed |-> address.consumed,
                throttled |-> address.throttled]
  /\ address.throttled = {} => address.consumed <= address.budget
  /\ \A t \in address.throttled :
       t \in Nat /\ t <= now /\ address.consumed <= address.budget + 1 + t \div Interval

LEMMA Intervals ==
  ASSUME NEW x \in Nat, NEW y \in Nat
  PROVE  /\ x \div Interval \in Nat
         /\ x <= y => x \div Interval <= y \div Interval
         /\ y - x >= Interval => x \div Interval + 1 <= y \div Interval
<1> DEFINE I == Interval
           p == x \div I
           q == y \div I
<1>1. I \in Nat /\ I > 0
  BY LimitAssumption
<1>2. /\ p \in Int /\ I * p <= x /\ x < I * (p + 1)
      /\ q \in Int /\ I * q <= y /\ y < I * (q + 1)
  BY <1>1
<1> HIDE DEF I, p, q
<1>3. ASSUME NEW a \in Int, NEW b \in Int, I * a < I * b
      PROVE  a < b
  <2> SUFFICES ASSUME a - b \in Nat
               PROVE  FALSE
    OBVIOUS
  <2>1. I * a = I * b + I * (a - b)
    BY <1>1
  <2>2. I * (a - b) \in Nat
    BY <1>1
  <2>3. I * a \in Int /\ I * b \in Int
    BY <1>1
  <2> QED
    BY <1>3, <2>1, <2>2, <2>3
<1>4. /\ I * p \in Int /\ I * q \in Int
      /\ I * (p + 1) = I * p + I /\ I * (q + 1) = I * q + I
      /\ I * (p + 2) = I * p + I + I /\ I * 0 = 0
  BY <1>1, <1>2
<1>5. p \in Nat
  <2>1. I * 0 < I * (p + 1)
    BY <1>1, <1>2, <1>4
  <2>2. 0 < p + 1
    BY <1>2, <1>3, <2>1
  <2> QED
    BY <1>2, <2>2
<1>6. ASSUME x <= y
      PROVE  p <= q
  <2>1. I * p < I * (q + 1)
    BY <1>1, <1>2, <1>4, <1>6
  <2>2. q + 1 \in Int
    BY <1>2
  <2>3. p < q + 1
    BY <1>2, <1>3, <2>1, <2>2
  <2> QED
    BY <1>2, <2>3
<1>7. ASSUME y - x >= I
      PROVE  p + 1 <= q
  <2>1. I * (p + 1) < I * (q + 1)
    BY <1>1, <1>2, <1>4, <1>7
  <2>2. p + 1 \in Int /\ q + 1 \in Int
    BY <1>2
  <2>3. p + 1 < q + 1
    BY <1>3, <2>1, <2>2
  <2> QED
    BY <1>2, <2>3
<1> QED
  BY <1>5, <1>6, <1>7 DEF p, q, I

LEMMA ChargeOnPace ==
  ASSUME PaceInv, NEW c \in Callers, Charge(c)
  PROVE  /\ PaceInv'
         /\ \/ UNCHANGED address
            \/ address'.consumed = address.consumed + 1 /\ at' = [at EXCEPT ![c] = "exchange"]
<1> DEFINE grant == AddressAcquire(address, now, 1, FALSE)
           more == [address EXCEPT !.consumed = @ + 1]
<1>1. UNCHANGED now /\ address' = grant.address
  BY DEF Charge, clockVars
<1>2. /\ more.budget = address.budget /\ more.consumed = address.consumed + 1
      /\ more.throttled = address.throttled
      /\ more = [budget |-> address.budget, consumed |-> address.consumed + 1,
                 throttled |-> address.throttled]
  <2>1. address = [budget |-> address.budget, consumed |-> address.consumed,
                   throttled |-> address.throttled]
    BY DEF PaceInv
  <2> QED
    BY <2>1
<1>3. CASE address.consumed + 1 <= address.budget
  <2>1. address' = more /\ grant.answer = "ok"
    BY <1>1, <1>3 DEF AddressAcquire
  <2>2. \A t \in address'.throttled :
          t \in Nat /\ t <= now' /\ address'.consumed <= address'.budget + 1 + t \div Interval
    <3>1. ASSUME NEW t \in address.throttled
          PROVE  t \in Nat /\ t <= now /\ address.consumed + 1 <= address.budget + 1 + t \div Interval
      <4>1. t \in Nat /\ t <= now
        BY DEF PaceInv
      <4>2. t \div Interval \in Nat
        BY <4>1, Intervals
      <4> QED
        BY <1>3, <4>1, <4>2 DEF PaceInv
    <3> QED
      BY <1>1, <1>2, <2>1, <3>1
  <2>3. /\ address'.budget = address.budget /\ address'.consumed = address.consumed + 1
        /\ address'.throttled = address.throttled
        /\ address' = [budget |-> address.budget, consumed |-> address.consumed + 1,
                       throttled |-> address.throttled]
    BY <1>2, <2>1
  <2>4. /\ now' \in Nat /\ address'.consumed \in Nat /\ address'.budget \in Nat
        /\ address'.consumed <= address'.budget
    <3>1. address.consumed + 1 \in Nat /\ address.budget \in Nat /\ now \in Nat
      BY DEF PaceInv
    <3>2. UNCHANGED now
      BY <1>1
    <3> QED
      BY <1>3, <2>3, <3>1, <3>2
  <2>5. address' = [budget |-> address'.budget, consumed |-> address'.consumed,
                    throttled |-> address'.throttled]
    BY <2>3
  <2>6. PaceInv'
    BY <2>2, <2>4, <2>5 DEF PaceInv
  <2> QED
    BY <2>1, <2>3, <2>6 DEF Charge
<1>4. CASE /\ ~(address.consumed + 1 <= address.budget)
           /\ ~(\E t \in address.throttled : now - t < Interval)
  <2>1. address' = [address EXCEPT !.consumed = @ + 1, !.throttled = {now}] /\ grant.answer = "ok"
    BY <1>1, <1>4 DEF AddressAcquire, Mark
  <2>2. /\ address'.budget = address.budget /\ address'.consumed = address.consumed + 1
        /\ address'.throttled = {now}
        /\ address' = [budget |-> address.budget, consumed |-> address.consumed + 1,
                       throttled |-> {now}]
    BY <1>2, <2>1
  <2>3. address.consumed + 1 <= address.budget + 1 + now \div Interval
    <3>1. CASE address.throttled = {}
      <4>1. address.consumed <= address.budget /\ now \div Interval \in Nat
        BY <3>1, Intervals DEF PaceInv
      <4> QED
        BY <4>1 DEF PaceInv
    <3>2. CASE address.throttled # {}
      <4>1. PICK t \in address.throttled : TRUE
        BY <3>2
      <4>2. t \in Nat /\ now - t >= Interval /\ address.consumed <= address.budget + 1 + t \div Interval
        BY <1>4, <4>1, LimitAssumption DEF PaceInv
      <4>3. t \div Interval + 1 <= now \div Interval /\ t \div Interval \in Nat /\ now \div Interval \in Nat
        BY <4>2, Intervals DEF PaceInv
      <4> QED
        BY <4>2, <4>3 DEF PaceInv
    <3> QED
      BY <3>1, <3>2
  <2>4. /\ now' \in Nat /\ address'.consumed \in Nat /\ address'.budget \in Nat
        /\ \A t \in address'.throttled :
             t \in Nat /\ t <= now' /\ address'.consumed <= address'.budget + 1 + t \div Interval
    <3>1. address.consumed + 1 \in Nat /\ address.budget \in Nat /\ now \in Nat /\ now <= now
      BY DEF PaceInv
    <3>2. UNCHANGED now
      BY <1>1
    <3> QED
      BY <2>2, <2>3, <3>1, <3>2
  <2>5. PaceInv'
    BY <2>2, <2>4 DEF PaceInv
  <2> QED
    BY <2>1, <2>2, <2>5 DEF Charge
<1>5. CASE /\ ~(address.consumed + 1 <= address.budget)
           /\ \E t \in address.throttled : now - t < Interval
  <2>1. UNCHANGED address
    BY <1>1, <1>5 DEF AddressAcquire
  <2> QED
    BY <1>1, <2>1 DEF PaceInv
<1> QED
  BY <1>3, <1>4, <1>5

LEMMA CallKeepsAddress ==
  ASSUME NEW c \in Callers, Start(c) \/ Info(c) \/ Submit(c), ~Charge(c)
  PROVE  UNCHANGED <<address, now>>
<1>1. CASE Start(c)
  BY <1>1 DEF Start, limitVars, PlaceOrder, Change, CancelOne, CancelAll, GetBalance, ReadOne,
              BeginAsUser, Begin
<1>2. CASE Info(c)
  BY <1>2 DEF Info, Ask, VenueReads, InfoLost, LookUp, OrdersArrive, IndexArrives, MetaArrives,
              SpotArrives, PerpArrives, ReadArrives, Arrived, limitVars, clockVars
<1>3. CASE Submit(c)
  BY <1>3 DEF Submit, ReadNonce, SwapNonce, SignFails, Admit, Returns, limitVars, clockVars
<1> QED
  BY <1>1, <1>2, <1>3

LEMMA OutsideKeepsAddress ==
  ASSUME Outside \/ UNCHANGED vars
  PROVE  UNCHANGED <<address, calls>>
BY DEF Outside, VenueHandles, ActionLost, OrderFills, Lists, Tick, ReadBudget, vars,
       limitVars, clockVars

LEMMA PaceInit == Init => PaceInv
BY RestAssumption DEF Init, PaceInv, NewAddress

LEMMA PaceStep ==
  ASSUME PaceInv, [Next]_vars
  PROVE  PaceInv'
<1>1. CASE UNCHANGED <<address, now>>
  BY <1>1 DEF PaceInv
<1>2. ASSUME NEW c \in Callers, Start(c) \/ Info(c) \/ Submit(c)
      PROVE  PaceInv'
  BY <1>1, <1>2, ChargeOnPace, CallKeepsAddress
<1>3. CASE VenueHandles \/ ActionLost \/ OrderFills \/ Lists \/ ReadBudget \/ UNCHANGED vars
  <2>1. UNCHANGED address
    BY <1>3, OutsideKeepsAddress DEF Outside
  <2>2. UNCHANGED now
    BY <1>3 DEF VenueHandles, ActionLost, OrderFills, Lists, ReadBudget, vars, clockVars
  <2> QED
    BY <1>1, <2>1, <2>2
<1>4. CASE Tick
  <2>1. UNCHANGED address /\ now' = now + 1
    BY <1>4, OutsideKeepsAddress DEF Outside, Tick
  <2> QED
    BY <2>1 DEF PaceInv
<1> QED
  BY <1>2, <1>3, <1>4 DEF Next

\* Once an address has used up its budget, no more than one action per interval is let
\* through, for any budget, interval and number of tasks.
THEOREM PaceIsKept == Spec => []PaceKept
<1>1. PaceInv => PaceKept
  <2> SUFFICES ASSUME PaceInv
               PROVE  address.consumed <= address.budget + 1 + now \div Interval
    BY DEF PaceKept
  <2>1. now \div Interval \in Nat
    BY Intervals DEF PaceInv
  <2>2. CASE address.throttled = {}
    BY <2>1, <2>2 DEF PaceInv
  <2>3. CASE address.throttled # {}
    <3>1. PICK t \in address.throttled : TRUE
      BY <2>3
    <3>2. t \in Nat /\ t <= now /\ address.consumed <= address.budget + 1 + t \div Interval
      BY <3>1 DEF PaceInv
    <3>3. t \div Interval <= now \div Interval /\ t \div Interval \in Nat
      BY <3>2, Intervals DEF PaceInv
    <3> QED
      BY <2>1, <3>2, <3>3 DEF PaceInv
  <2> QED
    BY <2>2, <2>3
<1> QED
  BY <1>1, PaceInit, PaceStep, PTL DEF Spec

-----------------------------------------------------------------------------
(* Types. *)

\* Calls the address has not been charged for and may still be.
Charging == {c \in Callers : at[c] \notin {"idle", "exchange"}}

\* The address was charged at most once for each call that was started.
CountInv ==
  /\ calls \in 0 .. MaxCalls
  /\ address.consumed \in Nat
  /\ IsFiniteSet(Charging)
  /\ address.consumed + Cardinality(Charging) <= calls

LEMMA CountInit == Init => CountInv
<1> SUFFICES ASSUME Init
             PROVE  CountInv
  OBVIOUS
<1>1. Charging = {}
  BY DEF Init, Charging
<1>2. IsFiniteSet(Charging) /\ Cardinality(Charging) = 0
  BY <1>1, FS_EmptySet
<1>3. calls = 0 /\ address.consumed = 0
  BY DEF Init, NewAddress
<1> QED
  BY <1>2, <1>3, RestAssumption DEF CountInv

LEMMA FewerCharging ==
  ASSUME CountInv, UNCHANGED <<calls, address>>, Charging' \subseteq Charging
  PROVE  CountInv'
<1>1. IsFiniteSet(Charging') /\ Cardinality(Charging') <= Cardinality(Charging)
  BY FS_Subset DEF CountInv
<1>2. Cardinality(Charging) \in Nat /\ Cardinality(Charging') \in Nat
  BY <1>1, FS_CardinalityType DEF CountInv
<1> QED
  BY <1>1, <1>2, RestAssumption DEF CountInv

LEMMA StartCounts ==
  ASSUME CallInv, CountInv, NEW c \in Callers, Start(c)
  PROVE  CountInv'
<1>1. calls' = calls + 1 /\ calls < MaxCalls /\ UNCHANGED address
  BY DEF Start, limitVars, PlaceOrder, Change, CancelOne, CancelAll, GetBalance, ReadOne,
         BeginAsUser, Begin
<1>2. at' = [at EXCEPT ![c] = at'[c]] /\ at = [x \in Callers |-> at[x]]
  BY StartFits DEF CallInv, Functions4
<1>3. Charging' \subseteq Charging \cup {c}
  BY <1>2 DEF Charging
<1>4. IsFiniteSet(Charging \cup {c}) /\ Cardinality(Charging \cup {c}) <= Cardinality(Charging) + 1
  <2>1. Cardinality(Charging) \in Nat
    BY FS_CardinalityType DEF CountInv
  <2> QED
    BY <2>1, FS_AddElement DEF CountInv
<1>5. IsFiniteSet(Charging') /\ Cardinality(Charging') <= Cardinality(Charging \cup {c})
  BY <1>3, <1>4, FS_Subset
<1>6. Cardinality(Charging) \in Nat /\ Cardinality(Charging') \in Nat
      /\ Cardinality(Charging \cup {c}) \in Nat
  BY <1>4, <1>5, FS_CardinalityType DEF CountInv
<1> QED
  BY <1>1, <1>4, <1>5, <1>6, RestAssumption DEF CountInv

\* A call that goes on is charged for as before, or not any more.
LEMMA CallCharges ==
  ASSUME CallInv, CountInv, PaceInv, NEW c \in Callers, Info(c) \/ Submit(c)
  PROVE  CountInv'
<1>1. at' = [at EXCEPT ![c] = at'[c]] /\ at = [x \in Callers |-> at[x]] /\ at[c] # "idle"
  BY InfoFits, SubmitFits DEF CallInv, Functions4
<1>2. UNCHANGED calls
  BY DEF Info, Ask, VenueReads, InfoLost, LookUp, OrdersArrive, IndexArrives, MetaArrives,
         SpotArrives, PerpArrives, ReadArrives, Arrived, Submit, ReadNonce, SwapNonce, SignFails,
         Admit, Charge, Returns, clockVars
<1>3. at[c] = "exchange" => at'[c] = "idle"
  <2> SUFFICES ASSUME at[c] = "exchange"
               PROVE  at'[c] = "idle"
    OBVIOUS
  <2>1. ~Info(c)
    BY DEF Info, Ask, VenueReads, InfoLost, LookUp, OrdersArrive, IndexArrives, MetaArrives,
           SpotArrives, PerpArrives, ReadArrives, Arrived, InfoSteps
  <2>2. Returns(c)
    BY <2>1 DEF Submit, ReadNonce, SwapNonce, SignFails, Admit, Charge
  <2>3. at' = [at EXCEPT ![c] = "idle"]
    BY <2>2 DEF Returns, Finish
  <2> QED
    BY <1>1, <2>3
<1>4. Charging' \subseteq Charging
  BY <1>1, <1>3 DEF Charging
<1>5. CASE UNCHANGED address
  BY <1>2, <1>4, <1>5, FewerCharging
<1>6. CASE /\ Charge(c)
           /\ address'.consumed = address.consumed + 1
           /\ at' = [at EXCEPT ![c] = "exchange"]
  <2>1. at[c] = "charge" /\ at'[c] = "exchange"
    BY <1>1, <1>6 DEF Charge
  <2>2. c \in Charging /\ Charging' = Charging \ {c}
    BY <1>1, <2>1 DEF Charging
  <2>3. IsFiniteSet(Charging') /\ Cardinality(Charging') = Cardinality(Charging) - 1
    BY <2>2, FS_RemoveElement DEF CountInv
  <2>4. Cardinality(Charging) \in Nat /\ Cardinality(Charging') \in Nat
    BY <2>3, FS_CardinalityType DEF CountInv
  <2> QED
    BY <1>2, <1>6, <2>3, <2>4, RestAssumption DEF CountInv
<1> QED
  BY <1>5, <1>6, ChargeOnPace, CallKeepsAddress

LEMMA CountStep ==
  ASSUME CallInv, CountInv, PaceInv, [Next]_vars
  PROVE  CountInv'
<1>1. ASSUME Outside \/ UNCHANGED vars
      PROVE  CountInv'
  <2>1. UNCHANGED <<address, calls, at>>
    BY <1>1, OutsideKeepsAddress, OutsideFits
  <2> QED
    BY <2>1, FewerCharging DEF Charging
<1> QED
  BY <1>1, StartCounts, CallCharges DEF Next, Outside

\* Types, and where every call can be: the clock and the number of calls keep their
\* bounds, the window is in the order of its times, the address is charged once for a
\* call at most, and only a call that waits for an answer has a request under way.
THEOREM TypeCorrect == Spec => []TypeOK
<1>1. CallInv /\ WindowInv /\ NonceInv /\ CountInv => TypeOK
  <2> SUFFICES ASSUME CallInv, WindowInv, NonceInv, CountInv
               PROVE  TypeOK
    OBVIOUS
  <2>1. now \in 0 .. MaxTime /\ calls \in 0 .. MaxCalls /\ lastNonce \in Nat
    BY DEF WindowInv, WindowFits, NonceInv, CountInv
  <2>2. \A j, k \in DOMAIN window :
          j <= k => window[j].at <= window[k].at /\ window[k].at <= now
    BY DEF WindowInv, WindowFits
  <2>3. address.consumed <= calls
    <3>1. Cardinality(Charging) \in Nat
      BY FS_CardinalityType DEF CountInv
    <3> QED
      BY <3>1, <2>1 DEF CountInv
  <2>4. at \in [Callers -> Steps]
    BY DEF CallInv, Functions4, StepFits
  <2>5. \A c \in Callers : (at[c] = "idle") = (job[c].op = "none")
    BY DEF CallInv, StepFits
  <2>6. \A c \in Callers : post[c] # "none" => at[c] \in InfoSteps \cup {"exchange"}
    BY DEF CallInv, StepFits
  <2> QED
    BY <2>1, <2>2, <2>3, <2>4, <2>5, <2>6 DEF TypeOK, Steps
<1>2. Init => CallInv /\ WindowInv /\ NonceInv /\ CountInv /\ PaceInv
  BY CallInit, WindowInit, NonceInit, CountInit, PaceInit
<1>3. /\ CallInv /\ WindowInv /\ NonceInv /\ CountInv /\ PaceInv
      /\ [Next]_vars
      => (CallInv /\ WindowInv /\ NonceInv /\ CountInv /\ PaceInv)'
  BY CallStep, WindowStep, NonceStep, CountStep, PaceStep
<1> QED
  BY <1>1, <1>2, <1>3, PTL DEF Spec

-----------------------------------------------------------------------------
(* A balance: of both accounts, converted row by row.                      *)

IsGot(g) ==
  g = [targets |-> g.targets, index |-> g.index, nonce |-> g.nonce, spot |-> g.spot, rows |-> g.rows]

\* Who waits for the perp account has the answer about the spot account, and rows
\* that were returned are whole.
BalanceFits(c) ==
  /\ IsGot(got[c])
  /\ at[c] \in {"perp", "perpAgain"} => \E r \in SpotReplies : got[c].spot = <<r>>
  /\ got[c].rows # Err => Whole(got[c].rows[1])

BalanceInv ==
  /\ got = [c \in Callers |-> got[c]]
  /\ \A c \in Callers : BalanceFits(c)

LEMMA ValueKnown ==
  ASSUME NEW raw, Decimal(raw), Known(raw)
  PROVE  Value(raw) \in Int /\ raw = {Value(raw)}
BY DEF Decimal, Known, Value

\* What is free bounds what is usable, whatever is left after maintenance.
LEMMA UsableIsFree ==
  ASSUME NEW free \in Int, NEW safe, Decimal(safe)
  PROVE  Min({free} \cup safe) <= free
<1>1. \E m \in {free} \cup safe : \A z \in {free} \cup safe : m <= z
  <2>1. CASE safe = {}
    BY <2>1
  <2>2. CASE safe # {}
    <3>1. PICK x \in Int : safe = {x}
      BY <2>2 DEF Decimal
    <3>2. CASE x <= free
      BY <3>1, <3>2
    <3>3. CASE free <= x
      BY <3>1, <3>3
    <3> QED
      BY <3>1, <3>2, <3>3
  <2> QED
    BY <2>1, <2>2
<1>2. \A z \in {free} \cup safe : Min({free} \cup safe) <= z
  BY <1>1 DEF Min
<1> QED
  BY <1>2

LEMMA SpotRowFits ==
  ASSUME NEW b, NEW after, NEW margin,
         Decimal(b.total), Decimal(b.hold), Known(b.total), Known(b.hold), b.coin # "PERP",
         \A t \in DOMAIN after : Decimal(after[t])
  PROVE  LET row == SpotRow(b, after, margin) IN
         /\ row.token # "PERP"
         /\ row.usable <= row.free
         /\ row.marginUsed \subseteq margin
<1> DEFINE free == Value(b.total) - Value(b.hold)
           safe == IF b.token \in DOMAIN after THEN after[b.token] ELSE {}
<1>1. free \in Int
  BY ValueKnown
<1>2. Decimal(safe)
  BY DEF Decimal
<1>3. Min({free} \cup safe) <= free
  BY <1>1, <1>2, UsableIsFree
<1> QED
  BY <1>3 DEF SpotRow

LEMMA PerpRowFits ==
  ASSUME NEW r \in PerpReplies, MapPerpState(r) # Err
  PROVE  LET row == MapPerpState(r)[1] IN
         /\ row.token = "PERP"
         /\ row.usable <= row.free
         /\ r.margin \subseteq row.marginUsed
<1>1. Known(r.value) /\ Decimal(r.value) /\ Decimal(r.margin)
  BY RestAssumption DEF MapPerpState
<1> DEFINE equity == Value(r.value)
           margin == IF Known(r.margin) THEN Value(r.margin) ELSE 0
<1>2. equity \in Int /\ margin \in Int /\ r.margin \subseteq {margin}
  BY <1>1, ValueKnown DEF Known
<1>3. /\ MapPerpState(r)[1].token = "PERP"
      /\ MapPerpState(r)[1].usable = equity - margin
      /\ MapPerpState(r)[1].free = equity - margin
      /\ MapPerpState(r)[1].marginUsed = {margin}
  BY <1>1 DEF MapPerpState, Ok
<1> QED
  BY <1>2, <1>3

\* The rows of both answers are whole, whichever of the two perp answers was taken.
LEMMA BalanceIsWhole ==
  ASSUME NEW c \in Callers, NEW s \in SpotReplies, got[c].spot = <<s>>,
         NEW r \in PerpReplies, NEW margin, margin \subseteq r.margin,
         Balance(c, r, margin) # Err
  PROVE  Whole(Balance(c, r, margin)[1])
<1> DEFINE n    == Len(s.balances)
           last == MapPerpState(r)[1]
           rows == [k \in 1 .. n |-> SpotRow(s.balances[k], s.after, margin)]
<1>1. /\ n \in Nat /\ DOMAIN s.balances = 1 .. n
      /\ \A k \in 1 .. n : Decimal(s.balances[k].total) /\ Decimal(s.balances[k].hold)
                              /\ s.balances[k].coin # "PERP"
      /\ \A t \in DOMAIN s.after : Decimal(s.after[t])
  <2>1. IsSpotReply(s)
    BY RestAssumption
  <2>2. n \in Nat /\ DOMAIN s.balances = 1 .. n
    <3>1. \A S : \A x \in Seq(S) : Len(x) \in Nat /\ DOMAIN x = 1 .. Len(x)
      OBVIOUS
    <3> QED
      BY <2>1, <3>1 DEF IsSpotReply
  <2>3. \A k \in DOMAIN s.balances : s.balances[k] \in ToSet(s.balances)
    BY DEF ToSet
  <2> QED
    BY <2>1, <2>2, <2>3 DEF IsSpotReply
<1>2. /\ MapPerpState(r) # Err
      /\ \A k \in 1 .. n : Known(s.balances[k].total) /\ Known(s.balances[k].hold)
      /\ Balance(c, r, margin) = Ok(Append(rows, last))
  <2>1. got[c].spot[1] = s
    OBVIOUS
  <2>2. /\ MapSpotState(s, margin) # Err /\ MapPerpState(r) # Err
        /\ Balance(c, r, margin) = Ok(Append(MapSpotState(s, margin)[1], last))
    BY <2>1 DEF Balance
  <2>3. /\ \A k \in 1 .. n : Known(s.balances[k].total) /\ Known(s.balances[k].hold)
        /\ MapSpotState(s, margin) = Ok(rows)
    BY <1>1, <2>2 DEF MapSpotState
  <2> QED
    BY <2>2, <2>3 DEF Ok
<1>3. \A k \in 1 .. n : /\ rows[k].token # "PERP"
                         /\ rows[k].usable <= rows[k].free
                         /\ rows[k].marginUsed \subseteq margin
  BY <1>1, <1>2, SpotRowFits
<1>4. last.token = "PERP" /\ last.usable <= last.free /\ r.margin \subseteq last.marginUsed
  BY <1>2, PerpRowFits
<1> HIDE DEF rows, last
<1>5. \E S : rows \in Seq(S) /\ last \in S /\ Len(rows) = n
  <2> WITNESS {rows[k] : k \in 1 .. n} \cup {last}
  <2> QED
    BY <1>1 DEF rows
<1> DEFINE all == Append(rows, last)
<1>6. /\ DOMAIN all = 1 .. (n + 1) /\ Len(all) = n + 1
      /\ all[n + 1] = last /\ \A k \in 1 .. n : all[k] = rows[k]
  BY <1>1, <1>5
<1> HIDE DEF all, n
<1>7. Whole(all)
  BY <1>1, <1>3, <1>4, <1>6 DEF Whole
<1> QED
  BY <1>2, <1>7 DEF all, Ok

LEMMA OneBalance ==
  ASSUME BalanceInv, CallInv, NEW c \in Callers,
         got' = [got EXCEPT ![c] = got'[c]], at' = [at EXCEPT ![c] = at'[c]],
         BalanceFits(c)'
  PROVE  BalanceInv'
<1>1. \A d \in Callers : d # c => got'[d] = got[d] /\ at'[d] = at[d]
  BY DEF BalanceInv, CallInv, Functions4
<1>2. ASSUME NEW d \in Callers, d # c
      PROVE  BalanceFits(d)'
  BY <1>1, <1>2 DEF BalanceInv, BalanceFits
<1> QED
  BY <1>2 DEF BalanceInv

\* Steps of a call that leave its rows alone, those that end it, and the return of
\* a balance.
LEMMA RowsStay ==
  ASSUME BalanceInv, CallInv, NEW c \in Callers, NEW step, NEW have,
         at' = [at EXCEPT ![c] = step], got' = [got EXCEPT ![c] = have],
         IsGot(have), have.rows = got[c].rows,
         step \in {"perp", "perpAgain"} => \E r \in SpotReplies : have.spot = <<r>>
  PROVE  BalanceInv'
<1>1. at'[c] = step /\ got'[c] = have
  BY DEF BalanceInv, CallInv, Functions4
<1>2. BalanceFits(c)'
  <2>1. have.rows # Err => Whole(have.rows[1])
    BY DEF BalanceInv, BalanceFits
  <2>2. IsGot(got'[c])
    BY <1>1
  <2> QED
    BY <1>1, <2>1, <2>2 DEF BalanceFits, IsGot
<1> QED
  BY <1>1, <1>2, OneBalance

LEMMA FreshBalance ==
  ASSUME BalanceInv, CallInv, NEW c \in Callers, NEW step, step \notin {"perp", "perpAgain"},
         at' = [at EXCEPT ![c] = step], got' = [got EXCEPT ![c] = Nothing]
  PROVE  BalanceInv'
<1>1. at'[c] = step /\ got'[c] = Nothing
  BY DEF BalanceInv, CallInv, Functions4
<1>2. IsGot(Nothing) /\ Nothing.rows = Err
  BY DEF IsGot, Nothing, Err
<1>3. BalanceFits(c)'
  <2>1. IsGot(got[c])' /\ ~(got'[c].rows # Err)
    BY <1>1, <1>2 DEF IsGot
  <2>2. ~(at'[c] \in {"perp", "perpAgain"})
    BY <1>1
  <2> QED
    BY <2>1, <2>2 DEF BalanceFits
<1> QED
  BY <1>1, <1>3, OneBalance

LEMMA FinishBalance ==
  ASSUME BalanceInv, CallInv, NEW c \in Callers, NEW how, Finish(c, how)
  PROVE  BalanceInv'
BY FreshBalance DEF Finish

LEMMA InfoFailsBalance ==
  ASSUME BalanceInv, CallInv, NEW c \in Callers, NEW why, InfoFails(c, why)
  PROVE  BalanceInv'
<1>1. CASE at[c] = "perp" /\ GoesOn(c, "perpAgain", got[c])
  BY <1>1, RowsStay DEF GoesOn, BalanceInv, BalanceFits
<1>2. CASE Finish(c, why)
  BY <1>2, FinishBalance
<1> QED
  BY <1>1, <1>2 DEF InfoFails

LEMMA PerpArrivesBalance ==
  ASSUME BalanceInv, CallInv, NEW c \in Callers, PerpArrives(c)
  PROVE  BalanceInv'
<1>1. PICK step \in {"perp", "perpAgain"} :
        /\ at[c] = step
        /\ \E r \in PerpReplies :
             ReturnsRows(c, Balance(c, r, IF step = "perp" THEN r.margin ELSE {}))
  BY DEF PerpArrives, Arrived
<1>2. PICK r \in PerpReplies :
        ReturnsRows(c, Balance(c, r, IF step = "perp" THEN r.margin ELSE {}))
  BY <1>1
<1> DEFINE margin == IF step = "perp" THEN r.margin ELSE {}
           rows   == Balance(c, r, margin)
<1>3. PICK s \in SpotReplies : got[c].spot = <<s>>
  BY <1>1 DEF BalanceInv, BalanceFits
<1>4. rows # Err => Whole(rows[1])
  BY <1>3, BalanceIsWhole
<1> HIDE DEF rows
<1>5. at'[c] = "idle" /\ got'[c] = [Nothing EXCEPT !.rows = rows]
  BY <1>2 DEF ReturnsRows, BalanceInv, CallInv, Functions4, rows
<1>6. IsGot(got'[c]) /\ got'[c].rows = rows
  BY <1>5 DEF IsGot, Nothing
<1>7. BalanceFits(c)'
  <2>1. got'[c].rows # Err => Whole(got'[c].rows[1])
    BY <1>4, <1>6
  <2>2. IsGot(got[c])'
    BY <1>6 DEF IsGot
  <2>3. ~(at'[c] \in {"perp", "perpAgain"})
    BY <1>5
  <2> QED
    BY <2>1, <2>2, <2>3 DEF BalanceFits
<1>8. got' = [got EXCEPT ![c] = got'[c]] /\ at' = [at EXCEPT ![c] = at'[c]]
  BY <1>2, <1>5 DEF ReturnsRows
<1> QED
  BY <1>7, <1>8, OneBalance

LEMMA InfoBalance ==
  ASSUME BalanceInv, CallInv, NEW c \in Callers, Info(c)
  PROVE  BalanceInv'
<1>1. IsGot(got[c])
  BY DEF BalanceInv, BalanceFits
<1>2. ASSUME NEW x
      PROVE  /\ IsGot([got[c] EXCEPT !.index = x]) /\ [got[c] EXCEPT !.index = x].rows = got[c].rows
             /\ IsGot([got[c] EXCEPT !.targets = x]) /\ [got[c] EXCEPT !.targets = x].rows = got[c].rows
  BY <1>1 DEF IsGot
<1>3. ASSUME NEW step, step \notin {"perp", "perpAgain"},
             NEW have, IsGot(have), have.rows = got[c].rows, GoesOn(c, step, have)
      PROVE  BalanceInv'
  BY <1>3, RowsStay DEF GoesOn
<1>4. CASE Ask(c)
  <2>1. CASE UNCHANGED <<at, got>>
    BY <2>1 DEF BalanceInv, BalanceFits, IsGot, Whole
  <2> QED
    BY <1>4, <2>1, InfoFailsBalance DEF Ask
<1>5. CASE VenueReads(c)
  BY <1>5 DEF VenueReads, BalanceInv, BalanceFits, IsGot, Whole
<1>6. CASE InfoLost(c)
  BY <1>6, InfoFailsBalance DEF InfoLost
<1>7. CASE LookUp(c)
  BY <1>1, <1>2, <1>3, <1>7 DEF LookUp
<1>8. CASE OrdersArrive(c)
  BY <1>1, <1>2, <1>3, <1>8, FinishBalance DEF OrdersArrive
<1>9. CASE IndexArrives(c)
  BY <1>1, <1>2, <1>3, <1>9, FinishBalance DEF IndexArrives
<1>10. CASE MetaArrives(c)
  BY <1>1, <1>2, <1>3, <1>10, FinishBalance DEF MetaArrives
<1>11. CASE SpotArrives(c)
  <2>1. PICK r \in SpotReplies : GoesOn(c, "perp", [got[c] EXCEPT !.spot = <<r>>])
    BY <1>11 DEF SpotArrives
  <2> DEFINE have == [got[c] EXCEPT !.spot = <<r>>]
  <2>2. IsGot(have) /\ have.rows = got[c].rows /\ have.spot = <<r>>
    BY <1>1 DEF IsGot
  <2> QED
    BY <2>1, <2>2, RowsStay DEF GoesOn
<1>12. CASE PerpArrives(c)
  BY <1>12, PerpArrivesBalance
<1>13. CASE ReadArrives(c)
  BY <1>13, FinishBalance DEF ReadArrives
<1> QED
  BY <1>4, <1>5, <1>6, <1>7, <1>8, <1>9, <1>10, <1>11, <1>12, <1>13 DEF Info

LEMMA SubmitBalance ==
  ASSUME BalanceInv, CallInv, NEW c \in Callers, Submit(c)
  PROVE  BalanceInv'
<1>1. IsGot(got[c])
  BY DEF BalanceInv, BalanceFits
<1>2. ASSUME NEW step \in {"swap", "sign", "charge", "exchange"},
             at' = [at EXCEPT ![c] = step], UNCHANGED got
      PROVE  BalanceInv'
  <2>1. got' = [got EXCEPT ![c] = got[c]]
    BY <1>2 DEF BalanceInv
  <2> QED
    BY <1>1, <1>2, <2>1, RowsStay
<1>3. CASE SwapNonce(c)
  <2>1. CASE seen[c].last = lastNonce
    <3> DEFINE have == [got[c] EXCEPT !.nonce = Candidate(c)]
    <3>1. got' = [got EXCEPT ![c] = have] /\ at' = [at EXCEPT ![c] = "sign"]
      BY <1>3, <2>1 DEF SwapNonce
    <3>2. IsGot(have) /\ have.rows = got[c].rows
      BY <1>1 DEF IsGot
    <3> HIDE DEF have
    <3> QED
      BY <3>1, <3>2, RowsStay
  <2>2. CASE UNCHANGED <<at, got>>
    BY <2>2 DEF BalanceInv, BalanceFits, IsGot, Whole
  <2> QED
    BY <1>3, <2>1, <2>2 DEF SwapNonce
<1> QED
  BY <1>2, <1>3, FinishBalance DEF Submit, ReadNonce, SignFails, Admit, Charge, Returns

LEMMA StartBalance ==
  ASSUME BalanceInv, CallInv, NEW c \in Callers, Start(c)
  PROVE  BalanceInv'
<1>1. PICK j, step : Begin(c, j, step) /\ step \in {"lookup", "orders", "spot", "read"}
  BY DEF Start, PlaceOrder, Change, CancelOne, CancelAll, GetBalance, ReadOne, BeginAsUser
<1> QED
  BY <1>1, FreshBalance DEF Begin

LEMMA BalanceInit == Init => BalanceInv
BY DEF Init, BalanceInv, BalanceFits, IsGot, Nothing, Err

LEMMA BalanceStep ==
  ASSUME BalanceInv, CallInv, [Next]_vars
  PROVE  BalanceInv'
<1>1. ASSUME Outside \/ UNCHANGED vars
      PROVE  BalanceInv'
  <2>1. UNCHANGED <<at, got>>
    BY <1>1, OutsideFits
  <2> QED
    BY <2>1 DEF BalanceInv, BalanceFits, IsGot, Whole
<1> QED
  BY <1>1, StartBalance, InfoBalance, SubmitBalance DEF Next, Outside

\* A balance that is returned is whole: get_balance has no rows without its perp row, last,
\* and charges no margin the perp answer did not have, even if it asked for the perp
\* account a second time.
THEOREM BalanceIsAlwaysWhole == Spec => []BalanceWhole
<1>1. BalanceInv => BalanceWhole
  BY DEF BalanceInv, BalanceFits, BalanceWhole
<1> QED
  BY <1>1, CallInit, CallStep, BalanceInit, BalanceStep, PTL DEF Spec

-----------------------------------------------------------------------------
(* Orders: what is known of each, from its placement to the end of its     *)
(* cancel.                                                                 *)

\* The universe grows at its end, so an answer or a cache has its beginning.
Begins(names) ==
  /\ names \in Seq(Symbols)
  /\ \A i \in DOMAIN names : i \in DOMAIN universe /\ names[i] = universe[i]

\* An index of the market the order was placed on.
Points(i, o) == i \in DOMAIN universe /\ universe[i] = asked[o][1].coin

\* An order as the exchange has it: one that was placed, on its market.
IsOrder(x) ==
  /\ x = [cloid |-> x.cloid, coin |-> x.coin, reduceOnly |-> x.reduceOnly]
  /\ x.cloid \in Cloids /\ asked[x.cloid] # <<>>
  /\ x.coin = asked[x.cloid][1].coin
  /\ x.coin = Spot \/ \E i \in DOMAIN universe : universe[i] = x.coin

\* Its placement has not been sent yet.
Placing(o) == \E c \in Callers : job[c].op = "place" /\ job[c].cloid = o /\ at[c] # "exchange"

\* It was sent.
WentOut(o) == o \in Cloids /\ asked[o] # <<>> /\ ~Placing(o) /\ o \notin refused

\* Its placement will not be handled any more.
Past(o) ==
  /\ o \in Cloids /\ asked[o] # <<>> /\ ~Placing(o)
  /\ \A r \in wire : r.kind = "order" => r.cloid # o

\* A cancel has still to take it off the books: it rests on an asset the client knows, and
\* no cancel was answered for it.
Held(o) ==
  /\ o \notin spared
  /\ \E x \in resting : x.cloid = o /\ x.coin # Spot

WireFits(r) ==
  /\ r.kind \in {"order", "modify", "cancel"}
  /\ r.nonce \in Nat /\ r.nonce <= lastNonce
  /\ ~r.forged
  /\ r.kind = "order" => Points(r.index, r.cloid)
  /\ r.kind \in {"order", "modify"} => WentOut(r.cloid)
  /\ r.kind = "cancel" => r.cloid = "none"

VenueInv ==
  /\ universe \in Seq(Symbols)
  /\ cache # <<>> => Begins(cache[1].names)
  /\ \A x \in resting : IsOrder(x) /\ WentOut(x.cloid) /\ Past(x.cloid)
  /\ \A r \in wire : WireFits(r)
  /\ \A r, s \in wire : r.kind = "order" /\ s.kind = "order" /\ r.cloid = s.cloid => r = s

\* What calls have told.
ToldInv ==
  /\ \A o \in refused : o \in Cloids /\ asked[o] # <<>>
  /\ \A o \in gone : Past(o) /\ ~Held(o)
  /\ denied = {}

Submitting == {"key", "swap", "sign", "charge"}

\* The order a call is about.
OrderFits(c) ==
  /\ IsGot(got[c])
  /\ job[c].op \in {"place", "change", "cancel"} => job[c].cloid \in Cloids /\ asked[job[c].cloid] # <<>>
  /\ job[c].op = "place" =>
       /\ asked[job[c].cloid][1].coin = job[c].coin
       /\ job[c].cloid \notin refused
       /\ job[c].known => \E i \in DOMAIN universe : universe[i] = job[c].coin
       /\ at[c] \in Submitting => Points(got[c].index, job[c].cloid)
  /\ job[c].op = "change" /\ at[c] \in {"lookup", "index"} \cup Submitting =>
       /\ got[c].targets # {}
       /\ \A x \in got[c].targets : IsOrder(x) /\ WentOut(x.cloid) /\ x.cloid = job[c].cloid
  /\ at[c] = "meta" => \A x \in got[c].targets : IsOrder(x)

\* The answer it got.
ReplyFits(c) ==
  post[c] = "answered" =>
    /\ at[c] = "orders" => \A x \in reply[c] : IsOrder(x) /\ WentOut(x.cloid)
    /\ at[c] \in {"index", "meta"} => Begins(reply[c])
    /\ at[c] = "index" /\ job[c].op = "place" =>
         (job[c].known => \E i \in DOMAIN reply[c] : reply[c][i] = job[c].coin)
    /\ at[c] = "meta" => \A x \in got[c].targets : x.coin = Spot \/ \E i \in DOMAIN reply[c] : reply[c][i] = x.coin
    /\ at[c] = "exchange" => reply[c] \in {"ok", "failed"}

\* The nonce of what it sends is its own.
NonceFits(c) ==
  /\ at[c] \in {"sign", "charge", "exchange"} => got[c].nonce \in Nat /\ got[c].nonce <= lastNonce
  /\ at[c] \in {"sign", "charge"} => \A r \in wire : r.nonce # got[c].nonce
  /\ at[c] = "exchange" /\ job[c].op \in {"cancel", "cancelAll"} =>
       \A r \in wire : r.nonce = got[c].nonce => r.kind = "cancel" /\ r.targets = got[c].targets

\* What a cancel must leave off the books is handed on from the answer to the action.
SettledFits(c) ==
  \A o \in settled[c] :
    /\ job[c].op \in {"cancel", "cancelAll"}
    /\ at[c] \in {"orders", "meta", "exchange"} \cup Submitting
    /\ Past(o)
    /\ job[c].op = "cancel" => o = job[c].cloid
    /\ at[c] = "orders" => post[c] = "answered"
    /\ at[c] = "orders" /\ Held(o) => \E x \in reply[c] : x.cloid = o
    /\ at[c] = "meta" /\ Held(o) => \E x \in got[c].targets : x.cloid = o
    /\ at[c] \in Submitting \cup {"exchange"} /\ Held(o) =>
         \E t \in got[c].targets : t.cloid = o /\ Points(t.index, o)
    /\ at[c] = "exchange" /\ post[c] = "answered" /\ reply[c] = "ok" => ~Held(o)

\* Of two calls.
Apart(c, d) ==
  c # d =>
    /\ job[c].op = "place" /\ job[d].op = "place" => job[c].cloid # job[d].cloid
    /\ at[c] \in {"sign", "charge", "exchange"} /\ at[d] \in {"sign", "charge", "exchange"} =>
         got[c].nonce # got[d].nonce

OrderShape ==
  /\ got = [c \in Callers |-> got[c]] /\ reply = [c \in Callers |-> reply[c]]
  /\ settled = [c \in Callers |-> settled[c]] /\ asked = [o \in Cloids |-> asked[o]]

OrderInv ==
  /\ OrderShape /\ VenueInv /\ ToldInv
  /\ \A c \in Callers : OrderFits(c) /\ ReplyFits(c) /\ NonceFits(c) /\ SettledFits(c)
  /\ \A c, d \in Callers : Apart(c, d)

\* What no step takes back: what an order was placed as, where an asset is listed, that an
\* order was sent, and that it can no longer come to rest.
Kept ==
  /\ \A o \in Cloids : asked[o] # <<>> => asked'[o] = asked[o]
  /\ universe' \in Seq(Symbols)
  /\ \A i \in DOMAIN universe : i \in DOMAIN universe' /\ universe'[i] = universe[i]
  /\ \A o : WentOut(o) => WentOut(o)'
  /\ \A o : Past(o) => Past(o)'
  /\ \A o : Past(o) /\ Held(o)' => Held(o)
  /\ lastNonce' \in Nat /\ lastNonce <= lastNonce'

\* A caller that the step is not about.
Untouched(d) ==
  /\ at'[d] = at[d] /\ job'[d] = job[d] /\ post'[d] = post[d]
  /\ reply'[d] = reply[d] /\ got'[d] = got[d] /\ settled'[d] = settled[d]

LEMMA OrderStays ==
  ASSUME Kept
  PROVE  /\ \A x : IsOrder(x) => IsOrder(x)'
         /\ \A names : Begins(names) => Begins(names)'
         /\ \A i, o : o \in Cloids /\ asked[o] # <<>> /\ Points(i, o) => Points(i, o)'
<1>1. \A x : IsOrder(x) => IsOrder(x)'
  BY DEF Kept, IsOrder
<1>2. \A names : Begins(names) => Begins(names)'
  BY DEF Kept, Begins
<1>3. \A i, o : o \in Cloids /\ asked[o] # <<>> /\ Points(i, o) => Points(i, o)'
  BY DEF Kept, Points
<1> QED
  BY <1>1, <1>2, <1>3

LEMMA OrderFitsStays ==
  ASSUME Kept, NEW d \in Callers, OrderFits(d),
         at'[d] = at[d], job'[d] = job[d], got'[d] = got[d],
         job[d].op = "place" => job[d].cloid \notin refused'
  PROVE  OrderFits(d)'
<1>1. IsGot(got[d])'
  BY DEF OrderFits, IsGot
<1>2. /\ job'[d].op \in {"place", "change", "cancel"} =>
           job'[d].cloid \in Cloids /\ asked'[job'[d].cloid] # <<>>
      /\ job'[d].op = "place" =>
           /\ asked'[job'[d].cloid][1].coin = job'[d].coin
           /\ job'[d].cloid \notin refused'
           /\ job'[d].known => \E i \in DOMAIN universe' : universe'[i] = job'[d].coin
  BY DEF OrderFits, Kept
<1>3. job'[d].op = "place" /\ at'[d] \in Submitting =>
        Points(got[d].index, job[d].cloid)'
  BY DEF OrderFits, Kept, Points
<1>4. \A x : IsOrder(x) /\ WentOut(x.cloid) => IsOrder(x)' /\ WentOut(x.cloid)'
  BY OrderStays DEF Kept
<1>5. job'[d].op = "change" /\ at'[d] \in {"lookup", "index"} \cup Submitting =>
        /\ got'[d].targets # {}
        /\ \A x \in got'[d].targets : IsOrder(x)' /\ WentOut(x.cloid)' /\ x.cloid = job'[d].cloid
  BY <1>4 DEF OrderFits
<1>6. at'[d] = "meta" => \A x \in got'[d].targets : IsOrder(x)'
  BY OrderStays DEF OrderFits
<1> QED
  BY <1>1, <1>2, <1>3, <1>5, <1>6 DEF OrderFits

LEMMA ReplyFitsStays ==
  ASSUME Kept, NEW d \in Callers, ReplyFits(d), Untouched(d)
  PROVE  ReplyFits(d)'
<1>1. \A x : IsOrder(x) /\ WentOut(x.cloid) => IsOrder(x)' /\ WentOut(x.cloid)'
  BY OrderStays DEF Kept
<1>2. post'[d] = "answered" /\ at'[d] = "orders" =>
        \A x \in reply'[d] : IsOrder(x)' /\ WentOut(x.cloid)'
  BY <1>1 DEF ReplyFits, Untouched
<1>3. post'[d] = "answered" /\ at'[d] \in {"index", "meta"} => Begins(reply[d])'
  BY DEF ReplyFits, Untouched, Begins, Kept
<1> QED
  BY <1>2, <1>3 DEF ReplyFits, Untouched

LEMMA NonceFitsStays ==
  ASSUME Kept, NonceInv, NEW d \in Callers, NonceFits(d),
         at'[d] = at[d], job'[d] = job[d], got'[d] = got[d],
         at[d] \in {"sign", "charge", "exchange"} =>
           \A r \in wire' : r \in wire \/ r.nonce # got[d].nonce
  PROVE  NonceFits(d)'
<1>1. at'[d] \in {"sign", "charge", "exchange"} => got'[d].nonce \in Nat /\ got'[d].nonce <= lastNonce'
  BY DEF NonceFits, Kept, NonceInv
<1> QED
  BY <1>1 DEF NonceFits

LEMMA SettledFitsStays ==
  ASSUME Kept, NEW d \in Callers, SettledFits(d),
         at'[d] = at[d], job'[d] = job[d], got'[d] = got[d], settled'[d] = settled[d],
         at[d] \in {"orders", "exchange"} => post'[d] = post[d] /\ reply'[d] = reply[d]
  PROVE  SettledFits(d)'
<1> SUFFICES ASSUME NEW o \in settled[d]
             PROVE  /\ job'[d].op \in {"cancel", "cancelAll"}
                    /\ at'[d] \in {"orders", "meta", "exchange"} \cup Submitting
                    /\ Past(o)'
                    /\ job'[d].op = "cancel" => o = job'[d].cloid
                    /\ at'[d] = "orders" => post'[d] = "answered"
                    /\ at'[d] = "orders" /\ Held(o)' => \E x \in reply'[d] : x.cloid = o
                    /\ at'[d] = "meta" /\ Held(o)' => \E x \in got'[d].targets : x.cloid = o
                    /\ at'[d] \in Submitting \cup {"exchange"} /\ Held(o)' =>
                         \E t \in got'[d].targets : t.cloid = o /\ Points(t.index, o)'
                    /\ at'[d] = "exchange" /\ post'[d] = "answered" /\ reply'[d] = "ok" => ~Held(o)'
  BY DEF SettledFits
<1>1. Past(o) /\ Past(o)' /\ (Held(o)' => Held(o)) /\ o \in Cloids /\ asked[o] # <<>>
  BY DEF SettledFits, Kept, Past
<1>2. \A t : Points(t.index, o) => Points(t.index, o)'
  BY <1>1, OrderStays
<1> QED
  BY <1>1, <1>2 DEF SettledFits

LEMMA OrderInit == Init => OrderInv
<1> SUFFICES ASSUME Init
             PROVE  OrderInv
  OBVIOUS
<1>1. OrderShape
  BY DEF Init, OrderShape
<1>2. universe \in Seq(Symbols)
  BY RestAssumption DEF Init
<1>3. \A x \in resting : IsOrder(x) /\ WentOut(x.cloid) /\ Past(x.cloid)
  <2>1. PICK early \in Early :
          /\ resting = {[cloid |-> o, coin |-> Spot, reduceOnly |-> FALSE] : o \in early}
          /\ asked = [o \in Cloids |->
               IF o \in early THEN <<[coin |-> Spot, reduceOnly |-> FALSE]>> ELSE <<>>]
    BY DEF Init
  <2>2. \A c \in Callers : job[c].op # "place"
    BY DEF Init
  <2>3. wire = {} /\ refused = {} /\ early \subseteq Cloids
    BY RestAssumption DEF Init
  <2> SUFFICES ASSUME NEW o \in early, NEW x, x = [cloid |-> o, coin |-> Spot, reduceOnly |-> FALSE]
               PROVE  IsOrder(x) /\ WentOut(x.cloid) /\ Past(x.cloid)
    BY <2>1
  <2>4. x.cloid = o /\ x.coin = Spot /\ x.reduceOnly = FALSE /\ o \in Cloids
    BY <2>3
  <2>5. asked[o] = <<[coin |-> Spot, reduceOnly |-> FALSE]>>
    BY <2>1, <2>4
  <2>6. asked[o] # <<>> /\ asked[o][1].coin = Spot
    BY <2>5
  <2>7. IsOrder(x)
    BY <2>4, <2>6 DEF IsOrder
  <2> QED
    BY <2>2, <2>3, <2>4, <2>6, <2>7 DEF WentOut, Past, Placing
<1>4. VenueInv
  BY <1>2, <1>3 DEF Init, VenueInv
<1>5. ToldInv
  BY DEF Init, ToldInv
<1>6. ASSUME NEW c \in Callers
      PROVE  OrderFits(c) /\ ReplyFits(c) /\ NonceFits(c) /\ SettledFits(c)
  <2>1. /\ at[c] = "idle" /\ job[c].op = "none" /\ post[c] = "none" /\ got[c] = Nothing
        /\ settled[c] = {}
    BY DEF Init
  <2> QED
    BY <2>1 DEF OrderFits, ReplyFits, NonceFits, SettledFits, IsGot, Nothing, Submitting
<1>7. \A c, d \in Callers : Apart(c, d)
  BY DEF Init, Apart
<1> QED
  BY <1>1, <1>4, <1>5, <1>6, <1>7 DEF OrderInv

-----------------------------------------------------------------------------
(* A step that is one caller's. *)

Signing == {"sign", "charge", "exchange"}

LEMMA Gathered ==
  ASSUME OrderInv, NonceInv, Kept, NEW c \in Callers,
         \A d \in Callers : d # c => Untouched(d),
         \A d \in Callers : d # c /\ at[d] \in Signing =>
           \A r \in wire' : r \in wire \/ r.nonce # got[d].nonce,
         \A d \in Callers : d # c /\ job[d].op = "place" => job[d].cloid \notin refused',
         OrderShape', VenueInv', ToldInv',
         OrderFits(c)', ReplyFits(c)', NonceFits(c)', SettledFits(c)',
         \A d \in Callers : d # c => Apart(c, d)'
  PROVE  OrderInv'
<1>1. ASSUME NEW d \in Callers, d # c
      PROVE  (OrderFits(d) /\ ReplyFits(d) /\ NonceFits(d) /\ SettledFits(d))'
  <2>1. OrderFits(d) /\ ReplyFits(d) /\ NonceFits(d) /\ SettledFits(d) /\ Untouched(d)
    BY <1>1 DEF OrderInv
  <2>2. OrderFits(d)'
    BY <1>1, <2>1, OrderFitsStays DEF Untouched
  <2>3. ReplyFits(d)'
    BY <1>1, <2>1, ReplyFitsStays
  <2>4. NonceFits(d)'
    BY <1>1, <2>1, NonceFitsStays DEF Signing, Untouched
  <2>5. SettledFits(d)'
    BY <1>1, <2>1, SettledFitsStays DEF Untouched
  <2> QED
    BY <2>2, <2>3, <2>4, <2>5
<1>2. ASSUME NEW d \in Callers, NEW e \in Callers
      PROVE  Apart(d, e)'
  <2>1. CASE d # c /\ e # c
    BY <2>1 DEF OrderInv, Apart, Untouched
  <2>2. CASE d = c
    BY <2>2 DEF Apart
  <2>3. CASE e = c /\ d # c
    <3>1. Apart(c, d)'
      BY <2>3
    <3> QED
      BY <2>3, <3>1 DEF Apart
  <2> QED
    BY <2>1, <2>2, <2>3
<1>3. (\A d \in Callers : OrderFits(d) /\ ReplyFits(d) /\ NonceFits(d) /\ SettledFits(d))'
  BY <1>1
<1> QED
  BY <1>2, <1>3 DEF OrderInv

\* Where the books stay as they are.
LEMMA BooksStay ==
  ASSUME OrderInv, NonceInv, UNCHANGED <<universe, resting, spared, wire>>,
         \A o \in Cloids : asked[o] # <<>> => asked'[o] = asked[o],
         \A o \in Cloids : asked[o] # <<>> /\ ~Placing(o) => ~Placing(o)',
         \A o \in Cloids : asked[o] # <<>> /\ ~Placing(o) /\ o \notin refused => o \notin refused',
         lastNonce' \in Nat, lastNonce <= lastNonce',
         cache' # <<>> => Begins(cache'[1].names) 
  PROVE  Kept /\ VenueInv'
<1>1. universe \in Seq(Symbols)
  BY DEF OrderInv, VenueInv
<1>2. \A o : WentOut(o) => WentOut(o)'
  BY DEF WentOut
<1>3. \A o : Past(o) => Past(o)'
  BY DEF Past
<1>4. \A o : Held(o)' => Held(o)
  BY DEF Held
<1>5. Kept
  BY <1>1, <1>2, <1>3, <1>4 DEF Kept
<1>6. \A x \in resting' : IsOrder(x)' /\ WentOut(x.cloid)' /\ Past(x.cloid)'
  <2>1. \A x \in resting : IsOrder(x) /\ WentOut(x.cloid) /\ Past(x.cloid)
    BY DEF OrderInv, VenueInv
  <2> QED
    BY <1>2, <1>3, <1>5, <2>1, OrderStays
<1>7. ASSUME NEW r \in wire'
      PROVE  WireFits(r)'
  <2>1. WireFits(r)
    BY DEF OrderInv, VenueInv
  <2>2. r.nonce \in Nat /\ r.nonce <= lastNonce'
    BY <2>1 DEF WireFits, NonceInv
  <2>3. r.kind = "order" => Points(r.index, r.cloid)'
    <3>1. r.kind = "order" => r.cloid \in Cloids /\ asked[r.cloid] # <<>> /\ Points(r.index, r.cloid)
      BY <2>1 DEF WireFits, WentOut
    <3> QED
      BY <1>5, <3>1, OrderStays
  <2>4. r.kind \in {"order", "modify"} => WentOut(r.cloid)'
    BY <1>2, <2>1 DEF WireFits
  <2> QED
    BY <2>1, <2>2, <2>3, <2>4 DEF WireFits
<1>8. cache' # <<>> => Begins(cache[1].names)'
  BY DEF Begins
<1> QED
  BY <1>1, <1>5, <1>6, <1>7, <1>8 DEF OrderInv, VenueInv

\* What was told stays true.
LEMMA ToldStays ==
  ASSUME OrderInv, Kept, UNCHANGED <<gone, refused, denied>>
  PROVE  ToldInv'
<1>1. \A o \in refused : o \in Cloids /\ asked'[o] # <<>>
  BY DEF OrderInv, ToldInv, Kept
<1>2. \A o \in gone : Past(o)' /\ ~Held(o)'
  BY DEF OrderInv, ToldInv, Kept
<1> QED
  BY <1>1, <1>2 DEF OrderInv, ToldInv

-----------------------------------------------------------------------------
(* A call that returns. *)

LEMMA FinishView ==
  ASSUME OrderInv, CallInv, NEW c \in Callers, NEW how, Finish(c, how)
  PROVE  /\ at'[c] = "idle" /\ job'[c] = [op |-> "none"] /\ post'[c] = "none"
         /\ got'[c] = Nothing /\ settled'[c] = {}
         /\ \A d \in Callers : d # c => Untouched(d)
         /\ OrderShape'
<1>1. /\ at = [x \in Callers |-> at[x]] /\ job = [x \in Callers |-> job[x]]
      /\ post = [x \in Callers |-> post[x]] /\ got = [x \in Callers |-> got[x]]
      /\ reply = [x \in Callers |-> reply[x]] /\ settled = [x \in Callers |-> settled[x]]
  BY DEF OrderInv, OrderShape, CallInv, Functions4
<1>2. /\ at'[c] = "idle" /\ job'[c] = [op |-> "none"] /\ post'[c] = "none"
      /\ got'[c] = Nothing /\ settled'[c] = {}
  BY <1>1 DEF Finish
<1>3. \A d \in Callers : d # c => Untouched(d)
  BY <1>1 DEF Finish, Untouched
<1>4. OrderShape'
  BY DEF Finish, OrderInv, OrderShape
<1> QED
  BY <1>2, <1>3, <1>4

LEMMA FinishOrder ==
  ASSUME OrderInv, CallInv, NonceInv, NEW c \in Callers, NEW how, Finish(c, how),
         UNCHANGED <<universe, resting, spared, wire, lastNonce, cache>>,
         at[c] # "idle",
         how = "ok" => \A o \in settled[c] : ~Held(o),
         how = "limited" => at[c] # "exchange",
         how = "notFound" => ~(job[c].op = "place" /\ job[c].known)
  PROVE  OrderInv'
<1>1. /\ at'[c] = "idle" /\ job'[c].op = "none" /\ post'[c] = "none"
      /\ got'[c] = Nothing /\ settled'[c] = {}
      /\ \A d \in Callers : d # c => Untouched(d)
      /\ OrderShape'
  BY FinishView
<1>2. UNCHANGED asked
  BY DEF Finish
<1>3. \A o \in Cloids : asked[o] # <<>> /\ ~Placing(o) => ~Placing(o)'
  BY <1>1 DEF Placing, Untouched
<1>4. \A o \in refused' : o \in refused \/ (how = "limited" /\ job[c].op = "place" /\ o = job[c].cloid)
  BY DEF Finish
<1>5. \A o \in Cloids : asked[o] # <<>> /\ ~Placing(o) /\ o \notin refused => o \notin refused'
  BY <1>4 DEF Placing
<1>6. lastNonce' \in Nat /\ lastNonce <= lastNonce'
  BY DEF NonceInv
<1>7. cache' # <<>> => Begins(cache'[1].names)
  BY DEF OrderInv, VenueInv
<1>8. Kept /\ VenueInv'
  BY <1>2, <1>3, <1>5, <1>6, <1>7, BooksStay
<1>9. ToldInv'
  <2>1. \A o \in refused' : o \in Cloids /\ asked'[o] # <<>>
    BY <1>2, <1>4 DEF OrderInv, ToldInv, OrderFits
  <2>2. \A o \in gone' : o \in gone \/ (how = "ok" /\ o \in settled[c])
    BY DEF Finish
  <2>3. \A o \in gone' : Past(o) /\ ~Held(o)
    BY <2>2 DEF OrderInv, ToldInv, SettledFits
  <2>4. \A o \in gone' : Past(o)' /\ ~Held(o)'
    BY <1>8, <2>3 DEF Kept
  <2>5. denied' = {}
    BY DEF Finish, OrderInv, ToldInv
  <2> QED
    BY <2>1, <2>4, <2>5 DEF ToldInv
<1>10. \A d \in Callers : d # c /\ job[d].op = "place" => job[d].cloid \notin refused'
  BY <1>4 DEF OrderInv, OrderFits, Apart
<1>11. (OrderFits(c) /\ ReplyFits(c) /\ NonceFits(c) /\ SettledFits(c))'
  BY <1>1 DEF OrderFits, ReplyFits, NonceFits, SettledFits, IsGot, Nothing, Submitting
<1>12. \A d \in Callers : d # c => Apart(c, d)'
  BY <1>1 DEF Apart
<1> QED
  BY <1>1, <1>8, <1>9, <1>10, <1>11, <1>12, Gathered

-----------------------------------------------------------------------------
(* A call that goes on. *)

\* Its own state alone changes, and of the client at most the cache and the last nonce.
LEMMA OwnStep ==
  ASSUME OrderInv, NonceInv, NEW c \in Callers,
         UNCHANGED <<universe, resting, spared, wire, asked, gone, refused, denied>>,
         job'[c] = job[c], at[c] # "exchange", at'[c] # "exchange",
         \A d \in Callers : d # c => Untouched(d),
         OrderShape',
         lastNonce' \in Nat, lastNonce <= lastNonce',
         cache' # <<>> => Begins(cache'[1].names),
         Kept => OrderFits(c)' /\ ReplyFits(c)' /\ NonceFits(c)' /\ SettledFits(c)',
         \A d \in Callers : d # c /\ at'[c] \in Signing /\ at[d] \in Signing =>
           got'[c].nonce # got[d].nonce
  PROVE  OrderInv'
<1>1. \A o \in Cloids : asked[o] # <<>> /\ ~Placing(o) => ~Placing(o)'
  BY DEF Placing, Untouched
<1>2. Kept /\ VenueInv'
  BY <1>1, BooksStay
<1>3. ToldInv'
  BY <1>2, ToldStays
<1>4. \A d \in Callers : d # c /\ job[d].op = "place" => job[d].cloid \notin refused'
  BY DEF OrderInv, OrderFits
<1>5. ASSUME NEW d \in Callers, d # c
      PROVE  Apart(c, d)'
  BY <1>5 DEF OrderInv, Apart, Untouched, Signing
<1> QED
  BY <1>2, <1>3, <1>4, <1>5, Gathered

\* The answer of an info request is used up.
LEMMA GoesOnOrder ==
  ASSUME OrderInv, CallInv, NonceInv, NEW c \in Callers, NEW step, NEW have,
         GoesOn(c, step, have),
         UNCHANGED <<universe, resting, spared, wire, lastNonce>>,
         cache' # <<>> => Begins(cache'[1].names),
         at[c] # "exchange",
         step \in {"lookup", "index", "meta", "perp", "perpAgain", "key"},
         IsGot(have),
         job[c].op = "place" /\ step = "key" => Points(have.index, job[c].cloid),
         job[c].op = "change" /\ step \in {"lookup", "index", "key"} =>
           /\ have.targets # {}
           /\ \A x \in have.targets : IsOrder(x) /\ WentOut(x.cloid) /\ x.cloid = job[c].cloid,
         step = "meta" => \A x \in have.targets : IsOrder(x),
         \A o \in settled[c] :
           /\ step \in {"meta", "key"}
           /\ step = "meta" /\ Held(o) => \E x \in have.targets : x.cloid = o
           /\ step = "key" /\ Held(o) => \E t \in have.targets : t.cloid = o /\ Points(t.index, o)
  PROVE  OrderInv'
<1>1. /\ at = [x \in Callers |-> at[x]]
      /\ post = [x \in Callers |-> post[x]] /\ got = [x \in Callers |-> got[x]]
      /\ reply = [x \in Callers |-> reply[x]] /\ settled = [x \in Callers |-> settled[x]]
  BY DEF OrderInv, OrderShape, CallInv, Functions4
<1>2. /\ at'[c] = step /\ post'[c] = "none" /\ got'[c] = have
      /\ job'[c] = job[c] /\ settled'[c] = settled[c]
      /\ UNCHANGED <<asked, gone, refused, denied>>
  BY <1>1 DEF GoesOn, orderVars
<1>3. \A d \in Callers : d # c => Untouched(d)
  BY <1>1 DEF GoesOn, Untouched, orderVars
<1>4. OrderShape'
  BY DEF GoesOn, orderVars, OrderInv, OrderShape
<1>5. ASSUME Kept
      PROVE  OrderFits(c)'
  <2>1. OrderFits(c)
    BY DEF OrderInv
  <2>2. job[c].op = "place" /\ step = "key" => Points(have.index, job[c].cloid)'
    BY <1>2, <2>1 DEF OrderFits, Points
  <2>3. \A x : IsOrder(x) /\ WentOut(x.cloid) => IsOrder(x)' /\ WentOut(x.cloid)'
    BY <1>5, OrderStays DEF Kept
  <2>4. \A x : IsOrder(x) => IsOrder(x)'
    BY <1>5, OrderStays
  <2>5. step \in Submitting => step = "key"
    BY DEF Submitting
  <2>6. job'[c].op = "change" /\ at'[c] \in {"lookup", "index"} \cup Submitting =>
          /\ got'[c].targets # {}
          /\ \A x \in got'[c].targets : IsOrder(x)' /\ WentOut(x.cloid)' /\ x.cloid = job'[c].cloid
    BY <1>2, <2>3, <2>5
  <2>7. at'[c] = "meta" => \A x \in got'[c].targets : IsOrder(x)'
    BY <1>2, <2>4
  <2>8. job'[c].op = "place" /\ at'[c] \in Submitting => Points(got[c].index, job[c].cloid)'
    BY <1>2, <2>2, <2>5 DEF Points
  <2>9. IsGot(got[c])'
    BY <1>2 DEF IsGot
  <2>10. /\ job'[c].op \in {"place", "change", "cancel"} =>
              job'[c].cloid \in Cloids /\ asked'[job'[c].cloid] # <<>>
         /\ job'[c].op = "place" =>
              /\ asked'[job'[c].cloid][1].coin = job'[c].coin
              /\ job'[c].cloid \notin refused'
              /\ job'[c].known => \E i \in DOMAIN universe' : universe'[i] = job'[c].coin
    BY <1>2, <2>1 DEF OrderFits
  <2> QED
    BY <2>6, <2>7, <2>8, <2>9, <2>10 DEF OrderFits
<1>6. ReplyFits(c)' /\ NonceFits(c)'
  BY <1>2 DEF ReplyFits, NonceFits
<1>7. ASSUME Kept
      PROVE  SettledFits(c)'
  <2> SUFFICES ASSUME NEW o \in settled[c]
               PROVE  /\ job'[c].op \in {"cancel", "cancelAll"}
                      /\ at'[c] \in {"orders", "meta", "exchange"} \cup Submitting
                      /\ Past(o)'
                      /\ job'[c].op = "cancel" => o = job'[c].cloid
                      /\ at'[c] = "orders" => post'[c] = "answered"
                      /\ at'[c] = "orders" /\ Held(o)' => \E x \in reply'[c] : x.cloid = o
                      /\ at'[c] = "meta" /\ Held(o)' => \E x \in got'[c].targets : x.cloid = o
                      /\ at'[c] \in Submitting \cup {"exchange"} /\ Held(o)' =>
                           \E t \in got'[c].targets : t.cloid = o /\ Points(t.index, o)'
                      /\ at'[c] = "exchange" /\ post'[c] = "answered" /\ reply'[c] = "ok" => ~Held(o)'
    BY <1>2 DEF SettledFits
  <2>1. /\ job[c].op \in {"cancel", "cancelAll"} /\ Past(o)
        /\ job[c].op = "cancel" => o = job[c].cloid
    BY DEF OrderInv, SettledFits
  <2>2. Past(o)' /\ (Held(o)' => Held(o)) /\ o \in Cloids /\ asked[o] # <<>>
    BY <1>7, <2>1 DEF Kept, Past
  <2>3. \A t : Points(t.index, o) => Points(t.index, o)'
    BY <1>7, <2>2, OrderStays
  <2>4. step \in {"meta", "key"}
    OBVIOUS
  <2> QED
    BY <1>2, <2>1, <2>2, <2>3, <2>4 DEF Submitting
<1>8. at'[c] \notin Signing /\ at'[c] # "exchange"
  BY <1>2 DEF Signing
<1>9. lastNonce' \in Nat /\ lastNonce <= lastNonce'
  BY DEF NonceInv
<1> QED
  BY <1>2, <1>3, <1>4, <1>5, <1>6, <1>7, <1>8, <1>9, OwnStep

\* An info request that fails.
LEMMA InfoFailsOrder ==
  ASSUME OrderInv, CallInv, NonceInv, NEW c \in Callers, NEW why, InfoFails(c, why),
         UNCHANGED <<universe, resting, spared, wire, lastNonce, cache>>,
         at[c] \in InfoSteps, why \in {"limited", "panic", "failed"}
  PROVE  OrderInv'
<1>1. at[c] # "exchange" /\ at[c] # "idle"
  BY DEF InfoSteps
<1>2. cache' # <<>> => Begins(cache'[1].names)
  BY DEF OrderInv, VenueInv
<1>3. CASE GoesOn(c, "perpAgain", got[c]) /\ at[c] = "perp"
  <2>1. job[c].op = "balance"
    BY <1>3 DEF CallInv, StepFits
  <2>2. settled[c] = {} /\ IsGot(got[c])
    BY <2>1 DEF OrderInv, SettledFits, OrderFits
  <2> QED
    BY <1>1, <1>2, <1>3, <2>1, <2>2, GoesOnOrder
<1>4. CASE Finish(c, why)
  BY <1>1, <1>4, FinishOrder
<1> QED
  BY <1>3, <1>4 DEF InfoFails

LEMMA AskOrder ==
  ASSUME OrderInv, CallInv, NonceInv, NEW c \in Callers, Ask(c)
  PROVE  OrderInv'
<1> DEFINE answer == RestAcquire(window, now, Weight(c)).answer
<1>1. /\ at[c] \in InfoSteps /\ post[c] = "none"
      /\ UNCHANGED <<universe, resting, spared, wire, lastNonce, cache>>
  BY DEF Ask, venueVars, nonceVars
<1>2. answer \in {"ok", "limited", "panic"}
  BY DEF RestAcquire
<1>3. CASE answer = "ok"
  <2>1. /\ UNCHANGED <<at, job, reply, got, asked, settled, gone, refused, denied>>
        /\ post' = [post EXCEPT ![c] = "asked"]
    BY <1>3 DEF Ask, orderVars
  <2>2. post = [x \in Callers |-> post[x]]
    BY DEF CallInv, Functions4
  <2>3. post'[c] = "asked" /\ \A d \in Callers : d # c => Untouched(d)
    BY <2>1, <2>2 DEF Untouched
  <2>4. OrderShape'
    BY <2>1 DEF OrderInv, OrderShape
  <2>5. at[c] # "exchange" /\ at[c] \notin Signing
    BY <1>1 DEF InfoSteps, Signing
  <2>6. at[c] = "orders" => settled[c] = {}
    BY <1>1 DEF OrderInv, SettledFits
  <2>7. ASSUME Kept
        PROVE  OrderFits(c)' /\ ReplyFits(c)' /\ NonceFits(c)' /\ SettledFits(c)'
    <3>1. OrderFits(c)'
      <4>1. OrderFits(c) /\ (job[c].op = "place" => job[c].cloid \notin refused')
        BY <2>1 DEF OrderInv, OrderFits
      <4> QED
        BY <2>1, <2>7, <4>1, OrderFitsStays
    <3>2. ReplyFits(c)'
      BY <2>3 DEF ReplyFits
    <3>3. NonceFits(c)'
      BY <2>1, <2>5 DEF NonceFits, Signing
    <3>4. CASE at[c] = "orders"
      <4>1. SettledFits(c)'
        BY <2>1, <2>6, <3>4 DEF SettledFits
      <4> QED
        BY <3>1, <3>2, <3>3, <4>1
    <3>5. CASE at[c] # "orders"
      <4>1. SettledFits(c)
        BY DEF OrderInv
      <4>2. SettledFits(c)'
        BY <2>1, <2>5, <2>7, <3>5, <4>1, SettledFitsStays
      <4> QED
        BY <3>1, <3>2, <3>3, <4>2
    <3> QED
      BY <3>4, <3>5
  <2>8. lastNonce' \in Nat /\ lastNonce <= lastNonce' /\ (cache' # <<>> => Begins(cache'[1].names))
    BY <1>1 DEF OrderInv, VenueInv, NonceInv
  <2> QED
    BY <1>1, <2>1, <2>3, <2>4, <2>5, <2>7, <2>8, OwnStep
<1>4. CASE answer # "ok"
  <2>1. InfoFails(c, answer)
    BY <1>4 DEF Ask
  <2> QED
    BY <1>1, <1>2, <1>4, <2>1, InfoFailsOrder
<1> QED
  BY <1>3, <1>4

\* The exchange reads its orders or its assets.
LEMMA VenueReadsOrder ==
  ASSUME OrderInv, CallInv, NonceInv, NEW c \in Callers, VenueReads(c)
  PROVE  OrderInv'
<1>1. /\ at[c] \in {"orders", "index", "meta"} /\ post[c] = "asked"
      /\ UNCHANGED <<universe, resting, spared, wire, lastNonce, cache, at, job, got, asked, gone, refused, denied>>
  BY DEF VenueReads, venueVars, nonceVars
<1>2. /\ post = [x \in Callers |-> post[x]] /\ reply = [x \in Callers |-> reply[x]]
      /\ settled = [x \in Callers |-> settled[x]]
  BY DEF OrderInv, OrderShape, CallInv, Functions4
<1>3. /\ post'[c] = "answered"
      /\ reply'[c] = IF at[c] = "orders" THEN resting ELSE universe
      /\ settled'[c] = IF at[c] = "orders" THEN MustGo(c) ELSE settled[c]
      /\ \A d \in Callers : d # c => Untouched(d)
  BY <1>1, <1>2 DEF VenueReads, Untouched
<1>4. OrderShape'
  BY <1>1 DEF VenueReads, OrderInv, OrderShape
<1>5. at[c] # "exchange" /\ at[c] \notin Signing
  BY <1>1 DEF Signing
<1>6. ASSUME Kept
      PROVE  OrderFits(c)' /\ ReplyFits(c)' /\ NonceFits(c)' /\ SettledFits(c)'
  <2>1. OrderFits(c)'
    <3>1. OrderFits(c) /\ (job[c].op = "place" => job[c].cloid \notin refused')
      BY <1>1 DEF OrderInv, OrderFits
    <3> QED
      BY <1>1, <1>6, <3>1, OrderFitsStays
  <2>2. NonceFits(c)'
    BY <1>1, <1>5 DEF NonceFits, Signing
  <2>3. Begins(universe)
    BY DEF OrderInv, VenueInv, Begins
  <2>4. CASE at[c] = "orders"
    <3>1. \A x \in resting : IsOrder(x)' /\ WentOut(x.cloid)'
      BY <1>6, OrderStays DEF OrderInv, VenueInv, Kept
    <3>2. ReplyFits(c)'
      BY <1>1, <1>3, <2>4, <3>1 DEF ReplyFits
    <3>3. \A o \in MustGo(c) :
            /\ job[c].op \in {"cancel", "cancelAll"}
            /\ Past(o)
            /\ job[c].op = "cancel" => o = job[c].cloid
      <4>1. ASSUME NEW o \in MustGo(c), job[c].op = "cancel"
            PROVE  o = job[c].cloid /\ Past(o)
        <5>1. o = job[c].cloid /\ Quiet(o)
          BY <4>1 DEF MustGo
        <5>2. ~Placing(o)
          BY <5>1 DEF Quiet, Placing, CallInv, StepFits
        <5>3. o \in Cloids /\ asked[o] # <<>>
          BY <4>1, <5>1 DEF OrderInv, OrderFits
        <5> QED
          BY <5>1, <5>2, <5>3 DEF Past, Quiet
      <4>2. ASSUME NEW o \in MustGo(c), job[c].op = "cancelAll"
            PROVE  Past(o)
        BY <4>2 DEF MustGo, OrderInv, VenueInv
      <4>3. job[c].op \notin {"cancel", "cancelAll"} => MustGo(c) = {}
        BY DEF MustGo
      <4> QED
        BY <4>1, <4>2, <4>3
    <3>4. \A o : Held(o)' => \E x \in resting : x.cloid = o
      BY <1>1 DEF Held
    <3>5. SettledFits(c)'
      <4>1. \A o \in MustGo(c) : Past(o)'
        BY <1>6, <3>3 DEF Kept
      <4> QED
        BY <1>1, <1>3, <2>4, <3>3, <3>4, <4>1 DEF SettledFits, Submitting
    <3> QED
      BY <2>1, <2>2, <3>2, <3>5
  <2>5. CASE at[c] # "orders"
    <3>1. at[c] = "index" /\ job[c].op = "place" /\ job[c].known =>
            \E i \in DOMAIN universe : universe[i] = job[c].coin
      BY DEF OrderInv, OrderFits
    <3>2. at[c] = "meta" =>
            \A x \in got[c].targets : x.coin = Spot \/ \E i \in DOMAIN universe : universe[i] = x.coin
      BY DEF OrderInv, OrderFits, IsOrder
    <3>3. reply'[c] = universe /\ Begins(reply[c])'
      BY <1>1, <1>3, <2>3, <2>5 DEF Begins
    <3>4. ReplyFits(c)'
      BY <1>1, <1>3, <1>5, <2>5, <3>1, <3>2, <3>3 DEF ReplyFits
    <3>5. SettledFits(c)'
      <4>1. SettledFits(c)
        BY DEF OrderInv
      <4> QED
        BY <1>1, <1>3, <1>5, <1>6, <2>5, <4>1, SettledFitsStays
    <3> QED
      BY <2>1, <2>2, <3>4, <3>5
  <2> QED
    BY <2>4, <2>5
<1>7. lastNonce' \in Nat /\ lastNonce <= lastNonce' /\ (cache' # <<>> => Begins(cache'[1].names))
  BY <1>1 DEF OrderInv, VenueInv, NonceInv
<1> QED
  BY <1>1, <1>3, <1>4, <1>5, <1>6, <1>7, OwnStep

\* Where an asset is found in an answer or the cache is where it is listed.
LEMMA FoundInPlace ==
  ASSUME NEW names, Begins(names), NEW s, \E i \in DOMAIN names : names[i] = s
  PROVE  /\ IndexIn(names, s) \in DOMAIN universe
         /\ universe[IndexIn(names, s)] = s
BY DEF IndexIn, PlaceIn, Begins

\* Membership in the set of a sequence is a place in it.
LEMMA InSet ==
  ASSUME NEW names, NEW s
  PROVE  s \in ToSet(names) <=> \E i \in DOMAIN names : names[i] = s
BY DEF ToSet

\* A lookup is for the market of the order.
LEMMA CoinIsAsked ==
  ASSUME OrderInv, CallInv, NEW c \in Callers, at[c] \in {"lookup", "index"}
  PROVE  /\ job[c].op \in {"place", "change"}
         /\ job[c].cloid \in Cloids /\ asked[job[c].cloid] # <<>>
         /\ Coin(c) = asked[job[c].cloid][1].coin
<1>1. job[c].op \in {"place", "change"}
  BY DEF CallInv, StepFits
<1>2. OrderFits(c)
  BY DEF OrderInv
<1>3. job[c].cloid \in Cloids /\ asked[job[c].cloid] # <<>>
  BY <1>1, <1>2 DEF OrderFits
<1>4. CASE job[c].op = "place"
  BY <1>2, <1>3, <1>4 DEF OrderFits, Coin
<1>5. CASE job[c].op = "change"
  <2>1. got[c].targets # {} /\ \A x \in got[c].targets : x.coin = asked[job[c].cloid][1].coin
    BY <1>2, <1>5 DEF OrderFits, IsOrder
  <2>2. (CHOOSE o \in got[c].targets : TRUE) \in got[c].targets
    BY <2>1
  <2> QED
    BY <1>3, <1>5, <2>1, <2>2 DEF Coin
<1> QED
  BY <1>1, <1>3, <1>4, <1>5

\* An index that was looked up is written down, and the call goes on to be sent.
LEMMA IndexFound ==
  ASSUME OrderInv, CallInv, NonceInv, NEW c \in Callers, at[c] \in {"lookup", "index"},
         NEW names, Begins(names), \E i \in DOMAIN names : names[i] = Coin(c),
         GoesOn(c, "key", [got[c] EXCEPT !.index = IndexIn(names, Coin(c))]),
         UNCHANGED <<universe, resting, spared, wire, lastNonce>>,
         cache' # <<>> => Begins(cache'[1].names)
  PROVE  OrderInv'
<1> DEFINE i == IndexIn(names, Coin(c))
           have == [got[c] EXCEPT !.index = i]
<1>1. IsGot(got[c]) /\ OrderFits(c)
  BY DEF OrderInv, OrderFits
<1>2. IsGot(have) /\ have.index = i /\ have.targets = got[c].targets
  BY <1>1 DEF IsGot
<1>3. Points(i, job[c].cloid)
  BY CoinIsAsked, FoundInPlace DEF Points
<1>4. settled[c] = {}
  BY CoinIsAsked DEF OrderInv, SettledFits
<1>5. at[c] # "exchange"
  OBVIOUS
<1> HIDE DEF have, i
<1>6. job[c].op = "change" =>
        /\ have.targets # {}
        /\ \A x \in have.targets : IsOrder(x) /\ WentOut(x.cloid) /\ x.cloid = job[c].cloid
  BY <1>1, <1>2 DEF OrderFits
<1>7. Points(have.index, job[c].cloid)
  BY <1>2, <1>3
<1>8. GoesOn(c, "key", have)
  BY DEF have, i
<1> QED
  BY <1>2, <1>4, <1>5, <1>6, <1>7, <1>8, GoesOnOrder

LEMMA LookUpOrder ==
  ASSUME OrderInv, CallInv, NonceInv, NEW c \in Callers, LookUp(c)
  PROVE  OrderInv'
<1>1. at[c] = "lookup" /\ UNCHANGED <<universe, resting, spared, wire, lastNonce, cache>>
  BY DEF LookUp, venueVars, nonceVars
<1>2. cache' # <<>> => Begins(cache'[1].names)
  BY <1>1 DEF OrderInv, VenueInv
<1>3. CASE Hit(Coin(c))
  <2>1. Begins(cache[1].names) /\ \E i \in DOMAIN cache[1].names : cache[1].names[i] = Coin(c)
    BY <1>3, InSet DEF Hit, OrderInv, VenueInv
  <2>2. GoesOn(c, "key", [got[c] EXCEPT !.index = IndexIn(cache[1].names, Coin(c))])
    BY <1>3 DEF LookUp
  <2> QED
    BY <1>1, <1>2, <2>1, <2>2, IndexFound
<1>4. CASE ~Hit(Coin(c))
  <2>1. GoesOn(c, "index", got[c])
    BY <1>4 DEF LookUp
  <2>2. IsGot(got[c]) /\ OrderFits(c) /\ settled[c] = {}
    BY <1>1, CoinIsAsked DEF OrderInv, OrderFits, SettledFits
  <2>3. job[c].op = "change" =>
          /\ got[c].targets # {}
          /\ \A x \in got[c].targets : IsOrder(x) /\ WentOut(x.cloid) /\ x.cloid = job[c].cloid
    BY <1>1, <2>2 DEF OrderFits
  <2> QED
    BY <1>1, <1>2, <2>1, <2>2, <2>3, GoesOnOrder
<1> QED
  BY <1>3, <1>4

LEMMA IndexArrivesOrder ==
  ASSUME OrderInv, CallInv, NonceInv, NEW c \in Callers, IndexArrives(c)
  PROVE  OrderInv'
<1>1. /\ at[c] = "index" /\ post[c] = "answered"
      /\ UNCHANGED <<universe, resting, spared, wire, lastNonce>>
  BY DEF IndexArrives, Arrived, venueVars, nonceVars
<1>2. Begins(reply[c]) /\ ReplyFits(c)
  BY <1>1 DEF OrderInv, ReplyFits
<1>3. CASE Coin(c) \in ToSet(reply[c])
  <2>1. /\ GoesOn(c, "key", [got[c] EXCEPT !.index = IndexIn(reply[c], Coin(c))])
        /\ cache' = <<[names |-> reply[c], at |-> now]>>
    BY <1>3 DEF IndexArrives
  <2>2. Begins(cache'[1].names) /\ \E i \in DOMAIN reply[c] : reply[c][i] = Coin(c)
    BY <1>2, <1>3, <2>1, InSet
  <2> QED
    BY <1>1, <1>2, <2>1, <2>2, IndexFound
<1>4. CASE Coin(c) \notin ToSet(reply[c])
  <2>1. Finish(c, "notFound") /\ UNCHANGED cache
    BY <1>4 DEF IndexArrives
  <2>2. ~(job[c].op = "place" /\ job[c].known)
    BY <1>1, <1>2, <1>4, InSet DEF ReplyFits, Coin
  <2> QED
    BY <1>1, <2>1, <2>2, FinishOrder
<1> QED
  BY <1>3, <1>4

LEMMA GotTargets ==
  ASSUME NEW g, IsGot(g), NEW x
  PROVE  IsGot([g EXCEPT !.targets = x]) /\ [g EXCEPT !.targets = x].targets = x
BY DEF IsGot

\* openOrders: what was found is what the call goes on with; nothing found, nothing is held.
LEMMA OrdersArriveOrder ==
  ASSUME OrderInv, CallInv, NonceInv, NEW c \in Callers, OrdersArrive(c)
  PROVE  OrderInv'
<1> DEFINE op == job[c].op
           found == IF op = "cancelAll" THEN reply[c] ELSE {o \in reply[c] : o.cloid = job[c].cloid}
           have == [got[c] EXCEPT !.targets = found]
<1>1. /\ at[c] = "orders" /\ post[c] = "answered"
      /\ UNCHANGED <<universe, resting, spared, wire, lastNonce, cache>>
  BY DEF OrdersArrive, Arrived, venueVars, nonceVars
<1>2. op \in {"change", "cancel", "cancelAll"} /\ (cache' # <<>> => Begins(cache'[1].names))
  BY <1>1 DEF CallInv, StepFits, OrderInv, VenueInv
<1>3. IF found # {} THEN GoesOn(c, IF op = "change" THEN "lookup" ELSE "meta", have)
      ELSE Finish(c, IF op = "change" THEN "failed" ELSE "ok")
  BY DEF OrdersArrive
<1>4. IsGot(have) /\ have.targets = found
  <2>1. IsGot(got[c])
    BY DEF OrderInv, OrderFits
  <2> HIDE DEF found
  <2> QED
    BY <2>1, GotTargets
<1>5. \A x \in reply[c] : IsOrder(x) /\ WentOut(x.cloid)
  BY <1>1 DEF OrderInv, ReplyFits
<1>6. \A x \in found : IsOrder(x) /\ WentOut(x.cloid) /\ (op = "change" => x.cloid = job[c].cloid)
  BY <1>5
<1>7. ASSUME NEW o \in settled[c]
      PROVE  op # "change" /\ (Held(o) => \E x \in found : x.cloid = o)
  BY <1>1, <1>7 DEF OrderInv, SettledFits
<1> HIDE DEF found, have, op
<1>8. CASE found # {}
  <2>1. CASE op = "change"
    <3>1. GoesOn(c, "lookup", have)
      BY <1>3, <1>8, <2>1
    <3>2. \A o \in settled[c] : FALSE
      BY <1>7, <2>1
    <3>3. job[c].op = "change" => /\ have.targets # {}
                                  /\ \A x \in have.targets : IsOrder(x) /\ WentOut(x.cloid)
                                                             /\ x.cloid = job[c].cloid
      BY <1>4, <1>6, <1>8 DEF op
    <3> QED
      BY <1>1, <1>2, <1>4, <3>1, <3>2, <3>3, GoesOnOrder
  <2>2. CASE op # "change"
    <3>1. GoesOn(c, "meta", have)
      BY <1>3, <1>8, <2>2
    <3>2. \A o \in settled[c] : Held(o) => \E x \in have.targets : x.cloid = o
      BY <1>4, <1>7
    <3>3. \A x \in have.targets : IsOrder(x)
      BY <1>4, <1>6
    <3> QED
      BY <1>1, <1>2, <1>4, <3>1, <3>2, <3>3, GoesOnOrder
  <2> QED
    BY <2>1, <2>2
<1>9. CASE found = {}
  <2>1. \A o \in settled[c] : ~Held(o)
    BY <1>7, <1>9
  <2>2. Finish(c, "ok") \/ Finish(c, "failed")
    BY <1>3, <1>9
  <2> QED
    BY <1>1, <2>1, <2>2, FinishOrder
<1> QED
  BY <1>8, <1>9

\* The assets: an order that rests on a perp market is found there, so of what must go only
\* spot orders are left out.
LEMMA MetaArrivesOrder ==
  ASSUME OrderInv, CallInv, NonceInv, NEW c \in Callers, MetaArrives(c)
  PROVE  OrderInv'
<1> DEFINE known == {o \in got[c].targets : o.coin \in ToSet(reply[c])}
           placed == {[cloid |-> o.cloid, index |-> IndexIn(reply[c], o.coin)] : o \in known}
           have == [got[c] EXCEPT !.targets = placed]
<1>1. /\ at[c] = "meta" /\ post[c] = "answered"
      /\ UNCHANGED <<universe, resting, spared, wire, lastNonce, cache>>
  BY DEF MetaArrives, Arrived, venueVars, nonceVars
<1>2. job[c].op \in {"cancel", "cancelAll"} /\ (cache' # <<>> => Begins(cache'[1].names))
  BY <1>1 DEF CallInv, StepFits, OrderInv, VenueInv
<1>3. Finish(c, "failed") \/ GoesOn(c, "key", have)
  BY DEF MetaArrives
<1>4. IsGot(have) /\ have.targets = placed
  <2>1. IsGot(got[c])
    BY DEF OrderInv, OrderFits
  <2> HIDE DEF placed
  <2> QED
    BY <2>1, GotTargets
<1>5. /\ Begins(reply[c])
      /\ \A x \in got[c].targets : x.coin = Spot \/ \E i \in DOMAIN reply[c] : reply[c][i] = x.coin
  BY <1>1 DEF OrderInv, ReplyFits
<1>6. \A x \in got[c].targets : IsOrder(x)
  BY <1>1 DEF OrderInv, OrderFits
<1>7. ASSUME NEW o \in settled[c], Held(o)
      PROVE  \E t \in placed : t.cloid = o /\ Points(t.index, o)
  <2>1. PICK x \in got[c].targets : x.cloid = o
    BY <1>1, <1>7 DEF OrderInv, SettledFits
  <2>2. x.coin = asked[o][1].coin
    BY <1>6, <2>1 DEF IsOrder
  <2>3. x.coin # Spot
    BY <1>7, <2>2 DEF Held, OrderInv, VenueInv, IsOrder
  <2>4. x \in known /\ \E i \in DOMAIN reply[c] : reply[c][i] = x.coin
    BY <1>5, <2>3, InSet
  <2> DEFINE t == [cloid |-> x.cloid, index |-> IndexIn(reply[c], x.coin)]
  <2>5. t \in placed /\ t.cloid = o /\ t.index = IndexIn(reply[c], x.coin)
    BY <2>1, <2>4
  <2>6. Points(t.index, o)
    BY <1>5, <2>2, <2>4, <2>5, FoundInPlace DEF Points
  <2> QED
    BY <2>5, <2>6
<1> HIDE DEF known, placed, have
<1>8. CASE Finish(c, "failed")
  BY <1>1, <1>8, FinishOrder
<1>9. CASE GoesOn(c, "key", have)
  <2>1. \A o \in settled[c] : Held(o) => \E t \in have.targets : t.cloid = o /\ Points(t.index, o)
    BY <1>4, <1>7
  <2> QED
    BY <1>1, <1>2, <1>4, <1>9, <2>1, GoesOnOrder
<1> QED
  BY <1>3, <1>8, <1>9

LEMMA SpotArrivesOrder ==
  ASSUME OrderInv, CallInv, NonceInv, NEW c \in Callers, SpotArrives(c)
  PROVE  OrderInv'
<1>1. at[c] = "spot" /\ UNCHANGED <<universe, resting, spared, wire, lastNonce, cache>>
  BY DEF SpotArrives, Arrived, venueVars, nonceVars
<1>2. job[c].op = "balance" /\ (cache' # <<>> => Begins(cache'[1].names))
  BY <1>1 DEF CallInv, StepFits, OrderInv, VenueInv
<1>3. PICK r : GoesOn(c, "perp", [got[c] EXCEPT !.spot = <<r>>])
  BY DEF SpotArrives
<1>4. settled[c] = {} /\ IsGot(got[c])
  BY <1>2 DEF OrderInv, SettledFits, OrderFits
<1> DEFINE have == [got[c] EXCEPT !.spot = <<r>>]
<1>5. IsGot(have)
  BY <1>4 DEF IsGot
<1> HIDE DEF have
<1>6. GoesOn(c, "perp", have)
  BY <1>3 DEF have
<1> QED
  BY <1>1, <1>2, <1>4, <1>5, <1>6, GoesOnOrder

\* A balance is told nobody's orders.
LEMMA PerpArrivesOrder ==
  ASSUME OrderInv, CallInv, NonceInv, NEW c \in Callers, PerpArrives(c)
  PROVE  OrderInv'
<1>1. PICK rows : ReturnsRows(c, rows) /\ at[c] \in {"perp", "perpAgain"}
  BY DEF PerpArrives, Arrived
<1>2. /\ UNCHANGED <<universe, resting, spared, wire, lastNonce, cache>>
      /\ UNCHANGED <<asked, settled, gone, refused, denied>>
  BY <1>1 DEF PerpArrives, Arrived, venueVars, nonceVars, ReturnsRows, orderVars
<1>3. job[c].op = "balance"
  BY <1>1 DEF CallInv, StepFits
<1>4. settled[c] = {}
  BY <1>3 DEF OrderInv, SettledFits
<1>5. /\ at = [x \in Callers |-> at[x]] /\ job = [x \in Callers |-> job[x]]
      /\ post = [x \in Callers |-> post[x]] /\ got = [x \in Callers |-> got[x]]
      /\ reply = [x \in Callers |-> reply[x]]
  BY DEF OrderInv, OrderShape, CallInv, Functions4
<1>6. /\ at'[c] = "idle" /\ job'[c].op = "none" /\ post'[c] = "none" /\ settled'[c] = {}
      /\ got'[c] = [Nothing EXCEPT !.rows = rows]
      /\ \A d \in Callers : d # c => Untouched(d)
  BY <1>1, <1>2, <1>4, <1>5 DEF ReturnsRows, Untouched
<1>7. OrderShape'
  BY <1>1, <1>2 DEF ReturnsRows, OrderInv, OrderShape
<1>8. \A o \in Cloids : asked[o] # <<>> /\ ~Placing(o) => ~Placing(o)'
  BY <1>6 DEF Placing, Untouched
<1>9. lastNonce' \in Nat /\ lastNonce <= lastNonce' /\ (cache' # <<>> => Begins(cache'[1].names))
  BY <1>2 DEF OrderInv, VenueInv, NonceInv
<1>10. Kept /\ VenueInv'
  BY <1>2, <1>8, <1>9, BooksStay
<1>11. ToldInv'
  BY <1>2, <1>10, ToldStays
<1>12. (OrderFits(c) /\ ReplyFits(c) /\ NonceFits(c) /\ SettledFits(c))'
  BY <1>6 DEF OrderFits, ReplyFits, NonceFits, SettledFits, IsGot, Nothing, Submitting
<1>13. \A d \in Callers : d # c => Apart(c, d)'
  BY <1>6 DEF Apart
<1>14. \A d \in Callers : d # c /\ job[d].op = "place" => job[d].cloid \notin refused'
  BY <1>2 DEF OrderInv, OrderFits
<1> QED
  BY <1>2, <1>6, <1>7, <1>10, <1>11, <1>12, <1>13, <1>14, Gathered

LEMMA ReadArrivesOrder ==
  ASSUME OrderInv, CallInv, NonceInv, NEW c \in Callers, ReadArrives(c)
  PROVE  OrderInv'
<1>1. /\ at[c] = "read" /\ UNCHANGED <<universe, resting, spared, wire, lastNonce, cache>>
      /\ Finish(c, "failed") \/ Finish(c, "ok")
  BY DEF ReadArrives, Arrived, venueVars, nonceVars
<1>2. settled[c] = {}
  BY <1>1 DEF CallInv, StepFits, OrderInv, SettledFits
<1> QED
  BY <1>1, <1>2, FinishOrder

LEMMA InfoOrder ==
  ASSUME OrderInv, CallInv, NonceInv, NEW c \in Callers, Info(c)
  PROVE  OrderInv'
<1>1. ASSUME InfoLost(c)
      PROVE  OrderInv'
  BY <1>1, InfoFailsOrder DEF InfoLost, venueVars, nonceVars
<1> QED
  BY <1>1, AskOrder, VenueReadsOrder, LookUpOrder, OrdersArriveOrder, IndexArrivesOrder,
     MetaArrivesOrder, SpotArrivesOrder, PerpArrivesOrder, ReadArrivesOrder DEF Info

-----------------------------------------------------------------------------
(* An action, from its nonce to the wire. *)

orderState == <<universe, cache, resting, spared, wire, asked, settled, gone, refused, denied,
                at, job, post, reply, got, lastNonce>>

LEMMA OrderUntouched ==
  ASSUME OrderInv, NonceInv, UNCHANGED orderState
  PROVE  OrderInv'
<1>1. \A o \in Cloids : asked[o] # <<>> /\ ~Placing(o) => ~Placing(o)'
  BY DEF Placing, orderState
<1>2. lastNonce' \in Nat /\ lastNonce <= lastNonce' /\ (cache' # <<>> => Begins(cache'[1].names))
  BY DEF OrderInv, VenueInv, NonceInv, orderState
<1>3. Kept /\ VenueInv'
  BY <1>1, <1>2, BooksStay DEF orderState
<1>4. ToldInv'
  BY <1>3, ToldStays DEF orderState
<1>5. OrderShape'
  BY DEF OrderInv, OrderShape, orderState
<1>6. ASSUME NEW d \in Callers
      PROVE  (OrderFits(d) /\ ReplyFits(d) /\ NonceFits(d) /\ SettledFits(d))'
  <2>1. OrderFits(d) /\ ReplyFits(d) /\ NonceFits(d) /\ SettledFits(d)
    BY DEF OrderInv
  <2>2. Untouched(d) /\ UNCHANGED <<wire, refused>>
    BY DEF Untouched, orderState
  <2>3. job[d].op = "place" => job[d].cloid \notin refused'
    BY <2>1, <2>2 DEF OrderFits
  <2>4. OrderFits(d)' /\ SettledFits(d)'
    BY <1>3, <2>1, <2>2, <2>3, OrderFitsStays, SettledFitsStays DEF Untouched
  <2>5. ReplyFits(d)' /\ NonceFits(d)'
    BY <1>3, <2>1, <2>2, ReplyFitsStays, NonceFitsStays DEF Untouched
  <2> QED
    BY <2>4, <2>5
<1>7. \A c, d \in Callers : Apart(c, d)'
  BY DEF OrderInv, Apart, orderState
<1> QED
  BY <1>3, <1>4, <1>5, <1>6, <1>7 DEF OrderInv

\* From one step to the next, with a nonce that is its own once it has one.
LEMMA Advances ==
  ASSUME OrderInv, CallInv, NonceInv, NEW c \in Callers, NEW step \in Submitting, NEW have,
         at[c] \in Submitting,
         at' = [at EXCEPT ![c] = step], got' = [got EXCEPT ![c] = have],
         UNCHANGED <<universe, resting, spared, wire, cache, job, post, reply, orderVars>>,
         IsGot(have), have.targets = got[c].targets, have.index = got[c].index,
         lastNonce' \in Nat, lastNonce <= lastNonce',
         step \in {"sign", "charge"} =>
           /\ have.nonce \in Nat /\ have.nonce <= lastNonce'
           /\ \A r \in wire : r.nonce # have.nonce
           /\ \A d \in Callers : d # c /\ at[d] \in Signing => have.nonce # got[d].nonce
  PROVE  OrderInv'
<1>1. /\ at = [x \in Callers |-> at[x]] /\ got = [x \in Callers |-> got[x]]
      /\ UNCHANGED <<asked, settled, gone, refused, denied>>
  BY DEF OrderInv, OrderShape, CallInv, Functions4, orderVars
<1>2. /\ at'[c] = step /\ got'[c] = have /\ job'[c] = job[c] /\ post'[c] = post[c]
      /\ settled'[c] = settled[c]
      /\ \A d \in Callers : d # c => Untouched(d)
  BY <1>1 DEF Untouched
<1>3. OrderShape'
  BY <1>1 DEF OrderInv, OrderShape
<1>4. /\ at[c] \notin {"exchange", "lookup", "index", "meta", "orders"}
      /\ step \notin {"exchange", "lookup", "index", "meta", "orders"}
      /\ post[c] = "none"
  BY DEF Submitting, CallInv, StepFits, InfoSteps
<1>5. cache' # <<>> => Begins(cache'[1].names)
  BY DEF OrderInv, VenueInv
<1>6. ASSUME Kept
      PROVE  OrderFits(c)' /\ ReplyFits(c)' /\ NonceFits(c)' /\ SettledFits(c)'
  <2>1. OrderFits(c) /\ SettledFits(c)
    BY DEF OrderInv
  <2>2. ReplyFits(c)'
    BY <1>2, <1>4 DEF ReplyFits
  <2>3. NonceFits(c)'
    BY <1>2, <1>4 DEF NonceFits, Submitting
  <2>4. OrderFits(c)'
    <3>1. /\ job'[c].op \in {"place", "change", "cancel"} =>
               job'[c].cloid \in Cloids /\ asked'[job'[c].cloid] # <<>>
          /\ job'[c].op = "place" =>
               /\ asked'[job'[c].cloid][1].coin = job'[c].coin
               /\ job'[c].cloid \notin refused'
               /\ job'[c].known => \E i \in DOMAIN universe' : universe'[i] = job'[c].coin
      BY <1>1, <1>2, <2>1 DEF OrderFits
    <3>2. job'[c].op = "place" /\ at'[c] \in Submitting => Points(got[c].index, job[c].cloid)'
      BY <1>1, <1>2, <2>1 DEF OrderFits, Points
    <3>3. \A x : IsOrder(x) /\ WentOut(x.cloid) => IsOrder(x)' /\ WentOut(x.cloid)'
      BY <1>6, OrderStays DEF Kept
    <3>4. job'[c].op = "change" /\ at'[c] \in {"lookup", "index"} \cup Submitting =>
            /\ got'[c].targets # {}
            /\ \A x \in got'[c].targets : IsOrder(x)' /\ WentOut(x.cloid)' /\ x.cloid = job'[c].cloid
      BY <1>2, <2>1, <3>3 DEF OrderFits
    <3>5. IsGot(got[c])' /\ at'[c] # "meta"
      BY <1>2, <1>4 DEF IsGot
    <3> QED
      BY <3>1, <3>2, <3>4, <3>5 DEF OrderFits
  <2>5. SettledFits(c)'
    <3> SUFFICES ASSUME NEW o \in settled[c]
                 PROVE  /\ job'[c].op \in {"cancel", "cancelAll"}
                        /\ Past(o)'
                        /\ job'[c].op = "cancel" => o = job'[c].cloid
                        /\ Held(o)' => \E t \in got'[c].targets : t.cloid = o /\ Points(t.index, o)'
      BY <1>2, <1>4 DEF SettledFits
    <3>1. /\ job[c].op \in {"cancel", "cancelAll"} /\ Past(o)
          /\ job[c].op = "cancel" => o = job[c].cloid
          /\ Held(o) => \E t \in got[c].targets : t.cloid = o /\ Points(t.index, o)
      BY <2>1 DEF SettledFits
    <3>2. Past(o)' /\ (Held(o)' => Held(o)) /\ o \in Cloids /\ asked[o] # <<>>
      BY <1>6, <3>1 DEF Kept, Past
    <3>3. \A t : Points(t.index, o) => Points(t.index, o)'
      BY <1>6, <3>2, OrderStays
    <3> QED
      BY <1>2, <3>1, <3>2, <3>3
  <2> QED
    BY <2>2, <2>3, <2>4, <2>5
<1>7. \A d \in Callers : d # c /\ at'[c] \in Signing /\ at[d] \in Signing =>
        got'[c].nonce # got[d].nonce
  BY <1>2, <1>4 DEF Signing, Submitting
<1> QED
  BY <1>1, <1>2, <1>3, <1>4, <1>5, <1>6, <1>7, OwnStep

LEMMA ReadNonceOrder ==
  ASSUME OrderInv, CallInv, NonceInv, NEW c \in Callers, ReadNonce(c)
  PROVE  OrderInv'
<1>1. at[c] = "key" /\ UNCHANGED <<universe, resting, spared, wire, lastNonce, cache>>
  BY DEF ReadNonce, venueVars
<1>2. CASE Finish(c, "failed")
  BY <1>1, <1>2, FinishOrder
<1>3. CASE at' = [at EXCEPT ![c] = "swap"] /\ UNCHANGED <<job, post, reply, got, orderVars>>
  <2>1. IsGot(got[c]) /\ got' = [got EXCEPT ![c] = got[c]]
    BY <1>3 DEF OrderInv, OrderFits, OrderShape
  <2>2. lastNonce' \in Nat /\ lastNonce <= lastNonce'
    BY <1>1 DEF NonceInv
  <2>3. "swap" \in Submitting /\ "swap" \notin {"sign", "charge"} /\ at[c] \in Submitting
    BY <1>1 DEF Submitting
  <2> QED
    BY <1>1, <1>3, <2>1, <2>2, <2>3, Advances
<1> QED
  BY <1>2, <1>3 DEF ReadNonce

\* The nonce swapped in is greater than all that are on the wire or at another call.
LEMMA SwapNonceOrder ==
  ASSUME OrderInv, CallInv, NonceInv, NEW c \in Callers, SwapNonce(c)
  PROVE  OrderInv'
<1>1. /\ at[c] = "swap"
      /\ UNCHANGED <<universe, resting, spared, wire, cache, job, post, reply, orderVars>>
  BY DEF SwapNonce, venueVars
<1>2. CASE seen[c].last # lastNonce
  <2>1. UNCHANGED orderState
    BY <1>1, <1>2 DEF SwapNonce, orderState, orderVars
  <2> QED
    BY <2>1, OrderUntouched
<1>3. CASE seen[c].last = lastNonce
  <2> DEFINE n == Candidate(c)
             have == [got[c] EXCEPT !.nonce = n]
  <2>1. /\ lastNonce' = n /\ at' = [at EXCEPT ![c] = "sign"]
        /\ got' = [got EXCEPT ![c].nonce = n]
    BY <1>3 DEF SwapNonce
  <2>2. n \in Nat /\ n > lastNonce /\ lastNonce \in Nat
    BY <1>3, CandidateIsNew DEF NonceInv
  <2> HIDE DEF n
  <2>3. IsGot(got[c])
    BY DEF OrderInv, OrderFits
  <2>4. /\ IsGot(have) /\ have.nonce = n
        /\ have.targets = got[c].targets /\ have.index = got[c].index
    BY <2>3 DEF IsGot
  <2>5. got' = [got EXCEPT ![c] = have]
    BY <2>1
  <2>6. \A r \in wire : r.nonce \in Nat /\ r.nonce <= lastNonce
    BY DEF OrderInv, VenueInv, WireFits
  <2>7. \A d \in Callers : at[d] \in Signing => got[d].nonce \in Nat /\ got[d].nonce <= lastNonce
    BY DEF OrderInv, NonceFits, Signing
  <2>8. /\ \A r \in wire : r.nonce # n
        /\ \A d \in Callers : d # c /\ at[d] \in Signing => n # got[d].nonce
        /\ n <= lastNonce' /\ lastNonce' \in Nat /\ lastNonce <= lastNonce'
    BY <2>1, <2>2, <2>6, <2>7
  <2>9. "sign" \in Submitting /\ at[c] \in Submitting
    BY <1>1 DEF Submitting
  <2> HIDE DEF have
  <2> QED
    BY <1>1, <2>1, <2>2, <2>4, <2>5, <2>8, <2>9, Advances
<1> QED
  BY <1>2, <1>3

LEMMA SignFailsOrder ==
  ASSUME OrderInv, CallInv, NonceInv, NEW c \in Callers, SignFails(c)
  PROVE  OrderInv'
BY FinishOrder DEF SignFails, venueVars, nonceVars

LEMMA AdmitOrder ==
  ASSUME OrderInv, CallInv, NonceInv, NEW c \in Callers, Admit(c)
  PROVE  OrderInv'
<1> DEFINE answer == RestAcquire(window, now, 1).answer
<1>1. at[c] = "sign" /\ UNCHANGED <<universe, resting, spared, wire, lastNonce, cache>>
  BY DEF Admit, venueVars, nonceVars
<1>2. answer \in {"ok", "limited", "panic"}
  BY DEF RestAcquire
<1>3. CASE answer = "ok"
  <2>1. at' = [at EXCEPT ![c] = "charge"] /\ UNCHANGED <<job, post, reply, got, orderVars>>
    BY <1>3 DEF Admit
  <2>2. IsGot(got[c]) /\ got' = [got EXCEPT ![c] = got[c]]
    BY <2>1 DEF OrderInv, OrderFits, OrderShape
  <2>3. /\ got[c].nonce \in Nat /\ got[c].nonce <= lastNonce
        /\ \A r \in wire : r.nonce # got[c].nonce
    BY <1>1 DEF OrderInv, NonceFits
  <2>4. \A d \in Callers : d # c /\ at[d] \in Signing => got[c].nonce # got[d].nonce
    BY <1>1 DEF OrderInv, Apart, Signing
  <2>5. lastNonce' \in Nat /\ lastNonce <= lastNonce'
    BY <1>1 DEF NonceInv
  <2>6. "charge" \in Submitting /\ at[c] \in Submitting
    BY <1>1 DEF Submitting
  <2> QED
    BY <1>1, <2>1, <2>2, <2>3, <2>4, <2>5, <2>6, Advances
<1>4. CASE answer # "ok"
  <2>1. Finish(c, answer)
    BY <1>4 DEF Admit
  <2> QED
    BY <1>1, <1>2, <1>4, <2>1, FinishOrder
<1> QED
  BY <1>3, <1>4

LEMMA ReturnsOrder ==
  ASSUME OrderInv, CallInv, NonceInv, NEW c \in Callers, Returns(c)
  PROVE  OrderInv'
<1>1. at[c] = "exchange" /\ UNCHANGED <<universe, resting, spared, wire, lastNonce, cache>>
  BY DEF Returns, venueVars, nonceVars
<1>2. CASE Finish(c, "failed")
  BY <1>1, <1>2, FinishOrder
<1>3. CASE post[c] = "answered" /\ Finish(c, reply[c])
  <2>1. reply[c] \in {"ok", "failed"}
    BY <1>1, <1>3 DEF OrderInv, ReplyFits
  <2>2. reply[c] = "ok" => \A o \in settled[c] : ~Held(o)
    BY <1>1, <1>3 DEF OrderInv, SettledFits
  <2> QED
    BY <1>1, <1>3, <2>1, <2>2, FinishOrder
<1> QED
  BY <1>2, <1>3 DEF Returns

\* What place_order formats is what it signed: the price of a market trigger order is its
\* trigger price in both, the kind is the same in both, for every kind of order.
LEMMA SignedAsSent ==
  ASSUME NEW spec \in Specs, NEW index, Buildable(spec)
  PROVE  Signed(spec, index) = Sent(spec, index)
<1>1. spec.type \in {"Limit", "Market", "TakeProfit", "StopLoss"}
  BY RestAssumption
<1>2. SignedKind(spec) = SentKind(spec)
  <2>1. CASE IsTrigger(spec) /\ IsMarket(spec)
    <3>1. IsMarket(spec) = TRUE
      BY <2>1 DEF IsMarket
    <3>2. SignedKind(spec) = <<"trigger", IsMarket(spec), spec.trigger, Tpsl(spec)>>
      BY <2>1 DEF SignedKind
    <3>3. SentKind(spec) = <<"trigger", TRUE, spec.trigger, Tpsl(spec)>>
      <4>1. spec.type # "Limit" /\ spec.type # "Market"
        BY <2>1 DEF IsTrigger
      <4> QED
        BY <2>1, <4>1, Zenon DEF SentKind
    <3> QED
      BY <3>1, <3>2, <3>3, Zenon
  <2>2. CASE IsTrigger(spec) /\ ~IsMarket(spec)
    <3>1. IsMarket(spec) = FALSE
      BY <2>2 DEF IsMarket
    <3>2. SignedKind(spec) = <<"trigger", IsMarket(spec), spec.trigger, Tpsl(spec)>>
      BY <2>2 DEF SignedKind
    <3>3. SentKind(spec) = <<"trigger", FALSE, spec.trigger, Tpsl(spec)>>
      <4>1. spec.type # "Limit" /\ spec.type # "Market"
        BY <2>2 DEF IsTrigger
      <4> QED
        BY <2>2, <4>1, Zenon DEF SentKind
    <3> QED
      BY <3>1, <3>2, <3>3, Zenon
  <2>3. CASE ~IsTrigger(spec)
    <3>1. spec.type \in {"Limit", "Market"}
      BY <1>1, <2>3 DEF IsTrigger
    <3> QED
      BY <2>3, <3>1 DEF SignedKind, SentKind
  <2> QED
    BY <2>1, <2>2, <2>3
<1>3. IsTrigger(spec) /\ IsMarket(spec) <=> IsTrigger(spec) /\ IsMarket(spec) /\ spec.trigger # {}
  BY DEF Buildable
<1>4. (IF IsTrigger(spec) /\ IsMarket(spec) THEN spec.trigger ELSE spec.price)
        = (IF IsTrigger(spec) /\ IsMarket(spec) /\ spec.trigger # {} THEN spec.trigger ELSE spec.price)
  BY <1>3
<1> QED
  BY <1>2, <1>4 DEF Signed, Sent

LEMMA ActionFits ==
  ASSUME OrderInv, CallInv, NEW c \in Callers, at[c] = "charge", NEW r \in Actions(c)
  PROVE  /\ r.nonce = got[c].nonce /\ ~r.forged
         /\ job[c].op \in {"place", "change", "cancel", "cancelAll"}
         /\ job[c].op = "place" =>
              r.kind = "order" /\ r.cloid = job[c].cloid /\ r.index = got[c].index
         /\ job[c].op = "change" => r.kind = "modify" /\ r.cloid = job[c].cloid
         /\ job[c].op \in {"cancel", "cancelAll"} =>
              r.kind = "cancel" /\ r.cloid = "none" /\ r.targets = got[c].targets
<1> DEFINE base == [nonce |-> got[c].nonce, kind |-> "cancel", cloid |-> "none",
                    index |-> got[c].index, targets |-> {}, forged |-> FALSE, reduceOnly |-> FALSE]
<1>1. job[c].op \in {"place", "change", "cancel", "cancelAll"}
  BY DEF CallInv, StepFits
<1>2. CASE job[c].op = "place"
  <2>1. PICK spec \in Specs :
          /\ Buildable(spec)
          /\ r = [base EXCEPT !.kind = "order", !.cloid = job[c].cloid,
                              !.reduceOnly = job[c].reduceOnly,
                              !.forged = Signed(spec, got[c].index) # Sent(spec, got[c].index)]
    BY <1>2 DEF Actions, SpecsOf
  <2>2. Signed(spec, got[c].index) = Sent(spec, got[c].index)
    BY <2>1, SignedAsSent
  <2>3. ~(Signed(spec, got[c].index) # Sent(spec, got[c].index))
    BY <2>2
  <2>4. r.forged = (Signed(spec, got[c].index) # Sent(spec, got[c].index))
    BY <2>1
  <2>5. ~r.forged
    BY <2>3, <2>4, Zenon
  <2>6. /\ r.nonce = got[c].nonce /\ r.kind = "order" /\ r.cloid = job[c].cloid
        /\ r.index = got[c].index
    BY <2>1
  <2> QED
    BY <1>2, <2>5, <2>6
<1>3. CASE job[c].op = "change"
  <2>1. r = [base EXCEPT !.kind = "modify", !.cloid = job[c].cloid]
    BY <1>3 DEF Actions
  <2> QED
    BY <1>3, <2>1
<1>4. CASE job[c].op \in {"cancel", "cancelAll"}
  <2>1. r = [base EXCEPT !.targets = got[c].targets]
    BY <1>4 DEF Actions
  <2> QED
    BY <1>4, <2>1
<1> QED
  BY <1>1, <1>2, <1>3, <1>4

\* An action is sent: the placement of an order for the first and last time.
LEMMA SentOrder ==
  ASSUME OrderInv, CallInv, NonceInv, NEW c \in Callers, at[c] = "charge",
         NEW r \in Actions(c), wire' = wire \cup {r},
         at' = [at EXCEPT ![c] = "exchange"], post' = [post EXCEPT ![c] = "asked"],
         UNCHANGED <<universe, resting, spared, lastNonce, cache, job, reply, got, orderVars>>
  PROVE  OrderInv'
<1>1. /\ at = [x \in Callers |-> at[x]] /\ post = [x \in Callers |-> post[x]]
      /\ UNCHANGED <<asked, settled, gone, refused, denied>>
  BY DEF CallInv, Functions4, orderVars
<1>2. /\ at'[c] = "exchange" /\ got'[c] = got[c] /\ job'[c] = job[c] /\ post'[c] = "asked"
      /\ settled'[c] = settled[c]
      /\ \A d \in Callers : d # c => Untouched(d)
  BY <1>1 DEF Untouched
<1>3. OrderShape'
  BY <1>1 DEF OrderInv, OrderShape
<1>4. /\ r.nonce = got[c].nonce /\ ~r.forged
      /\ job[c].op \in {"place", "change", "cancel", "cancelAll"}
      /\ job[c].op = "place" =>
           r.kind = "order" /\ r.cloid = job[c].cloid /\ r.index = got[c].index
      /\ job[c].op = "change" => r.kind = "modify" /\ r.cloid = job[c].cloid
      /\ job[c].op \in {"cancel", "cancelAll"} =>
           r.kind = "cancel" /\ r.cloid = "none" /\ r.targets = got[c].targets
  BY ActionFits
<1>5. /\ OrderFits(c) /\ NonceFits(c) /\ SettledFits(c) /\ "charge" \in Submitting
      /\ VenueInv /\ ToldInv
  BY DEF OrderInv, Submitting
<1>6. \A o : ~Placing(o) => ~Placing(o)'
  BY <1>2 DEF Placing, Untouched
<1>7. job[c].op = "place" => Placing(job[c].cloid) /\ ~Placing(job[c].cloid)'
  <2> SUFFICES ASSUME job[c].op = "place"
               PROVE  Placing(job[c].cloid) /\ ~Placing(job[c].cloid)'
    OBVIOUS
  <2> DEFINE o == job[c].cloid
  <2>1. Placing(o)
    BY DEF Placing
  <2>2. \A d \in Callers : d # c /\ job[d].op = "place" => job[d].cloid # job[c].cloid
    BY DEF OrderInv, Apart
  <2>3. ~(\E d \in Callers : job'[d].op = "place" /\ job'[d].cloid = job[c].cloid /\ at'[d] # "exchange")
    BY <1>2, <2>2 DEF Untouched
  <2> QED
    BY <1>2, <2>1, <2>3 DEF Placing
<1>8. \A o : Past(o) => o # job[c].cloid \/ job[c].op # "place"
  BY <1>7 DEF Past
<1>9. Kept
  <2>1. universe \in Seq(Symbols) /\ lastNonce \in Nat /\ lastNonce <= lastNonce
    BY <1>5 DEF VenueInv, NonceInv
  <2>2. \A o : WentOut(o) => WentOut(o)'
    BY <1>1, <1>6 DEF WentOut
  <2>3. \A o : Past(o) => Past(o)'
    BY <1>1, <1>4, <1>6, <1>8 DEF Past
  <2>4. \A o : Held(o)' => Held(o)
    BY DEF Held
  <2> QED
    BY <1>1, <2>1, <2>2, <2>3, <2>4 DEF Kept
<1>10. WireFits(r)'
  <2>1. r.nonce \in Nat /\ r.nonce <= lastNonce'
    BY <1>4, <1>5 DEF NonceFits
  <2>2. job[c].op = "place" => Points(r.index, r.cloid)' /\ WentOut(r.cloid)'
    <3> SUFFICES ASSUME job[c].op = "place"
                 PROVE  Points(r.index, r.cloid)' /\ WentOut(r.cloid)'
      OBVIOUS
    <3>1. /\ r.cloid = job[c].cloid /\ r.index = got[c].index
          /\ r.cloid \in Cloids /\ asked[r.cloid] # <<>> /\ r.cloid \notin refused
          /\ Points(r.index, r.cloid)
      BY <1>4, <1>5 DEF OrderFits
    <3>2. ~Placing(r.cloid)'
      BY <1>2, <1>7, <3>1 DEF Placing
    <3>3. Points(r.index, r.cloid)'
      BY <1>9, <3>1, OrderStays
    <3> QED
      BY <1>1, <3>1, <3>2, <3>3 DEF WentOut
  <2>3. job[c].op = "change" => WentOut(r.cloid)'
    <3>1. job[c].op = "change" => WentOut(r.cloid)
      BY <1>4, <1>5 DEF OrderFits
    <3> QED
      BY <1>9, <3>1 DEF Kept
  <2> QED
    BY <1>4, <2>1, <2>2, <2>3 DEF WireFits
<1>11. \A q \in wire : WireFits(q)'
  <2>1. ASSUME NEW q \in wire
        PROVE  WireFits(q)'
    <3>1. WireFits(q)
      BY <1>5 DEF VenueInv
    <3>2. q.kind = "order" => Points(q.index, q.cloid)'
      <4>1. q.kind = "order" => q.cloid \in Cloids /\ asked[q.cloid] # <<>> /\ Points(q.index, q.cloid)
        BY <3>1 DEF WireFits, WentOut
      <4> QED
        BY <1>9, <4>1, OrderStays
    <3>3. q.kind \in {"order", "modify"} => WentOut(q.cloid)'
      BY <1>9, <3>1 DEF WireFits, Kept
    <3> QED
      BY <3>1, <3>2, <3>3 DEF WireFits
  <2> QED
    BY <2>1
<1>12. \A q \in wire : q.kind = "order" /\ r.kind = "order" => q.cloid # r.cloid
  BY <1>4, <1>5, <1>7 DEF VenueInv, WireFits, WentOut
<1>13. VenueInv'
  <2>1. \A x \in resting' : IsOrder(x)' /\ WentOut(x.cloid)' /\ Past(x.cloid)'
    <3>1. \A x \in resting : IsOrder(x) /\ WentOut(x.cloid) /\ Past(x.cloid)
      BY <1>5 DEF VenueInv
    <3> QED
      BY <1>9, <3>1, OrderStays DEF Kept
  <2>2. universe' \in Seq(Symbols)
    BY <1>9 DEF Kept
  <2>3. cache' # <<>> => Begins(cache[1].names)'
    BY <1>5 DEF VenueInv, Begins
  <2>4. \A q \in wire' : WireFits(q)'
    BY <1>10, <1>11
  <2>5. \A q, z \in wire' : q.kind = "order" /\ z.kind = "order" /\ q.cloid = z.cloid => q = z
    BY <1>5, <1>12 DEF VenueInv
  <2> QED
    BY <2>1, <2>2, <2>3, <2>4, <2>5 DEF VenueInv
<1>14. ToldInv'
  BY <1>1, <1>9, ToldStays
<1>15. OrderFits(c)'
  <2>1. at'[c] \notin {"lookup", "index", "meta"} \cup Submitting
    BY <1>2 DEF Submitting
  <2> QED
    BY <1>1, <1>2, <1>5, <2>1 DEF OrderFits, IsGot
<1>16. ReplyFits(c)'
  BY <1>2 DEF ReplyFits
<1>17. NonceFits(c)'
  <2>1. got[c].nonce \in Nat /\ got[c].nonce <= lastNonce /\ \A q \in wire : q.nonce # got[c].nonce
    BY <1>5 DEF NonceFits
  <2> QED
    BY <1>2, <1>4, <2>1 DEF NonceFits
<1>18. SettledFits(c)'
  <2> SUFFICES ASSUME NEW o \in settled[c]
               PROVE  /\ job'[c].op \in {"cancel", "cancelAll"}
                      /\ Past(o)'
                      /\ job'[c].op = "cancel" => o = job'[c].cloid
                      /\ Held(o)' => \E t \in got'[c].targets : t.cloid = o /\ Points(t.index, o)'
    BY <1>2 DEF SettledFits
  <2>1. /\ job[c].op \in {"cancel", "cancelAll"} /\ Past(o)
        /\ job[c].op = "cancel" => o = job[c].cloid
        /\ Held(o) => \E t \in got[c].targets : t.cloid = o /\ Points(t.index, o)
    BY <1>5 DEF SettledFits
  <2>2. Past(o)' /\ (Held(o)' => Held(o)) /\ o \in Cloids /\ asked[o] # <<>>
    BY <1>9, <2>1 DEF Kept, Past
  <2>3. \A t : Points(t.index, o) => Points(t.index, o)'
    BY <1>9, <2>2, OrderStays
  <2> QED
    BY <1>2, <2>1, <2>2, <2>3
<1>19. \A d \in Callers : d # c /\ at[d] \in Signing =>
         \A q \in wire' : q \in wire \/ q.nonce # got[d].nonce
  BY <1>4 DEF OrderInv, Apart, Signing
<1>20. \A d \in Callers : d # c => Apart(c, d)'
  BY <1>2 DEF OrderInv, Apart, Untouched
<1>21. \A d \in Callers : d # c /\ job[d].op = "place" => job[d].cloid \notin refused'
  BY <1>1 DEF OrderInv, OrderFits
<1> QED
  BY <1>2, <1>3, <1>9, <1>13, <1>14, <1>15, <1>16, <1>17, <1>18, <1>19, <1>20, <1>21, Gathered

LEMMA ChargeOrder ==
  ASSUME OrderInv, CallInv, NonceInv, NEW c \in Callers, Charge(c)
  PROVE  OrderInv'
<1> DEFINE answer == AddressAcquire(address, now, 1, FALSE).answer
<1>1. /\ at[c] = "charge" /\ UNCHANGED <<universe, resting, spared, lastNonce, cache>>
  BY DEF Charge, nonceVars
<1>2. answer \in {"ok", "limited"}
  BY DEF AddressAcquire
<1>3. CASE answer = "ok"
  <2>1. PICK r \in Actions(c) : wire' = wire \cup {r}
    BY <1>3 DEF Charge
  <2>2. /\ at' = [at EXCEPT ![c] = "exchange"] /\ post' = [post EXCEPT ![c] = "asked"]
        /\ UNCHANGED <<job, reply, got, orderVars>>
    BY <1>3 DEF Charge
  <2> QED
    BY <1>1, <2>1, <2>2, SentOrder
<1>4. CASE answer # "ok"
  <2>1. Finish(c, answer) /\ UNCHANGED wire
    BY <1>4 DEF Charge
  <2> QED
    BY <1>1, <1>2, <1>4, <2>1, FinishOrder
<1> QED
  BY <1>3, <1>4

LEMMA SubmitOrder ==
  ASSUME OrderInv, CallInv, NonceInv, NEW c \in Callers, Submit(c)
  PROVE  OrderInv'
BY ReadNonceOrder, SwapNonceOrder, SignFailsOrder, AdmitOrder, ChargeOrder, ReturnsOrder DEF Submit

-----------------------------------------------------------------------------
(* A call that begins. *)

LEMMA BeginOrder ==
  ASSUME OrderInv, CallInv, NonceInv, NEW c \in Callers, NEW j, NEW step, Begin(c, j, step),
         at[c] = "idle", step \in {"lookup", "orders", "spot", "read"},
         UNCHANGED <<universe, resting, spared, wire, lastNonce, cache, settled, gone, refused, denied>>,
         \A o \in Cloids : asked[o] # <<>> => asked'[o] = asked[o],
         asked' = [o \in Cloids |-> asked'[o]],
         step = "lookup" => j.op = "place",
         j.op = "place" =>
           /\ j.cloid \in Cloids /\ asked[j.cloid] = <<>> /\ asked'[j.cloid] # <<>>
           /\ asked'[j.cloid][1].coin = j.coin
           /\ j.known => \E i \in DOMAIN universe : universe[i] = j.coin,
         j.op \in {"change", "cancel"} => j.cloid \in Cloids /\ asked[j.cloid] # <<>>
  PROVE  OrderInv'
<1>1. /\ at = [x \in Callers |-> at[x]] /\ job = [x \in Callers |-> job[x]]
      /\ got = [x \in Callers |-> got[x]]
  BY DEF OrderInv, OrderShape, CallInv, Functions4
<1>2. /\ at'[c] = step /\ job'[c] = j /\ got'[c] = Nothing /\ post'[c] = post[c]
      /\ \A d \in Callers : d # c => Untouched(d)
  BY <1>1 DEF Begin, Untouched
<1>3. settled'[c] = {} /\ post'[c] = "none"
  BY <1>2 DEF OrderInv, SettledFits, Submitting, CallInv, StepFits, InfoSteps
<1>4. OrderShape'
  BY DEF Begin, OrderInv, OrderShape
<1>5. \A o \in Cloids : asked[o] # <<>> /\ ~Placing(o) => ~Placing(o)'
  BY <1>2 DEF Placing, Untouched
<1>6. lastNonce' \in Nat /\ lastNonce <= lastNonce' /\ (cache' # <<>> => Begins(cache'[1].names))
  BY DEF OrderInv, VenueInv, NonceInv
<1>7. Kept /\ VenueInv'
  BY <1>5, <1>6, BooksStay
<1>8. ToldInv'
  BY <1>7, ToldStays
<1>9. OrderFits(c)'
  <2>1. IsGot(got[c])'
    BY <1>2 DEF IsGot, Nothing
  <2>2. at'[c] \notin Submitting /\ at'[c] \notin {"index", "meta"}
    BY <1>2 DEF Submitting
  <2>3. j.op \in {"place", "change", "cancel"} => j.cloid \in Cloids /\ asked'[j.cloid] # <<>>
    OBVIOUS
  <2>4. j.op = "place" => j.cloid \notin refused'
    BY DEF OrderInv, ToldInv
  <2>5. j.op = "change" => at'[c] # "lookup"
    BY <1>2
  <2> QED
    BY <1>2, <2>1, <2>2, <2>3, <2>4, <2>5 DEF OrderFits
<1>10. ReplyFits(c)' /\ NonceFits(c)' /\ SettledFits(c)'
  BY <1>2, <1>3 DEF ReplyFits, NonceFits, SettledFits
<1>11. ASSUME NEW d \in Callers, d # c
       PROVE  Apart(c, d)'
  <2>1. job[d].op = "place" => asked[job[d].cloid] # <<>>
    BY DEF OrderInv, OrderFits
  <2>2. at'[c] \notin {"sign", "charge", "exchange"}
    BY <1>2
  <2> QED
    BY <1>2, <1>11, <2>1, <2>2 DEF Apart, Untouched
<1>12. \A d \in Callers : d # c /\ job[d].op = "place" => job[d].cloid \notin refused'
  BY DEF OrderInv, OrderFits
<1> QED
  BY <1>2, <1>4, <1>7, <1>8, <1>9, <1>10, <1>11, <1>12, Gathered

LEMMA StartOrder ==
  ASSUME OrderInv, CallInv, NonceInv, NEW c \in Callers, Start(c)
  PROVE  OrderInv'
<1>1. /\ at[c] = "idle" /\ UNCHANGED <<universe, resting, spared, wire, lastNonce, cache>>
  BY DEF Start, venueVars, nonceVars
<1>2. asked = [o \in Cloids |-> asked[o]]
  BY DEF OrderInv, OrderShape
<1>3. CASE PlaceOrder(c)
  <2>1. PICK s \in Symbols, o \in Cloids, reduce \in {spec.reduceOnly : spec \in Specs} :
          /\ asked[o] = <<>>
          /\ Begin(c, [op |-> "place", coin |-> s, cloid |-> o, reduceOnly |-> reduce,
                       known |-> Listed(s)], "lookup")
          /\ asked' = [asked EXCEPT ![o] = <<[coin |-> s, reduceOnly |-> reduce]>>]
          /\ UNCHANGED <<settled, gone, refused, denied>>
    BY <1>3 DEF PlaceOrder
  <2> DEFINE j == [op |-> "place", coin |-> s, cloid |-> o, reduceOnly |-> reduce,
                   known |-> Listed(s)]
  <2>2. j.op = "place" /\ j.cloid = o /\ j.coin = s
    OBVIOUS
  <2>3. j.known => \E i \in DOMAIN universe : universe[i] = s
    <3>1. j.known = Listed(s)
      OBVIOUS
    <3>2. Listed(s) => \E i \in DOMAIN universe : universe[i] = s
      BY InSet DEF Listed
    <3> HIDE DEF j
    <3> QED
      BY <3>1, <3>2, Zenon
  <2>4. /\ asked'[o] = <<[coin |-> s, reduceOnly |-> reduce]>>
        /\ \A x \in Cloids : asked[x] # <<>> => asked'[x] = asked[x]
        /\ asked' = [x \in Cloids |-> asked'[x]]
    BY <1>2, <2>1
  <2>5. asked'[o] # <<>> /\ asked'[o][1].coin = s
    BY <2>4
  <2>6. Begin(c, j, "lookup")
    BY <2>1
  <2> HIDE DEF j
  <2> QED
    BY <1>1, <2>1, <2>2, <2>3, <2>4, <2>5, <2>6, BeginOrder
<1>4. ASSUME NEW j, NEW step, BeginAsUser(c, j, step), step \in {"orders", "spot"},
             j.op \in {"change", "cancel", "cancelAll", "balance"},
             j.op \in {"change", "cancel"} => j.cloid \in Cloids /\ asked[j.cloid] # <<>>
      PROVE  OrderInv'
  BY <1>1, <1>2, <1>4, BeginOrder DEF BeginAsUser, orderVars
<1>5. CASE Change(c)
  BY <1>4, <1>5 DEF Change
<1>6. CASE CancelOne(c)
  BY <1>4, <1>6 DEF CancelOne
<1>7. CASE CancelAll(c)
  BY <1>4, <1>7 DEF CancelAll
<1>8. CASE GetBalance(c)
  BY <1>4, <1>8 DEF GetBalance
<1>9. CASE ReadOne(c)
  <2>1. PICK what \in Reads :
          /\ Begin(c, [op |-> "read", weight |-> ReadWeight(what)], "read")
          /\ UNCHANGED orderVars
    BY <1>9 DEF ReadOne
  <2> QED
    BY <1>1, <1>2, <2>1, BeginOrder DEF orderVars
<1> QED
  BY <1>3, <1>5, <1>6, <1>7, <1>8, <1>9 DEF Start

-----------------------------------------------------------------------------
(* The exchange. *)

\* What the exchange does leaves every call where it is; some get their answer.
Answered(d) ==
  /\ at[d] = "exchange" /\ post'[d] = "answered" /\ reply'[d] \in {"ok", "failed"}
  /\ reply'[d] = "ok" => \A o \in settled[d] : ~Held(o)'

LEMMA VenueGathered ==
  ASSUME OrderInv, NonceInv, Kept, OrderShape', VenueInv',
         UNCHANGED <<at, job, got, settled, gone, refused, denied>>,
         wire' \subseteq wire,
         \A d \in Callers : (post'[d] = post[d] /\ reply'[d] = reply[d]) \/ Answered(d)
  PROVE  OrderInv'
<1>1. ToldInv'
  BY ToldStays
<1>2. ASSUME NEW d \in Callers
      PROVE  (OrderFits(d) /\ ReplyFits(d) /\ NonceFits(d) /\ SettledFits(d))'
  <2>1. OrderFits(d) /\ ReplyFits(d) /\ NonceFits(d) /\ SettledFits(d)
    BY DEF OrderInv
  <2>2. job[d].op = "place" => job[d].cloid \notin refused'
    BY <2>1 DEF OrderFits
  <2>3. OrderFits(d)' /\ NonceFits(d)'
    BY <2>1, <2>2, OrderFitsStays, NonceFitsStays
  <2>4. CASE post'[d] = post[d] /\ reply'[d] = reply[d]
    <3>1. Untouched(d)
      BY <2>4 DEF Untouched
    <3>2. ReplyFits(d)' /\ SettledFits(d)'
      BY <2>1, <3>1, ReplyFitsStays, SettledFitsStays DEF Untouched
    <3> QED
      BY <2>3, <3>2
  <2>5. CASE Answered(d)
    <3>1. ReplyFits(d)'
      BY <2>5 DEF Answered, ReplyFits
    <3>2. SettledFits(d)'
      <4> SUFFICES ASSUME NEW o \in settled[d]
                   PROVE  /\ job'[d].op \in {"cancel", "cancelAll"}
                          /\ Past(o)'
                          /\ job'[d].op = "cancel" => o = job'[d].cloid
                          /\ Held(o)' => \E t \in got'[d].targets : t.cloid = o /\ Points(t.index, o)'
                          /\ reply'[d] = "ok" => ~Held(o)'
        BY <2>5 DEF SettledFits, Answered
      <4>1. /\ job[d].op \in {"cancel", "cancelAll"} /\ Past(o)
            /\ job[d].op = "cancel" => o = job[d].cloid
            /\ Held(o) => \E t \in got[d].targets : t.cloid = o /\ Points(t.index, o)
        BY <2>1, <2>5 DEF SettledFits, Answered
      <4>2. Past(o)' /\ (Held(o)' => Held(o)) /\ o \in Cloids /\ asked[o] # <<>>
        BY <4>1 DEF Kept, Past
      <4>3. \A t : Points(t.index, o) => Points(t.index, o)'
        BY <4>2, OrderStays
      <4> QED
        BY <2>5, <4>1, <4>2, <4>3 DEF Answered
    <3> QED
      BY <2>3, <3>1, <3>2
  <2> QED
    BY <2>4, <2>5
<1>3. \A c, d \in Callers : Apart(c, d)'
  BY DEF OrderInv, Apart
<1> QED
  BY <1>1, <1>2, <1>3 DEF OrderInv

\* Fewer actions are on their way, and on the books is what was there or was on its way.
LEMMA FewerUnderWay ==
  ASSUME OrderInv, NonceInv, UNCHANGED <<universe, cache, asked, at, job, refused, lastNonce>>,
         wire' \subseteq wire,
         \A x \in resting' : IsOrder(x) /\ WentOut(x.cloid) /\ Past(x.cloid)',
         \A o : Past(o) /\ Held(o)' => Held(o)
  PROVE  Kept /\ VenueInv'
<1>1. universe \in Seq(Symbols) /\ lastNonce \in Nat /\ VenueInv
  BY DEF OrderInv, VenueInv, NonceInv
<1>2. \A o : (~Placing(o))' <=> ~Placing(o)
  BY DEF Placing
<1>3. \A o : WentOut(o) => WentOut(o)'
  BY <1>2 DEF WentOut
<1>4. \A o : Past(o) => Past(o)'
  BY <1>2 DEF Past
<1>5. Kept
  BY <1>1, <1>3, <1>4 DEF Kept
<1>6. \A x \in resting' : IsOrder(x)' /\ WentOut(x.cloid)' /\ Past(x.cloid)'
  BY <1>3, <1>5, OrderStays
<1>7. ASSUME NEW q \in wire'
      PROVE  WireFits(q)'
  <2>1. WireFits(q)
    BY <1>1 DEF VenueInv
  <2>2. q.kind = "order" => Points(q.index, q.cloid)'
    <3>1. q.kind = "order" => q.cloid \in Cloids /\ asked[q.cloid] # <<>> /\ Points(q.index, q.cloid)
      BY <2>1 DEF WireFits, WentOut
    <3> QED
      BY <1>5, <3>1, OrderStays
  <2>3. q.kind \in {"order", "modify"} => WentOut(q.cloid)'
    BY <1>3, <2>1 DEF WireFits
  <2> QED
    BY <2>1, <2>2, <2>3 DEF WireFits
<1>8. cache' # <<>> => Begins(cache[1].names)'
  BY <1>1 DEF VenueInv, Begins
<1> QED
  BY <1>1, <1>5, <1>6, <1>7, <1>8 DEF VenueInv

\* An order of which one field is replaced.
LEMMA FieldReplaced ==
  ASSUME NEW x, x = [cloid |-> x.cloid, coin |-> x.coin, reduceOnly |-> x.reduceOnly], NEW z
  PROVE  [x EXCEPT !.reduceOnly = z] = [cloid |-> x.cloid, coin |-> x.coin, reduceOnly |-> z]
OBVIOUS

\* Handling an action leaves orders that were placed, on their markets; only a placement
\* adds one, and only that once.
LEMMA HandledOrders ==
  ASSUME OrderInv, NEW r \in wire, NEW out \in Outcomes(r), wire' = wire \ {r},
         UNCHANGED <<universe, asked, at, job, refused>>
  PROVE  /\ out.answer \in {"ok", "failed"}
         /\ \A x \in out.resting : IsOrder(x) /\ WentOut(x.cloid) /\ Past(x.cloid)'
         /\ spared \subseteq out.spared
         /\ \A o : Past(o) /\ (\E x \in out.resting : x.cloid = o) =>
              \E x \in resting : x.cloid = o
         /\ out.answer = "ok" /\ r.kind = "cancel" =>
              \A x \in out.resting : x \in resting /\
                ((\E t \in r.targets : x.cloid = t.cloid /\ x.coin = universe[t.index])
                   => x.cloid \in out.spared)
<1> DEFINE rejected == [resting |-> resting, spared |-> spared, answer |-> "failed"]
           taken   == [resting |-> resting, spared |-> spared, answer |-> "ok"]
           named   == {o \in resting : o.cloid = r.cloid}
           hit     == {o \in resting : \E t \in r.targets :
                         o.cloid = t.cloid /\ o.coin = universe[t.index]}
           new     == [cloid |-> r.cloid, coin |-> universe[r.index], reduceOnly |-> r.reduceOnly]
           plain   == {[o EXCEPT !.reduceOnly = FALSE] : o \in named}
           without(off) == [taken EXCEPT !.resting = @ \ off,
                                         !.spared = @ \cup {o.cloid : o \in hit \ off}]
<1>1. VenueInv /\ WireFits(r)
  BY DEF OrderInv, VenueInv
<1>2. \A o : (~Placing(o))' <=> ~Placing(o)
  BY DEF Placing
<1>3. \A o : Past(o) => Past(o)'
  BY <1>2 DEF Past
<1>4. \A x \in resting : IsOrder(x) /\ WentOut(x.cloid) /\ Past(x.cloid)'
  BY <1>1, <1>3 DEF VenueInv
<1>6. \/ out = rejected
      \/ r.kind \in {"order", "modify"} /\ out = taken
      \/ r.kind = "order" /\ out = [taken EXCEPT !.resting = @ \cup {new}]
      \/ r.kind = "modify" /\ out = [taken EXCEPT !.resting = (@ \ named) \cup plain]
      \/ r.kind = "cancel" /\ \E off \in SUBSET hit : out = without(off)
  BY <1>1 DEF Outcomes, WireFits
<1>7. CASE out = rejected
  BY <1>4, <1>7
<1>8. CASE r.kind \in {"order", "modify"} /\ out = taken
  BY <1>4, <1>8
<1>9. CASE r.kind = "order" /\ out = [taken EXCEPT !.resting = @ \cup {new}]
  <2>1. out.resting = resting \cup {new} /\ out.answer = "ok" /\ out.spared = spared
    BY <1>9
  <2>2. new.cloid = r.cloid /\ new.coin = universe[r.index]
    OBVIOUS
  <2>3. WentOut(r.cloid) /\ Points(r.index, r.cloid)
    BY <1>1, <1>9 DEF WireFits
  <2>4. IsOrder(new)
    <3>1. new.cloid \in Cloids /\ asked[new.cloid] # <<>> /\ new.coin = asked[new.cloid][1].coin
      BY <2>2, <2>3 DEF WentOut, Points
    <3>2. \E i \in DOMAIN universe : universe[i] = new.coin
      BY <2>2, <2>3 DEF Points
    <3>3. new = [cloid |-> new.cloid, coin |-> new.coin, reduceOnly |-> new.reduceOnly]
      OBVIOUS
    <3> HIDE DEF new
    <3> QED
      BY <3>1, <3>2, <3>3 DEF IsOrder
  <2>5. Past(r.cloid)'
    <3>1. \A q \in wire : q.kind = "order" /\ q.cloid = r.cloid => q = r
      BY <1>1, <1>9 DEF VenueInv
    <3>2. \A q \in wire' : q.kind = "order" => q.cloid # r.cloid
      BY <3>1
    <3>3. r.cloid \in Cloids /\ asked'[r.cloid] # <<>> /\ ~Placing(r.cloid)'
      BY <1>2, <2>3 DEF WentOut
    <3> QED
      BY <3>2, <3>3 DEF Past
  <2>6. ~Past(r.cloid)
    BY <1>9 DEF Past
  <2> HIDE DEF new
  <2>7. \A x \in out.resting : x \in resting \/ x = new
    BY <2>1
  <2>8. \A x \in out.resting : IsOrder(x) /\ WentOut(x.cloid) /\ Past(x.cloid)'
    BY <1>4, <2>2, <2>3, <2>4, <2>5, <2>7
  <2>9. \A o : Past(o) /\ (\E x \in out.resting : x.cloid = o) => \E x \in resting : x.cloid = o
    BY <2>2, <2>6, <2>7
  <2> QED
    BY <1>9, <2>1, <2>8, <2>9
<1>10. CASE r.kind = "modify" /\ out = [taken EXCEPT !.resting = (@ \ named) \cup plain]
  <2>1. out.resting = (resting \ named) \cup plain /\ out.answer = "ok" /\ out.spared = spared
    BY <1>10
  <2>2. ASSUME NEW x \in resting
        PROVE  /\ IsOrder([x EXCEPT !.reduceOnly = FALSE])
               /\ [x EXCEPT !.reduceOnly = FALSE].cloid = x.cloid
    <3>1. IsOrder(x)
      BY <1>4
    <3>2. x = [cloid |-> x.cloid, coin |-> x.coin, reduceOnly |-> x.reduceOnly]
      BY <3>1 DEF IsOrder
    <3> DEFINE y == [x EXCEPT !.reduceOnly = FALSE]
    <3>3. y = [cloid |-> x.cloid, coin |-> x.coin, reduceOnly |-> FALSE]
      BY <3>2, FieldReplaced
    <3>4. y.cloid = x.cloid /\ y.coin = x.coin /\ y.reduceOnly = FALSE
      BY <3>3, Zenon
    <3>5. y = [cloid |-> y.cloid, coin |-> y.coin, reduceOnly |-> y.reduceOnly]
      BY <3>3, <3>4, Zenon
    <3> HIDE DEF y
    <3>6. IsOrder(y)
      BY <3>1, <3>4, <3>5 DEF IsOrder
    <3> QED
      BY <3>4, <3>6 DEF y
  <2>3. \A y \in out.resting : y \in resting \/ \E x \in resting : y = [x EXCEPT !.reduceOnly = FALSE]
    BY <2>1
  <2>4. \A y \in out.resting : \E x \in resting : IsOrder(y) /\ y.cloid = x.cloid
    BY <1>4, <2>2, <2>3, ZenonT(30)
  <2>5. \A y \in out.resting : IsOrder(y) /\ WentOut(y.cloid) /\ Past(y.cloid)'
    BY <1>4, <2>4
  <2>6. \A o : (\E y \in out.resting : y.cloid = o) => \E x \in resting : x.cloid = o
    BY <2>4
  <2> QED
    BY <1>10, <2>1, <2>5, <2>6
<1>11. CASE r.kind = "cancel" /\ \E off \in SUBSET hit : out = without(off)
  <2>1. PICK off \in SUBSET hit : out = without(off)
    BY <1>11
  <2>2. /\ out.resting = resting \ off /\ out.answer = "ok"
        /\ out.spared = spared \cup {o.cloid : o \in hit \ off}
    BY <2>1
  <2>3. \A x \in out.resting : x \in resting /\ (x \in hit => x.cloid \in out.spared)
    BY <2>2
  <2> QED
    BY <1>4, <1>11, <2>2, <2>3
<1> QED
  BY <1>6, <1>7, <1>8, <1>9, <1>10, <1>11

LEMMA VenueHandlesOrder ==
  ASSUME OrderInv, CallInv, NonceInv, VenueHandles
  PROVE  OrderInv'
<1>0. PICK r \in wire : \E out \in Outcomes(r) :
        LET waits == {c \in Callers : at[c] = "exchange" /\ post[c] = "asked" /\ got[c].nonce = r.nonce}
        IN /\ wire' = wire \ {r}
           /\ resting' = out.resting
           /\ spared' = out.spared
           /\ post' = [c \in Callers |-> IF c \in waits THEN "answered" ELSE post[c]]
           /\ reply' = [c \in Callers |-> IF c \in waits THEN out.answer ELSE reply[c]]
  BY DEF VenueHandles
<1>1. PICK out \in Outcomes(r) :
        LET waits == {c \in Callers : at[c] = "exchange" /\ post[c] = "asked" /\ got[c].nonce = r.nonce}
        IN /\ wire' = wire \ {r}
           /\ resting' = out.resting
           /\ spared' = out.spared
           /\ post' = [c \in Callers |-> IF c \in waits THEN "answered" ELSE post[c]]
           /\ reply' = [c \in Callers |-> IF c \in waits THEN out.answer ELSE reply[c]]
  BY <1>0
<1>2. UNCHANGED <<universe, cache, asked, at, job, got, settled, gone, refused, denied, lastNonce>>
  BY DEF VenueHandles, nonceVars, orderVars
<1>3. /\ out.answer \in {"ok", "failed"}
      /\ \A x \in resting' : IsOrder(x) /\ WentOut(x.cloid) /\ Past(x.cloid)'
      /\ \A o : Past(o) /\ Held(o)' => Held(o)
      /\ out.answer = "ok" /\ r.kind = "cancel" =>
           \A x \in resting' : x \in resting /\
             ((\E t \in r.targets : x.cloid = t.cloid /\ x.coin = universe[t.index])
                => x.cloid \in spared')
  <2>1. /\ spared \subseteq spared'
        /\ \A o : Past(o) /\ (\E x \in resting' : x.cloid = o) => \E x \in resting : x.cloid = o
        /\ \A x \in resting' : IsOrder(x)
    BY <1>1, <1>2, HandledOrders
  <2>2. \A o : Past(o) /\ Held(o)' => Held(o)
    BY <2>1 DEF Held, OrderInv, VenueInv, IsOrder
  <2> QED
    BY <1>1, <1>2, <2>2, HandledOrders
<1>4. Kept /\ VenueInv'
  BY <1>1, <1>2, <1>3, FewerUnderWay
<1>5. OrderShape'
  BY <1>1, <1>2 DEF OrderInv, OrderShape
<1>6. ASSUME NEW d \in Callers
      PROVE  (post'[d] = post[d] /\ reply'[d] = reply[d]) \/ Answered(d)
  <2>1. CASE at[d] = "exchange" /\ post[d] = "asked" /\ got[d].nonce = r.nonce
    <3>1. post'[d] = "answered" /\ reply'[d] = out.answer
      BY <1>1, <2>1
    <3>2. ASSUME out.answer = "ok", NEW o \in settled[d], Held(o)'
          PROVE  FALSE
      <4>1. /\ job[d].op \in {"cancel", "cancelAll"} /\ Past(o)
            /\ Held(o) => \E t \in got[d].targets : t.cloid = o /\ Points(t.index, o)
        BY <2>1 DEF OrderInv, SettledFits
      <4>2. r.kind = "cancel" /\ r.targets = got[d].targets
        BY <2>1, <4>1 DEF OrderInv, NonceFits
      <4>3. PICK x \in resting' : x.cloid = o /\ o \notin spared'
        BY <3>2 DEF Held
      <4>4. /\ x \in resting
            /\ ~(\E t \in r.targets : x.cloid = t.cloid /\ x.coin = universe[t.index])
        BY <1>3, <3>2, <4>2, <4>3
      <4>5. PICK t \in got[d].targets : t.cloid = o /\ Points(t.index, o)
        BY <1>3, <3>2, <4>1
      <4>6. x.coin = asked[o][1].coin
        BY <4>3, <4>4 DEF OrderInv, VenueInv, IsOrder
      <4> QED
        BY <4>2, <4>3, <4>4, <4>5, <4>6 DEF Points
    <3> QED
      BY <1>3, <2>1, <3>1, <3>2 DEF Answered
  <2>2. CASE ~(at[d] = "exchange" /\ post[d] = "asked" /\ got[d].nonce = r.nonce)
    BY <1>1, <2>2
  <2> QED
    BY <2>1, <2>2
<1> QED
  BY <1>1, <1>2, <1>4, <1>5, <1>6, VenueGathered

LEMMA ActionLostOrder ==
  ASSUME OrderInv, CallInv, NonceInv, ActionLost \/ OrderFills
  PROVE  OrderInv'
<1>1. /\ UNCHANGED <<universe, cache, asked, at, job, post, reply, got, settled, gone, refused,
                     denied, lastNonce>>
      /\ wire' \subseteq wire /\ resting' \subseteq resting /\ UNCHANGED spared
  BY DEF ActionLost, OrderFills, nonceVars, callVars, orderVars
<1>2. \A o : (~Placing(o))' <=> ~Placing(o)
  BY <1>1 DEF Placing
<1>3. \A x \in resting' : IsOrder(x) /\ WentOut(x.cloid) /\ Past(x.cloid)'
  BY <1>1, <1>2 DEF OrderInv, VenueInv, Past
<1>4. \A o : Held(o)' => Held(o)
  BY <1>1 DEF Held
<1>5. Kept /\ VenueInv'
  BY <1>1, <1>3, <1>4, FewerUnderWay
<1>6. OrderShape'
  BY <1>1 DEF OrderInv, OrderShape
<1> QED
  BY <1>1, <1>5, <1>6, VenueGathered

\* What is listed is listed at the end, and nothing that was listed moves.
LEMMA ListsOrder ==
  ASSUME OrderInv, CallInv, NonceInv, Lists
  PROVE  OrderInv'
<1>1. UNCHANGED <<resting, spared, wire, cache, asked, at, job, post, reply, got, settled, gone, refused,
                  denied, lastNonce>>
  BY DEF Lists, nonceVars, callVars, orderVars
<1>2. PICK s \in Symbols : universe' = Append(universe, s)
  BY DEF Lists
<1>3. universe \in Seq(Symbols) /\ lastNonce \in Nat /\ VenueInv
  BY DEF OrderInv, VenueInv, NonceInv
<1>4. /\ universe' \in Seq(Symbols)
      /\ \A i \in DOMAIN universe : i \in DOMAIN universe' /\ universe'[i] = universe[i]
  BY <1>2, <1>3
<1>5. \A o : (~Placing(o))' <=> ~Placing(o)
  BY <1>1 DEF Placing
<1>6. \A o : WentOut(o) => WentOut(o)'
  BY <1>1, <1>5 DEF WentOut
<1>7. \A o : Past(o) => Past(o)'
  BY <1>1, <1>5 DEF Past
<1>8. \A o : Held(o)' => Held(o)
  BY <1>1 DEF Held
<1>9. Kept
  BY <1>1, <1>3, <1>4, <1>6, <1>7, <1>8 DEF Kept
<1>10. \A x \in resting' : IsOrder(x)' /\ WentOut(x.cloid)' /\ Past(x.cloid)'
  <2>1. \A x \in resting : IsOrder(x) /\ WentOut(x.cloid) /\ Past(x.cloid)
    BY <1>3 DEF VenueInv
  <2> QED
    BY <1>1, <1>6, <1>7, <1>9, <2>1, OrderStays
<1>11. ASSUME NEW q \in wire'
       PROVE  WireFits(q)'
  <2>1. WireFits(q)
    BY <1>1, <1>3 DEF VenueInv
  <2>2. q.kind = "order" => Points(q.index, q.cloid)'
    <3>1. q.kind = "order" => q.cloid \in Cloids /\ asked[q.cloid] # <<>> /\ Points(q.index, q.cloid)
      BY <2>1 DEF WireFits, WentOut
    <3> QED
      BY <1>9, <3>1, OrderStays
  <2>3. q.kind \in {"order", "modify"} => WentOut(q.cloid)'
    BY <1>6, <2>1 DEF WireFits
  <2> QED
    BY <1>1, <2>1, <2>2, <2>3 DEF WireFits
<1>12. cache' # <<>> => Begins(cache[1].names)'
  BY <1>1, <1>3, <1>4 DEF VenueInv, Begins
<1>13. VenueInv'
  BY <1>1, <1>3, <1>4, <1>10, <1>11, <1>12 DEF VenueInv
<1>14. OrderShape'
  BY <1>1 DEF OrderInv, OrderShape
<1> QED
  BY <1>1, <1>9, <1>13, <1>14, VenueGathered

LEMMA OrderStep ==
  ASSUME OrderInv, CallInv, NonceInv, [Next]_vars
  PROVE  OrderInv'
<1>1. CASE Tick \/ ReadBudget \/ UNCHANGED vars
  <2>1. UNCHANGED orderState
    BY <1>1 DEF Tick, ReadBudget, vars, nonceVars, callVars, venueVars, orderVars, orderState
  <2> QED
    BY <2>1, OrderUntouched
<1> QED
  BY <1>1, StartOrder, InfoOrder, SubmitOrder, VenueHandlesOrder, ActionLostOrder, ListsOrder
     DEF Next

LEMMA OrderInvariant == Spec => []OrderInv
BY CallInit, CallStep, NonceInit, NonceStep, OrderInit, OrderStep, PTL DEF Spec

\* What is sent is what was signed, field for field, for every kind of order there is,
\* though place_order writes it twice.
THEOREM SignedIsWhatIsSent == Spec => []SignedIsSent
<1>1. OrderInv => SignedIsSent
  BY DEF OrderInv, VenueInv, WireFits, SignedIsSent
<1> QED
  BY <1>1, OrderInvariant, PTL

\* A call that ends with "rate_limited" has sent nothing, and nobody sends its order after.
THEOREM RefusedIsNeverSent == Spec => []RefusedNeverSent
<1>1. OrderInv => RefusedNeverSent
  <2> SUFFICES ASSUME OrderInv
               PROVE  RefusedNeverSent
    OBVIOUS
  <2>1. \A x \in resting : x.cloid \notin refused
    BY DEF OrderInv, VenueInv, WentOut
  <2>2. \A r \in wire : r.kind \in {"order", "modify"} => r.cloid \notin refused
    BY DEF OrderInv, VenueInv, WireFits, WentOut
  <2>3. \A r \in wire : r.kind = "cancel" => r.cloid \notin refused
    BY RestAssumption DEF OrderInv, VenueInv, WireFits, ToldInv
  <2> QED
    BY <2>1, <2>2, <2>3 DEF RefusedNeverSent, OrderInv, VenueInv, WireFits
<1> QED
  BY <1>1, OrderInvariant, PTL

\* However old the cache is and whatever was listed since: an order rests on the market
\* it was placed for.
THEOREM RightMarketAlways == Spec => []RightMarket
<1>1. OrderInv => RightMarket
  BY DEF OrderInv, VenueInv, IsOrder, RightMarket
<1> QED
  BY <1>1, OrderInvariant, PTL

\* An asset that was listed when the order was placed is found.
THEOREM ListedIsAlwaysFound == Spec => []ListedIsFound
<1>1. OrderInv => ListedIsFound
  BY DEF OrderInv, ToldInv, ListedIsFound
<1> QED
  BY <1>1, OrderInvariant, PTL

\* What a cancel that returned Ok was for rests only if the exchange answered for it with an
\* error of its own or if the perp universe does not have its asset: an answer about another
\* action is never taken for its own, and nothing that was on its way comes to rest later.
THEOREM CancelledUnlessAlwaysSpared == Spec => []CancelledUnlessSpared
<1>1. OrderInv => CancelledUnlessSpared
  <2> SUFFICES ASSUME OrderInv, NEW x \in resting, x.cloid \in gone, x.cloid \notin spared
               PROVE  ~Listed(x.coin)
    BY DEF CancelledUnlessSpared
  <2>1. x.coin = Spot
    BY DEF OrderInv, ToldInv, Held
  <2>2. universe \in Seq(Symbols) /\ Spot \notin Symbols
    BY RestAssumption DEF OrderInv, VenueInv
  <2> QED
    BY <2>1, <2>2, InSet DEF Listed
<1> QED
  BY <1>1, OrderInvariant, PTL

-----------------------------------------------------------------------------
(* The two ways to read the contexts of the assets. *)

\* The contexts come in pairs with the names, place by place.
LEMMA Pairs ==
  ASSUME NEW ans, IsContexts(ans)
  PROVE  \E n \in Nat :
           /\ DOMAIN Zipped(ans) = 1 .. n
           /\ 1 .. n = DOMAIN ans.names \cap DOMAIN ans.ctxs
           /\ \A k \in 1 .. n : Zipped(ans)[k] = <<ans.names[k], ans.ctxs[k]>>
<1> DEFINE x == Len(ans.names)
           y == Len(ans.ctxs)
           n == Min({x, y})
<1>1. /\ x \in Nat /\ DOMAIN ans.names = 1 .. x
      /\ y \in Nat /\ DOMAIN ans.ctxs = 1 .. y
  <2>1. ans.names \in Seq(ToSet(ans.names)) /\ ans.ctxs \in Seq(ToSet(ans.ctxs))
    BY DEF IsContexts
  <2> QED
    BY <2>1
<1>2. n \in {x, y} /\ n <= x /\ n <= y
  <2> HIDE DEF x, y
  <2>1. {x, y} \in SUBSET Nat /\ {x, y} # {}
    BY <1>1
  <2> QED
    BY <2>1, LeastOf
<1>3. Zipped(ans) = [k \in 1 .. n |-> <<ans.names[k], ans.ctxs[k]>>]
  BY DEF Zipped
<1> HIDE DEF x, y, n
<1>4. n \in Nat /\ 1 .. n = (1 .. x) \cap (1 .. y)
  BY <1>1, <1>2
<1> QED
  BY <1>1, <1>3, <1>4

\* The list of all contexts is what each place parses to.
LEMMA AllContexts ==
  ASSUME NEW ans, IsContexts(ans), NEW v
  PROVE  (\E k \in DOMAIN GetAllAssetContexts(ans) : GetAllAssetContexts(ans)[k] = v)
           <=> \E i \in DOMAIN ans.names \cap DOMAIN ans.ctxs :
                 ParsedContext(ans.names[i], ans.ctxs[i]) = <<v>>
<1>1. PICK n \in Nat :
        /\ DOMAIN Zipped(ans) = 1 .. n
        /\ 1 .. n = DOMAIN ans.names \cap DOMAIN ans.ctxs
        /\ \A k \in 1 .. n : Zipped(ans)[k] = <<ans.names[k], ans.ctxs[k]>>
  BY Pairs
<1>2. PICK parsed : parsed = [k \in 1 .. n |-> ParsedContext(ans.names[k], ans.ctxs[k])]
  OBVIOUS
<1>3. GetAllAssetContexts(ans) = FlattenSeq(parsed)
  <2>1. \A k \in 1 .. n : /\ Zipped(ans)[k][1] = ans.names[k]
                          /\ Zipped(ans)[k][2] = ans.ctxs[k]
    BY <1>1
  <2>2. [k \in DOMAIN Zipped(ans) |-> ParsedContext(Zipped(ans)[k][1], Zipped(ans)[k][2])]
          = parsed
    BY <1>1, <1>2, <2>1
  <2> QED
    BY <2>2 DEF GetAllAssetContexts
<1>4. PICK S : S = {AssetContext(ans.names[k], ans.ctxs[k]) : k \in 1 .. n}
  OBVIOUS
<1>5. ASSUME NEW k \in 1 .. n
      PROVE  /\ parsed[k] \in Seq(S)
             /\ Has(parsed[k], v) <=> parsed[k] = <<v>>
  <2>1. parsed[k] = <<>> \/ parsed[k] = <<AssetContext(ans.names[k], ans.ctxs[k])>>
    BY <1>2 DEF ParsedContext, Ok, Err
  <2>2. AssetContext(ans.names[k], ans.ctxs[k]) \in S
    BY <1>4
  <2>3. CASE parsed[k] = <<>>
    BY <2>3, EmptySeq DEF Has
  <2>4. ASSUME NEW a \in S, parsed[k] = <<a>>
        PROVE  /\ parsed[k] \in Seq(S)
               /\ Has(parsed[k], v) <=> parsed[k] = <<v>>
    <3>1. Len(<<a>>) = 1 /\ <<a>>[1] = a /\ <<a>> \in Seq(S) /\ (<<a>> = <<v>> <=> a = v)
      OBVIOUS
    <3> QED
      BY <2>4, <3>1 DEF Has
  <2> QED
    BY <2>1, <2>2, <2>3, <2>4
<1>6. parsed \in Seq(Seq(S)) /\ Len(parsed) = n
  BY <1>2, <1>5
<1>7. FlattenSeq(parsed) \in Seq(S)
  BY <1>6, FlattenType
<1>8. DOMAIN FlattenSeq(parsed) = 1 .. Len(FlattenSeq(parsed))
  BY <1>7
<1>9. (\E k \in DOMAIN FlattenSeq(parsed) : FlattenSeq(parsed)[k] = v)
        <=> \E k \in 1 .. n : parsed[k] = <<v>>
  <2>1. Has(FlattenSeq(parsed), v) <=> \E k \in 1 .. Len(parsed) : Has(parsed[k], v)
    BY <1>6, FlattenHas
  <2>2. Has(FlattenSeq(parsed), v)
          <=> \E k \in DOMAIN FlattenSeq(parsed) : FlattenSeq(parsed)[k] = v
    BY <1>8 DEF Has
  <2> QED
    BY <1>5, <1>6, <2>1, <2>2
<1> QED
  BY <1>1, <1>2, <1>3, <1>9

\* The context of the asset at a place is the one of that place.
LEMMA OwnContext ==
  ASSUME NEW ans, IsContexts(ans), NEW i \in DOMAIN ans.names
  PROVE  /\ Place(ans.names, ans.names[i]) = {i}
         /\ ContextOf(ans, ans.names[i]) =
              IF i \in DOMAIN ans.ctxs THEN <<ans.ctxs[i]>> ELSE <<>>
<1>1. Place(ans.names, ans.names[i]) = {i}
  BY DEF Place, IsContexts
<1>2. i \in Nat
  <2>1. ans.names \in Seq(ToSet(ans.names))
    BY DEF IsContexts
  <2> QED
    BY <2>1
<1>3. Min({i}) = i
  <2>1. {i} \in SUBSET Nat /\ {i} # {}
    BY <1>2
  <2>2. Min({i}) \in {i}
    BY <2>1, LeastOf
  <2> QED
    BY <2>2
<1>4. CASE i \in DOMAIN ans.ctxs
  <2>1. {i} \cap DOMAIN ans.ctxs = {i}
    BY <1>4
  <2> QED
    BY <1>1, <1>3, <1>4, <2>1 DEF ContextOf
<1>5. CASE i \notin DOMAIN ans.ctxs
  <2>1. {i} \cap DOMAIN ans.ctxs = {}
    BY <1>5
  <2> QED
    BY <1>1, <1>5, <2>1 DEF ContextOf
<1> QED
  BY <1>1, <1>4, <1>5

\* One asset's context, its open interest and the list of all agree on every answer.
LEMMA ContextsAgree ==
  ASSUME NEW ans, IsContexts(ans)
  PROVE  ViewsAgreeOn(ans)
<1>1. PICK all : all = GetAllAssetContexts(ans)
  OBVIOUS
<1>2. ASSUME NEW k \in DOMAIN all
      PROVE  /\ GetAssetContext(ans, all[k].symbol) = Ok(all[k])
             /\ GetOpenInterest(ans, all[k].symbol) = Ok(all[k].oi)
             /\ GetSzDecimals(ans, all[k].symbol) # Err
  <2>1. PICK i \in DOMAIN ans.names \cap DOMAIN ans.ctxs :
          ParsedContext(ans.names[i], ans.ctxs[i]) = <<all[k]>>
    BY <1>1, <1>2, AllContexts
  <2>2. /\ Complete(ans.ctxs[i])
        /\ all[k] = AssetContext(ans.names[i], ans.ctxs[i])
    <3>1. <<>> # <<all[k]>> /\ \A a : <<a>> = <<all[k]>> => a = all[k]
      OBVIOUS
    <3> QED
      BY <2>1, <3>1 DEF ParsedContext, Ok, Err
  <2>3. all[k].symbol = ans.names[i] /\ all[k].oi = Value(ans.ctxs[i].oi)
    BY <2>2 DEF AssetContext
  <2>4. /\ ContextOf(ans, ans.names[i]) = <<ans.ctxs[i]>>
        /\ Place(ans.names, ans.names[i]) = {i}
    BY <2>1, OwnContext
  <2>5. GetAssetContext(ans, all[k].symbol) = Ok(all[k])
    <3>1. <<ans.ctxs[i]>> # Err /\ <<ans.ctxs[i]>>[1] = ans.ctxs[i]
      BY DEF Err
    <3> QED
      BY <2>1, <2>3, <2>4, <3>1 DEF GetAssetContext, Ok, Err
  <2>6. GetOpenInterest(ans, all[k].symbol) = Ok(all[k].oi)
    <3>1. <<ans.ctxs[i]>> # <<>> /\ <<ans.ctxs[i]>>[1] = ans.ctxs[i]
      OBVIOUS
    <3>2. Known(ans.ctxs[i].oi)
      BY <2>2 DEF Complete
    <3> QED
      BY <2>3, <2>4, <3>1, <3>2 DEF GetOpenInterest
  <2>7. GetSzDecimals(ans, all[k].symbol) # Err
    BY <2>3, <2>4 DEF GetSzDecimals, Ok, Err
  <2> QED
    BY <2>5, <2>6, <2>7
<1>3. ASSUME NEW s \in ToSet(ans.names), GetAssetContext(ans, s) # Err
      PROVE  \E k \in DOMAIN all : all[k].symbol = s
  <2>1. PICK i \in DOMAIN ans.names : s = ans.names[i]
    BY DEF ToSet
  <2>2. i \in DOMAIN ans.ctxs /\ ContextOf(ans, s) = <<ans.ctxs[i]>>
    BY <1>3, <2>1, OwnContext DEF GetAssetContext, Err
  <2>3. ParsedContext(s, ans.ctxs[i]) # Err
    <3>1. <<ans.ctxs[i]>> # Err /\ <<ans.ctxs[i]>>[1] = ans.ctxs[i]
      BY DEF Err
    <3> QED
      BY <1>3, <2>2, <3>1 DEF GetAssetContext
  <2>4. ParsedContext(s, ans.ctxs[i]) = <<AssetContext(s, ans.ctxs[i])>>
    BY <2>3 DEF ParsedContext, Ok
  <2>5. PICK k \in DOMAIN all : all[k] = AssetContext(s, ans.ctxs[i])
    BY <1>1, <2>1, <2>2, <2>4, AllContexts
  <2> QED
    BY <2>5 DEF AssetContext
<1> QED
  BY <1>1, <1>2, <1>3 DEF ViewsAgreeOn

\* Whatever the exchange answers: one asset's context and its open interest are what the
\* list of all contexts has for it, and the universe is delisted where the listing events
\* say so.
THEOREM ViewsAlwaysAgree == Spec => []ViewsAgree
<1>1. \A what \in {"openInterest", "assetContext", "allContexts"} \cap Reads :
        \A r \in ReadReplies[what] : ViewsAgreeOn(r)
  BY ContextsAgree, RestAssumption
<1>2. ASSUME NEW names, NEW delisted
      PROVE  LET events == GetListingEvents(names, delisted)
                 status == GetCurrentUniverse(names, delisted)
             IN [k \in DOMAIN events |-> <<events[k].ticker, events[k].event = "delist">>]
                  = [k \in DOMAIN status |-> <<status[k].ticker, status[k].delisted>>]
  <2> DEFINE events == GetListingEvents(names, delisted)
             status == GetCurrentUniverse(names, delisted)
  <2>1. DOMAIN events = DOMAIN names /\ DOMAIN status = DOMAIN names
    BY DEF GetListingEvents, GetCurrentUniverse
  <2>2. ASSUME NEW k \in DOMAIN names
        PROVE  <<events[k].ticker, events[k].event = "delist">>
                 = <<status[k].ticker, status[k].delisted>>
    <3>1. /\ events[k].ticker = names[k] /\ status[k].ticker = names[k]
          /\ (events[k].event = "delist") = (names[k] \in delisted)
          /\ status[k].delisted = (names[k] \in delisted)
      BY DEF GetListingEvents, GetCurrentUniverse
    <3> QED
      BY <3>1
  <2> HIDE DEF events, status
  <2>3. [k \in DOMAIN events |-> <<events[k].ticker, events[k].event = "delist">>]
          = [k \in DOMAIN status |-> <<status[k].ticker, status[k].delisted>>]
    BY <2>1, <2>2
  <2> QED
    BY <2>3 DEF events, status
<1>3. ViewsAgree
  BY <1>1, <1>2 DEF ViewsAgree
<1> QED
  BY <1>3, PTL

=============================================================================
