-------------------------- MODULE WsManagerProofs --------------------------
(***************************************************************************)
(* Theorems about the subscription manager, for every set of streams and   *)
(* subscriptions and every capacity.  What a command in the queue says of  *)
(* the stream that sent it (QueueInStep) is what makes the reference count *)
(* exact across the queue; what a mode says of the socket (LinkInStep) is  *)
(* what keeps the server in step across a reconnect.                       *)
(*                                                                         *)
(* Then about the sync loops on top of it: their steps are steps of the    *)
(* manager's module, so that what is proved of the manager holds under     *)
(* them, and a loop never takes anything but a request for a shutdown for  *)
(* one (Unasked).                                                          *)
(***************************************************************************)
EXTENDS ManagedSync, SequenceTheorems, FiniteSetTheorems, TLAPS

FromStream(c) == c.op # "shutdown" /\ c.from # NoStream

\* A command agrees with the stage of the stream it came from, and one that came
\* from nobody, or that is a shutdown, has left its mark.
InStep(c, stage, marked) ==
  /\ c.op = "shutdown" => marked = Subs
  /\ c.op # "shutdown" /\ c.from = NoStream => c.op = "release" /\ c.sub \in marked
  /\ FromStream(c) =>
       /\ c.sub = SubOf[c.from]
       /\ c.op = "acquire" => stage[c.from] \in {"acquiring", "abandoned"}
       /\ c.op = "release" => stage[c.from] = "releasing"

\* A stream has at most one command in the queue.
OneEach(queue) ==
  \A k, l \in DOMAIN queue :
    FromStream(queue[k]) /\ FromStream(queue[l]) /\ queue[k].from = queue[l].from => k = l

QueueInStep(queue, stage, marked) ==
  /\ \A k \in DOMAIN queue : InStep(queue[k], stage, marked)
  /\ OneEach(queue)

\* Where the manager is tells what the socket is and what the server may hold.
LinkInStep ==
  /\ mode \in {"replaying", "running"} => ~closed /\ link \in {"up", "dead"}
  /\ mode \notin {"replaying", "running"} =>
       link \in {"none", "closing"} /\ \A s \in Subs : told[s] = "none"
  /\ mode = "replaying" /\ link = "up" =>
       \A s \in Subs : told[s] # "twice" /\ (told[s] # "none" => ref[s] > 0)

Counted  == QueueInStep(cmds, st, meddled) /\ RefCountExact /\ HeldStreamsStayOpen
CountInv == TypeOK /\ Counted

LinkInv == TypeOK /\ LinkInStep /\ ServerInStep

-----------------------------------------------------------------------------
(* Types. *)

\* Late frames are frames, so a wire stays a wire when an unsubscribe goes out.
LEMMA LateWire ==
  ASSUME NEW w \in Seq(Frame), NEW s \in Subs
  PROVE  [k \in DOMAIN w |-> Late(w[k], s)] \in Seq(Frame)
<1>1. \A f \in Frame : Late(f, s) \in Frame
  BY DEF Late, Frame, Event
<1>2. Len(w) \in Nat /\ DOMAIN w = 1 .. Len(w) /\ \A k \in DOMAIN w : w[k] \in Frame
  OBVIOUS
<1>3. [k \in 1 .. Len(w) |-> Late(w[k], s)] \in [1 .. Len(w) -> Frame]
  BY <1>1, <1>2
<1> QED
  BY <1>2, <1>3, SeqDef

\* A broadcast leaves every inbox a sequence of items.
LEMMA BroadcastType ==
  ASSUME TypeOK, NEW receivers, NEW item \in Item, Broadcast(receivers, item)
  PROVE  /\ inbox' \in [Streams -> Seq(Item)]
         /\ lost' \in [Streams -> BOOLEAN]
         /\ afterData' \in [Streams -> BOOLEAN]
<1>1. \A i \in Streams : Full(i) => inbox[i] # <<>>
  BY WsAssumption DEF Full, TypeOK
<1>2. \A i \in Streams :
        Append(IF Full(i) THEN Tail(inbox[i]) ELSE inbox[i], item) \in Seq(Item)
  BY <1>1 DEF TypeOK
<1>3. inbox' \in [Streams -> Seq(Item)]
  BY <1>2 DEF Broadcast, TypeOK
<1>4. lost' \in [Streams -> BOOLEAN] /\ afterData' \in [Streams -> BOOLEAN]
  BY Zenon DEF Broadcast, TypeOK
<1> QED
  BY <1>3, <1>4

LEMMA SubscribeType ==
  ASSUME TypeOK, NEW s \in Subs, SubscribeOnWire(s)
  PROVE  told' \in [Subs -> Told] /\ wire' \in Seq(Frame)
<1>1. CASE link = "up"
  <2>1. PICK answer \in Answers(s) :
          /\ told' = [told EXCEPT ![s] = answer]
          /\ wire' = wire \o Rejections(s, answer)
    BY <1>1 DEF SubscribeOnWire
  <2>2. answer \in Told
    BY <2>1 DEF Answers, Told
  <2>3. Rejections(s, answer) \in Seq(Frame)
    <3>1. [sub |-> s, kind |-> "reject"] \in Frame
      BY DEF Frame
    <3> HIDE DEF Frame
    <3>2. <<[sub |-> s, kind |-> "reject"]>> \in Seq(Frame)
      BY <3>1
    <3> QED
      BY <3>2, EmptySeq DEF Rejections
  <2> QED
    BY <2>1, <2>2, <2>3 DEF TypeOK
<1>2. CASE link # "up"
  BY <1>2 DEF SubscribeOnWire, TypeOK
<1> QED
  BY <1>1, <1>2

LEMMA UnsubscribeType ==
  ASSUME TypeOK, NEW s \in Subs, UnsubscribeOnWire(s)
  PROVE  told' \in [Subs -> Told] /\ wire' \in Seq(Frame)
<1>1. CASE link = "up"
  <2>1. wire \in Seq(Frame)
    BY DEF TypeOK
  <2>2. wire' \in Seq(Frame)
    BY <1>1, <2>1, LateWire, Zenon DEF UnsubscribeOnWire
  <2>3. told' \in [Subs -> Told]
    BY <1>1 DEF UnsubscribeOnWire, TypeOK, Told
  <2> QED
    BY <2>2, <2>3
<1>2. CASE link # "up"
  BY <1>2 DEF UnsubscribeOnWire, TypeOK
<1> QED
  BY <1>1, <1>2

LEMMA InFlightSubs == TypeOK => InFlight \subseteq Subs
<1>1. TypeOK => \A k \in DOMAIN wire : wire[k] \in Frame
  BY DEF TypeOK
<1>2. \A f \in Frame : f.sub \in Subs
  BY DEF Frame
<1> QED
  BY <1>1, <1>2 DEF InFlight

LEMMA CloseSocketType ==
  ASSUME TypeOK, CloseSocket
  PROVE  /\ link' \in Links
         /\ wire' \in Seq(Frame)
         /\ missed' \in SUBSET Subs
         /\ told' \in [Subs -> Told]
<1>1. InFlight \subseteq Subs
  BY InFlightSubs
<1> QED
  BY <1>1 DEF CloseSocket, TypeOK, Links, Told

\* The head of a queue that is not empty, and what is left.
LEMMA QueueHead ==
  ASSUME TypeOK, cmds # <<>>
  PROVE  /\ Head(cmds) \in Command
         /\ Tail(cmds) \in Seq(Command)
         /\ Head(cmds).op # "shutdown" =>
              /\ Head(cmds).sub \in Subs
              /\ Head(cmds).from \in Streams \cup {NoStream}
<1>1. Head(cmds) \in Command /\ Tail(cmds) \in Seq(Command)
  BY DEF TypeOK
<1>2. \A c \in Command : c.op # "shutdown" =>
        c.sub \in Subs /\ c.from \in Streams \cup {NoStream}
  BY DEF Command
<1> QED
  BY <1>1, <1>2

LEMMA CommandTypes ==
  /\ \A i \in Streams : Acquire(i) \in Command
  /\ \A i \in Streams \cup {NoStream} : \A s \in Subs : Release(s, i) \in Command
  /\ Shutdown \in Command
BY WsAssumption DEF Acquire, Release, Shutdown, Command

\* No step of the manager, of a consumer or of the network leaves the types.
LEMMA TypeStep ==
  ASSUME TypeOK, [Next]_vars
  PROVE  TypeOK'
<1>1. ASSUME NEW i \in Streams, Open(i)
      PROVE  TypeOK'
  BY <1>1, CommandTypes DEF TypeOK, Open, Stage, serverVars
<1>2. ASSUME NEW i \in Streams, Abandon(i)
      PROVE  TypeOK'
  BY <1>2 DEF TypeOK, Abandon, Stage, serverVars
<1>3. ASSUME NEW i \in Streams, Recv(i)
      PROVE  TypeOK'
  <2>1. inbox' \in [Streams -> Seq(Item)]
    <3>1. inbox[i] # <<>> => Tail(inbox[i]) \in Seq(Item)
      BY DEF TypeOK
    <3> QED
      BY <1>3, <3>1 DEF TypeOK, Recv
  <2>2. lost' \in [Streams -> BOOLEAN]
    BY <1>3, Zenon DEF TypeOK, Recv
  <2>3. afterData' \in [Streams -> BOOLEAN]
    <3>1. \A e \in BOOLEAN : [afterData EXCEPT ![i] = e] \in [Streams -> BOOLEAN]
      BY Zenon DEF TypeOK
    <3>2. FALSE \in BOOLEAN /\ (Head(inbox[i]) \in Event) \in BOOLEAN
      OBVIOUS
    <3> QED
      BY <1>3, <3>1, <3>2, Zenon DEF Recv
  <2> QED
    BY <1>3, <2>1, <2>2, <2>3 DEF TypeOK, Recv, serverVars
<1>4. ASSUME NEW i \in Streams, Leave(i)
      PROVE  TypeOK'
  <2>1. SubOf[i] \in Subs
    BY WsAssumption
  <2>2. cmds' \in Seq(Command)
    BY <1>4, <2>1, CommandTypes DEF TypeOK, Leave
  <2>3. inbox' \in [Streams -> Seq(Item)]
    BY <1>4 DEF TypeOK, Leave
  <2> QED
    BY <1>4, <2>2, <2>3 DEF TypeOK, Leave, Stage, serverVars
<1>5. ASSUME NEW s \in Subs, ForeignRelease(s)
      PROVE  TypeOK'
  <2>1. cmds' \in Seq(Command)
    <3>1. Release(s, NoStream) \in Command
      BY CommandTypes
    <3>2. cmds \in Seq(Command) /\ cmds' = Append(cmds, Release(s, NoStream))
      BY <1>5 DEF TypeOK, ForeignRelease
    <3> HIDE DEF Command, Release
    <3> QED
      BY <3>1, <3>2
  <2> QED
    BY <1>5, <2>1 DEF TypeOK, ForeignRelease, clientVars, serverVars
<1>6. CASE RequestShutdown
  BY <1>6, CommandTypes DEF TypeOK, RequestShutdown, clientVars, serverVars
<1>7. CASE DropHandle
  BY <1>7 DEF TypeOK, DropHandle, clientVars, serverVars
<1>8. CASE LinkDies
  <2>1. InFlight \subseteq Subs
    BY InFlightSubs
  <2>2. wire' \in Seq(Frame)
    BY <1>8, EmptySeq, Zenon DEF TypeOK, LinkDies
  <2>3. missed' \in SUBSET Subs
    BY <1>8, <2>1 DEF TypeOK, LinkDies
  <2> QED
    BY <1>8, <2>2, <2>3 DEF TypeOK, LinkDies, clientVars, Links
<1>9. ASSUME NEW s \in Subs, Publish(s)
      PROVE  TypeOK'
  <2>1. [sub |-> s, kind |-> IF s \in missed THEN "gap" ELSE "data"] \in Frame
    BY DEF Frame, Event
  <2>2. wire \in Seq(Frame)
    BY DEF TypeOK
  <2> HIDE DEF Frame
  <2>3. \A f \in Frame : Append(wire, f) \in Seq(Frame)
    BY <2>2
  <2>4. wire' \in Seq(Frame)
    BY <1>9, <2>1, <2>2, <2>3, Zenon DEF Publish
  <2> QED
    BY <1>9, <2>4 DEF TypeOK, Publish, clientVars
<1>10. CASE HandleAcquire
  <2> DEFINE s == Head(cmds).sub
             i == Head(cmds).from
  <2>1. s \in Subs
    BY <1>10, QueueHead DEF HandleAcquire, NextCommand
  <2>2. ref' \in [Subs -> Nat]
    BY <1>10, <2>1 DEF TypeOK, HandleAcquire
  <2>3. st' \in [Streams -> Stage]
    <3>1. \E x \in Stage : st' = [st EXCEPT ![i] = x]
      BY <1>10, Zenon DEF HandleAcquire, Stage
    <3> QED
      BY <3>1 DEF TypeOK
  <2>7. leaked' \in [Subs -> Nat]
    <3>1. leaked' = leaked \/ leaked' = [leaked EXCEPT ![s] = @ + 1]
      BY <1>10, Zenon DEF HandleAcquire
    <3>2. \A t \in Subs : [leaked EXCEPT ![t] = @ + 1] \in [Subs -> Nat]
      BY DEF TypeOK
    <3> HIDE DEF s
    <3> QED
      BY <2>1, <3>1, <3>2 DEF TypeOK
  <2>4. told' \in [Subs -> Told] /\ wire' \in Seq(Frame)
    BY <1>10, <2>1, SubscribeType DEF TypeOK, HandleAcquire
  <2>5. inbox' \in [Streams -> Seq(Item)]
    <3>1. <<"err">> \in Seq(Item)
      BY DEF Item
    <3> QED
      BY <1>10, <3>1 DEF TypeOK, HandleAcquire
  <2>6. cmds' \in Seq(Command) /\ mode' \in Modes
    BY <1>10, QueueHead DEF TypeOK, HandleAcquire, NextCommand, Modes
  <2> QED
    BY <1>10, <2>2, <2>3, <2>4, <2>5, <2>6, <2>7 DEF TypeOK, HandleAcquire
<1>11. CASE HandleRelease
  <2> DEFINE s == Head(cmds).sub
             i == Head(cmds).from
  <2>1. s \in Subs
    BY <1>11, QueueHead DEF HandleRelease, NextCommand
  <2>2. ref' \in [Subs -> Nat]
    BY <1>11, <2>1 DEF TypeOK, HandleRelease
  <2>3. st' \in [Streams -> Stage]
    BY <1>11 DEF TypeOK, HandleRelease, Stage
  <2>4. cmds' \in Seq(Command)
    BY <1>11, QueueHead DEF TypeOK, HandleRelease, NextCommand
  <2>5. /\ told' \in [Subs -> Told] /\ wire' \in Seq(Frame) /\ mode' \in Modes
        /\ link' \in Links /\ missed' \in SUBSET Subs
    BY <1>11, <2>1, CloseSocketType, UnsubscribeType DEF TypeOK, HandleRelease, Modes
  <2> QED
    BY <1>11, <2>2, <2>3, <2>4, <2>5 DEF TypeOK, HandleRelease
<1>12. CASE HandleShutdown
  <2>1. "shut" \in Item
    BY DEF Item
  <2>2. /\ inbox' \in [Streams -> Seq(Item)]
        /\ lost' \in [Streams -> BOOLEAN]
        /\ afterData' \in [Streams -> BOOLEAN]
    BY <1>12, <2>1, BroadcastType DEF HandleShutdown
  <2>3. /\ told' \in [Subs -> Told] /\ wire' \in Seq(Frame)
        /\ link' \in Links /\ missed' \in SUBSET Subs
    BY <1>12, CloseSocketType DEF TypeOK, HandleShutdown, serverVars
  <2>4. cmds' \in Seq(Command) /\ mode' \in Modes /\ st' \in [Streams -> Stage]
    BY <1>12, QueueHead DEF TypeOK, HandleShutdown, NextCommand, Modes, Stage
  <2>5. ref' \in [Subs -> Nat] /\ leaked' \in [Subs -> Nat]
    BY <1>12 DEF HandleShutdown
  <2> QED
    BY <1>12, <2>2, <2>3, <2>4, <2>5 DEF TypeOK, HandleShutdown
<1>13. CASE Connect
  BY <1>13 DEF TypeOK, Connect, clientVars, serverVars, Modes, Links
<1>14. ASSUME NEW s \in Subs, ReplayOne(s)
       PROVE  TypeOK'
  <2>1. told' \in [Subs -> Told] /\ wire' \in Seq(Frame)
    BY <1>14, SubscribeType DEF ReplayOne
  <2> QED
    BY <1>14, <2>1 DEF TypeOK, ReplayOne, clientVars
<1>15. CASE ReplayDone
  BY <1>15 DEF TypeOK, ReplayDone, clientVars, serverVars, Modes
<1>16. CASE ReplayFails
  BY <1>16, CloseSocketType DEF TypeOK, ReplayFails, clientVars, Modes
<1>17. CASE Dispatch
  <2>1. Head(wire) \in Frame /\ Tail(wire) \in Seq(Frame)
    BY <1>17 DEF TypeOK, Dispatch
  <2>2. \A f \in Frame : (IF f.kind = "reject" THEN "err" ELSE f.kind) \in Item
    BY DEF Frame, Item
  <2>3. /\ inbox' \in [Streams -> Seq(Item)]
        /\ lost' \in [Streams -> BOOLEAN]
        /\ afterData' \in [Streams -> BOOLEAN]
    BY <1>17, <2>1, <2>2, BroadcastType DEF Dispatch
  <2> QED
    BY <1>17, <2>1, <2>3 DEF TypeOK, Dispatch
<1>18. ASSUME GiveUp, closed' \in BOOLEAN
       PROVE  TypeOK'
  <2>1. "err" \in Item
    BY DEF Item
  <2>2. /\ inbox' \in [Streams -> Seq(Item)]
        /\ lost' \in [Streams -> BOOLEAN]
        /\ afterData' \in [Streams -> BOOLEAN]
    BY <1>18, <2>1, BroadcastType DEF GiveUp
  <2>3. /\ told' \in [Subs -> Told] /\ wire' \in Seq(Frame)
        /\ link' \in Links /\ missed' \in SUBSET Subs
    BY <1>18, CloseSocketType DEF GiveUp
  <2> QED
    BY <1>18, <2>2, <2>3 DEF TypeOK, GiveUp, Modes
<1>19. CASE Exit
  <2>1. /\ told' \in [Subs -> Told] /\ wire' \in Seq(Frame)
        /\ link' \in Links /\ missed' \in SUBSET Subs
    BY <1>19, CloseSocketType DEF TypeOK, Exit, serverVars
  <2> QED
    BY <1>19, <2>1 DEF TypeOK, Exit, clientVars, Modes
<1>20. CASE UNCHANGED vars
  BY <1>20 DEF TypeOK, vars, clientVars, serverVars
<1>21. RecvFails \/ HeartbeatFails \/ IdleTimeout \/ ParseFails => TypeOK'
  BY <1>18 DEF RecvFails, HeartbeatFails, IdleTimeout, ParseFails, TypeOK
<1>22. \A i \in Streams : Drop(i) \/ RecvClosed(i) => TypeOK'
  BY <1>4 DEF Drop, RecvClosed
<1> QED
  BY <1>1, <1>2, <1>3, <1>5, <1>6, <1>7, <1>8, <1>9, <1>10, <1>11, <1>12, <1>13, <1>14,
     <1>15, <1>16, <1>17, <1>19, <1>20, <1>21, <1>22
     DEF Next, Manager, Consumers, Outsiders, Network, HandleCommand

\* Every variable keeps its type (the state of run_manager, of the streams and of
\* the socket).
THEOREM TypeCorrect == Spec => []TypeOK
<1>1. Init => TypeOK
  <2>1. <<>> \in Seq(Command) /\ <<>> \in Seq(Item) /\ <<>> \in Seq(Frame)
    BY EmptySeq
  <2>2. Init => /\ mode \in Modes /\ link \in Links
                /\ ref \in [Subs -> Nat] /\ leaked \in [Subs -> Nat]
                /\ st \in [Streams -> Stage] /\ told \in [Subs -> Told]
    BY DEF Init, Modes, Links, Stage, Told
  <2>3. Init => /\ closed \in BOOLEAN /\ handle \in BOOLEAN
                /\ lost \in [Streams -> BOOLEAN] /\ afterData \in [Streams -> BOOLEAN]
                /\ missed \in SUBSET Subs /\ meddled \in SUBSET Subs
    BY Zenon DEF Init
  <2>4. Init => /\ cmds \in Seq(Command) /\ wire \in Seq(Frame)
                /\ inbox \in [Streams -> Seq(Item)]
    BY <2>1 DEF Init
  <2> QED
    BY <2>2, <2>3, <2>4, Zenon DEF TypeOK
<1>2. TypeOK /\ [Next]_vars => TypeOK'
  BY TypeStep
<1> QED
  BY <1>1, <1>2, PTL DEF Spec

-----------------------------------------------------------------------------
(* The queue and the streams. *)

\* A command may be queued when its sender has none in the queue.
LEMMA AppendInStep ==
  ASSUME NEW queue \in Seq(Command), NEW c \in Command, NEW stage, NEW marked,
         QueueInStep(queue, stage, marked), InStep(c, stage, marked),
         \A k \in DOMAIN queue :
           FromStream(c) /\ FromStream(queue[k]) => queue[k].from # c.from
  PROVE  QueueInStep(Append(queue, c), stage, marked)
<1> DEFINE longer == Append(queue, c)
<1>1. /\ Len(queue) \in Nat
      /\ DOMAIN queue = 1 .. Len(queue)
      /\ DOMAIN longer = 1 .. Len(queue) + 1
      /\ longer[Len(queue) + 1] = c
      /\ \A k \in 1 .. Len(queue) : longer[k] = queue[k]
  OBVIOUS
<1> HIDE DEF longer, Command
<1>2. \A k \in DOMAIN longer : InStep(longer[k], stage, marked)
  <2> SUFFICES ASSUME NEW k \in 1 .. Len(queue) + 1
               PROVE  InStep(longer[k], stage, marked)
    BY <1>1
  <2>1. k \in 1 .. Len(queue) \/ k = Len(queue) + 1
    BY <1>1
  <2> QED
    BY <1>1, <2>1, Zenon DEF QueueInStep
<1>3. OneEach(longer)
  <2> SUFFICES ASSUME NEW k \in 1 .. Len(queue) + 1, NEW l \in 1 .. Len(queue) + 1,
                      FromStream(longer[k]), FromStream(longer[l]),
                      longer[k].from = longer[l].from
               PROVE  k = l
    BY <1>1 DEF OneEach
  <2>1. /\ k \in 1 .. Len(queue) \/ k = Len(queue) + 1
        /\ l \in 1 .. Len(queue) \/ l = Len(queue) + 1
    BY <1>1
  <2> QED
    BY <1>1, <2>1, Zenon DEF QueueInStep, OneEach
<1> QED
  BY <1>2, <1>3, Zenon DEF QueueInStep, longer

\* The oldest command may be taken when those of other senders stay in step.
LEMMA TailInStep ==
  ASSUME NEW queue \in Seq(Command), queue # <<>>,
         NEW stage, NEW marked, NEW newStage, NEW newMarked,
         QueueInStep(queue, stage, marked),
         \A c \in Command :
           /\ InStep(c, stage, marked)
           /\ FromStream(c) /\ FromStream(Head(queue)) => c.from # Head(queue).from
           => InStep(c, newStage, newMarked)
  PROVE  QueueInStep(Tail(queue), newStage, newMarked)
<1> DEFINE rest == Tail(queue)
<1>1. /\ Len(queue) \in Nat
      /\ DOMAIN queue = 1 .. Len(queue)
      /\ DOMAIN rest = 1 .. Len(queue) - 1
      /\ 1 \in DOMAIN queue
      /\ Head(queue) = queue[1]
      /\ \A k \in 1 .. Len(queue) - 1 : k + 1 \in 1 .. Len(queue) /\ rest[k] = queue[k + 1]
      /\ \A k \in 1 .. Len(queue) : queue[k] \in Command
  OBVIOUS
<1> HIDE DEF rest, Command
<1>2. \A k \in DOMAIN rest : InStep(rest[k], newStage, newMarked)
  <2> SUFFICES ASSUME NEW k \in 1 .. Len(queue) - 1
               PROVE  InStep(rest[k], newStage, newMarked)
    BY <1>1
  <2>1. k + 1 # 1
    OBVIOUS
  <2>2. FromStream(rest[k]) /\ FromStream(Head(queue)) => rest[k].from # Head(queue).from
    BY <1>1, <2>1, Zenon DEF QueueInStep, OneEach
  <2> QED
    BY <1>1, <2>2, Zenon DEF QueueInStep
<1>3. OneEach(rest)
  <2> SUFFICES ASSUME NEW k \in 1 .. Len(queue) - 1, NEW l \in 1 .. Len(queue) - 1,
                      FromStream(rest[k]), FromStream(rest[l]), rest[k].from = rest[l].from
               PROVE  k = l
    BY <1>1 DEF OneEach
  <2>1. k + 1 = l + 1
    BY <1>1, Zenon DEF QueueInStep, OneEach
  <2> QED
    BY <2>1
<1> QED
  BY <1>2, <1>3, Zenon DEF QueueInStep, rest

\* A queue that does not change stays in step when each of its commands does.
LEMMA SameQueueInStep ==
  ASSUME NEW queue \in Seq(Command),
         NEW stage, NEW marked, NEW newStage, NEW newMarked,
         QueueInStep(queue, stage, marked),
         \A c \in Command : InStep(c, stage, marked) => InStep(c, newStage, newMarked)
  PROVE  QueueInStep(queue, newStage, newMarked)
<1>1. \A k \in DOMAIN queue : queue[k] \in Command
  OBVIOUS
<1> QED
  BY <1>1, Zenon DEF QueueInStep

\* A stream that is not waiting for the manager has no command in the queue.
LEMMA NotQueued ==
  ASSUME TypeOK, QueueInStep(cmds, st, meddled),
         NEW i \in Streams, st[i] \in {"idle", "live", "detached"}
  PROVE  \A k \in DOMAIN cmds : FromStream(cmds[k]) => cmds[k].from # i
<1> SUFFICES ASSUME NEW k \in DOMAIN cmds, FromStream(cmds[k]), cmds[k].from = i
             PROVE  FALSE
  OBVIOUS
<1>1. cmds[k] \in Command
  BY DEF TypeOK
<1>2. cmds[k].op \in {"acquire", "release"}
  BY <1>1 DEF Command, FromStream
<1> QED
  BY <1>2 DEF QueueInStep, InStep

-----------------------------------------------------------------------------
(* The reference count. *)

LEMMA HoldersFinite ==
  ASSUME NEW s
  PROVE  IsFiniteSet(Holders(s)) /\ Cardinality(Holders(s)) \in Nat
BY WsAssumption, FS_Subset, FS_CardinalityType DEF Holders

\* The steps that touch neither the queue nor the streams nor the count.
LEMMA Untouched ==
  ASSUME Counted, UNCHANGED <<cmds, st, ref, leaked, meddled>>
  PROVE  Counted'
BY DEF Counted, RefCountExact, HeldStreamsStayOpen, Holders

LEMMA OpenCounted ==
  ASSUME TypeOK, Counted, NEW i \in Streams, Open(i)
  PROVE  Counted'
<1>1. st[i] = "idle" /\ st' = [st EXCEPT ![i] = "acquiring"] /\ cmds' = Append(cmds, Acquire(i))
      /\ UNCHANGED <<ref, leaked, meddled>>
  BY DEF Open
<1>2. QueueInStep(cmds', st', meddled')
  <2>1. \A k \in DOMAIN cmds : FromStream(cmds[k]) => cmds[k].from # i
    BY <1>1, NotQueued DEF Counted
  <2>2. QueueInStep(cmds, st', meddled')
    BY <1>1, <2>1 DEF Counted, QueueInStep, InStep, FromStream
  <2>3. InStep(Acquire(i), st', meddled')
    BY <1>1, WsAssumption DEF InStep, FromStream, Acquire, TypeOK
  <2>4. Acquire(i) \in Command /\ Acquire(i).from = i
    BY CommandTypes DEF Acquire
  <2>5. cmds \in Seq(Command)
    BY DEF TypeOK
  <2> QED
    BY <1>1, <2>1, <2>2, <2>3, <2>4, <2>5, AppendInStep
<1>3. \A s \in Subs : Holders(s)' = Holders(s)
  BY <1>1 DEF Holders, TypeOK
<1>4. RefCountExact' /\ HeldStreamsStayOpen'
  BY <1>1, <1>3 DEF Counted, RefCountExact, HeldStreamsStayOpen, TypeOK
<1> QED
  BY <1>2, <1>4 DEF Counted

LEMMA AbandonCounted ==
  ASSUME TypeOK, Counted, NEW i \in Streams, Abandon(i)
  PROVE  Counted'
<1>1. st[i] = "acquiring" /\ st' = [st EXCEPT ![i] = "abandoned"]
      /\ UNCHANGED <<cmds, ref, leaked, meddled>>
  BY DEF Abandon
<1>2. QueueInStep(cmds', st', meddled')
  <2>1. \A c \in Command : InStep(c, st, meddled) => InStep(c, st', meddled')
    BY <1>1 DEF InStep, TypeOK
  <2> QED
    BY <1>1, <2>1, SameQueueInStep DEF Counted, TypeOK
<1>3. \A s \in Subs : Holders(s)' = Holders(s)
  BY <1>1 DEF Holders, TypeOK
<1>4. RefCountExact' /\ HeldStreamsStayOpen'
  BY <1>1, <1>3 DEF Counted, RefCountExact, HeldStreamsStayOpen, TypeOK
<1> QED
  BY <1>2, <1>4 DEF Counted

\* A stream that leaves still holds its reference until its Release is handled.
LEMMA LeaveCounted ==
  ASSUME TypeOK, Counted, NEW i \in Streams, st[i] \in {"live", "detached"}, Leave(i)
  PROVE  Counted'
<1>1. st' = [st EXCEPT ![i] = "releasing"] /\ cmds' = Append(cmds, Release(SubOf[i], i))
      /\ UNCHANGED <<ref, leaked, meddled>>
  BY DEF Leave
<1>2. QueueInStep(cmds', st', meddled')
  <2>1. \A k \in DOMAIN cmds : FromStream(cmds[k]) => cmds[k].from # i
    BY <1>1, NotQueued DEF Counted
  <2>2. QueueInStep(cmds, st', meddled')
    BY <1>1, <2>1 DEF Counted, QueueInStep, InStep, FromStream
  <2>3. InStep(Release(SubOf[i], i), st', meddled')
    BY <1>1, WsAssumption DEF InStep, FromStream, Release, TypeOK
  <2>4. Release(SubOf[i], i) \in Command /\ Release(SubOf[i], i).from = i
    BY CommandTypes, WsAssumption DEF Release
  <2>5. cmds \in Seq(Command)
    BY DEF TypeOK
  <2> QED
    BY <1>1, <2>1, <2>2, <2>3, <2>4, <2>5, AppendInStep
<1>3. \A s \in Subs \ meddled : Holders(s)' = Holders(s)
  BY <1>1 DEF Holders, TypeOK, Counted, HeldStreamsStayOpen
<1>4. RefCountExact' /\ HeldStreamsStayOpen'
  BY <1>1, <1>3 DEF Counted, RefCountExact, HeldStreamsStayOpen, TypeOK
<1> QED
  BY <1>2, <1>4 DEF Counted

\* A third party only ever disturbs the subscriptions it marks.
LEMMA OutsiderCounted ==
  ASSUME TypeOK, Counted, RequestShutdown \/ \E s \in Subs : ForeignRelease(s)
  PROVE  Counted'
<1>1. PICK c \in Command :
        /\ cmds' = Append(cmds, c)
        /\ ~FromStream(c)
        /\ InStep(c, st', meddled')
        /\ meddled \subseteq meddled'
        /\ UNCHANGED <<st, ref, leaked>>
  <2>1. CASE RequestShutdown
    <3>1. Shutdown \in Command /\ Shutdown.op = "shutdown"
      BY CommandTypes DEF Shutdown
    <3> QED
      BY <2>1, <3>1 DEF RequestShutdown, clientVars, FromStream, InStep, TypeOK
  <2>2. ASSUME NEW s \in Subs, ForeignRelease(s)
        PROVE  \E c \in Command :
                 /\ cmds' = Append(cmds, c)
                 /\ ~FromStream(c)
                 /\ InStep(c, st', meddled')
                 /\ meddled \subseteq meddled'
                 /\ UNCHANGED <<st, ref, leaked>>
    <3>1. /\ Release(s, NoStream) \in Command
          /\ Release(s, NoStream).op = "release"
          /\ Release(s, NoStream).from = NoStream
          /\ Release(s, NoStream).sub = s
      BY CommandTypes DEF Release
    <3> QED
      BY <2>2, <3>1 DEF ForeignRelease, clientVars, FromStream, InStep
  <2> QED
    BY <2>1, <2>2
<1>2. QueueInStep(cmds', st', meddled')
  <2>1. meddled' \subseteq Subs
    BY DEF TypeOK, RequestShutdown, ForeignRelease
  <2>2. \A d \in Command : InStep(d, st, meddled) => InStep(d, st', meddled')
    BY <1>1, <2>1 DEF InStep
  <2>3. cmds \in Seq(Command)
    BY DEF TypeOK
  <2>4. QueueInStep(cmds, st', meddled')
    BY <2>2, <2>3, SameQueueInStep DEF Counted
  <2> QED
    BY <1>1, <2>3, <2>4, AppendInStep
<1>3. RefCountExact' /\ HeldStreamsStayOpen'
  BY <1>1 DEF Counted, RefCountExact, HeldStreamsStayOpen, Holders
<1> QED
  BY <1>2, <1>3 DEF Counted

\* The reference a handled Acquire adds belongs to the stream that now listens, or
\* leaked with the stream that was gone.
LEMMA AcquireCounted ==
  ASSUME TypeOK, Counted, HandleAcquire
  PROVE  Counted'
<1> DEFINE c == Head(cmds)
           s == c.sub
           i == c.from
<1>1. /\ cmds # <<>> /\ c.op = "acquire" /\ c \in Command /\ cmds' = Tail(cmds)
      /\ InStep(c, st, meddled)
  <2>1. cmds # <<>> => c = cmds[1] /\ 1 \in DOMAIN cmds
    BY DEF TypeOK
  <2> QED
    BY <2>1, QueueHead DEF HandleAcquire, NextCommand, Counted, QueueInStep
<1>2. /\ s \in Subs /\ i \in Streams /\ i # NoStream /\ s = SubOf[i]
      /\ st[i] \in {"acquiring", "abandoned"}
      /\ FromStream(c)
  BY <1>1, QueueHead DEF InStep, FromStream
<1>3. /\ ref' = [ref EXCEPT ![s] = @ + 1]
      /\ IF st[i] = "acquiring"
         THEN st' = [st EXCEPT ![i] = "live"] /\ UNCHANGED leaked
         ELSE st' = [st EXCEPT ![i] = "idle"] /\ leaked' = [leaked EXCEPT ![s] = @ + 1]
      /\ UNCHANGED meddled
  BY DEF HandleAcquire
<1> HIDE DEF c, s, i
<1>4. QueueInStep(cmds', st', meddled')
  <2>1. \A d \in Command :
          InStep(d, st, meddled) /\ (FromStream(d) /\ FromStream(c) => d.from # i)
            => InStep(d, st', meddled')
    <3> SUFFICES ASSUME NEW d \in Command, InStep(d, st, meddled),
                        FromStream(d) /\ FromStream(c) => d.from # i
                 PROVE  InStep(d, st', meddled')
      OBVIOUS
    <3>1. FromStream(d) => d.from \in Streams /\ d.from # i
      BY <1>2 DEF FromStream, Command
    <3>2. FromStream(d) => st'[d.from] = st[d.from]
      BY <1>3, <3>1 DEF TypeOK
    <3> QED
      BY <1>3, <3>2 DEF InStep
  <2>2. cmds \in Seq(Command)
    BY DEF TypeOK
  <2> QED
    BY <1>1, <2>1, <2>2, TailInStep DEF Counted, c, i
<1>5. ASSUME NEW t \in Subs \ meddled
      PROVE  ref'[t] = Cardinality(Holders(t)') + leaked'[t]
  <2>1. ref[t] = Cardinality(Holders(t)) + leaked[t]
    BY <1>5 DEF Counted, RefCountExact
  <2>2. Cardinality(Holders(t)) \in Nat /\ leaked[t] \in Nat /\ ref[t] \in Nat
    BY HoldersFinite DEF TypeOK
  <2>3. CASE t = s /\ st[i] = "acquiring"
    <3>1. Holders(t)' = Holders(t) \cup {i} /\ i \notin Holders(t)
      BY <1>2, <1>3, <2>3 DEF Holders, TypeOK
    <3>2. Cardinality(Holders(t)') = Cardinality(Holders(t)) + 1
      BY <3>1, HoldersFinite, FS_AddElement
    <3> QED
      BY <1>3, <2>1, <2>2, <2>3, <3>2 DEF TypeOK
  <2>4. CASE t = s /\ st[i] # "acquiring"
    <3>1. Holders(t)' = Holders(t)
      BY <1>2, <1>3, <2>4 DEF Holders, TypeOK
    <3> QED
      BY <1>3, <2>1, <2>2, <2>4, <3>1 DEF TypeOK
  <2>5. CASE t # s
    <3>1. Holders(t)' = Holders(t)
      BY <1>2, <1>3, <2>5 DEF Holders, TypeOK
    <3> QED
      BY <1>3, <2>1, <2>5, <3>1 DEF TypeOK
  <2> QED
    BY <2>3, <2>4, <2>5
<1>6. HeldStreamsStayOpen'
  BY <1>2, <1>3 DEF Counted, HeldStreamsStayOpen, TypeOK
<1> QED
  BY <1>3, <1>4, <1>5, <1>6 DEF Counted, RefCountExact

\* A handled Release gives up the reference of its stream.  The entry goes with the
\* last one only, when nobody else can be listening.
LEMMA ReleaseCounted ==
  ASSUME TypeOK, Counted, HandleRelease
  PROVE  Counted'
<1> DEFINE c == Head(cmds)
           s == c.sub
           i == c.from
<1>1. /\ cmds # <<>> /\ c.op = "release" /\ c \in Command /\ cmds' = Tail(cmds)
      /\ InStep(c, st, meddled)
  <2>1. cmds # <<>> => c = cmds[1] /\ 1 \in DOMAIN cmds
    BY DEF TypeOK
  <2> QED
    BY <2>1, QueueHead DEF HandleRelease, NextCommand, Counted, QueueInStep
<1>2. /\ s \in Subs
      /\ i = NoStream => s \in meddled
      /\ i # NoStream => i \in Streams /\ s = SubOf[i] /\ st[i] = "releasing"
      /\ FromStream(c) <=> i # NoStream
  BY <1>1, QueueHead DEF InStep, FromStream
<1>3. /\ ref' = [ref EXCEPT ![s] = IF @ = 0 THEN 0 ELSE @ - 1]
      /\ st' = [j \in Streams |->
           IF j = i THEN "idle"
           ELSE IF ref[s] = 1 /\ j \in Receivers(s) THEN "detached" ELSE st[j]]
      /\ UNCHANGED <<leaked, meddled>>
  BY DEF HandleRelease
<1> HIDE DEF c, s, i
<1>4. QueueInStep(cmds', st', meddled')
  <2>1. \A d \in Command :
          InStep(d, st, meddled) /\ (FromStream(d) /\ FromStream(c) => d.from # i)
            => InStep(d, st', meddled')
    <3> SUFFICES ASSUME NEW d \in Command, InStep(d, st, meddled),
                        FromStream(d) /\ FromStream(c) => d.from # i
                 PROVE  InStep(d, st', meddled')
      OBVIOUS
    <3>1. FromStream(d) => d.from \in Streams /\ d.op \in {"acquire", "release"} /\ d.from # i
      BY <1>2 DEF FromStream, Command
    <3>2. FromStream(d) => st'[d.from] = st[d.from]
      BY <1>3, <3>1 DEF InStep, Receivers
    <3> QED
      BY <1>3, <3>2 DEF InStep
  <2>2. cmds \in Seq(Command)
    BY DEF TypeOK
  <2> QED
    BY <1>1, <2>1, <2>2, TailInStep DEF Counted, c, i
\* Of a subscription nobody meddled with, the last holder is the one that releases.
<1>5. s \notin meddled =>
        /\ i \in Holders(s)
        /\ ref[s] = Cardinality(Holders(s)) + leaked[s]
        /\ ref[s] = 1 => Holders(s) = {i}
        /\ ref[s] >= 1
  <2> SUFFICES ASSUME s \notin meddled
               PROVE  /\ i \in Holders(s)
                      /\ ref[s] = Cardinality(Holders(s)) + leaked[s]
                      /\ ref[s] = 1 => Holders(s) = {i}
                      /\ ref[s] >= 1
    OBVIOUS
  <2>1. i \in Holders(s)
    BY <1>2 DEF Holders
  <2>2. ref[s] = Cardinality(Holders(s)) + leaked[s]
    BY <1>2 DEF Counted, RefCountExact
  <2>3. /\ Cardinality(Holders(s)) \in Nat /\ leaked[s] \in Nat
        /\ Cardinality(Holders(s)) # 0
    BY <1>2, <2>1, HoldersFinite, FS_EmptySet DEF TypeOK
  <2>4. Cardinality(Holders(s)) = 1 => Holders(s) = {i}
    BY <2>1, HoldersFinite, FS_Singleton
  <2> QED
    BY <2>1, <2>2, <2>3, <2>4
<1>6. ASSUME NEW t \in Subs \ meddled
      PROVE  ref'[t] = Cardinality(Holders(t)') + leaked'[t]
  <2>1. ref[t] = Cardinality(Holders(t)) + leaked[t]
    BY <1>6 DEF Counted, RefCountExact
  <2>2. Cardinality(Holders(t)) \in Nat /\ leaked[t] \in Nat /\ ref[t] \in Nat
    BY HoldersFinite DEF TypeOK
  <2>3. CASE t = s
    <3>1. ref[s] = 1 => Receivers(s) = {}
      BY <1>2, <1>5, <1>6, <2>3 DEF Receivers, Holders
    <3>2. Holders(t)' = Holders(t) \ {i}
      BY <1>2, <1>3, <2>3, <3>1 DEF Holders, TypeOK
    <3>3. Cardinality(Holders(t)') = Cardinality(Holders(t)) - 1
      BY <1>5, <1>6, <2>3, <3>2, HoldersFinite, FS_RemoveElement
    <3> QED
      BY <1>3, <1>5, <1>6, <2>1, <2>2, <2>3, <3>3 DEF TypeOK
  <2>4. CASE t # s
    <3>1. \A j \in Streams : SubOf[j] = t => st'[j] = st[j]
      BY <1>2, <1>3, <2>4, WsAssumption DEF Receivers
    <3>2. Holders(t)' = Holders(t)
      BY <3>1 DEF Holders
    <3> QED
      BY <1>3, <2>1, <2>4, <3>2 DEF TypeOK
  <2> QED
    BY <2>3, <2>4
<1>7. HeldStreamsStayOpen'
  <2>1. ref[s] = 1 /\ s \notin meddled => Receivers(s) = {}
    BY <1>2, <1>5 DEF Receivers, Holders
  <2> QED
    BY <1>2, <1>3, <2>1 DEF Counted, HeldStreamsStayOpen, Receivers, TypeOK
<1> QED
  BY <1>3, <1>4, <1>6, <1>7 DEF Counted, RefCountExact

\* When a shutdown is handled every subscription bears its mark.
LEMMA ShutdownCounted ==
  ASSUME TypeOK, Counted, HandleShutdown
  PROVE  Counted'
<1>1. /\ cmds # <<>> /\ Head(cmds).op = "shutdown" /\ cmds' = Tail(cmds)
      /\ InStep(Head(cmds), st, meddled)
  <2>1. cmds # <<>> => Head(cmds) = cmds[1] /\ 1 \in DOMAIN cmds
    BY DEF TypeOK
  <2> QED
    BY <2>1 DEF HandleShutdown, NextCommand, Counted, QueueInStep
<1>2. meddled' = Subs /\ meddled = Subs
  BY <1>1 DEF HandleShutdown, InStep
<1>3. QueueInStep(cmds', st', meddled')
  <2>1. \A d \in Command : InStep(d, st, meddled) => InStep(d, st', meddled')
    <3> SUFFICES ASSUME NEW d \in Command, InStep(d, st, meddled)
                 PROVE  InStep(d, st', meddled')
      OBVIOUS
    <3>1. FromStream(d) => d.from \in Streams /\ d.op \in {"acquire", "release"}
      BY DEF FromStream, Command
    <3>2. FromStream(d) => st'[d.from] = st[d.from]
      BY <3>1 DEF InStep, HandleShutdown
    <3> QED
      BY <1>2, <3>2 DEF InStep
  <2>2. cmds \in Seq(Command)
    BY DEF TypeOK
  <2> QED
    BY <1>1, <2>1, <2>2, TailInStep DEF Counted
<1>4. RefCountExact' /\ HeldStreamsStayOpen'
  BY <1>2, WsAssumption DEF RefCountExact, HeldStreamsStayOpen
<1> QED
  BY <1>3, <1>4 DEF Counted

LEMMA CountedStep ==
  ASSUME TypeOK, Counted, [Next]_vars
  PROVE  Counted'
<1>1. ASSUME NEW i \in Streams, Open(i) \/ Abandon(i) \/ Recv(i) \/ Drop(i) \/ RecvClosed(i)
      PROVE  Counted'
  <2>1. CASE Open(i)
    BY <2>1, OpenCounted
  <2>2. CASE Abandon(i)
    BY <2>2, AbandonCounted
  <2>3. CASE Recv(i)
    BY <2>3, Untouched DEF Recv
  <2>4. CASE Drop(i) \/ RecvClosed(i)
    BY <2>4, LeaveCounted DEF Drop, RecvClosed, Reading
  <2> QED
    BY <1>1, <2>1, <2>2, <2>3, <2>4
<1>2. RequestShutdown \/ (\E s \in Subs : ForeignRelease(s)) => Counted'
  BY OutsiderCounted
<1>3. HandleCommand => Counted'
  BY AcquireCounted, ReleaseCounted, ShutdownCounted DEF HandleCommand
<1>4. DropHandle \/ Network => Counted'
  BY Untouched DEF DropHandle, Network, LinkDies, Publish, clientVars
<1>5. Connect \/ (\E s \in Subs : ReplayOne(s)) \/ ReplayDone \/ ReplayFails => Counted'
  BY Untouched DEF Connect, ReplayOne, ReplayDone, ReplayFails, clientVars
<1>6. Dispatch \/ RecvFails \/ HeartbeatFails \/ IdleTimeout \/ ParseFails \/ Exit => Counted'
  BY Untouched
     DEF Dispatch, RecvFails, HeartbeatFails, IdleTimeout, ParseFails, GiveUp, Exit, clientVars
<1>7. UNCHANGED vars => Counted'
  BY Untouched DEF vars, clientVars
<1> QED
  BY <1>1, <1>2, <1>3, <1>4, <1>5, <1>6, <1>7 DEF Next, Manager, Consumers, Outsiders

LEMMA CountInvariant == Spec => []CountInv
<1>1. Init => Counted
  <2> SUFFICES ASSUME Init
               PROVE  Counted
    OBVIOUS
  <2>1. QueueInStep(cmds, st, meddled)
    BY DEF Init, QueueInStep, OneEach
  <2>2. \A s \in Subs : Holders(s) = {}
    BY DEF Init, Holders
  <2>3. RefCountExact
    <3>1. \A s \in Subs : Cardinality(Holders(s)) = 0 /\ ref[s] = 0 /\ leaked[s] = 0
      BY <2>2, FS_EmptySet DEF Init
    <3> QED
      BY <3>1 DEF RefCountExact
  <2> QED
    BY <2>1, <2>3 DEF Init, Counted, HeldStreamsStayOpen
<1>2. TypeOK /\ Counted /\ [Next]_vars => Counted'
  BY CountedStep
<1> QED
  BY <1>1, <1>2, TypeCorrect, PTL DEF Spec, CountInv

\* The count in the manager's map is the number of the streams that hold the
\* subscription, whatever is under way in the queue (Acquire and Release in
\* handle_command, ReleaseOnDrop in managed_stream).
THEOREM RefCountCorrect == Spec => []RefCountExact
<1>1. CountInv => RefCountExact
  BY DEF CountInv, Counted
<1> QED
  BY <1>1, CountInvariant, PTL

\* The channel of a stream somebody reads is never closed under it, unless a third
\* party releases its subscription or shuts the manager down.
THEOREM StreamsStayOpen == Spec => []HeldStreamsStayOpen
<1>1. CountInv => HeldStreamsStayOpen
  BY DEF CountInv, Counted
<1> QED
  BY <1>1, CountInvariant, PTL

-----------------------------------------------------------------------------
(* What outsiders can do to the count. *)

\* The streams that will still release s, those that lost their channel included.
Keepers(s) == {i \in Streams : SubOf[i] = s /\ st[i] \in {"live", "detached", "releasing"}}

LEMMA KeepersFinite ==
  ASSUME NEW s
  PROVE  IsFiniteSet(Keepers(s)) /\ Cardinality(Keepers(s)) \in Nat
BY WsAssumption, FS_Subset, FS_CardinalityType DEF Keepers

LEMMA OvercountByKeepers ==
  NeverOvercounted <=> \A s \in Subs : ref[s] <= leaked[s] + Cardinality(Keepers(s))
BY DEF NeverOvercounted, Keepers

\* The steps that change neither the count nor which streams will release.
LEMMA SameKeepers ==
  ASSUME NeverOvercounted, UNCHANGED <<ref, leaked>>, \A s \in Subs : Keepers(s)' = Keepers(s)
  PROVE  NeverOvercounted'
<1>1. \A s \in Subs : ref'[s] <= leaked'[s] + Cardinality(Keepers(s)')
  BY OvercountByKeepers
<1> QED
  BY <1>1 DEF NeverOvercounted, Keepers

LEMMA AcquireKeeps ==
  ASSUME CountInv, NeverOvercounted, HandleAcquire
  PROVE  NeverOvercounted'
<1> DEFINE c == Head(cmds)
           s == c.sub
           i == c.from
<1>1. /\ c.op = "acquire" /\ c \in Command /\ InStep(c, st, meddled)
      /\ cmds # <<>> /\ TypeOK
  <2>1. cmds # <<>> => c = cmds[1] /\ 1 \in DOMAIN cmds
    BY DEF CountInv, TypeOK
  <2> QED
    BY <2>1, QueueHead DEF HandleAcquire, NextCommand, CountInv, Counted, QueueInStep
<1>2. /\ s \in Subs /\ i \in Streams /\ s = SubOf[i]
      /\ st[i] \in {"acquiring", "abandoned"}
  BY <1>1, QueueHead DEF InStep, FromStream
<1>3. /\ ref' = [ref EXCEPT ![s] = @ + 1]
      /\ IF st[i] = "acquiring"
         THEN st' = [st EXCEPT ![i] = "live"] /\ UNCHANGED leaked
         ELSE st' = [st EXCEPT ![i] = "idle"] /\ leaked' = [leaked EXCEPT ![s] = @ + 1]
  BY DEF HandleAcquire
<1> HIDE DEF c, s, i
<1>4. ASSUME NEW t \in Subs
      PROVE  ref'[t] <= leaked'[t] + Cardinality(Keepers(t)')
  <2>1. ref[t] <= leaked[t] + Cardinality(Keepers(t))
    BY OvercountByKeepers
  <2>2. Cardinality(Keepers(t)) \in Nat /\ leaked[t] \in Nat /\ ref[t] \in Nat
    BY KeepersFinite DEF CountInv, TypeOK
  <2>3. CASE t = s /\ st[i] = "acquiring"
    <3>1. Keepers(t)' = Keepers(t) \cup {i} /\ i \notin Keepers(t)
      BY <1>2, <1>3, <2>3 DEF Keepers, CountInv, TypeOK
    <3>2. Cardinality(Keepers(t)') = Cardinality(Keepers(t)) + 1
      BY <3>1, KeepersFinite, FS_AddElement
    <3> QED
      BY <1>3, <2>1, <2>2, <2>3, <3>2 DEF CountInv, TypeOK
  <2>4. CASE ~(t = s /\ st[i] = "acquiring")
    <3>1. Keepers(t)' = Keepers(t)
      BY <1>2, <1>3, <2>4 DEF Keepers, CountInv, TypeOK
    <3> QED
      BY <1>3, <2>1, <2>2, <2>4, <3>1 DEF CountInv, TypeOK
  <2> QED
    BY <2>3, <2>4
<1> QED
  BY <1>4 DEF NeverOvercounted, Keepers

\* A Release from a stream takes that stream and at most one reference away; one from
\* nobody takes a reference only.
LEMMA ReleaseKeeps ==
  ASSUME CountInv, NeverOvercounted, HandleRelease
  PROVE  NeverOvercounted'
<1> DEFINE c == Head(cmds)
           s == c.sub
           i == c.from
<1>1. /\ c.op = "release" /\ c \in Command /\ InStep(c, st, meddled)
      /\ cmds # <<>> /\ TypeOK
  <2>1. cmds # <<>> => c = cmds[1] /\ 1 \in DOMAIN cmds
    BY DEF CountInv, TypeOK
  <2> QED
    BY <2>1, QueueHead DEF HandleRelease, NextCommand, CountInv, Counted, QueueInStep
<1>2. /\ s \in Subs
      /\ i # NoStream => i \in Streams /\ s = SubOf[i] /\ st[i] = "releasing"
  BY <1>1, QueueHead DEF InStep, FromStream
<1>3. /\ ref' = [ref EXCEPT ![s] = IF @ = 0 THEN 0 ELSE @ - 1]
      /\ st' = [j \in Streams |->
           IF j = i THEN "idle"
           ELSE IF ref[s] = 1 /\ j \in Receivers(s) THEN "detached" ELSE st[j]]
      /\ UNCHANGED leaked
  BY DEF HandleRelease
<1> HIDE DEF c, s, i
<1>4. ASSUME NEW t \in Subs
      PROVE  ref'[t] <= leaked'[t] + Cardinality(Keepers(t)')
  <2>1. ref[t] <= leaked[t] + Cardinality(Keepers(t))
    BY OvercountByKeepers
  <2>2. /\ Cardinality(Keepers(t)) \in Nat /\ Cardinality(Keepers(t)') \in Nat
        /\ leaked[t] \in Nat /\ ref[t] \in Nat
    <3>1. IsFiniteSet(Keepers(t)')
      BY WsAssumption, FS_Subset DEF Keepers
    <3> QED
      BY <3>1, KeepersFinite, FS_CardinalityType DEF CountInv, TypeOK
  <2>3. CASE t = s /\ i # NoStream
    <3>1. Keepers(t)' = Keepers(t) \ {i} /\ i \in Keepers(t)
      BY <1>2, <1>3, <2>3 DEF Keepers, Receivers, CountInv, TypeOK
    <3>2. Cardinality(Keepers(t)') = Cardinality(Keepers(t)) - 1
      BY <3>1, KeepersFinite, FS_RemoveElement
    <3>3. ref'[t] = IF ref[t] = 0 THEN 0 ELSE ref[t] - 1
      BY <1>3, <2>3 DEF CountInv, TypeOK
    <3>4. leaked'[t] = leaked[t]
      BY <1>3
    <3> QED
      BY <2>1, <2>2, <3>2, <3>3, <3>4
  <2>4. CASE ~(t = s /\ i # NoStream)
    <3>1. Keepers(t)' = Keepers(t)
      BY <1>2, <1>3, <2>4, WsAssumption DEF Keepers, Receivers, CountInv, TypeOK
    <3>2. ref'[t] <= ref[t]
      BY <1>3, <2>2 DEF CountInv, TypeOK
    <3>3. ref'[t] \in Nat
      BY <1>3, <2>2 DEF CountInv, TypeOK
    <3> QED
      BY <1>3, <2>1, <2>2, <3>1, <3>2, <3>3
  <2> QED
    BY <2>3, <2>4
<1> QED
  BY <1>4 DEF NeverOvercounted, Keepers

LEMMA ShutdownKeeps ==
  ASSUME HandleShutdown
  PROVE  NeverOvercounted'
<1>1. \A s \in Subs : ref'[s] = 0 /\ leaked'[s] = 0
  BY DEF HandleShutdown
<1>2. \A s \in Subs : Cardinality(Keepers(s)') \in Nat
  BY WsAssumption, FS_Subset, FS_CardinalityType DEF Keepers
<1>3. \A s \in Subs : ref'[s] <= leaked'[s] + Cardinality(Keepers(s)')
  BY <1>1, <1>2
<1> QED
  BY <1>3 DEF NeverOvercounted, Keepers

LEMMA KeepersStep ==
  ASSUME CountInv, NeverOvercounted, [Next]_vars
  PROVE  NeverOvercounted'
<1>1. ASSUME NEW i \in Streams, Open(i) \/ Abandon(i) \/ Recv(i) \/ Drop(i) \/ RecvClosed(i)
      PROVE  NeverOvercounted'
  <2>1. UNCHANGED <<ref, leaked>>
    BY <1>1 DEF Open, Abandon, Recv, Drop, RecvClosed, Leave
  <2>2. \/ UNCHANGED st
        \/ st[i] = "idle" /\ st' = [st EXCEPT ![i] = "acquiring"]
        \/ st[i] = "acquiring" /\ st' = [st EXCEPT ![i] = "abandoned"]
        \/ st[i] \in {"live", "detached"} /\ st' = [st EXCEPT ![i] = "releasing"]
    BY <1>1 DEF Open, Abandon, Recv, Drop, RecvClosed, Leave, Reading
  <2>3. \A s \in Subs : Keepers(s)' = Keepers(s)
    BY <2>2 DEF Keepers, CountInv, TypeOK
  <2> QED
    BY <2>1, <2>3, SameKeepers
<1>2. HandleCommand => NeverOvercounted'
  BY AcquireKeeps, ReleaseKeeps, ShutdownKeeps DEF HandleCommand
<1>3. UNCHANGED <<st, ref, leaked>> => NeverOvercounted'
  BY SameKeepers DEF Keepers
<1>4. RequestShutdown \/ (\E s \in Subs : ForeignRelease(s)) \/ DropHandle => NeverOvercounted'
  BY <1>3 DEF RequestShutdown, ForeignRelease, DropHandle, clientVars
<1>5. Network => NeverOvercounted'
  BY <1>3 DEF Network, LinkDies, Publish, clientVars
<1>6. Connect \/ (\E s \in Subs : ReplayOne(s)) \/ ReplayDone \/ ReplayFails => NeverOvercounted'
  BY <1>3 DEF Connect, ReplayOne, ReplayDone, ReplayFails, clientVars
<1>7. Dispatch \/ RecvFails \/ HeartbeatFails \/ IdleTimeout \/ ParseFails \/ Exit
        => NeverOvercounted'
  BY <1>3
     DEF Dispatch, RecvFails, HeartbeatFails, IdleTimeout, ParseFails, GiveUp, Exit, clientVars
<1>8. UNCHANGED vars => NeverOvercounted'
  BY <1>3 DEF vars, clientVars
<1> QED
  BY <1>1, <1>2, <1>4, <1>5, <1>6, <1>7, <1>8 DEF Next, Manager, Consumers, Outsiders

\* Whatever third parties release or shut down, each reference left in the map belongs
\* to a stream that will still release it, or leaked with a stream dropped while it
\* waited (the Release arm of handle_command, which never goes below zero).
THEOREM NeverOvercountedCorrect == Spec => []NeverOvercounted
<1>1. Init => NeverOvercounted
  <2> SUFFICES ASSUME Init
               PROVE  NeverOvercounted
    OBVIOUS
  <2>1. \A s \in Subs : ref[s] = 0 /\ leaked[s] = 0 /\ Cardinality(Keepers(s)) \in Nat
    BY KeepersFinite DEF Init
  <2> QED
    BY <2>1, OvercountByKeepers
<1>2. CountInv /\ NeverOvercounted /\ [Next]_vars => NeverOvercounted'
  BY KeepersStep
<1> QED
  BY <1>1, <1>2, CountInvariant, PTL DEF Spec

-----------------------------------------------------------------------------
(* The manager and the server. *)

\* Once the socket is closed from this side nothing is subscribed, and no message
\* reaches a server.
LEMMA ClosedInStep ==
  ASSUME TypeOK, CloseSocket, mode' \notin {"replaying", "running"}, link # "none"
  PROVE  LinkInStep' /\ ServerInStep'
BY DEF CloseSocket, LinkInStep, ServerInStep

\* A subscribe message for a subscription the server has not been told of.
LEMMA SubscribeTold ==
  ASSUME TypeOK, NEW s \in Subs, told[s] = "none", SubscribeOnWire(s), link = "up"
  PROVE  /\ told'[s] \in {"subscribed", "rejected"}
         /\ \A t \in Subs \ {s} : told'[t] = told[t]
<1>1. PICK answer \in Answers(s) : told' = [told EXCEPT ![s] = answer]
  BY DEF SubscribeOnWire
<1>2. answer \in {"subscribed", "rejected"}
  BY <1>1 DEF Answers
<1> QED
  BY <1>1, <1>2 DEF TypeOK

LEMMA UnsubscribeTold ==
  ASSUME TypeOK, NEW s \in Subs, UnsubscribeOnWire(s)
  PROVE  told' = IF link = "up" THEN [told EXCEPT ![s] = "none"] ELSE told
BY Zenon DEF UnsubscribeOnWire

LEMMA AcquireServer ==
  ASSUME LinkInv, HandleAcquire
  PROVE  LinkInStep' /\ ServerInStep'
<1> DEFINE s == Head(cmds).sub
<1>1. /\ s \in Subs /\ mode \in {"parked", "running"} /\ TypeOK
      /\ ref' = [ref EXCEPT ![s] = @ + 1]
      /\ mode' = IF mode = "parked" THEN "connecting" ELSE mode
      /\ IF ref[s] = 0 /\ IsConnected THEN SubscribeOnWire(s) ELSE UNCHANGED told
      /\ UNCHANGED <<link, closed>>
  BY QueueHead DEF HandleAcquire, NextCommand, Serving, LinkInv
<1> HIDE DEF s
<1>2. CASE link # "up"
  <2>1. UNCHANGED told
    BY <1>1, <1>2 DEF SubscribeOnWire
  <2> QED
    BY <1>1, <1>2, <2>1 DEF LinkInv, LinkInStep, ServerInStep
<1>3. CASE link = "up"
  <2>1. mode = "running" /\ IsConnected
    BY <1>1, <1>3 DEF LinkInv, LinkInStep, IsConnected
  <2>2. CASE ref[s] = 0
    <3>1. told[s] = "none" /\ SubscribeOnWire(s)
      BY <1>1, <1>3, <2>1, <2>2 DEF LinkInv, ServerInStep
    <3>2. /\ told'[s] \in {"subscribed", "rejected"}
          /\ \A t \in Subs \ {s} : told'[t] = told[t]
      BY <1>1, <1>3, <3>1, SubscribeTold
    <3> QED
      BY <1>1, <1>3, <2>1, <2>2, <3>2 DEF LinkInv, LinkInStep, ServerInStep, TypeOK
  <2>3. CASE ref[s] # 0
    BY <1>1, <1>3, <2>1, <2>3 DEF LinkInv, LinkInStep, ServerInStep, TypeOK
  <2> QED
    BY <2>2, <2>3
<1> QED
  BY <1>2, <1>3

LEMMA ReleaseServer ==
  ASSUME LinkInv, HandleRelease
  PROVE  LinkInStep' /\ ServerInStep'
<1> DEFINE s == Head(cmds).sub
           empty == \A t \in Subs : ref'[t] = 0
<1>1. /\ s \in Subs /\ mode \in {"parked", "running"} /\ TypeOK
      /\ ref' = [ref EXCEPT ![s] = IF @ = 0 THEN 0 ELSE @ - 1]
      /\ IF mode = "running" /\ empty
         THEN CloseSocket /\ mode' = "parked"
         ELSE /\ IF ref[s] = 1 /\ IsConnected THEN UnsubscribeOnWire(s) ELSE UNCHANGED told
              /\ UNCHANGED <<mode, link>>
      /\ UNCHANGED closed
  BY QueueHead DEF HandleRelease, NextCommand, Serving, LinkInv
<1> HIDE DEF s
<1>2. CASE mode = "running" /\ empty
  BY <1>1, <1>2, ClosedInStep DEF LinkInv, LinkInStep
<1>3. CASE ~(mode = "running" /\ empty)
  <2>1. CASE link # "up"
    <3>1. UNCHANGED told
      BY <1>1, <1>3, <2>1 DEF UnsubscribeOnWire
    <3> QED
      BY <1>1, <1>3, <2>1, <3>1 DEF LinkInv, LinkInStep, ServerInStep
  <2>2. CASE link = "up"
    <3>1. mode = "running" /\ IsConnected /\ ~closed
      BY <1>1, <2>2 DEF LinkInv, LinkInStep, IsConnected
    <3>2. told' = IF ref[s] = 1 THEN [told EXCEPT ![s] = "none"] ELSE told
      BY <1>1, <1>3, <2>2, <3>1, UnsubscribeTold
    <3>3. \A t \in Subs : told[t] # "twice" /\ ((told[t] # "none") <=> (ref[t] > 0))
      BY <2>2, <3>1 DEF LinkInv, ServerInStep
    <3>4. \A t \in Subs : told'[t] # "twice" /\ ((told'[t] # "none") <=> (ref'[t] > 0))
      BY <1>1, <3>2, <3>3 DEF TypeOK
    <3> QED
      BY <1>1, <1>3, <2>2, <3>1, <3>4 DEF LinkInStep, ServerInStep
  <2> QED
    BY <2>1, <2>2
<1> QED
  BY <1>2, <1>3

LEMMA LinkStep ==
  ASSUME LinkInv, [Next]_vars
  PROVE  LinkInStep' /\ ServerInStep'
<1> USE DEF LinkInv
<1>1. HandleShutdown => LinkInStep' /\ ServerInStep'
  <2> SUFFICES ASSUME HandleShutdown
               PROVE  LinkInStep' /\ ServerInStep'
    OBVIOUS
  <2>1. mode \in {"parked", "running"} /\ mode' = "parked"
        /\ IF IsConnected THEN CloseSocket ELSE UNCHANGED <<link, told>>
    BY DEF HandleShutdown, NextCommand, Serving, serverVars
  <2>2. mode = "running" => IsConnected
    BY DEF LinkInStep, IsConnected
  <2>3. CASE IsConnected
    BY <2>1, <2>3, ClosedInStep DEF IsConnected
  <2>4. CASE ~IsConnected
    BY <2>1, <2>2, <2>4 DEF LinkInStep, ServerInStep
  <2> QED
    BY <2>3, <2>4
<1>2. HandleCommand => LinkInStep' /\ ServerInStep'
  BY <1>1, AcquireServer, ReleaseServer DEF HandleCommand
<1>3. Connect => LinkInStep' /\ ServerInStep'
  BY DEF Connect, LinkInStep, ServerInStep, serverVars
<1>4. ASSUME NEW s \in Subs, ReplayOne(s)
      PROVE  LinkInStep' /\ ServerInStep'
  <2>1. /\ mode = "replaying" /\ link = "up" /\ ref[s] > 0 /\ told[s] = "none"
        /\ SubscribeOnWire(s) /\ UNCHANGED <<mode, ref, link, closed>>
    BY <1>4 DEF ReplayOne
  <2>2. /\ told'[s] \in {"subscribed", "rejected"}
        /\ \A t \in Subs \ {s} : told'[t] = told[t]
    BY <2>1, SubscribeTold
  <2> QED
    BY <2>1, <2>2 DEF LinkInStep, ServerInStep
<1>5. ReplayDone => LinkInStep' /\ ServerInStep'
  BY DEF ReplayDone, LinkInStep, ServerInStep, serverVars
<1>6. ReplayFails => LinkInStep' /\ ServerInStep'
  BY ClosedInStep DEF ReplayFails
<1>7. RecvFails \/ HeartbeatFails \/ IdleTimeout \/ ParseFails
        => LinkInStep' /\ ServerInStep'
  BY ClosedInStep DEF RecvFails, HeartbeatFails, IdleTimeout, ParseFails, GiveUp, LinkInStep
<1>8. Exit => LinkInStep' /\ ServerInStep'
  BY ClosedInStep DEF Exit, Serving, LinkInStep, ServerInStep, serverVars
<1>9. LinkDies => LinkInStep' /\ ServerInStep'
  BY DEF LinkDies, LinkInStep, ServerInStep
<1>10. UNCHANGED <<mode, ref, link, closed, told>> => LinkInStep' /\ ServerInStep'
  BY DEF LinkInStep, ServerInStep
<1>11. Dispatch \/ (\E s \in Subs : Publish(s)) \/ UNCHANGED vars
        => LinkInStep' /\ ServerInStep'
  BY <1>10 DEF Dispatch, Publish, vars, serverVars
<1>12. ASSUME NEW i \in Streams, Open(i) \/ Abandon(i) \/ Recv(i) \/ Drop(i) \/ RecvClosed(i)
       PROVE  LinkInStep' /\ ServerInStep'
  BY <1>10, <1>12 DEF Open, Abandon, Recv, Drop, RecvClosed, Leave, serverVars
<1>13. (\E s \in Subs : ForeignRelease(s)) \/ RequestShutdown \/ DropHandle
        => LinkInStep' /\ ServerInStep'
  BY <1>10 DEF ForeignRelease, RequestShutdown, DropHandle, serverVars
<1> QED
  BY <1>2, <1>3, <1>4, <1>5, <1>6, <1>7, <1>8, <1>9, <1>11, <1>12, <1>13
     DEF Next, Manager, Consumers, Outsiders, Network

\* In the inner loop on a working connection the server holds exactly what the
\* manager's map holds, asked for once each (replay_subscriptions on a fresh socket,
\* the first Acquire and the last Release on the one in use).
THEOREM ServerCorrect == Spec => []ServerInStep
<1>1. Init => LinkInStep /\ ServerInStep
  BY DEF Init, LinkInStep, ServerInStep
<1>2. TypeOK /\ LinkInStep /\ ServerInStep /\ [Next]_vars => LinkInStep' /\ ServerInStep'
  BY LinkStep DEF LinkInv
<1> QED
  BY <1>1, <1>2, TypeCorrect, PTL DEF Spec

-----------------------------------------------------------------------------
(* The events of a stream's own subscription are unbroken, for every set   *)
(* of streams and subscriptions and every capacity.  Whether the next      *)
(* event of a subscription follows a gap, or becomes a left-over, is       *)
(* decided at the server; the argument carries that decision along the     *)
(* wire (WireInStep), to what a live stream has last been given            *)
(* (StreamsInStep), and through the ring of its broadcast channel          *)
(* (GapsShow).                                                             *)

\* The newest item stream i was given, read or not, is an event.
EndsInEvent(i) ==
  IF inbox[i] # <<>> THEN inbox[i][Len(inbox[i])] \in Event ELSE afterData[i] /\ ~lost[i]

\* No event that others were missed before, and no left-over, follows an event in what
\* stream i was given, and a stream that reads nothing keeps nothing.
GapsShow(i) ==
  /\ \A k \in 2 .. Len(inbox[i]) : inbox[i][k] \in Seam => inbox[i][k - 1] \notin Event
  /\ (inbox[i] # <<>> /\ inbox[i][1] \in Seam) => (~afterData[i] \/ lost[i])
  /\ ~Reading(i) => inbox[i] = <<>> /\ ~lost[i] /\ ~afterData[i]

\* A stream that listens has an entry in the manager's map, and the manager waits
\* outside the inner loop only while the map is empty.
EntriesInStep ==
  /\ \A i \in Streams : st[i] = "live" => ref[SubOf[i]] > 0
  /\ mode = "parked" => \A s \in Subs : ref[s] = 0

EventAt(s, k) == wire[k].sub = s /\ wire[k].kind \in Event
SeamAt(s, k)  == wire[k].sub = s /\ wire[k].kind \in Seam

\* Nothing is under way from a socket closed on this side; no event is under way
\* of a subscription that missed one since or is not subscribed; only the first
\* event under way may follow a gap, and left-overs come before all events.
WireInStep ==
  /\ link \in {"none", "closing"} => wire = <<>>
  /\ link = "up" => \A s \in Subs : (s \in missed \/ told[s] \notin {"subscribed", "twice"}) =>
       \A k \in DOMAIN wire : ~EventAt(s, k)
  /\ \A s \in Subs : \A k \in DOMAIN wire :
       SeamAt(s, k) => \A l \in 1 .. k - 1 : ~EventAt(s, l)

\* While the manager connects and replays, the newest item of every listener is the
\* reconnect marker or nothing at all.  In the inner loop nothing under way to a
\* listener whose newest item is an event follows a gap or is left over, and on a
\* working connection its subscription has missed nothing since.
StreamsInStep ==
  /\ mode \in {"connecting", "replaying"} =>
       \A i \in Streams : st[i] = "live" => ~EndsInEvent(i)
  /\ mode = "running" => \A i \in Streams : st[i] = "live" /\ EndsInEvent(i) =>
       /\ \A k \in DOMAIN wire : ~SeamAt(SubOf[i], k)
       /\ link = "up" => SubOf[i] \notin missed /\ told[SubOf[i]] = "subscribed"

GapInv ==
  /\ \A i \in Streams : GapsShow(i)
  /\ EntriesInStep
  /\ WireInStep
  /\ StreamsInStep

-----------------------------------------------------------------------------
(* What a stream was given. *)

\* A stream that was given nothing ends as it did.
LEMMA SameFeed ==
  ASSUME NEW i \in Streams, GapsShow(i),
         inbox'[i] = inbox[i], lost'[i] = lost[i], afterData'[i] = afterData[i],
         Reading(i) => Reading(i)'
  PROVE  GapsShow(i)' /\ (EndsInEvent(i)' <=> EndsInEvent(i))
BY DEF GapsShow, EndsInEvent

\* A stream that reads nothing was given nothing that counts.
LEMMA EmptyFeed ==
  ASSUME NEW i \in Streams, inbox[i] = <<>>, ~lost[i], ~afterData[i]
  PROVE  GapsShow(i) /\ ~EndsInEvent(i)
BY DEF GapsShow, EndsInEvent

\* Reading an item, or that items were lost, does not change which item is newest.
LEMMA RecvFeed ==
  ASSUME TypeOK, NEW i \in Streams, GapsShow(i), Recv(i)
  PROVE  GapsShow(i)' /\ (EndsInEvent(i)' <=> EndsInEvent(i))
<1>1. /\ inbox[i] \in Seq(Item) /\ UNCHANGED st /\ Reading(i)
      /\ Len(inbox[i]) \in Nat
  BY DEF TypeOK, Recv
<1>2. CASE lost[i]
  <2>1. inbox'[i] = inbox[i] /\ lost'[i] = FALSE /\ afterData'[i] = FALSE
    BY <1>2 DEF Recv, TypeOK
  <2> QED
    BY <1>1, <1>2, <2>1 DEF GapsShow, EndsInEvent, Reading
<1>3. CASE ~lost[i]
  <2>1. /\ inbox[i] # <<>> /\ inbox'[i] = Tail(inbox[i]) /\ lost'[i] = lost[i]
        /\ afterData'[i] = (inbox[i][1] \in Event)
    <3>1. inbox[i] # <<>> => Head(inbox[i]) = inbox[i][1]
      BY <1>1
    <3>2. inbox[i] # <<>> /\ inbox' = [inbox EXCEPT ![i] = Tail(@)] /\ lost' = lost
          /\ afterData' = [afterData EXCEPT ![i] = Head(inbox[i]) \in Event]
      BY <1>3 DEF Recv
    <3>3. afterData'[i] = (Head(inbox[i]) \in Event)
      BY <3>2, Zenon DEF TypeOK
    <3> QED
      BY <3>1, <3>2, <3>3, Zenon DEF TypeOK
  <2>2. /\ Len(Tail(inbox[i])) = Len(inbox[i]) - 1
        /\ Len(inbox[i]) > 0
        /\ \A k \in 1 .. Len(inbox[i]) - 1 : Tail(inbox[i])[k] = inbox[i][k + 1]
        /\ (Tail(inbox[i]) = <<>>) <=> (Len(inbox[i]) = 1)
    <3>1. Len(Tail(inbox[i])) = Len(inbox[i]) - 1 /\ Tail(inbox[i]) \in Seq(Item)
      BY <1>1, <2>1
    <3>2. (Tail(inbox[i]) = <<>>) <=> (Len(Tail(inbox[i])) = 0)
      BY <3>1, EmptySeq
    <3>3. Len(inbox[i]) > 0
      BY <1>1, <2>1
    <3>4. \A k \in 1 .. Len(inbox[i]) - 1 : Tail(inbox[i])[k] = inbox[i][k + 1]
      BY <1>1, <2>1
    <3> QED
      BY <1>1, <3>1, <3>2, <3>3, <3>4
  <2>3. \A k \in 2 .. Len(inbox'[i]) : inbox'[i][k] \in Seam => inbox'[i][k - 1] \notin Event
    BY <2>1, <2>2 DEF GapsShow
  <2>4. inbox'[i] # <<>> /\ inbox'[i][1] \in Seam => ~afterData'[i]
    <3>1. inbox'[i] # <<>> => Len(inbox[i]) >= 2 /\ inbox'[i][1] = inbox[i][2]
      BY <1>1, <2>1, <2>2
    <3>2. inbox'[i] # <<>> /\ inbox'[i][1] \in Seam => inbox[i][1] \notin Event
      BY <1>1, <3>1 DEF GapsShow
    <3> QED
      BY <2>1, <3>2, Zenon
  <2>5. Reading(i)'
    BY <1>1 DEF Reading
  <2>6. EndsInEvent(i)' <=> EndsInEvent(i)
    <3>1. CASE Len(inbox[i]) = 1
      BY <1>3, <2>1, <2>2, <3>1, Zenon DEF EndsInEvent
    <3>2. CASE Len(inbox[i]) # 1
      <4>1. inbox'[i] # <<>> /\ inbox'[i][Len(inbox'[i])] = inbox[i][Len(inbox[i])]
        BY <1>1, <2>1, <2>2, <3>2
      <4> QED
        BY <2>1, <4>1, Zenon DEF EndsInEvent
    <3> QED
      BY <3>1, <3>2
  <2> QED
    BY <2>3, <2>4, <2>5, <2>6 DEF GapsShow
<1> QED
  BY <1>2, <1>3

\* A listener's newest item is what was broadcast.  Losing the oldest item to a
\* full ring shows as a lag, and an event after a gap is fine after anything that
\* is not an event.
LEMMA BroadcastFeed ==
  ASSUME TypeOK, NEW receivers, NEW item, Broadcast(receivers, item),
         NEW i \in receivers, i \in Streams, GapsShow(i), Reading(i)',
         item \in Seam => ~EndsInEvent(i)
  PROVE  GapsShow(i)' /\ (EndsInEvent(i)' <=> item \in Event)
<1> DEFINE kept == IF Full(i) THEN Tail(inbox[i]) ELSE inbox[i]
<1>1. /\ inbox[i] \in Seq(Item) /\ Len(inbox[i]) \in Nat
      /\ Full(i) => inbox[i] # <<>>
  BY WsAssumption DEF TypeOK, Full
<1>2. /\ inbox'[i] = Append(kept, item)
      /\ lost'[i] = (lost[i] \/ Full(i))
      /\ afterData'[i] = afterData[i]
  BY Zenon DEF Broadcast
<1>3. /\ Len(kept) \in Nat /\ kept \in Seq(Item)
      /\ ~Full(i) => kept = inbox[i]
      /\ Full(i) => /\ Len(kept) = Len(inbox[i]) - 1
                    /\ \A k \in 1 .. Len(kept) : kept[k] = inbox[i][k + 1]
  BY <1>1
<1> HIDE DEF kept
<1>4. /\ Len(inbox'[i]) = Len(kept) + 1
      /\ inbox'[i][Len(kept) + 1] = item
      /\ \A k \in 1 .. Len(kept) : inbox'[i][k] = kept[k]
      /\ inbox'[i] # <<>>
  BY <1>2, <1>3
<1>5. ASSUME NEW k \in 2 .. Len(kept), kept[k] \in Seam
      PROVE  kept[k - 1] \notin Event
  <2>1. \A l \in 2 .. Len(inbox[i]) : inbox[i][l] \in Seam => inbox[i][l - 1] \notin Event
    BY Zenon DEF GapsShow
  <2>2. CASE Full(i)
    <3>1. /\ k \in 1 .. Len(kept) /\ k - 1 \in 1 .. Len(kept)
          /\ k + 1 \in 2 .. Len(inbox[i]) /\ (k + 1) - 1 = (k - 1) + 1
      BY <1>1, <1>3, <2>2
    <3>2. kept[k] = inbox[i][k + 1] /\ kept[k - 1] = inbox[i][(k + 1) - 1]
      BY <1>3, <2>2, <3>1
    <3> QED
      BY <1>5, <2>1, <3>1, <3>2
  <2>3. CASE ~Full(i)
    BY <1>3, <1>5, <2>1, <2>3
  <2> QED
    BY <2>2, <2>3
<1>6. Len(kept) > 0 /\ ~EndsInEvent(i) => kept[Len(kept)] \notin Event
  BY <1>1, <1>3 DEF EndsInEvent
<1>7. \A k \in 2 .. Len(inbox'[i]) : inbox'[i][k] \in Seam => inbox'[i][k - 1] \notin Event
  <2> SUFFICES ASSUME NEW k \in 2 .. Len(kept) + 1, inbox'[i][k] \in Seam
               PROVE  inbox'[i][k - 1] \notin Event
    BY <1>4
  <2>1. CASE k = Len(kept) + 1
    <3>1. item \in Seam /\ Len(kept) > 0 /\ k - 1 = Len(kept) /\ k - 1 \in 1 .. Len(kept)
      BY <1>3, <1>4, <2>1
    <3> QED
      BY <1>4, <1>6, <3>1
  <2>2. CASE k # Len(kept) + 1
    <3>1. k \in 2 .. Len(kept) /\ k \in 1 .. Len(kept) /\ k - 1 \in 1 .. Len(kept)
      BY <1>3, <2>2
    <3> QED
      BY <1>4, <1>5, <3>1
  <2> QED
    BY <2>1, <2>2
<1>8. inbox'[i][1] \in Seam => ~afterData'[i] \/ lost'[i]
  <2>1. CASE Full(i)
    BY <1>2, <2>1
  <2>2. CASE ~Full(i) /\ Len(kept) > 0
    <3>1. inbox'[i][1] = inbox[i][1] /\ inbox[i] # <<>>
      BY <1>1, <1>3, <1>4, <2>2, EmptySeq
    <3>2. inbox'[i][1] \in Seam => (~afterData[i] \/ lost[i])
      BY <3>1 DEF GapsShow
    <3>3. (lost[i] => lost'[i]) /\ (afterData'[i] => afterData[i])
      BY <1>2, Zenon
    <3> QED
      BY <3>2, <3>3
  <2>3. CASE ~Full(i) /\ Len(kept) = 0
    <3>1. inbox[i] = <<>> /\ inbox'[i][1] = item
      BY <1>1, <1>3, <1>4, <2>3, EmptySeq
    <3>2. inbox'[i][1] \in Seam => ~(afterData[i] /\ ~lost[i])
      BY <3>1 DEF EndsInEvent
    <3>3. (lost[i] => lost'[i]) /\ (afterData'[i] => afterData[i])
      BY <1>2, Zenon
    <3> QED
      BY <3>2, <3>3
  <2> QED
    BY <1>3, <2>1, <2>2, <2>3
<1>9. GapsShow(i)'
  BY <1>7, <1>8 DEF GapsShow
<1> QED
  BY <1>4, <1>9, Zenon DEF EndsInEvent

-----------------------------------------------------------------------------
(* Steps that leave the socket and the server alone. *)

\* A stream that is no listener, or ends as it did, asks nothing new of the wire.
LEMMA StreamsOnly ==
  ASSUME GapInv,
         UNCHANGED <<ref, link, wire, told, missed>>, mode' \in {mode, "exited"},
         \A i \in Streams : GapsShow(i)',
         \A i \in Streams : st'[i] = "live" =>
            st[i] = "live" /\ (EndsInEvent(i)' => EndsInEvent(i))
  PROVE  GapInv'
<1>1. EntriesInStep'
  BY DEF GapInv, EntriesInStep
<1>2. WireInStep'
  BY DEF GapInv, WireInStep, EventAt, SeamAt
<1>3. StreamsInStep'
  BY DEF GapInv, StreamsInStep, SeamAt
<1> QED
  BY <1>1, <1>2, <1>3 DEF GapInv

\* A consumer's own steps: opening and giving up change nothing that was given,
\* reading keeps the newest item, leaving drops everything.
LEMMA ConsumerGap ==
  ASSUME TypeOK, GapInv, NEW i \in Streams,
         Open(i) \/ Abandon(i) \/ Recv(i) \/ Drop(i) \/ RecvClosed(i)
  PROVE  GapInv'
<1>1. UNCHANGED <<mode, ref, link, wire, told, missed>>
  BY DEF Open, Abandon, Recv, Drop, RecvClosed, Leave, serverVars
<1>2. \A j \in Streams : GapsShow(j)
  BY DEF GapInv
<1>3. ASSUME NEW j \in Streams
      PROVE  /\ GapsShow(j)'
             /\ st'[j] = "live" => st[j] = "live" /\ (EndsInEvent(j)' => EndsInEvent(j))
  <2>1. CASE Open(i) \/ Abandon(i)
    <3>1. /\ UNCHANGED <<inbox, lost, afterData>>
          /\ Reading(j) => Reading(j)'
          /\ st'[j] = "live" => st[j] = "live"
      BY <2>1 DEF Open, Abandon, Reading, TypeOK
    <3> QED
      BY <1>2, <3>1, SameFeed
  <2>2. CASE Recv(i) /\ j = i
    BY <1>2, <2>2, RecvFeed DEF Recv
  <2>3. CASE Recv(i) /\ j # i
    <3>1. inbox'[j] = inbox[j] /\ lost'[j] = lost[j] /\ afterData'[j] = afterData[j]
      BY <2>3, Zenon DEF Recv, TypeOK
    <3>2. st'[j] = st[j] /\ (Reading(j) => Reading(j)')
      BY <2>3 DEF Recv, Reading
    <3> QED
      BY <1>2, <3>1, <3>2, SameFeed
  <2>4. CASE Leave(i) /\ j = i
    <3>1. inbox'[j] = <<>> /\ ~lost'[j] /\ ~afterData'[j] /\ st'[j] # "live"
      BY <2>4 DEF Leave, TypeOK
    <3> QED
      BY <3>1 DEF GapsShow
  <2>5. CASE Leave(i) /\ j # i
    <3>1. inbox'[j] = inbox[j] /\ lost'[j] = lost[j] /\ afterData'[j] = afterData[j]
      BY <2>5, Zenon DEF Leave, TypeOK
    <3>2. st'[j] = st[j] /\ (Reading(j) => Reading(j)')
      BY <2>5 DEF Leave, Reading, TypeOK
    <3> QED
      BY <1>2, <3>1, <3>2, SameFeed
  <2> QED
    BY <2>1, <2>2, <2>3, <2>4, <2>5 DEF Drop, RecvClosed
<1> QED
  BY <1>1, <1>3, StreamsOnly

LEMMA QuietGap ==
  ASSUME GapInv, UNCHANGED <<ref, link, wire, told, missed, st, inbox, lost, afterData>>,
         mode' \in {mode, "exited"}
  PROVE  GapInv'
<1>1. \A j \in Streams : GapsShow(j)' /\ (EndsInEvent(j)' <=> EndsInEvent(j))
  BY SameFeed DEF GapInv, Reading
<1> QED
  BY <1>1, StreamsOnly

-----------------------------------------------------------------------------
(* Steps of the network. *)

\* What was given does not change when only the wire does.
LEMMA SameStreams ==
  ASSUME GapInv, UNCHANGED <<st, inbox, lost, afterData>>
  PROVE  \A i \in Streams : GapsShow(i)' /\ (EndsInEvent(i)' <=> EndsInEvent(i))
BY SameFeed DEF GapInv, Reading

\* A socket closed from this side, or newly opened, has an empty wire.
LEMMA EmptyWire ==
  ASSUME wire' = <<>>
  PROVE  WireInStep'
BY DEF WireInStep, EventAt, SeamAt

LEMMA LinkDiesGap ==
  ASSUME TypeOK, GapInv, LinkDies
  PROVE  GapInv'
<1>1. /\ link' = "dead" /\ UNCHANGED <<mode, ref, st, inbox, lost, afterData, told>>
      /\ wire' = wire \/ wire' = <<>>
  BY DEF LinkDies, clientVars
<1>2. \A i \in Streams : GapsShow(i)' /\ (EndsInEvent(i)' <=> EndsInEvent(i))
  BY <1>1, SameStreams
<1>3. EntriesInStep'
  BY <1>1 DEF GapInv, EntriesInStep
<1>4. WireInStep'
  BY <1>1, EmptyWire DEF GapInv, WireInStep, EventAt, SeamAt
<1>5. StreamsInStep'
  BY <1>1, <1>2 DEF GapInv, StreamsInStep, SeamAt
<1> QED
  BY <1>2, <1>3, <1>4, <1>5 DEF GapInv

\* A frame put on the wire behind the others.
LEMMA LongerWire ==
  ASSUME TypeOK, NEW f \in Frame, wire' = Append(wire, f)
  PROVE  /\ Len(wire) \in Nat
         /\ DOMAIN wire = 1 .. Len(wire)
         /\ DOMAIN wire' = 1 .. Len(wire) + 1
         /\ \A k \in 1 .. Len(wire) : wire'[k] = wire[k]
         /\ wire'[Len(wire) + 1] = f
<1>1. wire \in Seq(Frame)
  BY DEF TypeOK
<1> HIDE DEF Frame
<1> QED
  BY <1>1

\* An event put on the wire after a gap finds no other event of its subscription under
\* way, and no listener whose newest item is an event.
LEMMA PublishGap ==
  ASSUME TypeOK, LinkInStep, ServerInStep, GapInv, NEW s \in Subs, Publish(s)
  PROVE  GapInv'
<1>1. UNCHANGED <<mode, ref, link, st, inbox, lost, afterData, told>>
  BY DEF Publish, clientVars
<1>2. \A i \in Streams : GapsShow(i)' /\ (EndsInEvent(i)' <=> EndsInEvent(i))
  BY <1>1, SameStreams
<1>3. EntriesInStep'
  BY <1>1 DEF GapInv, EntriesInStep
<1>4. CASE Delivering(s)
  <2> DEFINE f == [sub |-> s, kind |-> IF s \in missed THEN "gap" ELSE "data"]
  <2>1. link = "up" /\ wire' = Append(wire, f) /\ missed' = missed \ {s}
        /\ told[s] \in {"subscribed", "twice"}
    BY <1>4 DEF Publish, Delivering
  <2>2. f \in Frame /\ f.sub = s /\ f.kind \in Event /\ (f.kind \in Seam <=> s \in missed)
    BY DEF Frame, Event, Seam
  <2> HIDE DEF f
  <2>3. /\ Len(wire) \in Nat
        /\ DOMAIN wire = 1 .. Len(wire)
        /\ DOMAIN wire' = 1 .. Len(wire) + 1
        /\ \A k \in 1 .. Len(wire) : wire'[k] = wire[k]
        /\ wire'[Len(wire) + 1] = f
    BY <2>1, <2>2, LongerWire
  <2>4. \A t \in Subs : \A k \in 1 .. Len(wire) :
          (EventAt(t, k)' <=> EventAt(t, k)) /\ (SeamAt(t, k)' <=> SeamAt(t, k))
    BY <2>3 DEF EventAt, SeamAt
  <2>5. WireInStep'
    <3>1. ASSUME NEW t \in Subs, t \in missed' \/ told'[t] \notin {"subscribed", "twice"},
                 NEW k \in DOMAIN wire'
          PROVE  ~EventAt(t, k)'
      <4>1. t # s /\ (t \in missed \/ told[t] \notin {"subscribed", "twice"})
        BY <1>1, <2>1, <3>1
      <4>2. CASE k = Len(wire) + 1
        BY <2>2, <2>3, <4>1, <4>2 DEF EventAt
      <4>3. CASE k # Len(wire) + 1
        <5>1. k \in 1 .. Len(wire)
          BY <2>3, <4>3
        <5> QED
          BY <2>1, <2>3, <2>4, <4>1, <5>1 DEF GapInv, WireInStep
      <4> QED
        BY <4>2, <4>3
    <3>2. ASSUME NEW t \in Subs, NEW k \in DOMAIN wire', SeamAt(t, k)', NEW l \in 1 .. k - 1
          PROVE  ~EventAt(t, l)'
      <4>1. l \in 1 .. Len(wire) /\ l \in DOMAIN wire
        BY <2>3
      <4>2. CASE k = Len(wire) + 1
        <5>1. t = s /\ s \in missed
          BY <2>2, <2>3, <3>2, <4>2 DEF SeamAt
        <5> QED
          BY <2>1, <2>4, <4>1, <5>1 DEF GapInv, WireInStep
      <4>3. CASE k # Len(wire) + 1
        <5>1. k \in DOMAIN wire /\ k \in 1 .. Len(wire)
          BY <2>3, <4>3
        <5> QED
          BY <2>4, <3>2, <4>1, <5>1 DEF GapInv, WireInStep
      <4> QED
        BY <4>2, <4>3
    <3> QED
      BY <1>1, <2>1, <3>1, <3>2 DEF WireInStep
  <2>6. StreamsInStep'
    <3>1. mode \in {"connecting", "replaying"} =>
            \A i \in Streams : st[i] = "live" => ~EndsInEvent(i)
      BY DEF GapInv, StreamsInStep
    <3>2. ASSUME mode = "running", NEW i \in Streams, st[i] = "live", EndsInEvent(i)
          PROVE  /\ SubOf[i] \notin missed /\ told[SubOf[i]] = "subscribed"
                 /\ \A k \in DOMAIN wire : ~SeamAt(SubOf[i], k)
      BY <2>1, <3>2 DEF GapInv, StreamsInStep
    <3>3. ASSUME mode = "running", NEW i \in Streams, st[i] = "live", EndsInEvent(i),
                 NEW k \in DOMAIN wire'
          PROVE  ~SeamAt(SubOf[i], k)'
      <4>1. CASE k = Len(wire) + 1
        BY <2>2, <2>3, <3>2, <3>3, <4>1 DEF SeamAt
      <4>2. CASE k # Len(wire) + 1
        <5>1. k \in DOMAIN wire /\ wire'[k] = wire[k]
          BY <2>3, <4>2
        <5> QED
          BY <3>2, <3>3, <5>1 DEF SeamAt
      <4> QED
        BY <4>1, <4>2
    <3>4. missed' \subseteq missed
      BY <2>1
    <3> QED
      BY <1>1, <1>2, <3>1, <3>2, <3>3, <3>4 DEF StreamsInStep
  <2> QED
    BY <1>2, <1>3, <2>5, <2>6 DEF GapInv
<1>5. CASE ~Delivering(s)
  <2>1. UNCHANGED wire /\ missed' = missed \cup {s}
    BY <1>5 DEF Publish
  <2>2. WireInStep'
    BY <1>1, <1>5, <2>1 DEF GapInv, WireInStep, EventAt, SeamAt, Delivering
  <2>3. StreamsInStep'
    BY <1>1, <1>2, <1>5, <2>1 DEF GapInv, StreamsInStep, SeamAt, Delivering
  <2> QED
    BY <1>2, <1>3, <2>2, <2>3 DEF GapInv
<1> QED
  BY <1>4, <1>5

-----------------------------------------------------------------------------
(* Steps of the manager. *)

\* What a broadcast gives every stream.
LEMMA BroadcastStreams ==
  ASSUME TypeOK, GapInv, NEW receivers \in SUBSET Streams, NEW item,
         Broadcast(receivers, item),
         \A i \in Streams : Reading(i) => Reading(i)',
         \A i \in receivers : Reading(i) /\ (item \in Seam => ~EndsInEvent(i))
  PROVE  \A i \in Streams :
           /\ GapsShow(i)'
           /\ i \in receivers => (EndsInEvent(i)' <=> item \in Event)
           /\ i \notin receivers => (EndsInEvent(i)' <=> EndsInEvent(i))
<1> SUFFICES ASSUME NEW i \in Streams
             PROVE  /\ GapsShow(i)'
                    /\ i \in receivers => (EndsInEvent(i)' <=> item \in Event)
                    /\ i \notin receivers => (EndsInEvent(i)' <=> EndsInEvent(i))
  OBVIOUS
<1>1. GapsShow(i)
  BY DEF GapInv
<1>2. CASE i \in receivers
  BY <1>1, <1>2, BroadcastFeed
<1>3. CASE i \notin receivers
  <2>1. inbox'[i] = inbox[i] /\ (lost'[i] <=> lost[i]) /\ afterData'[i] = afterData[i]
    BY <1>3, Zenon DEF Broadcast
  <2>2. lost'[i] \in BOOLEAN /\ lost[i] \in BOOLEAN
    BY <2>1, Zenon DEF Broadcast, TypeOK
  <2>3. lost'[i] = lost[i]
    BY <2>1, <2>2, Zenon
  <2> QED
    BY <1>1, <1>3, <2>1, <2>3, SameFeed
<1> QED
  BY <1>2, <1>3

\* Of subscription t nothing comes onto a wire but a rejection, and what is on it stays
\* in its place.
MildWire(t) == \A k \in DOMAIN wire' :
  /\ EventAt(t, k)' => k \in DOMAIN wire /\ EventAt(t, k)
  /\ SeamAt(t, k)' => k \in DOMAIN wire /\ SeamAt(t, k)

NoEventLeft(t) == \A k \in DOMAIN wire' : ~EventAt(t, k)'

LEMMA MildWireInStep ==
  ASSUME TypeOK, GapInv, wire' \in Seq(Frame), UNCHANGED <<link, missed>>, link = "up",
         \A t \in Subs : MildWire(t) \/ NoEventLeft(t),
         \A t \in Subs : told[t] \in {"subscribed", "twice"} =>
           told'[t] \in {"subscribed", "twice"} \/ NoEventLeft(t)
  PROVE  WireInStep'
<1>1. ASSUME NEW t \in Subs, t \in missed' \/ told'[t] \notin {"subscribed", "twice"},
             NEW k \in DOMAIN wire'
      PROVE  ~EventAt(t, k)'
  BY <1>1 DEF GapInv, WireInStep, MildWire, NoEventLeft
<1>2. ASSUME NEW t \in Subs, NEW k \in DOMAIN wire', SeamAt(t, k)', NEW l \in 1 .. k - 1
      PROVE  ~EventAt(t, l)'
  <2>1. l \in DOMAIN wire'
    <3> HIDE DEF Frame
    <3> QED
      BY <1>2
  <2>2. CASE NoEventLeft(t)
    BY <2>1, <2>2 DEF NoEventLeft
  <2>3. CASE MildWire(t)
    <3>1. k \in DOMAIN wire /\ SeamAt(t, k)
      BY <1>2, <2>3 DEF MildWire
    <3>2. ~EventAt(t, l)
      BY <3>1 DEF GapInv, WireInStep
    <3> QED
      BY <2>1, <2>3, <3>2 DEF MildWire
  <2> QED
    BY <2>2, <2>3
<1> QED
  BY <1>1, <1>2 DEF WireInStep

LEMMA SubscribeWire ==
  ASSUME TypeOK, NEW s \in Subs, told[s] = "none", SubscribeOnWire(s), link = "up"
  PROVE  wire' \in Seq(Frame) /\ \A t \in Subs : MildWire(t)
<1>1. PICK answer \in Answers(s) : wire' = wire \o Rejections(s, answer)
  BY DEF SubscribeOnWire
<1>2. wire \in Seq(Frame)
  BY DEF TypeOK
<1>3. CASE answer = "rejected"
  <2> DEFINE f == [sub |-> s, kind |-> "reject"]
  <2>1. f \in Frame /\ f.kind \notin Event /\ f.kind \notin Seam
    BY DEF Frame, Event, Seam
  <2>2. wire' = wire \o <<f>>
    BY <1>1, <1>3 DEF Rejections
  <2> HIDE DEF f, Frame
  <2>3. wire' = Append(wire, f)
    BY <1>2, <2>1, <2>2
  <2>4. /\ Len(wire) \in Nat
        /\ DOMAIN wire = 1 .. Len(wire)
        /\ DOMAIN wire' = 1 .. Len(wire) + 1
        /\ \A k \in 1 .. Len(wire) : wire'[k] = wire[k]
        /\ wire'[Len(wire) + 1] = f
    BY <2>1, <2>3, LongerWire
  <2>5. \A k \in DOMAIN wire' : k \in DOMAIN wire \/ wire'[k] = f
    BY <2>4
  <2> QED
    BY <1>2, <2>1, <2>3, <2>4, <2>5 DEF MildWire, EventAt, SeamAt
<1>4. CASE answer # "rejected"
  <2>1. Rejections(s, answer) = <<>>
    BY <1>4 DEF Rejections
  <2> HIDE DEF Frame
  <2>2. wire' = wire
    BY <1>1, <1>2, <2>1
  <2> QED
    BY <1>2, <2>2 DEF MildWire, EventAt, SeamAt
<1> QED
  BY <1>3, <1>4

LEMMA UnsubscribeWire ==
  ASSUME TypeOK, NEW s \in Subs, UnsubscribeOnWire(s), link = "up"
  PROVE  /\ wire' \in Seq(Frame) /\ NoEventLeft(s)
         /\ \A t \in Subs \ {s} : MildWire(t)
<1>1. wire' = [k \in DOMAIN wire |-> Late(wire[k], s)]
  BY DEF UnsubscribeOnWire
<1>2. wire \in Seq(Frame) /\ \A k \in DOMAIN wire : wire[k] \in Frame
  BY DEF TypeOK
<1>3. \A f \in Frame :
        /\ Late(f, s).sub = f.sub
        /\ f.sub # s => Late(f, s) = f
        /\ Late(f, s).kind \in Event => f.sub # s
  BY DEF Late, Frame, Event
<1>4. wire' \in Seq(Frame)
  BY <1>1, <1>2, LateWire
<1> HIDE DEF Frame, Late
<1>5. DOMAIN wire' = DOMAIN wire /\ \A k \in DOMAIN wire : wire'[k] = Late(wire[k], s)
  BY <1>1
<1>6. NoEventLeft(s)
  BY <1>2, <1>3, <1>5 DEF NoEventLeft, EventAt
<1>7. ASSUME NEW t \in Subs \ {s}
      PROVE  MildWire(t)
  <2>1. \A k \in DOMAIN wire' : wire'[k].sub = t => wire'[k] = wire[k]
    BY <1>2, <1>3, <1>5, <1>7
  <2> QED
    BY <1>5, <2>1 DEF MildWire, EventAt, SeamAt
<1> QED
  BY <1>4, <1>6, <1>7

\* Giving the connection up puts the reconnect marker behind whatever each listener
\* was given.
LEMMA GiveUpGap ==
  ASSUME TypeOK, GapInv, GiveUp
  PROVE  GapInv'
<1>1. /\ Broadcast(Listening, "err") /\ wire' = <<>> /\ mode' = "connecting"
      /\ UNCHANGED <<ref, st>>
  BY DEF GiveUp, CloseSocket
<1>2. "err" \notin Event /\ "err" \notin Seam /\ Listening \in SUBSET Streams
  BY DEF Event, Seam, Listening
<1>3. \A i \in Streams :
        /\ GapsShow(i)'
        /\ i \in Listening => (EndsInEvent(i)' <=> "err" \in Event)
  <2>1. \A i \in Streams : Reading(i) => Reading(i)'
    BY <1>1 DEF Reading
  <2>2. \A i \in Listening : Reading(i)
    BY DEF Listening, Reading
  <2> QED
    BY <1>1, <1>2, <2>1, <2>2, BroadcastStreams
<1>4. EntriesInStep'
  BY <1>1 DEF GapInv, EntriesInStep
<1>5. WireInStep'
  BY <1>1, EmptyWire
<1>6. StreamsInStep'
  BY <1>1, <1>2, <1>3 DEF StreamsInStep, Listening
<1> QED
  BY <1>3, <1>4, <1>5, <1>6 DEF GapInv

LEMMA ShutdownGap ==
  ASSUME TypeOK, GapInv, HandleShutdown
  PROVE  GapInv'
<1>1. /\ Broadcast(Listening, "shut") /\ mode' = "parked"
      /\ ref' = [s \in Subs |-> 0]
      /\ st' = [i \in Streams |-> IF st[i] = "live" THEN "detached" ELSE st[i]]
      /\ wire' = <<>> \/ UNCHANGED <<link, wire, told, missed>>
  BY DEF HandleShutdown, CloseSocket, serverVars
<1>2. \A i \in Streams : GapsShow(i)'
  <2>1. \A i \in Streams : Reading(i) => Reading(i)'
    BY <1>1 DEF Reading
  <2>2. \A i \in Listening : Reading(i)
    BY DEF Listening, Reading
  <2>3. Listening \in SUBSET Streams /\ "shut" \notin Seam
    BY DEF Listening, Seam
  <2> QED
    BY <1>1, <2>1, <2>2, <2>3, BroadcastStreams
<1>3. EntriesInStep'
  BY <1>1 DEF EntriesInStep
<1>4. WireInStep'
  BY <1>1, EmptyWire DEF GapInv, WireInStep, EventAt, SeamAt
<1>5. StreamsInStep'
  BY <1>1 DEF StreamsInStep
<1> QED
  BY <1>2, <1>3, <1>4, <1>5 DEF GapInv

\* An event that is dispatched is the newest item of its listeners, and nothing
\* behind it on the wire follows a gap.
LEMMA DispatchGap ==
  ASSUME TypeOK, ServerInStep, GapInv, Dispatch
  PROVE  GapInv'
<1> DEFINE s    == wire[1].sub
           item == IF wire[1].kind = "reject" THEN "err" ELSE wire[1].kind
<1>1. /\ mode = "running" /\ wire # <<>> /\ wire' = Tail(wire)
      /\ Broadcast(Receivers(s), item)
      /\ UNCHANGED <<mode, ref, link, st, told, missed>>
  <2>1. wire # <<>> => Head(wire) = wire[1]
    BY DEF TypeOK
  <2> QED
    BY <2>1 DEF Dispatch
<1>2. /\ Len(wire) \in Nat /\ Len(wire) > 0 /\ DOMAIN wire = 1 .. Len(wire)
      /\ 1 \in DOMAIN wire /\ wire[1] \in Frame
      /\ DOMAIN wire' = 1 .. Len(wire) - 1
      /\ \A k \in 1 .. Len(wire) - 1 : wire'[k] = wire[k + 1] /\ k + 1 \in DOMAIN wire
  <2>1. wire \in Seq(Frame)
    BY DEF TypeOK
  <2> HIDE DEF Frame
  <2> QED
    BY <1>1, <2>1
<1>3. /\ s \in Subs
      /\ item \in Event <=> EventAt(s, 1)
      /\ item \in Seam <=> SeamAt(s, 1)
  BY <1>2 DEF Frame, Event, Seam, EventAt, SeamAt
<1> HIDE DEF s, item
<1>4. \A i \in Receivers(s) : Reading(i) /\ (item \in Seam => ~EndsInEvent(i))
  BY <1>1, <1>2, <1>3 DEF Receivers, Reading, GapInv, StreamsInStep
<1>5. \A i \in Streams :
        /\ GapsShow(i)'
        /\ i \in Receivers(s) => (EndsInEvent(i)' <=> item \in Event)
        /\ i \notin Receivers(s) => (EndsInEvent(i)' <=> EndsInEvent(i))
  <2>1. \A i \in Streams : Reading(i) => Reading(i)'
    BY <1>1 DEF Reading
  <2>2. Receivers(s) \in SUBSET Streams
    BY DEF Receivers
  <2> QED
    BY <1>1, <1>4, <2>1, <2>2, BroadcastStreams
<1>6. EntriesInStep'
  BY <1>1 DEF GapInv, EntriesInStep
<1>7. \A t : \A k \in 1 .. Len(wire) - 1 :
        (EventAt(t, k)' <=> EventAt(t, k + 1)) /\ (SeamAt(t, k)' <=> SeamAt(t, k + 1))
  BY <1>2 DEF EventAt, SeamAt
<1>8. WireInStep'
  <2>1. ASSUME NEW t \in Subs, NEW k \in DOMAIN wire', SeamAt(t, k)', NEW l \in 1 .. k - 1
        PROVE  ~EventAt(t, l)'
    <3>1. SeamAt(t, k + 1) /\ k + 1 \in DOMAIN wire /\ l + 1 \in 1 .. (k + 1) - 1
      BY <1>2, <1>7, <2>1
    <3>2. l \in 1 .. Len(wire) - 1
      BY <1>2
    <3> QED
      BY <1>7, <3>1, <3>2 DEF GapInv, WireInStep
  <2>2. ASSUME link = "up", NEW t \in Subs,
               t \in missed \/ told[t] \notin {"subscribed", "twice"}, NEW k \in DOMAIN wire'
        PROVE  ~EventAt(t, k)'
    BY <1>2, <1>7, <2>2 DEF GapInv, WireInStep
  <2>3. link \notin {"none", "closing"}
    BY <1>1 DEF GapInv, WireInStep
  <2> QED
    BY <1>1, <2>1, <2>2, <2>3 DEF WireInStep
<1>9. StreamsInStep'
  <2>1. ASSUME NEW i \in Streams, st[i] = "live", EndsInEvent(i)', i \in Receivers(s)
        PROVE  /\ \A k \in DOMAIN wire' : ~SeamAt(SubOf[i], k)'
               /\ ~(link = "up" /\ (SubOf[i] \in missed \/ told[SubOf[i]] # "subscribed"))
    <3>1. EventAt(s, 1) /\ SubOf[i] = s
      BY <1>3, <1>5, <2>1 DEF Receivers
    <3>2. ASSUME NEW k \in DOMAIN wire', SeamAt(SubOf[i], k)'
          PROVE  FALSE
      <4>1. SeamAt(s, k + 1) /\ k + 1 \in DOMAIN wire /\ 1 \in 1 .. (k + 1) - 1
        BY <1>2, <1>7, <3>1, <3>2
      <4> QED
        BY <1>3, <3>1, <4>1 DEF GapInv, WireInStep
    <3>3. ~(link = "up" /\ (s \in missed \/ told[s] # "subscribed"))
      BY <1>1, <1>2, <1>3, <3>1 DEF GapInv, WireInStep, ServerInStep
    <3> QED
      BY <3>1, <3>2, <3>3
  <2>2. ASSUME NEW i \in Streams, st[i] = "live", EndsInEvent(i)', i \notin Receivers(s)
        PROVE  /\ \A k \in DOMAIN wire' : ~SeamAt(SubOf[i], k)'
               /\ ~(link = "up" /\ (SubOf[i] \in missed \/ told[SubOf[i]] # "subscribed"))
    <3>1. EndsInEvent(i)
      BY <1>5, <2>2
    <3> QED
      BY <1>1, <1>2, <1>7, <2>2, <3>1 DEF GapInv, StreamsInStep
  <2> QED
    BY <1>1, <2>1, <2>2 DEF StreamsInStep
<1> QED
  BY <1>5, <1>6, <1>8, <1>9 DEF GapInv

\* A stream whose Acquire is taken was given nothing yet, and it is the only one that
\* listens to a subscription the server is told of only now.
LEMMA AcquireGap ==
  ASSUME CountInv, LinkInStep, ServerInStep, GapInv, HandleAcquire
  PROVE  GapInv'
<1> DEFINE c == Head(cmds)
<1>1. /\ c.op = "acquire" /\ c \in Command /\ InStep(c, st, meddled)
      /\ cmds # <<>> /\ TypeOK
  <2>1. cmds # <<>> => c = cmds[1] /\ 1 \in DOMAIN cmds
    BY DEF CountInv, TypeOK
  <2> QED
    BY <2>1, QueueHead DEF HandleAcquire, NextCommand, CountInv, Counted, QueueInStep
<1>2. PICK s \in Subs, i \in Streams :
        /\ c.sub = s /\ c.from = i /\ s = SubOf[i]
        /\ st[i] \in {"acquiring", "abandoned"}
  BY <1>1, QueueHead DEF InStep, FromStream
<1>3. /\ mode \in {"parked", "running"}
      /\ mode' = IF mode = "parked" THEN "connecting" ELSE mode
      /\ ref' = [ref EXCEPT ![s] = @ + 1]
      /\ \/ st' = [st EXCEPT ![i] = "live"]
         \/ st' = [st EXCEPT ![i] = "idle"] /\ st[i] # "acquiring"
      /\ inbox' = inbox \/ (inbox' = [inbox EXCEPT ![i] = <<"err">>] /\ st[i] = "acquiring")
      /\ IF ref[s] = 0 /\ IsConnected THEN SubscribeOnWire(s) ELSE UNCHANGED <<told, wire>>
      /\ UNCHANGED <<link, closed, lost, afterData, missed>>
  BY <1>2 DEF HandleAcquire, NextCommand, Serving
<1> HIDE DEF c
<1>4. GapsShow(i)' /\ ~EndsInEvent(i)'
  <2>1. inbox[i] = <<>> /\ ~lost[i] /\ ~afterData[i]
    BY <1>2 DEF GapInv, GapsShow, Reading
  <2>2. inbox'[i] = <<>> \/ (inbox'[i] = <<"err">> /\ st'[i] = "live")
    BY <1>1, <1>2, <1>3, <2>1 DEF TypeOK
  <2>3. ~lost'[i] /\ ~afterData'[i]
    BY <1>3, <2>1
  <2> QED
    BY <2>2, <2>3 DEF GapsShow, EndsInEvent, Reading, Event
<1>5. ASSUME NEW j \in Streams, j # i
      PROVE  /\ GapsShow(j)' /\ (EndsInEvent(j)' <=> EndsInEvent(j))
             /\ st'[j] = st[j]
  <2>1. inbox'[j] = inbox[j] /\ lost'[j] = lost[j] /\ afterData'[j] = afterData[j]
    BY <1>1, <1>3, <1>5 DEF TypeOK
  <2>2. st'[j] = st[j]
    BY <1>1, <1>3, <1>5 DEF TypeOK
  <2> QED
    BY <2>1, <2>2, SameFeed DEF GapInv, Reading
<1>6. EntriesInStep'
  <2>1. \A t \in Subs : ref'[t] >= ref[t] /\ ref[t] \in Nat /\ ref'[s] > 0
    BY <1>1, <1>2, <1>3 DEF TypeOK
  <2>2. ASSUME NEW j \in Streams, st'[j] = "live"
        PROVE  ref'[SubOf[j]] > 0
    <3>1. CASE j = i
      BY <1>2, <2>1, <3>1
    <3>2. CASE j # i
      <4>1. ref[SubOf[j]] > 0 /\ SubOf[j] \in Subs
        BY <1>5, <2>2, <3>2, WsAssumption DEF GapInv, EntriesInStep
      <4>2. /\ ref'[SubOf[j]] >= ref[SubOf[j]] /\ ref[SubOf[j]] \in Nat
            /\ ref'[SubOf[j]] \in Nat
        BY <1>1, <1>2, <1>3, <2>1, <4>1 DEF TypeOK
      <4> QED
        BY <4>1, <4>2
    <3> QED
      BY <3>1, <3>2
  <2>3. mode' # "parked"
    BY <1>3
  <2> QED
    BY <2>2, <2>3 DEF EntriesInStep
<1>7. CASE ref[s] = 0 /\ IsConnected /\ link = "up"
  <2>1. mode = "running" /\ told[s] = "none" /\ SubscribeOnWire(s)
    BY <1>2, <1>3, <1>7 DEF LinkInStep, ServerInStep
  <2>2. wire' \in Seq(Frame) /\ \A t \in Subs : MildWire(t)
    BY <1>1, <1>2, <1>7, <2>1, SubscribeWire
  <2>3. /\ told'[s] \in {"subscribed", "rejected"}
        /\ \A t \in Subs \ {s} : told'[t] = told[t]
    BY <1>1, <1>2, <1>7, <2>1, SubscribeTold
  <2>4. WireInStep'
    <3>1. \A t \in Subs : told[t] \in {"subscribed", "twice"} =>
            told'[t] \in {"subscribed", "twice"}
      BY <2>1, <2>3
    <3> QED
      BY <1>1, <1>3, <1>7, <2>2, <3>1, MildWireInStep
  <2>5. StreamsInStep'
    <3>1. ASSUME NEW j \in Streams, st'[j] = "live", EndsInEvent(j)'
          PROVE  st[j] = "live" /\ EndsInEvent(j) /\ SubOf[j] # s /\ SubOf[j] \in Subs
      <4>1. j # i
        BY <1>4, <3>1
      <4>2. ref[SubOf[j]] > 0
        BY <1>5, <3>1, <4>1 DEF GapInv, EntriesInStep
      <4> QED
        BY <1>5, <1>7, <3>1, <4>1, <4>2, WsAssumption
    <3>2. ASSUME NEW j \in Streams, st'[j] = "live", EndsInEvent(j)'
          PROVE  /\ \A k \in DOMAIN wire' : ~SeamAt(SubOf[j], k)'
                 /\ SubOf[j] \notin missed /\ told'[SubOf[j]] = "subscribed"
      <4>1. /\ \A k \in DOMAIN wire : ~SeamAt(SubOf[j], k)
            /\ SubOf[j] \notin missed /\ told[SubOf[j]] = "subscribed"
        BY <1>7, <2>1, <3>1, <3>2 DEF GapInv, StreamsInStep
      <4> QED
        BY <2>2, <2>3, <3>1, <3>2, <4>1 DEF MildWire
    <3> QED
      BY <1>3, <2>1, <3>2 DEF StreamsInStep
  <2> QED
    BY <1>4, <1>5, <1>6, <2>4, <2>5 DEF GapInv
<1>8. CASE ~(ref[s] = 0 /\ IsConnected /\ link = "up")
  <2>1. UNCHANGED <<wire, told>>
    BY <1>3, <1>8 DEF SubscribeOnWire
  <2>2. WireInStep'
    BY <1>3, <2>1 DEF GapInv, WireInStep, EventAt, SeamAt
  <2>3. StreamsInStep'
    <3>1. ASSUME mode = "parked", NEW j \in Streams, st'[j] = "live"
          PROVE  ~EndsInEvent(j)'
      <4>1. j # i => st[j] = "live" /\ ref[SubOf[j]] > 0 /\ ref[SubOf[j]] = 0
        BY <1>5, <3>1, WsAssumption DEF GapInv, EntriesInStep
      <4> QED
        BY <1>4, <4>1
    <3>2. ASSUME mode = "running", NEW j \in Streams, st'[j] = "live", EndsInEvent(j)'
          PROVE  st[j] = "live" /\ EndsInEvent(j)
      BY <1>4, <1>5, <3>2
    <3> QED
      BY <1>3, <2>1, <3>1, <3>2 DEF GapInv, StreamsInStep, SeamAt
  <2> QED
    BY <1>4, <1>5, <1>6, <2>2, <2>3 DEF GapInv
<1> QED
  BY <1>7, <1>8

\* The last Release of a subscription leaves nobody listening to it; what is under way
\* of it is late from there on.
LEMMA ReleaseGap ==
  ASSUME CountInv, LinkInStep, GapInv, HandleRelease
  PROVE  GapInv'
<1> DEFINE c == Head(cmds)
           empty == \A t \in Subs : ref'[t] = 0
<1>1. /\ c.op = "release" /\ c \in Command /\ InStep(c, st, meddled)
      /\ cmds # <<>> /\ TypeOK
  <2>1. cmds # <<>> => c = cmds[1] /\ 1 \in DOMAIN cmds
    BY DEF CountInv, TypeOK
  <2> QED
    BY <2>1, QueueHead DEF HandleRelease, NextCommand, CountInv, Counted, QueueInStep
<1>2. PICK s \in Subs, i \in Streams \cup {NoStream} :
        /\ c.sub = s /\ c.from = i
        /\ i # NoStream => s = SubOf[i] /\ st[i] = "releasing"
  BY <1>1, QueueHead DEF InStep, FromStream
<1>3. /\ mode \in {"parked", "running"}
      /\ ref' = [ref EXCEPT ![s] = IF @ = 0 THEN 0 ELSE @ - 1]
      /\ st' = [j \in Streams |->
           IF j = i THEN "idle"
           ELSE IF ref[s] = 1 /\ j \in Receivers(s) THEN "detached" ELSE st[j]]
      /\ IF mode = "running" /\ empty
         THEN wire' = <<>> /\ mode' = "parked"
         ELSE /\ IF ref[s] = 1 /\ IsConnected THEN UnsubscribeOnWire(s) ELSE UNCHANGED <<told, wire>>
              /\ UNCHANGED <<mode, link, missed>>
      /\ UNCHANGED <<inbox, lost, afterData>>
  BY <1>2 DEF HandleRelease, NextCommand, Serving, CloseSocket
<1> HIDE DEF c
<1>4. ASSUME NEW j \in Streams
      PROVE  /\ GapsShow(j)' /\ (EndsInEvent(j)' <=> EndsInEvent(j))
             /\ st'[j] = "live" => st[j] = "live" /\ ~(ref[s] = 1 /\ SubOf[j] = s)
  <2>1. j = i => st[j] = "releasing"
    BY <1>2, WsAssumption
  <2>2. Reading(j) => Reading(j)'
    BY <1>3, <2>1 DEF Reading, Receivers
  <2>3. st'[j] = "live" => st[j] = "live" /\ ~(ref[s] = 1 /\ SubOf[j] = s)
    BY <1>3 DEF Receivers
  <2> QED
    BY <1>3, <2>2, <2>3, SameFeed DEF GapInv
<1>5. EntriesInStep'
  <2>1. ASSUME NEW j \in Streams, st'[j] = "live"
        PROVE  ref'[SubOf[j]] > 0
    <3>1. /\ st[j] = "live" /\ ~(ref[s] = 1 /\ SubOf[j] = s)
          /\ ref[SubOf[j]] > 0 /\ SubOf[j] \in Subs /\ ref[SubOf[j]] \in Nat
      BY <1>1, <1>4, <2>1, WsAssumption DEF GapInv, EntriesInStep, TypeOK
    <3>2. ref'[SubOf[j]] = IF SubOf[j] = s THEN ref[s] - 1 ELSE ref[SubOf[j]]
      BY <1>1, <1>2, <1>3, <3>1 DEF TypeOK
    <3> QED
      BY <3>1, <3>2
  <2>2. ASSUME mode' = "parked", NEW t \in Subs
        PROVE  ref'[t] = 0
    <3>1. CASE mode = "parked"
      <4>1. ref[t] = 0
        BY <3>1 DEF GapInv, EntriesInStep
      <4> QED
        BY <1>1, <1>3, <4>1 DEF TypeOK
    <3>2. CASE mode # "parked"
      BY <1>3, <2>2, <3>2
    <3> QED
      BY <3>1, <3>2
  <2> QED
    BY <2>1, <2>2 DEF EntriesInStep
<1>6. CASE mode = "running" /\ empty
  <2>1. WireInStep' /\ StreamsInStep'
    BY <1>3, <1>6, EmptyWire DEF StreamsInStep
  <2> QED
    BY <1>4, <1>5, <2>1 DEF GapInv
<1>7. CASE ~(mode = "running" /\ empty) /\ ref[s] = 1 /\ IsConnected /\ link = "up"
  <2>1. UnsubscribeOnWire(s) /\ UNCHANGED <<mode, link, missed>>
    BY <1>3, <1>7
  <2>2. wire' \in Seq(Frame) /\ NoEventLeft(s) /\ \A t \in Subs \ {s} : MildWire(t)
    BY <1>1, <1>7, <2>1, UnsubscribeWire
  <2>3. told' = [told EXCEPT ![s] = "none"]
    BY <1>1, <1>7, <2>1, UnsubscribeTold
  <2>4. WireInStep'
    <3>1. \A t \in Subs : told[t] \in {"subscribed", "twice"} =>
            told'[t] \in {"subscribed", "twice"} \/ NoEventLeft(t)
      BY <1>1, <2>2, <2>3 DEF TypeOK
    <3> QED
      BY <1>1, <1>7, <2>1, <2>2, <3>1, MildWireInStep
  <2>5. StreamsInStep'
    <3>1. mode = "running"
      BY <1>3, <1>7 DEF LinkInStep
    <3>2. ASSUME NEW j \in Streams, st'[j] = "live", EndsInEvent(j)'
          PROVE  /\ st[j] = "live" /\ EndsInEvent(j) /\ SubOf[j] # s /\ SubOf[j] \in Subs
                 /\ told'[SubOf[j]] = told[SubOf[j]]
      BY <1>1, <1>4, <1>7, <2>3, <3>2, WsAssumption DEF TypeOK
    <3>3. ASSUME NEW j \in Streams, st'[j] = "live", EndsInEvent(j)'
          PROVE  /\ \A k \in DOMAIN wire' : ~SeamAt(SubOf[j], k)'
                 /\ SubOf[j] \notin missed /\ told'[SubOf[j]] = "subscribed"
      <4>1. /\ \A k \in DOMAIN wire : ~SeamAt(SubOf[j], k)
            /\ SubOf[j] \notin missed /\ told[SubOf[j]] = "subscribed"
        BY <1>7, <3>1, <3>2, <3>3 DEF GapInv, StreamsInStep
      <4> QED
        BY <2>2, <3>2, <3>3, <4>1 DEF MildWire
    <3> QED
      BY <2>1, <3>1, <3>3 DEF StreamsInStep
  <2> QED
    BY <1>4, <1>5, <2>4, <2>5 DEF GapInv
<1>8. CASE ~(mode = "running" /\ empty) /\ ~(ref[s] = 1 /\ IsConnected /\ link = "up")
  <2>1. UNCHANGED <<wire, told, mode, link, missed>>
    BY <1>3, <1>8 DEF UnsubscribeOnWire
  <2>2. WireInStep'
    BY <2>1 DEF GapInv, WireInStep, EventAt, SeamAt
  <2>3. StreamsInStep'
    BY <1>4, <2>1 DEF GapInv, StreamsInStep, SeamAt
  <2> QED
    BY <1>4, <1>5, <2>2, <2>3 DEF GapInv
<1> QED
  BY <1>6, <1>7, <1>8

LEMMA ConnectGap ==
  ASSUME TypeOK, LinkInStep, GapInv, Connect
  PROVE  GapInv'
<1>1. /\ mode = "connecting" /\ mode' = "replaying"
      /\ UNCHANGED <<ref, st, inbox, lost, afterData, wire, told, missed>>
  BY DEF Connect, clientVars, serverVars
<1>2. \A i \in Streams : GapsShow(i)' /\ (EndsInEvent(i)' <=> EndsInEvent(i))
  BY <1>1, SameStreams
<1>3. wire' = <<>>
  BY <1>1 DEF GapInv, WireInStep, LinkInStep
<1>4. EntriesInStep' /\ WireInStep'
  BY <1>1, <1>3, EmptyWire DEF GapInv, EntriesInStep
<1>5. StreamsInStep'
  BY <1>1, <1>2 DEF GapInv, StreamsInStep
<1> QED
  BY <1>2, <1>4, <1>5 DEF GapInv

LEMMA ReplayGap ==
  ASSUME TypeOK, LinkInStep, GapInv,
         (\E s \in Subs : ReplayOne(s)) \/ ReplayDone \/ ReplayFails
  PROVE  GapInv'
<1>1. /\ mode = "replaying" /\ UNCHANGED <<ref, st, inbox, lost, afterData>>
      /\ mode' \in {"replaying", "running", "connecting"}
  BY DEF ReplayOne, ReplayDone, ReplayFails, clientVars
<1>2. \A i \in Streams : GapsShow(i)' /\ (EndsInEvent(i)' <=> EndsInEvent(i))
  BY <1>1, SameStreams
<1>3. EntriesInStep'
  BY <1>1 DEF GapInv, EntriesInStep
<1>4. \A i \in Streams : st'[i] = "live" => ~EndsInEvent(i)'
  BY <1>1, <1>2 DEF GapInv, StreamsInStep
<1>5. StreamsInStep'
  BY <1>1, <1>4 DEF StreamsInStep
<1>6. ASSUME NEW s \in Subs, ReplayOne(s)
      PROVE  WireInStep'
  <2>1. link = "up" /\ told[s] = "none" /\ SubscribeOnWire(s) /\ UNCHANGED <<link, missed>>
    BY <1>6 DEF ReplayOne
  <2>2. wire' \in Seq(Frame) /\ \A t \in Subs : MildWire(t)
    BY <2>1, SubscribeWire
  <2>3. \A t \in Subs : told[t] \in {"subscribed", "twice"} =>
          told'[t] \in {"subscribed", "twice"}
    BY <2>1, SubscribeTold
  <2> QED
    BY <2>1, <2>2, <2>3, MildWireInStep
<1>7. ReplayDone => WireInStep'
  BY DEF ReplayDone, serverVars, GapInv, WireInStep, EventAt, SeamAt
<1>8. ReplayFails => WireInStep'
  BY EmptyWire DEF ReplayFails, CloseSocket
<1> QED
  BY <1>2, <1>3, <1>5, <1>6, <1>7, <1>8 DEF GapInv

LEMMA ExitGap ==
  ASSUME GapInv, Exit
  PROVE  GapInv'
<1>1. /\ mode' = "exited" /\ UNCHANGED <<ref, st, inbox, lost, afterData>>
      /\ wire' = <<>> \/ UNCHANGED <<link, wire, told, missed>>
  BY DEF Exit, CloseSocket, clientVars, serverVars
<1>2. \A i \in Streams : GapsShow(i)'
  BY <1>1, SameStreams
<1>3. EntriesInStep' /\ StreamsInStep'
  BY <1>1 DEF GapInv, EntriesInStep, StreamsInStep
<1>4. WireInStep'
  BY <1>1, EmptyWire DEF GapInv, WireInStep, EventAt, SeamAt
<1> QED
  BY <1>2, <1>3, <1>4 DEF GapInv

LEMMA GapStep ==
  ASSUME CountInv, LinkInStep, ServerInStep, GapInv, [Next]_vars
  PROVE  GapInv'
<1>1. TypeOK
  BY DEF CountInv
<1>2. HandleCommand => GapInv'
  BY <1>1, AcquireGap, ReleaseGap, ShutdownGap DEF HandleCommand
<1>3. Connect \/ (\E s \in Subs : ReplayOne(s)) \/ ReplayDone \/ ReplayFails => GapInv'
  BY <1>1, ConnectGap, ReplayGap
<1>4. RecvFails \/ HeartbeatFails \/ IdleTimeout \/ ParseFails => GapInv'
  BY <1>1, GiveUpGap DEF RecvFails, HeartbeatFails, IdleTimeout, ParseFails
<1>5. Dispatch \/ Exit => GapInv'
  BY <1>1, DispatchGap, ExitGap
<1>6. \A i \in Streams :
        Open(i) \/ Abandon(i) \/ Recv(i) \/ Drop(i) \/ RecvClosed(i) => GapInv'
  BY <1>1, ConsumerGap
<1>7. (\E s \in Subs : ForeignRelease(s)) \/ RequestShutdown \/ DropHandle => GapInv'
  BY QuietGap DEF ForeignRelease, RequestShutdown, DropHandle, clientVars, serverVars
<1>8. Network => GapInv'
  BY <1>1, LinkDiesGap, PublishGap DEF Network
<1>9. UNCHANGED vars => GapInv'
  BY QuietGap DEF vars, clientVars, serverVars
<1> QED
  BY <1>2, <1>3, <1>4, <1>5, <1>6, <1>7, <1>8, <1>9 DEF Next, Manager, Consumers, Outsiders

\* What a stream yielded last, what it lost and what it has not read, as one feed.
LEMMA FeedShows ==
  ASSUME TypeOK, NEW i \in Streams, GapsShow(i)
  PROVE  \A k \in 2 .. Len(Feed(i)) : Feed(i)[k] \in Seam => Feed(i)[k - 1] \notin Event
<1> DEFINE head == (IF afterData[i] THEN <<"data">> ELSE <<>>)
                     \o (IF lost[i] THEN <<"err">> ELSE <<>>)
<1>1. inbox[i] \in Seq(Item) /\ Len(inbox[i]) \in Nat
  BY DEF TypeOK
<1>2. /\ head \in Seq({"data", "err"}) /\ Len(head) \in 0 .. 2
      /\ \A k \in 1 .. Len(head) : head[k] \notin Seam
      /\ Len(head) > 0 /\ (~afterData[i] \/ lost[i]) => head[Len(head)] \notin Event
  <2>1. CASE afterData[i] /\ lost[i]
    <3>1. head = <<"data">> \o <<"err">>
      BY <2>1
    <3> HIDE DEF head
    <3>2. head \in Seq({"data", "err"}) /\ Len(head) = 2 /\ head[1] = "data" /\ head[2] = "err"
      BY <3>1
    <3> QED
      BY <3>2 DEF Event, Seam
  <2>2. CASE afterData[i] /\ ~lost[i]
    <3>1. head = <<"data">>
      BY <2>2
    <3> HIDE DEF head
    <3> QED
      BY <2>2, <3>1 DEF Event, Seam
  <2>3. CASE ~afterData[i] /\ lost[i]
    <3>1. head = <<"err">>
      BY <2>3
    <3> HIDE DEF head
    <3> QED
      BY <3>1 DEF Event, Seam
  <2>4. CASE ~afterData[i] /\ ~lost[i]
    <3>1. head = <<>>
      BY <2>4
    <3> HIDE DEF head
    <3> QED
      BY <3>1
  <2> QED
    BY <2>1, <2>2, <2>3, <2>4
<1>3. Feed(i) = head \o inbox[i]
  BY DEF Feed
<1> HIDE DEF head
<1>4. /\ Len(Feed(i)) = Len(head) + Len(inbox[i])
      /\ \A k \in 1 .. Len(head) : Feed(i)[k] = head[k]
      /\ \A k \in 1 .. Len(inbox[i]) : Feed(i)[Len(head) + k] = inbox[i][k]
  BY <1>1, <1>2, <1>3
<1> SUFFICES ASSUME NEW k \in 2 .. Len(Feed(i)), Feed(i)[k] \in Seam
             PROVE  Feed(i)[k - 1] \notin Event
  OBVIOUS
<1> DEFINE m == k - Len(head)
<1>5. k > Len(head) /\ m \in 1 .. Len(inbox[i]) /\ inbox[i][m] \in Seam
  BY <1>1, <1>2, <1>4, SMTT(30)
<1>6. CASE m = 1
  <2>1. ~afterData[i] \/ lost[i]
    BY <1>1, <1>5, <1>6 DEF GapsShow
  <2>2. k - 1 = Len(head) /\ Len(head) > 0 /\ k - 1 \in 1 .. Len(head)
    BY <1>1, <1>2, <1>4, <1>6
  <2> QED
    BY <1>2, <1>4, <2>1, <2>2
<1>7. CASE m # 1
  <2>1. m - 1 \in 1 .. Len(inbox[i]) /\ k - 1 = Len(head) + (m - 1) /\ m \in 2 .. Len(inbox[i])
    BY <1>1, <1>2, <1>5, <1>7
  <2>2. inbox[i][m - 1] \notin Event
    BY <1>5, <2>1 DEF GapsShow
  <2> QED
    BY <1>4, <2>1, <2>2
<1> QED
  BY <1>6, <1>7

\* Whatever the connection, the manager and the other consumers do, a consumer that
\* gets an event of its own subscription and then another event has missed nothing
\* between them, and the second is no left-over (fanout_error before every reconnect,
\* the Lagged error of a full ring, the order of dispatch_message).
THEOREM OwnEventsAreUnbroken == Spec => []OwnEventsUnbroken
<1>1. Init => LinkInStep /\ ServerInStep /\ GapInv
  <2> SUFFICES ASSUME Init
               PROVE  LinkInStep /\ ServerInStep /\ GapInv
    OBVIOUS
  <2>1. \A i \in Streams : inbox[i] = <<>> /\ ~lost[i] /\ ~afterData[i] /\ st[i] = "idle"
    BY DEF Init
  <2>2. \A i \in Streams : GapsShow(i)
    BY <2>1, EmptyFeed
  <2>3. LinkInStep /\ ServerInStep
    BY DEF Init, LinkInStep, ServerInStep
  <2>4. EntriesInStep /\ WireInStep /\ StreamsInStep
    BY DEF Init, EntriesInStep, WireInStep, StreamsInStep
  <2> QED
    BY <2>2, <2>3, <2>4 DEF GapInv
<1>2. CountInv /\ LinkInStep /\ ServerInStep /\ GapInv /\ [Next]_vars
        => LinkInStep' /\ ServerInStep' /\ GapInv'
  BY LinkStep, GapStep DEF LinkInv, CountInv
<1>3. TypeOK /\ GapInv => OwnEventsUnbroken
  BY FeedShows DEF GapInv, OwnEventsUnbroken
<1> QED
  BY <1>1, <1>2, <1>3, CountInvariant, TypeCorrect, PTL DEF Spec

-----------------------------------------------------------------------------
(* The sync loops (module ManagedSync). *)

Marked(box) == \E k \in DOMAIN box : box[k] = "shut"

\* The shutdown marker only ever reaches a stream whose subscription was meddled with.
Unasked == \A i \in Streams : SubOf[i] \notin meddled => ~Marked(inbox[i])

-----------------------------------------------------------------------------
(* The loops are consumers of the manager. *)

LEMMA LoopStepIsStep ==
  ASSUME NEW i \in Streams, LoopStep(i)
  PROVE  Next
<1>1. Open(i) \/ Recv(i) \/ Drop(i) \/ RecvClosed(i)
  BY DEF LoopStep, LoopOpens, LoopApplies, LoopFails, LoopRetries, LoopHearsShutdown, LoopEnds
<1> QED
  BY <1>1 DEF Next, Consumers, Outsiders

LEMMA SyncStepIsStep == [SyncNext]_syncVars => [Next]_vars
<1>1. Manager \/ Network \/ Outsiders => Next
  BY DEF Next, Consumers
<1> QED
  BY <1>1, LoopStepIsStep DEF SyncNext, syncVars

\* A sync loop uses its stream as managed_stream allows: whatever the loops do is a
\* behaviour of the subscription manager with some consumers.
THEOREM SyncIsManaged == SyncSpec => Spec
<1>1. SyncInit => Init
  BY DEF SyncInit
<1> QED
  BY <1>1, SyncStepIsStep, PTL DEF SyncSpec, Spec

\* Loops and statuses keep their types along with the manager they use.
THEOREM SyncTypeCorrect == SyncSpec => []SyncTypeOK
<1> DEFINE LoopTypes == loop \in [Streams -> Stages] /\ status \in [Streams -> Statuses]
<1>1. SyncInit => LoopTypes
  BY DEF SyncInit, Stages, Statuses
<1>2. LoopTypes /\ [SyncNext]_syncVars => LoopTypes'
  <2>1. ASSUME LoopTypes, NEW i \in Streams, LoopStep(i)
        PROVE  LoopTypes'
    BY <2>1 DEF LoopStep, LoopOpens, LoopApplies, LoopFails, LoopRetries, LoopHearsShutdown,
                LoopEnds, Stages, Statuses
  <2> QED
    BY <2>1 DEF SyncNext, syncVars
<1>3. TypeOK /\ LoopTypes => SyncTypeOK
  BY DEF SyncTypeOK
<1> QED
  BY <1>1, <1>2, <1>3, SyncIsManaged, TypeCorrect, PTL DEF SyncSpec

-----------------------------------------------------------------------------
(* What a stream yields. *)

LEMMA MarksStay ==
  ASSUME TypeOK, [Next]_vars
  PROVE  meddled \subseteq meddled'
<1>1. ASSUME NEW i \in Streams, Open(i) \/ Abandon(i) \/ Recv(i) \/ Drop(i) \/ RecvClosed(i)
      PROVE  meddled' = meddled
  BY <1>1 DEF Open, Abandon, Recv, Drop, RecvClosed, Leave
<1>2. RequestShutdown \/ (\E s \in Subs : ForeignRelease(s)) => meddled \subseteq meddled'
  BY DEF RequestShutdown, ForeignRelease, TypeOK
<1>3. HandleCommand \/ DropHandle \/ Network => meddled' = meddled
  BY DEF HandleCommand, HandleAcquire, HandleRelease, HandleShutdown, DropHandle, Network,
         LinkDies, Publish
<1>4. Connect \/ (\E s \in Subs : ReplayOne(s)) \/ ReplayDone \/ ReplayFails => meddled' = meddled
  BY DEF Connect, ReplayOne, ReplayDone, ReplayFails
<1>5. Dispatch \/ RecvFails \/ HeartbeatFails \/ IdleTimeout \/ ParseFails \/ Exit
        => meddled' = meddled
  BY DEF Dispatch, RecvFails, HeartbeatFails, IdleTimeout, ParseFails, GiveUp, Exit
<1> QED
  BY <1>1, <1>2, <1>3, <1>4, <1>5 DEF Next, Manager, Consumers, Outsiders, vars

LEMMA UnmarkedTail ==
  ASSUME NEW box \in Seq(Item), box # <<>>
  PROVE  /\ Tail(box) \in Seq(Item)
         /\ Marked(Tail(box)) => Marked(box)
<1>1. /\ DOMAIN Tail(box) = 1 .. Len(box) - 1 /\ Len(box) \in Nat /\ DOMAIN box = 1 .. Len(box)
      /\ \A k \in 1 .. Len(box) - 1 : k + 1 \in 1 .. Len(box) /\ Tail(box)[k] = box[k + 1]
  OBVIOUS
<1> QED
  BY <1>1 DEF Marked

LEMMA UnmarkedAppend ==
  ASSUME NEW box \in Seq(Item), NEW item \in Item, item # "shut"
  PROVE  Marked(Append(box, item)) => Marked(box)
<1>1. /\ Len(box) \in Nat /\ DOMAIN box = 1 .. Len(box)
      /\ DOMAIN Append(box, item) = 1 .. Len(box) + 1
      /\ Append(box, item)[Len(box) + 1] = item
      /\ \A k \in 1 .. Len(box) : Append(box, item)[k] = box[k]
  OBVIOUS
<1> QED
  BY <1>1 DEF Marked

LEMMA BroadcastUnmarked ==
  ASSUME TypeOK, NEW receivers, NEW item \in Item, item # "shut", Broadcast(receivers, item),
         NEW i \in Streams, Marked(inbox[i]')
  PROVE  Marked(inbox[i])
<1>1. inbox[i] \in Seq(Item)
  BY DEF TypeOK
<1>2. CASE i \notin receivers
  BY <1>2 DEF Broadcast
<1>3. CASE i \in receivers /\ ~Full(i)
  BY <1>1, <1>3, UnmarkedAppend DEF Broadcast
<1>4. CASE i \in receivers /\ Full(i)
  <2>1. inbox[i] # <<>>
    BY <1>1, <1>4, WsAssumption DEF Full
  <2>2. inbox'[i] = Append(Tail(inbox[i]), item)
    BY <1>4 DEF Broadcast
  <2> QED
    BY <1>1, <2>1, <2>2, UnmarkedTail, UnmarkedAppend
<1> QED
  BY <1>2, <1>3, <1>4

\* A shutdown is only handled where every subscription bears its mark.
LEMMA ShutdownAsked ==
  ASSUME CountInv, HandleShutdown
  PROVE  meddled = Subs
<1>1. cmds # <<>> => Head(cmds) = cmds[1] /\ 1 \in DOMAIN cmds
  BY DEF CountInv, TypeOK
<1> QED
  BY <1>1 DEF HandleShutdown, NextCommand, CountInv, Counted, QueueInStep, InStep

LEMMA UnaskedStep ==
  ASSUME CountInv, Unasked, [Next]_vars
  PROVE  Unasked'
<1> USE DEF CountInv
<1>1. ASSUME \A i \in Streams : Marked(inbox[i]') => Marked(inbox[i])
      PROVE  Unasked'
  BY <1>1, MarksStay DEF Unasked
<1>2. UNCHANGED inbox => Unasked'
  BY <1>1
<1>3. ASSUME NEW i \in Streams, Open(i) \/ Abandon(i) \/ Recv(i) \/ Drop(i) \/ RecvClosed(i)
      PROVE  Unasked'
  <2>1. \/ UNCHANGED inbox
        \/ inbox[i] # <<>> /\ inbox' = [inbox EXCEPT ![i] = Tail(@)]
        \/ inbox' = [inbox EXCEPT ![i] = <<>>]
    BY <1>3 DEF Open, Abandon, Recv, Drop, RecvClosed, Leave
  <2>2. inbox \in [Streams -> Seq(Item)] /\ ~Marked(<<>>)
    BY DEF TypeOK, Marked
  <2>3. \A j \in Streams : Marked(inbox[j]') => Marked(inbox[j])
    BY <2>1, <2>2, UnmarkedTail
  <2> QED
    BY <2>3, <1>1
<1>4. HandleAcquire => Unasked'
  <2> SUFFICES ASSUME HandleAcquire
               PROVE  Unasked'
    OBVIOUS
  <2>1. UNCHANGED inbox \/ inbox' = [inbox EXCEPT ![Head(cmds).from] = <<"err">>]
    BY DEF HandleAcquire
  <2>2. inbox \in [Streams -> Seq(Item)] /\ ~Marked(<<"err">>)
    BY DEF TypeOK, Marked
  <2>3. \A j \in Streams : Marked(inbox[j]') => Marked(inbox[j])
    BY <2>1, <2>2
  <2> QED
    BY <2>3, <1>1
<1>5. HandleShutdown => Unasked'
  BY ShutdownAsked, MarksStay, WsAssumption DEF Unasked
<1>6. HandleRelease => Unasked'
  BY <1>2 DEF HandleRelease
<1>7. Dispatch => Unasked'
  <2> SUFFICES ASSUME Dispatch
               PROVE  Unasked'
    OBVIOUS
  <2> DEFINE frame == Head(wire)
             item == IF frame.kind = "reject" THEN "err" ELSE frame.kind
  <2>1. frame \in Frame /\ Broadcast(Receivers(frame.sub), item)
    BY DEF Dispatch, TypeOK
  <2>2. item \in Item /\ item # "shut"
    BY <2>1 DEF Frame, Item, Event
  <2> HIDE DEF item, frame
  <2> QED
    BY <2>1, <2>2, BroadcastUnmarked, <1>1
<1>8. RecvFails \/ HeartbeatFails \/ IdleTimeout \/ ParseFails => Unasked'
  <2>1. "err" \in Item
    BY DEF Item
  <2> QED
    BY <2>1, BroadcastUnmarked, <1>1 DEF RecvFails, HeartbeatFails, IdleTimeout, ParseFails, GiveUp
<1>9. Connect \/ (\E s \in Subs : ReplayOne(s)) \/ ReplayDone \/ ReplayFails \/ Exit => Unasked'
  BY <1>2 DEF Connect, ReplayOne, ReplayDone, ReplayFails, Exit, clientVars
<1>10. RequestShutdown \/ (\E s \in Subs : ForeignRelease(s)) \/ DropHandle \/ Network => Unasked'
  BY <1>2 DEF RequestShutdown, ForeignRelease, DropHandle, Network, LinkDies, Publish, clientVars
<1>11. UNCHANGED vars => Unasked'
  BY <1>2 DEF vars, clientVars
<1> QED
  BY <1>3, <1>4, <1>5, <1>6, <1>7, <1>8, <1>9, <1>10, <1>11
     DEF Next, Manager, Consumers, Outsiders, HandleCommand

-----------------------------------------------------------------------------
(* How loops end. *)

LEMMA LoopEndsAsked ==
  ASSUME CountInv, Unasked, SyncTypeOK, LoopsEndOnlyOnRequest, NEW i \in Streams, LoopStep(i)
  PROVE  LoopsEndOnlyOnRequest'
<1>1. meddled \subseteq meddled'
  BY MarksStay, LoopStepIsStep DEF CountInv
<1>2. \A j \in Streams \ {i} : loop'[j] = loop[j]
  BY DEF LoopStep, LoopOpens, LoopApplies, LoopFails, LoopRetries, LoopHearsShutdown, LoopEnds,
         SyncTypeOK
<1>3. SubOf[i] \notin meddled' => loop'[i] \notin {"ending", "ended"}
  <2>1. CASE LoopHearsShutdown(i)
    <3>1. inbox[i] # <<>> /\ Head(inbox[i]) = "shut" /\ inbox[i] \in Seq(Item)
      BY <2>1 DEF LoopHearsShutdown, YieldsShutdown, CountInv, TypeOK
    <3>2. Marked(inbox[i])
      <4>1. 1 \in DOMAIN inbox[i] /\ inbox[i][1] = "shut"
        BY <3>1
      <4> QED
        BY <4>1 DEF Marked
    <3> QED
      BY <1>1, <3>2 DEF Unasked
  <2>2. CASE LoopEnds(i)
    <3>1. loop[i] = "ending" \/ st[i] = "detached"
      BY <2>2 DEF LoopEnds, RecvClosed
    <3> QED
      BY <1>1, <3>1 DEF LoopsEndOnlyOnRequest, CountInv, Counted, HeldStreamsStayOpen
  <2>3. CASE LoopOpens(i) \/ LoopApplies(i) \/ LoopFails(i) \/ LoopRetries(i)
    <3>1. loop'[i] \notin {"ending", "ended"}
      BY <2>3 DEF LoopOpens, LoopApplies, LoopFails, LoopRetries, SyncTypeOK
    <3> QED
      BY <3>1
  <2> QED
    BY <2>1, <2>2, <2>3 DEF LoopStep
<1> QED
  BY <1>1, <1>2, <1>3 DEF LoopsEndOnlyOnRequest

\* A loop ends for good only after its own subscription was released by a third party
\* or the manager was shut down: what is_shutdown_error recognises is never the work of
\* a reconnect, a lag, a refusal, or anything done to another symbol.
THEOREM EndsOnRequest == SyncSpec => []LoopsEndOnlyOnRequest
<1>1. SyncInit => Unasked /\ LoopsEndOnlyOnRequest
  BY DEF SyncInit, Init, Unasked, Marked, LoopsEndOnlyOnRequest
<1>2. CountInv /\ Unasked /\ SyncTypeOK /\ LoopsEndOnlyOnRequest /\ [SyncNext]_syncVars
        => Unasked' /\ LoopsEndOnlyOnRequest'
  <2> SUFFICES ASSUME CountInv, Unasked, SyncTypeOK, LoopsEndOnlyOnRequest, [SyncNext]_syncVars
               PROVE  Unasked' /\ LoopsEndOnlyOnRequest'
    OBVIOUS
  <2>1. Unasked'
    BY UnaskedStep, SyncStepIsStep
  <2>2. UNCHANGED loop => LoopsEndOnlyOnRequest'
    BY MarksStay, SyncStepIsStep DEF CountInv, LoopsEndOnlyOnRequest
  <2>3. (\E i \in Streams : LoopStep(i)) => LoopsEndOnlyOnRequest'
    BY LoopEndsAsked
  <2> QED
    BY <2>1, <2>2, <2>3 DEF SyncNext, syncVars
<1> QED
  BY <1>1, <1>2, SyncIsManaged, CountInvariant, SyncTypeCorrect, PTL DEF SyncSpec

=============================================================================
