----------------------------- MODULE WsManager -----------------------------
(***************************************************************************)
(* The WebSocket subscription manager of the Hyperliquid client            *)
(* (ws/manager.rs over ws/transport.rs): one task owns one socket and      *)
(* shares it between every stream of the client.  A stream acquires a      *)
(* subscription through a command queue, reads a broadcast channel, and    *)
(* releases the subscription when it is dropped.  The manager counts the   *)
(* holders of a subscription, subscribes on the first and unsubscribes on  *)
(* the last, closes the socket when nothing is subscribed, and reconnects  *)
(* and replays every subscription when the connection is lost.             *)
(*                                                                         *)
(* What an event says is abstracted to whether events of its subscription  *)
(* were missed just before it, and whether it is left over ("late") from a *)
(* subscription that was given up while it was under way.                  *)
(***************************************************************************)
EXTENDS Naturals, Sequences, FiniteSets

CONSTANTS
  Streams,         \* slots in which managed_stream is run, one stream at a time
  Subs,            \* the subscriptions (channel and coin or user)
  SubOf,           \* the subscription the streams of a slot ask for
  NoStream,        \* stands for "no stream" as the sender of a command
  FanoutCapacity,  \* FANOUT_CAPACITY, the ring of a broadcast channel
  WireCap,         \* bound: frames under way from the server
  MaxLeaks,        \* bound: streams dropped while they wait for their receiver
  MaxForeign,      \* bound: releases by the client under way
  Optional         \* which optional moves of the client and the server are explored

Moves == {"abandon", "foreign", "shutdown", "again", "reject"}

ASSUME WsAssumption ==
  /\ SubOf \in [Streams -> Subs]
  /\ NoStream \notin Streams
  /\ IsFiniteSet(Streams)
  /\ FanoutCapacity \in Nat \ {0}
  /\ WireCap \in Nat \ {0}
  /\ MaxLeaks \in Nat
  /\ MaxForeign \in Nat
  /\ Optional \subseteq Moves

VARIABLES
  mode,       \* where run_manager is
  ref,        \* ref_count of each subscription, 0 when it has no entry
  link,       \* the socket as it is
  closed,     \* HyperliquidWs::closed
  cmds,       \* the command queue, oldest first
  st,         \* where the stream of each slot is
  inbox,      \* what a stream has not read of its broadcast channel
  lost,       \* the channel overwrote messages the stream had not read
  afterData,  \* the last item the stream yielded was an event
  handle,     \* the client still holds its HyperliquidWsManager
  wire,       \* frames under way from the server, oldest first
  told,       \* what this connection's server holds for each subscription
  missed,     \* subscriptions with events not sent since the last one sent
  leaked,     \* references taken for streams that were gone by then (history)
  meddled     \* subscriptions released or shut down from outside a stream (history)

clientVars == <<st, inbox, lost, afterData>>
serverVars == <<wire, told, missed>>
vars == <<mode, ref, link, closed, cmds, clientVars, handle, serverVars, leaked, meddled>>

Modes  == {"parked", "connecting", "replaying", "running", "exited"}
Links  == {"none", "up", "dead", "closing"}
Event  == {"data", "gap"}              \* an event; after a gap, events were missed
Seam   == {"gap", "late"}              \* what does not continue the events before it
Item   == Event \cup {"late", "err", "shut"}
Frame  == [sub : Subs, kind : Event \cup {"late", "reject"}]
Stage  == {"idle", "acquiring", "abandoned", "live", "detached", "releasing"}
Told   == {"none", "subscribed", "rejected", "twice"}
Command ==
  [op : {"acquire", "release"}, sub : Subs, from : Streams \cup {NoStream}]
    \cup [op : {"shutdown"}]

Acquire(i)    == [op |-> "acquire", sub |-> SubOf[i], from |-> i]
Release(s, i) == [op |-> "release", sub |-> s, from |-> i]
Shutdown      == [op |-> "shutdown"]

Init ==
  /\ mode = "parked"
  /\ ref = [s \in Subs |-> 0]
  /\ link = "none"
  /\ closed = FALSE
  /\ cmds = <<>>
  /\ st = [i \in Streams |-> "idle"]
  /\ inbox = [i \in Streams |-> <<>>]
  /\ lost = [i \in Streams |-> FALSE]
  /\ afterData = [i \in Streams |-> FALSE]
  /\ handle = TRUE
  /\ wire = <<>>
  /\ told = [s \in Subs |-> "none"]
  /\ missed = {}
  /\ leaked = [s \in Subs |-> 0]
  /\ meddled = {}

-----------------------------------------------------------------------------
(* The streams (managed_stream) and the client that holds the manager. *)

\* managed_stream is polled for the first time: Acquire is queued.
Open(i) ==
  /\ handle
  /\ st[i] = "idle"
  /\ st' = [st EXCEPT ![i] = "acquiring"]
  /\ cmds' = Append(cmds, Acquire(i))
  /\ UNCHANGED <<mode, ref, link, closed, inbox, lost, afterData, handle, serverVars,
                 leaked, meddled>>

\* The stream is dropped while subscribe awaits the answer: ReleaseOnDrop does
\* not exist yet, so nothing is queued.
Abandon(i) ==
  /\ "abandon" \in Optional
  /\ st[i] = "acquiring"
  /\ \A s \in Subs : leaked[s] < MaxLeaks
  /\ \A j \in Streams : st[j] # "abandoned"
  /\ st' = [st EXCEPT ![i] = "abandoned"]
  /\ UNCHANGED <<mode, ref, link, closed, cmds, inbox, lost, afterData, handle,
                 serverVars, leaked, meddled>>

Reading(i) == st[i] \in {"live", "detached"}

\* receiver.recv() answers: Lagged first when the ring was overwritten, then the
\* oldest message left.  Each is yielded to the consumer, errors inline.
Recv(i) ==
  /\ Reading(i)
  /\ \/ /\ lost[i]
        /\ lost' = [lost EXCEPT ![i] = FALSE]
        /\ afterData' = [afterData EXCEPT ![i] = FALSE]
        /\ UNCHANGED inbox
     \/ /\ ~lost[i]
        /\ inbox[i] # <<>>
        /\ inbox' = [inbox EXCEPT ![i] = Tail(@)]
        /\ afterData' = [afterData EXCEPT ![i] = Head(inbox[i]) \in Event]
        /\ UNCHANGED lost
  /\ UNCHANGED <<mode, ref, link, closed, cmds, st, handle, serverVars, leaked, meddled>>

\* The stream goes away and with it its receiver: ReleaseOnDrop queues Release.
Leave(i) ==
  /\ st' = [st EXCEPT ![i] = "releasing"]
  /\ cmds' = Append(cmds, Release(SubOf[i], i))
  /\ inbox' = [inbox EXCEPT ![i] = <<>>]
  /\ lost' = [lost EXCEPT ![i] = FALSE]
  /\ afterData' = [afterData EXCEPT ![i] = FALSE]
  /\ UNCHANGED <<mode, ref, link, closed, handle, serverVars, leaked, meddled>>

\* The consumer drops a stream it is reading.
Drop(i) == Reading(i) /\ Leave(i)

\* The channel is closed and drained: "websocket subscription closed" is yielded
\* and the stream ends.
RecvClosed(i) ==
  /\ st[i] = "detached"
  /\ ~lost[i]
  /\ inbox[i] = <<>>
  /\ Leave(i)

\* Bound: without "again" the client meddles once.
MayMeddle == meddled = {} \/ "again" \in Optional

\* unsubscribe_by_coin and unsubscribe_user queue a Release for a subscription
\* the caller need not hold.
ForeignRelease(s) ==
  /\ "foreign" \in Optional /\ MayMeddle
  /\ handle
  /\ Cardinality({k \in DOMAIN cmds :
        cmds[k].op = "release" /\ cmds[k].from = NoStream}) < MaxForeign
  /\ cmds' = Append(cmds, Release(s, NoStream))
  /\ meddled' = meddled \cup {s}
  /\ UNCHANGED <<mode, ref, link, closed, clientVars, handle, serverVars, leaked>>

\* HyperliquidWsManager::shutdown.
RequestShutdown ==
  /\ "shutdown" \in Optional /\ MayMeddle
  /\ handle
  /\ \A k \in DOMAIN cmds : cmds[k].op # "shutdown"
  /\ cmds' = Append(cmds, Shutdown)
  /\ meddled' = Subs
  /\ UNCHANGED <<mode, ref, link, closed, clientVars, handle, serverVars, leaked>>

\* What is asked of the manager past the streams that hold its subscriptions.
Outsiders == RequestShutdown \/ \E s \in Subs : ForeignRelease(s)

\* The client and its clones are dropped; live streams keep their own clone.
DropHandle ==
  /\ handle
  /\ handle' = FALSE
  /\ UNCHANGED <<mode, ref, link, closed, cmds, clientVars, serverVars, leaked, meddled>>

-----------------------------------------------------------------------------
(* The socket and the server at its other end. *)

InFlight == {wire[k].sub : k \in {n \in DOMAIN wire : wire[n].kind \in Event}}

Delivering(s) == link = "up" /\ told[s] \in {"subscribed", "twice"}

\* An event of s happens: it is put on the wire if s is subscribed on a working
\* connection, and is missed otherwise.
Publish(s) ==
  /\ \/ /\ Delivering(s)
        /\ Len(wire) < WireCap
        /\ wire' = Append(wire, [sub |-> s, kind |-> IF s \in missed THEN "gap" ELSE "data"])
        /\ missed' = missed \ {s}
     \/ /\ ~Delivering(s)
        /\ missed' = missed \cup {s}
        /\ UNCHANGED wire
  /\ UNCHANGED <<mode, ref, link, closed, cmds, clientVars, handle, told, leaked, meddled>>

\* The connection breaks; frames under way may still arrive or be lost.
LinkDies ==
  /\ link = "up"
  /\ link' = "dead"
  /\ \/ UNCHANGED <<wire, missed>>
     \/ wire' = <<>> /\ missed' = missed \cup InFlight
  /\ UNCHANGED <<mode, ref, closed, cmds, clientVars, handle, told, leaked, meddled>>

\* What ws.send can answer: a broken connection may swallow the frame, and a
\* socket that was closed from this side refuses it.
SendOutcomes ==
  CASE link = "up"   -> {TRUE}
    [] link = "dead" -> BOOLEAN
    [] OTHER         -> {FALSE}

\* HyperliquidWs::is_connected: close() sets neither of the fields it reads.
IsConnected == link # "none" /\ ~closed

Answers(s) ==
  IF told[s] # "none" THEN {"twice"}
  ELSE {"subscribed"} \cup IF "reject" \in Optional THEN {"rejected"} ELSE {}

Rejections(s, answer) ==
  IF answer = "rejected" THEN <<[sub |-> s, kind |-> "reject"]>> ELSE <<>>

\* A subscribe message goes out: the server takes it or turns it down.
SubscribeOnWire(s) ==
  IF link = "up"
  THEN \E answer \in Answers(s) :
         /\ told' = [told EXCEPT ![s] = answer]
         /\ wire' = wire \o Rejections(s, answer)
  ELSE UNCHANGED <<told, wire>>

\* An unsubscribe message goes out; frames of s under way are late from here on.
Late(f, s) == IF f.sub = s /\ f.kind \in Event THEN [f EXCEPT !.kind = "late"] ELSE f

UnsubscribeOnWire(s) ==
  IF link = "up"
  THEN /\ told' = [told EXCEPT ![s] = "none"]
       /\ wire' = [k \in DOMAIN wire |-> Late(wire[k], s)]
  ELSE UNCHANGED <<told, wire>>

\* ws.close(): a close frame is sent, what was under way is never read.
CloseSocket ==
  /\ link' = IF link = "none" THEN "none" ELSE "closing"
  /\ wire' = <<>>
  /\ missed' = missed \cup InFlight
  /\ told' = [s \in Subs |-> "none"]

-----------------------------------------------------------------------------
(* The manager task (run_manager). *)

Receivers(s) == {i \in Streams : st[i] = "live" /\ SubOf[i] = s}
Listening    == {i \in Streams : st[i] = "live"}

\* broadcast::Sender::send: a full ring loses its oldest message.
Full(i) == Len(inbox[i]) = FanoutCapacity

Broadcast(receivers, item) ==
  /\ inbox' = [i \in Streams |->
       IF i \notin receivers THEN inbox[i]
       ELSE Append(IF Full(i) THEN Tail(inbox[i]) ELSE inbox[i], item)]
  /\ lost' = [i \in Streams |-> lost[i] \/ (i \in receivers /\ Full(i))]
  /\ UNCHANGED afterData

\* Commands are taken while nothing is subscribed and in the inner select loop,
\* never while the manager connects, backs off or replays.
Serving == mode \in {"parked", "running"}

NextCommand(op) == Serving /\ cmds # <<>> /\ Head(cmds).op = op

\* Three slips in Acquire, to see that the properties notice: an entry made anew for
\* a subscription that has one, an entry counted twice when it is made, and a
\* subscribe message for every reference.
HandleAcquireAnew ==
  /\ NextCommand("acquire")
  /\ ref' = [ref EXCEPT ![Head(cmds).sub] = 1]
  /\ st' = [st EXCEPT ![Head(cmds).from] = IF @ = "acquiring" THEN "live" ELSE "idle"]
  /\ cmds' = Tail(cmds)
  /\ mode' = IF mode = "parked" THEN "connecting" ELSE mode
  /\ UNCHANGED <<link, closed, inbox, lost, afterData, handle, serverVars, leaked, meddled>>

HandleAcquireTwice ==
  /\ NextCommand("acquire")
  /\ ref' = [ref EXCEPT ![Head(cmds).sub] = IF @ = 0 THEN 2 ELSE @ + 1]
  /\ st' = [st EXCEPT ![Head(cmds).from] = IF @ = "acquiring" THEN "live" ELSE "idle"]
  /\ cmds' = Tail(cmds)
  /\ mode' = IF mode = "parked" THEN "connecting" ELSE mode
  /\ UNCHANGED <<link, closed, inbox, lost, afterData, handle, serverVars, leaked, meddled>>

HandleAcquireResubscribes ==
  /\ NextCommand("acquire")
  /\ ref' = [ref EXCEPT ![Head(cmds).sub] = @ + 1]
  /\ st' = [st EXCEPT ![Head(cmds).from] = IF @ = "acquiring" THEN "live" ELSE "idle"]
  /\ IF IsConnected THEN SubscribeOnWire(Head(cmds).sub) ELSE UNCHANGED <<told, wire>>
  /\ cmds' = Tail(cmds)
  /\ mode' = IF mode = "parked" THEN "connecting" ELSE mode
  /\ UNCHANGED <<link, closed, inbox, lost, afterData, handle, missed, leaked, meddled>>

\* Acquire: a further reference, or a new entry with a channel of its own, which
\* is subscribed at once if the socket is thought connected.  Outside the inner
\* loop the manager goes on to connect, now that something is subscribed.
HandleAcquire ==
  /\ NextCommand("acquire")
  /\ LET s == Head(cmds).sub
         i == Head(cmds).from
     IN
     /\ ref' = [ref EXCEPT ![s] = @ + 1]
     /\ IF st[i] = "acquiring"
        THEN st' = [st EXCEPT ![i] = "live"] /\ UNCHANGED leaked
        ELSE st' = [st EXCEPT ![i] = "idle"] /\ leaked' = [leaked EXCEPT ![s] = @ + 1]
     /\ IF ref[s] = 0 /\ IsConnected
        THEN \E sent \in SendOutcomes :
               /\ SubscribeOnWire(s)
               /\ inbox' = IF sent \/ st[i] # "acquiring" THEN inbox
                           ELSE [inbox EXCEPT ![i] = <<"err">>]
        ELSE UNCHANGED <<told, wire, inbox>>
  /\ cmds' = Tail(cmds)
  /\ mode' = IF mode = "parked" THEN "connecting" ELSE mode
  /\ UNCHANGED <<link, closed, lost, afterData, handle, missed, meddled>>

\* Two slips in Release: every release taken for the last one, and a count lowered
\* without a look at whether there is an entry.
HandleReleaseAll ==
  /\ NextCommand("release")
  /\ LET s == Head(cmds).sub IN
     /\ ref' = [ref EXCEPT ![s] = 0]
     /\ st' = [j \in Streams |->
          IF j = Head(cmds).from THEN "idle"
          ELSE IF j \in Receivers(s) THEN "detached" ELSE st[j]]
     /\ UnsubscribeOnWire(s)
  /\ cmds' = Tail(cmds)
  /\ UNCHANGED <<mode, link, closed, inbox, lost, afterData, handle, missed, leaked, meddled>>

HandleReleaseUnchecked ==
  /\ NextCommand("release")
  /\ ref' = [ref EXCEPT ![Head(cmds).sub] = @ - 1]
  /\ st' = [j \in Streams |-> IF j = Head(cmds).from THEN "idle" ELSE st[j]]
  /\ cmds' = Tail(cmds)
  /\ UNCHANGED <<mode, link, closed, inbox, lost, afterData, handle, serverVars, leaked, meddled>>

\* Release: one reference fewer; the last one removes the entry, which closes the
\* channel of whoever still listens, and unsubscribes.  With no entry left the
\* inner loop closes the socket and is left.
HandleRelease ==
  /\ NextCommand("release")
  /\ LET s     == Head(cmds).sub
         i     == Head(cmds).from
         last  == ref[s] = 1
         empty == \A t \in Subs : ref'[t] = 0
     IN
     /\ ref' = [ref EXCEPT ![s] = IF @ = 0 THEN 0 ELSE @ - 1]
     /\ st' = [j \in Streams |->
          IF j = i THEN "idle"
          ELSE IF last /\ j \in Receivers(s) THEN "detached" ELSE st[j]]
     /\ IF mode = "running" /\ empty
        THEN CloseSocket /\ mode' = "parked"
        ELSE /\ IF last /\ IsConnected THEN UnsubscribeOnWire(s) ELSE UNCHANGED <<told, wire>>
             /\ UNCHANGED <<mode, link, missed>>
  /\ cmds' = Tail(cmds)
  /\ UNCHANGED <<closed, inbox, lost, afterData, handle, leaked, meddled>>

\* Shutdown: every entry is drained and its listeners get the shutdown marker
\* before their channel closes.  The task itself goes on waiting for commands.
HandleShutdown ==
  /\ NextCommand("shutdown")
  /\ ref' = [s \in Subs |-> 0]
  /\ st' = [i \in Streams |-> IF st[i] = "live" THEN "detached" ELSE st[i]]
  /\ leaked' = [s \in Subs |-> 0]
  /\ Broadcast(Listening, "shut")
  /\ IF IsConnected THEN CloseSocket ELSE UNCHANGED <<link, serverVars>>
  /\ mode' = "parked"
  /\ cmds' = Tail(cmds)
  /\ UNCHANGED <<closed, handle, meddled>>

\* connect_async succeeds: a fresh socket, nothing subscribed on it.  A failed
\* attempt changes nothing but the delay before the next.
Connect ==
  /\ mode = "connecting"
  /\ mode' = "replaying"
  /\ link' = "up"
  /\ closed' = FALSE
  /\ UNCHANGED <<ref, cmds, clientVars, handle, serverVars, leaked, meddled>>

\* replay_subscriptions sends one subscribe message per entry, in no fixed order.
ReplayOne(s) ==
  /\ mode = "replaying"
  /\ link = "up"
  /\ ref[s] > 0
  /\ told[s] = "none"
  /\ SubscribeOnWire(s)
  /\ UNCHANGED <<mode, ref, link, closed, cmds, clientVars, handle, missed, leaked, meddled>>

\* A slip: the connection is taken for ready before anything is replayed.
ReplayDoneEarly ==
  /\ mode = "replaying"
  /\ mode' = "running"
  /\ UNCHANGED <<ref, link, closed, cmds, clientVars, handle, serverVars, leaked, meddled>>

\* Every message was sent, or a broken connection swallowed what was left.
ReplayDone ==
  /\ mode = "replaying"
  /\ link = "dead" \/ \A s \in Subs : ref[s] > 0 => told[s] # "none"
  /\ mode' = "running"
  /\ UNCHANGED <<ref, link, closed, cmds, clientVars, handle, serverVars, leaked, meddled>>

\* A send fails: the socket is closed and the manager connects again.  No stream
\* is told; it was told when the previous connection went.
ReplayFails ==
  /\ mode = "replaying"
  /\ link = "dead"
  /\ CloseSocket
  /\ mode' = "connecting"
  /\ UNCHANGED <<ref, closed, cmds, clientVars, handle, leaked, meddled>>

\* dispatch_message: an event goes to the channel of its subscription, a rejection
\* to the same channel as an error; the entry stays.
Dispatch ==
  /\ mode = "running"
  /\ wire # <<>>
  /\ LET frame == Head(wire) IN
       Broadcast(Receivers(frame.sub), IF frame.kind = "reject" THEN "err" ELSE frame.kind)
  /\ wire' = Tail(wire)
  /\ UNCHANGED <<mode, ref, link, closed, cmds, st, handle, told, missed, leaked, meddled>>

\* A slip: the inner loop is left without fanout_error.
GiveUpSilently ==
  /\ mode = "running"
  /\ CloseSocket
  /\ mode' = "connecting"
  /\ UNCHANGED <<ref, cmds, clientVars, handle, leaked, meddled>>

\* The connection is given up: every listener gets the reconnect marker, then the
\* socket is closed and the outer loop connects again.
GiveUp ==
  /\ mode = "running"
  /\ Broadcast(Listening, "err")
  /\ CloseSocket
  /\ mode' = "connecting"
  /\ UNCHANGED <<ref, cmds, st, handle, leaked, meddled>>

\* recv reports the end of the connection, which sets closed...
RecvFails == link = "dead" /\ wire = <<>> /\ closed' = TRUE /\ GiveUp

\* ...while a heartbeat that cannot be sent, 40 s without a frame, or a frame that
\* does not parse leave it alone.
HeartbeatFails == link = "dead" /\ UNCHANGED closed /\ GiveUp
IdleTimeout    == wire = <<>> /\ UNCHANGED closed /\ GiveUp
ParseFails     == link = "up" /\ UNCHANGED closed /\ GiveUp

\* A slip: None is only heeded where nothing is subscribed.
ExitWhenParked ==
  /\ mode = "parked"
  /\ cmds = <<>>
  /\ ~handle
  /\ \A i \in Streams : st[i] = "idle"
  /\ mode' = "exited"
  /\ UNCHANGED <<ref, link, closed, cmds, clientVars, handle, serverVars, leaked, meddled>>

\* recv() on the command queue answers None once every sender is gone.
Exit ==
  /\ Serving
  /\ cmds = <<>>
  /\ ~handle
  /\ \A i \in Streams : st[i] = "idle"
  /\ IF mode = "running" THEN CloseSocket ELSE UNCHANGED <<link, serverVars>>
  /\ mode' = "exited"
  /\ UNCHANGED <<ref, closed, cmds, clientVars, handle, leaked, meddled>>

-----------------------------------------------------------------------------

HandleCommand == HandleAcquire \/ HandleRelease \/ HandleShutdown

Manager ==
  \/ HandleCommand
  \/ Connect
  \/ (\E s \in Subs : ReplayOne(s)) \/ ReplayDone \/ ReplayFails
  \/ Dispatch
  \/ RecvFails \/ HeartbeatFails \/ IdleTimeout \/ ParseFails
  \/ Exit

Consumers ==
  \/ \E i \in Streams : Open(i) \/ Abandon(i) \/ Recv(i) \/ Drop(i) \/ RecvClosed(i)
  \/ Outsiders
  \/ DropHandle

Network == LinkDies \/ \E s \in Subs : Publish(s)

Next == Manager \/ Consumers \/ Network

Spec == Init /\ [][Next]_vars

\* The task takes whatever is ready: tokio::select! picks among the ready branches
\* at random, so a branch that is ready again and again, as a queued command is in
\* each pass through the inner loop, is taken in the end.  Consumers poll the
\* streams they hold, and events keep happening.  Connecting succeeds in the end;
\* nobody has to open or drop a stream, and connections need not break.
Fairness ==
  /\ SF_vars(HandleCommand)
  /\ SF_vars(Exit)
  /\ WF_vars(Connect)
  /\ \A s \in Subs : WF_vars(ReplayOne(s))
  /\ WF_vars(ReplayDone \/ ReplayFails)
  /\ WF_vars(Dispatch)
  /\ WF_vars(RecvFails)
  /\ \A i \in Streams : WF_vars(Recv(i)) /\ WF_vars(RecvClosed(i))
  /\ \A s \in Subs : SF_vars(Publish(s) /\ Delivering(s))

FairSpec == Spec /\ Fairness

-----------------------------------------------------------------------------

TypeOK ==
  /\ mode \in Modes
  /\ ref \in [Subs -> Nat]
  /\ link \in Links
  /\ closed \in BOOLEAN
  /\ cmds \in Seq(Command)
  /\ st \in [Streams -> Stage]
  /\ inbox \in [Streams -> Seq(Item)]
  /\ lost \in [Streams -> BOOLEAN]
  /\ afterData \in [Streams -> BOOLEAN]
  /\ handle \in BOOLEAN
  /\ wire \in Seq(Frame)
  /\ told \in [Subs -> Told]
  /\ missed \in SUBSET Subs
  /\ leaked \in [Subs -> Nat]
  /\ meddled \in SUBSET Subs

\* Streams that own one reference of s: those that hold its receiver and those
\* whose Release is still queued.
Holders(s) == {i \in Streams : SubOf[i] = s /\ st[i] \in {"live", "releasing"}}

\* The count in the manager's map is the number of streams that hold the
\* subscription, across the queue between them: nothing is counted twice and
\* nothing is forgotten, except for a stream dropped while it waited.  A count too
\* low closes somebody's channel, one too high never unsubscribes (manager.rs,
\* Acquire and Release in handle_command, ReleaseOnDrop).
RefCountExact ==
  \A s \in Subs \ meddled : ref[s] = Cardinality(Holders(s)) + leaked[s]

\* However often a third party releases or shuts down, late releases of streams that
\* lost their entry included, no reference outlives its holder: what is left of the
\* count always belongs to a stream that will still release it, so the subscription
\* is given up in the end.
NeverOvercounted ==
  \A s \in Subs : ref[s] <= leaked[s] + Cardinality(
    {i \in Streams : SubOf[i] = s /\ st[i] \in {"live", "detached", "releasing"}})

\* A stream somebody reads never ends on its own: its channel is closed only after
\* its own subscription was released by a third party or a shutdown, whatever the connection goes through
\* and whoever else comes and goes (client README: "the stream never terminates due
\* to a dropped connection").
HeldStreamsStayOpen ==
  \A i \in Streams : SubOf[i] \notin meddled => st[i] # "detached"

\* In the inner loop on a working connection the server holds exactly the
\* subscriptions that have an entry (or turned them down), each asked for once, whatever was acquired
\* and released before, during and after a reconnect.
ServerInStep ==
  mode = "running" /\ link = "up" =>
    \A s \in Subs : /\ told[s] # "twice"
                    /\ (told[s] # "none") <=> (ref[s] > 0)

\* What stream i is still to yield, after what it yielded last.
Feed(i) ==
  (IF afterData[i] THEN <<"data">> ELSE <<>>)
    \o (IF lost[i] THEN <<"err">> ELSE <<>>)
    \o inbox[i]

\* A consumer that gets an event of its own subscription and then another event, with
\* nothing between them, has missed nothing between them, and the second is not left
\* over from an earlier subscription: a reconnect, a lag or a refused subscription
\* always shows as an error in the stream first (tests/connection.rs: "errors surface
\* inline, data resumes").  Left-overs come before anything of its own; a consumer
\* cannot tell them from events, and what was missed behind one does not show.
OwnEventsUnbroken ==
  \A i \in Streams : \A k \in 2 .. Len(Feed(i)) :
    Feed(i)[k] \in Seam => Feed(i)[k - 1] \notin Event

\* From some point on the connection holds and the server is never silent for 40 s.
Settled == <>[][~(LinkDies \/ IdleTimeout \/ ParseFails)]_vars

\* Once the connection holds, a stream that is kept open gets events again, however
\* often the connection broke before and wherever in acquire, replay or release it
\* broke (README: "WebSocket streams auto-reconnect so consumers see a logically
\* persistent stream"), unless this connection's server turned its subscription down.
\* A consumer so slow that the ring overtakes it may get nothing but lag errors.
DataResumes ==
  Settled => \A i \in Streams :
    st[i] = "live" ~> \/ afterData[i] \/ lost[i] \/ st[i] # "live"
                      \/ told[SubOf[i]] = "rejected"

\* When the client and every stream are gone the task ends, although a reference
\* may have leaked, a command may be queued or the connection may be down just then.
ManagerEnds ==
  Settled => (~handle /\ (\A i \in Streams : st[i] = "idle") ~> mode = "exited")

=============================================================================
