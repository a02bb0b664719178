---------------------------- MODULE ManagedSync ----------------------------
(***************************************************************************)
(* Order-book sync loops (sync_loop, core/src/orderbook/sync.rs) as the    *)
(* consumers of the subscription manager: each slot of WsManager is run by *)
(* one loop of a tracked symbol, in the mode where the WebSocket is the    *)
(* source of truth and every message is a full book.  A loop drops its     *)
(* stream and opens a new one on any error, and ends for good on what it   *)
(* takes for a shutdown.                                                   *)
(***************************************************************************)
EXTENDS WsManager

VARIABLES
  loop,     \* where the sync loop of each slot is
  status    \* the StatusHandle of its symbol

syncVars == <<vars, loop, status>>

Stages   == {"starting", "streaming", "delaying", "ending", "ended"}
Statuses == {"Initializing", "Active"}

SyncInit ==
  /\ Init
  /\ loop = [i \in Streams |-> "starting"]
  /\ status = [i \in Streams |-> "Initializing"]

\* The top of the outer loop: subscribe_l2_snapshot, polled for the first time.
LoopOpens(i) ==
  /\ loop[i] = "starting"
  /\ Open(i)
  /\ loop' = [loop EXCEPT ![i] = "streaming"]
  /\ UNCHANGED status

\* What the stream yields next is an error: a lag, a marker or a refusal.
YieldsError(i) == lost[i] \/ (inbox[i] # <<>> /\ Head(inbox[i]) = "err")

\* A slip: the reconnect marker is taken for a shutdown as well.
YieldsAnyMarker(i) == ~lost[i] /\ inbox[i] # <<>> /\ Head(inbox[i]) \in {"shut", "err"}

YieldsShutdown(i) == ~lost[i] /\ inbox[i] # <<>> /\ Head(inbox[i]) = "shut"

\* A book replaces the stored one, and the symbol is active from the first on.
LoopApplies(i) ==
  /\ loop[i] = "streaming"
  /\ ~YieldsError(i)
  /\ ~YieldsShutdown(i)
  /\ Recv(i)
  /\ status' = [status EXCEPT ![i] = "Active"]
  /\ UNCHANGED loop

\* An error ends the inner loop: back to initializing, then the reconnect delay,
\* with the old stream still held.
LoopFails(i) ==
  /\ loop[i] = "streaming"
  /\ YieldsError(i)
  /\ Recv(i)
  /\ loop' = [loop EXCEPT ![i] = "delaying"]
  /\ status' = [status EXCEPT ![i] = "Initializing"]

\* The delay is over: the old stream is dropped, the outer loop starts again.
LoopRetries(i) ==
  /\ loop[i] = "delaying"
  /\ Drop(i)
  /\ loop' = [loop EXCEPT ![i] = "starting"]
  /\ UNCHANGED status

\* is_shutdown_error: the marker, or the end of the stream, ends both loops.  The
\* status stays what it was.
LoopHearsShutdown(i) ==
  /\ loop[i] = "streaming"
  /\ YieldsShutdown(i)
  /\ Recv(i)
  /\ loop' = [loop EXCEPT ![i] = "ending"]
  /\ UNCHANGED status

LoopEnds(i) ==
  /\ \/ loop[i] = "ending" /\ Drop(i)
     \/ loop[i] = "streaming" /\ RecvClosed(i)
  /\ loop' = [loop EXCEPT ![i] = "ended"]
  /\ UNCHANGED status

LoopStep(i) ==
  \/ LoopOpens(i) \/ LoopApplies(i) \/ LoopFails(i)
  \/ LoopRetries(i) \/ LoopHearsShutdown(i) \/ LoopEnds(i)

SyncNext ==
  \/ \E i \in Streams : LoopStep(i)
  \/ /\ \/ Manager
        \/ Network
        \/ Outsiders
     /\ UNCHANGED <<loop, status>>

SyncSpec == SyncInit /\ [][SyncNext]_syncVars

\* Each loop is a task of its own that runs on; the manager and the server are as
\* fair as in WsManager.
SyncFairness ==
  /\ SF_syncVars(HandleCommand /\ UNCHANGED <<loop, status>>)
  /\ WF_syncVars(Connect /\ UNCHANGED <<loop, status>>)
  /\ \A s \in Subs : WF_syncVars(ReplayOne(s) /\ UNCHANGED <<loop, status>>)
  /\ WF_syncVars((ReplayDone \/ ReplayFails) /\ UNCHANGED <<loop, status>>)
  /\ WF_syncVars(Dispatch /\ UNCHANGED <<loop, status>>)
  /\ WF_syncVars(RecvFails /\ UNCHANGED <<loop, status>>)
  /\ \A i \in Streams : WF_syncVars(LoopStep(i))
  /\ \A s \in Subs : SF_syncVars(Publish(s) /\ Delivering(s) /\ UNCHANGED <<loop, status>>)

FairSyncSpec == SyncSpec /\ SyncFairness

-----------------------------------------------------------------------------

SyncTypeOK ==
  /\ TypeOK
  /\ loop \in [Streams -> Stages]
  /\ status \in [Streams -> Statuses]

\* A loop ends for good only when somebody asked for it: no reconnect, lag, refusal
\* or retry of its own, and nothing that is done to another symbol, is ever taken
\* for a shutdown
\* (is_shutdown_error reads "websocket subscription closed" as one).
LoopsEndOnlyOnRequest ==
  \A i \in Streams : SubOf[i] \notin meddled => loop[i] \notin {"ending", "ended"}

SettledSync == <>[][~(LinkDies \/ IdleTimeout \/ ParseFails)]_syncVars

\* Once the connection holds, a loop in its reconnect delay gets its book again.
LoopRecovers ==
  SettledSync => \A i \in Streams : loop[i] = "delaying" ~> status[i] = "Active"

=============================================================================
