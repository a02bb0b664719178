----------------------------- MODULE BookEngine -----------------------------
(***************************************************************************)
(* The order-book engine over several symbols (orderbook/engine.rs): track *)
(* calls with their initial snapshots, the sync loops each of them drives, *)
(* symbols added while it runs, the status of every symbol and the monitor *)
(* that reports the engine active once all of them are.                    *)
(*                                                                         *)
(* What a loop does to a book is the subject of BookSync; here a loop is   *)
(* its status (StatusHandle) and whether it still runs.                    *)
(***************************************************************************)
EXTENDS Naturals, Sequences, SequencesExt, FiniteSets

CONSTANTS
  Symbols,
  Calls,     \* calls of track
  NoCall,    \* stands for "no call has add_rx"
  Batches,   \* lists of symbols that are tracked at once
  MaxAsked   \* bound: symbols asked for in all

ASSUME EngineAssumption ==
  /\ Batches \subseteq Seq(Symbols) \ {<<>>}
  /\ NoCall \notin Calls
  /\ MaxAsked \in Nat

VARIABLES
  skip,     \* skip_initial_snapshot
  books,    \* symbols with a book in the map
  stage,    \* where each call of track is
  batch,    \* the symbols whose snapshots it awaits
  driver,   \* the call that took add_rx
  added,    \* batches sent by track_additional, oldest first
  loops,    \* every loop started: its symbol, its call, whether it runs, its status, and
            \* whether it ever got an item (history)
  handle,   \* symbol_status: the loop whose handle a symbol has, 0 for none
  active,   \* the activation monitor has reported
  asked,    \* number of symbols asked for (bound)
  failed    \* symbols of batches whose snapshots failed (history)

vars == <<skip, books, stage, batch, driver, added, loops, handle, active, asked, failed>>

Init ==
  /\ skip \in BOOLEAN
  /\ books = {}
  /\ stage = [c \in Calls |-> "idle"]
  /\ batch = [c \in Calls |-> <<>>]
  /\ driver = NoCall
  /\ added = <<>>
  /\ loops = <<>>
  /\ handle = [s \in Symbols |-> 0]
  /\ active = FALSE
  /\ asked = 0
  /\ failed = {}

LoopsOf(c) == {i \in DOMAIN loops : loops[i].call = c /\ loops[i].runs}

Asks(symbols) == asked + Len(symbols) <= MaxAsked /\ asked' = asked + Len(symbols)

-----------------------------------------------------------------------------
(* track. *)

Fresh(c, symbols) ==
  [k \in DOMAIN symbols |->
     [symbol |-> symbols[k], call |-> c, runs |-> TRUE, status |-> "Initializing", got |-> FALSE]]

\* Two slips: a symbol keeps the handle it has, and only the first symbol gets a loop.
StartKeepingHandles(c, symbols) ==
  /\ loops' = loops \o Fresh(c, symbols)
  /\ handle' = [s \in Symbols |->
       IF handle[s] = 0 /\ s \in ToSet(symbols)
       THEN Len(loops) + Max({k \in DOMAIN symbols : symbols[k] = s}) ELSE handle[s]]

StartFirst(c, symbols) ==
  /\ loops' = loops \o Fresh(c, <<symbols[1]>>)
  /\ handle' = [handle EXCEPT ![symbols[1]] = Len(loops')]

\* A loop with a status handle of its own for each symbol, which the map has from now
\* on; all handles are in the map before the first loop is polled.
StartLoops(c, symbols) ==
  /\ loops' = loops \o Fresh(c, symbols)
  /\ handle' = [s \in Symbols |->
       IF s \in ToSet(symbols)
       THEN Len(loops) + Max({k \in DOMAIN symbols : symbols[k] = s}) ELSE handle[s]]

\* The loops run; the first call to get here takes add_rx.
Runs(c, symbols) ==
  /\ StartLoops(c, symbols)
  /\ stage' = [stage EXCEPT ![c] = "running"]
  /\ batch' = [batch EXCEPT ![c] = <<>>]
  /\ driver' = IF driver = NoCall THEN c ELSE driver

Track(c) ==
  /\ stage[c] = "idle"
  /\ \E symbols \in Batches :
       /\ Asks(symbols)
       /\ \/ /\ skip
             /\ Runs(c, symbols)
          \/ /\ ~skip
             /\ stage' = [stage EXCEPT ![c] = "snapshotting"]
             /\ batch' = [batch EXCEPT ![c] = symbols]
             /\ UNCHANGED <<loops, handle, driver>>
  /\ UNCHANGED <<skip, books, added, active, failed>>

Awaiting(c) == stage[c] \in {"snapshotting", "adding"}

\* snapshot_symbols once every request has its answer: all books are inserted, and the
\* loops start, for track as for track_additional.
SnapshotsArrive(c) ==
  /\ Awaiting(c)
  /\ books' = books \cup ToSet(batch[c])
  /\ Runs(c, batch[c])
  /\ UNCHANGED <<skip, added, active, asked, failed>>

\* Some request failed: books are inserted in the order of the answers up to the first
\* failure.  track returns the error; a batch added later is given up with a message.
SnapshotsFail(c) ==
  /\ Awaiting(c)
  /\ \E some \in SUBSET ToSet(batch[c]) :
       /\ some # ToSet(batch[c])
       /\ books' = books \cup some
  /\ failed' = failed \cup ToSet(batch[c])
  /\ batch' = [batch EXCEPT ![c] = <<>>]
  /\ stage' = [stage EXCEPT ![c] = IF @ = "adding" THEN "running" ELSE "over"]
  /\ UNCHANGED <<skip, driver, added, loops, handle, active, asked>>

\* A slip: a call without loops returns although it could be given more.
ReturnsIdle(c) == LoopsOf(c) = {}

\* A call without loops returns unless it has add_rx: its sender is in the engine, so
\* that the channel never closes.
Returns(c) == LoopsOf(c) = {} /\ driver # c

TrackReturns(c) ==
  /\ stage[c] = "running"
  /\ Returns(c)
  /\ stage' = [stage EXCEPT ![c] = "over"]
  /\ UNCHANGED <<skip, books, batch, driver, added, loops, handle, active, asked, failed>>

\* track_additional.
TrackAdditional ==
  /\ \E symbols \in Batches : Asks(symbols) /\ added' = Append(added, symbols)
  /\ UNCHANGED <<skip, books, stage, batch, driver, loops, handle, active, failed>>

\* Either arm that receives from add_rx, with loops or without.
TakeAdded(c) ==
  /\ stage[c] = "running" /\ driver = c
  /\ added # <<>>
  /\ added' = Tail(added)
  /\ \/ /\ skip
        /\ Runs(c, Head(added))
     \/ /\ ~skip
        /\ stage' = [stage EXCEPT ![c] = "adding"]
        /\ batch' = [batch EXCEPT ![c] = Head(added)]
        /\ UNCHANGED <<loops, handle, driver>>
  /\ UNCHANGED <<skip, books, active, asked, failed>>

-----------------------------------------------------------------------------
(* The sync loops, which are polled only while their call selects over them: not while *)
(* it awaits the snapshots of what was added.                                          *)

Polled(i) == loops[i].runs /\ stage[loops[i].call] = "running"

\* An item: the book is set, the symbol is active.
LoopReceives(i) ==
  /\ Polled(i)
  /\ loops' = [loops EXCEPT ![i].status = "Active", ![i].got = TRUE]
  /\ books' = books \cup {loops[i].symbol}
  /\ UNCHANGED <<skip, stage, batch, driver, added, handle, active, asked, failed>>

\* An error, or the end of the stream: the loop starts over.
LoopRestarts(i) ==
  /\ Polled(i)
  /\ loops' = [loops EXCEPT ![i].status = "Initializing"]
  /\ UNCHANGED <<skip, books, stage, batch, driver, added, handle, active, asked, failed>>

\* The shutdown marker, or a closed subscription: the loop ends, its status stays.
LoopEnds(i) ==
  /\ Polled(i)
  /\ loops' = [loops EXCEPT ![i].runs = FALSE]
  /\ UNCHANGED <<skip, books, stage, batch, driver, added, handle, active, asked, failed>>

-----------------------------------------------------------------------------

\* spawn_activation_monitor: every handle of the map is active, and there is one.
Activates ==
  /\ ~active
  /\ \E s \in Symbols : handle[s] # 0
  /\ \A s \in Symbols : handle[s] # 0 => loops[handle[s]].status = "Active"
  /\ active' = TRUE
  /\ UNCHANGED <<skip, books, stage, batch, driver, added, loops, handle, asked, failed>>

Next ==
  \/ \E c \in Calls :
       \/ Track(c) \/ SnapshotsArrive(c) \/ SnapshotsFail(c) \/ TrackReturns(c) \/ TakeAdded(c)
  \/ TrackAdditional
  \/ \E i \in DOMAIN loops : LoopReceives(i) \/ LoopRestarts(i) \/ LoopEnds(i)
  \/ Activates

Spec == Init /\ [][Next]_vars

\* A call of track runs on, select! leaves out neither arm for ever, and every REST
\* request is answered or fails.
Fairness ==
  \A c \in Calls : WF_vars(TakeAdded(c)) /\ WF_vars(SnapshotsArrive(c) \/ SnapshotsFail(c))

FairSpec == Spec /\ Fairness

-----------------------------------------------------------------------------
(* Properties. *)

\* The engine is reported active only when every symbol a track call has started on,
\* tracked anew included, has had its first item from its newest loop
\* (spawn_activation_monitor: "once every tracked symbol has seen its first item").
Newest(i) == \A j \in DOMAIN loops : loops[j].symbol = loops[i].symbol => j <= i

ActivationHonest ==
  [][active' # active => \A i \in DOMAIN loops : Newest(i) => loops[i].got]_vars

\* A book in the map is fed by a loop, unless its batch failed in part or its loop was
\* shut down: whatever order snapshots, added symbols and failures come in, no book is
\* left that nobody updates and no error told of.
BooksAreFed ==
  \A s \in books :
    \/ s \in failed
    \/ \E i \in DOMAIN loops : loops[i].symbol = s

\* What track_additional accepted is tracked or has failed in the end, as long as some
\* call of track got to run: with loops left or without, after a failed batch and after
\* another call has returned.
HotAddsServed == <>[](driver # NoCall => added = <<>> /\ ~Awaiting(driver))

=============================================================================
