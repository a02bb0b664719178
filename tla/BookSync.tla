------------------------------ MODULE BookSync ------------------------------
(***************************************************************************)
(* The stored order book of one symbol: the sync loop that feeds it from a *)
(* stream (core/src/orderbook/sync.rs), the REST snapshots taken when it   *)
(* is tracked and after an error, and the reconciliation task that         *)
(* replaces it from REST (core/src/orderbook/engine.rs).  The venue keeps  *)
(* moving while a snapshot is under way and while nobody listens.          *)
(*                                                                         *)
(* A book is the volume at each level, 0 where there is none.              *)
(***************************************************************************)
EXTENDS Naturals, Sequences, SequencesExt

CONSTANTS
  Levels,      \* price levels of both sides
  Volumes,     \* volumes, with 0 for an empty level
  MaxMoves,    \* bound: books the venue has in all
  StreamCap    \* bound: items under way, beyond which only the venue adds

ASSUME BookAssumption ==
  /\ IsFiniteSet(Levels)
  /\ 0 \in Volumes /\ Volumes \subseteq Nat
  /\ MaxMoves \in Nat \ {0}
  /\ StreamCap \in Nat

VARIABLES
  venue,        \* the books the venue has had, numbered by exchange sequence
  wsIsTruth,    \* skip_initial_snapshot: the stream delivers whole books
  reconciling,  \* reconciliation_interval is set
  loop,         \* where the sync loop is
  listening,    \* the stream is subscribed at the venue
  chan,         \* items the stream has yet to yield
  reply,        \* what REST read for the loop, <<>> before it has
  stored,       \* the symbol has a book in the map
  book,         \* that book
  asOf,         \* exchange sequence of what was last written to it
  status,       \* the StatusHandle of the symbol
  recon,        \* where the reconciliation task is
  reconReply    \* what REST read for reconciliation, <<>> before it has

streamVars == <<listening, chan>>
bookVars   == <<stored, book, asOf>>
loopVars   == <<loop, reply, status>>
reconVars  == <<recon, reconReply>>
modeVars   == <<wsIsTruth, reconciling>>
vars == <<venue, modeVars, streamVars, bookVars, loopVars, reconVars>>

Book     == [Levels -> Volumes]
Empty    == [l \in Levels |-> 0]
Now      == Len(venue)
Snapshot == [book : Book, seq : 1 .. MaxMoves]
Update   == [level : Levels, volume : Volumes, seq : 1 .. MaxMoves]
Error    == [error : {"err", "end"}]   \* an error yielded, the end of the stream
Latest   == [book |-> venue[Now], seq |-> Now]

Init ==
  /\ venue \in {<<b>> : b \in Book}
  /\ wsIsTruth \in BOOLEAN
  /\ reconciling \in BOOLEAN
  /\ loop = IF wsIsTruth THEN "opening" ELSE "snapshotting"
  /\ listening = FALSE
  /\ chan = <<>>
  /\ reply = <<>>
  /\ stored = FALSE
  /\ book = Empty
  /\ asOf = 0
  /\ status = "Initializing"
  /\ recon = "waiting"
  /\ reconReply = <<>>

-----------------------------------------------------------------------------
(* The venue and the client's stream. *)

Items(old, new) ==
  IF wsIsTruth THEN {<<[book |-> new, seq |-> Now + 1]>>}
  ELSE {[k \in DOMAIN order |->
           [level |-> order[k], volume |-> new[order[k]], seq |-> Now + 1]] :
          order \in SetToSeqs({l \in Levels : old[l] # new[l]})}

\* The venue's book changes; a subscribed stream carries the whole book, or each
\* changed level in turn under one sequence number.
VenueMoves ==
  /\ Now < MaxMoves
  /\ \E new \in Book \ {venue[Now]} :
       /\ venue' = Append(venue, new)
       /\ IF listening
          THEN \E items \in Items(venue[Now], new) : chan' = chan \o items
          ELSE UNCHANGED chan
  /\ UNCHANGED <<modeVars, listening, bookVars, loopVars, reconVars>>

\* Where whole books are delivered, the same book comes again on the next tick.
VenueTicks ==
  /\ wsIsTruth
  /\ listening
  /\ Len(chan) < StreamCap
  /\ chan' = Append(chan, Latest)
  /\ UNCHANGED <<venue, modeVars, listening, bookVars, loopVars, reconVars>>

Holds == loop \in {"streaming", "fetching", "delaying"}

\* The connection goes: what was under way may be lost, and the stream yields an
\* error, or ends.
StreamBreaks ==
  /\ listening
  /\ Len(chan) < StreamCap
  /\ \E n \in 0 .. Len(chan), e \in Error : chan' = Append(SubSeq(chan, 1, n), e)
  /\ listening' = FALSE
  /\ UNCHANGED <<venue, modeVars, bookVars, loopVars, reconVars>>

\* The client subscribes again by itself, under a stream that is still held.
StreamResumes ==
  /\ Holds
  /\ ~listening
  /\ listening' = TRUE
  /\ UNCHANGED <<venue, modeVars, chan, bookVars, loopVars, reconVars>>

-----------------------------------------------------------------------------
(* track() and the sync loop. *)

\* Two slips: the levels of a snapshot put into the old book, or added to it.
ReplaceMerging(snapshot) ==
  /\ stored' = TRUE
  /\ book' = [l \in Levels |-> IF snapshot.book[l] = 0 THEN book[l] ELSE snapshot.book[l]]
  /\ asOf' = snapshot.seq

ReplaceAdding(snapshot) ==
  /\ stored' = TRUE
  /\ book' = [l \in Levels |-> book[l] + snapshot.book[l]]
  /\ asOf' = snapshot.seq

\* books.insert of a fresh book that holds a snapshot.
Replace(snapshot) ==
  /\ stored' = TRUE
  /\ book' = snapshot.book
  /\ asOf' = snapshot.seq

\* get_l2_orderbook, for the initial snapshot or for a re-snapshot: the venue reads
\* its book at some moment before the answer arrives.
RestReads ==
  /\ loop \in {"snapshotting", "fetching"}
  /\ reply = <<>>
  /\ reply' = <<Latest>>
  /\ UNCHANGED <<venue, modeVars, streamVars, bookVars, loop, status, reconVars>>

\* The answer is inserted: track goes on to run the sync loop, a loop that
\* re-snapshots goes back to initializing and into its reconnect delay.
RestAnswers ==
  /\ loop \in {"snapshotting", "fetching"}
  /\ reply # <<>>
  /\ Replace(reply[1])
  /\ reply' = <<>>
  /\ loop' = IF loop = "snapshotting" THEN "opening" ELSE "delaying"
  /\ status' = "Initializing"
  /\ UNCHANGED <<venue, modeVars, streamVars, reconVars>>

\* No answer: track gives up on the symbol, a re-snapshot is skipped.
RestFails ==
  /\ loop \in {"snapshotting", "fetching"}
  /\ reply' = <<>>
  /\ loop' = IF loop = "snapshotting" THEN "untracked" ELSE "delaying"
  /\ status' = "Initializing"
  /\ UNCHANGED <<venue, modeVars, streamVars, bookVars, reconVars>>

\* The top of the outer loop: a fresh stream.
LoopOpens ==
  /\ loop = "opening"
  /\ loop' = "streaming"
  /\ listening' = TRUE
  /\ UNCHANGED <<venue, modeVars, chan, bookVars, reply, status, reconVars>>

\* A whole book replaces the stored one, a level is set in it.  The first message of
\* a stream makes the symbol active.
LoopReceives ==
  /\ loop = "streaming"
  /\ chan # <<>>
  /\ Head(chan) \notin Error
  /\ chan' = Tail(chan)
  /\ IF wsIsTruth THEN Replace(Head(chan))
     ELSE /\ stored' = TRUE
          /\ book' = [book EXCEPT ![Head(chan).level] = Head(chan).volume]
          /\ asOf' = Head(chan).seq
  /\ status' = "Active"
  /\ UNCHANGED <<venue, modeVars, listening, loop, reply, reconVars>>

\* An error: re-snapshot if books are built from changes.  The end of the stream
\* only leads to a new one.
LoopFails ==
  /\ loop = "streaming"
  /\ chan # <<>>
  /\ Head(chan) \in Error
  /\ chan' = Tail(chan)
  /\ IF Head(chan).error = "err" /\ ~wsIsTruth
     THEN loop' = "fetching" /\ UNCHANGED status
     ELSE loop' = "delaying" /\ status' = "Initializing"
  /\ UNCHANGED <<venue, modeVars, listening, bookVars, reply, reconVars>>

\* A slip: the old stream is kept.
LoopRetriesKeeping ==
  /\ loop = "delaying"
  /\ loop' = "opening"
  /\ UNCHANGED <<venue, modeVars, streamVars, bookVars, reply, status, reconVars>>

\* The delay is over, the old stream is dropped with what it has not yielded.
LoopRetries ==
  /\ loop = "delaying"
  /\ loop' = "opening"
  /\ listening' = FALSE
  /\ chan' = <<>>
  /\ UNCHANGED <<venue, modeVars, bookVars, reply, status, reconVars>>

-----------------------------------------------------------------------------
(* Reconciliation (spawn_reconciliation). *)

\* The ticker fires and the symbol has a book to compare.
ReconStarts ==
  /\ reconciling
  /\ recon = "waiting"
  /\ stored
  /\ recon' = "fetching"
  /\ UNCHANGED <<venue, modeVars, streamVars, bookVars, loopVars, reconReply>>

ReconReads ==
  /\ recon = "fetching"
  /\ reconReply = <<>>
  /\ reconReply' = <<Latest>>
  /\ UNCHANGED <<venue, modeVars, streamVars, bookVars, loopVars, recon>>

\* A slip: drift is reported and left.
ReconReportsOnly ==
  /\ recon = "fetching"
  /\ reconReply # <<>>
  /\ recon' = "waiting"
  /\ reconReply' = <<>>
  /\ UNCHANGED <<venue, modeVars, streamVars, bookVars, loopVars>>

\* compare_books: some level is in one book only or has another volume there.
Mismatch(snapshot) == \E l \in Levels : book[l] # snapshot.book[l]

\* compare_books and, if any level differs, the replacement.  Both run without an
\* await on the thread of the LocalSet that also runs the loops.
ReconCompares ==
  /\ recon = "fetching"
  /\ reconReply # <<>>
  /\ IF Mismatch(reconReply[1]) THEN Replace(reconReply[1]) ELSE UNCHANGED bookVars
  /\ recon' = "waiting"
  /\ reconReply' = <<>>
  /\ UNCHANGED <<venue, modeVars, streamVars, loopVars>>

ReconFails ==
  /\ recon = "fetching"
  /\ recon' = "waiting"
  /\ reconReply' = <<>>
  /\ UNCHANGED <<venue, modeVars, streamVars, bookVars, loopVars>>

-----------------------------------------------------------------------------

Venue == VenueMoves \/ VenueTicks \/ StreamBreaks \/ StreamResumes

Loop ==
  \/ RestReads \/ RestAnswers \/ RestFails
  \/ LoopOpens \/ LoopReceives \/ LoopFails \/ LoopRetries

Recon == ReconStarts \/ ReconReads \/ ReconCompares \/ ReconFails

Next == Venue \/ Loop \/ Recon

Spec == Init /\ [][Next]_vars

\* The loop and the task run on; REST answers again and again, not always.
Fairness ==
  /\ WF_vars(Loop)
  /\ WF_vars(ReconStarts)
  /\ SF_vars(ReconReads)
  /\ SF_vars(ReconCompares)

FairSpec == Spec /\ Fairness

-----------------------------------------------------------------------------

TypeOK ==
  /\ venue \in Seq(Book) /\ Now \in 1 .. MaxMoves
  /\ wsIsTruth \in BOOLEAN /\ reconciling \in BOOLEAN
  /\ loop \in {"snapshotting", "opening", "streaming", "fetching", "delaying", "untracked"}
  /\ listening \in BOOLEAN
  /\ chan \in Seq(Snapshot \cup Update \cup Error)
  /\ reply \in {<<>>} \cup {<<s>> : s \in Snapshot}
  /\ stored \in BOOLEAN
  /\ book \in Book
  /\ asOf \in 0 .. MaxMoves
  /\ status \in {"Initializing", "Active"}
  /\ recon \in {"waiting", "fetching"}
  /\ reconReply \in {<<>>} \cup {<<s>> : s \in Snapshot}

\* Where the stream delivers whole books, what readers see is always one book the
\* venue had, never levels of two: not after a reconnect, and not when a book from
\* the stream and one from REST overtake each other.
WholeBooks == wsIsTruth /\ stored => book = venue[asOf]

\* Without reconciliation the stored book never goes back to an older one, although
\* errors, re-snapshots and a stream that resumes by itself overlap: REST is asked
\* before the new stream opens, and the old one is dropped with what it holds.
BooksMoveForward == [][~reconciling => asOf' >= asOf]_vars

\* With reconciliation the book is right in the end once the venue pauses, even if
\* changes were missed or an old answer was written over a newer book
\* (with_reconciliation: "On mismatch, the local book is replaced").
Converges == reconciling => <>[](stored => book = venue[Now])

=============================================================================
