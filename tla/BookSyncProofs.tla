--------------------------- MODULE BookSyncProofs ---------------------------
(***************************************************************************)
(* Theorems about the stored book of a symbol, for any finite set of       *)
(* levels, any volumes and any number of books at the venue.  Whatever is  *)
(* on its way to the book, in the stream or in a REST answer, is something *)
(* the venue had (Sourced), and arrives in the venue's order unless        *)
(* reconciliation overtakes it (InOrder).                                  *)
(***************************************************************************)
EXTENDS BookSync, FiniteSetTheorems, SequenceTheorems, TLAPS

Item == Snapshot \cup Update \cup Error

\* A book that a venue with the books v had, under its number.
Genuine(s, v) == s \in Snapshot /\ s.seq \in 1 .. Len(v) /\ s.book = v[s.seq]

InChan(x, v, whole) ==
  \/ x \in Error
  \/ whole /\ Genuine(x, v)
  \/ ~whole /\ x \in Update /\ x.seq \in 1 .. Len(v)

Rising(c) == \A j, k \in DOMAIN c :
               j <= k /\ c[j] \notin Error /\ c[k] \notin Error => c[j].seq <= c[k].seq

\* What a stream may hold.
Carries(c, v, whole) ==
  /\ c \in Seq(Item)
  /\ \A k \in DOMAIN c : InChan(c[k], v, whole)
  /\ Rising(c)

AtLeast(c, n) == \A k \in DOMAIN c : c[k] \notin Error => n <= c[k].seq

-----------------------------------------------------------------------------
(* Streams. *)

LEMMA SeqOfChan ==
  ASSUME NEW x, NEW v \in Seq(Book), NEW whole \in BOOLEAN, InChan(x, v, whole), x \notin Error
  PROVE  x.seq \in 1 .. Len(v)
BY DEF InChan, Genuine

LEMMA CarriesNothing ==
  ASSUME NEW v, NEW whole, NEW n
  PROVE  Carries(<<>>, v, whole) /\ AtLeast(<<>>, n)
BY DEF Carries, Rising, AtLeast

LEMMA VenueGrows ==
  ASSUME NEW v \in Seq(Book), NEW new \in Book
  PROVE  /\ Append(v, new) \in Seq(Book) /\ Len(Append(v, new)) = Len(v) + 1
         /\ \A k \in 1 .. Len(v) : Append(v, new)[k] = v[k]
         /\ Append(v, new)[Len(v) + 1] = new
OBVIOUS

LEMMA StillGenuine ==
  ASSUME NEW v \in Seq(Book), NEW new \in Book, NEW s, Genuine(s, v)
  PROVE  Genuine(s, Append(v, new))
<1>1. Len(v) \in Nat /\ s.seq \in 1 .. Len(v) + 1
  BY DEF Genuine
<1> QED
  BY <1>1, VenueGrows DEF Genuine

LEMMA StillCarries ==
  ASSUME NEW v \in Seq(Book), NEW new \in Book, NEW c, NEW whole \in BOOLEAN, Carries(c, v, whole)
  PROVE  Carries(c, Append(v, new), whole)
<1>1. Len(v) \in Nat /\ \A n \in 1 .. Len(v) : n \in 1 .. Len(v) + 1
  OBVIOUS
<1>2. \A x : InChan(x, v, whole) => InChan(x, Append(v, new), whole)
  BY <1>1, StillGenuine, VenueGrows DEF InChan
<1> QED
  BY <1>2 DEF Carries

\* What is appended is an error, or as new as the venue.
LEMMA CarriesAppended ==
  ASSUME NEW v \in Seq(Book), NEW whole \in BOOLEAN, NEW c, Carries(c, v, whole),
         NEW items \in Seq(Item),
         \A k \in DOMAIN items : InChan(items[k], v, whole) /\ (items[k] \in Error \/ items[k].seq = Len(v)),
         NEW n \in 0 .. Len(v), NEW ahead \in BOOLEAN, ahead => AtLeast(c, n)
  PROVE  Carries(c \o items, v, whole) /\ (ahead => AtLeast(c \o items, n))
<1> DEFINE d == c \o items
<1>1. Len(c) \in Nat /\ Len(items) \in Nat /\ c \in Seq(Item) /\ Len(v) \in Nat
  BY DEF Carries
<1>2. /\ d \in Seq(Item) /\ Len(d) = Len(c) + Len(items)
      /\ \A i \in 1 .. Len(c) + Len(items) : d[i] = IF i <= Len(c) THEN c[i] ELSE items[i - Len(c)]
  BY <1>1, ConcatProperties
<1>3. DOMAIN d = 1 .. Len(c) + Len(items) /\ DOMAIN c = 1 .. Len(c) /\ DOMAIN items = 1 .. Len(items)
  BY <1>1, <1>2
<1> HIDE DEF d
<1>4. \A i \in DOMAIN d :
        \/ i <= Len(c) /\ i \in DOMAIN c /\ d[i] = c[i]
        \/ i > Len(c) /\ i - Len(c) \in DOMAIN items /\ d[i] = items[i - Len(c)]
  <2>1. \A i \in 1 .. Len(c) + Len(items) :
          \/ i <= Len(c) /\ i \in 1 .. Len(c)
          \/ i > Len(c) /\ ~(i <= Len(c)) /\ i - Len(c) \in 1 .. Len(items)
    BY <1>1
  <2> QED
    BY <1>2, <1>3, <2>1
<1>5. \A i \in DOMAIN d :
        \/ i <= Len(c) /\ i \in DOMAIN c /\ d[i] = c[i]
        \/ i > Len(c) /\ InChan(d[i], v, whole) /\ (d[i] \in Error \/ d[i].seq = Len(v))
  BY <1>4
<1>6. \A i \in DOMAIN d : InChan(d[i], v, whole)
  BY <1>5 DEF Carries
<1>7. \A i \in DOMAIN d : d[i] \notin Error => d[i].seq \in 1 .. Len(v)
  BY <1>6, SeqOfChan
<1>8. Rising(d)
  <2> SUFFICES ASSUME NEW j \in DOMAIN d, NEW k \in DOMAIN d, j <= k, d[j] \notin Error, d[k] \notin Error
               PROVE  d[j].seq <= d[k].seq
    BY DEF Rising
  <2>1. CASE k <= Len(c)
    <3>1. j <= Len(c)
      BY <1>1, <1>3, <2>1
    <3>2. d[k] = c[k] /\ k \in DOMAIN c /\ d[j] = c[j] /\ j \in DOMAIN c
      BY <1>1, <1>3, <1>5, <2>1, <3>1
    <3> QED
      BY <3>2 DEF Carries, Rising
  <2>2. CASE ~(k <= Len(c))
    <3>1. d[k].seq = Len(v)
      BY <1>5, <2>2
    <3> QED
      BY <1>1, <1>7, <3>1
  <2> QED
    BY <2>1, <2>2
<1>9. ASSUME ahead PROVE AtLeast(d, n)
  <2> SUFFICES ASSUME NEW k \in DOMAIN d, d[k] \notin Error PROVE n <= d[k].seq
    BY DEF AtLeast
  <2>1. CASE k \in DOMAIN c /\ d[k] = c[k]
    BY <1>9, <2>1 DEF AtLeast
  <2>2. CASE d[k].seq = Len(v)
    BY <1>1, <2>2
  <2> QED
    BY <1>5, <2>1, <2>2
<1> QED
  BY <1>2, <1>6, <1>8, <1>9 DEF Carries, d

\* What is lost is the end of a stream.
LEMMA CarriesPrefix ==
  ASSUME NEW v, NEW whole, NEW c, Carries(c, v, whole), NEW m \in 0 .. Len(c),
         NEW n, NEW ahead \in BOOLEAN, ahead => AtLeast(c, n)
  PROVE  Carries(SubSeq(c, 1, m), v, whole) /\ (ahead => AtLeast(SubSeq(c, 1, m), n))
<1> DEFINE d == SubSeq(c, 1, m)
<1>1. c \in Seq(Item) /\ Len(c) \in Nat /\ DOMAIN c = 1 .. Len(c)
  BY DEF Carries
<1>2. d \in Seq(Item) /\ Len(d) = m /\ \A k \in 1 .. m : d[k] = c[k]
  BY <1>1
<1>3. \A k \in DOMAIN d : k \in DOMAIN c /\ d[k] = c[k]
  BY <1>1, <1>2
<1> HIDE DEF d
<1>4. Carries(d, v, whole)
  BY <1>2, <1>3 DEF Carries, Rising
<1>5. ahead => AtLeast(d, n)
  BY <1>3 DEF AtLeast
<1> QED
  BY <1>4, <1>5 DEF d

\* What is yielded is the oldest, and nothing behind it is older.
LEMMA CarriesTail ==
  ASSUME NEW v, NEW whole, NEW c, Carries(c, v, whole), c # <<>>
  PROVE  /\ Carries(Tail(c), v, whole)
         /\ InChan(Head(c), v, whole)
         /\ Head(c) \notin Error => AtLeast(Tail(c), Head(c).seq)
         /\ \A n : AtLeast(c, n) => AtLeast(Tail(c), n)
<1> DEFINE d == Tail(c)
<1>1. c \in Seq(Item) /\ Len(c) \in Nat \ {0} /\ DOMAIN c = 1 .. Len(c)
  BY DEF Carries
<1>2. d \in Seq(Item) /\ Len(d) = Len(c) - 1 /\ \A k \in 1 .. Len(c) - 1 : d[k] = c[k + 1]
  BY <1>1
<1>3. \A k \in DOMAIN d : k \in Nat /\ k + 1 \in DOMAIN c /\ d[k] = c[k + 1] /\ 1 <= k + 1
  BY <1>1, <1>2
<1>4. Head(c) = c[1] /\ 1 \in DOMAIN c
  BY <1>1
<1> HIDE DEF d
<1>5. \A k \in DOMAIN d : InChan(d[k], v, whole)
  BY <1>3 DEF Carries
<1>6. Rising(d)
  <2> SUFFICES ASSUME NEW j \in DOMAIN d, NEW k \in DOMAIN d, j <= k, d[j] \notin Error, d[k] \notin Error
               PROVE  d[j].seq <= d[k].seq
    BY DEF Rising
  <2>1. j + 1 <= k + 1
    BY <1>3
  <2> QED
    BY <1>3, <2>1 DEF Carries, Rising
<1>7. ASSUME Head(c) \notin Error PROVE AtLeast(d, Head(c).seq)
  BY <1>3, <1>4, <1>7 DEF Carries, Rising, AtLeast
<1>8. \A n : AtLeast(c, n) => AtLeast(d, n)
  BY <1>3 DEF AtLeast
<1>9. InChan(Head(c), v, whole)
  BY <1>4 DEF Carries
<1> QED
  BY <1>2, <1>5, <1>6, <1>7, <1>8, <1>9 DEF Carries, d

-----------------------------------------------------------------------------
(* The invariant. *)

Answer(v) == {<<>>} \cup {<<s>> : s \in {x \in Snapshot : Genuine(x, v)}}

Types ==
  /\ venue \in Seq(Book) /\ Now \in 1 .. MaxMoves
  /\ wsIsTruth \in BOOLEAN /\ reconciling \in BOOLEAN
  /\ loop \in {"snapshotting", "opening", "streaming", "fetching", "delaying", "untracked"}
  /\ listening \in BOOLEAN
  /\ status \in {"Initializing", "Active"}
  /\ recon \in {"waiting", "fetching"}

\* What the book was last written from is something the venue had; a whole book is
\* that of one moment.
Written ==
  /\ stored \in BOOLEAN /\ book \in Book
  /\ asOf \in 0 .. Now
  /\ wsIsTruth /\ stored => asOf >= 1 /\ book = venue[asOf]

Sourced ==
  /\ Carries(chan, venue, wsIsTruth)
  /\ reply \in Answer(venue)
  /\ reconReply \in Answer(venue)

Ahead == loop = "streaming" /\ ~reconciling

InOrder ==
  /\ loop \in {"snapshotting", "opening", "untracked"} => chan = <<>> /\ ~listening
  /\ loop \notin {"snapshotting", "fetching"} => reply = <<>>
  /\ Ahead => AtLeast(chan, asOf)
  /\ ~reconciling => recon = "waiting" /\ (reply # <<>> => asOf <= reply[1].seq)

BookInv == Types /\ Written /\ Sourced /\ InOrder

LEMMA InvImpliesType == BookInv => TypeOK
<1> SUFFICES ASSUME BookInv PROVE TypeOK
  OBVIOUS
<1>1. asOf \in 0 .. MaxMoves
  BY BookAssumption DEF BookInv, Types, Written
<1>2. Answer(venue) \subseteq {<<>>} \cup {<<x>> : x \in Snapshot}
  BY DEF Answer
<1>3. chan \in Seq(Snapshot \cup Update \cup Error)
  BY DEF BookInv, Sourced, Carries, Item
<1> QED
  BY <1>1, <1>2, <1>3 DEF BookInv, Types, Written, Sourced, TypeOK

LEMMA BookInit == Init => BookInv
<1> SUFFICES ASSUME Init PROVE BookInv
  OBVIOUS
<1>1. PICK b \in Book : venue = <<b>>
  BY DEF Init
<1>2. venue \in Seq(Book) /\ Now = 1 /\ Now \in 1 .. MaxMoves
  BY <1>1, BookAssumption DEF Now
<1>3. Empty \in Book
  BY BookAssumption DEF Empty, Book
<1>4. Types
  BY <1>2 DEF Init, Types
<1>5. Written
  <2>1. stored = FALSE /\ book \in Book /\ asOf = 0
    BY <1>3 DEF Init
  <2>2. ~stored /\ stored \in BOOLEAN
    BY <2>1, Zenon
  <2>3. asOf \in 0 .. Now
    BY <1>2, <2>1
  <2> QED
    BY <2>1, <2>2, <2>3 DEF Written
<1>6. Carries(chan, venue, wsIsTruth) /\ AtLeast(chan, asOf)
  BY CarriesNothing DEF Init
<1>7. Sourced /\ InOrder
  BY <1>6 DEF Init, Sourced, InOrder, Answer
<1> QED
  BY <1>4, <1>5, <1>7 DEF BookInv

\* An answer is the book of the moment REST read it.
LEMMA LatestIsGenuine ==
  ASSUME Types
  PROVE  Genuine(Latest, venue) /\ Latest.seq = Now /\ Latest \in Item /\ <<Latest>> \in Answer(venue)
<1>1. venue[Now] \in Book /\ Now \in 1 .. Now
  BY DEF Types, Now
<1>2. Latest \in Snapshot
  BY <1>1 DEF Latest, Snapshot, Types
<1>3. Genuine(Latest, venue) /\ Latest.seq = Now
  BY <1>1, <1>2 DEF Genuine, Latest, Now
<1> QED
  BY <1>2, <1>3 DEF Item, Answer

LEMMA AnswerIsGenuine ==
  ASSUME NEW r \in Answer(venue), r # <<>>
  PROVE  Genuine(r[1], venue)
BY DEF Answer

-----------------------------------------------------------------------------
(* The venue. *)

\* The items the stream carries of a change.
LEMMA ItemsAreNew ==
  ASSUME Types, NEW new \in Book, Now < MaxMoves, NEW items \in Items(venue[Now], new),
         NEW w, w = Append(venue, new)
  PROVE  /\ items \in Seq(Item)
         /\ \A k \in DOMAIN items : InChan(items[k], w, wsIsTruth) /\ items[k].seq = Len(w)
<1> DEFINE n == Now + 1
<1>1. n \in 1 .. MaxMoves /\ n \in 1 .. n /\ Len(w) = n /\ w[n] = new
  BY VenueGrows, BookAssumption DEF Types, Now
<1> HIDE DEF n
<1>2. CASE wsIsTruth
  <2> DEFINE s == [book |-> new, seq |-> n]
  <2>1. items = <<s>>
    BY <1>2 DEF Items, n
  <2>2. s \in Snapshot /\ s.seq = n /\ s.book = new
    BY <1>1 DEF Snapshot
  <2> HIDE DEF s
  <2>3. Genuine(s, w)
    BY <1>1, <2>2 DEF Genuine
  <2>4. items \in Seq(Item) /\ \A k \in DOMAIN items : items[k] = s
    BY <2>1, <2>2 DEF Item
  <2> QED
    BY <1>1, <1>2, <2>2, <2>3, <2>4 DEF InChan
<1>3. CASE ~wsIsTruth
  <2> DEFINE changed == {l \in Levels : venue[Now][l] # new[l]}
  <2>1. PICK order \in SetToSeqs(changed) :
          items = [k \in DOMAIN order |-> [level |-> order[k], volume |-> new[order[k]], seq |-> n]]
    BY <1>3 DEF Items, n
  <2>2. Cardinality(changed) \in Nat
    BY BookAssumption, FS_Subset, FS_CardinalityType
  <2>3. order \in [1 .. Cardinality(changed) -> Levels]
    BY <2>1 DEF SetToSeqs
  <2> HIDE DEF changed
  <2>4. \A k \in 1 .. Cardinality(changed) : items[k] \in Update /\ items[k].seq = n
    <3> SUFFICES ASSUME NEW k \in 1 .. Cardinality(changed)
                 PROVE  items[k] \in Update /\ items[k].seq = n
      OBVIOUS
    <3>1. order[k] \in Levels
      BY <2>3
    <3>2. new[order[k]] \in Volumes
      BY <3>1 DEF Book
    <3>3. items[k] = [level |-> order[k], volume |-> new[order[k]], seq |-> n]
      BY <2>1, <2>3
    <3> QED
      BY <1>1, <3>1, <3>2, <3>3 DEF Update
  <2>5. items \in [1 .. Cardinality(changed) -> Update]
    BY <2>1, <2>3, <2>4
  <2>6. items \in Seq(Update) /\ DOMAIN items = 1 .. Cardinality(changed)
    BY <2>2, <2>5
  <2>7. items \in Seq(Item)
    BY <2>6 DEF Item
  <2> QED
    BY <1>1, <1>3, <2>4, <2>6, <2>7 DEF InChan
<1> QED
  BY <1>2, <1>3 DEF Types

LEMMA MovesStep ==
  ASSUME BookInv, VenueMoves
  PROVE  BookInv'
<1>1. PICK new \in Book :
        /\ venue' = Append(venue, new)
        /\ IF listening THEN \E items \in Items(venue[Now], new) : chan' = chan \o items
           ELSE UNCHANGED chan
  BY DEF VenueMoves
<1>2. UNCHANGED <<wsIsTruth, reconciling, listening, stored, book, asOf, loop, reply, status,
                  recon, reconReply>> /\ Now < MaxMoves
  BY DEF VenueMoves, modeVars, bookVars, loopVars, reconVars
<1>3. /\ venue \in Seq(Book) /\ Now \in Nat /\ venue' \in Seq(Book)
      /\ Now' = Now + 1 /\ Len(venue') = Now' /\ Now' \in 1 .. MaxMoves
      /\ \A k \in 1 .. Now : venue'[k] = venue[k]
  BY <1>1, <1>2, VenueGrows, BookAssumption DEF BookInv, Types, Now
<1>4. Types'
  BY <1>2, <1>3 DEF BookInv, Types
<1>5. Written'
  BY <1>2, <1>3 DEF BookInv, Written
<1>6. Carries(chan, venue', wsIsTruth)
  BY <1>1, <1>3, StillCarries DEF BookInv, Types, Sourced
<1>7. \A x : Genuine(x, venue) => Genuine(x, venue')
  BY <1>1, <1>3, StillGenuine
<1>8. reply' \in Answer(venue') /\ reconReply' \in Answer(venue')
  BY <1>2, <1>7 DEF BookInv, Sourced, Answer
<1>9. /\ Carries(chan', venue', wsIsTruth)
      /\ Ahead => AtLeast(chan', asOf)
  <2>1. CASE ~listening
    BY <1>1, <1>6, <2>1 DEF BookInv, InOrder
  <2>2. CASE listening
    <3>1. PICK items \in Items(venue[Now], new) : chan' = chan \o items
      BY <1>1, <2>2
    <3>2. /\ items \in Seq(Item)
          /\ \A k \in DOMAIN items : InChan(items[k], venue', wsIsTruth) /\ items[k].seq = Len(venue')
      BY <1>1, <1>2, ItemsAreNew DEF BookInv
    <3>3. asOf \in 0 .. Len(venue') /\ wsIsTruth \in BOOLEAN /\ Ahead \in BOOLEAN
      BY <1>3 DEF BookInv, Written, Types, Ahead
    <3>4. Ahead => AtLeast(chan, asOf)
      BY DEF BookInv, InOrder
    <3> QED
      BY <1>3, <1>6, <3>1, <3>2, <3>3, <3>4, CarriesAppended
  <2> QED
    BY <2>1, <2>2 DEF BookInv, Types
<1>10. Sourced'
  BY <1>2, <1>8, <1>9 DEF Sourced
<1>11. InOrder'
  <2>1. ~listening => chan' = chan
    BY <1>1
  <2> QED
    BY <1>2, <1>9, <2>1 DEF BookInv, InOrder, Ahead
<1> QED
  BY <1>4, <1>5, <1>10, <1>11 DEF BookInv

\* An item, or an error, is appended to what the stream holds or has left of it.
LEMMA StreamAppends ==
  ASSUME BookInv, NEW c, Carries(c, venue, wsIsTruth), Ahead => AtLeast(c, asOf),
         NEW x \in Item, InChan(x, venue, wsIsTruth), x \in Error \/ x.seq = Now,
         chan' = Append(c, x), listening, listening' \in BOOLEAN,
         UNCHANGED <<venue, modeVars, bookVars, loopVars, reconVars>>
  PROVE  BookInv'
<1>1. /\ <<x>> \in Seq(Item) /\ chan' = c \o <<x>>
      /\ \A k \in DOMAIN <<x>> : <<x>>[k] = x
  BY DEF Carries
<1>2. asOf \in 0 .. Len(venue) /\ venue \in Seq(Book) /\ wsIsTruth \in BOOLEAN /\ Ahead \in BOOLEAN
  BY DEF BookInv, Types, Written, Now, Ahead
<1>3. Carries(chan', venue, wsIsTruth) /\ (Ahead => AtLeast(chan', asOf))
  BY <1>1, <1>2, CarriesAppended DEF Now
<1>4. Types' /\ Written'
  BY DEF BookInv, Types, Written, Now, modeVars, bookVars, loopVars, reconVars
<1>5. Sourced'
  BY <1>3 DEF BookInv, Sourced, modeVars, loopVars, reconVars
<1>6. InOrder'
  BY <1>3 DEF BookInv, InOrder, Ahead, modeVars, bookVars, loopVars, reconVars
<1> QED
  BY <1>4, <1>5, <1>6 DEF BookInv

LEMMA TicksStep ==
  ASSUME BookInv, VenueTicks
  PROVE  BookInv'
<1>1. Genuine(Latest, venue) /\ Latest.seq = Now /\ Latest \in Item
  BY LatestIsGenuine DEF BookInv
<1>2. InChan(Latest, venue, wsIsTruth)
  BY <1>1 DEF InChan, VenueTicks
<1>3. Carries(chan, venue, wsIsTruth) /\ (Ahead => AtLeast(chan, asOf))
  BY DEF BookInv, Sourced, InOrder
<1>4. /\ chan' = Append(chan, Latest) /\ listening /\ listening' = listening /\ listening' \in BOOLEAN
      /\ UNCHANGED <<venue, modeVars, bookVars, loopVars, reconVars>>
  BY DEF VenueTicks, BookInv, Types
<1> QED
  BY <1>1, <1>2, <1>3, <1>4, StreamAppends

LEMMA BreaksStep ==
  ASSUME BookInv, StreamBreaks
  PROVE  BookInv'
<1>1. PICK n \in 0 .. Len(chan), e \in Error : chan' = Append(SubSeq(chan, 1, n), e)
  BY DEF StreamBreaks
<1>2. e \in Item /\ InChan(e, venue, wsIsTruth)
  BY DEF Item, InChan
<1>3. Ahead \in BOOLEAN
  BY DEF Ahead
<1>4. Carries(SubSeq(chan, 1, n), venue, wsIsTruth) /\ (Ahead => AtLeast(SubSeq(chan, 1, n), asOf))
  BY <1>3, CarriesPrefix DEF BookInv, Sourced, InOrder
<1>5. /\ listening /\ listening' = FALSE
      /\ UNCHANGED <<venue, modeVars, bookVars, loopVars, reconVars>>
  BY DEF StreamBreaks
<1> QED
  BY <1>1, <1>2, <1>4, <1>5, StreamAppends

LEMMA ResumesStep ==
  ASSUME BookInv, StreamResumes
  PROVE  BookInv'
BY DEF BookInv, Types, Written, Sourced, InOrder, Ahead, StreamResumes, Holds, Now,
       modeVars, bookVars, loopVars, reconVars

-----------------------------------------------------------------------------
(* The loop. *)

\* A book the venue had is written whole.
LEMMA ReplaceWrites ==
  ASSUME Types, NEW s, Genuine(s, venue), Replace(s), UNCHANGED <<venue, modeVars>>
  PROVE  Written' /\ asOf' = s.seq
<1>1. s.book \in Book /\ s.seq \in 1 .. Now /\ s.book = venue[s.seq]
  BY DEF Genuine, Snapshot, Now
<1>2. stored' = TRUE /\ book' = s.book /\ asOf' = s.seq
  BY DEF Replace
<1>3. stored' \in BOOLEAN
  BY <1>2, Zenon
<1>4. Now \in Nat /\ asOf' \in 0 .. Now /\ asOf' >= 1
  BY <1>1, <1>2 DEF Types, Now
<1>5. book' \in Book /\ book' = venue[asOf']
  BY <1>1, <1>2
<1> QED
  BY <1>2, <1>3, <1>4, <1>5 DEF Written, Now

LEMMA RestReadsStep ==
  ASSUME BookInv, RestReads
  PROVE  BookInv'
<1>1. /\ loop \in {"snapshotting", "fetching"} /\ reply' = <<Latest>>
      /\ UNCHANGED <<venue, modeVars, streamVars, bookVars, loop, status, reconVars>>
  BY DEF RestReads
<1>2. <<Latest>> \in Answer(venue) /\ Latest.seq = Now
  BY LatestIsGenuine DEF BookInv
<1>3. Types' /\ Written' /\ Sourced'
  BY <1>1, <1>2
     DEF BookInv, Types, Written, Sourced, Now, modeVars, streamVars, bookVars, reconVars
<1>4. reply'[1].seq = Now /\ asOf <= Now
  BY <1>1, <1>2 DEF BookInv, Types, Written
<1>5. InOrder'
  BY <1>1, <1>4 DEF BookInv, InOrder, Ahead, modeVars, streamVars, bookVars, reconVars
<1> QED
  BY <1>3, <1>5 DEF BookInv

LEMMA RestAnswersStep ==
  ASSUME BookInv, RestAnswers
  PROVE  BookInv'
<1>1. /\ loop \in {"snapshotting", "fetching"} /\ reply # <<>> /\ Replace(reply[1])
      /\ reply' = <<>> /\ status' = "Initializing"
      /\ loop' = IF loop = "snapshotting" THEN "opening" ELSE "delaying"
      /\ UNCHANGED <<venue, modeVars, streamVars, reconVars>>
  BY DEF RestAnswers
<1>2. Genuine(reply[1], venue)
  BY <1>1, AnswerIsGenuine DEF BookInv, Sourced
<1>3. Written'
  BY <1>1, <1>2, ReplaceWrites DEF BookInv
<1>4. Types' /\ Sourced'
  BY <1>1 DEF BookInv, Types, Sourced, Answer, Now, modeVars, streamVars, reconVars
<1>5. InOrder'
  BY <1>1 DEF BookInv, InOrder, Ahead, modeVars, streamVars, reconVars
<1> QED
  BY <1>3, <1>4, <1>5 DEF BookInv

LEMMA RestFailsStep ==
  ASSUME BookInv, RestFails
  PROVE  BookInv'
<1>1. /\ loop \in {"snapshotting", "fetching"}
      /\ reply' = <<>> /\ status' = "Initializing"
      /\ loop' = IF loop = "snapshotting" THEN "untracked" ELSE "delaying"
      /\ UNCHANGED <<venue, modeVars, streamVars, bookVars, reconVars>>
  BY DEF RestFails
<1>2. Types' /\ Written' /\ Sourced'
  BY <1>1 DEF BookInv, Types, Written, Sourced, Answer, Now, modeVars, streamVars, bookVars, reconVars
<1>3. InOrder'
  BY <1>1 DEF BookInv, InOrder, Ahead, modeVars, streamVars, bookVars, reconVars
<1> QED
  BY <1>2, <1>3 DEF BookInv

\* A fresh stream holds nothing.
LEMMA OpensStep ==
  ASSUME BookInv, LoopOpens
  PROVE  BookInv'
<1>1. /\ loop = "opening" /\ loop' = "streaming" /\ listening' = TRUE
      /\ UNCHANGED <<venue, modeVars, chan, bookVars, reply, status, reconVars>>
  BY DEF LoopOpens
<1>2. chan = <<>>
  BY <1>1 DEF BookInv, InOrder
<1>3. AtLeast(chan', asOf')
  BY <1>1, <1>2, CarriesNothing
<1>4. Types' /\ Written' /\ Sourced'
  BY <1>1 DEF BookInv, Types, Written, Sourced, Now, modeVars, bookVars, reconVars
<1>5. InOrder'
  BY <1>1, <1>3 DEF BookInv, InOrder, Ahead, modeVars, bookVars, reconVars
<1> QED
  BY <1>4, <1>5 DEF BookInv

\* What is left of the stream is no older than what was written.
LEMMA ReceivesStep ==
  ASSUME BookInv, LoopReceives
  PROVE  BookInv' /\ (~reconciling => asOf' >= asOf)
<1> DEFINE x == Head(chan)
<1>1. /\ loop = "streaming" /\ chan # <<>> /\ x \notin Error /\ chan' = Tail(chan)
      /\ status' = "Active"
      /\ UNCHANGED <<venue, modeVars, listening, loop, reply, reconVars>>
  BY DEF LoopReceives
<1>2. /\ wsIsTruth => Replace(x)
      /\ ~wsIsTruth => /\ stored' = TRUE /\ asOf' = x.seq
                       /\ book' = [book EXCEPT ![x.level] = x.volume]
  BY DEF LoopReceives
<1>3. /\ Carries(Tail(chan), venue, wsIsTruth) /\ InChan(x, venue, wsIsTruth)
      /\ AtLeast(Tail(chan), x.seq)
  BY <1>1, CarriesTail DEF BookInv, Sourced
<1>4. ~reconciling => asOf <= x.seq
  <2>1. Head(chan) = chan[1] /\ 1 \in DOMAIN chan
    BY <1>1 DEF BookInv, Sourced, Carries
  <2> QED
    BY <1>1, <2>1 DEF BookInv, InOrder, Ahead, AtLeast
<1> HIDE DEF x
<1>5. Written' /\ asOf' = x.seq
  <2>1. CASE wsIsTruth
    BY <1>1, <1>2, <1>3, <2>1, ReplaceWrites DEF BookInv, InChan
  <2>2. CASE ~wsIsTruth
    <3>1. x \in Update /\ x.seq \in 1 .. Now
      BY <1>1, <1>3, <2>2 DEF InChan, Now
    <3>2. stored' = TRUE /\ asOf' = x.seq /\ book' = [book EXCEPT ![x.level] = x.volume]
      BY <1>2, <2>2
    <3>3. book' \in Book
      BY <3>1, <3>2 DEF BookInv, Written, Book, Update
    <3>4. stored' \in BOOLEAN
      BY <3>2, Zenon
    <3>5. asOf' \in 0 .. Now'
      BY <1>1, <3>1, <3>2 DEF Now
    <3>6. ~wsIsTruth'
      BY <1>1, <2>2 DEF modeVars
    <3> QED
      BY <3>2, <3>3, <3>4, <3>5, <3>6 DEF Written
  <2> QED
    BY <2>1, <2>2
<1>6. Types' /\ Sourced'
  BY <1>1, <1>3 DEF BookInv, Types, Sourced, Now, modeVars, reconVars
<1>7. InOrder'
  BY <1>1, <1>3, <1>5 DEF BookInv, InOrder, Ahead, modeVars, reconVars
<1>8. ~reconciling => asOf' >= asOf
  <2>1. asOf \in Nat /\ asOf' \in Nat
    BY <1>5 DEF BookInv, Written, Types, Now
  <2> QED
    BY <1>4, <1>5, <2>1
<1> QED
  BY <1>5, <1>6, <1>7, <1>8 DEF BookInv

LEMMA FailsStep ==
  ASSUME BookInv, LoopFails
  PROVE  BookInv'
<1>1. /\ loop = "streaming" /\ chan # <<>> /\ chan' = Tail(chan)
      /\ loop' \in {"fetching", "delaying"} /\ status' \in {"Initializing", "Active"}
      /\ UNCHANGED <<venue, modeVars, listening, bookVars, reply, reconVars>>
  BY DEF LoopFails, BookInv, Types
<1>2. Carries(Tail(chan), venue, wsIsTruth)
  BY <1>1, CarriesTail DEF BookInv, Sourced
<1>3. Types' /\ Written' /\ Sourced'
  BY <1>1, <1>2 DEF BookInv, Types, Written, Sourced, Now, modeVars, bookVars, reconVars
<1>4. InOrder'
  BY <1>1 DEF BookInv, InOrder, Ahead, modeVars, bookVars, reconVars
<1> QED
  BY <1>3, <1>4 DEF BookInv

LEMMA RetriesStep ==
  ASSUME BookInv, LoopRetries
  PROVE  BookInv'
<1>1. /\ loop = "delaying" /\ loop' = "opening" /\ listening' = FALSE /\ chan' = <<>>
      /\ UNCHANGED <<venue, modeVars, bookVars, reply, status, reconVars>>
  BY DEF LoopRetries
<1>2. Carries(chan', venue, wsIsTruth)
  BY <1>1, CarriesNothing
<1>3. listening' \in BOOLEAN /\ ~listening'
  BY <1>1, Zenon
<1>4. Types' /\ Written' /\ Sourced'
  BY <1>1, <1>2, <1>3 DEF BookInv, Types, Written, Sourced, Now, modeVars, bookVars, reconVars
<1>5. InOrder'
  BY <1>1, <1>3 DEF BookInv, InOrder, Ahead, modeVars, bookVars, reconVars
<1> QED
  BY <1>4, <1>5 DEF BookInv

-----------------------------------------------------------------------------
(* Reconciliation, which only runs where it was asked for. *)

LEMMA ReconStep ==
  ASSUME BookInv, Recon
  PROVE  BookInv' /\ reconciling
<1>1. reconciling
  BY DEF BookInv, InOrder, Recon, ReconStarts, ReconReads, ReconCompares, ReconFails
<1>2. UNCHANGED <<venue, modeVars, streamVars, loopVars>>
  BY DEF Recon, ReconStarts, ReconReads, ReconCompares, ReconFails
<1>3. InOrder'
  BY <1>1, <1>2 DEF BookInv, InOrder, Ahead, modeVars, streamVars, loopVars
<1>4. Types'
  <2>1. recon' \in {"waiting", "fetching"}
    BY DEF BookInv, Types, Recon, ReconStarts, ReconReads, ReconCompares, ReconFails, reconVars
  <2> QED
    BY <1>2, <2>1 DEF BookInv, Types, Now, modeVars, streamVars, loopVars
<1>5. reconReply' \in Answer(venue)
  <2>1. <<Latest>> \in Answer(venue) /\ <<>> \in Answer(venue) /\ reconReply \in Answer(venue)
    BY LatestIsGenuine DEF BookInv, Sourced, Answer
  <2> QED
    BY <2>1 DEF Recon, ReconStarts, ReconReads, ReconCompares, ReconFails
<1>6. Sourced'
  BY <1>2, <1>5 DEF BookInv, Sourced, modeVars, streamVars, loopVars
<1>7. Written'
  <2>1. CASE UNCHANGED bookVars
    BY <1>2, <2>1 DEF BookInv, Written, Now, modeVars, bookVars
  <2>2. CASE reconReply # <<>> /\ Replace(reconReply[1])
    BY <1>2, <2>2, AnswerIsGenuine, ReplaceWrites DEF BookInv, Sourced
  <2> QED
    BY <2>1, <2>2 DEF Recon, ReconStarts, ReconReads, ReconCompares, ReconFails
<1> QED
  BY <1>1, <1>3, <1>4, <1>6, <1>7 DEF BookInv

-----------------------------------------------------------------------------
(* Every step. *)

LEMMA RestAnswersForward ==
  ASSUME BookInv, RestAnswers
  PROVE  ~reconciling => asOf' >= asOf
<1>1. reply # <<>> /\ asOf' = reply[1].seq
  BY DEF RestAnswers, Replace
<1>2. reply[1].seq \in Nat /\ asOf \in Nat
  BY <1>1, AnswerIsGenuine DEF BookInv, Sourced, Genuine, Written, Types, Now
<1> QED
  BY <1>1, <1>2 DEF BookInv, InOrder

LEMMA BookStep ==
  ASSUME BookInv, [Next]_vars
  PROVE  BookInv' /\ (~reconciling => asOf' >= asOf)
<1>1. ASSUME UNCHANGED asOf PROVE asOf' >= asOf
  BY <1>1 DEF BookInv, Written, Types, Now
<1>2. CASE Venue
  <2>1. UNCHANGED asOf
    BY <1>2 DEF Venue, VenueMoves, VenueTicks, StreamBreaks, StreamResumes, bookVars
  <2> QED
    BY <1>1, <1>2, <2>1, MovesStep, TicksStep, BreaksStep, ResumesStep DEF Venue
<1>3. CASE RestAnswers \/ LoopReceives
  BY <1>3, RestAnswersStep, RestAnswersForward, ReceivesStep
<1>4. CASE RestReads \/ RestFails \/ LoopOpens \/ LoopFails \/ LoopRetries
  <2>1. UNCHANGED asOf
    BY <1>4 DEF RestReads, RestFails, LoopOpens, LoopFails, LoopRetries, bookVars
  <2> QED
    BY <1>1, <1>4, <2>1, RestReadsStep, RestFailsStep, OpensStep, FailsStep, RetriesStep
<1>5. CASE Recon
  BY <1>5, ReconStep
<1>6. CASE UNCHANGED vars
  <2>1. UNCHANGED asOf
    BY <1>6 DEF vars, bookVars
  <2>2. BookInv'
    BY <1>6 DEF BookInv, Types, Written, Sourced, InOrder, Ahead, Now, vars, modeVars, streamVars,
                bookVars, loopVars, reconVars
  <2> QED
    BY <1>1, <2>1, <2>2
<1> QED
  BY <1>2, <1>3, <1>4, <1>5, <1>6 DEF Next, Loop

LEMMA BookInvariant == Spec => []BookInv
<1>1. BookInv /\ [Next]_vars => BookInv'
  BY BookStep
<1> QED
  BY <1>1, BookInit, PTL DEF Spec

-----------------------------------------------------------------------------

\* Every variable of a tracked symbol keeps its type, and the numbers of books stay
\* within those the venue had.
THEOREM BookTypeCorrect == Spec => []TypeOK
BY BookInvariant, InvImpliesType, PTL

\* Where the stream delivers whole books a reader never sees levels of two of them,
\* whatever REST snapshots, reconciliation and reconnects overtake each other.
THEOREM WholeBooksCorrect == Spec => []WholeBooks
<1>1. BookInv => WholeBooks
  BY DEF BookInv, Written, WholeBooks
<1> QED
  BY <1>1, BookInvariant, PTL

\* Without reconciliation no write takes the stored book back to an older one: the
\* re-snapshot of sync_loop is read before the new stream is opened, and the old stream
\* is dropped unread.
THEOREM BooksForward == Spec => BooksMoveForward
<1>1. BookInv /\ [Next]_vars => [~reconciling => asOf' >= asOf]_vars
  BY BookStep
<1> QED
  BY <1>1, BookInvariant, PTL DEF Spec, BooksMoveForward

=============================================================================
