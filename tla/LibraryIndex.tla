---------------------------- MODULE LibraryIndex ----------------------------
(***************************************************************************)
(* The AO3 library index (Ao3Librarian.cpp), the screen that fills it in   *)
(* batches (Ao3IndexActivity.cpp), and what deleting, archiving, restoring *)
(* and cleaning up do to it.                                               *)
(*                                                                         *)
(* The index is one file: a header with a record count and the next        *)
(* sequence number, then fixed-size records with a tombstone bit.  Count   *)
(* and sequence number share the header's sector; the file's length        *)
(* reaches the card when the file is closed.  A write cut short by a reset *)
(* therefore leaves the header ahead of the records, or a reused record    *)
(* ahead of the header.  A missing index and an empty one are the same to  *)
(* every reader and writer.                                                *)
(*                                                                         *)
(* Left out: the records' data (an update that rewrites them is no change),*)
(* the finished bit, the walk of the directories, lists of recent books.   *)
(***************************************************************************)
EXTENDS Naturals, Sequences, FiniteSets

CONSTANTS
    Books,         \* paths of books in the AO3 folder; their hashes differ
    Shelf,         \* paths below /read, where books are archived
    None,
    MaxBooks,      \* MAX_LIBRARY_BOOKS
    BatchSizes,    \* values of the setting, which the user may change between sessions
    MaxSeq,        \* bound: sequence numbers given out
    MaxTrouble     \* bound: writes cut short and failures to open the index

ASSUME LibraryAssumption ==
    /\ IsFiniteSet(Books) /\ Books \cap Shelf = {}
    /\ None \notin Books \cup Shelf
    /\ MaxBooks \in Nat /\ BatchSizes \subseteq Nat \ {0} /\ MaxSeq \in Nat /\ MaxTrouble \in Nat

VARIABLES
    index,        \* ao3_library_index.bin
    files,        \* the books on the card
    origin,       \* filepath in the ao3_library_info of a book's cache directory
    everywhere,   \* the AO3 folder is the root: walks also find the shelf
    state,        \* of Ao3IndexActivity; "home" when it is not open
    target,       \* the book to index in SINGLE mode, None in DIRECTORY mode
    failedHashes,
    left,         \* books of the batch still to do
    lastBatch,    \* the batch has fewer books than batchSize
    batchSize,    \* of this session; 0 before the settings are loaded
    trouble,      \* counts writes cut short and failures to open the index
    torn,         \* a reused record was written and the header was not
    wiped         \* the index was created anew since the screen was opened

card == <<index, files, origin, everywhere>>
batch == <<failedHashes, left, lastBatch, batchSize>>
history == <<trouble, torn, wiped>>
vars == <<card, state, target, batch, history>>

Paths == Books \cup Shelf
Records == [book : Books, seq : Nat, dead : BOOLEAN]
Indexes == [count : Nat, seq : Nat, recs : Seq(Records)]
Asking == {"confirm", "batch"}                         \* waits for the user, may go on
Over == {"home", "complete", "done", "error"}
States == Asking \cup Over \cup {"heap", "discovery", "indexing", "single"}

(* One type invariant: also, tombstones are used again before the file grows. *)
TypeOK ==
    /\ index \in Indexes /\ Len(index.recs) <= MaxBooks /\ Len(index.recs) <= index.count
    /\ files \subseteq Paths /\ origin \in [Paths -> Books \cup {None}]
    /\ everywhere \in BOOLEAN /\ state \in States /\ target \in Paths \cup {None}
    /\ failedHashes \subseteq Paths /\ left \subseteq Paths /\ lastBatch \in BOOLEAN
    /\ batchSize \in BatchSizes \cup {0}
    /\ trouble \in 0..MaxTrouble /\ torn \in BOOLEAN /\ wiped \in BOOLEAN

-----------------------------------------------------------------------------
(* Reading the index. *)

Seen(x) == DOMAIN x.recs
Live(x) == {i \in Seen(x) : ~x.recs[i].dead}
Of(x, b) == {i \in Live(x) : x.recs[i].book = b}
Listed(x) == {x.recs[i].book : i \in Live(x)}
isLibraryFull(x) == Cardinality(Live(x)) >= MaxBooks

First(S) == CHOOSE i \in S : \A j \in S : i <= j

(* Writing a record, writeIndexRecord(): a book that is listed keeps its slot and its
   number, a tombstone is used again, else the file grows. *)

Empty == [count |-> 0, seq |-> 0, recs |-> <<>>]
Record(x, b) == [book |-> b, seq |-> x.seq, dead |-> FALSE]

NeverFree(x) == {}                                 \* a mutant of Free
Free(x) == Seen(x) \ Live(x)
NeverKnown(x, b) == FALSE                          \* a mutant of Known
Known(x, b) == Of(x, b) # {}

Reuse(x, b) == [x EXCEPT !.recs[First(Free(x))] = Record(x, b)]
ReusedOnly(x, b) == Reuse(x, b)                    \* a mutant of Reused
Reused(x, b) == [Reuse(x, b) EXCEPT !.seq = @ + 1]
Counted(x) == [x EXCEPT !.count = @ + 1, !.seq = @ + 1]
Grown(x, b) == [Counted(x) EXCEPT !.recs = Append(@, Record(x, b))]
Stored(x, b) ==
    IF Known(x, b) THEN x
    ELSE IF Free(x) # {} THEN Reused(x, b)
    ELSE IF isLibraryFull(x) THEN x ELSE Grown(x, b)

(* What a reset during the write can leave. *)
Cut(x, b) ==
    IF Known(x, b) THEN x
    ELSE IF Free(x) # {} THEN Reuse(x, b)
    ELSE IF isLibraryFull(x) THEN x ELSE Counted(x)

Tears(x, b) == ~Known(x, b) /\ Free(x) # {}

(* A header with a count out of range: the index is removed and created anew. *)
UnfitWhenFull(x) == x.count >= MaxBooks            \* a mutant of Unfit
Unfit(x) == x.count > MaxBooks
Base(x) == IF Unfit(x) THEN Empty ELSE x

(* tombstoneRecord() *)
Tombstoned(x, b) == IF Of(x, b) = {} THEN x ELSE [x EXCEPT !.recs[First(Of(x, b))].dead = TRUE]

-----------------------------------------------------------------------------
(* The screen and the user. *)

Closed ==
    /\ state' = "home" /\ target' = None
    /\ failedHashes' = {} /\ left' = {} /\ lastBatch' = FALSE /\ batchSize' = 0
    /\ wiped' = FALSE

(* A reset or deep sleep in the middle of whatever is going on. *)
Reset == Closed /\ UNCHANGED <<card, trouble, torn>>

Home == state = "home"
Room == index.seq + MaxBooks <= MaxSeq
Idle == UNCHANGED <<state, target, batch, history>>

Opens(b) ==
    /\ Home /\ Room /\ state' = "heap" /\ target' = b
    /\ UNCHANGED <<batch, history>>

(* "Index" in the menu of the library (b = None) or of a book; a library set to scan when
   it opens does so on its own after a transfer. *)
Index(b) == b \in files \cup {None} /\ Opens(b) /\ UNCHANGED card

(* Back, or Confirm where there is nothing to go on with. *)
Close ==
    /\ state \in {"confirm", "batch", "complete", "done", "error"} /\ Closed
    /\ UNCHANGED <<card, trouble, torn>>

-----------------------------------------------------------------------------
(* Indexing: HEAP_CHECK and DIR_LOAD_SETTINGS, DIR_DISCOVERY, DIR_INDEXING,
   SINGLE_SCRAPING. *)

Walked == IF everywhere THEN files ELSE files \ Shelf

NoMemory ==
    /\ state \in {"heap", "indexing", "single"} /\ state' = "error"
    /\ UNCHANGED <<card, target, batch, history>>

HeapCheck ==
    /\ state = "heap"
    /\ state' = IF isLibraryFull(index) /\ target \notin Listed(index) THEN "error"
                ELSE IF target = None THEN "discovery" ELSE "single"
    /\ batchSize' \in IF state' = "discovery" THEN BatchSizes ELSE {batchSize}
    /\ UNCHANGED <<card, target, failedHashes, left, lastBatch, history>>

(* With nothing to index it ends, at once when the library opened it. *)
Discover ==
    /\ state = "discovery"
    /\ \/ Walked \subseteq Listed(index) /\ Closed
       \/ /\ state' = IF Walked \subseteq Listed(index) THEN "complete" ELSE "confirm"
          /\ UNCHANGED <<target, batch, wiped>>
    /\ UNCHANGED <<card, trouble, torn>>

(* The books of the next batch come from a new walk. *)
ToDoAll(failed) == Walked \ Listed(index)          \* a mutant of ToDo
ToDo(failed) == Walked \ (Listed(index) \cup failed)
Batches(todo) ==
    {S \in SUBSET todo : Cardinality(S) <= batchSize /\ (Cardinality(S) < batchSize => S = todo)}
ShortOrFull(taken) == Cardinality(taken) <= batchSize     \* a mutant of Short
Short(taken) == Cardinality(taken) < batchSize

startDirIndexing ==
    /\ state \in Asking
    /\ failedHashes' = IF state = "confirm" THEN {} ELSE failedHashes
    /\ \/ ToDo(failedHashes') = {} /\ state' = "complete" /\ UNCHANGED <<left, lastBatch>>
       \/ /\ ToDo(failedHashes') # {} /\ state' = "indexing"
          /\ left' \in Batches(ToDo(failedHashes')) /\ lastBatch' = Short(left')
    /\ UNCHANGED <<card, target, batchSize, history>>

BatchEnds ==
    /\ state = "indexing" /\ left = {}
    /\ state' = IF lastBatch THEN "complete" ELSE "batch"
    /\ UNCHANGED <<card, target, batch, history>>

LibraryFull ==
    /\ state = "indexing" /\ left # {} /\ isLibraryFull(index) /\ state' = "complete"
    /\ UNCHANGED <<card, target, batch, history>>

(* scrape() runs to its end: the sidecar, then the record; an archived book is left
   alone.  When the index cannot be opened to be checked, it is created anew. *)
Scrapes(b) ==
    \/ b \in Shelf /\ UNCHANGED <<index, origin, history>>
    \/ /\ b \in Books /\ origin' = [origin EXCEPT ![b] = b] /\ torn' = torn
       /\ \/ /\ index' = Stored(Base(index), b) /\ trouble' = trouble
             /\ wiped' = (wiped \/ Unfit(index))
          \/ /\ trouble < MaxTrouble /\ trouble' = trouble + 1
             /\ index' = Stored(Empty, b) /\ wiped' = TRUE

Fails == UNCHANGED <<index, origin, history>>       \* loading, parsing or the sidecar
Succeeded(b) == b \in Shelf \/ b \in Listed(index')

IndexBook(b) ==
    /\ state = "indexing" /\ b \in left /\ ~isLibraryFull(index)
    /\ left' = left \ {b}
    /\ \/ Fails /\ failedHashes' = failedHashes \cup {b}
       \/ Scrapes(b) /\ failedHashes' = IF Succeeded(b) THEN failedHashes ELSE failedHashes \cup {b}
    /\ UNCHANGED <<files, everywhere, state, target, lastBatch, batchSize>>

IndexSingle ==
    /\ state = "single"
    /\ \/ Fails /\ state' = "error"
       \/ Scrapes(target) /\ state' = IF Succeeded(target) THEN "done" ELSE "error"
    /\ UNCHANGED <<files, everywhere, target, batch>>

(* A reset while scrape() writes the sidecar or the record. *)
ScrapeCut(b) ==
    /\ b \in Books
    /\ \/ state = "indexing" /\ b \in left /\ ~isLibraryFull(index)
       \/ state = "single" /\ b = target
    /\ trouble < MaxTrouble /\ trouble' = trouble + 1
    /\ \/ index' = index /\ torn' = torn /\ origin' = [origin EXCEPT ![b] = None]
       \/ /\ origin' = [origin EXCEPT ![b] = b]
          /\ \E x \in {Base(index), Empty} :
                index' = Cut(x, b) /\ torn' = (torn \/ Tears(x, b))
    /\ Closed /\ UNCHANGED <<files, everywhere>>

-----------------------------------------------------------------------------
(* Other screens, with what they leave on the card when a reset cuts them short. *)

(* A transfer, or another device, adds or removes a book; a transfer also clears the
   book's cache. *)
CardChanges(b) ==
    /\ Home
    /\ \/ files' = files \cup {b} /\ origin' \in {origin, [origin EXCEPT ![b] = None]}
       \/ files' = files \ {b} /\ origin' = origin
    /\ UNCHANGED <<index, everywhere>> /\ Idle

SetFolder ==
    /\ Home /\ everywhere' = ~everywhere
    /\ UNCHANGED <<index, files, origin>> /\ Idle

(* "Delete cache" in the reader; the record goes when the book had been indexed. *)
DeleteCache(b) ==
    /\ Home /\ b \in files /\ origin[b] # None
    /\ index' \in {index, Tombstoned(index, b)} /\ origin' = [origin EXCEPT ![b] = None]
    /\ UNCHANGED <<files, everywhere>> /\ Idle

(* "Clear cache" in the settings, all of it or as far as it gets. *)
ClearCaches ==
    /\ Home
    /\ \E S \in SUBSET Paths : origin' = [p \in Paths |-> IF p \in S THEN None ELSE origin[p]]
    /\ UNCHANGED <<index, files, everywhere>> /\ Idle

(* The record, then the file and the cache in either order. *)
Delete(b) ==
    /\ Home /\ b \in files
    /\ index' = Tombstoned(index, b)
    /\ files' \in {files, files \ {b}} /\ origin' \in {origin, [origin EXCEPT ![b] = None]}
    /\ UNCHANGED everywhere /\ Idle

(* The cache directory follows the book, unless a reset comes first or there is one. *)
Moved(from, to) ==
    {origin} \cup IF origin[to] # None THEN {}
                  ELSE {[origin EXCEPT ![to] = origin[from], ![from] = None]}
Rename(from, to) == files' = (files \ {from}) \cup {to} /\ origin' \in Moved(from, to)

(* archiveFic(): the record, the file, the cache directory. *)
Archive(b, s) ==
    /\ Home /\ b \in files /\ s \notin files
    /\ index' = Tombstoned(index, b)
    /\ Rename(b, s) \/ UNCHANGED <<files, origin>>
    /\ UNCHANGED everywhere /\ Idle

(* restoreFic() to the path in the sidecar, then Ao3IndexActivity for that book. *)
Restore(s) ==
    /\ Home /\ s \in files /\ origin[s] \in Books \ files
    /\ Rename(s, origin[s])
    /\ Opens(origin[s]) \/ Idle
    /\ UNCHANGED <<index, everywhere>>

(* sanitizeIndex(), which goes through the records; as far as n. *)
Ghosts(x) == {i \in Live(x) : origin[x.recs[i].book] \notin files}
Swept(x, n) ==
    [x EXCEPT !.recs =
        [i \in Seen(x) |-> [x.recs[i] EXCEPT !.dead = @ \/ (i <= n /\ i \in Ghosts(x))]]]
sanitizeIndex(n) ==
    /\ Home /\ ~Unfit(index)
    /\ index' = Swept(index, n)
    /\ UNCHANGED <<files, origin, everywhere>> /\ Idle

-----------------------------------------------------------------------------
Init ==
    /\ index = Empty /\ files \in SUBSET Books /\ origin = [p \in Paths |-> None]
    /\ everywhere = FALSE /\ state = "home" /\ target = None
    /\ failedHashes = {} /\ left = {} /\ lastBatch = FALSE /\ batchSize = 0
    /\ trouble = 0 /\ torn = FALSE /\ wiped = FALSE

(* What loop() does of its own accord. *)
Tick ==
    \/ NoMemory \/ HeapCheck \/ Discover \/ BatchEnds \/ LibraryFull \/ IndexSingle
    \/ \E b \in Paths : IndexBook(b) \/ ScrapeCut(b)

Next ==
    \/ Tick \/ Close \/ startDirIndexing \/ Reset \/ SetFolder \/ ClearCaches
    \/ \E b \in Paths \cup {None} : Index(b)
    \/ \E b \in Paths : CardChanges(b) \/ DeleteCache(b) \/ Delete(b)
    \/ \E b \in Books, s \in Shelf : Archive(b, s)
    \/ \E s \in Shelf : Restore(s)
    \/ \E n \in 0..MaxBooks : sanitizeIndex(n)

Spec == Init /\ [][Next]_vars /\ WF_vars(Tick)

-----------------------------------------------------------------------------
(* A book has at most one live record, whatever is cut short: the library shows no book
   twice, and deleting a book removes it (tombstoneRecord() stops at the first). *)
OneRecordPerBook ==
    \A i, j \in Live(index) : index.recs[i].book = index.recs[j].book => i = j

(* Books are sorted by when they were added: live records have different numbers, all
   below the next one, unless reusing a record was cut short before the header
   (Ao3CompactIndexRecord.h: a "monotonically increasing counter"). *)
SequencesDiffer ==
    ~torn => \A i, j \in Live(index) :
                /\ index.recs[i].seq < index.seq
                /\ index.recs[i].seq = index.recs[j].seq => i = j

(* When the indexing screen says it is complete, every book it walks is listed or among
   those that failed, or the library is full; batch after batch, each from a new walk. *)
NothingMissed ==
    state = "complete" /\ ~wiped /\ ~isLibraryFull(index) =>
        Walked \ Shelf \subseteq Listed(index) \cup failedHashes

(* The index keeps what Catalogue promises: no book is lost but by a write cut short or
   an index that could not be opened. *)
Promised == INSTANCE Catalogue WITH Capacity <- MaxBooks, listed <- Listed(index)
KeepsCatalogue == Promised!CatalogueSpec

(* What the proofs add: until the first trouble the count is that of the records, and in
   the last batch of a session what is left are the only books still to do. *)
CountExact == trouble = 0 => index.count = Len(index.recs)
LastBatchHasAll ==
    state = "indexing" /\ lastBatch /\ ~wiped =>
        Walked \ Shelf \subseteq Listed(index) \cup failedHashes \cup left

LibraryIInv ==
    /\ TypeOK /\ OneRecordPerBook /\ SequencesDiffer /\ CountExact
    /\ LastBatchHasAll /\ NothingMissed

(* If the user always answers, indexing comes to an end: no book of the AO3 folder is
   tried for ever. The exception is a walk that finds as many archived books as a batch
   holds: scrape() returns true for them and lists none, so they are the next batch
   too: a session that does not end comes to try those again and again, and no other. *)
OnlyArchived == []<>(left # {}) /\ <>[](left \subseteq Shelf)
SessionEnds == []<>(state \notin Asking) => []<>(state \in Over) \/ OnlyArchived
=============================================================================
