---------------------------- MODULE MultiLayerOplog ----------------------------
(***************************************************************************)
(* The oplog of one durable worker, stored in layers:                      *)
(*                                                                         *)
(*  - layer 0 is the primary oplog (services/oplog/primary.rs): one row    *)
(*    for each entry in the indexed storage, behind a buffer in memory;    *)
(*  - layers 1 .. NumLower are the archives (compressed.rs, blob.rs):      *)
(*    chunks of entries, each stored under the index of its last entry;    *)
(*  - multilayer.rs moves a prefix of one layer to the next in a           *)
(*    background fiber, and reads the layers from top to bottom.           *)
(*                                                                         *)
(* Closing the oplog or stopping the executor loses the buffer, the queue  *)
(* of the fiber and the transfer it was in the middle of; the layers stay. *)
(*                                                                         *)
(* Left out: payloads in the blob storage, replicas, ephemeral workers.    *)
(* The cache of an archive holds copies of stored entries; what matters of *)
(* it is that a chunk is read through it, see Cached.                      *)
(***************************************************************************)
EXTENDS Integers, Sequences, FiniteSets

CONSTANTS Entries,     \* contents of an oplog entry
          NumLower,    \* number of archive layers
          BlobLayers,  \* the archive layers kept in the blob storage
          BufferLimit, \* max_operations_before_commit
          EntryLimit,  \* entry_count_limit
          CacheSize,   \* CACHE_SIZE of the archives
          Reads,       \* ranges <<first, last>> that readers ask for
          MaxIndex,    \* bound: entries in the oplog
          MaxQueue,    \* bound: messages waiting for the fiber when archiving
          MaxCrashes   \* bound: crashes of the executor

Archives == 1 .. NumLower
Layers == 0 .. NumLower

ASSUME OplogAssumption ==
  /\ NumLower \in Nat \ {0}
  /\ BlobLayers \subseteq Archives
  /\ BufferLimit \in Nat /\ EntryLimit \in Nat /\ CacheSize \in Nat \ {0}
  /\ Reads \subseteq (Nat \ {0}) \X Nat
  /\ MaxIndex \in Nat /\ MaxQueue \in Nat /\ MaxCrashes \in Nat

VARIABLES primary,            \* rows of the primary oplog: index -> entry
          archive,            \* of each archive: last index -> chunk
          open,               \* is there an open MultiLayerOplog
          buffer,             \* PrimaryOplogState
          last_oplog_idx,
          last_committed_idx,
          writing,            \* what holds the lock of PrimaryOplogState
          enqueuing,          \* has a commit still to enqueue its transfer
          primary_length,     \* MultiLayerOplog
          entry_count,        \* WrappedOplogArchive
          queue,              \* the channel to the background transfer
          fiber,              \* where the background transfer is
          msg,                \* the message it works on
          moving,             \* the entries it has read
          left,               \* the length of the source after the drop
          reader,             \* a read of the service in progress
          crashes,            \* crashes so far
          log,                \* ghost: every entry ever written
          damaged             \* ghost: a chunk was stored that damages its layer

storage == <<primary, archive>>
writer == <<open, buffer, last_oplog_idx, last_committed_idx, writing, enqueuing>>
counters == <<primary_length, entry_count>>
transfer == <<queue, fiber, msg, moving, left>>
vars == <<storage, writer, counters, transfer, reader, crashes, log, damaged>>

Nothing == [i \in {} |-> 0]
NoMessage == [source |-> 0, upto |-> 0, keep |-> FALSE]
NoRead == [next |-> 0, first |-> 0, last |-> 0, at |-> 0, found |-> FALSE,
           result |-> Nothing, written |-> 0]
-----------------------------------------------------------------------------
(* The layers.                                                             *)

(* The largest index in a set of indexes, OplogIndex::NONE if there is none. *)
LastOf(S) == IF S = {} THEN 0 ELSE CHOOSE m \in S : \A i \in S : i <= m

(* The smallest index in a set that is at least i (IndexedStorage::closest, *)
(* and find in the keys of a blob archive).                                *)
IsClosest(k, i, S) == k \in S /\ k >= i /\ \A j \in S : j >= i => k <= j

(* read_and_cache_chunk puts the entries of a chunk into the cache one     *)
(* after the other; the cache keeps the newest ones.                       *)
Cached(l, k) == {i \in DOMAIN archive[l][k] : k - i < CacheSize}

(* An entry is looked up in the closest chunk.                             *)
InChunk(l, i, k) == IsClosest(k, i, DOMAIN archive[l]) /\ i \in Cached(l, k)

Holds(l, i) ==
  IF l = 0 THEN i \in DOMAIN primary
  ELSE \E k \in DOMAIN archive[l] : InChunk(l, i, k)

EntryAt(l, i) ==
  IF l = 0 THEN primary[i]
  ELSE archive[l][CHOOSE k \in DOMAIN archive[l] : InChunk(l, i, k)][i]

LastIndexOf(l) == LastOf(IF l = 0 THEN DOMAIN primary ELSE DOMAIN archive[l])

(* What the transfer reads: of the primary oplog the rows of the range; of *)
(* an archive, which nobody else changes, the entries from the end of the  *)
(* range, or from the last one if that is before it, back to a missing one.*)
Found(l, first, last) ==
  LET end == IF last <= LastIndexOf(l) THEN last ELSE LastIndexOf(l)
  IN  IF l = 0 THEN {i \in first .. last : Holds(0, i)}
      ELSE {i \in first .. end : \A j \in i .. end : Holds(l, j)}

ReadLayer(l, first, last) == [i \in Found(l, first, last) |-> EntryAt(l, i)]

(* MultiLayerOplogService::get_last_index: the first layer with an entry.  *)
IsFirstNonEmpty(l) == LastIndexOf(l) # 0 /\ \A m \in 0 .. l - 1 : LastIndexOf(m) = 0
Exists == \E l \in Layers : LastIndexOf(l) # 0

(* A slip: the archives are not asked.                                     *)
LastIndexOfPrimary == LastIndexOf(0)

LastIndex == LastIndexOf(CHOOSE l \in Layers : IsFirstNonEmpty(l))

Init ==
  /\ primary = Nothing
  /\ archive = [l \in Archives |-> Nothing]
  /\ open = FALSE
  /\ buffer = <<>>
  /\ last_oplog_idx = 0 /\ last_committed_idx = 0
  /\ writing = "no" /\ enqueuing = FALSE
  /\ primary_length = 0
  /\ entry_count = [l \in Archives |-> 0]
  /\ queue = <<>> /\ fiber = "idle" /\ msg = NoMessage /\ moving = Nothing
  /\ left = 0
  /\ reader = NoRead
  /\ crashes = 0
  /\ log = <<>> /\ damaged = FALSE
-----------------------------------------------------------------------------
(* Opening and closing.                                                    *)

(* PrimaryOplogService::create writes the initial entry.                   *)
Create(e) ==
  /\ ~open
  /\ ~Exists
  /\ primary' = [i \in {1} |-> e]
  /\ log' = <<e>>
  /\ open' = TRUE
  /\ last_oplog_idx' = 1 /\ last_committed_idx' = 1
  /\ primary_length' = 1
  /\ entry_count' = [l \in Archives |-> 0]
  /\ UNCHANGED <<archive, buffer, writing, enqueuing, transfer, reader, crashes,
                 damaged>>

(* MultiLayerOplogService::open, with the last index of the stored layers. *)
Open ==
  /\ ~open
  /\ Exists
  /\ open' = TRUE
  /\ last_oplog_idx' = LastIndex /\ last_committed_idx' = LastIndex
  /\ primary_length' = Cardinality(DOMAIN primary)
  /\ entry_count' = [l \in Archives |-> Cardinality(DOMAIN archive[l])]
  /\ UNCHANGED <<storage, buffer, writing, enqueuing, transfer, reader, crashes, log, damaged>>

(* The open oplog is gone: its buffer, its queue and its fiber.            *)
DropOpen ==
  /\ open
  /\ open' = FALSE
  /\ buffer' = <<>>
  /\ last_oplog_idx' = 0 /\ last_committed_idx' = 0
  /\ writing' = "no" /\ enqueuing' = FALSE
  /\ primary_length' = 0
  /\ entry_count' = [l \in Archives |-> 0]
  /\ queue' = <<>> /\ fiber' = "idle" /\ msg' = NoMessage /\ moving' = Nothing
  /\ left' = 0
  /\ UNCHANGED <<storage, log, damaged>>

(* The last reference is dropped and the fiber aborted.  Messages of       *)
(* archive keep the oplog alive, and so does a transfer from the primary.  *)
Close ==
  /\ writing = "no" /\ ~enqueuing
  /\ \A i \in DOMAIN queue : ~queue[i].keep
  /\ fiber \in {"append", "drop", "measure", "count"} => msg.source # 0 /\ ~msg.keep
  /\ DropOpen
  /\ UNCHANGED <<reader, crashes>>

Crash ==
  /\ crashes < MaxCrashes
  /\ crashes' = crashes + 1
  /\ DropOpen
  /\ reader' = NoRead
-----------------------------------------------------------------------------
(* Writing.                                                                *)

(* PrimaryOplogState::add, then the count of MultiLayerOplog::add, which   *)
(* comes after the flush when the buffer is full.                          *)
Add(e) ==
  /\ open /\ writing = "no"
  /\ last_oplog_idx < MaxIndex
  /\ buffer' = Append(buffer, e)
  /\ last_oplog_idx' = last_oplog_idx + 1
  /\ IF Len(buffer') > BufferLimit
       THEN writing' = "add" /\ UNCHANGED primary_length
       ELSE primary_length' = primary_length + 1 /\ UNCHANGED writing
  /\ UNCHANGED <<storage, open, last_committed_idx, enqueuing, entry_count,
                 transfer, reader, crashes, log, damaged>>

(* commit and wait_for_replicas take the lock and drain the buffer.  One   *)
(* commit at a time is on its way to enqueue a transfer.                   *)
StartWriting(kind) ==
  /\ open /\ writing = "no"
  /\ kind = "commit" => ~enqueuing
  /\ writing' = kind
  /\ UNCHANGED <<storage, open, buffer, last_oplog_idx, last_committed_idx,
                 enqueuing, counters, transfer, reader, crashes, log, damaged>>

(* One round of PrimaryOplogState::append.                                 *)
WriteEntry ==
  /\ writing # "no"
  /\ buffer # <<>>
  /\ primary' = [i \in DOMAIN primary \cup {last_committed_idx + 1} |->
                   IF i \in DOMAIN primary THEN primary[i] ELSE Head(buffer)]
  /\ last_committed_idx' = last_committed_idx + 1
  /\ buffer' = Tail(buffer)
  /\ log' = Append(log, Head(buffer))
  /\ UNCHANGED <<archive, open, last_oplog_idx, writing, enqueuing, counters,
                 transfer, reader, crashes, damaged>>

(* What is sent to a fiber that has panicked is lost.                      *)
Send(m) == queue' = IF fiber = "panicked" THEN <<>> ELSE Append(queue, m)

(* A slip: the lock is kept.                                               *)
WriteDoneLocked ==
  /\ writing # "no"
  /\ buffer = <<>>
  /\ UNCHANGED vars

(* The lock is released.  MultiLayerOplog::add counts its entry; commit    *)
(* looks whether the primary oplog has become too long.                    *)
WriteDone ==
  /\ writing # "no"
  /\ buffer = <<>>
  /\ writing' = "no"
  /\ primary_length' = primary_length + (IF writing = "add" THEN 1 ELSE 0)
  /\ enqueuing' = (enqueuing \/ (writing = "commit" /\ primary_length >= EntryLimit))
  /\ UNCHANGED <<storage, open, buffer, last_oplog_idx, last_committed_idx,
                 entry_count, transfer, reader, crashes, log, damaged>>

(* The end of commit: it takes the lock again for the current index, which *)
(* may have grown, sends, and forgets the count, whatever was added to it. *)
EnqueueTransfer ==
  /\ enqueuing
  /\ writing = "no"
  /\ Send([source |-> 0, upto |-> last_oplog_idx, keep |-> FALSE])
  /\ primary_length' = 0
  /\ enqueuing' = FALSE
  /\ UNCHANGED <<storage, open, buffer, last_oplog_idx, last_committed_idx, writing,
                 entry_count, fiber, msg, moving, left, reader, crashes, log, damaged>>
-----------------------------------------------------------------------------
(* Moving entries down.                                                    *)

(* The archives that MultiLayerOplog::archive looks at, in order: all but  *)
(* the last one, yet always the first one.                                 *)
Candidates == {l \in Archives : l = 1 \/ l < NumLower}

(* archive sends the whole primary oplog, or the first archive that is not *)
(* empty, one layer down; if its message cannot be sent it panics.         *)
Archive ==
  /\ open
  /\ fiber # "panicked"
  /\ Len(queue) < MaxQueue
  /\ \/ /\ primary_length > 0
        /\ writing = "no"
        /\ Send([source |-> 0, upto |-> last_oplog_idx, keep |-> TRUE])
     \/ /\ primary_length = 0
        /\ \E l \in Candidates :
             /\ LastIndexOf(l) # 0
             /\ \A m \in Candidates : m < l => LastIndexOf(m) = 0
             /\ Send([source |-> l, upto |-> LastIndexOf(l), keep |-> TRUE])
  /\ UNCHANGED <<storage, writer, counters, fiber, msg, moving, left, reader,
                 crashes, log, damaged>>

Panic ==
  /\ fiber' = "panicked"
  /\ queue' = <<>>
  /\ msg' = NoMessage
  /\ moving' = Nothing

(* The fiber takes a message and reads the prefix it is about.  There is   *)
(* nothing below the last layer: looking the target up fails.              *)
TakeMessage ==
  /\ open
  /\ fiber = "idle" /\ queue # <<>>
  /\ \/ /\ Head(queue).source = NumLower
        /\ Panic
     \/ /\ Head(queue).source # NumLower
        /\ moving' = ReadLayer(Head(queue).source, 1, Head(queue).upto)
        /\ queue' = Tail(queue)
        /\ IF DOMAIN moving' = {}
             THEN fiber' = "idle" /\ msg' = NoMessage
             ELSE fiber' = "append" /\ msg' = Head(queue)
  /\ UNCHANGED <<storage, writer, counters, left, reader, crashes, log, damaged>>

(* The indexed storage refuses an id that is not above the last one; the   *)
(* blob storage overwrites.                                                *)
Refuses(l, k) == l \notin BlobLayers /\ k <= LastIndexOf(l)

(* Ghost: a chunk takes the place of one that had more entries, or has     *)
(* more than the cache of the archives holds.                              *)
Damages(l, chunk) ==
  LET k == LastOf(DOMAIN chunk)
  IN  \/ k \in DOMAIN archive[l] /\ ~(DOMAIN archive[l][k] \subseteq DOMAIN chunk)
      \/ \E i \in DOMAIN chunk : k - i >= CacheSize

(* OplogArchive::append.                                                   *)
StoreChunk(l, chunk) ==
  LET k == LastOf(DOMAIN chunk)
  IN  archive' = [archive EXCEPT ![l] =
        [i \in DOMAIN archive[l] \cup {k} |->
           IF i = k THEN chunk ELSE archive[l][i]]]

(* append_target.  All archives but the last count their chunks and ask    *)
(* for a transfer themselves when there are too many.                      *)
AppendTarget ==
  LET target == msg.source + 1
      last   == LastOf(DOMAIN moving)
  IN  /\ fiber = "append"
      /\ \/ /\ Refuses(target, last)
            /\ Panic
            /\ UNCHANGED <<archive, entry_count, damaged>>
         \/ /\ ~Refuses(target, last)
            /\ StoreChunk(target, moving)
            /\ damaged' = (damaged \/ Damages(target, moving))
            /\ fiber' = "drop"
            /\ IF target < NumLower /\ entry_count[target] + 1 >= EntryLimit
                 THEN /\ Send([source |-> target, upto |-> last, keep |-> FALSE])
                      /\ entry_count' = [entry_count EXCEPT ![target] = 0]
                 ELSE /\ entry_count' = [entry_count EXCEPT ![target] =
                                           IF target < NumLower THEN @ + 1 ELSE @]
                      /\ UNCHANGED queue
            /\ UNCHANGED <<msg, moving>>
      /\ UNCHANGED <<primary, writer, primary_length, left, reader, crashes, log>>

(* A slip: off by one.                                                     *)
From(f, last) == [i \in {j \in DOMAIN f : j >= last} |-> f[i]]

Above(f, last) == [i \in {j \in DOMAIN f : j > last} |-> f[i]]

(* A slip: the prefix the message asked for is dropped, read or not.       *)
DroppedIndexAsked == msg.upto

(* BackgroundTransfer::run drops up to the last entry it has moved.        *)
DroppedIndex == LastOf(DOMAIN moving)

(* drop_source_prefix.  The primary oplog's needs its lock.                *)
DropSource ==
  /\ fiber = "drop"
  /\ IF msg.source = 0
       THEN /\ writing = "no"
            /\ primary' = Above(primary, DroppedIndex)
            /\ UNCHANGED archive
       ELSE /\ archive' = [archive EXCEPT ![msg.source] =
                             Above(archive[msg.source], DroppedIndex)]
            /\ UNCHANGED primary
  /\ fiber' = "measure"
  /\ UNCHANGED <<writer, counters, queue, msg, moving, left, reader, crashes, log, damaged>>

(* drop_prefix then reads the new length, in rows or in chunks ...         *)
MeasureSource ==
  /\ fiber = "measure"
  /\ msg.source = 0 => writing = "no"
  /\ left' = Cardinality(IF msg.source = 0 THEN DOMAIN primary
                                           ELSE DOMAIN archive[msg.source])
  /\ fiber' = "count"
  /\ UNCHANGED <<storage, writer, counters, queue, msg, moving, reader, crashes, log, damaged>>

AtMost(n, m) == IF n <= m THEN n ELSE m

(* ... and lowers the count to it, whatever has been written meanwhile.    *)
AdjustCount ==
  /\ fiber = "count"
  /\ IF msg.source = 0
       THEN /\ primary_length' = AtMost(left, primary_length)
            /\ UNCHANGED entry_count
       ELSE /\ entry_count' = [entry_count EXCEPT ![msg.source] = AtMost(left, @)]
            /\ UNCHANGED primary_length
  /\ fiber' = "idle" /\ msg' = NoMessage /\ moving' = Nothing /\ left' = 0
  /\ UNCHANGED <<storage, writer, queue, reader, crashes, log, damaged>>
-----------------------------------------------------------------------------
(* Reading (MultiLayerOplogService::read).                                 *)

NextLayer(l) == IF l < NumLower THEN l + 1 ELSE -1

(* The layer has no more: the next one is asked for what is still missing. *)
NoMore == [reader EXCEPT
  !.next = NextLayer(@), !.at = reader.last, !.found = FALSE]

(* A slip: the layer is done when a chunk has been read.                   *)
GotOneChunk(found, next) == [reader EXCEPT
  !.result = [i \in DOMAIN reader.result \cup DOMAIN found |->
                IF i \in DOMAIN found THEN found[i] ELSE reader.result[i]],
  !.next = -1]

(* What was found is added to the result; only the entries before it are   *)
(* still to be read, from the layer next, unless it reaches the start.     *)
Got(found, next) ==
  LET before == (CHOOSE i \in DOMAIN found : \A j \in DOMAIN found : i <= j) - 1
  IN  [reader EXCEPT
         !.result = [i \in DOMAIN reader.result \cup DOMAIN found |->
                       IF i \in DOMAIN found THEN found[i] ELSE reader.result[i]],
         !.last = before, !.at = before,
         !.found = (next = reader.next),
         !.next = IF reader.first \in DOMAIN found THEN -1 ELSE next]

(* A read begins; what has been written by now it has to return.           *)
ReadStart(range) ==
  /\ reader = NoRead
  /\ reader' = [NoRead EXCEPT !.first = range[1], !.last = range[2], !.at = range[2],
                              !.written = AtMost(Len(log), range[2])]
  /\ UNCHANGED <<storage, writer, counters, transfer, crashes, log, damaged>>

(* The primary oplog is read at once.                                      *)
ReadPrimary ==
  /\ reader.first # 0 /\ reader.next = 0
  /\ reader' = IF Found(0, reader.first, reader.last) = {} THEN NoMore
                 ELSE Got(ReadLayer(0, reader.first, reader.last), 1)
  /\ UNCHANGED <<storage, writer, counters, transfer, crashes, log, damaged>>

(* An archive is read chunk by chunk, from the end of the range back.      *)
ReadingArchive == reader.next \in Archives

(* The entries that the chunk k gives, from the position of the reader.    *)
FromChunk(k) ==
  {i \in reader.first .. reader.at :
     \A j \in i .. reader.at : j \in Cached(reader.next, k)}

(* The closest chunk is fetched; if it does not have the entry, the reader *)
(* takes it that the layer has no more.                                    *)
ReadChunk ==
  /\ ReadingArchive
  /\ \E k \in DOMAIN archive[reader.next] :
       /\ IsClosest(k, reader.at, DOMAIN archive[reader.next])
       /\ reader' = IF FromChunk(k) = {} THEN NoMore
                     ELSE Got([i \in FromChunk(k) |-> archive[reader.next][k][i]], reader.next)
  /\ UNCHANGED <<storage, writer, counters, transfer, crashes, log, damaged>>

(* There is no chunk at or after the position: the range ends after the    *)
(* layer, and the reader steps back to its last entry, or, if something    *)
(* has been found already or the layer is before the range, it goes on.    *)
ReadGap ==
  /\ ReadingArchive
  /\ LastIndexOf(reader.next) < reader.at
  /\ reader' = IF reader.found \/ LastIndexOf(reader.next) < reader.first
                 THEN NoMore
                 ELSE [reader EXCEPT !.at = LastIndexOf(reader.next)]
  /\ UNCHANGED <<storage, writer, counters, transfer, crashes, log, damaged>>

ReadReturn ==
  /\ reader.next = -1
  /\ reader' = NoRead
  /\ UNCHANGED <<storage, writer, counters, transfer, crashes, log, damaged>>
-----------------------------------------------------------------------------
Transfer ==
  TakeMessage \/ AppendTarget \/ DropSource \/ MeasureSource \/ AdjustCount

Writing == WriteEntry \/ WriteDone \/ EnqueueTransfer

Reading ==
  ReadPrimary \/ ReadChunk \/ ReadGap \/ ReadReturn \/ \E range \in Reads : ReadStart(range)

Next ==
  \/ \E e \in Entries : Create(e) \/ Add(e)
  \/ Open \/ Close \/ Crash
  \/ \E kind \in {"flush", "commit"} : StartWriting(kind)
  \/ Writing \/ Archive \/ Transfer \/ Reading

Spec == Init /\ [][Next]_vars

(* The fiber and a task in the middle of a write go on; the mutex of the   *)
(* primary oplog does not starve a task that waits for it.                 *)
FairSpec == Spec /\ SF_vars(Transfer) /\ WF_vars(Writing)
-----------------------------------------------------------------------------
IsFunOfEntries(f, S) == DOMAIN f \subseteq S /\ f \in [DOMAIN f -> Entries]

Messages == [source : Layers, upto : Nat, keep : BOOLEAN]

(* Type invariant.                                                         *)
OplogTypeOK ==
  /\ IsFunOfEntries(primary, Nat \ {0})
  /\ DOMAIN archive = Archives
  /\ \A l \in Archives :
       /\ DOMAIN archive[l] \subseteq Nat \ {0}
       /\ \A k \in DOMAIN archive[l] : IsFunOfEntries(archive[l][k], 1 .. k)
  /\ open \in BOOLEAN
  /\ buffer \in Seq(Entries)
  /\ last_oplog_idx \in Nat /\ last_committed_idx \in Nat
  /\ writing \in {"no", "add", "flush", "commit"} /\ enqueuing \in BOOLEAN
  /\ primary_length \in Nat
  /\ entry_count \in [Archives -> Nat]
  /\ queue \in Seq(Messages)
  /\ fiber \in {"idle", "append", "drop", "measure", "count", "panicked"}
  /\ msg \in Messages
  /\ left \in Nat
  /\ IsFunOfEntries(moving, Nat \ {0})
  /\ reader.next \in Layers \cup {-1}
  /\ reader.first \in Nat /\ reader.last \in Nat /\ reader.at \in Nat
  /\ reader.found \in BOOLEAN /\ reader.written \in Nat
  /\ IsFunOfEntries(reader.result, Nat)
  /\ crashes \in Nat
  /\ log \in Seq(Entries)

(* What OplogService says of the layers, that old entries are moved down   *)
(* the stack: every written entry is in some layer.  A blob archive takes  *)
(* the place of a chunk it was given before, and then it is not so.        *)
EntriesMoved == \A i \in DOMAIN log : \E l \in Layers : Holds(l, i)

(* Whatever is moved, and wherever a transfer is cut off, every written    *)
(* entry is in some layer, as long as no stored chunk damaged its layer;   *)
(* and every copy of it is the entry that was written at its index.        *)
NothingLost ==
  /\ ~damaged => EntriesMoved
  /\ \A i \in DOMAIN primary : i \in DOMAIN log /\ primary[i] = log[i]
  /\ \A l \in Archives : \A k \in DOMAIN archive[l] :
       \A i \in DOMAIN archive[l][k] :
         i \in DOMAIN log /\ archive[l][k][i] = log[i]

(* An oplog goes on exactly where its stored layers end: no index is used  *)
(* for two entries, none is left out.                                      *)
IndexesDense ==
  open => /\ last_committed_idx = Len(log)
          /\ last_oplog_idx = Len(log) + Len(buffer)

(* A read of a range, one layer after the other while entries move down,   *)
(* returns every entry of the range that was written when it began, as     *)
(* long as no stored chunk damaged its layer, and each as it was written.  *)
ReadsComplete ==
  /\ \A i \in DOMAIN reader.result : i \in DOMAIN log /\ reader.result[i] = log[i]
  /\ ~damaged /\ reader.next = -1
       => reader.first .. reader.written \subseteq DOMAIN reader.result

(* What get_last_index and a read of everything give, layer by layer.      *)
StoredLog ==
  IF ~Exists THEN <<>>
  ELSE [i \in 1 .. LastIndex |->
          EntryAt(CHOOSE l \in Layers :
                    Holds(l, i) /\ \A m \in 0 .. l - 1 : ~Holds(m, i), i)]

PromisedLog == IF damaged THEN <<>> ELSE StoredLog

Abstract == INSTANCE AppendOnlyLog WITH
  log <- PromisedLog, pending <- buffer, intact <- ~damaged

(* The layers together behave as one append-only log, as long as no stored *)
(* chunk damaged its layer.                                                *)
ImplementsLog == Abstract!Spec

(* As long as the executor has not crashed the fiber never fails: no chunk *)
(* is moved twice, also when the oplog is closed in the middle.            *)
FiberSurvives == crashes = 0 => fiber # "panicked"

(* A transfer that has read its entries comes to an end, or the oplog is   *)
(* closed: the fiber and the writers do not block each other.              *)
TransfersEnd == fiber = "append" ~> fiber \in {"idle", "panicked"}

(* What the comment in read says: when a chunk is fetched and the entry is *)
(* not in the cache, the beginning of the layer is reached.                *)
BeginningReached ==
  ReadingArchive =>
    \A k \in DOMAIN archive[reader.next] :
      IsClosest(k, reader.at, DOMAIN archive[reader.next]) /\ FromChunk(k) = {}
        => \A c \in DOMAIN archive[reader.next] :
             \A i \in DOMAIN archive[reader.next][c] : i > reader.at

(* What archive expects: its message finds a running fiber.                *)
FiberReceives == open => fiber # "panicked"
=============================================================================
