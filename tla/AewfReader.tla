------------------------------ MODULE AewfReader ------------------------------
(***************************************************************************)
(* Reading an EWF image (libxmount_input_aewf.c).                          *)
(*                                                                         *)
(* The image is stored in chunks; a table in one of the segment files says *)
(* where the chunks of a range are.  Tables and open segment files are     *)
(* cached up to a limit.  AewfRead works in batches of aewfthreads chunks: *)
(* it reads each chunk into the buffers of an idle thread structure and    *)
(* starts a thread that uncompresses it, or checks its CRC, and copies the *)
(* wanted part to the caller; then it joins the threads.  The buffer of a  *)
(* thread structure also is a cache: a chunk that is still in one is only  *)
(* copied.  With aewfthreads=1 there are no threads and one buffer.        *)
(*                                                                         *)
(* Data is abstracted to where it comes from: a cell of the caller's       *)
(* buffer holds an address of the image, or Junk.                          *)
(***************************************************************************)
EXTENDS Naturals, FiniteSets, FiniteSetsExt

CONSTANTS
  NThreads,          \* option aewfthreads
  ChunkSize,         \* size of a chunk; the last one may be shorter
  ImageSize,
  Tables, Segments,  \* the chunk tables and the segment files
  TableOf,           \* the table that a chunk is listed in, if it is
  SegmentOf,         \* the segment file that a table and its chunks are in
  TableSize,         \* bytes of memory for a table
  MaxTableCache,     \* option aewfmaxmem
  MaxOpenSegments,   \* option aewfmaxfiles
  Compressed,        \* chunks that are stored compressed
  Damaged,           \* chunks whose data does not match its checksum
  Faults,            \* operations that may fail
  Word               \* uint64_t counters are kept modulo Word

ChunkCount == ImageSize \div ChunkSize
                + (IF ImageSize % ChunkSize # 0 THEN 1 ELSE 0)
Chunks == 0..ChunkCount-1
Slots == 0..NThreads-1

ASSUME AewfSizes ==
  /\ NThreads \in Nat \ {0}
  /\ ChunkSize \in Nat \ {0}
  /\ ImageSize \in Nat \ {0}
  /\ MaxTableCache \in Nat
  /\ MaxOpenSegments \in Nat
  /\ Word \in Nat \ {0}
ASSUME AewfLayout ==
  /\ IsFiniteSet(Tables)
  /\ IsFiniteSet(Segments)
  /\ DOMAIN TableOf \subseteq Chunks
  /\ TableOf \in [DOMAIN TableOf -> Tables]
  /\ SegmentOf \in [Tables -> Segments]
  /\ TableSize \in [Tables -> Nat \ {0}]
ASSUME AewfData ==
  /\ Compressed \subseteq Chunks
  /\ Damaged \subseteq Chunks
  /\ Faults \subseteq {"open", "size", "table", "chunk", "thread"}

VARIABLES
  pEwfTable,     \* per table: "null", "table" or, allocated only, "garbage"
  TableCache,    \* memory counted for tables
  pFile,         \* the segments whose file pointer is not NULL
  OpenSegments,  \* the segment files counted as open
  slot,          \* pThreadArr; the one buffer of the library if NThreads = 1
  req            \* the call of AewfRead

vars == <<pEwfTable, TableCache, pFile, OpenSegments, slot, req>>

None == ChunkCount  \* AEWF_NONE; a buffer with no chunk in it
Junk == ImageSize   \* what a cell holds that got nothing of the image

Smaller(x, y) == IF x < y THEN x ELSE y

\* uint64_t arithmetic
Plus(x, y) == (x + y) % Word
Minus(x, y) == (x + (Word - (y % Word))) % Word

Idle == [launched |-> FALSE, job |-> "none", ChunkInBuff |-> None,
         uncompressed |-> None, compressed |-> None,
         to |-> 0, Ofs |-> 0, Len |-> 0, ok |-> TRUE]

Init ==
  /\ pEwfTable = [t \in Tables |-> "null"]
  /\ TableCache = 0
  /\ pFile = {}
  /\ OpenSegments = 0
  /\ slot = [i \in Slots |-> Idle]
  /\ req = [pc |-> "idle", from |-> 0, size |-> 0, seek |-> 0, left |-> 0,
            read |-> 0, out |-> <<>>, chunk |-> 0, Ofs |-> 0, togo |-> 0,
            to |-> 0, got |-> 0, failed |-> FALSE, ok |-> TRUE]

UnchangedTables == UNCHANGED <<pEwfTable, TableCache>>
UnchangedFiles == UNCHANGED <<pFile, OpenSegments>>

-----------------------------------------------------------------------------
(* The call and its batches                                                *)

\* AewfRead: what lies beyond the end of the image is cut off.
AewfRead(from, count) ==
  /\ req.pc \in {"idle", "done"}
  /\ LET size == IF from >= ImageSize THEN 0
                 ELSE Smaller(count, ImageSize - from)
     IN req' = [req EXCEPT !.pc = IF size = 0 THEN "done" ELSE "batch",
                  !.from = from, !.size = size, !.seek = from, !.left = size,
                  !.read = 0, !.out = [x \in 0..size-1 |-> Junk],
                  !.failed = FALSE, !.ok = TRUE]
  /\ UnchangedTables /\ UnchangedFiles /\ UNCHANGED slot

\* The call returns; AewfRead sets rc to AEWF_OK whatever came before.
Returned(r) == [r EXCEPT !.pc = "done", !.ok = TRUE]

\* Mutant: the last batch is as long as the others.
BatchSize_Uncut == IF NThreads = 1 THEN req.left ELSE NThreads * ChunkSize

\* AewfReadMT takes as many bytes as the threads have room for, AewfReadLegacy
\* all of them.
BatchSize == IF NThreads = 1 THEN req.left
             ELSE Smaller(NThreads * ChunkSize, req.left)

StartBatch ==
  /\ req.pc = "batch"
  /\ req' = IF req.left = 0 THEN Returned(req)
            ELSE [req EXCEPT !.pc = "chunk", !.chunk = req.seek \div ChunkSize,
                    !.Ofs = req.seek % ChunkSize, !.togo = BatchSize,
                    !.to = req.read, !.got = 0]
  /\ UnchangedTables /\ UnchangedFiles /\ UNCHANGED slot

\* The part of the current chunk that is wanted.
Wanted == Smaller(ChunkSize - req.Ofs, req.togo)

\* Mutant: the offset in the first chunk is used for the others too.
NextChunk_SameOfs ==
  [req EXCEPT !.pc = IF req.togo = Wanted THEN "join" ELSE "chunk",
     !.chunk = @ + 1, !.togo = @ - Wanted, !.to = @ + Wanted]

\* On to the next chunk of the batch, or to waiting for the threads.
NextChunk ==
  [req EXCEPT !.pc = IF req.togo = Wanted THEN "join" ELSE "chunk",
     !.chunk = @ + 1, !.Ofs = 0, !.togo = @ - Wanted, !.to = @ + Wanted]

\* An error ends the batch, the threads that run are joined all the same.
\* AewfReadLegacy returns the error at once.
Failed == IF NThreads = 1 THEN Returned(req)
          ELSE [req EXCEPT !.pc = "join", !.failed = TRUE]

\* n cells from ofs on of the chunk in a buffer, copied to the caller; what is
\* behind the last chunk in its buffer is nothing of the image.
Copied(out, to, chunk, ofs, n) ==
  [x \in DOMAIN out |->
     IF x \notin to..to+n-1 THEN out[x]
     ELSE IF chunk = None THEN Junk
     ELSE Smaller(chunk * ChunkSize + ofs + (x - to), Junk)]

-----------------------------------------------------------------------------
(* Tables and segment files                                                *)

Table == TableOf[req.chunk]
Segment == SegmentOf[Table]

\* Mutant: only the first thread structure is searched.
Hits_FirstOnly == {i \in {0} : slot[i].ChunkInBuff = req.chunk}

\* The slots whose buffer holds the chunk.
Hits == {i \in Slots : slot[i].ChunkInBuff = req.chunk}

\* The table that lists the chunk is searched for.
Miss ==
  /\ req.pc = "chunk"
  /\ Hits = {}
  /\ req' = IF req.chunk \in DOMAIN TableOf THEN [req EXCEPT !.pc = "table"]
            ELSE Failed
  /\ UnchangedTables /\ UnchangedFiles /\ UNCHANGED slot

Loaded == {t \in Tables : pEwfTable[t] # "null"}

\* Mutant: the memory of a released table stays counted.
Released_Counted(t) == UNCHANGED TableCache

Released(t) == TableCache' = Minus(TableCache, TableSize[t])

\* AewfLoadEwfTable: tables are released until the new one fits.  LastUsed has
\* a resolution of one second: the order in which they go is left open.
ReleaseTable ==
  /\ req.pc = "table"
  /\ Table \notin Loaded
  /\ Plus(TableCache, TableSize[Table]) > MaxTableCache
  /\ \E t \in Loaded :
       /\ Released(t)
       /\ pEwfTable' = [pEwfTable EXCEPT ![t] = "null"]
  /\ UnchangedFiles /\ UNCHANGED <<slot, req>>

TableFits ==
  /\ req.pc = "table"
  /\ \/ Table \in Loaded
     \/ Plus(TableCache, TableSize[Table]) <= MaxTableCache
     \/ Loaded = {}
  /\ req' = [req EXCEPT !.pc = "segment"]
  /\ UnchangedTables /\ UnchangedFiles /\ UNCHANGED slot

\* AewfOpenSegment: files are closed until there are few enough.  That fclose
\* of a file that was only read fails is left out.
CloseSegment ==
  /\ req.pc = "segment"
  /\ Segment \notin pFile
  /\ OpenSegments >= MaxOpenSegments
  /\ \E s \in pFile : pFile' = pFile \ {s}
  /\ OpenSegments' = Minus(OpenSegments, 1)
  /\ UnchangedTables /\ UNCHANGED <<slot, req>>

\* Mutant: the file that was opened is not counted.
Opened_Uncounted == UNCHANGED OpenSegments

Opened == OpenSegments' = Plus(OpenSegments, 1)

\* The segment file is opened; it is an error if its size is not what AewfOpen
\* found, and the pointer is set then.
OpenSegment ==
  /\ req.pc = "segment"
  /\ \/ /\ Segment \in pFile
        /\ req' = [req EXCEPT !.pc = "read"]
        /\ UnchangedFiles
     \/ /\ Segment \notin pFile
        /\ OpenSegments < MaxOpenSegments \/ pFile = {}
        /\ \/ /\ pFile' = pFile \cup {Segment}
              /\ Opened
              /\ req' = [req EXCEPT !.pc = "read"]
           \/ "open" \in Faults /\ req' = Failed /\ UnchangedFiles
           \/ /\ "size" \in Faults
              /\ pFile' = pFile \cup {Segment}
              /\ req' = Failed
              /\ UNCHANGED OpenSegments
  /\ UnchangedTables /\ UNCHANGED slot

\* The table is read into new memory, which stays when reading fails.
LoadTable ==
  /\ req.pc = "read"
  /\ Table \notin Loaded
  /\ \/ /\ pEwfTable' = [pEwfTable EXCEPT ![Table] = "table"]
        /\ TableCache' = Plus(TableCache, TableSize[Table])
        /\ UNCHANGED req
     \/ /\ "table" \in Faults
        /\ \/ pEwfTable' = [pEwfTable EXCEPT ![Table] = "garbage"]
           \/ UNCHANGED pEwfTable
        /\ UNCHANGED TableCache
        /\ req' = Failed
  /\ UnchangedFiles /\ UNCHANGED slot

-----------------------------------------------------------------------------
(* Chunks and threads                                                      *)

\* i is the first slot of S.
First(i, S) == i \in S /\ \A j \in S : i <= j

\* Thread structure s gets a job for the current piece.
Job(s, job) == [s EXCEPT !.launched = TRUE, !.job = job, !.to = req.to,
                         !.Ofs = req.Ofs, !.Len = Wanted]

\* Mutant: a thread that still runs is taken as free.
FreeSlots_Any == Slots

\* The thread structures without a job.
FreeSlots == {i \in Slots : ~slot[i].launched}

\* AewfReadChunkMT finds the chunk in a buffer: a thread copies from it.  If
\* the thread cannot be created, the structure does not count as launched.
CopyChunk ==
  /\ NThreads > 1
  /\ req.pc = "chunk"
  /\ \E i \in Slots :
       /\ First(i, Hits)
       /\ \/ slot' = [slot EXCEPT ![i] = Job(@, "copy")] /\ req' = NextChunk
          \/ /\ "thread" \in Faults
             /\ slot' = [slot EXCEPT ![i] = [@ EXCEPT !.to = req.to,
                                              !.Ofs = req.Ofs, !.Len = Wanted]]
             /\ req' = Failed
  /\ UnchangedTables /\ UnchangedFiles

\* What reading chunk c puts in a buffer: its data or, when it is damaged or
\* looked for in the wrong place, nothing of use.
Stored(c) == IF c \in Damaged \/ pEwfTable[Table] = "garbage" THEN None ELSE c

\* Mutant: the structure is marked with the first chunk of the batch.
Filled_FirstChunk(s, data) ==
  LET c == req.chunk
  IN [s EXCEPT !.ChunkInBuff = (req.from + req.read) \div ChunkSize,
        !.to = req.to, !.Ofs = req.Ofs, !.Len = Wanted,
        !.compressed = IF c \in Compressed THEN data ELSE @,
        !.uncompressed = IF c \in Compressed THEN @ ELSE data]

\* Structure s after the current chunk was read into it as data.
Filled(s, data) ==
  LET c == req.chunk
  IN [s EXCEPT !.ChunkInBuff = c, !.to = req.to, !.Ofs = req.Ofs, !.Len = Wanted,
        !.compressed = IF c \in Compressed THEN data ELSE @,
        !.uncompressed = IF c \in Compressed THEN @ ELSE data]

\* AewfReadChunkMT0: the chunk is read into the buffer of the first free
\* structure and its thread is created; if that fails the structure counts as
\* launched all the same.  Without a free structure nothing is read.
ReadChunk ==
  /\ NThreads > 1
  /\ req.pc = "read"
  /\ Table \in Loaded
  /\ \/ FreeSlots = {} /\ req' = NextChunk /\ UNCHANGED slot
     \/ /\ pEwfTable[Table] = "garbage" \* AEWF_CHUNK_TOO_BIG
        /\ req' = Failed
        /\ UNCHANGED slot
     \/ \E i \in Slots :
          /\ First(i, FreeSlots)
          /\ LET c == req.chunk
                 job == IF c \in Compressed THEN "uncompress" ELSE "crc"
             IN \/ /\ slot' = [slot EXCEPT ![i] = Job(Filled(@, Stored(c)), job)]
                   /\ req' = NextChunk
                \/ /\ "thread" \in Faults
                   /\ slot' = [slot EXCEPT ![i] = Job(Filled(@, Stored(c)), "missing")]
                   /\ req' = Failed
                \/ /\ "chunk" \in Faults
                   /\ slot' = [slot EXCEPT ![i] = Filled(@, None)]
                   /\ req' = Failed
  /\ UnchangedTables /\ UnchangedFiles

\* AewfThreadUncompress, AewfThreadCRC and AewfThreadCopy.  Data that does not
\* uncompress is not copied, data with a wrong CRC is.
Work(i) ==
  /\ slot[i].job \in {"uncompress", "crc", "copy"}
  /\ LET s == slot[i]
         data == IF s.job = "uncompress" THEN s.compressed ELSE s.uncompressed
         good == s.job = "copy" \/ data # None
     IN /\ slot' = [slot EXCEPT ![i].job = "none", ![i].ok = good,
                                ![i].uncompressed = data]
        /\ req' = IF s.job = "uncompress" /\ ~good THEN req
                  ELSE [req EXCEPT !.out = Copied(@, s.to, data, s.Ofs, s.Len)]
  /\ UnchangedTables /\ UnchangedFiles

Launched == {i \in Slots : slot[i].launched}

\* Mutant: the bytes that a thread delivered are not counted.
Joined_Uncounted(r, s) == [r EXCEPT !.failed = @ \/ ~s.ok]

\* The batch r after joining the thread of structure s.
Joined(r, s) == [r EXCEPT !.got = @ + s.Len, !.failed = @ \/ ~s.ok]

\* AewfReadMT0 joins the threads one after the other.
Join ==
  /\ req.pc = "join"
  /\ \E i \in Slots :
       /\ First(i, Launched)
       /\ slot[i].job \in {"none", "missing"}
       /\ slot' = [slot EXCEPT ![i].launched = FALSE, ![i].job = "none"]
       /\ req' = Joined(req, slot[i])
  /\ UnchangedTables /\ UnchangedFiles

\* pthread_join for a thread that could not be created may end the program.
JoinCrashes ==
  /\ req.pc = "join"
  /\ \E i \in Slots : First(i, Launched) /\ slot[i].job = "missing"
  /\ req' = [req EXCEPT !.pc = "dead"]
  /\ UnchangedTables /\ UnchangedFiles /\ UNCHANGED slot

\* All threads are joined; after an error the bytes of the batch are not counted.
EndBatch ==
  /\ req.pc = "join"
  /\ Launched = {}
  /\ req' = IF req.failed THEN Returned(req)
            ELSE [req EXCEPT !.pc = "batch", !.seek = @ + req.got,
                    !.left = @ - req.got, !.read = @ + req.got]
  /\ UnchangedTables /\ UnchangedFiles /\ UNCHANGED slot

-----------------------------------------------------------------------------
(* One buffer: aewfthreads=1                                               *)

\* Mutant: a chunk that turned out bad stays in the buffer.
InBuff_Kept(c, good) == c

\* Mutant: what was read is never noted down.
InBuff_Never(c, good) == None

\* What AewfReadChunkLegacy0 says the buffer holds after reading chunk c.
InBuff(c, good) == IF good THEN c ELSE None

\* AewfReadLegacy copies from the buffer.
CopyLegacy ==
  /\ NThreads = 1
  /\ req.pc = "chunk"
  /\ Hits # {}
  /\ LET r == [NextChunk EXCEPT !.read = @ + Wanted,
                 !.out = Copied(@, req.to, slot[0].uncompressed, req.Ofs, Wanted)]
     IN req' = IF req.togo = Wanted THEN Returned(r) ELSE r
  /\ UnchangedTables /\ UnchangedFiles /\ UNCHANGED slot

\* AewfReadChunkLegacy0.  A chunk that is not compressed is read into the
\* buffer that is the cache; ChunkInBuff is not touched when that fails.
ReadLegacy ==
  /\ NThreads = 1
  /\ req.pc = "read"
  /\ Table \in Loaded
  /\ LET c == req.chunk
         data == Stored(c)
     IN \/ /\ slot' = [slot EXCEPT ![0].ChunkInBuff = InBuff(c, data # None),
                                   ![0].uncompressed = data]
           /\ req' = IF data = None THEN Failed ELSE [req EXCEPT !.pc = "chunk"]
        \/ /\ pEwfTable[Table] = "garbage"
           /\ req' = Failed
           /\ UNCHANGED slot
        \/ /\ "chunk" \in Faults
           /\ slot' = IF c \in Compressed THEN slot
                      ELSE [slot EXCEPT ![0].uncompressed = None]
           /\ req' = Failed
  /\ UnchangedTables /\ UnchangedFiles

-----------------------------------------------------------------------------
Step ==
  \/ StartBatch \/ Miss \/ ReleaseTable \/ TableFits \/ CloseSegment
  \/ OpenSegment \/ LoadTable \/ CopyChunk \/ ReadChunk \/ Join \/ JoinCrashes
  \/ EndBatch \/ CopyLegacy \/ ReadLegacy

Next ==
  \/ \E from \in 0..ImageSize, count \in 1..ImageSize : AewfRead(from, count)
  \/ Step
  \/ \E i \in Slots : Work(i)

Spec == Init /\ [][Next]_vars

\* The caller's thread and the threads it created run on.
FairSpec == Spec /\ WF_vars(Step) /\ \A i \in Slots : WF_vars(Work(i))
-----------------------------------------------------------------------------
(* Properties                                                              *)

Buffer == 0..ChunkCount

SlotState ==
  [launched : BOOLEAN,
   job : {"none", "uncompress", "crc", "copy", "missing"},
   ChunkInBuff : Buffer, uncompressed : Buffer, compressed : Buffer,
   to : Nat, Ofs : Nat, Len : Nat, ok : BOOLEAN]

\* Every variable has its type.
TypeOK ==
  /\ pEwfTable \in [Tables -> {"null", "table", "garbage"}]
  /\ TableCache \in 0..Word-1
  /\ pFile \subseteq Segments
  /\ OpenSegments \in 0..Word-1
  /\ slot \in [Slots -> SlotState]
  /\ req.pc \in {"idle", "batch", "chunk", "table", "segment", "read", "join",
                 "done", "dead"}
  /\ req.failed \in BOOLEAN /\ req.ok \in BOOLEAN
  /\ req.read \in 0..req.size
  /\ DOMAIN req.out = 0..req.size-1
  /\ \A x \in DOMAIN req.out : req.out[x] \in 0..ImageSize

\* The chunks that can be read, and a call that wants no others.
Intact == DOMAIN TableOf \ Damaged
WantsIntact == \A x \in 0..req.size-1 : (req.from + x) \div ChunkSize \in Intact

\* A read whose chunks are all good is answered with all that was asked for and
\* lies in the image, each byte taken from its place: what the parallel jobs of
\* AewfReadMT add up to, whatever was read before.
ReadsDeliverImage ==
  (req.pc = "done" /\ Faults = {} /\ WantsIntact) =>
    /\ req.read = req.size
    /\ \A x \in 0..req.size-1 : req.out[x] = req.from + x

\* Whatever goes wrong, the bytes that a read says it got are the image's.
ReadBytesAreTheImages ==
  req.pc = "done" => \A x \in 0..req.read-1 : req.out[x] = req.from + x

\* A thread's job and buffers are left alone until the thread is done.
JobsUndisturbed ==
  [][\A i \in Slots : slot[i].job \in {"uncompress", "crc", "copy"} =>
       slot'[i].job = "none" \/ slot'[i] = slot[i]]_vars

\* No chunk is in the buffers of two thread structures: a hit finds the one
\* that is right, and no two jobs of a batch use one buffer.
OneSlotPerChunk ==
  \A i, j \in Slots :
    (i # j /\ slot[i].ChunkInBuff = slot[j].ChunkInBuff)
      => slot[i].ChunkInBuff = None

\* When no operation fails, ChunkInBuff names the chunk whose data is in the
\* buffer, as its comment in libxmount_input_aewf.h says, once no thread works
\* on it.  Damaged chunks are left out: their number stays with what is left of
\* their data.
ChunkInBuffIsStored ==
  \A i \in Slots :
    (Faults = {} /\ slot[i].job = "none"
       /\ slot[i].ChunkInBuff \notin Damaged \cup {None})
      => slot[i].uncompressed = slot[i].ChunkInBuff

\* The segment files counted as open are those that are, within the limit.
OpenSegmentsCounted ==
  /\ OpenSegments = Cardinality(pFile)
  /\ OpenSegments <= (IF MaxOpenSegments = 0 THEN 1 ELSE MaxOpenSegments)

\* The memory counted for tables is what they take.
TableCacheCounted ==
  TableCache = MapThenSumSet(LAMBDA t : TableSize[t], Loaded)

\* Every read returns, unless joining a missing thread ends the program.
ReadsReturn ==
  (req.pc \notin {"idle", "done"}) ~> (req.pc \in {"done", "dead"})
=============================================================================
