---------------------------- MODULE AewfBytesProofs ----------------------------
(***************************************************************************)
(* Proofs about what AewfReader answers when operations fail: the bytes    *)
(* that a read says it got are the image's.  With one buffer this holds    *)
(* whatever tables, segment files and chunks are bad, with threads when     *)
(* only segment files fail to open.  And about the memory that is counted  *)
(* for tables: it is the sum of their sizes, kept within aewfmaxmem.       *)
(***************************************************************************)
EXTENDS AewfReaderProofs, SumProofs

-----------------------------------------------------------------------------
(* One buffer                                                              *)

\* A chunk that cannot be read is noted down only when it is compressed: one
\* that is not is read over the buffer that ChunkInBuff still names.
ReadsAsWhole == "chunk" \notin Faults \/ Chunks \subseteq Compressed

\* The buffer holds the chunk it is said to hold, and what was copied from it
\* to the caller is the image's.
OneBufferInv ==
  /\ slot[0].ChunkInBuff # None => slot[0].uncompressed = slot[0].ChunkInBuff
  /\ \A x \in 0..req.read-1 : Correct(x)

LEMMA OnlyBuffer == ASSUME NThreads = 1 PROVE Slots = {0}
  BY DEF Slots

LEMMA InitOneBuffer == ASSUME NThreads = 1 PROVE Init => OneBufferInv
<1>. SUFFICES ASSUME Init PROVE OneBufferInv
  OBVIOUS
<1>1. slot[0].ChunkInBuff = None
  BY OnlyBuffer DEF Init, Idle
<1>2. 0..req.read-1 = {}
  BY DEF Init
<1>. QED BY <1>1, <1>2 DEF OneBufferInv

\* A step that neither fills the buffer nor copies from it.
LEMMA SameOneBuffer ==
  ASSUME OneBufferInv, slot' = slot, req'.from = req.from, req'.out = req.out,
         req'.read = req.read
  PROVE  OneBufferInv'
  BY DEF OneBufferInv, Correct

LEMMA FillsOneBuffer ==
  ASSUME NThreads = 1, Typed, Position, OneBufferInv, ReadsAsWhole, ReadLegacy
  PROVE  OneBufferInv'
<1>1. Slots = {0} /\ slot[0] \in Structure /\ req.pc \in Searching
  BY OnlyBuffer DEF Typed, ReadLegacy, Searching, Finding
<1>2. /\ req'.from = req.from /\ req'.out = req.out /\ req'.read = req.read
  BY FailedFields, PcFields DEF ReadLegacy, PCs, Searching
<1>3. req.chunk \in Chunks
  BY <1>1, CurrentChunk
<1>4. slot'[0].ChunkInBuff # None => slot'[0].uncompressed = slot'[0].ChunkInBuff
  <2>. DEFINE d == Stored(req.chunk)
              b == InBuff(req.chunk, d # None)
  <2>1. CASE slot' = [slot EXCEPT ![0].ChunkInBuff = b, ![0].uncompressed = d]
    <3>1. b # None => d = b
      BY DEF InBuff, Stored
    <3>. HIDE DEF b, d
    <3>2. slot'[0].ChunkInBuff = b /\ slot'[0].uncompressed = d
      BY <1>1, <2>1 DEF Typed, Structure
    <3>. QED BY <3>1, <3>2
  <2>2. CASE slot' = slot
    BY <2>2 DEF OneBufferInv
  <2>. QED BY <1>3, <2>1, <2>2 DEF ReadLegacy, ReadsAsWhole
<1>5. \A x : Correct(x)' = Correct(x)
  BY <1>2 DEF Correct
<1>. QED BY <1>2, <1>4, <1>5 DEF OneBufferInv

LEMMA CopiesOneBuffer ==
  ASSUME NThreads = 1, Typed, Position, OneBufferInv, CopyLegacy
  PROVE  OneBufferInv'
<1>. DEFINE w == Wanted
            out == Copied(req.out, req.to, slot[0].uncompressed, req.Ofs, w)
<1>1. Slots = {0} /\ req.pc \in Searching /\ slot' = slot
  BY OnlyBuffer DEF CopyLegacy, Searching
<1>2. /\ req'.from = req.from /\ req'.out = out /\ req'.read = req.read + w
  BY CopyLegacyFields DEF Served
<1>3. slot[0].uncompressed = req.chunk /\ req.chunk # None
  <2>1. slot[0].ChunkInBuff = req.chunk
    BY <1>1 DEF CopyLegacy, Hits
  <2>2. req.chunk # None
    BY <1>1, CurrentChunk
  <2>. QED BY <2>1, <2>2 DEF OneBufferInv
<1>4. /\ req.size \in Nat /\ req.from \in Nat /\ req.togo \in Int /\ req.read \in Int
      /\ req.to \in Int /\ req.chunk \in Int /\ req.Ofs \in 0..ChunkSize-1
  BY DEF Typed, Call
<1>5. /\ req.chunk \in Nat /\ req.to = req.read /\ req.to \in Nat /\ req.Ofs \in Nat
      /\ req.to + req.togo = req.size
      /\ req.chunk * ChunkSize + req.Ofs = req.from + req.to
      /\ req.from + req.size <= ImageSize
  BY <1>1, <1>4 DEF Position
<1>6. w \in Nat \ {0} /\ w <= req.togo
  BY <1>1, WantedPart
<1>. HIDE DEF w
<1>7. ASSUME NEW x \in 0..req.size-1
      PROVE  out[x] = IF x \in req.to .. req.to + w - 1
                      THEN req.from + x ELSE req.out[x]
  <2>1. out = Copied(req.out, req.to, req.chunk, req.Ofs, w) /\ w \in Int
    BY <1>3, <1>6
  <2>. HIDE DEF out
  <2>2. \A to \in Nat, c \in Nat, ofs \in Nat, m \in Int :
          c # None /\ c * ChunkSize + ofs = req.from + to
            => Copied(req.out, to, c, ofs, m)[x]
                 = IF x \in to..to+m-1 THEN req.from + x ELSE req.out[x]
    BY <1>5, CopiedRight
  <2>3. Copied(req.out, req.to, req.chunk, req.Ofs, w)[x]
          = IF x \in req.to .. req.to + w - 1 THEN req.from + x ELSE req.out[x]
    BY <1>3, <1>5, <2>1, <2>2
  <2>. QED BY <2>1, <2>3
<1>. HIDE DEF out
<1>8. ASSUME NEW x \in 0..req'.read-1 PROVE Correct(x)'
  <2>1. x \in 0..req.size-1 /\ (x \in req.to .. req.to + w - 1 \/ x \in 0..req.read-1)
    <3>1. x \in Int /\ 0 <= x /\ x < req.read + w
      BY <1>2, <1>4, <1>6
    <3>2. req.read + w <= req.size /\ req.to = req.read /\ w \in Int
      BY <1>4, <1>5, <1>6
    <3>. QED BY <1>4, <3>1, <3>2
  <2>2. x \in 0..req.read-1 => req.out[x] = req.from + x
    BY DEF OneBufferInv, Correct
  <2>3. out[x] = req.from + x
    BY <1>7, <2>1, <2>2
  <2>. QED BY <1>2, <2>3 DEF Correct
<1>. QED BY <1>1, <1>3, <1>8 DEF OneBufferInv

LEMMA NextOneBuffer ==
  ASSUME NThreads = 1, Typed, SlotsInv, Position, OneBufferInv, ReadsAsWhole,
         [Next]_vars
  PROVE  OneBufferInv'
<1>1. CASE UNCHANGED vars
  BY <1>1, SameOneBuffer DEF vars
<1>2. ASSUME NEW from \in 0..ImageSize, NEW count \in 1..ImageSize,
             AewfRead(from, count)
      PROVE  OneBufferInv'
  <2>1. slot' = slot
    BY <1>2 DEF AewfRead
  <2>2. req'.read = 0
    BY <1>2, AewfReadFields DEF Accepted
  <2>3. 0..req'.read-1 = {}
    BY <2>2
  <2>. QED BY <2>1, <2>3 DEF OneBufferInv
<1>3. CASE StartBatch
  <2>1. CASE req.left = 0
    BY <1>3, <2>1, SameOneBuffer, ReturnedFields DEF StartBatch
  <2>2. CASE req.left # 0
    BY <1>3, <2>2, SameOneBuffer, StartBatchFields DEF StartBatch, Begun, Typed
  <2>. QED BY <2>1, <2>2
<1>4. CASE \/ Miss \/ TableFits \/ JoinCrashes \/ ReleaseTable \/ CloseSegment
           \/ OpenSegment \/ LoadTable
  <2>1. slot' = slot
    BY <1>4
    DEF Miss, TableFits, JoinCrashes, ReleaseTable, CloseSegment, OpenSegment, LoadTable
  <2>2. CASE req' = req
    BY <2>1, <2>2, SameOneBuffer
  <2>3. CASE req' = Failed
    BY <2>1, <2>3, FailedFields, SameOneBuffer
  <2>4. ASSUME NEW pc \in PCs, req' = [req EXCEPT !.pc = pc]
        PROVE  OneBufferInv'
    BY <2>1, <2>4, PcFields, SameOneBuffer
  <2>. QED BY <1>4, <2>2, <2>3, <2>4
       DEF Miss, TableFits, JoinCrashes, ReleaseTable, CloseSegment, OpenSegment,
           LoadTable, PCs, Searching, Finding
<1>5. ~CopyChunk /\ ~ReadChunk
  BY DEF CopyChunk, ReadChunk
<1>6. ~Join /\ ~EndBatch
  BY DEF Join, EndBatch, Position
<1>7. ASSUME NEW i \in Slots PROVE ~Work(i)
  BY DEF Work, SlotsInv
<1>. QED BY <1>1, <1>2, <1>3, <1>4, <1>5, <1>6, <1>7, FillsOneBuffer, CopiesOneBuffer
     DEF Next, Step

\* With aewfthreads=1 the bytes that AewfReadLegacy says it got are the image's,
\* whichever tables, segment files and chunks cannot be read and whatever was
\* read before: a chunk that turned out bad is not left in the buffer under its
\* number.  Stored chunks that fseek or fread fail on are left out: those are
\* read over what is in the buffer.
THEOREM OneBufferReadsTheImage ==
  ASSUME NThreads = 1, ReadsAsWhole
  PROVE  Spec => []ReadBytesAreTheImages
<1>1. Init => OneBufferInv
  BY InitOneBuffer
<1>2. Typed /\ SlotsInv /\ Position /\ OneBufferInv /\ [Next]_vars => OneBufferInv'
  BY NextOneBuffer
<1>3. OneBufferInv => ReadBytesAreTheImages
  BY DEF OneBufferInv, ReadBytesAreTheImages, Correct
<1>. QED BY <1>1, <1>2, <1>3, AlwaysTyped, AlwaysSlots, AlwaysPieces, PTL DEF Spec

-----------------------------------------------------------------------------
(* Threads                                                                 *)

\* The call wants no damaged chunks; some may be in no table.
WantsUndamaged ==
  \A x \in 0..req.size-1 : (req.from + x) \div ChunkSize \notin Damaged

\* What is counted is the image's.  As long as the batch has not failed, so is
\* what finished jobs copied, and what was joined.
BytesInv ==
  WantsUndamaged =>
    /\ \A x \in 0..req.read-1 : Correct(x)
    /\ ~req.failed =>
         /\ \A i \in Launched : slot[i].job = "none" => \A x \in Cells(i) : Correct(x)
         /\ req.pc = "join" =>
              \A x \in (req.read .. CoveredEnd - 1) \ LaunchedCells : Correct(x)

LEMMA InitBytes == Init => BytesInv
<1>. SUFFICES ASSUME Init PROVE BytesInv
  OBVIOUS
<1>1. Launched = {}
  BY DEF Init, Idle, Launched
<1>2. req.read = 0 /\ req.pc = "idle"
  BY DEF Init
<1>3. 0..req.read-1 = {}
  BY <1>2
<1>. QED BY <1>1, <1>2, <1>3 DEF BytesInv

LEMMA SameUndamaged ==
  ASSUME req'.from = req.from, req'.size = req.size
  PROVE  WantsUndamaged' = WantsUndamaged
  BY DEF WantsUndamaged

\* A step that copies nothing, and counts nothing unless the batch failed.
LEMMA SameBytes ==
  ASSUME BytesInv,
         \A i \in Slots : /\ slot'[i].launched = slot[i].launched
                          /\ slot'[i].to = slot[i].to /\ slot'[i].Len = slot[i].Len
                          /\ slot'[i].job = slot[i].job,
         req'.from = req.from, req'.size = req.size, req'.out = req.out,
         req'.read = req.read,
         \/ req'.failed
         \/ /\ req'.failed = req.failed /\ req'.got = req.got
            /\ req'.pc = "join" => req.pc = "join"
  PROVE  BytesInv'
<1>1. Launched' = Launched
  BY DEF Launched
<1>2. \A i \in Launched : Cells(i)' = Cells(i)
  BY DEF Cells, Launched
<1>3. LaunchedCells' = LaunchedCells
  BY <1>1, <1>2 DEF LaunchedCells
<1>4. req'.got = req.got => CoveredEnd' = CoveredEnd
  BY <1>3 DEF CoveredEnd
<1>5. \A x : Correct(x)' = Correct(x)
  BY DEF Correct
<1>6. WantsUndamaged' = WantsUndamaged
  BY SameUndamaged
<1>. QED BY <1>1, <1>2, <1>3, <1>4, <1>5, <1>6 DEF BytesInv, Launched

\* On to the next chunk: the current piece has a job now, or was dropped.
LEMMA NextChunkBytes ==
  ASSUME Typed, Position, BytesInv, req' = NextChunk,
         req.pc \in Searching, NThreads # 1, Coverage, Coverage', Typed',
         \A i \in Slots : slot'[i] = slot[i]
                          \/ (slot'[i].launched /\ slot'[i].job # "none")
  PROVE  BytesInv'
<1>1. /\ req'.from = req.from /\ req'.size = req.size /\ req'.out = req.out
      /\ req'.read = req.read /\ req'.got = req.got /\ req'.failed = req.failed
      /\ req'.pc \in {"join", "chunk"}
  BY NextChunkFields
<1>2. SUFFICES ASSUME WantsUndamaged PROVE
        /\ \A x \in 0..req'.read-1 : Correct(x)'
        /\ \A i \in Launched' : slot'[i].job = "none" => \A x \in Cells(i)' : Correct(x)'
        /\ req'.pc = "join" => (req'.read .. CoveredEnd' - 1) \ LaunchedCells' = {}
  BY <1>1, SameUndamaged DEF BytesInv
<1>3. ~req.failed
  BY DEF Position
<1>4. /\ \A x \in 0..req.read-1 : Correct(x)
      /\ \A i \in Launched : slot[i].job = "none" => \A x \in Cells(i) : Correct(x)
  BY <1>2, <1>3 DEF BytesInv
<1>5. \A x : Correct(x)' = Correct(x)
  BY <1>1 DEF Correct
<1>6. \A i \in Launched' : slot'[i].job = "none" => \A x \in Cells(i)' : Correct(x)'
  BY <1>4, <1>5 DEF Launched, Cells
<1>7. ASSUME req'.pc = "join"
      PROVE  (req'.read .. CoveredEnd' - 1) \ LaunchedCells' = {}
  <2>1. req.got = 0
    BY <1>3 DEF Coverage
  <2>2. /\ IsFiniteSet(LaunchedCells')
        /\ LaunchedCells' \subseteq req'.read .. CoveredEnd' - 1
    BY <1>1, <1>3, <1>7 DEF Coverage
  <2>3. req'.read \in Int
    BY <1>1 DEF Typed, Call
  <2>4. /\ CoveredEnd' = req'.read + Cardinality(LaunchedCells')
        /\ CoveredEnd' \in Int
    <3>1. Cardinality(LaunchedCells') \in Nat
      BY <2>2, FS_CardinalityType
    <3>. QED BY <1>1, <2>1, <2>3, <3>1 DEF CoveredEnd
  <2>. QED BY <2>2, <2>3, <2>4, FilledInterval
<1>. QED BY <1>1, <1>4, <1>5, <1>6, <1>7

\* The current piece becomes a thread's job.
LEMMA ThreadsBytes ==
  ASSUME Typed, SlotsInv, Position, Coverage, BuffersInv, BytesInv, Harmless,
         CopyChunk \/ ReadChunk
  PROVE  BytesInv'
<1>1. req.pc \in Searching /\ NThreads # 1
  <2>1. req.pc \in Searching /\ NThreads > 1
    BY DEF CopyChunk, ReadChunk, Searching, Finding
  <2>. QED BY <2>1
<1>2. req' = NextChunk
  BY GoodCopy, GoodRead
<1>3. Coverage'
  BY CopyChunkPieces, ReadChunkPieces
<1>4. Typed'
  BY CopyChunkTyped, ReadChunkTyped
<1>5. ASSUME NEW i \in Slots, NEW s \in Structure, Assigned(i, s)
      PROVE  \A j \in Slots : slot'[j] = slot[j]
                              \/ (slot'[j].launched /\ slot'[j].job # "none")
  BY <1>5 DEF Assigned, Typed
<1>6. \A j \in Slots : slot'[j] = slot[j]
                       \/ (slot'[j].launched /\ slot'[j].job # "none")
  BY <1>5, GoodCopy, GoodRead
<1>. QED BY <1>1, <1>2, <1>3, <1>4, <1>6, NextChunkBytes

LEMMA StartBatchBytes ==
  ASSUME Typed, SlotsInv, BytesInv, StartBatch
  PROVE  BytesInv'
<1>1. slot' = slot /\ req.pc = "batch"
  BY DEF StartBatch
<1>2. CASE req.left = 0
  <2>1. /\ req'.from = req.from /\ req'.size = req.size /\ req'.out = req.out
        /\ req'.read = req.read /\ req'.got = req.got /\ req'.failed = req.failed
        /\ req'.pc = "done"
    BY <1>2, ReturnedFields DEF StartBatch
  <2>. QED BY <1>1, <2>1, SameBytes
<1>3. CASE req.left # 0
  <2>1. /\ req'.from = req.from /\ req'.size = req.size /\ req'.out = req.out
        /\ req'.read = req.read /\ req'.pc = "chunk"
    BY <1>3, StartBatchFields DEF Begun, Typed
  <2>2. Launched' = {}
    BY <1>1 DEF SlotsInv, Launched
  <2>3. \A x : Correct(x)' = Correct(x)
    BY <2>1 DEF Correct
  <2>. QED BY <2>1, <2>2, <2>3, SameUndamaged DEF BytesInv
<1>. QED BY <1>2, <1>3

\* The steps that look for the chunk: an error fails the batch.
LEMMA SearchBytes ==
  ASSUME NThreads # 1, Typed, BuffersInv, BytesInv,
         \/ Miss \/ TableFits \/ JoinCrashes \/ ReleaseTable \/ CloseSegment
         \/ OpenSegment \/ LoadTable
  PROVE  BytesInv'
<1>1. slot' = slot
  BY DEF Miss, TableFits, JoinCrashes, ReleaseTable, CloseSegment, OpenSegment, LoadTable
<1>2. CASE req' = req
  BY <1>1, <1>2, SameBytes
<1>3. CASE req' = Failed
  BY <1>1, <1>3, FailedFields, SameBytes
<1>4. ASSUME NEW pc \in Finding, req' = [req EXCEPT !.pc = pc]
      PROVE  BytesInv'
  BY <1>1, <1>4, PcFields, SameBytes DEF PCs, Searching, Finding
<1>5. ~JoinCrashes
  BY DEF JoinCrashes, BuffersInv
<1>. QED BY <1>2, <1>3, <1>4, <1>5
     DEF Miss, TableFits, ReleaseTable, CloseSegment, OpenSegment, LoadTable, Finding

LEMMA JoinBytes ==
  ASSUME Typed, Position, Coverage, BuffersInv, BytesInv, Join
  PROVE  BytesInv'
<1>1. PICK i \in Slots :
        /\ i \in Launched /\ slot[i].job \in {"none", "missing"}
        /\ slot' = [slot EXCEPT ![i].launched = FALSE, ![i].job = "none"]
        /\ req' = Joined(req, slot[i])
  BY DEF Join, First
<1>2. slot[i].job = "none"
  BY <1>1 DEF BuffersInv
<1>3. \A j \in Slots : /\ slot'[j].to = slot[j].to /\ slot'[j].Len = slot[j].Len
                       /\ slot'[j].launched = (slot[j].launched /\ j # i)
                       /\ slot'[j].job = slot[j].job
  <2>. DEFINE s == [slot[i] EXCEPT !.launched = FALSE, !.job = "none"]
  <2>1. /\ s.to = slot[i].to /\ s.Len = slot[i].Len /\ s.launched = FALSE
        /\ s.job = "none"
    BY DEF Typed, Structure
  <2>2. slot' = [slot EXCEPT ![i] = s]
    BY <1>1 DEF Typed
  <2>. HIDE DEF s
  <2>3. \A j \in Slots : slot'[j] = IF j = i THEN s ELSE slot[j]
    BY <2>2 DEF Typed
  <2>4. \A j \in Slots : slot[j].launched \in BOOLEAN
    BY DEF Typed, Structure
  <2>. QED BY <1>2, <2>1, <2>3, <2>4
<1>4. /\ req'.pc = "join" /\ req.pc = "join"
      /\ req'.from = req.from /\ req'.size = req.size
      /\ req'.read = req.read /\ req'.out = req.out
      /\ req'.got = req.got + slot[i].Len
      /\ req'.failed = (req.failed \/ ~slot[i].ok)
  BY <1>1, JoinFields DEF Join
<1>5. \A x : Correct(x)' = Correct(x)
  BY <1>4 DEF Correct
<1>6. CASE req'.failed
  BY <1>4, <1>5, <1>6, SameUndamaged DEF BytesInv
<1>7. CASE ~req'.failed
  <2>1. SUFFICES ASSUME WantsUndamaged PROVE
          /\ \A j \in Launched' :
               slot'[j].job = "none" => \A x \in Cells(j)' : Correct(x)'
          /\ \A x \in 0..req'.read-1 : Correct(x)'
          /\ \A x \in (req'.read .. CoveredEnd' - 1) \ LaunchedCells' : Correct(x)'
    BY <1>4, SameUndamaged DEF BytesInv
  <2>2. ~req.failed
    BY <1>4, <1>7
  <2>3. /\ \A j \in Launched : slot[j].job = "none" => \A x \in Cells(j) : Correct(x)
        /\ \A x \in 0..req.read-1 : Correct(x)
        /\ \A x \in (req.read .. CoveredEnd - 1) \ LaunchedCells : Correct(x)
    BY <1>4, <2>1, <2>2 DEF BytesInv
  <2>4. Launched' = Launched \ {i} /\ \A j \in Slots : Cells(j)' = Cells(j)
    BY <1>3 DEF Launched, Cells
  <2>5. NThreads # 1
    BY <1>4 DEF Position
  <2>6. /\ \A j, k \in Launched : j # k => Cells(j) \cap Cells(k) = {}
        /\ slot[i].Len > 0 /\ IsFiniteSet(LaunchedCells)
    BY <1>1, <1>4, <2>2, <2>5 DEF Coverage
  <2>7. LaunchedCells' = LaunchedCells \ Cells(i) /\ CoveredEnd' = CoveredEnd
    BY <1>1, <1>4, <2>4, <2>6, JoinedCells
  <2>8. \A x \in Cells(i) : Correct(x)
    BY <1>1, <1>2, <2>3
  <2>. QED BY <1>3, <1>4, <1>5, <2>3, <2>4, <2>7, <2>8 DEF Launched
<1>. QED BY <1>6, <1>7

LEMMA EndBatchBytes ==
  ASSUME Typed, BytesInv, EndBatch
  PROVE  BytesInv'
<1>1. slot' = slot /\ req.pc = "join" /\ Launched = {} /\ Launched' = {}
  BY DEF EndBatch, Launched
<1>2. CASE req.failed
  <2>1. /\ req'.from = req.from /\ req'.size = req.size /\ req'.out = req.out
        /\ req'.read = req.read /\ req'.failed = req.failed
    BY <1>2, ReturnedFields DEF EndBatch
  <2>. QED BY <1>1, <1>2, <2>1, SameBytes
<1>3. CASE ~req.failed
  <2>1. /\ req'.from = req.from /\ req'.size = req.size /\ req'.out = req.out
        /\ req'.pc = "batch" /\ req'.read = req.read + req.got
    BY <1>3, EndBatchFields
  <2>2. SUFFICES ASSUME \A x \in 0..req.read-1 : Correct(x),
                        \A x \in (req.read .. CoveredEnd - 1) \ LaunchedCells : Correct(x)
                 PROVE  \A x \in 0..req'.read-1 : Correct(x)'
    BY <1>1, <1>3, <2>1, SameUndamaged DEF BytesInv
  <2>3. LaunchedCells = {} /\ req.read \in Int /\ req.got \in Int
    BY <1>1 DEF LaunchedCells, Typed, Call
  <2>4. CoveredEnd = req.read + req.got
    BY <2>3, FS_EmptySet DEF CoveredEnd
  <2>5. \A x \in 0..req'.read-1 : Correct(x)
    BY <2>1, <2>2, <2>3, <2>4
  <2>6. \A x : Correct(x)' = Correct(x)
    BY <2>1 DEF Correct
  <2>. QED BY <2>5, <2>6
<1>. QED BY <1>2, <1>3

LEMMA AewfReadBytes ==
  ASSUME Typed, SlotsInv, NEW from \in 0..ImageSize, NEW count \in 1..ImageSize,
         AewfRead(from, count)
  PROVE  BytesInv'
<1>1. req'.pc \in {"done", "batch"} /\ req'.read = 0
  BY AewfReadFields DEF Accepted
<1>2. Launched' = {}
  BY DEF AewfRead, SlotsInv, Launched
<1>3. 0..req'.read-1 = {}
  BY <1>1
<1>. QED BY <1>1, <1>2, <1>3 DEF BytesInv

\* A thread copies what it should, or nothing, and only to its own part.
LEMMA WorkCopiesImage ==
  ASSUME Typed, Position, BuffersInv, PlacedInv, WantsUndamaged, NEW i \in Slots,
         Work(i), slot[i].launched
  PROVE  \A x \in 0..req.size-1 : (x \in Cells(i) \/ Correct(x)) => Correct(x)'
<1>. DEFINE c == slot[i].ChunkInBuff
            d == WorkData(i)
            to == slot[i].to
            ofs == slot[i].Ofs
            m == slot[i].Len
<1>1. /\ req.from \in Nat /\ req.size \in Nat
      /\ to \in Int /\ ofs \in Nat /\ ofs < ChunkSize /\ m \in Int
      /\ DOMAIN req.out = 0..req.size-1
  <2>1. req.from \in Nat /\ req.size \in Nat /\ DOMAIN req.out = 0..req.size-1
    BY DEF Typed, Call
  <2>2. to \in Int /\ m \in Int /\ ofs \in 0..ChunkSize-1
    BY DEF Typed, Structure
  <2>3. ofs \in Nat /\ ofs < ChunkSize
    BY <2>2, AewfSizes
  <2>. QED BY <2>1, <2>2, <2>3
<1>2. /\ c \in Chunks /\ c * ChunkSize + ofs = req.from + to
      /\ to >= 0 /\ to + m <= req.size /\ req.from + req.size <= ImageSize
  BY DEF PlacedInv, Position
<1>3. c \in Nat /\ c # None
  BY <1>2, ChunkCountType DEF Chunks, None
<1>4. \/ req' = req
      \/ req' = [req EXCEPT !.out = Copied(req.out, to, d, ofs, m)]
  BY DEF Work, WorkData
<1>5. req'.from = req.from
  BY WorkFields
<1>6. CASE m > 0
  <2>1. c \notin Damaged
    <3>1. to \in 0..req.size-1
      BY <1>1, <1>2, <1>6
    <3>2. (c * ChunkSize + ofs) \div ChunkSize = c
      BY <1>1, <1>3, ChunkOfCell
    <3>. QED BY <1>2, <3>1, <3>2 DEF WantsUndamaged
  <2>2. d = c
    BY <1>3, <2>1 DEF BuffersInv, WorkData
  <2>3. req'.out = Copied(req.out, to, c, ofs, m)
    <3>1. req' = [req EXCEPT !.out = Copied(req.out, to, c, ofs, m)]
      BY <1>3, <2>2 DEF Work, WorkData
    <3>. QED BY <3>1 DEF Typed, Call
  <2>4. ASSUME NEW x \in 0..req.size-1
        PROVE  Copied(req.out, to, c, ofs, m)[x]
                 = IF x \in to..to+m-1 THEN req.from + x ELSE req.out[x]
    <3>1. to \in Nat
      BY <1>1, <1>2
    <3>2. \A t \in Nat, k \in Nat, o \in Nat, n \in Int :
            k # None /\ k * ChunkSize + o = req.from + t
              => Copied(req.out, t, k, o, n)[x]
                   = IF x \in t..t+n-1 THEN req.from + x ELSE req.out[x]
      BY <1>2, CopiedRight
    <3>. HIDE DEF c, to, ofs, m
    <3>. QED BY <1>1, <1>2, <1>3, <3>1, <3>2
  <2>5. Cells(i) = to..to+m-1
    BY DEF Cells
  <2>. HIDE DEF c, d, to, ofs, m
  <2>. QED BY <1>5, <2>3, <2>4, <2>5 DEF Correct
<1>7. CASE ~(m > 0)
  <2>1. to..to+m-1 = {}
    BY <1>1, <1>7
  <2>2. \A x \in 0..req.size-1 : req'.out[x] = req.out[x]
    <3>1. CASE req' = req
      BY <3>1
    <3>2. CASE req' = [req EXCEPT !.out = Copied(req.out, to, d, ofs, m)]
      <4>1. req'.out = Copied(req.out, to, d, ofs, m)
        BY <3>2 DEF Typed, Call
      <4>. HIDE DEF d, to, ofs, m
      <4>. QED BY <1>1, <2>1, <4>1 DEF Copied
    <3>. QED BY <1>4, <3>1, <3>2
  <2>3. Cells(i) = {}
    BY <2>1 DEF Cells
  <2>. QED BY <1>5, <2>2, <2>3 DEF Correct
<1>. QED BY <1>6, <1>7

LEMMA WorkBytes ==
  ASSUME NThreads # 1, Typed, SlotsInv, Position, Coverage, BuffersInv, PlacedInv,
         BytesInv, NEW i \in Slots, Work(i)
  PROVE  BytesInv'
<1>1. /\ req'.pc = req.pc /\ req'.from = req.from /\ req'.size = req.size
      /\ req'.read = req.read /\ req'.got = req.got /\ req'.failed = req.failed
  BY WorkFields
<1>2. slot[i].launched /\ req.pc \in Searching \cup {"join"}
  <2>1. slot[i].launched
    BY DEF Work, SlotsInv
  <2>2. req.pc \in PCs /\ req.pc # "dead"
    BY DEF Typed, Call, BuffersInv
  <2>. QED BY <2>1, <2>2 DEF SlotsInv, PCs
<1>3. SUFFICES ASSUME WantsUndamaged PROVE
        /\ \A x \in 0..req'.read-1 : Correct(x)'
        /\ ~req'.failed =>
             /\ \A j \in Launched' :
                  slot'[j].job = "none" => \A x \in Cells(j)' : Correct(x)'
             /\ req'.pc = "join" =>
                  \A x \in (req'.read .. CoveredEnd' - 1) \ LaunchedCells' : Correct(x)'
  BY <1>1, SameUndamaged DEF BytesInv
<1>4. /\ \A x \in 0..req.read-1 : Correct(x)
      /\ ~req.failed =>
           /\ \A j \in Launched : slot[j].job = "none" => \A x \in Cells(j) : Correct(x)
           /\ req.pc = "join" =>
                \A x \in (req.read .. CoveredEnd - 1) \ LaunchedCells : Correct(x)
  BY <1>3 DEF BytesInv
<1>5. /\ Launched' = Launched /\ \A j \in Slots : Cells(j)' = Cells(j)
      /\ LaunchedCells' = LaunchedCells
  <2>1. Launched' = Launched
    BY WorkSlot DEF Launched
  <2>2. \A j \in Slots : Cells(j)' = Cells(j)
    BY WorkSlot DEF Cells
  <2>. QED BY <2>1, <2>2 DEF LaunchedCells, Launched
<1>6. CoveredEnd' = CoveredEnd
  BY <1>1, <1>5 DEF CoveredEnd
<1>7. \A x \in 0..req.size-1 : (x \in Cells(i) \/ Correct(x)) => Correct(x)'
  BY <1>2, <1>3, WorkCopiesImage
<1>8. req.size \in Nat /\ req.read \in Int /\ 0 <= req.read /\ req.read <= req.size
  BY DEF Typed, Call, Position
<1>9. \A j \in Launched : Cells(j) \subseteq 0..req.size-1
  <2>. SUFFICES ASSUME NEW j \in Launched PROVE Cells(j) \subseteq 0..req.size-1
    OBVIOUS
  <2>1. j \in Slots /\ slot[j].launched
    BY DEF Launched
  <2>2. slot[j].to \in Int /\ slot[j].Len \in Int
    BY <2>1 DEF Typed, Structure
  <2>3. slot[j].to >= 0 /\ slot[j].to + slot[j].Len <= req.size
    BY <2>1 DEF Position, PlacedInv
  <2>. QED BY <1>8, <2>2, <2>3 DEF Cells
<1>10. ASSUME ~req'.failed, NEW j \in Launched', slot'[j].job = "none"
       PROVE  \A x \in Cells(j)' : Correct(x)'
  <2>1. j \in Slots /\ j \in Launched /\ Cells(j)' = Cells(j)
    BY <1>5, <1>10 DEF Launched
  <2>2. CASE j = i
    BY <1>7, <1>9, <2>1, <2>2
  <2>3. CASE j # i
    <3>1. slot'[j] = slot[j]
      BY <2>1, <2>3, WorkSlot
    <3>. QED BY <1>1, <1>4, <1>7, <1>9, <1>10, <2>1, <3>1
  <2>. QED BY <2>2, <2>3
<1>11. \A x \in 0..req'.read-1 : Correct(x)'
  BY <1>1, <1>4, <1>7, <1>8
<1>12. ASSUME ~req'.failed, req'.pc = "join",
              NEW x \in (req'.read .. CoveredEnd' - 1) \ LaunchedCells'
       PROVE  Correct(x)'
  <2>1. /\ req.pc = "join" /\ ~req.failed
        /\ x \in (req.read .. CoveredEnd - 1) \ LaunchedCells
    BY <1>1, <1>5, <1>6, <1>12
  <2>2. CoveredEnd <= req.size /\ CoveredEnd \in Int
    <3>1. Cardinality(LaunchedCells) \in Nat
      BY <2>1, FS_CardinalityType DEF Coverage
    <3>2. req.got \in Int
      BY DEF Typed, Call
    <3>. QED BY <1>8, <2>1, <3>1, <3>2 DEF Coverage, CoveredEnd
  <2>3. x \in 0..req.size-1
    BY <1>8, <2>1, <2>2
  <2>. QED BY <1>4, <1>7, <2>1, <2>3
<1>. QED BY <1>10, <1>11, <1>12

LEMMA NextBytes ==
  ASSUME NThreads # 1, Typed, SlotsInv, Position, Coverage, BuffersInv, PlacedInv,
         BytesInv, Harmless, [Next]_vars
  PROVE  BytesInv'
<1>1. CASE UNCHANGED vars
  BY <1>1, SameBytes DEF vars
<1>2. ASSUME NEW from \in 0..ImageSize, NEW count \in 1..ImageSize,
             AewfRead(from, count)
      PROVE  BytesInv'
  BY <1>2, AewfReadBytes
<1>3. CASE Step
  <2>1. ~CopyLegacy /\ ~ReadLegacy
    BY DEF CopyLegacy, ReadLegacy
  <2>. QED BY <1>3, <2>1, StartBatchBytes, SearchBytes, ThreadsBytes, JoinBytes,
              EndBatchBytes DEF Step
<1>4. ASSUME NEW i \in Slots, Work(i) PROVE BytesInv'
  BY <1>4, WorkBytes
<1>. QED BY <1>1, <1>2, <1>3, <1>4 DEF Next

\* What ReadBytesAreTheImages says, of the calls that want no damaged chunk.
UndamagedBytesAreTheImages ==
  (req.pc = "done" /\ WantsUndamaged) =>
    \A x \in 0..req.read-1 : req.out[x] = req.from + x

\* With threads, and segment files that fail to open or have changed their
\* size, the bytes that a read of undamaged chunks says it got are the image's,
\* whatever else is damaged, whatever failed before and in whatever order the
\* threads of a batch run: AewfReadMT counts the bytes of a batch only when
\* none of its chunks failed.
THEOREM ThreadsReadUndamaged ==
  ASSUME NThreads # 1, Harmless
  PROVE  Spec => []UndamagedBytesAreTheImages
<1>. DEFINE Inv == Position /\ Coverage /\ BuffersInv /\ PlacedInv /\ BytesInv
<1>1. Inv => UndamagedBytesAreTheImages
  BY DEF BytesInv, UndamagedBytesAreTheImages, Correct
<1>2. Init => Inv
  BY InitPieces, InitBuffers, InitBytes
<1>3. Typed /\ SlotsInv /\ Inv /\ [Next]_vars => Inv'
  BY NextPieces, NextBuffers, NextBytes
<1>. HIDE DEF Inv
<1>. QED BY <1>1, <1>2, <1>3, AlwaysTyped, AlwaysSlots, PTL DEF Spec

\* If no chunk is damaged, that is every read.  A damaged chunk, or one that
\* fseek, fread or pthread_create failed for, keeps its number on the buffer of
\* its thread structure: the next read finds it there, and copies what it finds.
THEOREM ThreadsReadTheImage ==
  ASSUME NThreads # 1, Harmless, Damaged = {}
  PROVE  Spec => []ReadBytesAreTheImages
<1>1. UndamagedBytesAreTheImages => ReadBytesAreTheImages
  BY DEF UndamagedBytesAreTheImages, ReadBytesAreTheImages, WantsUndamaged
<1>. QED BY <1>1, ThreadsReadUndamaged, PTL

-----------------------------------------------------------------------------
(* The memory for tables                                                   *)

\* Numbers of 64 bits are enough for aewfmaxmem or a table, and one more table.
MemoryIsCountable ==
  \A t \in Tables : /\ MaxTableCache + TableSize[t] < Word
                    /\ \A u \in Tables : TableSize[u] + TableSize[t] < Word

\* No more is loaded than aewfmaxmem allows, or else a single table; a table
\* that was found to fit still fits when it is read.
MemoryInv ==
  /\ TableCache = Total(TableSize, Loaded)
  /\ TableCache <= MaxTableCache \/ \E t \in Tables : Loaded = {t}
  /\ (req.pc \in {"segment", "read"} /\ Table \notin Loaded) =>
       Loaded = {} \/ TableCache + TableSize[Table] <= MaxTableCache

LEMMA TableSizes ==
  /\ IsFiniteSet(Tables)
  /\ \A t \in Tables : TableSize[t] \in Nat
  /\ TableSize \in [Tables -> Nat]
  BY AewfLayout

LEMMA OneTable == ASSUME NEW t \in Tables PROVE Total(TableSize, {t}) = TableSize[t]
<1>1. {t} \in SUBSET Tables /\ {t} \ {t} = {}
  OBVIOUS
<1>2. Total(TableSize, {t}) = TableSize[t] + Total(TableSize, {t} \ {t})
  BY <1>1, TableSizes, TotalWithout
<1>. QED BY <1>1, <1>2, TableSizes, TotalOfNothing

\* Counting one more table or one less does not leave the 64 bits.
LEMMA MemoryArithmetic ==
  ASSUME MemoryIsCountable, Typed, MemoryInv, NEW t \in Tables
  PROVE  /\ Plus(TableCache, TableSize[t]) = TableCache + TableSize[t]
         /\ TableSize[t] <= TableCache =>
              Minus(TableCache, TableSize[t]) = TableCache - TableSize[t]
<1>1. TableCache \in Nat /\ TableCache < Word /\ TableSize[t] \in Nat
      /\ MaxTableCache \in Nat /\ Word \in Nat \ {0}
  BY TableSizes, AewfSizes DEF Typed
<1>2. TableCache + TableSize[t] < Word
  <2>1. CASE TableCache <= MaxTableCache
    <3>1. MaxTableCache + TableSize[t] < Word
      BY DEF MemoryIsCountable
    <3>. QED BY <1>1, <2>1, <3>1
  <2>2. CASE \E u \in Tables : Loaded = {u}
    <3>1. PICK u \in Tables : Loaded = {u}
      BY <2>2
    <3>2. TableCache = TableSize[u]
      BY <3>1, OneTable DEF MemoryInv
    <3>. QED BY <3>2 DEF MemoryIsCountable
  <2>. QED BY <2>1, <2>2 DEF MemoryInv
<1>3. \A x \in Nat : x < Word => x % Word = x
  BY <1>1
<1>4. \A x \in Nat : x < Word => (x + Word) % Word = x
  BY <1>1
<1>5. PICK c \in Nat, s \in Nat : c = TableCache /\ s = TableSize[t]
  BY <1>1
<1>6. Plus(c, s) = c + s
  BY <1>2, <1>3, <1>5 DEF Plus
<1>7. s <= c => Minus(c, s) = c - s
  <2>. SUFFICES ASSUME s <= c PROVE Minus(c, s) = c - s
    OBVIOUS
  <2>1. s % Word = s
    BY <1>1, <1>3, <1>5
  <2>2. c - s \in Nat /\ c - s < Word /\ c + (Word - s) = (c - s) + Word
    BY <1>1, <1>5
  <2>. QED BY <1>4, <2>1, <2>2 DEF Minus
<1>. QED BY <1>5, <1>6, <1>7

LEMMA LoadedTables == Loaded \in SUBSET Tables
  BY DEF Loaded

LEMMA ReleaseMemory ==
  ASSUME MemoryIsCountable, Typed, MemoryInv, ReleaseTable
  PROVE  MemoryInv'
<1>1. PICK t \in Loaded : /\ TableCache' = Minus(TableCache, TableSize[t])
                          /\ pEwfTable' = [pEwfTable EXCEPT ![t] = "null"]
  BY DEF ReleaseTable, Released
<1>2. Loaded' = Loaded \ {t}
  BY <1>1 DEF Loaded, Typed
<1>3. /\ TableCache = TableSize[t] + Total(TableSize, Loaded \ {t})
      /\ Total(TableSize, Loaded \ {t}) \in Nat
  <2>1. Loaded \ {t} \in SUBSET Tables
    BY LoadedTables
  <2>2. Total(TableSize, Loaded) = TableSize[t] + Total(TableSize, Loaded \ {t})
    BY <1>1, LoadedTables, TableSizes, TotalWithout
  <2>3. Total(TableSize, Loaded \ {t}) \in Nat
    BY <2>1, TableSizes, TotalType
  <2>. QED BY <2>2, <2>3 DEF MemoryInv
<1>4. TableCache \in Nat /\ TableSize[t] \in Nat /\ t \in Tables /\ MaxTableCache \in Nat
  BY <1>1, LoadedTables, TableSizes, AewfSizes DEF Typed
<1>5. TableCache' = TableCache - TableSize[t]
  <2>1. TableSize[t] <= TableCache
    BY <1>3, <1>4
  <2>. QED BY <1>1, <1>4, <2>1, MemoryArithmetic
<1>6. TableCache' = Total(TableSize, Loaded')
  BY <1>2, <1>3, <1>4, <1>5
<1>7. TableCache' <= MaxTableCache \/ \E u \in Tables : Loaded' = {u}
  <2>1. CASE TableCache <= MaxTableCache
    BY <1>4, <1>5, <2>1
  <2>2. CASE \E u \in Tables : Loaded = {u}
    <3>1. Loaded' = {}
      BY <1>1, <1>2, <2>2
    <3>2. TableCache' = 0
      BY <1>6, <3>1, TotalOfNothing
    <3>. QED BY <1>4, <3>2
  <2>. QED BY <2>1, <2>2 DEF MemoryInv
<1>8. req' = req /\ req.pc = "table"
  BY DEF ReleaseTable
<1>. QED BY <1>6, <1>7, <1>8 DEF MemoryInv

LEMMA LoadMemory ==
  ASSUME "table" \notin Faults, MemoryIsCountable, Typed, MemoryInv, LoadTable
  PROVE  MemoryInv'
<1>1. /\ req.pc = "read" /\ Table \notin Loaded /\ req' = req
      /\ pEwfTable' = [pEwfTable EXCEPT ![Table] = "table"]
      /\ TableCache' = Plus(TableCache, TableSize[Table])
  BY DEF LoadTable
<1>2. PICK t \in Tables : t = Table
  BY <1>1, AewfLayout DEF Typed, Table, Finding
<1>3. Loaded' = Loaded \cup {t}
  BY <1>1, <1>2 DEF Loaded, Typed
<1>4. Total(TableSize, Loaded \cup {t}) = TableSize[t] + Total(TableSize, Loaded)
  BY <1>1, <1>2, LoadedTables, TableSizes, TotalWith
<1>5. TableCache \in Nat /\ TableSize[t] \in Nat /\ MaxTableCache \in Nat
  BY TableSizes, AewfSizes DEF Typed
<1>6. TableCache' = TableCache + TableSize[t]
  BY <1>1, <1>2, MemoryArithmetic
<1>7. TableCache' = Total(TableSize, Loaded')
  BY <1>3, <1>4, <1>5, <1>6 DEF MemoryInv
<1>8. TableCache' <= MaxTableCache \/ \E u \in Tables : Loaded' = {u}
  <2>1. CASE Loaded = {}
    BY <1>3, <2>1
  <2>2. CASE Loaded # {}
    BY <1>1, <1>2, <1>6, <2>2 DEF MemoryInv
  <2>. QED BY <2>1, <2>2
<1>9. Table' = Table /\ Table \in Loaded'
  BY <1>1, <1>2, <1>3 DEF Table
<1>. QED BY <1>7, <1>8, <1>9 DEF MemoryInv

LEMMA FitsMemory ==
  ASSUME MemoryIsCountable, Typed, MemoryInv, TableFits
  PROVE  MemoryInv'
<1>1. /\ req.pc = "table" /\ req' = [req EXCEPT !.pc = "segment"]
      /\ TableCache' = TableCache /\ pEwfTable' = pEwfTable
  BY DEF TableFits, UnchangedTables
<1>2. Loaded' = Loaded
  BY <1>1 DEF Loaded
<1>3. Table' = Table
  BY <1>1 DEF Table, Typed, Call
<1>4. PICK t \in Tables : t = Table
  BY <1>1, AewfLayout DEF Typed, Table, Finding
<1>5. Table \notin Loaded => Loaded = {} \/ TableCache + TableSize[t] <= MaxTableCache
  BY <1>4, MemoryArithmetic DEF TableFits
<1>. QED BY <1>1, <1>2, <1>3, <1>4, <1>5 DEF MemoryInv

\* The other steps leave the tables alone, and begin no search for a file.
LEMMA OtherMemory ==
  ASSUME MemoryInv, UnchangedTables,
         req'.pc \in {"segment", "read"} =>
           req.pc \in {"segment", "read"} /\ req'.chunk = req.chunk
  PROVE  MemoryInv'
<1>1. Loaded' = Loaded /\ TableCache' = TableCache
  BY DEF Loaded, UnchangedTables
<1>2. req'.pc \in {"segment", "read"} => Table' = Table
  BY DEF Table
<1>. QED BY <1>1, <1>2 DEF MemoryInv

LEMMA AlwaysMemory ==
  ASSUME "table" \notin Faults, MemoryIsCountable
  PROVE  Spec => []MemoryInv
<1>1. Init => MemoryInv
  <2>. SUFFICES ASSUME Init PROVE MemoryInv
    OBVIOUS
  <2>1. Loaded = {} /\ TableCache = 0 /\ req.pc = "idle"
    BY DEF Init, Loaded
  <2>. QED BY <2>1, TotalOfNothing, AewfSizes DEF MemoryInv
<1>2. Typed /\ MemoryInv /\ [Next]_vars => MemoryInv'
  <2>. SUFFICES ASSUME Typed, MemoryInv, [Next]_vars PROVE MemoryInv'
    OBVIOUS
  <2>1. CASE ReleaseTable
    BY <2>1, ReleaseMemory
  <2>2. CASE LoadTable
    BY <2>2, LoadMemory
  <2>3. CASE TableFits
    BY <2>3, FitsMemory
  <2>4. CASE OpenSegment
    <3>1. \/ req' = [req EXCEPT !.pc = "read"] \/ req' = Failed
      BY <2>4 DEF OpenSegment
    <3>2. req'.pc = "read" => req'.chunk = req.chunk
      BY <3>1, FailedFields, PcFields DEF PCs, Searching, Finding
    <3>3. req.pc = "segment" /\ req'.pc # "segment" /\ UnchangedTables
      BY <2>4, <3>1, FailedFields, PcFields DEF OpenSegment, PCs, Searching, Finding
    <3>. QED BY <3>2, <3>3, OtherMemory
  <2>5. CASE CloseSegment \/ UNCHANGED vars
    BY <2>5, OtherMemory DEF CloseSegment, vars, UnchangedTables
  <2>6. CASE StartBatch \/ Miss
    <3>1. \/ req' = [req EXCEPT !.pc = "table"] \/ req' = Failed
          \/ req' = Returned(req) \/ req' = Begun(BatchSize)
      BY <2>6, StartBatchFields DEF StartBatch, Miss, Typed
    <3>2. req'.pc \notin {"segment", "read"}
      BY <3>1, FailedFields, ReturnedFields, PcFields DEF PCs, Searching, Finding, Begun
    <3>. QED BY <2>6, <3>2, OtherMemory DEF StartBatch, Miss
  <2>7. CASE Join \/ EndBatch
    <3>1. req'.pc \notin {"segment", "read"}
      <4>1. CASE Join
        BY <4>1, JoinFields DEF Join
      <4>2. CASE EndBatch
        BY <4>2, EndBatchFields, ReturnedFields DEF EndBatch
      <4>. QED BY <2>7, <4>1, <4>2
    <3>. QED BY <2>7, <3>1, OtherMemory DEF Join, EndBatch
  <2>8. CASE JoinCrashes
    <3>1. req'.pc = "dead"
      BY <2>8, PcFields DEF JoinCrashes, PCs
    <3>. QED BY <2>8, <3>1, OtherMemory DEF JoinCrashes
  <2>9. CASE CopyChunk \/ ReadChunk
    <3>1. req' = Failed \/ req' = NextChunk
      BY <2>9 DEF CopyChunk, ReadChunk
    <3>2. req'.pc \notin {"segment", "read"}
      BY <3>1, FailedFields, NextChunkFields
    <3>. QED BY <2>9, <3>2, OtherMemory DEF CopyChunk, ReadChunk
  <2>10. CASE CopyLegacy
    <3>1. req'.pc \notin {"segment", "read"}
      BY <2>10, CopyLegacyFields DEF Served
    <3>. QED BY <2>10, <3>1, OtherMemory DEF CopyLegacy
  <2>11. CASE ReadLegacy
    <3>1. req' = Failed \/ req' = [req EXCEPT !.pc = "chunk"]
      BY <2>11 DEF ReadLegacy
    <3>2. req'.pc \notin {"segment", "read"}
      BY <3>1, FailedFields, PcFields DEF PCs, Searching, Finding
    <3>. QED BY <2>11, <3>2, OtherMemory DEF ReadLegacy
  <2>12. ASSUME NEW from \in 0..ImageSize, NEW count \in 1..ImageSize,
                AewfRead(from, count)
         PROVE  MemoryInv'
    <3>1. req'.pc \notin {"segment", "read"}
      BY <2>12, AewfReadFields DEF Accepted
    <3>. QED BY <2>12, <3>1, OtherMemory DEF AewfRead
  <2>13. ASSUME NEW i \in Slots, Work(i) PROVE MemoryInv'
    BY <2>13, WorkFields, OtherMemory DEF Work
  <2>. QED BY <2>1, <2>2, <2>3, <2>4, <2>5, <2>6, <2>7, <2>8, <2>9, <2>10, <2>11,
              <2>12, <2>13 DEF Next, Step
<1>. QED BY <1>1, <1>2, AlwaysTyped, PTL DEF Spec

\* Unless a table cannot be read, the memory counted for tables is what those
\* that are loaded take: AewfLoadEwfTable releases and loads them without losing
\* count, whatever sizes they have and whichever of them go.
THEOREM TableMemoryCounted ==
  ASSUME "table" \notin Faults, MemoryIsCountable
  PROVE  Spec => []TableCacheCounted
<1>1. MemoryInv => TableCacheCounted
  BY DEF MemoryInv, TableCacheCounted, Total
<1>. QED BY <1>1, AlwaysMemory, PTL

\* Then the tables never take more than aewfmaxmem, but for one that alone is
\* larger.
TableMemoryLimited ==
  \/ MapThenSumSet(LAMBDA t : TableSize[t], Loaded) <= MaxTableCache
  \/ \E t \in Tables : Loaded = {t}

THEOREM TableMemoryKept ==
  ASSUME "table" \notin Faults, MemoryIsCountable
  PROVE  Spec => []TableMemoryLimited
<1>1. MemoryInv => TableMemoryLimited
  BY DEF MemoryInv, TableMemoryLimited, Total
<1>. QED BY <1>1, AlwaysMemory, PTL
=============================================================================
