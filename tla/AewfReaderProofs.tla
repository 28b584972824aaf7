--------------------------- MODULE AewfReaderProofs ---------------------------
(***************************************************************************)
(* Proofs about AewfReader, for every number of threads, every image, chunk *)
(* size, layout and limit: the variables keep their types, threads and      *)
(* buffers do not get into each other's way, and reads of good chunks       *)
(* deliver the image.                                                       *)
(***************************************************************************)
EXTENDS AewfReader, FiniteSetTheorems, TLAPS

-----------------------------------------------------------------------------
(* Arithmetic of chunks                                                    *)

\* Quotient and remainder by the chunk size.
LEMMA DivMod ==
  ASSUME NEW f \in Nat
  PROVE  /\ f \div ChunkSize \in Nat
         /\ f % ChunkSize \in 0..ChunkSize-1
         /\ f = ChunkSize * (f \div ChunkSize) + (f % ChunkSize)
  BY AewfSizes

\* A product with the chunk size grows by the chunk size.
LEMMA NextMultiple ==
  ASSUME NEW c \in Int
  PROVE  /\ c * ChunkSize \in Int
         /\ (c + 1) * ChunkSize = c * ChunkSize + ChunkSize
  BY AewfSizes

LEMMA Monotone ==
  ASSUME NEW c \in Int, NEW d \in Int, c <= d
  PROVE  c * ChunkSize <= d * ChunkSize
<1>1. d * ChunkSize - c * ChunkSize = (d - c) * ChunkSize
  BY AewfSizes
<1>2. (d - c) * ChunkSize >= 0
  BY AewfSizes
<1>. QED BY <1>1, <1>2, AewfSizes

\* A cell lies in one chunk only.
LEMMA ChunkOfCell ==
  ASSUME NEW c \in Nat, NEW o \in Nat, o < ChunkSize
  PROVE  (c * ChunkSize + o) \div ChunkSize = c
<1>. DEFINE f == c * ChunkSize + o
            q == f \div ChunkSize
            r == f % ChunkSize
<1>1. f \in Nat /\ q \in Nat /\ r \in 0..ChunkSize-1 /\ f = q * ChunkSize + r
  BY DivMod, AewfSizes
<1>2. ~(q < c)
  <2>. SUFFICES ASSUME q + 1 <= c PROVE FALSE
    BY <1>1
  <2>1. (q + 1) * ChunkSize <= c * ChunkSize
    BY Monotone, <1>1
  <2>2. (q + 1) * ChunkSize = q * ChunkSize + ChunkSize
    BY NextMultiple, <1>1
  <2>. HIDE DEF f, q, r
  <2>3. q * ChunkSize \in Int /\ c * ChunkSize \in Int
    BY NextMultiple, <1>1
  <2>. QED BY <1>1, <2>1, <2>2, <2>3, AewfSizes DEF f
<1>3. ~(c < q)
  <2>. SUFFICES ASSUME c + 1 <= q PROVE FALSE
    BY <1>1
  <2>1. (c + 1) * ChunkSize <= q * ChunkSize
    BY Monotone, <1>1
  <2>2. (c + 1) * ChunkSize = c * ChunkSize + ChunkSize
    BY NextMultiple
  <2>. HIDE DEF q, r
  <2>3. q * ChunkSize \in Int /\ c * ChunkSize \in Int
    BY NextMultiple, <1>1
  <2>. QED BY <1>1, <2>1, <2>2, <2>3, AewfSizes DEF f
<1>. QED BY <1>1, <1>2, <1>3

LEMMA ChunkCountType == ChunkCount \in Nat
  BY DivMod, AewfSizes DEF ChunkCount

\* A cell of the image lies in one of its chunks.
LEMMA ChunkInImage ==
  ASSUME NEW c \in Nat, NEW o \in Nat, c * ChunkSize + o < ImageSize
  PROVE  c \in Chunks /\ c < ChunkCount
<1>. DEFINE Q == ImageSize \div ChunkSize
            R == ImageSize % ChunkSize
<1>1. Q \in Nat /\ R \in 0..ChunkSize-1 /\ ImageSize = Q * ChunkSize + R
  BY DivMod, AewfSizes
<1>2. ChunkCount = IF R # 0 THEN Q + 1 ELSE Q
  BY <1>1 DEF ChunkCount
<1>3. c * ChunkSize \in Nat /\ Q * ChunkSize \in Nat
  BY <1>1, AewfSizes
<1>4. c <= Q
  <2>. SUFFICES ASSUME Q + 1 <= c PROVE FALSE
    BY <1>1
  <2>1. (Q + 1) * ChunkSize <= c * ChunkSize
    BY Monotone, <1>1
  <2>2. (Q + 1) * ChunkSize = Q * ChunkSize + ChunkSize
    BY NextMultiple, <1>1
  <2>. HIDE DEF Q, R
  <2>. QED BY <1>1, <1>3, <2>1, <2>2, AewfSizes
<1>5. R = 0 => c # Q
  <2>. HIDE DEF Q, R
  <2>. QED BY <1>1, <1>3, AewfSizes
<1>. HIDE DEF Q, R
<1>6. c < ChunkCount
  BY <1>1, <1>2, <1>4, <1>5
<1>. QED BY <1>6, ChunkCountType DEF Chunks

\* uint64_t arithmetic stays in its range.
LEMMA WordType ==
  ASSUME NEW x \in 0..Word-1, NEW y \in Nat
  PROVE  Plus(x, y) \in 0..Word-1 /\ Minus(x, y) \in 0..Word-1
<1>1. /\ y % Word \in 0..Word-1
      /\ x + y \in Nat
  BY AewfSizes
<1>2. x + (Word - (y % Word)) \in Nat
  BY <1>1, AewfSizes
<1>3. \A z \in Nat : z % Word \in 0..Word-1
  BY AewfSizes
<1>. QED BY <1>1, <1>2, <1>3 DEF Plus, Minus

-----------------------------------------------------------------------------
(* Types                                                                   *)

Finding == {"table", "segment", "read"}
Searching == Finding \cup {"chunk"}
PCs == Searching \cup {"idle", "batch", "join", "done", "dead"}
Jobs == {"none", "uncompress", "crc", "copy", "missing"}

\* The types that hold whatever the numbers add up to.
Structure ==
  [launched : BOOLEAN, job : Jobs,
   ChunkInBuff : Buffer, uncompressed : Buffer, compressed : Buffer,
   to : Int, Ofs : 0..ChunkSize-1, Len : Int, ok : BOOLEAN]

Call ==
  [pc : PCs, from : Nat, size : Nat, seek : Int, left : Int, read : Int,
   out : {req.out}, chunk : Int, Ofs : 0..ChunkSize-1, togo : Int, to : Int,
   got : Int, failed : BOOLEAN, ok : BOOLEAN]

\* A chunk whose table is looked for is in one.
Typed ==
  /\ pEwfTable \in [Tables -> {"null", "table", "garbage"}]
  /\ TableCache \in 0..Word-1
  /\ pFile \subseteq Segments
  /\ OpenSegments \in 0..Word-1
  /\ slot \in [Slots -> Structure]
  /\ req \in Call
  /\ req.out \in [0..req.size-1 -> 0..ImageSize]
  /\ req.pc \in Finding => req.chunk \in DOMAIN TableOf

LEMMA SmallerInt ==
  ASSUME NEW x \in Int, NEW y \in Int
  PROVE  /\ Smaller(x, y) \in Int
         /\ Smaller(x, y) <= x /\ Smaller(x, y) <= y
         /\ Smaller(x, y) \in {x, y}
  BY DEF Smaller

LEMMA WantedInt == ASSUME Typed PROVE Wanted \in Int
<1>1. req.Ofs \in Int /\ req.togo \in Int
  BY AewfSizes DEF Typed, Call
<1>. QED BY <1>1, AewfSizes DEF Wanted, Smaller

\* What the steps make of the call has its type.
LEMMA NextChunkTyped ==
  ASSUME Typed
  PROVE  NextChunk \in Call /\ NextChunk.pc \in {"join", "chunk"}
         /\ NextChunk.out = req.out /\ NextChunk.size = req.size
<1>1. req \in Call
  BY DEF Typed
<1>2. /\ req.togo - Wanted \in Int /\ req.to + Wanted \in Int
      /\ req.chunk + 1 \in Int /\ 0 \in 0..ChunkSize-1
  BY <1>1, WantedInt, AewfSizes DEF Call
<1>. QED BY <1>1, <1>2 DEF Call, NextChunk, PCs, Searching

LEMMA FailedTyped ==
  ASSUME Typed
  PROVE  Failed \in Call /\ Failed.pc \in {"join", "done"}
         /\ Failed.out = req.out /\ Failed.size = req.size
  BY DEF Typed, Call, Failed, Returned, PCs, Searching

LEMMA InitTyped == Init => Typed
<1>. SUFFICES ASSUME Init PROVE Typed
  OBVIOUS
<1>1. 0 \in 0..Word-1 /\ 0 \in 0..ChunkSize-1 /\ None \in Buffer /\ 0 \in Buffer
  BY AewfSizes, ChunkCountType DEF None, Buffer
<1>2. slot \in [Slots -> Structure]
  BY <1>1 DEF Init, Idle, Structure, Jobs
<1>3. req \in Call /\ req.pc = "idle"
  BY <1>1 DEF Init, Call, PCs
<1>4. req.out \in [0..req.size-1 -> 0..ImageSize]
  <2>1. req.out = <<>> /\ req.size = 0
    BY DEF Init
  <2>2. <<>> \in [0..0-1 -> 0..ImageSize]
    <3>1. 0..0-1 = {}
      OBVIOUS
    <3>2. [i \in 1..0 |-> 0] \in [{} -> 0..ImageSize]
      OBVIOUS
    <3>. QED BY <3>1, <3>2
  <2>. QED BY <2>1, <2>2
<1>. QED BY <1>1, <1>2, <1>3, <1>4 DEF Init, Typed, Finding

\* The conjuncts of Typed about the call.
CallTyped ==
  /\ req \in Call
  /\ req.out \in [0..req.size-1 -> 0..ImageSize]
  /\ req.pc \in Finding => req.chunk \in DOMAIN TableOf

\* A step that leaves the caller's buffer as it is.
LEMMA SameBuffer ==
  ASSUME Typed, NEW r \in Call, r.out = req.out, r.size = req.size,
         r.pc \in Finding => r.chunk \in DOMAIN TableOf, req' = r
  PROVE  CallTyped'
  BY DEF Typed, CallTyped, Call, Finding

LEMMA PcTyped ==
  ASSUME Typed, NEW pc \in PCs, pc \in Finding => req.chunk \in DOMAIN TableOf,
         req' = [req EXCEPT !.pc = pc]
  PROVE  CallTyped'
<1>. DEFINE r == [req EXCEPT !.pc = pc]
<1>1. r \in Call /\ r.out = req.out /\ r.size = req.size /\ r.chunk = req.chunk
      /\ r.pc = pc
  BY DEF Typed, Call
<1>. HIDE DEF r
<1>2. req' = r
  BY DEF r
<1>. QED BY <1>1, <1>2, SameBuffer

LEMMA FailedCall == ASSUME Typed, req' = Failed PROVE CallTyped'
<1>1. Failed \in Call /\ Failed.out = req.out /\ Failed.size = req.size
      /\ Failed.pc \notin Finding
  BY FailedTyped DEF Finding
<1>. QED BY <1>1, SameBuffer

LEMMA NextChunkCall == ASSUME Typed, req' = NextChunk PROVE CallTyped'
<1>1. NextChunk \in Call /\ NextChunk.out = req.out /\ NextChunk.size = req.size
      /\ NextChunk.pc \notin Finding
  BY NextChunkTyped DEF Finding
<1>. QED BY <1>1, SameBuffer

LEMMA ReturnedCall == ASSUME Typed, req' = Returned(req) PROVE CallTyped'
<1>. DEFINE r == Returned(req)
<1>1. r \in Call /\ r.out = req.out /\ r.size = req.size /\ r.pc = "done"
  BY DEF Typed, Call, Returned, PCs
<1>. HIDE DEF r
<1>2. req' = r
  BY DEF r
<1>3. r.pc \notin Finding
  BY <1>1 DEF Finding
<1>. QED BY <1>1, <1>2, <1>3, SameBuffer

\* The call at the start of a batch, with n bytes to read.
Begun(n) ==
  [pc |-> "chunk", from |-> req.from, size |-> req.size, seek |-> req.seek,
   left |-> req.left, read |-> req.read, out |-> req.out,
   chunk |-> req.seek \div ChunkSize, Ofs |-> req.seek % ChunkSize, togo |-> n,
   to |-> req.read, got |-> 0, failed |-> req.failed, ok |-> req.ok]

LEMMA StartBatchFields ==
  ASSUME req \in Call, StartBatch, req.left # 0
  PROVE  req' = Begun(BatchSize)
<1>. DEFINE c == req.seek \div ChunkSize
            o == req.seek % ChunkSize
            n == BatchSize
<1>1. req' = [req EXCEPT !.pc = "chunk", !.chunk = c, !.Ofs = o, !.togo = n,
                         !.to = req.read, !.got = 0]
  BY DEF StartBatch
<1>. HIDE DEF c, o, n
<1>2. req' = [pc |-> "chunk", from |-> req.from, size |-> req.size,
              seek |-> req.seek, left |-> req.left, read |-> req.read,
              out |-> req.out, chunk |-> c, Ofs |-> o, togo |-> n, to |-> req.read,
              got |-> 0, failed |-> req.failed, ok |-> req.ok]
  BY <1>1 DEF Call
<1>. QED BY <1>2 DEF Begun, c, o, n

LEMMA NewBatch ==
  ASSUME req \in Call, NEW k \in Int, NEW n \in Int, NEW m \in Int
  PROVE  LET r == [req EXCEPT !.pc = "batch", !.seek = k, !.left = n, !.read = m]
         IN r \in Call /\ r.out = req.out /\ r.size = req.size /\ r.pc = "batch"
  BY DEF Call, PCs, Searching

LEMMA StartBatchTyped == ASSUME Typed, StartBatch PROVE CallTyped'
<1>1. CASE req.left = 0
  BY <1>1, ReturnedCall DEF StartBatch
<1>2. CASE req.left # 0
  <2>1. req \in Call
    BY DEF Typed
  <2>2. req.seek \in Int /\ req.left \in Int /\ req.read \in Int
    BY <2>1 DEF Call
  <2>3. req.seek \div ChunkSize \in Int /\ req.seek % ChunkSize \in 0..ChunkSize-1
    BY <2>2, AewfSizes
  <2>4. BatchSize \in Int
    BY <2>2, AewfSizes DEF BatchSize, Smaller
  <2>. DEFINE r == Begun(BatchSize)
  <2>5. r \in Call
    BY <2>1, <2>2, <2>3, <2>4 DEF Call, PCs, Searching, Begun
  <2>6. r.out = req.out /\ r.size = req.size /\ r.pc = "chunk"
    BY DEF Begun
  <2>7. req' = r
    BY <1>2, <2>1, StartBatchFields
  <2>8. r.pc \notin Finding
    BY <2>6 DEF Finding
  <2>. HIDE DEF r
  <2>. QED BY <2>5, <2>6, <2>7, <2>8, SameBuffer
<1>. QED BY <1>1, <1>2

LEMMA EndBatchTyped == ASSUME Typed, EndBatch PROVE CallTyped'
<1>1. CASE req.failed
  BY <1>1, ReturnedCall DEF EndBatch
<1>2. CASE ~req.failed
  <2>. DEFINE r == [req EXCEPT !.pc = "batch", !.seek = @ + req.got,
                      !.left = @ - req.got, !.read = @ + req.got]
  <2>1. req \in Call
    BY DEF Typed
  <2>5. r \in Call /\ r.out = req.out /\ r.size = req.size /\ r.pc = "batch"
    <3>1. req.seek + req.got \in Int /\ req.left - req.got \in Int
          /\ req.read + req.got \in Int
      BY <2>1 DEF Call
    <3>. QED BY <2>1, <3>1, NewBatch
  <2>6. req' = r
    BY <1>2 DEF EndBatch
  <2>7. r.pc \notin Finding
    BY <2>5 DEF Finding
  <2>. HIDE DEF r
  <2>. QED BY <2>5, <2>6, <2>7, SameBuffer
<1>. QED BY <1>1, <1>2

\* The steps that change nothing but the call.
LEMMA CallSteps ==
  ASSUME Typed, StartBatch \/ Miss \/ TableFits \/ JoinCrashes \/ EndBatch
  PROVE  Typed'
<1>1. CallTyped'
  <2>1. CASE StartBatch
    BY <2>1, StartBatchTyped
  <2>2. CASE Miss
    BY <2>2, FailedCall, PcTyped DEF Miss, PCs, Searching, Finding
  <2>3. CASE TableFits
    BY <2>3, PcTyped DEF TableFits, PCs, Searching, Finding, Typed
  <2>4. CASE JoinCrashes
    BY <2>4, PcTyped DEF JoinCrashes, PCs, Finding
  <2>5. CASE EndBatch
    BY <2>5, EndBatchTyped
  <2>. QED BY <2>1, <2>2, <2>3, <2>4, <2>5
<1>2. UNCHANGED <<pEwfTable, TableCache, pFile, OpenSegments, slot>>
  BY DEF StartBatch, Miss, TableFits, JoinCrashes, EndBatch, UnchangedTables,
         UnchangedFiles
<1>. QED BY <1>1, <1>2 DEF Typed, CallTyped

\* The steps that look after tables and files.
LEMMA ResourceSteps ==
  ASSUME Typed, ReleaseTable \/ CloseSegment \/ OpenSegment \/ LoadTable
  PROVE  Typed'
<1>1. CallTyped'
  <2>1. CASE req' = req
    BY <2>1, SameBuffer DEF Typed
  <2>2. CASE req' = Failed
    BY <2>2, FailedCall
  <2>3. CASE OpenSegment /\ req' = [req EXCEPT !.pc = "read"]
    BY <2>3, PcTyped DEF OpenSegment, PCs, Searching, Finding, Typed
  <2>. QED BY <2>1, <2>2, <2>3 DEF ReleaseTable, CloseSegment, OpenSegment, LoadTable
<1>2. slot' = slot
  BY DEF ReleaseTable, CloseSegment, OpenSegment, LoadTable
<1>3. \A t \in Tables : TableSize[t] \in Nat
  BY AewfLayout
<1>4. req.pc \in Finding => Table \in Tables /\ Segment \in Segments
  BY AewfLayout DEF Typed, Table, Segment
<1>5. pEwfTable' \in [Tables -> {"null", "table", "garbage"}]
  BY <1>4 DEF ReleaseTable, CloseSegment, OpenSegment, LoadTable, UnchangedTables,
              Typed, Finding
<1>6. TableCache' \in 0..Word-1
  BY <1>3, <1>4, WordType
  DEF ReleaseTable, CloseSegment, OpenSegment, LoadTable, UnchangedTables, Typed,
      Finding, Released, Loaded
<1>7. pFile' \subseteq Segments
  BY <1>4 DEF ReleaseTable, CloseSegment, OpenSegment, LoadTable, UnchangedFiles,
              Typed, Finding
<1>8. OpenSegments' \in 0..Word-1
  BY WordType DEF ReleaseTable, CloseSegment, OpenSegment, LoadTable, UnchangedFiles,
                  Typed, Opened
<1>. QED BY <1>1, <1>2, <1>5, <1>6, <1>7, <1>8 DEF Typed, CallTyped

LEMMA PlaceTyped ==
  ASSUME Typed
  PROVE  /\ None \in Buffer /\ req.to \in Int /\ req.Ofs \in 0..ChunkSize-1
         /\ Wanted \in Int
         /\ req.pc \in Finding => req.chunk \in Buffer
         /\ \A i \in Slots : slot[i] \in Structure
<1>1. \A c \in Chunks : c \in Buffer
  BY ChunkCountType DEF Chunks, Buffer
<1>2. /\ req.to \in Int /\ req.Ofs \in 0..ChunkSize-1
      /\ \A i \in Slots : slot[i] \in Structure
  BY DEF Typed, Call
<1>3. req.pc \in Finding => req.chunk \in Buffer
  BY <1>1, AewfLayout DEF Typed
<1>4. None \in Buffer
  BY ChunkCountType DEF None, Buffer
<1>. QED BY <1>2, <1>3, <1>4, WantedInt

LEMMA JobTyped ==
  ASSUME Typed, NEW s \in Structure, NEW job \in Jobs
  PROVE  Job(s, job) \in Structure
  BY PlaceTyped DEF Job, Structure

LEMMA FilledTyped ==
  ASSUME Typed, NEW s \in Structure, NEW data \in Buffer, req.pc \in Finding
  PROVE  Filled(s, data) \in Structure
<1>1. \A b \in Buffer, d \in Buffer :
        [s EXCEPT !.ChunkInBuff = req.chunk, !.to = req.to, !.Ofs = req.Ofs,
                  !.Len = Wanted, !.compressed = b, !.uncompressed = d] \in Structure
  <2>. SUFFICES ASSUME NEW b \in Buffer, NEW d \in Buffer, NEW r,
                       r = [s EXCEPT !.ChunkInBuff = req.chunk, !.to = req.to,
                              !.Ofs = req.Ofs, !.Len = Wanted, !.compressed = b,
                              !.uncompressed = d]
                PROVE  r \in Structure
    OBVIOUS
  <2>1. r = [launched |-> s.launched, job |-> s.job, ChunkInBuff |-> req.chunk,
             uncompressed |-> d, compressed |-> b, to |-> req.to, Ofs |-> req.Ofs,
             Len |-> Wanted, ok |-> s.ok]
    BY DEF Structure
  <2>. QED BY <2>1, PlaceTyped DEF Structure
<1>2. s.compressed \in Buffer /\ s.uncompressed \in Buffer
  BY DEF Structure
<1>. QED BY <1>1, <1>2 DEF Filled

LEMMA StoredTyped ==
  ASSUME Typed, req.pc \in Finding
  PROVE  Stored(req.chunk) \in Buffer
  BY PlaceTyped DEF Stored

\* A step that gives one structure new contents.
LEMMA OneSlot ==
  ASSUME Typed, NEW i \in Slots, NEW s \in Structure, slot' = [slot EXCEPT ![i] = s]
  PROVE  slot' \in [Slots -> Structure]
  BY DEF Typed

LEMMA CopyChunkTyped == ASSUME Typed, CopyChunk PROVE Typed'
<1>1. CallTyped'
  BY NextChunkCall, FailedCall DEF CopyChunk
<1>2. slot' \in [Slots -> Structure]
  <2>. PICK i \in Slots :
         \/ slot' = [slot EXCEPT ![i] = Job(@, "copy")]
         \/ slot' = [slot EXCEPT ![i] = [@ EXCEPT !.to = req.to, !.Ofs = req.Ofs,
                                                  !.Len = Wanted]]
    BY DEF CopyChunk
  <2>1. slot[i] \in Structure
    BY DEF Typed
  <2>2. Job(slot[i], "copy") \in Structure
    BY <2>1, JobTyped DEF Jobs
  <2>3. [slot[i] EXCEPT !.to = req.to, !.Ofs = req.Ofs, !.Len = Wanted] \in Structure
    BY <2>1, PlaceTyped DEF Structure
  <2>. QED BY <2>2, <2>3, OneSlot
<1>. QED BY <1>1, <1>2 DEF CopyChunk, UnchangedTables, UnchangedFiles, Typed, CallTyped

LEMMA ReadChunkTyped == ASSUME Typed, ReadChunk PROVE Typed'
<1>1. CallTyped'
  BY NextChunkCall, FailedCall DEF ReadChunk
<1>2. slot' \in [Slots -> Structure]
  <2>1. CASE slot' = slot
    BY <2>1 DEF Typed
  <2>2. ASSUME NEW i \in Slots, NEW data \in Buffer, NEW job \in Jobs,
               slot' = [slot EXCEPT ![i] = Job(Filled(@, data), job)]
        PROVE  slot' \in [Slots -> Structure]
    BY <2>2, PlaceTyped, JobTyped, FilledTyped, OneSlot DEF ReadChunk, Finding
  <2>3. ASSUME NEW i \in Slots, slot' = [slot EXCEPT ![i] = Filled(@, None)]
        PROVE  slot' \in [Slots -> Structure]
    BY <2>3, PlaceTyped, FilledTyped, OneSlot DEF ReadChunk, Finding
  <2>4. Stored(req.chunk) \in Buffer
    BY StoredTyped DEF ReadChunk, Finding
  <2>5. \/ slot' = slot
        \/ \E i \in Slots, job \in Jobs :
             slot' = [slot EXCEPT ![i] = Job(Filled(@, Stored(req.chunk)), job)]
        \/ \E i \in Slots : slot' = [slot EXCEPT ![i] = Filled(@, None)]
    BY DEF ReadChunk, Jobs
  <2>. QED BY <2>1, <2>2, <2>3, <2>4, <2>5
<1>. QED BY <1>1, <1>2 DEF ReadChunk, UnchangedTables, UnchangedFiles, Typed, CallTyped

\* What a job copies are addresses of the image, or junk.
LEMMA CopiedTyped ==
  ASSUME NEW n \in Nat, NEW out \in [0..n-1 -> 0..ImageSize], NEW to \in Int,
         NEW chunk \in Buffer, NEW ofs \in 0..ChunkSize-1, NEW m \in Int
  PROVE  Copied(out, to, chunk, ofs, m) \in [0..n-1 -> 0..ImageSize]
<1>1. Junk \in 0..ImageSize
  BY AewfSizes DEF Junk
<1>2. ASSUME NEW x \in 0..n-1, x \in to..to+m-1
      PROVE  Smaller(chunk * ChunkSize + ofs + (x - to), Junk) \in 0..ImageSize
  <2>1. chunk * ChunkSize \in Nat
    BY ChunkCountType, AewfSizes DEF Buffer
  <2>2. ofs + (x - to) \in Nat
    BY <1>2, AewfSizes
  <2>3. chunk * ChunkSize + ofs + (x - to) \in Nat
    BY <2>1, <2>2, <1>2, AewfSizes
  <2>. QED BY <2>3, AewfSizes DEF Smaller, Junk
<1>. QED BY <1>1, <1>2 DEF Copied

\* A step that only puts other contents into the caller's buffer.
LEMMA NewBuffer ==
  ASSUME Typed, NEW out \in [0..req.size-1 -> 0..ImageSize],
         req' = [req EXCEPT !.out = out]
  PROVE  CallTyped'
<1>1. req' = [pc |-> req.pc, from |-> req.from, size |-> req.size,
              seek |-> req.seek, left |-> req.left, read |-> req.read,
              out |-> out, chunk |-> req.chunk, Ofs |-> req.Ofs,
              togo |-> req.togo, to |-> req.to, got |-> req.got,
              failed |-> req.failed, ok |-> req.ok]
  BY DEF Call, Typed
<1>. QED BY <1>1 DEF Typed, CallTyped, Call

LEMMA WorkTyped == ASSUME Typed, NEW i \in Slots, Work(i) PROVE Typed'
<1>. DEFINE s == slot[i]
            data == IF s.job = "uncompress" THEN s.compressed ELSE s.uncompressed
            good == s.job = "copy" \/ data # None
            out == Copied(req.out, s.to, data, s.Ofs, s.Len)
<1>1. s \in Structure
  BY DEF Typed
<1>2. data \in Buffer /\ s.to \in Int /\ s.Ofs \in 0..ChunkSize-1 /\ s.Len \in Int
  BY <1>1 DEF Structure
<1>3. req.size \in Nat /\ req.out \in [0..req.size-1 -> 0..ImageSize]
  BY DEF Typed, Call
<1>4. CallTyped'
  <2>1. CASE req' = req
    BY <2>1, SameBuffer DEF Typed
  <2>2. CASE req' = [req EXCEPT !.out = out]
    <3>. HIDE DEF s, data
    <3>1. out \in [0..req.size-1 -> 0..ImageSize]
      BY <1>2, <1>3, CopiedTyped
    <3>. HIDE DEF out
    <3>. QED BY <2>2, <3>1, NewBuffer
  <2>. QED BY <2>1, <2>2 DEF Work
<1>5. slot' \in [Slots -> Structure]
  <2>. DEFINE r == [s EXCEPT !.job = "none", !.ok = good, !.uncompressed = data]
  <2>1. slot' = [slot EXCEPT ![i] = r]
    BY DEF Work, Typed
  <2>2. good \in BOOLEAN
    OBVIOUS
  <2>3. r \in Structure
    <3>. HIDE DEF s, data, good
    <3>. QED BY <1>1, <1>2, <2>2 DEF Structure, Jobs
  <2>. HIDE DEF r
  <2>. QED BY <2>1, <2>3, OneSlot
<1>. QED BY <1>4, <1>5 DEF Work, UnchangedTables, UnchangedFiles, Typed, CallTyped

LEMMA JoinTyped == ASSUME Typed, Join PROVE Typed'
<1>1. PICK i \in Slots :
        /\ slot' = [slot EXCEPT ![i].launched = FALSE, ![i].job = "none"]
        /\ req' = Joined(req, slot[i])
  BY DEF Join
<1>2. slot[i] \in Structure /\ req \in Call
  BY DEF Typed
<1>3. slot' \in [Slots -> Structure]
  <2>. DEFINE s == [slot[i] EXCEPT !.launched = FALSE, !.job = "none"]
  <2>1. slot' = [slot EXCEPT ![i] = s]
    BY <1>1 DEF Typed
  <2>2. s \in Structure
    BY <1>2 DEF Structure, Jobs
  <2>. HIDE DEF s
  <2>. QED BY <2>1, <2>2, OneSlot
<1>4. CallTyped'
  <2>. DEFINE g == req.got + slot[i].Len
              f == req.failed \/ ~slot[i].ok
              r == [req EXCEPT !.got = g, !.failed = f]
  <2>1. g \in Int /\ f \in BOOLEAN
    BY <1>2 DEF Structure, Call
  <2>2. req' = r
    BY <1>1 DEF Joined
  <2>. HIDE DEF g, f
  <2>3. r \in Call /\ r.out = req.out /\ r.size = req.size /\ r.pc = req.pc
    BY <1>2, <2>1 DEF Call
  <2>4. r.pc \notin Finding
    BY <2>3 DEF Join, Finding
  <2>. HIDE DEF r
  <2>. QED BY <2>2, <2>3, <2>4, SameBuffer
<1>. QED BY <1>3, <1>4 DEF Join, UnchangedTables, UnchangedFiles, Typed, CallTyped

\* The call after AewfReadLegacy copied from the buffer.
Served(out) ==
  [pc |-> IF req.togo = Wanted THEN "done" ELSE "chunk", from |-> req.from,
   size |-> req.size, seek |-> req.seek, left |-> req.left,
   read |-> req.read + Wanted, out |-> out, chunk |-> req.chunk + 1, Ofs |-> 0,
   togo |-> req.togo - Wanted, to |-> req.to + Wanted, got |-> req.got,
   failed |-> req.failed, ok |-> IF req.togo = Wanted THEN TRUE ELSE req.ok]

LEMMA CopyLegacyFields ==
  ASSUME Typed, CopyLegacy
  PROVE  req' = Served(Copied(req.out, req.to, slot[0].uncompressed, req.Ofs, Wanted))
<1>. DEFINE w == Wanted
            out == Copied(req.out, req.to, slot[0].uncompressed, req.Ofs, w)
            pc == IF req.togo = w THEN "join" ELSE "chunk"
<1>1. w \in Int /\ req \in Call
  BY WantedInt DEF Typed
<1>2. NextChunk.read = req.read /\ NextChunk.out = req.out
  BY <1>1 DEF NextChunk, Call
<1>3. PICK r : /\ r = [NextChunk EXCEPT !.read = req.read + w, !.out = out]
               /\ req' = IF req.togo = w THEN Returned(r) ELSE r
  BY <1>2 DEF CopyLegacy
<1>4. NextChunk = [req EXCEPT !.pc = pc, !.chunk = req.chunk + 1, !.Ofs = 0,
                     !.togo = req.togo - w, !.to = req.to + w]
  BY DEF NextChunk
<1>5. r = [[req EXCEPT !.pc = pc, !.chunk = req.chunk + 1, !.Ofs = 0,
                       !.togo = req.togo - w, !.to = req.to + w]
             EXCEPT !.read = req.read + w, !.out = out]
  BY <1>3, <1>4
<1>. HIDE DEF w, out, pc
<1>6. r = [pc |-> pc, from |-> req.from, size |-> req.size, seek |-> req.seek,
           left |-> req.left, read |-> req.read + w, out |-> out,
           chunk |-> req.chunk + 1, Ofs |-> 0, togo |-> req.togo - w,
           to |-> req.to + w, got |-> req.got, failed |-> req.failed, ok |-> req.ok]
  BY <1>1, <1>5 DEF Call
<1>7. CASE req.togo = w
  <2>1. req' = [r EXCEPT !.pc = "done", !.ok = TRUE]
    BY <1>3, <1>7 DEF Returned
  <2>2. req' = [pc |-> "done", from |-> req.from, size |-> req.size,
                seek |-> req.seek, left |-> req.left, read |-> req.read + w,
                out |-> out, chunk |-> req.chunk + 1, Ofs |-> 0,
                togo |-> req.togo - w, to |-> req.to + w, got |-> req.got,
                failed |-> req.failed, ok |-> TRUE]
    BY <1>6, <2>1
  <2>. QED BY <1>7, <2>2 DEF Served, w, out
<1>8. CASE req.togo # w
  BY <1>3, <1>6, <1>8 DEF Served, w, out, pc
<1>. QED BY <1>7, <1>8

LEMMA CopyLegacyTyped == ASSUME Typed, CopyLegacy PROVE Typed'
<1>. DEFINE out == Copied(req.out, req.to, slot[0].uncompressed, req.Ofs, Wanted)
<1>1. slot[0] \in Structure
  BY AewfSizes DEF Typed, CopyLegacy, Slots
<1>2. slot[0].uncompressed \in Buffer
  BY <1>1 DEF Structure
<1>3. /\ req.size \in Nat /\ req.out \in [0..req.size-1 -> 0..ImageSize]
      /\ req \in Call
  BY DEF Typed, Call
<1>4. out \in [0..req.size-1 -> 0..ImageSize]
  BY <1>2, <1>3, PlaceTyped, CopiedTyped
<1>. HIDE DEF out
<1>5. req' = Served(out)
  BY CopyLegacyFields DEF out
<1>6. req'.size = req.size /\ req'.out = out /\ req'.pc \in {"done", "chunk"}
  BY <1>5 DEF Served
<1>7. req.read + Wanted \in Int /\ req.chunk + 1 \in Int /\ req.to + Wanted \in Int
      /\ req.togo - Wanted \in Int /\ 0 \in 0..ChunkSize-1
  <2>1. req.read \in Int /\ req.chunk \in Int /\ req.to \in Int /\ req.togo \in Int
    BY <1>3 DEF Call
  <2>2. Wanted \in Int
    BY WantedInt
  <2>. QED BY <2>1, <2>2, AewfSizes
<1>8. req' \in Call'
  BY <1>3, <1>5, <1>6, <1>7 DEF Call, Served, PCs, Searching
<1>9. UNCHANGED <<pEwfTable, TableCache, pFile, OpenSegments, slot>>
  BY DEF CopyLegacy, UnchangedTables, UnchangedFiles
<1>. QED BY <1>4, <1>6, <1>8, <1>9 DEF Typed, Finding

LEMMA ReadLegacyTyped == ASSUME Typed, ReadLegacy PROVE Typed'
<1>1. CallTyped'
  <2>1. CASE req' = [req EXCEPT !.pc = "chunk"]
    BY <2>1, PcTyped DEF PCs, Searching, Finding
  <2>. QED BY <2>1, FailedCall DEF ReadLegacy
<1>2. slot' \in [Slots -> Structure]
  <2>. DEFINE d == Stored(req.chunk)
              b == InBuff(req.chunk, d # None)
  <2>1. 0 \in Slots
    BY AewfSizes DEF ReadLegacy, Slots
  <2>2. slot[0] \in Structure /\ d \in Buffer /\ None \in Buffer /\ b \in Buffer
    BY <2>1, StoredTyped, PlaceTyped DEF ReadLegacy, Finding, InBuff
  <2>3. \/ slot' = slot
        \/ slot' = [slot EXCEPT ![0] = [@ EXCEPT !.ChunkInBuff = b, !.uncompressed = d]]
        \/ slot' = [slot EXCEPT ![0] = [@ EXCEPT !.uncompressed = None]]
    BY <2>1 DEF ReadLegacy, Typed
  <2>. HIDE DEF d, b
  <2>4. /\ [slot[0] EXCEPT !.ChunkInBuff = b, !.uncompressed = d] \in Structure
        /\ [slot[0] EXCEPT !.uncompressed = None] \in Structure
    BY <2>2 DEF Structure
  <2>. QED BY <2>1, <2>3, <2>4, OneSlot DEF Typed
<1>. QED BY <1>1, <1>2 DEF ReadLegacy, UnchangedTables, UnchangedFiles, Typed, CallTyped

\* The call that AewfRead(from, count) starts.
ReadSize(from, count) ==
  IF from >= ImageSize THEN 0 ELSE Smaller(count, ImageSize - from)

Accepted(from, size) ==
  [pc |-> IF size = 0 THEN "done" ELSE "batch", from |-> from, size |-> size,
   seek |-> from, left |-> size, read |-> 0, out |-> [x \in 0..size-1 |-> Junk],
   chunk |-> req.chunk, Ofs |-> req.Ofs, togo |-> req.togo, to |-> req.to,
   got |-> req.got, failed |-> FALSE, ok |-> TRUE]

LEMMA ReadSizeFits ==
  ASSUME NEW from \in 0..ImageSize, NEW count \in 1..ImageSize
  PROVE  ReadSize(from, count) \in Nat /\ from + ReadSize(from, count) <= ImageSize
  BY AewfSizes DEF ReadSize, Smaller

LEMMA AewfReadFields ==
  ASSUME Typed, NEW from \in 0..ImageSize, NEW count \in 1..ImageSize,
         AewfRead(from, count)
  PROVE  req' = Accepted(from, ReadSize(from, count))
<1>. DEFINE size == ReadSize(from, count)
            new == [x \in 0..size-1 |-> Junk]
            pc == IF size = 0 THEN "done" ELSE "batch"
<1>1. req' = [req EXCEPT !.pc = pc, !.from = from, !.size = size, !.seek = from,
                !.left = size, !.read = 0, !.out = new, !.failed = FALSE, !.ok = TRUE]
  BY DEF AewfRead, ReadSize
<1>2. req \in Call
  BY DEF Typed
<1>. HIDE DEF size, new, pc
<1>3. req' = [pc |-> pc, from |-> from, size |-> size, seek |-> from,
              left |-> size, read |-> 0, out |-> new, chunk |-> req.chunk,
              Ofs |-> req.Ofs, togo |-> req.togo, to |-> req.to, got |-> req.got,
              failed |-> FALSE, ok |-> TRUE]
  BY <1>1, <1>2 DEF Call
<1>. QED BY <1>3 DEF Accepted, size, new, pc

LEMMA AewfReadTyped ==
  ASSUME Typed, NEW from \in 0..ImageSize, NEW count \in 1..ImageSize,
         AewfRead(from, count)
  PROVE  Typed'
<1>. DEFINE size == ReadSize(from, count)
            r == Accepted(from, size)
<1>1. size \in Nat /\ from \in Nat /\ Junk \in 0..ImageSize
  BY ReadSizeFits, AewfSizes DEF Junk
<1>2. req \in Call
  BY DEF Typed
<1>3. req' = r
  BY AewfReadFields
<1>. HIDE DEF size
<1>4. req'.size = size /\ req'.out = [x \in 0..size-1 |-> Junk]
      /\ req'.pc \in {"done", "batch"}
  BY <1>3 DEF Accepted
<1>5. req' \in Call'
  BY <1>1, <1>2, <1>3 DEF Accepted, Call, PCs
<1>6. req'.out \in [0..req'.size-1 -> 0..ImageSize]
  BY <1>1, <1>4
<1>7. UNCHANGED <<pEwfTable, TableCache, pFile, OpenSegments, slot>>
  BY DEF AewfRead, UnchangedTables, UnchangedFiles
<1>. QED BY <1>4, <1>5, <1>6, <1>7 DEF Typed, Finding

LEMMA NextTyped == ASSUME Typed, [Next]_vars PROVE Typed'
<1>1. CASE UNCHANGED vars
  BY <1>1 DEF vars, Typed, Call
<1>2. ASSUME NEW from \in 0..ImageSize, NEW count \in 1..ImageSize,
             AewfRead(from, count)
      PROVE  Typed'
  BY <1>2, AewfReadTyped
<1>3. CASE Step
  BY <1>3, CallSteps, ResourceSteps, CopyChunkTyped, ReadChunkTyped, JoinTyped,
     CopyLegacyTyped, ReadLegacyTyped DEF Step
<1>4. ASSUME NEW i \in Slots, Work(i) PROVE Typed'
  BY <1>4, WorkTyped
<1>. QED BY <1>1, <1>2, <1>3, <1>4 DEF Next

LEMMA AlwaysTyped == Spec => []Typed
  BY InitTyped, NextTyped, PTL DEF Spec

-----------------------------------------------------------------------------
(* What the steps make of the call, field by field                         *)

LEMMA NextChunkFields ==
  ASSUME Typed
  PROVE  /\ NextChunk.pc = IF req.togo = Wanted THEN "join" ELSE "chunk"
         /\ NextChunk.chunk = req.chunk + 1 /\ NextChunk.Ofs = 0
         /\ NextChunk.togo = req.togo - Wanted /\ NextChunk.to = req.to + Wanted
         /\ NextChunk.from = req.from /\ NextChunk.size = req.size
         /\ NextChunk.seek = req.seek /\ NextChunk.left = req.left
         /\ NextChunk.read = req.read /\ NextChunk.out = req.out
         /\ NextChunk.got = req.got /\ NextChunk.failed = req.failed
  BY WantedInt DEF Typed, Call, NextChunk

LEMMA FailedFields ==
  ASSUME Typed
  PROVE  /\ Failed.pc = IF NThreads = 1 THEN "done" ELSE "join"
         /\ NThreads # 1 => Failed.failed
         /\ Failed.chunk = req.chunk /\ Failed.Ofs = req.Ofs
         /\ Failed.togo = req.togo /\ Failed.to = req.to
         /\ Failed.from = req.from /\ Failed.size = req.size
         /\ Failed.seek = req.seek /\ Failed.left = req.left
         /\ Failed.read = req.read /\ Failed.out = req.out
         /\ Failed.got = req.got
  BY DEF Typed, Call, Failed, Returned

LEMMA ReturnedFields ==
  ASSUME Typed, NEW r, r = Returned(req)
  PROVE  /\ r.pc = "done"
         /\ r.chunk = req.chunk /\ r.Ofs = req.Ofs
         /\ r.togo = req.togo /\ r.to = req.to
         /\ r.from = req.from /\ r.size = req.size
         /\ r.seek = req.seek /\ r.left = req.left
         /\ r.read = req.read /\ r.out = req.out
         /\ r.got = req.got /\ r.failed = req.failed
  BY DEF Typed, Call, Returned

LEMMA PcFields ==
  ASSUME Typed, NEW pc \in PCs, req' = [req EXCEPT !.pc = pc]
  PROVE  /\ req'.pc = pc
         /\ req'.chunk = req.chunk /\ req'.Ofs = req.Ofs
         /\ req'.togo = req.togo /\ req'.to = req.to
         /\ req'.from = req.from /\ req'.size = req.size
         /\ req'.seek = req.seek /\ req'.left = req.left
         /\ req'.read = req.read /\ req'.out = req.out
         /\ req'.got = req.got /\ req'.failed = req.failed
  BY DEF Typed, Call

LEMMA EndBatchFields ==
  ASSUME Typed, EndBatch, ~req.failed
  PROVE  /\ req'.pc = "batch"
         /\ req'.from = req.from /\ req'.size = req.size
         /\ req'.seek = req.seek + req.got /\ req'.left = req.left - req.got
         /\ req'.read = req.read + req.got /\ req'.out = req.out
         /\ req'.failed = req.failed
<1>1. req' = [req EXCEPT !.pc = "batch", !.seek = @ + req.got,
                         !.left = @ - req.got, !.read = @ + req.got]
  BY DEF EndBatch
<1>. QED BY <1>1 DEF Typed, Call

LEMMA JoinFields ==
  ASSUME Typed, NEW i \in Slots, req' = Joined(req, slot[i])
  PROVE  /\ req'.pc = req.pc /\ req'.chunk = req.chunk
         /\ req'.from = req.from /\ req'.size = req.size
         /\ req'.seek = req.seek /\ req'.left = req.left
         /\ req'.read = req.read /\ req'.out = req.out
         /\ req'.got = req.got + slot[i].Len
         /\ req'.failed = (req.failed \/ ~slot[i].ok)
  BY DEF Typed, Call, Joined

\* A thread only touches the caller's buffer.
LEMMA WorkFields ==
  ASSUME Typed, NEW i \in Slots, Work(i)
  PROVE  /\ req'.pc = req.pc
         /\ req'.chunk = req.chunk /\ req'.Ofs = req.Ofs
         /\ req'.togo = req.togo /\ req'.to = req.to
         /\ req'.from = req.from /\ req'.size = req.size
         /\ req'.seek = req.seek /\ req'.left = req.left
         /\ req'.read = req.read
         /\ req'.got = req.got /\ req'.failed = req.failed
<1>1. CASE req' = req
  BY <1>1
<1>2. ASSUME NEW out, req' = [req EXCEPT !.out = out]
      PROVE  /\ req'.pc = req.pc
             /\ req'.chunk = req.chunk /\ req'.Ofs = req.Ofs
             /\ req'.togo = req.togo /\ req'.to = req.to
             /\ req'.from = req.from /\ req'.size = req.size
             /\ req'.seek = req.seek /\ req'.left = req.left
             /\ req'.read = req.read
             /\ req'.got = req.got /\ req'.failed = req.failed
  BY <1>2 DEF Typed, Call
<1>. QED BY <1>1, <1>2 DEF Work

-----------------------------------------------------------------------------
(* Thread structures and their buffers                                     *)

\* While chunks are looked for, the running jobs are those of chunks before;
\* when one is looked for in the files, it is in no buffer.
SlotsInv ==
  /\ \A i \in Slots : slot[i].job # "none" => slot[i].launched
  /\ NThreads = 1 => \A i \in Slots : ~slot[i].launched
  /\ req.pc \in {"idle", "batch", "done"} => \A i \in Slots : ~slot[i].launched
  /\ req.pc \in Searching =>
       \A i \in Slots : slot[i].launched => slot[i].ChunkInBuff < req.chunk
  /\ req.pc \in Finding => \A i \in Slots : slot[i].ChunkInBuff # req.chunk
  /\ OneSlotPerChunk

LEMMA InitSlots == Init => SlotsInv
  BY DEF Init, SlotsInv, Idle, OneSlotPerChunk, Searching, Finding

\* A step that leaves the structures alone.
LEMMA SameSlots ==
  ASSUME SlotsInv, slot' = slot,
         req'.pc \in {"idle", "batch", "done"} => \A i \in Slots : ~slot[i].launched,
         req'.pc \in Searching =>
           \A i \in Slots : slot[i].launched => slot[i].ChunkInBuff < req'.chunk,
         req'.pc \in Finding => \A i \in Slots : slot[i].ChunkInBuff # req'.chunk
  PROVE  SlotsInv'
  BY DEF SlotsInv, OneSlotPerChunk

\* An error is returned, or ends the batch.
LEMMA FailedSlots == ASSUME Typed, SlotsInv, slot' = slot, req' = Failed PROVE SlotsInv'
  BY FailedFields, SameSlots DEF SlotsInv, Searching, Finding

LEMMA CallStepsSlots ==
  ASSUME Typed, SlotsInv,
         StartBatch \/ Miss \/ TableFits \/ JoinCrashes \/ EndBatch
  PROVE  SlotsInv'
<1>1. slot' = slot
  BY DEF StartBatch, Miss, TableFits, JoinCrashes, EndBatch
<1>2. CASE StartBatch /\ req.left = 0
  BY <1>1, <1>2, ReturnedFields, SameSlots DEF StartBatch, SlotsInv, Searching, Finding
<1>3. CASE StartBatch /\ req.left # 0
  <2>1. req'.pc = "chunk"
    BY <1>3, StartBatchFields DEF Begun, Typed
  <2>2. \A i \in Slots : ~slot[i].launched
    BY <1>3 DEF StartBatch, SlotsInv
  <2>. QED BY <1>1, <2>1, <2>2, SameSlots DEF Finding, Searching
<1>4. CASE Miss
  <2>1. CASE req' = Failed
    BY <1>1, <2>1, FailedSlots
  <2>2. CASE req' = [req EXCEPT !.pc = "table"]
    BY <1>1, <1>4, <2>2, PcFields, SameSlots
    DEF Miss, Hits, SlotsInv, PCs, Searching, Finding
  <2>. QED BY <1>4, <2>1, <2>2 DEF Miss
<1>5. CASE TableFits
  BY <1>1, <1>5, PcFields, SameSlots DEF TableFits, SlotsInv, PCs, Searching, Finding
<1>6. CASE JoinCrashes
  BY <1>1, <1>6, PcFields, SameSlots DEF JoinCrashes, PCs, Searching, Finding
<1>7. CASE EndBatch
  <2>1. \A i \in Slots : ~slot[i].launched
    BY <1>7 DEF EndBatch, Launched
  <2>2. req'.pc \in {"done", "batch"}
    BY <1>7, ReturnedFields, EndBatchFields DEF EndBatch
  <2>. QED BY <1>1, <2>1, <2>2, SameSlots DEF Searching, Finding
<1>. QED BY <1>2, <1>3, <1>4, <1>5, <1>6, <1>7

LEMMA ResourceStepsSlots ==
  ASSUME Typed, SlotsInv, ReleaseTable \/ CloseSegment \/ OpenSegment \/ LoadTable
  PROVE  SlotsInv'
<1>1. slot' = slot
  BY DEF ReleaseTable, CloseSegment, OpenSegment, LoadTable
<1>2. CASE req' = req
  BY <1>1, <1>2, SameSlots DEF SlotsInv
<1>3. CASE req' = Failed
  BY <1>1, <1>3, FailedSlots
<1>4. CASE OpenSegment /\ req' = [req EXCEPT !.pc = "read"]
  BY <1>1, <1>4, PcFields, SameSlots DEF OpenSegment, SlotsInv, PCs, Searching, Finding
<1>. QED BY <1>2, <1>3, <1>4 DEF ReleaseTable, CloseSegment, OpenSegment, LoadTable

LEMMA JobFields ==
  ASSUME NEW s \in Structure, NEW job \in Jobs
  PROVE  /\ Job(s, job).launched /\ Job(s, job).job = job
         /\ Job(s, job).ChunkInBuff = s.ChunkInBuff
         /\ Job(s, job).uncompressed = s.uncompressed
         /\ Job(s, job).compressed = s.compressed
         /\ Job(s, job).to = req.to /\ Job(s, job).Ofs = req.Ofs
         /\ Job(s, job).Len = Wanted /\ Job(s, job).ok = s.ok
  BY DEF Structure, Job

LEMMA FilledFields ==
  ASSUME NEW s \in Structure, NEW data
  PROVE  /\ Filled(s, data).launched = s.launched /\ Filled(s, data).job = s.job
         /\ Filled(s, data).ChunkInBuff = req.chunk
         /\ Filled(s, data).to = req.to /\ Filled(s, data).Ofs = req.Ofs
         /\ Filled(s, data).Len = Wanted /\ Filled(s, data).ok = s.ok
         /\ req.chunk \in Compressed =>
              /\ Filled(s, data).compressed = data
              /\ Filled(s, data).uncompressed = s.uncompressed
         /\ req.chunk \notin Compressed =>
              /\ Filled(s, data).compressed = s.compressed
              /\ Filled(s, data).uncompressed = data
<1>. SUFFICES ASSUME NEW r, r = Filled(s, data), NEW b, NEW d,
                     b = IF req.chunk \in Compressed THEN data ELSE s.compressed,
                     d = IF req.chunk \in Compressed THEN s.uncompressed ELSE data
              PROVE  /\ r.launched = s.launched /\ r.job = s.job
                     /\ r.ChunkInBuff = req.chunk
                     /\ r.to = req.to /\ r.Ofs = req.Ofs
                     /\ r.Len = Wanted /\ r.ok = s.ok
                     /\ r.compressed = b /\ r.uncompressed = d
  OBVIOUS
<1>1. r = [s EXCEPT !.ChunkInBuff = req.chunk, !.to = req.to, !.Ofs = req.Ofs,
                    !.Len = Wanted, !.compressed = b, !.uncompressed = d]
  BY DEF Filled
<1>. QED BY <1>1 DEF Structure

\* The outcomes of CopyChunk, seen from the structure that is used.
LEMMA CopyChunkOutcome ==
  ASSUME Typed, CopyChunk
  PROVE  \E i \in Slots :
           /\ slot[i].ChunkInBuff = req.chunk
           /\ \E s \in Structure :
                /\ slot' = [slot EXCEPT ![i] = s]
                /\ s.ChunkInBuff = req.chunk
                /\ \/ s = Job(slot[i], "copy") /\ req' = NextChunk
                   \/ /\ s.launched = slot[i].launched /\ s.job = slot[i].job
                      /\ s.to = req.to /\ s.Ofs = req.Ofs /\ s.Len = Wanted
                      /\ req' = Failed
<1>1. PICK i \in Slots :
        /\ i \in Hits
        /\ \/ slot' = [slot EXCEPT ![i] = Job(@, "copy")] /\ req' = NextChunk
           \/ /\ slot' = [slot EXCEPT ![i] = [@ EXCEPT !.to = req.to, !.Ofs = req.Ofs,
                                                       !.Len = Wanted]]
              /\ req' = Failed
  BY DEF CopyChunk, First
<1>2. slot[i].ChunkInBuff = req.chunk /\ slot[i] \in Structure
  BY <1>1 DEF Hits, Typed
<1>3. CASE slot' = [slot EXCEPT ![i] = Job(@, "copy")] /\ req' = NextChunk
  <2>. DEFINE s == Job(slot[i], "copy")
  <2>1. s \in Structure /\ s.ChunkInBuff = req.chunk
    BY <1>2, JobTyped, JobFields DEF Jobs
  <2>2. slot' = [slot EXCEPT ![i] = s]
    BY <1>3 DEF Typed
  <2>. HIDE DEF s
  <2>3. s = Job(slot[i], "copy")
    BY DEF s
  <2>. QED BY <1>2, <1>3, <2>1, <2>2, <2>3
<1>4. CASE /\ slot' = [slot EXCEPT ![i] = [@ EXCEPT !.to = req.to, !.Ofs = req.Ofs,
                                                    !.Len = Wanted]]
           /\ req' = Failed
  <2>. DEFINE s == [slot[i] EXCEPT !.to = req.to, !.Ofs = req.Ofs, !.Len = Wanted]
  <2>1. /\ s \in Structure /\ s.ChunkInBuff = req.chunk
        /\ s.launched = slot[i].launched /\ s.job = slot[i].job
        /\ s.to = req.to /\ s.Ofs = req.Ofs /\ s.Len = Wanted
    BY <1>2, PlaceTyped DEF Structure
  <2>2. slot' = [slot EXCEPT ![i] = s]
    BY <1>4 DEF Typed
  <2>. HIDE DEF s
  <2>. QED BY <1>2, <1>4, <2>1, <2>2
<1>. QED BY <1>1, <1>3, <1>4

\* The outcomes of ReadChunk that use a structure.
LEMMA ReadChunkOutcome ==
  ASSUME Typed, ReadChunk
  PROVE  \/ slot' = slot /\ FreeSlots = {} /\ req' = NextChunk
         \/ slot' = slot /\ req' = Failed
         \/ \E i \in Slots :
              /\ ~slot[i].launched
              /\ \E s \in Structure :
                   /\ slot' = [slot EXCEPT ![i] = s]
                   /\ s.ChunkInBuff = req.chunk
                   /\ s.to = req.to /\ s.Len = Wanted
                   /\ \/ /\ s = Job(Filled(slot[i], Stored(req.chunk)),
                                    IF req.chunk \in Compressed THEN "uncompress"
                                                                ELSE "crc")
                         /\ s.launched /\ req' = NextChunk
                      \/ s.launched /\ req' = Failed
                      \/ ~s.launched /\ s.job = slot[i].job /\ req' = Failed
<1>. DEFINE job == IF req.chunk \in Compressed THEN "uncompress" ELSE "crc"
            data == Stored(req.chunk)
            Used(i) ==
              /\ i \in FreeSlots
              /\ \/ slot' = [slot EXCEPT ![i] = Job(Filled(@, data), job)] /\ req' = NextChunk
                 \/ slot' = [slot EXCEPT ![i] = Job(Filled(@, data), "missing")] /\ req' = Failed
                 \/ slot' = [slot EXCEPT ![i] = Filled(@, None)] /\ req' = Failed
<1>1. \/ slot' = slot /\ FreeSlots = {} /\ req' = NextChunk
      \/ slot' = slot /\ req' = Failed
      \/ \E i \in Slots : Used(i)
  BY DEF ReadChunk, First
<1>2. CASE \E i \in Slots : Used(i)
  <2>1. PICK i \in Slots :
          /\ i \in FreeSlots
          /\ \/ slot' = [slot EXCEPT ![i] = Job(Filled(@, data), job)] /\ req' = NextChunk
             \/ slot' = [slot EXCEPT ![i] = Job(Filled(@, data), "missing")] /\ req' = Failed
             \/ slot' = [slot EXCEPT ![i] = Filled(@, None)] /\ req' = Failed
    BY <1>2
  <2>2. ~slot[i].launched /\ slot[i] \in Structure
    BY <2>1 DEF FreeSlots, Typed
  <2>3. data \in Buffer /\ None \in Buffer /\ job \in Jobs /\ "missing" \in Jobs
    BY StoredTyped, PlaceTyped DEF ReadChunk, Finding, Jobs
  <2>4. /\ Filled(slot[i], data) \in Structure
        /\ Filled(slot[i], data).ChunkInBuff = req.chunk
        /\ Filled(slot[i], None) \in Structure
        /\ Filled(slot[i], None).ChunkInBuff = req.chunk
        /\ Filled(slot[i], None).launched = slot[i].launched
        /\ Filled(slot[i], None).job = slot[i].job
        /\ Filled(slot[i], None).to = req.to /\ Filled(slot[i], None).Len = Wanted
    <3>1. Filled(slot[i], data) \in Structure /\ Filled(slot[i], None) \in Structure
      BY <2>2, <2>3, FilledTyped DEF ReadChunk, Finding
    <3>. HIDE DEF data
    <3>. QED BY <2>2, <3>1, FilledFields
  <2>5. \A j \in Jobs : /\ Job(Filled(slot[i], data), j) \in Structure
                        /\ Job(Filled(slot[i], data), j).ChunkInBuff = req.chunk
                        /\ Job(Filled(slot[i], data), j).launched
                        /\ Job(Filled(slot[i], data), j).to = req.to
                        /\ Job(Filled(slot[i], data), j).Len = Wanted
    <3>. HIDE DEF data
    <3>. QED BY <2>4, JobTyped, JobFields
  <2>6. CASE slot' = [slot EXCEPT ![i] = Job(Filled(@, data), job)] /\ req' = NextChunk
    BY <2>2, <2>3, <2>5, <2>6 DEF Typed
  <2>7. CASE slot' = [slot EXCEPT ![i] = Job(Filled(@, data), "missing")] /\ req' = Failed
    BY <2>2, <2>3, <2>5, <2>7 DEF Typed
  <2>8. CASE slot' = [slot EXCEPT ![i] = Filled(@, None)] /\ req' = Failed
    BY <2>2, <2>4, <2>8 DEF Typed
  <2>. QED BY <2>1, <2>6, <2>7, <2>8
<1>. QED BY <1>1, <1>2

\* A structure that gets the current chunk, which no other one has (unless it
\* were the chunk number of an empty buffer).
LEMMA UsedSlot ==
  ASSUME Typed, SlotsInv, NEW i \in Slots, NEW s \in Structure,
         slot' = [slot EXCEPT ![i] = s], s.ChunkInBuff = req.chunk,
         \A j \in Slots \ {i} : slot[j].ChunkInBuff # req.chunk \/ req.chunk = None,
         s.job # "none" => s.launched, NThreads # 1,
         \A j \in Slots : slot[j].launched => slot[j].ChunkInBuff < req.chunk,
         \/ req'.pc = "join"
         \/ req'.pc = "chunk" /\ req'.chunk = req.chunk + 1
  PROVE  SlotsInv'
<1>1. \A j \in Slots : slot'[j] = IF j = i THEN s ELSE slot[j]
  BY DEF Typed
<1>2. \A j \in Slots : slot[j].ChunkInBuff \in Int /\ req.chunk \in Int
  BY ChunkCountType DEF Typed, Structure, Call, Buffer
<1>3. OneSlotPerChunk'
  BY <1>1 DEF SlotsInv, OneSlotPerChunk, None
<1>. QED BY <1>1, <1>2, <1>3 DEF SlotsInv, Searching, Finding

LEMMA CopyChunkSlots == ASSUME Typed, SlotsInv, CopyChunk PROVE SlotsInv'
<1>1. PICK i \in Slots, s \in Structure :
        /\ slot[i].ChunkInBuff = req.chunk
        /\ slot' = [slot EXCEPT ![i] = s]
        /\ s.ChunkInBuff = req.chunk
        /\ \/ s = Job(slot[i], "copy") /\ req' = NextChunk
           \/ /\ s.launched = slot[i].launched /\ s.job = slot[i].job
              /\ req' = Failed
  BY CopyChunkOutcome
<1>2. slot[i] \in Structure /\ req.chunk \in Int
  BY DEF Typed, Call
<1>3. s.job # "none" => s.launched
  BY <1>1, <1>2, JobFields DEF SlotsInv, Jobs
<1>4. \A j \in Slots : slot[j].launched => slot[j].ChunkInBuff < req.chunk
  BY DEF SlotsInv, CopyChunk, Searching
<1>5. req'.pc = "join" \/ (req'.pc = "chunk" /\ req'.chunk = req.chunk + 1)
  BY <1>1, NextChunkFields, FailedFields DEF CopyChunk
<1>6. \A j \in Slots \ {i} : slot[j].ChunkInBuff # req.chunk \/ req.chunk = None
  BY <1>1 DEF SlotsInv, OneSlotPerChunk
<1>7. NThreads # 1
  BY AewfSizes DEF CopyChunk
<1>. QED BY <1>1, <1>3, <1>4, <1>5, <1>6, <1>7, UsedSlot

LEMMA ReadChunkSlots == ASSUME Typed, SlotsInv, ReadChunk PROVE SlotsInv'
<1>1. req.pc = "read" /\ NThreads # 1
  BY AewfSizes DEF ReadChunk
<1>2. /\ \A j \in Slots : slot[j].launched => slot[j].ChunkInBuff < req.chunk
      /\ \A j \in Slots : slot[j].ChunkInBuff # req.chunk
  BY <1>1 DEF SlotsInv, Searching, Finding
<1>3. req' \in {NextChunk, Failed} =>
        req'.pc = "join" \/ (req'.pc = "chunk" /\ req'.chunk = req.chunk + 1)
  BY <1>1, NextChunkFields, FailedFields
<1>4. CASE slot' = slot
  <2>1. req' \in {NextChunk, Failed}
    BY DEF ReadChunk
  <2>2. \A j \in Slots : slot[j].ChunkInBuff \in Int /\ req.chunk \in Int
    BY ChunkCountType DEF Typed, Structure, Call, Buffer
  <2>. QED BY <1>2, <1>3, <1>4, <2>1, <2>2, SameSlots DEF Searching, Finding
<1>5. CASE slot' # slot
  <2>1. PICK i \in Slots, s \in Structure :
          /\ ~slot[i].launched
          /\ slot' = [slot EXCEPT ![i] = s]
          /\ s.ChunkInBuff = req.chunk
          /\ s.launched \/ s.job = slot[i].job
          /\ req' \in {NextChunk, Failed}
    BY <1>5, ReadChunkOutcome
  <2>2. s.job # "none" => s.launched
    BY <2>1 DEF SlotsInv
  <2>. QED BY <1>1, <1>2, <1>3, <2>1, <2>2, UsedSlot
<1>. QED BY <1>4, <1>5

LEMMA WorkSlots == ASSUME Typed, SlotsInv, NEW i \in Slots, Work(i) PROVE SlotsInv'
<1>. DEFINE s == slot[i]
            data == IF s.job = "uncompress" THEN s.compressed ELSE s.uncompressed
            good == s.job = "copy" \/ data # None
<1>1. slot' = [slot EXCEPT ![i].job = "none", ![i].ok = good, ![i].uncompressed = data]
  BY DEF Work
<1>. HIDE DEF s, data, good
<1>2. /\ \A j \in Slots : /\ slot'[j].ChunkInBuff = slot[j].ChunkInBuff
                          /\ slot'[j].launched = slot[j].launched
                          /\ slot'[j].job # "none" => slot[j].job # "none"
  BY <1>1 DEF Typed, Structure
<1>3. req'.pc = req.pc /\ req'.chunk = req.chunk
  BY WorkFields
<1>. QED BY <1>2, <1>3 DEF SlotsInv, OneSlotPerChunk

LEMMA JoinSlots == ASSUME Typed, SlotsInv, Join PROVE SlotsInv'
<1>1. PICK i \in Slots :
        /\ slot' = [slot EXCEPT ![i].launched = FALSE, ![i].job = "none"]
        /\ req' = Joined(req, slot[i])
  BY DEF Join
<1>2. /\ \A j \in Slots : /\ slot'[j].ChunkInBuff = slot[j].ChunkInBuff
                          /\ slot'[j].launched => slot[j].launched
                          /\ slot'[j].job # "none" => slot'[j].launched
  BY <1>1 DEF Typed, Structure, SlotsInv
<1>3. req'.pc = "join"
  BY <1>1, JoinFields DEF Join
<1>. QED BY <1>2, <1>3 DEF SlotsInv, OneSlotPerChunk, Searching, Finding

LEMMA LegacySlots ==
  ASSUME Typed, SlotsInv, CopyLegacy \/ ReadLegacy
  PROVE  SlotsInv'
<1>1. NThreads = 1 /\ Slots = {0}
  BY DEF CopyLegacy, ReadLegacy, Slots
<1>2. slot'[0].launched = slot[0].launched /\ slot'[0].job = slot[0].job
  <2>1. slot[0] \in Structure
    BY <1>1 DEF Typed
  <2>. QED BY <1>1, <2>1 DEF CopyLegacy, ReadLegacy, Typed, Structure
<1>3. ~slot[0].launched
  BY <1>1 DEF SlotsInv
<1>4. req'.pc \in {"done", "chunk"}
  <2>1. CASE CopyLegacy
    BY <2>1, CopyLegacyFields DEF Served
  <2>2. CASE req' = Failed
    BY <1>1, <2>2, FailedFields
  <2>3. CASE req' = [req EXCEPT !.pc = "chunk"]
    BY <2>3, PcFields DEF PCs, Searching
  <2>. QED BY <2>1, <2>2, <2>3 DEF ReadLegacy
<1>. QED BY <1>1, <1>2, <1>3, <1>4 DEF SlotsInv, OneSlotPerChunk, Finding

LEMMA AewfReadSlots ==
  ASSUME Typed, SlotsInv, NEW from \in 0..ImageSize, NEW count \in 1..ImageSize,
         AewfRead(from, count)
  PROVE  SlotsInv'
<1>1. req'.pc \in {"done", "batch"}
  BY AewfReadFields DEF Accepted
<1>2. slot' = slot /\ req.pc \in {"idle", "done"}
  BY DEF AewfRead
<1>. QED BY <1>1, <1>2, SameSlots DEF SlotsInv, Searching, Finding

LEMMA NextSlots == ASSUME Typed, SlotsInv, [Next]_vars PROVE SlotsInv'
<1>1. CASE UNCHANGED vars
  BY <1>1 DEF vars, SlotsInv, OneSlotPerChunk
<1>2. ASSUME NEW from \in 0..ImageSize, NEW count \in 1..ImageSize,
             AewfRead(from, count)
      PROVE  SlotsInv'
  BY <1>2, AewfReadSlots
<1>3. CASE Step
  BY <1>3, CallStepsSlots, ResourceStepsSlots, CopyChunkSlots, ReadChunkSlots,
     JoinSlots, LegacySlots DEF Step
<1>4. ASSUME NEW i \in Slots, Work(i) PROVE SlotsInv'
  BY <1>4, WorkSlots
<1>. QED BY <1>1, <1>2, <1>3, <1>4 DEF Next

LEMMA AlwaysSlots == Spec => []SlotsInv
<1>1. Typed /\ SlotsInv /\ [Next]_vars => (Typed /\ SlotsInv)'
  BY NextTyped, NextSlots
<1>. QED BY <1>1, InitTyped, InitSlots, PTL DEF Spec

\* No chunk is in the buffers of two thread structures.
THEOREM BuffersApart == Spec => []OneSlotPerChunk
<1>1. SlotsInv => OneSlotPerChunk
  BY DEF SlotsInv
<1>. QED BY <1>1, AlwaysSlots, PTL

\* The job and the buffers of a running thread are left alone.
THEOREM JobsLeftAlone == Spec => JobsUndisturbed
<1>. DEFINE Busy(i) == slot[i].job \in {"uncompress", "crc", "copy"}
            Kept(i) == slot'[i].job = "none" \/ slot'[i] = slot[i]
<1>1. ASSUME Typed, SlotsInv, [Next]_vars, NEW i \in Slots, Busy(i)
      PROVE  Kept(i)
  <2>1. slot[i].launched
    BY <1>1 DEF SlotsInv
  <2>2. CASE slot' = slot
    BY <2>2
  <2>3. CASE CopyChunk
    <3>1. PICK j \in Slots, s \in Structure :
            slot[j].ChunkInBuff = req.chunk /\ slot' = [slot EXCEPT ![j] = s]
      BY <1>1, <2>3, CopyChunkOutcome
    <3>2. slot[i].ChunkInBuff < req.chunk /\ slot[i].ChunkInBuff \in Int
      <4>1. slot[i] \in Structure
        BY <1>1 DEF Typed
      <4>2. slot[i].ChunkInBuff \in Int
        BY <4>1, ChunkCountType DEF Structure, Buffer
      <4>. QED BY <1>1, <2>1, <2>3, <4>2 DEF SlotsInv, CopyChunk, Searching
    <3>3. j # i
      BY <3>1, <3>2
    <3>. QED BY <1>1, <3>1, <3>3 DEF Typed
  <2>4. CASE ReadChunk
    <3>1. CASE slot' = slot
      BY <3>1
    <3>2. CASE slot' # slot
      <4>1. PICK j \in Slots, s \in Structure :
              ~slot[j].launched /\ slot' = [slot EXCEPT ![j] = s]
        BY <1>1, <2>4, <3>2, ReadChunkOutcome
      <4>. QED BY <1>1, <2>1, <4>1 DEF Typed
    <3>. QED BY <3>1, <3>2
  <2>5. CASE Join
    BY <1>1, <2>5 DEF Join, Typed
  <2>6. CASE ReadLegacy
    BY <1>1, <2>1, <2>6 DEF ReadLegacy, SlotsInv
  <2>7. ASSUME NEW j \in Slots, Work(j) PROVE Kept(i)
    BY <1>1, <2>7 DEF Work, Typed, Structure
  <2>8. ASSUME NEW from \in 0..ImageSize, NEW count \in 1..ImageSize,
               AewfRead(from, count)
        PROVE  slot' = slot
    BY <2>8 DEF AewfRead
  <2>. QED BY <1>1, <2>2, <2>3, <2>4, <2>5, <2>6, <2>7, <2>8
       DEF Next, Step, vars, StartBatch, Miss, ReleaseTable, TableFits, CloseSegment,
           OpenSegment, LoadTable, JoinCrashes, EndBatch, CopyLegacy
<1>2. Typed /\ SlotsInv /\ [Next]_vars
        => [\A i \in Slots : Busy(i) => Kept(i)]_vars
  BY <1>1
<1>. QED BY <1>2, AlwaysTyped, AlwaysSlots, PTL DEF Spec, JobsUndisturbed

-----------------------------------------------------------------------------
(* The pieces of a batch                                                   *)

\* The piece that is looked for is the one that starts at the byte that the
\* batch has come to; batches follow each other and stay inside the request.
Position ==
  /\ req.from + req.size <= ImageSize
  /\ 0 <= req.read /\ req.read <= req.size
  /\ \A i \in Slots : slot[i].to >= 0 /\ slot[i].Len >= 0
  /\ req.pc = "batch" \/ (NThreads # 1 /\ req.pc \in Searching \cup {"join"}) =>
       req.seek = req.from + req.read /\ req.left = req.size - req.read
  /\ req.pc = "join" => NThreads # 1
  /\ req.pc \in Searching \cup {"batch"} => ~req.failed
  /\ req.pc \in Searching =>
       /\ req.chunk >= 0 /\ req.chunk * ChunkSize + req.Ofs = req.from + req.to
       /\ req.togo > 0 /\ req.read <= req.to /\ req.to + req.togo <= req.size
       /\ NThreads = 1 => req.to = req.read /\ req.to + req.togo = req.size

\* The bytes that the running and finished jobs of the batch deliver.
Cells(i) == slot[i].to .. slot[i].to + slot[i].Len - 1
LaunchedCells == UNION {Cells(i) : i \in Launched}
CoveredEnd == req.read + req.got + Cardinality(LaunchedCells)

\* The jobs share the batch out among them: while it is read in they have all
\* up to the current piece, and there is one for every chunk; while they are
\* joined, what they have and what was counted add up.
Coverage ==
  (NThreads # 1 /\ ~req.failed /\ req.pc \in Searching \cup {"join"}) =>
    /\ \A i \in Launched : slot[i].Len > 0
    /\ \A i, j \in Launched : i # j => Cells(i) \cap Cells(j) = {}
    /\ req.pc \in Searching =>
         /\ LaunchedCells = req.read .. req.to - 1
         /\ req.got = 0
         /\ req.chunk = req.seek \div ChunkSize + Cardinality(Launched)
         /\ Launched # {} => req.Ofs = 0
         /\ req.to + req.togo <= req.read + NThreads * ChunkSize
    /\ req.pc = "join" =>
         /\ req.got >= 0 /\ IsFiniteSet(LaunchedCells)
         /\ LaunchedCells \subseteq req.read .. CoveredEnd - 1
         /\ CoveredEnd <= req.size

LEMMA InitPieces == Init => Position /\ Coverage
  BY AewfSizes DEF Init, Position, Coverage, Idle, Searching, Finding

\* A step within the search for a chunk, or one that only threads notice.
LEMMA SamePieces ==
  ASSUME Typed, Position, Coverage,
         \A i \in Slots : /\ slot'[i].launched = slot[i].launched
                          /\ slot'[i].to = slot[i].to /\ slot'[i].Len = slot[i].Len,
         /\ req'.chunk = req.chunk /\ req'.Ofs = req.Ofs
         /\ req'.togo = req.togo /\ req'.to = req.to
         /\ req'.from = req.from /\ req'.size = req.size
         /\ req'.seek = req.seek /\ req'.left = req.left
         /\ req'.read = req.read
         /\ req'.got = req.got,
         \/ req'.pc = req.pc /\ req'.failed = req.failed
         \/ req'.pc \in Searching /\ req.pc \in Searching /\ req'.failed = req.failed
         \/ req'.pc = "join" /\ req.pc \in Searching /\ NThreads # 1 /\ req'.failed
         \/ req'.pc \in {"done", "dead"}
  PROVE  Position' /\ Coverage'
<1>1. Launched' = Launched
  BY DEF Launched
<1>2. \A i \in Slots : Cells(i)' = Cells(i)
  BY DEF Cells
<1>3. LaunchedCells' = LaunchedCells
  BY <1>1, <1>2 DEF LaunchedCells, Launched
<1>4. CoveredEnd' = CoveredEnd
  BY <1>3 DEF CoveredEnd
<1>5. Position'
  BY DEF Position, Searching, Finding
<1>6. Coverage'
  BY <1>1, <1>2, <1>3, <1>4 DEF Coverage, Searching, Finding, Launched
<1>. QED BY <1>5, <1>6

LEMMA FailedPieces ==
  ASSUME Typed, Position, Coverage, slot' = slot, req' = Failed,
         req.pc \in Searching
  PROVE  Position' /\ Coverage'
<1>. QED BY FailedFields, SamePieces

LEMMA SearchPieces ==
  ASSUME Typed, Position, Coverage, slot' = slot, NEW pc \in Searching,
         req.pc \in Searching, req' = [req EXCEPT !.pc = pc]
  PROVE  Position' /\ Coverage'
<1>. QED BY PcFields, SamePieces DEF PCs

LEMMA StartBatchPieces ==
  ASSUME Typed, SlotsInv, Position, StartBatch
  PROVE  Position' /\ Coverage'
<1>. USE DEF StartBatch
<1>1. CASE req.left = 0
  BY <1>1, ReturnedFields DEF Position, Coverage, Searching, Finding
<1>2. CASE req.left # 0
  <2>1. /\ req'.pc = "chunk"
        /\ req'.chunk = req.seek \div ChunkSize /\ req'.Ofs = req.seek % ChunkSize
        /\ req'.togo = BatchSize /\ req'.to = req.read
        /\ req'.from = req.from /\ req'.size = req.size
        /\ req'.seek = req.seek /\ req'.left = req.left
        /\ req'.read = req.read
        /\ req'.got = 0 /\ req'.failed = req.failed
    BY <1>2, StartBatchFields DEF Begun, Typed
  <2>2. /\ req.seek = req.from + req.read /\ req.left = req.size - req.read
        /\ req.from \in Nat /\ req.size \in Nat /\ req.read \in Nat
        /\ req.read <= req.size /\ ~req.failed
    BY DEF Typed, Call, Position
  <2>3. req.seek \in Nat /\ req.left \in Nat \ {0}
    BY <1>2, <2>2
  <2>4. NThreads * ChunkSize \in Nat \ {0}
    BY AewfSizes
  <2>5. /\ BatchSize \in Nat \ {0} /\ BatchSize <= req.left
        /\ NThreads = 1 => BatchSize = req.left
        /\ NThreads # 1 => BatchSize <= NThreads * ChunkSize
    BY <2>3, <2>4, AewfSizes DEF BatchSize, Smaller
  <2>6. /\ req.seek \div ChunkSize \in Nat
        /\ (req.seek \div ChunkSize) * ChunkSize + (req.seek % ChunkSize) = req.seek
    <3>. DEFINE q == req.seek \div ChunkSize
                r == req.seek % ChunkSize
    <3>1. q \in Nat /\ r \in 0..ChunkSize-1 /\ req.seek = ChunkSize * q + r
      BY <2>3, DivMod
    <3>. HIDE DEF q, r
    <3>2. q * ChunkSize + r = req.seek
      BY <3>1, AewfSizes
    <3>. QED BY <3>1, <3>2 DEF q, r
  <2>7. Position'
    BY <2>1, <2>2, <2>3, <2>5, <2>6 DEF Position, Searching
  <2>8. Launched' = {} /\ LaunchedCells' = {}
    BY DEF SlotsInv, Launched, LaunchedCells
  <2>9. Cardinality(Launched') = 0 /\ req'.read .. req'.to - 1 = {}
    BY <2>1, <2>2, <2>8, FS_EmptySet
  <2>10. Coverage'
    BY <2>1, <2>2, <2>4, <2>5, <2>6, <2>8, <2>9 DEF Coverage, Searching
  <2>. QED BY <2>7, <2>10
<1>. QED BY <1>1, <1>2

\* The wanted part of a chunk is not empty; it reaches to the end of the chunk
\* or of the batch.
LEMMA WantedPart ==
  ASSUME Typed, Position, req.pc \in Searching
  PROVE  /\ Wanted \in Nat \ {0} /\ Wanted <= req.togo
         /\ req.Ofs + Wanted <= ChunkSize
         /\ req.togo # Wanted => Wanted = ChunkSize - req.Ofs
         /\ req.togo < ChunkSize - req.Ofs => Wanted = req.togo
<1>1. req.Ofs \in 0..ChunkSize-1 /\ req.togo \in Int /\ req.togo > 0
  BY DEF Typed, Call, Position
<1>. QED BY <1>1, AewfSizes DEF Wanted, Smaller

LEMMA NextChunkPosition ==
  ASSUME Typed, Position, req.pc \in Searching, NThreads # 1, req' = NextChunk,
         \A i \in Slots : slot'[i].to >= 0 /\ slot'[i].Len >= 0
  PROVE  Position'
<1>1. req \in Call
  BY DEF Typed
<1>2. /\ req.chunk \in Int /\ req.togo \in Int /\ req.to \in Int /\ req.from \in Nat
      /\ req.size \in Nat /\ req.read \in Int /\ req.Ofs \in 0..ChunkSize-1
  BY <1>1 DEF Call
<1>3. (req.chunk + 1) * ChunkSize = req.chunk * ChunkSize + ChunkSize
  BY <1>2, NextMultiple
<1>4. req.chunk * ChunkSize \in Int
  BY <1>2, NextMultiple
<1>5. req.togo # Wanted =>
        (req.chunk + 1) * ChunkSize + 0 = req.from + (req.to + Wanted)
  BY <1>2, <1>3, <1>4, WantedPart, AewfSizes DEF Position
<1>6. req'.pc = "chunk" => req.togo # Wanted
  BY NextChunkFields
<1>7. req'.pc \in {"chunk", "join"}
  BY NextChunkFields
<1>. QED BY <1>2, <1>5, <1>6, <1>7, NextChunkFields, WantedPart
     DEF Position, Searching, Finding

LEMMA SlotsFinite ==
  /\ IsFiniteSet(Slots) /\ Cardinality(Slots) = NThreads
  /\ IsFiniteSet(Launched) /\ Cardinality(Launched) \in Nat
<1>1. IsFiniteSet(Slots) /\ Cardinality(Slots) = NThreads
  BY FS_Interval, AewfSizes DEF Slots
<1>2. Launched \in SUBSET Slots
  BY DEF Launched
<1>3. IsFiniteSet(Launched)
  BY <1>1, <1>2, FS_Subset
<1>. QED BY <1>1, <1>3, FS_CardinalityType

\* A thread structure starts to work on the current piece.
LEMMA AddedPiece ==
  ASSUME Typed, Position, Coverage, req.pc \in Searching, NThreads # 1,
         NEW i \in Slots, ~slot[i].launched, NEW s \in Structure,
         slot' = [slot EXCEPT ![i] = s], s.launched, s.to = req.to,
         s.Len = Wanted, req' = NextChunk
  PROVE  Position' /\ Coverage'
<1>1. \A j \in Slots : slot'[j] = IF j = i THEN s ELSE slot[j]
  BY DEF Typed
<1>2. /\ Wanted \in Nat \ {0} /\ Wanted <= req.togo
      /\ req.to \in Nat /\ req.read \in Nat /\ req.togo \in Int /\ req.read <= req.to
      /\ req.to + req.togo <= req.size /\ req.size \in Nat
  <2>1. /\ req.to \in Int /\ req.read \in Int /\ req.togo \in Int /\ req.size \in Nat
    BY DEF Typed, Call
  <2>2. 0 <= req.read /\ req.read <= req.to /\ req.to + req.togo <= req.size
    BY DEF Position
  <2>. QED BY <2>1, <2>2, WantedPart
<1>3. Position'
  <2>1. \A j \in Slots : slot'[j].to >= 0 /\ slot'[j].Len >= 0
    BY <1>1, <1>2 DEF Position
  <2>. QED BY <2>1, NextChunkPosition
<1>4. CASE req.failed
  BY <1>4 DEF Position
<1>5. CASE ~req.failed
  <2>1. /\ \A j \in Launched : slot[j].Len > 0
        /\ \A j, k \in Launched : j # k => Cells(j) \cap Cells(k) = {}
        /\ LaunchedCells = req.read .. req.to - 1
        /\ req.got = 0
        /\ req.chunk = req.seek \div ChunkSize + Cardinality(Launched)
        /\ req.to + req.togo <= req.read + NThreads * ChunkSize
    BY <1>5 DEF Coverage
  <2>2. Launched' = Launched \cup {i} /\ i \notin Launched
    BY <1>1 DEF Launched
  <2>3. Cardinality(Launched') = Cardinality(Launched) + 1
    BY <2>2, SlotsFinite, FS_AddElement
  <2>4. \A j \in Launched : Cells(j)' = Cells(j)
    BY <1>1, <2>2 DEF Cells, Launched
  <2>5. Cells(i)' = req.to .. req.to + Wanted - 1
    BY <1>1 DEF Cells
  <2>6. LaunchedCells' = LaunchedCells \cup Cells(i)'
    <3>1. LaunchedCells' = UNION {Cells(j)' : j \in Launched \cup {i}}
      BY <2>2 DEF LaunchedCells
    <3>2. LaunchedCells = UNION {Cells(j) : j \in Launched}
      BY DEF LaunchedCells
    <3>. QED BY <2>4, <3>1, <3>2
  <2>7. LaunchedCells' = req.read .. req.to + Wanted - 1
    BY <1>2, <2>1, <2>5, <2>6
  <2>8. \A j \in Launched : Cells(j) \subseteq req.read .. req.to - 1
    BY <2>1 DEF LaunchedCells
  <2>9. \A j \in Launched : Cells(j)' \cap Cells(i)' = {}
    BY <1>2, <2>4, <2>5, <2>8
  <2>10. \A j, k \in Launched' : j # k => Cells(j)' \cap Cells(k)' = {}
    BY <2>1, <2>2, <2>4, <2>9
  <2>11. \A j \in Launched' : slot'[j].Len > 0
    BY <1>1, <1>2, <2>1, <2>2 DEF Launched
  <2>12. Cardinality(LaunchedCells') = req.to + Wanted - req.read
    <3>1. /\ req.read \in Int /\ req.to + Wanted - 1 \in Int
          /\ ~(req.read > req.to + Wanted - 1)
          /\ (req.to + Wanted - 1) - req.read + 1 = req.to + Wanted - req.read
      BY <1>2
    <3>2. Cardinality(req.read .. req.to + Wanted - 1)
            = (req.to + Wanted - 1) - req.read + 1
      BY <3>1, FS_Interval
    <3>. QED BY <2>7, <3>1, <3>2
  <2>13. /\ req'.got = 0 /\ req'.read = req.read /\ req'.to = req.to + Wanted
         /\ req'.togo = req.togo - Wanted /\ req'.Ofs = 0 /\ req'.seek = req.seek
         /\ req'.chunk = req.chunk + 1 /\ req'.size = req.size
    BY <2>1, NextChunkFields
  <2>14. CoveredEnd' = req.to + Wanted
    BY <1>2, <2>12, <2>13 DEF CoveredEnd
  <2>15. req'.pc \in Searching =>
           /\ LaunchedCells' = req'.read .. req'.to - 1
           /\ req'.got = 0
           /\ req'.chunk = req'.seek \div ChunkSize + Cardinality(Launched')
           /\ Launched' # {} => req'.Ofs = 0
           /\ req'.to + req'.togo <= req'.read + NThreads * ChunkSize
    <3>. DEFINE q == req.seek \div ChunkSize
    <3>1. q \in Int /\ Cardinality(Launched) \in Nat /\ NThreads * ChunkSize \in Nat
      <4>1. req.seek \in Int
        BY DEF Typed, Call
      <4>. QED BY <4>1, SlotsFinite, AewfSizes
    <3>2. req'.seek \div ChunkSize = q
      BY <2>13
    <3>3. req.chunk = q + Cardinality(Launched)
      BY <2>1
    <3>. HIDE DEF q
    <3>4. req.chunk + 1 = q + (Cardinality(Launched) + 1)
      BY <3>1, <3>3
    <3>5. (req.to + Wanted) + (req.togo - Wanted) = req.to + req.togo
      BY <1>2
    <3>6. req'.read .. req'.to - 1 = req.read .. req.to + Wanted - 1
      BY <1>2, <2>13
    <3>7. req'.chunk = req'.seek \div ChunkSize + Cardinality(Launched')
      BY <2>3, <2>13, <3>2, <3>4
    <3>8. req'.to + req'.togo <= req'.read + NThreads * ChunkSize
      BY <2>1, <2>13, <3>5
    <3>. QED BY <2>7, <2>13, <3>6, <3>7, <3>8
  <2>16. req'.pc = "join" =>
           /\ req'.got >= 0 /\ IsFiniteSet(LaunchedCells')
           /\ LaunchedCells' \subseteq req'.read .. CoveredEnd' - 1
           /\ CoveredEnd' <= req'.size
    <3>1. IsFiniteSet(LaunchedCells')
      <4>1. req.read \in Int /\ req.to + Wanted - 1 \in Int
        BY <1>2
      <4>2. IsFiniteSet(req.read .. req.to + Wanted - 1)
        BY <4>1, FS_Interval
      <4>. QED BY <2>7, <4>2
    <3>2. LaunchedCells' \subseteq req'.read .. CoveredEnd' - 1
      <4>1. req'.read = req.read
        BY <2>13
      <4>2. req.to + Wanted - 1 \in Int /\ CoveredEnd' - 1 = req.to + Wanted - 1
        BY <1>2, <2>14
      <4>. QED BY <2>7, <4>1, <4>2
    <3>3. CoveredEnd' <= req'.size
      BY <1>2, <2>13, <2>14
    <3>. QED BY <2>13, <3>1, <3>2, <3>3
  <2>. QED BY <1>3, <2>10, <2>11, <2>15, <2>16 DEF Coverage
<1>. QED BY <1>4, <1>5

\* A thread structure that was to work on the current piece, but does not.
LEMMA AbandonedPiece ==
  ASSUME Typed, Position, Coverage, req.pc \in Searching, NThreads # 1,
         NEW i \in Slots, NEW s \in Structure, slot' = [slot EXCEPT ![i] = s],
         s.to = req.to, s.Len = Wanted, req' = Failed
  PROVE  Position' /\ Coverage'
<1>1. \A j \in Slots : slot'[j] = IF j = i THEN s ELSE slot[j]
  BY DEF Typed
<1>2. req.to >= 0 /\ Wanted >= 0
  <2>1. req.to \in Int /\ req.read \in Int
    BY DEF Typed, Call
  <2>. QED BY <2>1, WantedPart DEF Position
<1>3. req'.pc = "join" /\ req'.failed
  BY FailedFields
<1>4. Position'
  BY <1>1, <1>2, <1>3, FailedFields DEF Position, Searching, Finding
<1>. QED BY <1>3, <1>4 DEF Coverage

\* More chunks than threads: when all threads are busy what is left of the
\* batch is less than a chunk, and it is dropped.
LEMMA DroppedPiece ==
  ASSUME Typed, Position, Coverage, req.pc \in Searching, NThreads # 1,
         slot' = slot, FreeSlots = {}, req' = NextChunk
  PROVE  Position' /\ Coverage'
<1>1. Position'
  BY NextChunkPosition DEF Position
<1>2. ~req.failed
  BY DEF Position
<1>3. Launched = Slots
  BY DEF FreeSlots, Launched
<1>4. /\ \A j \in Launched : slot[j].Len > 0
      /\ \A j, k \in Launched : j # k => Cells(j) \cap Cells(k) = {}
      /\ LaunchedCells = req.read .. req.to - 1
      /\ req.got = 0
      /\ req.chunk = req.seek \div ChunkSize + NThreads
      /\ req.Ofs = 0
      /\ req.to + req.togo <= req.read + NThreads * ChunkSize
  <2>1. Cardinality(Launched) = NThreads
    BY <1>3, SlotsFinite
  <2>2. Launched # {}
    BY <1>3, AewfSizes DEF Slots
  <2>. QED BY <1>2, <2>1, <2>2 DEF Coverage
<1>5. /\ req.to \in Nat /\ req.read \in Nat /\ req.togo \in Int /\ req.read <= req.to
      /\ req.to + req.togo <= req.size /\ req.size \in Nat /\ req.from \in Nat
      /\ req.togo > 0
      /\ req.seek = req.from + req.read
      /\ req.chunk * ChunkSize + req.Ofs = req.from + req.to
  <2>1. /\ req.to \in Int /\ req.read \in Int /\ req.togo \in Int /\ req.size \in Nat
        /\ req.from \in Nat
    BY DEF Typed, Call
  <2>. QED BY <2>1 DEF Position
<1>6. Wanted = req.togo
  <2>. DEFINE q == req.seek \div ChunkSize
              r == req.seek % ChunkSize
  <2>1. q \in Nat /\ r \in 0..ChunkSize-1 /\ req.seek = ChunkSize * q + r
    BY <1>5, DivMod
  <2>2. req.chunk = q + NThreads
    BY <1>4
  <2>. HIDE DEF q, r
  <2>3. req.chunk * ChunkSize = q * ChunkSize + NThreads * ChunkSize
    BY <2>1, <2>2, AewfSizes
  <2>4. /\ q * ChunkSize \in Int /\ NThreads * ChunkSize \in Int
        /\ ChunkSize * q = q * ChunkSize
    BY <2>1, AewfSizes
  <2>5. req.togo < ChunkSize - req.Ofs
    <3>1. \A A, B, C \in Int :
            (/\ C = A + B /\ C + req.Ofs = req.from + req.to
             /\ req.seek = A + r /\ req.to + req.togo <= req.read + B)
              => req.togo < ChunkSize - req.Ofs
      <4>1. r \in Int /\ r < ChunkSize /\ req.Ofs = 0 /\ ChunkSize \in Int
        BY <1>4, <2>1, AewfSizes
      <4>2. /\ req.to \in Int /\ req.read \in Int /\ req.togo \in Int
            /\ req.from \in Int /\ req.seek = req.from + req.read
        BY <1>5
      <4>. QED BY <4>1, <4>2
    <3>2. req.chunk * ChunkSize \in Int
      BY <2>3, <2>4
    <3>. QED BY <1>4, <1>5, <2>1, <2>3, <2>4, <3>1, <3>2
  <2>. QED BY <2>5, WantedPart
<1>7. /\ req'.pc = "join" /\ req'.got = 0 /\ req'.read = req.read
      /\ req'.size = req.size
  BY <1>4, <1>6, NextChunkFields
<1>8. /\ Launched' = Launched /\ LaunchedCells' = LaunchedCells
      /\ \A j \in Launched : Cells(j)' = Cells(j) /\ slot'[j].Len = slot[j].Len
  BY DEF Launched, LaunchedCells, Cells
<1>9. Cardinality(LaunchedCells) = req.to - req.read
  <2>1. /\ req.read \in Int /\ req.to - 1 \in Int
        /\ IF req.read > req.to - 1 THEN req.to - req.read = 0
           ELSE (req.to - 1) - req.read + 1 = req.to - req.read
    BY <1>5
  <2>2. Cardinality(req.read .. req.to - 1)
          = IF req.read > req.to - 1 THEN 0 ELSE (req.to - 1) - req.read + 1
    BY <2>1, FS_Interval
  <2>. QED BY <1>4, <2>1, <2>2
<1>10. CoveredEnd' = req.to
  BY <1>5, <1>7, <1>8, <1>9 DEF CoveredEnd
<1>11. LaunchedCells' \subseteq req'.read .. CoveredEnd' - 1 /\ CoveredEnd' <= req'.size
  BY <1>4, <1>5, <1>7, <1>8, <1>10
<1>12. IsFiniteSet(LaunchedCells')
  <2>1. req.read \in Int /\ req.to - 1 \in Int
    BY <1>5
  <2>2. IsFiniteSet(req.read .. req.to - 1)
    BY <2>1, FS_Interval
  <2>. QED BY <1>4, <1>8, <2>2
<1>13. Coverage'
  BY <1>4, <1>7, <1>8, <1>11, <1>12 DEF Coverage, Searching, Finding
<1>. QED BY <1>1, <1>13

\* What is joined is taken from the cells that are still to be joined.
LEMMA JoinedCells ==
  ASSUME Typed, NEW i \in Launched, Launched' = Launched \ {i},
         \A j \in Slots : Cells(j)' = Cells(j),
         \A j, k \in Launched : j # k => Cells(j) \cap Cells(k) = {},
         slot[i].Len > 0, IsFiniteSet(LaunchedCells),
         req'.read = req.read, req'.got = req.got + slot[i].Len
  PROVE  /\ LaunchedCells' = LaunchedCells \ Cells(i)
         /\ IsFiniteSet(LaunchedCells') /\ CoveredEnd' = CoveredEnd
<1>1. LaunchedCells' = LaunchedCells \ Cells(i)
  <2>1. LaunchedCells' = UNION {Cells(j) : j \in Launched \ {i}}
    BY DEF LaunchedCells, Launched
  <2>2. LaunchedCells = UNION {Cells(j) : j \in Launched}
    BY DEF LaunchedCells
  <2>. QED BY <2>1, <2>2
<1>2. /\ slot[i].to \in Int /\ slot[i].Len \in Int /\ i \in Slots
      /\ req.read \in Int /\ req.got \in Int
  <2>1. slot[i] \in Structure /\ req \in Call /\ i \in Slots
    BY DEF Typed, Launched
  <2>2. req.read \in Int /\ req.got \in Int
    BY <2>1 DEF Call
  <2>3. slot[i].to \in Int /\ slot[i].Len \in Int
    BY <2>1 DEF Structure
  <2>. QED BY <2>1, <2>2, <2>3
<1>3. /\ IsFiniteSet(LaunchedCells) /\ IsFiniteSet(Cells(i))
      /\ Cardinality(Cells(i)) = slot[i].Len
  <2>1. /\ slot[i].to + slot[i].Len - 1 \in Int
        /\ ~(slot[i].to > slot[i].to + slot[i].Len - 1)
        /\ (slot[i].to + slot[i].Len - 1) - slot[i].to + 1 = slot[i].Len
    BY <1>2
  <2>2. /\ IsFiniteSet(slot[i].to .. slot[i].to + slot[i].Len - 1)
        /\ Cardinality(slot[i].to .. slot[i].to + slot[i].Len - 1)
             = (slot[i].to + slot[i].Len - 1) - slot[i].to + 1
    BY <1>2, <2>1, FS_Interval
  <2>. QED BY <2>1, <2>2 DEF Cells
<1>4. Cells(i) \subseteq LaunchedCells
  BY DEF LaunchedCells
<1>5. /\ IsFiniteSet(LaunchedCells')
      /\ Cardinality(LaunchedCells') \in Nat
      /\ Cardinality(LaunchedCells) = Cardinality(LaunchedCells') + slot[i].Len
  <2>. DEFINE A == LaunchedCells
              B == Cells(i)
              C == A \ B
  <2>1. IsFiniteSet(C) /\ Cardinality(C) \in Nat
    BY <1>3, FS_Subset, FS_CardinalityType
  <2>2. A = C \cup B /\ C \cap B = {}
    BY <1>4
  <2>. HIDE DEF A, B, C
  <2>3. Cardinality(A) = Cardinality(C) + Cardinality(B) - Cardinality(C \cap B)
    BY <1>3, <2>1, <2>2, FS_Union DEF B
  <2>4. Cardinality(C \cap B) = 0
    BY <2>2, FS_EmptySet
  <2>5. Cardinality(A) = Cardinality(C) + slot[i].Len
    BY <1>2, <1>3, <2>1, <2>3, <2>4 DEF B
  <2>6. LaunchedCells' = C
    BY <1>1 DEF A, B, C
  <2>. QED BY <2>1, <2>5, <2>6 DEF A
<1>6. CoveredEnd' = CoveredEnd
  BY <1>2, <1>5 DEF CoveredEnd
<1>. QED BY <1>1, <1>5, <1>6

\* The thread of a structure is joined.
LEMMA JoinPieces ==
  ASSUME Typed, Position, Coverage, Join
  PROVE  Position' /\ Coverage'
<1>1. PICK i \in Slots :
        /\ i \in Launched
        /\ slot' = [slot EXCEPT ![i].launched = FALSE, ![i].job = "none"]
        /\ req' = Joined(req, slot[i])
  BY DEF Join, First
<1>2. \A j \in Slots : /\ slot'[j].to = slot[j].to /\ slot'[j].Len = slot[j].Len
                       /\ slot'[j].launched = (slot[j].launched /\ j # i)
  BY <1>1 DEF Typed, Structure
<1>3. /\ req'.pc = "join"
      /\ req'.from = req.from /\ req'.size = req.size
      /\ req'.seek = req.seek /\ req'.left = req.left
      /\ req'.read = req.read
      /\ req'.got = req.got + slot[i].Len
      /\ req'.failed = (req.failed \/ ~slot[i].ok)
  BY <1>1, JoinFields DEF Join
<1>4. Position'
  BY <1>2, <1>3 DEF Position, Searching, Finding, Join
<1>5. CASE req'.failed
  BY <1>4, <1>5 DEF Coverage
<1>6. CASE ~req'.failed
  <2>1. ~req.failed /\ req.pc = "join" /\ NThreads # 1
    BY <1>3, <1>6 DEF Join, Position, Typed, Call
  <2>2. /\ \A j \in Launched : slot[j].Len > 0
        /\ \A j, k \in Launched : j # k => Cells(j) \cap Cells(k) = {}
        /\ req.got >= 0
        /\ LaunchedCells \subseteq req.read .. CoveredEnd - 1
        /\ CoveredEnd <= req.size
    BY <2>1 DEF Coverage
  <2>3. Launched' = Launched \ {i}
    BY <1>2 DEF Launched
  <2>4. \A j \in Slots : Cells(j)' = Cells(j)
    BY <1>2 DEF Cells
  <2>5. /\ IsFiniteSet(LaunchedCells) /\ slot[i].Len > 0
        /\ req.read \in Int /\ req.got \in Int /\ slot[i].Len \in Int
    <3>1. slot[i] \in Structure /\ req \in Call
      BY <1>1 DEF Typed, Launched
    <3>2. req.read \in Int /\ req.got \in Int
      BY <3>1 DEF Call
    <3>3. slot[i].Len \in Int
      BY <3>1 DEF Structure
    <3>. QED BY <1>1, <2>1, <2>2, <3>2, <3>3 DEF Coverage
  <2>6. /\ LaunchedCells' = LaunchedCells \ Cells(i)
        /\ IsFiniteSet(LaunchedCells') /\ CoveredEnd' = CoveredEnd
    BY <1>1, <1>3, <2>2, <2>3, <2>4, <2>5, JoinedCells
  <2>7. \A j, k \in Launched' : j # k => Cells(j)' \cap Cells(k)' = {}
    BY <2>2, <2>3, <2>4 DEF Launched
  <2>8. \A j \in Launched' : slot'[j].Len > 0
    BY <1>2, <2>2, <2>3 DEF Launched
  <2>9. /\ req'.got >= 0
         /\ LaunchedCells' \subseteq req'.read .. CoveredEnd' - 1
         /\ CoveredEnd' <= req'.size
    <3>1. req'.got >= 0
      BY <1>3, <2>2, <2>5
    <3>. QED BY <1>3, <2>2, <2>6, <3>1
  <2>. QED BY <1>3, <1>4, <2>6, <2>7, <2>8, <2>9 DEF Coverage, Searching, Finding
<1>. QED BY <1>4, <1>5, <1>6

\* A batch whose threads are all joined has what CoveredEnd says.
LEMMA EndBatchPieces ==
  ASSUME Typed, Position, Coverage, EndBatch
  PROVE  Position' /\ Coverage'
<1>1. slot' = slot /\ req.pc = "join" /\ Launched = {}
  BY DEF EndBatch
<1>2. CASE req.failed
  BY <1>1, <1>2, ReturnedFields DEF EndBatch, Position, Coverage, Searching, Finding
<1>3. CASE ~req.failed
  <2>1. /\ NThreads # 1
        /\ req.seek = req.from + req.read /\ req.left = req.size - req.read
    BY <1>1 DEF Position
  <2>2. req.got >= 0 /\ CoveredEnd <= req.size
    BY <1>1, <1>3, <2>1 DEF Coverage
  <2>3. LaunchedCells = {}
    BY <1>1 DEF LaunchedCells
  <2>4. req.read \in Int /\ req.got \in Int /\ req.from \in Nat /\ req.size \in Nat
    BY DEF Typed, Call
  <2>5. req.read + req.got <= req.size
    BY <2>2, <2>3, <2>4, FS_EmptySet DEF CoveredEnd
  <2>6. /\ req'.pc = "batch"
        /\ req'.from = req.from /\ req'.size = req.size
        /\ req'.seek = req.seek + req.got /\ req'.left = req.left - req.got
        /\ req'.read = req.read + req.got /\ req'.failed = req.failed
    BY <1>3, EndBatchFields
  <2>7. Position'
    BY <1>1, <1>3, <2>1, <2>2, <2>4, <2>5, <2>6 DEF Position, Searching, Finding
  <2>8. Coverage'
    BY <2>6 DEF Coverage, Searching, Finding
  <2>. QED BY <2>7, <2>8
<1>. QED BY <1>2, <1>3

LEMMA CopyChunkPieces ==
  ASSUME Typed, SlotsInv, Position, Coverage, CopyChunk
  PROVE  Position' /\ Coverage'
<1>1. PICK i \in Slots, s \in Structure :
        /\ slot[i].ChunkInBuff = req.chunk
        /\ slot' = [slot EXCEPT ![i] = s]
        /\ \/ s = Job(slot[i], "copy") /\ req' = NextChunk
           \/ /\ s.launched = slot[i].launched /\ s.job = slot[i].job
              /\ s.to = req.to /\ s.Ofs = req.Ofs /\ s.Len = Wanted
              /\ req' = Failed
  BY CopyChunkOutcome
<1>2. req.pc \in Searching /\ NThreads # 1
  BY AewfSizes DEF CopyChunk, Searching
<1>3. ~slot[i].launched
  <2>1. req.chunk \in Int
    BY DEF Typed, Call
  <2>. QED BY <1>1, <1>2, <2>1 DEF SlotsInv
<1>4. CASE s = Job(slot[i], "copy") /\ req' = NextChunk
  <2>1. slot[i] \in Structure
    BY DEF Typed
  <2>2. s.launched /\ s.to = req.to /\ s.Len = Wanted
    BY <1>4, <2>1, JobFields DEF Jobs
  <2>. QED BY <1>1, <1>2, <1>3, <1>4, <2>2, AddedPiece
<1>5. CASE s.to = req.to /\ s.Len = Wanted /\ req' = Failed
  BY <1>1, <1>2, <1>5, AbandonedPiece
<1>. QED BY <1>1, <1>4, <1>5

LEMMA ReadChunkPieces ==
  ASSUME Typed, SlotsInv, Position, Coverage, ReadChunk
  PROVE  Position' /\ Coverage'
<1>1. req.pc \in Searching /\ NThreads # 1
  BY AewfSizes DEF ReadChunk, Searching, Finding
<1>2. CASE slot' = slot /\ FreeSlots = {} /\ req' = NextChunk
  BY <1>1, <1>2, DroppedPiece
<1>3. CASE slot' = slot /\ req' = Failed
  BY <1>1, <1>3, FailedPieces
<1>4. CASE \E i \in Slots :
              /\ ~slot[i].launched
              /\ \E s \in Structure :
                   /\ slot' = [slot EXCEPT ![i] = s]
                   /\ s.to = req.to /\ s.Len = Wanted
                   /\ \/ s.launched /\ req' = NextChunk
                      \/ req' = Failed
  <2>1. PICK i \in Slots, s \in Structure :
          /\ ~slot[i].launched
          /\ slot' = [slot EXCEPT ![i] = s]
          /\ s.to = req.to /\ s.Len = Wanted
          /\ \/ s.launched /\ req' = NextChunk
             \/ req' = Failed
    BY <1>4
  <2>2. CASE s.launched /\ req' = NextChunk
    BY <1>1, <2>1, <2>2, AddedPiece
  <2>3. CASE req' = Failed
    BY <1>1, <2>1, <2>3, AbandonedPiece
  <2>. QED BY <2>1, <2>2, <2>3
<1>. QED BY <1>2, <1>3, <1>4, ReadChunkOutcome

LEMMA LegacyPieces ==
  ASSUME Typed, Position, Coverage, CopyLegacy \/ ReadLegacy
  PROVE  Position' /\ Coverage'
<1>1. NThreads = 1 /\ req.pc \in Searching
  BY DEF CopyLegacy, ReadLegacy, Searching, Finding
<1>2. Coverage'
  BY <1>1 DEF Coverage
<1>3. \A i \in Slots : /\ slot'[i].launched = slot[i].launched
                       /\ slot'[i].to = slot[i].to /\ slot'[i].Len = slot[i].Len
  <2>1. CASE slot' = slot
    BY <2>1
  <2>2. ASSUME NEW b, NEW d,
               slot' = [slot EXCEPT ![0].ChunkInBuff = b, ![0].uncompressed = d]
        PROVE  \A i \in Slots : /\ slot'[i].launched = slot[i].launched
                                /\ slot'[i].to = slot[i].to
                                /\ slot'[i].Len = slot[i].Len
    BY <2>2 DEF Typed, Structure
  <2>3. ASSUME NEW d, slot' = [slot EXCEPT ![0].uncompressed = d]
        PROVE  \A i \in Slots : /\ slot'[i].launched = slot[i].launched
                                /\ slot'[i].to = slot[i].to
                                /\ slot'[i].Len = slot[i].Len
    BY <2>3 DEF Typed, Structure
  <2>. QED BY <2>1, <2>2, <2>3 DEF CopyLegacy, ReadLegacy
<1>4. CASE ReadLegacy
  <2>1. CASE req' = Failed
    BY <1>1, <1>3, <2>1, FailedFields, SamePieces
  <2>2. CASE req' = [req EXCEPT !.pc = "chunk"]
    <3>1. req'.pc \in Searching
      BY <2>2, PcFields DEF PCs, Searching
    <3>2. "chunk" \in PCs
      BY DEF PCs, Searching
    <3>. QED BY <1>1, <1>3, <2>2, <3>1, <3>2, PcFields, SamePieces
  <2>. QED BY <1>2, <1>4, <2>1, <2>2 DEF ReadLegacy
<1>5. CASE CopyLegacy
  <2>1. /\ req'.pc = IF req.togo = Wanted THEN "done" ELSE "chunk"
        /\ req'.from = req.from /\ req'.size = req.size
        /\ req'.read = req.read + Wanted /\ req'.chunk = req.chunk + 1
        /\ req'.Ofs = 0 /\ req'.togo = req.togo - Wanted
        /\ req'.to = req.to + Wanted /\ req'.failed = req.failed
    BY <1>5, CopyLegacyFields DEF Served
  <2>2. /\ req.chunk \in Int /\ req.togo \in Int /\ req.to \in Int /\ req.from \in Nat
        /\ req.size \in Nat /\ req.read \in Int /\ req.Ofs \in 0..ChunkSize-1
    BY DEF Typed, Call
  <2>3. /\ (req.chunk + 1) * ChunkSize = req.chunk * ChunkSize + ChunkSize
        /\ req.chunk * ChunkSize \in Int
    BY <2>2, NextMultiple
  <2>4. /\ req.chunk >= 0 /\ req.chunk * ChunkSize + req.Ofs = req.from + req.to
        /\ req.togo > 0 /\ req.to = req.read /\ req.to + req.togo = req.size
        /\ 0 <= req.read /\ req.from + req.size <= ImageSize /\ ~req.failed
        /\ \A i \in Slots : slot[i].to >= 0 /\ slot[i].Len >= 0
    BY <1>1 DEF Position
  <2>5. req.togo # Wanted =>
          (req.chunk + 1) * ChunkSize + 0 = req.from + (req.to + Wanted)
    BY <1>1, <2>2, <2>3, <2>4, WantedPart, AewfSizes
  <2>6. Wanted \in Nat \ {0} /\ Wanted <= req.togo
    BY <1>1, WantedPart
  <2>7. Position'
    BY <1>1, <1>3, <2>1, <2>2, <2>4, <2>5, <2>6 DEF Position, Searching, Finding
  <2>. QED BY <1>2, <2>7
<1>. QED BY <1>4, <1>5

LEMMA AewfReadPieces ==
  ASSUME Typed, Position, NEW from \in 0..ImageSize, NEW count \in 1..ImageSize,
         AewfRead(from, count)
  PROVE  Position' /\ Coverage'
<1>. DEFINE size == ReadSize(from, count)
<1>1. size \in Nat /\ from + size <= ImageSize
  BY ReadSizeFits
<1>2. req' = Accepted(from, size) /\ slot' = slot
  BY AewfReadFields DEF AewfRead
<1>. HIDE DEF size
<1>3. /\ req'.pc \in {"done", "batch"}
      /\ req'.from = from /\ req'.size = size /\ req'.seek = from
      /\ req'.left = size /\ req'.read = 0 /\ req'.failed = FALSE
  BY <1>2 DEF Accepted
<1>4. Position'
  BY <1>1, <1>2, <1>3, AewfSizes DEF Position, Searching, Finding
<1>. QED BY <1>3, <1>4 DEF Coverage, Searching, Finding

\* The steps that neither touch a structure nor move on in the batch.
LEMMA OtherPieces ==
  ASSUME Typed, Position, Coverage,
         \/ Miss \/ TableFits \/ JoinCrashes \/ ReleaseTable \/ CloseSegment
         \/ OpenSegment \/ LoadTable
  PROVE  Position' /\ Coverage'
<1>1. slot' = slot
  BY DEF Miss, TableFits, JoinCrashes, ReleaseTable, CloseSegment, OpenSegment, LoadTable
<1>2. CASE req' = req
  BY <1>1, <1>2, SamePieces
<1>3. CASE req' = Failed /\ req.pc \in Searching
  BY <1>1, <1>3, FailedPieces
<1>4. ASSUME NEW pc \in Searching, req' = [req EXCEPT !.pc = pc], req.pc \in Searching
      PROVE  Position' /\ Coverage'
  BY <1>1, <1>4, SearchPieces
<1>5. CASE JoinCrashes
  <2>1. req' = [req EXCEPT !.pc = "dead"]
    BY <1>5 DEF JoinCrashes
  <2>. QED BY <1>1, <2>1, PcFields, SamePieces DEF PCs
<1>. QED BY <1>2, <1>3, <1>4, <1>5
     DEF Miss, TableFits, ReleaseTable, CloseSegment, OpenSegment, LoadTable,
         Searching, Finding

LEMMA WorkPieces ==
  ASSUME Typed, Position, Coverage, NEW i \in Slots, Work(i)
  PROVE  Position' /\ Coverage'
<1>1. \A j \in Slots : /\ slot'[j].launched = slot[j].launched
                       /\ slot'[j].to = slot[j].to /\ slot'[j].Len = slot[j].Len
  BY DEF Work, Typed, Structure
<1>. QED BY <1>1, WorkFields, SamePieces

LEMMA NextPieces ==
  ASSUME Typed, SlotsInv, Position, Coverage, [Next]_vars
  PROVE  Position' /\ Coverage'
<1>1. CASE UNCHANGED vars
  BY <1>1, SamePieces DEF vars
<1>2. ASSUME NEW from \in 0..ImageSize, NEW count \in 1..ImageSize,
             AewfRead(from, count)
      PROVE  Position' /\ Coverage'
  BY <1>2, AewfReadPieces
<1>3. CASE Step
  BY <1>3, StartBatchPieces, OtherPieces, CopyChunkPieces, ReadChunkPieces,
     JoinPieces, EndBatchPieces, LegacyPieces DEF Step
<1>4. ASSUME NEW i \in Slots, Work(i) PROVE Position' /\ Coverage'
  BY <1>4, WorkPieces
<1>. QED BY <1>1, <1>2, <1>3, <1>4 DEF Next

LEMMA AlwaysPieces == Spec => [](Position /\ Coverage)
<1>1. Typed /\ SlotsInv /\ Position /\ Coverage /\ [Next]_vars => (Position /\ Coverage)'
  BY NextPieces
<1>. QED BY <1>1, InitPieces, AlwaysTyped, AlwaysSlots, PTL DEF Spec

\* Every variable has its type; in particular no read is answered with more
\* bytes than were asked for.
THEOREM Typing == Spec => []TypeOK
<1>1. Typed /\ Position => TypeOK
  <2>. SUFFICES ASSUME Typed, Position PROVE TypeOK
    OBVIOUS
  <2>1. slot \in [Slots -> SlotState]
    <3>1. ASSUME NEW i \in Slots PROVE slot[i] \in SlotState
      <4>1. slot[i] \in Structure /\ slot[i].to >= 0 /\ slot[i].Len >= 0
        BY DEF Typed, Position
      <4>. QED BY <4>1, AewfSizes DEF Structure, SlotState, Jobs
    <3>. QED BY <3>1 DEF Typed
  <2>2. /\ req.pc \in {"idle", "batch", "chunk", "table", "segment", "read", "join",
                       "done", "dead"}
        /\ req.failed \in BOOLEAN /\ req.ok \in BOOLEAN /\ req.read \in Int
        /\ req.size \in Nat
    BY DEF Typed, Call, PCs, Searching, Finding
  <2>3. req.read \in 0..req.size
    BY <2>2 DEF Position
  <2>. QED BY <2>1, <2>2, <2>3 DEF TypeOK, Typed
<1>. QED BY <1>1, AlwaysTyped, AlwaysPieces, PTL

-----------------------------------------------------------------------------
(* What the buffers hold when at most segment files fail to open            *)

\* Segment files may fail to open, or have another size than they had.
Harmless == Faults \subseteq {"open", "size"}

\* A buffer that is said to hold an undamaged chunk does, and a thread that
\* uncompresses one has its data.
BuffersInv ==
  /\ \A t \in Tables : pEwfTable[t] # "garbage"
  /\ req.pc # "dead"
  /\ \A i \in Slots : slot[i].job # "missing"
  /\ \A i \in Slots :
       (slot[i].ChunkInBuff # None /\ slot[i].ChunkInBuff \notin Damaged) =>
         slot[i].ChunkInBuff = IF slot[i].job = "uncompress"
                               THEN slot[i].compressed ELSE slot[i].uncompressed

\* A job is for a part of the request and of one chunk.
PlacedInv ==
  \A i \in Slots : slot[i].launched =>
    /\ slot[i].ChunkInBuff \in Chunks
    /\ slot[i].ChunkInBuff * ChunkSize + slot[i].Ofs = req.from + slot[i].to
    /\ slot[i].Ofs + slot[i].Len <= ChunkSize
    /\ slot[i].to + slot[i].Len <= req.size

LEMMA InitBuffers == Init => BuffersInv /\ PlacedInv
  BY DEF Init, BuffersInv, PlacedInv, Idle

\* The chunk that is looked for is one of the image.
LEMMA CurrentChunk ==
  ASSUME Typed, Position, req.pc \in Searching
  PROVE  /\ req.chunk \in Chunks /\ req.chunk # None
         /\ req.to \in 0..req.size-1
         /\ (req.from + req.to) \div ChunkSize = req.chunk
<1>1. /\ req.chunk \in Nat /\ req.Ofs \in Nat /\ req.Ofs < ChunkSize
      /\ req.from \in Nat /\ req.to \in Nat /\ req.size \in Nat /\ req.togo \in Int
  <2>1. /\ req.chunk \in Int /\ req.Ofs \in 0..ChunkSize-1 /\ req.read \in Int
        /\ req.from \in Nat /\ req.to \in Int /\ req.size \in Nat /\ req.togo \in Int
    BY DEF Typed, Call
  <2>. QED BY <2>1, AewfSizes DEF Position
<1>2. /\ req.chunk * ChunkSize + req.Ofs = req.from + req.to
      /\ req.togo > 0 /\ req.to + req.togo <= req.size
      /\ req.from + req.size <= ImageSize
  BY DEF Position
<1>3. req.to < req.size /\ req.from + req.to < ImageSize
  BY <1>1, <1>2, AewfSizes
<1>4. req.chunk * ChunkSize + req.Ofs < ImageSize
  BY <1>2, <1>3
<1>5. req.chunk \in Chunks /\ req.chunk < ChunkCount
  BY <1>1, <1>4, ChunkInImage
<1>6. (req.chunk * ChunkSize + req.Ofs) \div ChunkSize = req.chunk
  BY <1>1, ChunkOfCell
<1>. QED BY <1>1, <1>2, <1>3, <1>5, <1>6, ChunkCountType DEF None

\* A structure that was given the current piece.
Assigned(i, s) ==
  /\ ~slot[i].launched
  /\ slot' = [slot EXCEPT ![i] = s]
  /\ s.launched /\ s.job # "none" /\ s.job # "missing"
  /\ s.ChunkInBuff = req.chunk
  /\ s.to = req.to /\ s.Ofs = req.Ofs /\ s.Len = Wanted
  /\ req.chunk \notin Damaged =>
       req.chunk = IF s.job = "uncompress" THEN s.compressed ELSE s.uncompressed

LEMMA GoodCopy ==
  ASSUME Typed, SlotsInv, Position, BuffersInv, Harmless, CopyChunk
  PROVE  req' = NextChunk /\ \E i \in Slots, s \in Structure : Assigned(i, s)
<1>1. PICK i \in Slots :
        /\ i \in Hits
        /\ slot' = [slot EXCEPT ![i] = Job(@, "copy")]
        /\ req' = NextChunk
  BY DEF CopyChunk, First, Harmless
<1>2. slot[i].ChunkInBuff = req.chunk /\ slot[i] \in Structure /\ req.chunk \in Int
  BY <1>1 DEF Hits, Typed, Call
<1>3. req.pc \in Searching
  BY DEF CopyChunk, Searching
<1>4. ~slot[i].launched /\ slot[i].job = "none"
  BY <1>2, <1>3 DEF SlotsInv
<1>5. req.chunk # None
  BY <1>3, CurrentChunk
<1>6. req.chunk \notin Damaged => slot[i].uncompressed = req.chunk
  BY <1>2, <1>4, <1>5 DEF BuffersInv
<1>. DEFINE s == Job(slot[i], "copy")
<1>7. s \in Structure
  BY <1>2, JobTyped DEF Jobs
<1>8. /\ s.launched /\ s.job = "copy" /\ s.ChunkInBuff = req.chunk
      /\ s.to = req.to /\ s.Ofs = req.Ofs /\ s.Len = Wanted
      /\ s.uncompressed = slot[i].uncompressed
  BY <1>2, JobFields DEF Jobs
<1>9. slot' = [slot EXCEPT ![i] = s]
  BY <1>1 DEF Typed
<1>. HIDE DEF s
<1>10. Assigned(i, s)
  BY <1>4, <1>6, <1>8, <1>9 DEF Assigned
<1>. QED BY <1>1, <1>7, <1>10

LEMMA GoodRead ==
  ASSUME Typed, SlotsInv, Position, BuffersInv, Harmless, ReadChunk
  PROVE  /\ req' = NextChunk
         /\ \/ slot' = slot /\ FreeSlots = {}
            \/ \E i \in Slots, s \in Structure : Assigned(i, s)
<1>. DEFINE job == IF req.chunk \in Compressed THEN "uncompress" ELSE "crc"
            data == Stored(req.chunk)
<1>1. Table \in Tables
  BY AewfLayout DEF Table, Typed, ReadChunk, Finding
<1>2. pEwfTable[Table] # "garbage"
  BY <1>1 DEF BuffersInv
<1>3. CASE slot' = slot /\ FreeSlots = {} /\ req' = NextChunk
  BY <1>3
<1>4. ASSUME NEW i \in FreeSlots, slot' = [slot EXCEPT ![i] = Job(Filled(@, data), job)],
             req' = NextChunk
      PROVE  \E s \in Structure : Assigned(i, s)
  <2>1. i \in Slots /\ ~slot[i].launched /\ slot[i] \in Structure
    BY <1>4 DEF FreeSlots, Typed
  <2>2. data \in Buffer /\ job \in Jobs
    BY StoredTyped DEF ReadChunk, Finding, Jobs
  <2>3. req.chunk \notin Damaged => data = req.chunk
    BY <1>2 DEF Stored
  <2>. DEFINE f == Filled(slot[i], data)
              s == Job(f, job)
  <2>. HIDE DEF data
  <2>4. f \in Structure
    BY <2>1, <2>2, FilledTyped DEF ReadChunk, Finding
  <2>5. f.ChunkInBuff = req.chunk
        /\ (req.chunk \in Compressed => f.compressed = data)
        /\ (req.chunk \notin Compressed => f.uncompressed = data)
    BY <2>1, FilledFields
  <2>6. slot' = [slot EXCEPT ![i] = s]
    BY <1>4, <2>1 DEF Typed
  <2>. HIDE DEF f
  <2>7. /\ s \in Structure
        /\ s.launched /\ s.job = job /\ s.ChunkInBuff = req.chunk
        /\ s.to = req.to /\ s.Ofs = req.Ofs /\ s.Len = Wanted
        /\ s.uncompressed = f.uncompressed /\ s.compressed = f.compressed
    BY <2>2, <2>4, <2>5, JobTyped, JobFields
  <2>. HIDE DEF s
  <2>8. Assigned(i, s)
    BY <2>1, <2>3, <2>5, <2>6, <2>7 DEF Assigned
  <2>. QED BY <2>7, <2>8
<1>5. FreeSlots \subseteq Slots
  BY DEF FreeSlots
<1>. QED BY <1>2, <1>3, <1>4, <1>5 DEF ReadChunk, First, Harmless

\* A step after which no more structures are launched, with the same work.
LEMMA SamePlaces ==
  ASSUME PlacedInv, req'.from = req.from, req'.size = req.size,
         \A i \in Slots : slot'[i].launched =>
           /\ slot[i].launched /\ slot'[i].ChunkInBuff = slot[i].ChunkInBuff
           /\ slot'[i].Ofs = slot[i].Ofs /\ slot'[i].to = slot[i].to
           /\ slot'[i].Len = slot[i].Len
  PROVE  PlacedInv'
  BY DEF PlacedInv

LEMMA SameBuffers ==
  ASSUME BuffersInv, slot' = slot, req'.pc # "dead",
         \A t \in Tables : pEwfTable'[t] # "garbage"
  PROVE  BuffersInv'
  BY DEF BuffersInv

LEMMA AssignedBuffers ==
  ASSUME Typed, Position, BuffersInv, PlacedInv, NEW i \in Slots, NEW s \in Structure,
         Assigned(i, s), req' = NextChunk, pEwfTable' = pEwfTable,
         req.pc \in Searching
  PROVE  BuffersInv' /\ PlacedInv'
<1>1. \A j \in Slots : slot'[j] = IF j = i THEN s ELSE slot[j]
  BY DEF Typed, Assigned
<1>2. /\ req'.pc # "dead" /\ req'.from = req.from /\ req'.size = req.size
  BY NextChunkFields
<1>3. BuffersInv'
  BY <1>1, <1>2 DEF BuffersInv, Assigned
<1>4. /\ req.chunk \in Chunks /\ req.Ofs + Wanted <= ChunkSize
      /\ Wanted <= req.togo /\ Wanted \in Nat
      /\ req.to \in Int /\ req.togo \in Int /\ req.size \in Nat
  BY CurrentChunk, WantedPart DEF Typed, Call
<1>5. /\ req.chunk * ChunkSize + req.Ofs = req.from + req.to
      /\ req.to + Wanted <= req.size
  BY <1>4 DEF Position
<1>6. PlacedInv'
  BY <1>1, <1>2, <1>4, <1>5 DEF PlacedInv, Assigned
<1>. QED BY <1>3, <1>6

LEMMA StepBuffers ==
  ASSUME Typed, SlotsInv, Position, BuffersInv, PlacedInv, Harmless, Step
  PROVE  BuffersInv' /\ PlacedInv'
<1>0. req'.pc # "dead" /\ req'.from = req.from /\ req'.size = req.size
  <2>1. CASE StartBatch
    BY <2>1, ReturnedFields, StartBatchFields DEF StartBatch, Begun, Typed
  <2>2. CASE EndBatch
    BY <2>2, ReturnedFields, EndBatchFields DEF EndBatch
  <2>3. CASE req' = req
    BY <2>3 DEF BuffersInv
  <2>4. CASE req' = Failed
    BY <2>4, FailedFields
  <2>5. CASE req' = NextChunk
    BY <2>5, NextChunkFields
  <2>6. ASSUME NEW pc \in Searching, req' = [req EXCEPT !.pc = pc]
        PROVE  req'.pc # "dead" /\ req'.from = req.from /\ req'.size = req.size
    BY <2>6, PcFields DEF PCs, Searching, Finding
  <2>7. CASE Join
    BY <2>7, JoinFields DEF Join
  <2>8. CASE JoinCrashes
    BY <2>8 DEF JoinCrashes, BuffersInv
  <2>9. CASE CopyLegacy
    BY <2>9, CopyLegacyFields DEF Served
  <2>. QED BY <2>1, <2>2, <2>3, <2>4, <2>5, <2>6, <2>7, <2>8, <2>9
       DEF Step, Miss, ReleaseTable, TableFits, CloseSegment, OpenSegment, LoadTable,
           CopyChunk, ReadChunk, ReadLegacy, Searching, Finding
<1>1. \A t \in Tables : pEwfTable'[t] # "garbage"
  <2>1. CASE pEwfTable' = pEwfTable
    BY <2>1 DEF BuffersInv
  <2>2. ASSUME NEW t \in Tables, NEW v \in {"null", "table"},
               pEwfTable' = [pEwfTable EXCEPT ![t] = v]
        PROVE  \A u \in Tables : pEwfTable'[u] # "garbage"
    BY <2>2 DEF BuffersInv, Typed
  <2>3. CASE ReleaseTable
    BY <2>2, <2>3 DEF ReleaseTable, Loaded
  <2>4. CASE LoadTable
    <3>1. Table \in Tables
      BY <2>4, AewfLayout DEF LoadTable, Table, Typed, Finding
    <3>. QED BY <2>2, <2>4, <3>1 DEF LoadTable, Harmless
  <2>. QED BY <2>1, <2>3, <2>4
       DEF Step, StartBatch, Miss, TableFits, CloseSegment, OpenSegment, CopyChunk,
           ReadChunk, Join, JoinCrashes, EndBatch, CopyLegacy, ReadLegacy,
           UnchangedTables
<1>2. CASE slot' = slot
  BY <1>0, <1>1, <1>2, SameBuffers, SamePlaces
<1>3. CASE CopyChunk
  BY <1>3, GoodCopy, AssignedBuffers DEF CopyChunk, Searching, UnchangedTables
<1>4. CASE ReadChunk
  BY <1>2, <1>4, GoodRead, AssignedBuffers
  DEF ReadChunk, Searching, Finding, UnchangedTables
<1>5. CASE Join
  <2>1. PICK i \in Slots :
          /\ slot[i].job \in {"none", "missing"}
          /\ slot' = [slot EXCEPT ![i].launched = FALSE, ![i].job = "none"]
    BY <1>5 DEF Join
  <2>2. slot[i].job = "none"
    BY <2>1 DEF BuffersInv
  <2>3. \A j \in Slots : /\ slot'[j].launched => slot[j].launched
                         /\ slot'[j].ChunkInBuff = slot[j].ChunkInBuff
                         /\ slot'[j].Ofs = slot[j].Ofs /\ slot'[j].to = slot[j].to
                         /\ slot'[j].Len = slot[j].Len /\ slot'[j].job = slot[j].job
                         /\ slot'[j].compressed = slot[j].compressed
                         /\ slot'[j].uncompressed = slot[j].uncompressed
    BY <2>1, <2>2 DEF Typed, Structure
  <2>4. PlacedInv'
    BY <1>0, <2>3, SamePlaces
  <2>5. BuffersInv'
    BY <1>0, <1>1, <2>3 DEF BuffersInv
  <2>. QED BY <2>4, <2>5
<1>6. CASE ReadLegacy
  <2>. DEFINE d == Stored(req.chunk)
              b == InBuff(req.chunk, d # None)
  <2>1. CASE slot' = [slot EXCEPT ![0].ChunkInBuff = b, ![0].uncompressed = d]
    <3>1. NThreads = 1 /\ Slots = {0}
      BY <1>6 DEF ReadLegacy, Slots
    <3>2. slot[0] \in Structure /\ ~slot[0].launched /\ slot[0].job = "none"
      BY <3>1 DEF Typed, SlotsInv
    <3>3. Table \in Tables
      BY <1>6, AewfLayout DEF ReadLegacy, Table, Typed, Finding
    <3>4. b # None => d = b
      BY <3>3 DEF InBuff, Stored, BuffersInv
    <3>. HIDE DEF b, d
    <3>5. /\ slot'[0].launched = slot[0].launched /\ slot'[0].job = slot[0].job
          /\ slot'[0].ChunkInBuff = b /\ slot'[0].uncompressed = d
      BY <2>1, <3>1, <3>2 DEF Typed, Structure
    <3>6. BuffersInv'
      BY <1>0, <1>1, <3>1, <3>2, <3>4, <3>5 DEF BuffersInv
    <3>7. PlacedInv'
      BY <3>1, <3>2, <3>5 DEF PlacedInv
    <3>. QED BY <3>6, <3>7
  <2>. QED BY <1>2, <1>6, <2>1 DEF ReadLegacy, Harmless
<1>. QED BY <1>2, <1>3, <1>4, <1>5, <1>6
     DEF Step, StartBatch, Miss, ReleaseTable, TableFits, CloseSegment, OpenSegment,
         LoadTable, JoinCrashes, EndBatch, CopyLegacy

\* What a thread does, when nothing goes wrong and its chunk is good.
WorkData(i) == IF slot[i].job = "uncompress" THEN slot[i].compressed
               ELSE slot[i].uncompressed

LEMMA WorkSlot ==
  ASSUME Typed, NEW i \in Slots, Work(i)
  PROVE  /\ slot'[i].job = "none" /\ slot'[i].uncompressed = WorkData(i)
         /\ slot'[i].ok = (slot[i].job = "copy" \/ WorkData(i) # None)
         /\ \A j \in Slots : j # i => slot'[j] = slot[j]
         /\ \A j \in Slots : /\ slot'[j].launched = slot[j].launched
                             /\ slot'[j].ChunkInBuff = slot[j].ChunkInBuff
                             /\ slot'[j].Ofs = slot[j].Ofs /\ slot'[j].to = slot[j].to
                             /\ slot'[j].Len = slot[j].Len
<1>. DEFINE data == WorkData(i)
            good == slot[i].job = "copy" \/ data # None
<1>1. slot' = [slot EXCEPT ![i].job = "none", ![i].ok = good, ![i].uncompressed = data]
  BY DEF Work, WorkData
<1>. HIDE DEF data, good
<1>2. /\ slot'[i].job = "none" /\ slot'[i].uncompressed = data /\ slot'[i].ok = good
      /\ \A j \in Slots : j # i => slot'[j] = slot[j]
      /\ \A j \in Slots : /\ slot'[j].launched = slot[j].launched
                          /\ slot'[j].ChunkInBuff = slot[j].ChunkInBuff
                          /\ slot'[j].Ofs = slot[j].Ofs /\ slot'[j].to = slot[j].to
                          /\ slot'[j].Len = slot[j].Len
  BY <1>1 DEF Typed, Structure
<1>. QED BY <1>2 DEF data, good

LEMMA WorkBuffers ==
  ASSUME Typed, BuffersInv, PlacedInv, NEW i \in Slots, Work(i)
  PROVE  BuffersInv' /\ PlacedInv'
<1>1. req'.pc = req.pc /\ req'.from = req.from /\ req'.size = req.size
  BY WorkFields
<1>2. pEwfTable' = pEwfTable
  BY DEF Work, UnchangedTables
<1>3. PlacedInv'
  BY <1>1, WorkSlot, SamePlaces
<1>4. BuffersInv'
  BY <1>1, <1>2, WorkSlot DEF BuffersInv, WorkData
<1>. QED BY <1>3, <1>4

LEMMA NextBuffers ==
  ASSUME Typed, SlotsInv, Position, BuffersInv, PlacedInv, Harmless, [Next]_vars
  PROVE  BuffersInv' /\ PlacedInv'
<1>1. CASE UNCHANGED vars
  BY <1>1 DEF vars, BuffersInv, PlacedInv
<1>2. ASSUME NEW from \in 0..ImageSize, NEW count \in 1..ImageSize,
             AewfRead(from, count)
      PROVE  BuffersInv' /\ PlacedInv'
  <2>1. req'.pc # "dead"
    BY <1>2, AewfReadFields DEF Accepted
  <2>2. slot' = slot /\ pEwfTable' = pEwfTable /\ \A i \in Slots : ~slot[i].launched
    BY <1>2 DEF AewfRead, UnchangedTables, SlotsInv
  <2>. QED BY <2>1, <2>2 DEF BuffersInv, PlacedInv
<1>3. CASE Step
  BY <1>3, StepBuffers
<1>4. ASSUME NEW i \in Slots, Work(i) PROVE BuffersInv' /\ PlacedInv'
  BY <1>4, WorkBuffers
<1>. QED BY <1>1, <1>2, <1>3, <1>4 DEF Next

-----------------------------------------------------------------------------
(* What is delivered when no operation fails                               *)

Correct(x) == req.out[x] = req.from + x

\* All of the caller's buffer that is counted, or has been joined, or is a
\* finished job's, holds its part of the image.
DeliveredInv ==
  WantsIntact =>
    /\ ~req.failed
    /\ \A i \in Launched :
         slot[i].job = "none" => slot[i].ok /\ \A x \in Cells(i) : Correct(x)
    /\ \A x \in 0..req.read-1 : Correct(x)
    /\ req.pc = "join" =>
         \A x \in (req.read .. CoveredEnd - 1) \ LaunchedCells : Correct(x)
    /\ req.pc = "done" => req.read = req.size

LEMMA InitDelivered == Init => DeliveredInv
<1>. SUFFICES ASSUME Init PROVE DeliveredInv
  OBVIOUS
<1>1. Launched = {}
  BY DEF Init, Idle, Launched
<1>2. ~req.failed /\ req.read = 0 /\ req.pc = "idle"
  BY DEF Init
<1>3. 0..req.read-1 = {}
  BY <1>2
<1>. QED BY <1>1, <1>2, <1>3 DEF DeliveredInv

\* What a thread, or AewfReadLegacy, copies from the right chunk is right.
LEMMA CopiedRight ==
  ASSUME Typed, req.from + req.size <= ImageSize, NEW x \in 0..req.size-1,
         NEW to \in Nat, NEW c \in Nat, c # None, NEW ofs \in Nat, NEW m \in Int,
         c * ChunkSize + ofs = req.from + to
  PROVE  Copied(req.out, to, c, ofs, m)[x]
           = IF x \in to..to+m-1 THEN req.from + x ELSE req.out[x]
<1>1. DOMAIN req.out = 0..req.size-1 /\ req.from \in Nat /\ req.size \in Nat
  BY DEF Typed, Call
<1>2. CASE x \in to..to+m-1
  <2>1. c * ChunkSize \in Nat
    BY AewfSizes
  <2>2. c * ChunkSize + ofs + (x - to) = req.from + x
    <3>1. \A A \in Nat : A + ofs = req.from + to => A + ofs + (x - to) = req.from + x
      BY <1>1, <1>2
    <3>. QED BY <2>1, <3>1
  <2>3. Smaller(req.from + x, Junk) = req.from + x
    BY <1>1, AewfSizes DEF Smaller, Junk
  <2>. QED BY <1>1, <1>2, <2>2, <2>3 DEF Copied
<1>3. CASE x \notin to..to+m-1
  BY <1>1, <1>3 DEF Copied
<1>. QED BY <1>2, <1>3

\* The chunk of a wanted byte is good.
LEMMA WantedGood ==
  ASSUME WantsIntact, NEW x \in 0..req.size-1
  PROVE  /\ (req.from + x) \div ChunkSize \in DOMAIN TableOf
         /\ (req.from + x) \div ChunkSize \notin Damaged
  BY DEF WantsIntact, Intact

LEMMA SameWants ==
  ASSUME req'.from = req.from, req'.size = req.size
  PROVE  WantsIntact' = WantsIntact
  BY DEF WantsIntact

\* A step that neither copies nor counts anything.
LEMMA SameDelivered ==
  ASSUME DeliveredInv,
         \A i \in Slots : /\ slot'[i].launched = slot[i].launched
                          /\ slot'[i].to = slot[i].to /\ slot'[i].Len = slot[i].Len
                          /\ slot'[i].job = slot[i].job /\ slot'[i].ok = slot[i].ok,
         req'.from = req.from, req'.size = req.size, req'.out = req.out,
         req'.read = req.read, req'.got = req.got, req'.failed = req.failed,
         req'.pc = "join" => req.pc = "join",
         req'.pc = "done" => req.pc = "done" \/ req.read = req.size
  PROVE  DeliveredInv'
<1>1. Launched' = Launched
  BY DEF Launched
<1>2. \A i \in Launched : Cells(i)' = Cells(i)
  BY DEF Cells, Launched
<1>3. LaunchedCells' = LaunchedCells
  BY <1>1, <1>2 DEF LaunchedCells
<1>4. CoveredEnd' = CoveredEnd
  BY <1>3 DEF CoveredEnd
<1>5. \A x : Correct(x)' = Correct(x)
  BY DEF Correct
<1>6. WantsIntact' = WantsIntact
  BY SameWants
<1>. QED BY <1>1, <1>2, <1>3, <1>4, <1>5, <1>6 DEF DeliveredInv, Launched

\* Cells that add up to an interval fill it.
LEMMA FilledInterval ==
  ASSUME NEW S, NEW a \in Int, NEW b \in Int, IsFiniteSet(S), S \subseteq a..b-1,
         b = a + Cardinality(S)
  PROVE  (a..b-1) \ S = {}
<1>1. Cardinality(S) \in Nat
  BY FS_CardinalityType
<1>2. b - 1 \in Int /\ IsFiniteSet(a..b-1)
  <2>1. b - 1 \in Int
    OBVIOUS
  <2>. QED BY <2>1, FS_Interval
<1>3. Cardinality(a..b-1) = IF a > b - 1 THEN 0 ELSE (b - 1) - a + 1
  BY <1>2, FS_Interval
<1>4. Cardinality(a..b-1) = Cardinality(S)
  BY <1>1, <1>3
<1>5. a..b-1 = S
  BY <1>2, <1>4, FS_Subset
<1>. QED BY <1>5

\* On to the next chunk: the current piece has a job now, or was dropped.
LEMMA NextChunkDelivered ==
  ASSUME Typed, Position, Coverage, DeliveredInv, req' = NextChunk,
         req.pc \in Searching, NThreads # 1, Position', Coverage', Typed',
         \A i \in Slots : slot'[i] = slot[i]
                          \/ (slot'[i].launched /\ slot'[i].job # "none")
  PROVE  DeliveredInv'
<1>1. /\ req'.from = req.from /\ req'.size = req.size /\ req'.out = req.out
      /\ req'.read = req.read /\ req'.got = req.got /\ req'.failed = req.failed
      /\ req'.pc \in {"join", "chunk"}
  BY NextChunkFields
<1>2. SUFFICES ASSUME WantsIntact PROVE
        /\ ~req'.failed
        /\ \A i \in Launched' :
             slot'[i].job = "none" => slot'[i].ok /\ \A x \in Cells(i)' : Correct(x)'
        /\ \A x \in 0..req'.read-1 : Correct(x)'
        /\ req'.pc = "join" => (req'.read .. CoveredEnd' - 1) \ LaunchedCells' = {}
  BY <1>1, SameWants DEF DeliveredInv
<1>3. /\ ~req.failed
      /\ \A i \in Launched :
           slot[i].job = "none" => slot[i].ok /\ \A x \in Cells(i) : Correct(x)
      /\ \A x \in 0..req.read-1 : Correct(x)
  BY <1>2 DEF DeliveredInv
<1>4. \A x : Correct(x)' = Correct(x)
  BY <1>1 DEF Correct
<1>5. \A i \in Launched' :
        slot'[i].job = "none" => slot'[i].ok /\ \A x \in Cells(i)' : Correct(x)'
  BY <1>3, <1>4 DEF Launched, Cells
<1>6. req'.pc = "join" => (req'.read .. CoveredEnd' - 1) \ LaunchedCells' = {}
  <2>. SUFFICES ASSUME req'.pc = "join"
                PROVE  (req'.read .. CoveredEnd' - 1) \ LaunchedCells' = {}
    OBVIOUS
  <2>1. req.got = 0
    BY <1>3 DEF Coverage
  <2>2. /\ IsFiniteSet(LaunchedCells')
        /\ LaunchedCells' \subseteq req'.read .. CoveredEnd' - 1
    BY <1>1, <1>3 DEF Coverage
  <2>3. req'.read \in Int
    BY <1>1 DEF Typed, Call
  <2>4. /\ CoveredEnd' = req'.read + Cardinality(LaunchedCells')
        /\ CoveredEnd' \in Int
    <3>1. Cardinality(LaunchedCells') \in Nat
      BY <2>2, FS_CardinalityType
    <3>. QED BY <1>1, <2>1, <2>3, <3>1 DEF CoveredEnd
  <2>. QED BY <2>2, <2>3, <2>4, FilledInterval
<1>. QED BY <1>1, <1>3, <1>4, <1>5, <1>6

\* The chunk that is looked for is one of those that are wanted.
LEMMA WantedChunk ==
  ASSUME Typed, Position, WantsIntact, req.pc \in Searching
  PROVE  req.chunk \in DOMAIN TableOf /\ req.chunk \notin Damaged
<1>. QED BY CurrentChunk, WantedGood

LEMMA StartBatchDelivered ==
  ASSUME Typed, SlotsInv, Position, DeliveredInv, StartBatch
  PROVE  DeliveredInv'
<1>1. slot' = slot /\ req.pc = "batch"
  BY DEF StartBatch
<1>2. CASE req.left = 0
  <2>1. req.read = req.size
    <3>1. req.read \in Int /\ req.size \in Nat /\ req.left = req.size - req.read
      BY <1>1 DEF Typed, Call, Position
    <3>. QED BY <1>2, <3>1
  <2>2. /\ req'.from = req.from /\ req'.size = req.size /\ req'.out = req.out
        /\ req'.read = req.read /\ req'.got = req.got /\ req'.failed = req.failed
        /\ req'.pc = "done"
    BY <1>2, ReturnedFields DEF StartBatch
  <2>. QED BY <1>1, <2>1, <2>2, SameDelivered
<1>3. CASE req.left # 0
  <2>1. /\ req'.from = req.from /\ req'.size = req.size /\ req'.out = req.out
        /\ req'.read = req.read /\ req'.failed = req.failed /\ req'.pc = "chunk"
    BY <1>3, StartBatchFields DEF Begun, Typed
  <2>2. Launched' = {}
    BY <1>1 DEF SlotsInv, Launched
  <2>3. \A x : Correct(x)' = Correct(x)
    BY <2>1 DEF Correct
  <2>. QED BY <2>1, <2>2, <2>3, SameWants DEF DeliveredInv
<1>. QED BY <1>2, <1>3

\* The steps that look for the chunk: none of them fails.
LEMMA SearchDelivered ==
  ASSUME Typed, Position, BuffersInv, DeliveredInv, Faults = {},
         \/ Miss \/ TableFits \/ JoinCrashes \/ ReleaseTable \/ CloseSegment
         \/ OpenSegment \/ LoadTable
  PROVE  DeliveredInv'
<1>1. slot' = slot
  BY DEF Miss, TableFits, JoinCrashes, ReleaseTable, CloseSegment, OpenSegment, LoadTable
<1>2. CASE req' = req
  BY <1>1, <1>2, SameDelivered
<1>3. ASSUME NEW pc \in Finding, req' = [req EXCEPT !.pc = pc]
      PROVE  DeliveredInv'
  BY <1>1, <1>3, PcFields, SameDelivered DEF PCs, Searching, Finding
<1>4. CASE Miss
  <2>1. CASE WantsIntact
    <3>1. req.chunk \in DOMAIN TableOf
      BY <1>4, <2>1, WantedChunk DEF Miss, Searching
    <3>. QED BY <1>3, <1>4, <3>1 DEF Miss, Finding
  <2>2. CASE ~WantsIntact
    <3>1. req'.from = req.from /\ req'.size = req.size
      BY <1>3, <1>4, FailedFields, PcFields DEF Miss, PCs, Searching, Finding
    <3>. QED BY <2>2, <3>1, SameWants DEF DeliveredInv
  <2>. QED BY <2>1, <2>2
<1>5. ~JoinCrashes
  BY DEF JoinCrashes, BuffersInv
<1>. QED BY <1>2, <1>3, <1>4, <1>5
     DEF TableFits, ReleaseTable, CloseSegment, OpenSegment, LoadTable, Finding

LEMMA JoinDelivered ==
  ASSUME Typed, SlotsInv, Position, Coverage, BuffersInv, DeliveredInv, Join
  PROVE  DeliveredInv'
<1>1. PICK i \in Slots :
        /\ i \in Launched /\ slot[i].job \in {"none", "missing"}
        /\ slot' = [slot EXCEPT ![i].launched = FALSE, ![i].job = "none"]
        /\ req' = Joined(req, slot[i])
  BY DEF Join, First
<1>2. slot[i].job = "none"
  BY <1>1 DEF BuffersInv
<1>3. \A j \in Slots : /\ slot'[j].to = slot[j].to /\ slot'[j].Len = slot[j].Len
                       /\ slot'[j].launched = (slot[j].launched /\ j # i)
                       /\ slot'[j].job = slot[j].job /\ slot'[j].ok = slot[j].ok
  <2>. DEFINE s == [slot[i] EXCEPT !.launched = FALSE, !.job = "none"]
  <2>1. /\ s.to = slot[i].to /\ s.Len = slot[i].Len /\ s.launched = FALSE
        /\ s.job = "none" /\ s.ok = slot[i].ok
    BY DEF Typed, Structure
  <2>2. slot' = [slot EXCEPT ![i] = s]
    BY <1>1 DEF Typed
  <2>. HIDE DEF s
  <2>3. \A j \in Slots : slot'[j] = IF j = i THEN s ELSE slot[j]
    BY <2>2 DEF Typed
  <2>4. \A j \in Slots : slot[j].launched \in BOOLEAN
    BY DEF Typed, Structure
  <2>. QED BY <1>2, <2>1, <2>3, <2>4
<1>4. /\ req'.pc = "join" /\ req.pc = "join"
      /\ req'.from = req.from /\ req'.size = req.size
      /\ req'.read = req.read /\ req'.out = req.out
      /\ req'.got = req.got + slot[i].Len
      /\ req'.failed = (req.failed \/ ~slot[i].ok)
  BY <1>1, JoinFields DEF Join
<1>5. SUFFICES ASSUME WantsIntact PROVE
        /\ ~req'.failed
        /\ \A j \in Launched' :
             slot'[j].job = "none" => slot'[j].ok /\ \A x \in Cells(j)' : Correct(x)'
        /\ \A x \in 0..req'.read-1 : Correct(x)'
        /\ \A x \in (req'.read .. CoveredEnd' - 1) \ LaunchedCells' : Correct(x)'
  BY <1>4, SameWants DEF DeliveredInv
<1>6. /\ ~req.failed
      /\ \A j \in Launched :
           slot[j].job = "none" => slot[j].ok /\ \A x \in Cells(j) : Correct(x)
      /\ \A x \in 0..req.read-1 : Correct(x)
      /\ \A x \in (req.read .. CoveredEnd - 1) \ LaunchedCells : Correct(x)
  BY <1>4, <1>5 DEF DeliveredInv
<1>7. Launched' = Launched \ {i} /\ \A j \in Slots : Cells(j)' = Cells(j)
  BY <1>3 DEF Launched, Cells
<1>8. NThreads # 1
  BY <1>4 DEF Position
<1>9. /\ \A j, k \in Launched : j # k => Cells(j) \cap Cells(k) = {}
      /\ slot[i].Len > 0 /\ IsFiniteSet(LaunchedCells)
  BY <1>1, <1>4, <1>6, <1>8 DEF Coverage
<1>10. LaunchedCells' = LaunchedCells \ Cells(i) /\ CoveredEnd' = CoveredEnd
  BY <1>1, <1>4, <1>7, <1>9, JoinedCells
<1>11. \A x : Correct(x)' = Correct(x)
  BY <1>4 DEF Correct
<1>12. slot[i].ok /\ \A x \in Cells(i) : Correct(x)
  BY <1>1, <1>2, <1>6
<1>. QED BY <1>3, <1>4, <1>6, <1>7, <1>10, <1>11, <1>12 DEF Launched

LEMMA EndBatchDelivered ==
  ASSUME Typed, Position, Coverage, DeliveredInv, EndBatch
  PROVE  DeliveredInv'
<1>1. slot' = slot /\ req.pc = "join" /\ Launched = {} /\ Launched' = {}
  BY DEF EndBatch, Launched
<1>2. req'.from = req.from /\ req'.size = req.size /\ req'.out = req.out
  BY ReturnedFields, EndBatchFields DEF EndBatch
<1>3. SUFFICES ASSUME WantsIntact, ~req.failed,
                      \A x \in 0..req.read-1 : Correct(x),
                      \A x \in (req.read .. CoveredEnd - 1) \ LaunchedCells : Correct(x)
               PROVE  DeliveredInv'
  BY <1>1, <1>2, SameWants DEF DeliveredInv
<1>4. /\ req'.pc = "batch" /\ req'.read = req.read + req.got
      /\ req'.failed = req.failed
  BY <1>3, EndBatchFields
<1>5. LaunchedCells = {} /\ req.read \in Int /\ req.got \in Int
  BY <1>1 DEF LaunchedCells, Typed, Call
<1>6. CoveredEnd = req.read + req.got
  BY <1>5, FS_EmptySet DEF CoveredEnd
<1>7. \A x \in 0..req'.read-1 : Correct(x)
  BY <1>3, <1>4, <1>5, <1>6
<1>8. \A x : Correct(x)' = Correct(x)
  BY <1>2 DEF Correct
<1>. QED BY <1>1, <1>3, <1>4, <1>7, <1>8 DEF DeliveredInv

\* The current piece becomes a thread's job.
LEMMA ThreadsDelivered ==
  ASSUME Typed, SlotsInv, Position, Coverage, BuffersInv, DeliveredInv, Faults = {},
         CopyChunk \/ ReadChunk
  PROVE  DeliveredInv'
<1>1. req.pc \in Searching /\ NThreads # 1
  BY AewfSizes DEF CopyChunk, ReadChunk, Searching, Finding
<1>2. req' = NextChunk
  BY GoodCopy, GoodRead DEF Harmless
<1>3. Position' /\ Coverage'
  BY CopyChunkPieces, ReadChunkPieces
<1>4. Typed'
  BY CopyChunkTyped, ReadChunkTyped
<1>5. ASSUME NEW i \in Slots, NEW s \in Structure, Assigned(i, s)
      PROVE  \A j \in Slots : slot'[j] = slot[j]
                              \/ (slot'[j].launched /\ slot'[j].job # "none")
  BY <1>5 DEF Assigned, Typed
<1>6. \A j \in Slots : slot'[j] = slot[j]
                       \/ (slot'[j].launched /\ slot'[j].job # "none")
  BY <1>5, GoodCopy, GoodRead DEF Harmless
<1>. QED BY <1>1, <1>2, <1>3, <1>4, <1>6, NextChunkDelivered

LEMMA ReadLegacyDelivered ==
  ASSUME Typed, SlotsInv, Position, BuffersInv, DeliveredInv, Faults = {}, ReadLegacy
  PROVE  DeliveredInv'
<1>1. NThreads = 1 /\ Slots = {0} /\ req.pc = "read"
  BY DEF ReadLegacy, Slots
<1>2. ~slot[0].launched /\ slot[0] \in Structure
  BY <1>1 DEF SlotsInv, Typed
<1>3. ~slot'[0].launched
  <2>1. ASSUME NEW b, NEW d,
               slot' = [slot EXCEPT ![0].ChunkInBuff = b, ![0].uncompressed = d]
        PROVE  ~slot'[0].launched
    BY <1>1, <1>2, <2>1 DEF Typed, Structure
  <2>2. ASSUME NEW d, slot' = [slot EXCEPT ![0].uncompressed = d]
        PROVE  ~slot'[0].launched
    BY <1>1, <1>2, <2>2 DEF Typed, Structure
  <2>. QED BY <1>2, <2>1, <2>2 DEF ReadLegacy
<1>4. Launched' = {}
  BY <1>1, <1>3 DEF Launched
<1>5. Table \in Tables
  BY <1>1, AewfLayout DEF Table, Typed, Finding
<1>6. ASSUME WantsIntact PROVE req' = [req EXCEPT !.pc = "chunk"]
  <2>1. pEwfTable[Table] # "garbage"
    BY <1>5 DEF BuffersInv
  <2>2. req.chunk \notin Damaged /\ req.chunk # None
    BY <1>1, <1>6, WantedChunk, CurrentChunk DEF Searching, Finding
  <2>. QED BY <2>1, <2>2 DEF ReadLegacy, Stored
<1>7. req'.from = req.from /\ req'.size = req.size
  BY FailedFields, PcFields DEF ReadLegacy, PCs, Searching
<1>8. CASE WantsIntact
  <2>1. /\ req'.out = req.out /\ req'.read = req.read
        /\ req'.failed = req.failed /\ req'.pc = "chunk"
    BY <1>6, <1>8, PcFields DEF PCs, Searching
  <2>2. \A x : Correct(x)' = Correct(x)
    BY <1>7, <2>1 DEF Correct
  <2>. QED BY <1>4, <1>8, <2>1, <2>2 DEF DeliveredInv
<1>9. CASE ~WantsIntact
  BY <1>7, <1>9, SameWants DEF DeliveredInv
<1>. QED BY <1>8, <1>9

LEMMA CopyLegacyDelivered ==
  ASSUME Typed, SlotsInv, Position, BuffersInv, DeliveredInv, CopyLegacy
  PROVE  DeliveredInv'
<1>. DEFINE w == Wanted
            out == Copied(req.out, req.to, slot[0].uncompressed, req.Ofs, w)
<1>1. NThreads = 1 /\ Slots = {0} /\ req.pc = "chunk" /\ req.pc \in Searching
  BY DEF CopyLegacy, Slots, Searching
<1>2. /\ req'.pc = IF req.togo = w THEN "done" ELSE "chunk"
      /\ req'.from = req.from /\ req'.size = req.size /\ req'.out = out
      /\ req'.read = req.read + w /\ req'.failed = req.failed
  BY CopyLegacyFields DEF Served
<1>3. SUFFICES ASSUME WantsIntact, ~req.failed, \A x \in 0..req.read-1 : Correct(x)
               PROVE  DeliveredInv'
  BY <1>2, SameWants DEF DeliveredInv
<1>4. Launched' = {}
  BY <1>1 DEF CopyLegacy, SlotsInv, Launched
<1>5. slot[0].uncompressed = req.chunk /\ req.chunk # None
  <2>1. slot[0].ChunkInBuff = req.chunk
    BY <1>1 DEF CopyLegacy, Hits
  <2>2. slot[0].job = "none"
    BY <1>1 DEF SlotsInv
  <2>3. req.chunk # None /\ req.chunk \notin Damaged
    BY <1>1, <1>3, CurrentChunk, WantedChunk
  <2>. QED BY <1>1, <2>1, <2>2, <2>3 DEF BuffersInv
<1>6. /\ req.size \in Nat /\ req.from \in Nat /\ req.togo \in Int /\ req.read \in Int
      /\ req.to \in Int /\ req.chunk \in Int /\ req.Ofs \in 0..ChunkSize-1
      /\ req.out \in [0..req.size-1 -> 0..ImageSize]
  BY DEF Typed, Call
<1>7. /\ req.chunk \in Nat /\ req.to = req.read /\ req.read >= 0 /\ req.to \in Nat
      /\ req.to + req.togo = req.size /\ req.Ofs \in Nat
      /\ req.chunk * ChunkSize + req.Ofs = req.from + req.to
      /\ req.from + req.size <= ImageSize
  BY <1>1, <1>6 DEF Position
<1>8. w \in Nat \ {0} /\ w <= req.togo
  BY <1>1, WantedPart
<1>. HIDE DEF w
<1>9. \A x \in 0..req.size-1 :
        out[x] = IF x \in req.to .. req.to + w - 1 THEN req.from + x ELSE req.out[x]
  <2>1. out = Copied(req.out, req.to, req.chunk, req.Ofs, w) /\ w \in Int
    BY <1>5, <1>8
  <2>. HIDE DEF out
  <2>. SUFFICES ASSUME NEW x \in 0..req.size-1
                PROVE  out[x] = IF x \in req.to .. req.to + w - 1
                                THEN req.from + x ELSE req.out[x]
    OBVIOUS
  <2>2. Copied(req.out, req.to, req.chunk, req.Ofs, w)[x]
          = IF x \in req.to .. req.to + w - 1 THEN req.from + x ELSE req.out[x]
    <3>1. /\ req.to \in Nat /\ req.chunk \in Nat /\ req.chunk # None /\ req.Ofs \in Nat
          /\ w \in Int /\ req.chunk * ChunkSize + req.Ofs = req.from + req.to
          /\ req.from + req.size <= ImageSize
      BY <1>5, <1>7, <2>1
    <3>2. \A to \in Nat, c \in Nat, ofs \in Nat, m \in Int :
            c # None /\ c * ChunkSize + ofs = req.from + to
              => Copied(req.out, to, c, ofs, m)[x]
                   = IF x \in to..to+m-1 THEN req.from + x ELSE req.out[x]
      BY <3>1, CopiedRight
    <3>. QED BY <3>1, <3>2
  <2>. QED BY <2>1, <2>2
<1>. HIDE DEF out
<1>10. \A x \in 0..req'.read-1 : Correct(x)'
  <2>. SUFFICES ASSUME NEW x \in 0..req'.read-1 PROVE req'.out[x] = req'.from + x
    BY DEF Correct
  <2>1. x \in 0..req.size-1
    <3>1. x \in Int /\ 0 <= x /\ x < req.read + w
      BY <1>2, <1>6, <1>8
    <3>2. req.read + w <= req.size
      BY <1>6, <1>7, <1>8
    <3>. QED BY <1>6, <1>8, <3>1, <3>2
  <2>2. x \in req.to .. req.to + w - 1 \/ x \in 0..req.read-1
    <3>1. x \in Int /\ 0 <= x /\ x < req.read + w
      BY <1>2, <1>6, <1>8
    <3>2. req.to = req.read /\ req.read \in Int /\ w \in Int
      BY <1>6, <1>7, <1>8
    <3>. QED BY <3>1, <3>2
  <2>3. CASE x \in req.to .. req.to + w - 1
    <3>1. out[x] = req.from + x
      BY <1>9, <2>1, <2>3
    <3>. QED BY <1>2, <3>1
  <2>4. CASE x \in 0..req.read-1
    <3>1. req.out[x] = req.from + x
      BY <1>3, <2>4 DEF Correct
    <3>. QED BY <1>2, <1>9, <2>1, <3>1
  <2>. QED BY <2>2, <2>3, <2>4
<1>11. req'.pc # "join" /\ (req'.pc = "done" => req'.read = req'.size)
  <2>1. req'.pc = "done" => req.togo = w
    BY <1>2
  <2>. QED BY <1>2, <1>6, <1>7, <1>8, <2>1
<1>. QED BY <1>2, <1>3, <1>4, <1>10, <1>11 DEF DeliveredInv

LEMMA AewfReadDelivered ==
  ASSUME Typed, SlotsInv, NEW from \in 0..ImageSize, NEW count \in 1..ImageSize,
         AewfRead(from, count)
  PROVE  DeliveredInv'
<1>. DEFINE size == ReadSize(from, count)
<1>1. /\ req'.pc = IF size = 0 THEN "done" ELSE "batch"
      /\ req'.size = size /\ req'.read = 0 /\ req'.failed = FALSE
  BY AewfReadFields DEF Accepted
<1>2. Launched' = {}
  BY DEF AewfRead, SlotsInv, Launched
<1>3. 0..req'.read-1 = {}
  BY <1>1
<1>. QED BY <1>1, <1>2, <1>3 DEF DeliveredInv

\* What a thread copies is right, and it leaves the rest of the buffer alone.
LEMMA WorkCopies ==
  ASSUME Typed, Position, BuffersInv, PlacedInv, WantsIntact, NEW i \in Slots,
         Work(i), slot[i].launched, slot[i].Len > 0
  PROVE  /\ WorkData(i) # None
         /\ \A x \in 0..req.size-1 : (x \in Cells(i) \/ Correct(x)) => Correct(x)'
<1>. DEFINE c == slot[i].ChunkInBuff
            to == slot[i].to
            ofs == slot[i].Ofs
            m == slot[i].Len
<1>1. /\ req.from \in Nat /\ req.size \in Nat
      /\ to \in Int /\ ofs \in Nat /\ ofs < ChunkSize /\ m \in Int
  <2>1. req \in Call /\ slot[i] \in Structure
    BY DEF Typed
  <2>. QED BY <2>1, AewfSizes DEF Call, Structure
<1>2. /\ c \in Chunks /\ c * ChunkSize + ofs = req.from + to
      /\ to >= 0 /\ to + m <= req.size /\ req.from + req.size <= ImageSize
  BY DEF PlacedInv, Position
<1>3. c \in Nat /\ c # None
  BY <1>2, ChunkCountType DEF Chunks, None
<1>4. c \notin Damaged
  <2>1. to \in 0..req.size-1
    BY <1>1, <1>2
  <2>2. (c * ChunkSize + ofs) \div ChunkSize = c
    BY <1>1, <1>3, ChunkOfCell
  <2>. QED BY <1>2, <2>1, <2>2, WantedGood
<1>5. WorkData(i) = c
  BY <1>3, <1>4 DEF BuffersInv, WorkData
<1>6. /\ req' = [req EXCEPT !.out = Copied(req.out, to, c, ofs, m)]
  BY <1>3, <1>5 DEF Work, WorkData
<1>7. /\ req'.from = req.from /\ req'.out = Copied(req.out, to, c, ofs, m)
  BY <1>6 DEF Typed, Call
<1>8. \A x \in 0..req.size-1 :
        Copied(req.out, to, c, ofs, m)[x]
          = IF x \in to..to+m-1 THEN req.from + x ELSE req.out[x]
  <2>. SUFFICES ASSUME NEW x \in 0..req.size-1
                PROVE  Copied(req.out, to, c, ofs, m)[x]
                         = IF x \in to..to+m-1 THEN req.from + x ELSE req.out[x]
    OBVIOUS
  <2>1. to \in Nat
    BY <1>1, <1>2
  <2>2. \A t \in Nat, k \in Nat, o \in Nat, n \in Int :
          k # None /\ k * ChunkSize + o = req.from + t
            => Copied(req.out, t, k, o, n)[x]
                 = IF x \in t..t+n-1 THEN req.from + x ELSE req.out[x]
    BY <1>2, CopiedRight
  <2>. HIDE DEF c, to, ofs, m
  <2>. QED BY <1>1, <1>2, <1>3, <2>1, <2>2
<1>9. ASSUME NEW x \in 0..req.size-1, x \in Cells(i) \/ Correct(x) PROVE Correct(x)'
  <2>1. Cells(i) = to..to+m-1
    BY DEF Cells
  <2>. HIDE DEF c, to, ofs, m
  <2>. QED BY <1>7, <1>8, <1>9, <2>1 DEF Correct
<1>. QED BY <1>3, <1>5, <1>9

LEMMA WorkDelivered ==
  ASSUME Typed, SlotsInv, Position, Coverage, BuffersInv, PlacedInv, DeliveredInv,
         NEW i \in Slots, Work(i)
  PROVE  DeliveredInv'
<1>1. /\ req'.pc = req.pc /\ req'.from = req.from /\ req'.size = req.size
      /\ req'.read = req.read /\ req'.got = req.got /\ req'.failed = req.failed
  BY WorkFields
<1>2. slot[i].launched /\ NThreads # 1 /\ req.pc \in Searching \cup {"join"}
  <2>1. slot[i].launched
    BY DEF Work, SlotsInv
  <2>2. req.pc \in PCs /\ req.pc # "dead"
    BY DEF Typed, Call, BuffersInv
  <2>. QED BY <2>1, <2>2 DEF SlotsInv, PCs
<1>3. SUFFICES ASSUME WantsIntact PROVE
        /\ ~req'.failed
        /\ \A j \in Launched' :
             slot'[j].job = "none" => slot'[j].ok /\ \A x \in Cells(j)' : Correct(x)'
        /\ \A x \in 0..req'.read-1 : Correct(x)'
        /\ req'.pc = "join" =>
             \A x \in (req'.read .. CoveredEnd' - 1) \ LaunchedCells' : Correct(x)'
  BY <1>1, <1>2, SameWants DEF DeliveredInv, Searching, Finding
<1>4. /\ ~req.failed
      /\ \A j \in Launched :
           slot[j].job = "none" => slot[j].ok /\ \A x \in Cells(j) : Correct(x)
      /\ \A x \in 0..req.read-1 : Correct(x)
      /\ req.pc = "join" =>
           \A x \in (req.read .. CoveredEnd - 1) \ LaunchedCells : Correct(x)
  BY <1>3 DEF DeliveredInv
<1>5. /\ Launched' = Launched /\ \A j \in Slots : Cells(j)' = Cells(j)
      /\ LaunchedCells' = LaunchedCells
  <2>1. Launched' = Launched
    BY WorkSlot DEF Launched
  <2>2. \A j \in Slots : Cells(j)' = Cells(j)
    BY WorkSlot DEF Cells
  <2>. QED BY <2>1, <2>2 DEF LaunchedCells, Launched
<1>6. CoveredEnd' = CoveredEnd
  BY <1>1, <1>5 DEF CoveredEnd
<1>7. i \in Launched /\ slot[i].Len > 0
  BY <1>2, <1>4 DEF Coverage, Launched
<1>8. /\ WorkData(i) # None
      /\ \A x \in 0..req.size-1 : (x \in Cells(i) \/ Correct(x)) => Correct(x)'
  BY <1>2, <1>3, <1>7, WorkCopies
<1>9. req.size \in Nat /\ req.read \in Int /\ 0 <= req.read /\ req.read <= req.size
  BY DEF Typed, Call, Position
<1>10. \A j \in Launched : Cells(j) \subseteq 0..req.size-1
  <2>. SUFFICES ASSUME NEW j \in Launched PROVE Cells(j) \subseteq 0..req.size-1
    OBVIOUS
  <2>1. j \in Slots /\ slot[j].launched
    BY DEF Launched
  <2>2. slot[j].to \in Int /\ slot[j].Len \in Int
    BY <2>1 DEF Typed, Structure
  <2>3. slot[j].to >= 0 /\ slot[j].to + slot[j].Len <= req.size
    BY <2>1 DEF Position, PlacedInv
  <2>. QED BY <1>9, <2>2, <2>3 DEF Cells
<1>11. ASSUME NEW j \in Launched', slot'[j].job = "none"
       PROVE  slot'[j].ok /\ \A x \in Cells(j)' : Correct(x)'
  <2>1. j \in Slots /\ j \in Launched /\ Cells(j)' = Cells(j)
    BY <1>5, <1>11 DEF Launched
  <2>2. CASE j = i
    BY <1>8, <1>10, <2>1, <2>2, WorkSlot
  <2>3. CASE j # i
    <3>1. slot'[j] = slot[j]
      BY <2>1, <2>3, WorkSlot
    <3>. QED BY <1>4, <1>8, <1>10, <1>11, <2>1, <3>1
  <2>. QED BY <2>2, <2>3
<1>12. \A x \in 0..req'.read-1 : Correct(x)'
  BY <1>1, <1>4, <1>8, <1>9
<1>13. ASSUME req'.pc = "join", NEW x \in (req'.read .. CoveredEnd' - 1) \ LaunchedCells'
       PROVE  Correct(x)'
  <2>1. req.pc = "join" /\ x \in (req.read .. CoveredEnd - 1) \ LaunchedCells
    BY <1>1, <1>5, <1>6, <1>13
  <2>2. CoveredEnd <= req.size /\ CoveredEnd \in Int
    <3>1. Cardinality(LaunchedCells) \in Nat
      BY <1>2, <1>4, <2>1, FS_CardinalityType DEF Coverage
    <3>2. req.got \in Int
      BY DEF Typed, Call
    <3>. QED BY <1>2, <1>4, <1>9, <2>1, <3>1, <3>2 DEF Coverage, CoveredEnd
  <2>3. x \in 0..req.size-1
    BY <1>9, <2>1, <2>2
  <2>. QED BY <1>4, <1>8, <2>1, <2>3
<1>. QED BY <1>1, <1>4, <1>11, <1>12, <1>13

LEMMA NextDelivered ==
  ASSUME Typed, SlotsInv, Position, Coverage, BuffersInv, PlacedInv, DeliveredInv,
         Faults = {}, [Next]_vars
  PROVE  DeliveredInv'
<1>1. CASE UNCHANGED vars
  BY <1>1, SameDelivered DEF vars
<1>2. ASSUME NEW from \in 0..ImageSize, NEW count \in 1..ImageSize,
             AewfRead(from, count)
      PROVE  DeliveredInv'
  BY <1>2, AewfReadDelivered
<1>3. CASE Step
  BY <1>3, StartBatchDelivered, SearchDelivered, ThreadsDelivered, JoinDelivered,
     EndBatchDelivered, CopyLegacyDelivered, ReadLegacyDelivered DEF Step
<1>4. ASSUME NEW i \in Slots, Work(i) PROVE DeliveredInv'
  BY <1>4, WorkDelivered
<1>. QED BY <1>1, <1>2, <1>3, <1>4 DEF Next

\* When no operation fails, a read whose chunks are listed in tables and match
\* their checksums is answered in full with what the image has there: AewfRead,
\* its batches, their threads and the buffers that are reused between them add
\* up to reading the image.  (With faults the invariant says nothing.)
THEOREM Delivery == Spec => []ReadsDeliverImage
<1>. DEFINE Inv == Position /\ Coverage /\ BuffersInv /\ PlacedInv /\ DeliveredInv
<1>1. Inv => ReadsDeliverImage
  <2>. SUFFICES ASSUME Inv, req.pc = "done", WantsIntact
                PROVE  /\ req.read = req.size
                       /\ \A x \in 0..req.size-1 : req.out[x] = req.from + x
    BY DEF ReadsDeliverImage
  <2>. QED BY DEF DeliveredInv, Correct
<1>2. CASE Faults = {}
  <2>1. Init => Inv
    BY InitPieces, InitBuffers, InitDelivered
  <2>2. Typed /\ SlotsInv /\ Inv /\ [Next]_vars => Inv'
    BY <1>2, NextPieces, NextBuffers, NextDelivered DEF Harmless
  <2>. HIDE DEF Inv
  <2>. QED BY <1>1, <2>1, <2>2, AlwaysTyped, AlwaysSlots, PTL DEF Spec
<1>3. CASE Faults # {}
  <2>1. ReadsDeliverImage
    BY <1>3 DEF ReadsDeliverImage
  <2>. QED BY <2>1, PTL
<1>. QED BY <1>2, <1>3

\* When no operation fails, a buffer that no thread works on holds the chunk it
\* is marked with, damaged ones apart: what AewfReadChunkMT relies on when it
\* answers from a buffer instead of the segment file.
THEOREM HitsAreRight == Spec => []ChunkInBuffIsStored
<1>. DEFINE Inv == Position /\ Coverage /\ BuffersInv /\ PlacedInv
<1>1. Inv => ChunkInBuffIsStored
  BY DEF BuffersInv, ChunkInBuffIsStored
<1>2. CASE Faults = {}
  <2>1. Init => Inv
    BY InitPieces, InitBuffers
  <2>2. Typed /\ SlotsInv /\ Inv /\ [Next]_vars => Inv'
    BY <1>2, NextPieces, NextBuffers DEF Harmless
  <2>. HIDE DEF Inv
  <2>. QED BY <1>1, <2>1, <2>2, AlwaysTyped, AlwaysSlots, PTL DEF Spec
<1>3. CASE Faults # {}
  <2>1. ChunkInBuffIsStored
    BY <1>3 DEF ChunkInBuffIsStored
  <2>. QED BY <2>1, PTL
<1>. QED BY <1>2, <1>3

-----------------------------------------------------------------------------
(* The segment files that are counted as open                              *)

\* uint64_t arithmetic does not wrap where there is room.
LEMMA Counting ==
  ASSUME NEW n \in 0..Word-1, 1 < Word
  PROVE  /\ n + 1 < Word => Plus(n, 1) = n + 1
         /\ n > 0 => Minus(n, 1) = n - 1
<1>1. \A x \in Nat : x < Word => x % Word = x
  BY AewfSizes
<1>2. \A x \in Nat : x < Word => (x + Word) % Word = x
  BY AewfSizes
<1>3. 1 % Word = 1
  BY <1>1
<1>4. n > 0 => Minus(n, 1) = n - 1
  <2>. SUFFICES ASSUME n > 0 PROVE (n + (Word - 1)) % Word = n - 1
    BY <1>3 DEF Minus
  <2>1. n - 1 \in Nat /\ n - 1 < Word /\ n + (Word - 1) = (n - 1) + Word
    BY AewfSizes
  <2>. QED BY <1>2, <2>1
<1>5. n + 1 < Word => Plus(n, 1) = n + 1
  BY <1>1 DEF Plus
<1>. QED BY <1>4, <1>5

\* Unless a segment file is found with another size than it had, which AewfOpen
\* rules out for files that nobody changes, the segment files counted as open
\* are those that are open, and there never are more than aewfmaxfiles, or one.
THEOREM OpenFilesCounted ==
  ASSUME "size" \notin Faults, MaxOpenSegments < Word, 1 < Word
  PROVE  Spec => []OpenSegmentsCounted
<1>. DEFINE Inv == IsFiniteSet(pFile) /\ OpenSegmentsCounted
<1>1. Init => Inv
  BY FS_EmptySet, AewfSizes DEF Init, OpenSegmentsCounted
<1>2. Typed /\ Inv /\ [Next]_vars => Inv'
  <2>. SUFFICES ASSUME Typed, Inv, [Next]_vars PROVE Inv'
    OBVIOUS
  <2>1. CASE UNCHANGED <<pFile, OpenSegments>>
    BY <2>1 DEF OpenSegmentsCounted
  <2>2. ASSUME NEW s \in pFile, OpenSegments >= MaxOpenSegments,
               pFile' = pFile \ {s}, OpenSegments' = Minus(OpenSegments, 1)
        PROVE  Inv'
    <3>1. /\ IsFiniteSet(pFile') /\ Cardinality(pFile') = Cardinality(pFile) - 1
          /\ Cardinality(pFile') \in Nat
      BY <2>2, FS_RemoveElement, FS_CardinalityType
    <3>2. OpenSegments \in 0..Word-1 /\ OpenSegments = Cardinality(pFile)
      BY DEF Typed, OpenSegmentsCounted
    <3>3. OpenSegments' = OpenSegments - 1
      BY <2>2, <3>1, <3>2, Counting
    <3>. QED BY <3>1, <3>2, <3>3, AewfSizes DEF OpenSegmentsCounted
  <2>3. CASE /\ pFile' = pFile \cup {Segment} /\ Segment \notin pFile
             /\ (OpenSegments < MaxOpenSegments \/ pFile = {}) /\ Opened
    <3>1. /\ IsFiniteSet(pFile') /\ Cardinality(pFile') = Cardinality(pFile) + 1
          /\ pFile = {} => Cardinality(pFile) = 0
      BY <2>3, FS_AddElement, FS_EmptySet
    <3>2. OpenSegments \in 0..Word-1 /\ OpenSegments = Cardinality(pFile)
      BY DEF Typed, OpenSegmentsCounted
    <3>3. OpenSegments + 1 <= IF MaxOpenSegments = 0 THEN 1 ELSE MaxOpenSegments
      BY <2>3, <3>1, <3>2, AewfSizes
    <3>4. OpenSegments' = OpenSegments + 1
      BY <2>3, <3>2, <3>3, Counting, AewfSizes DEF Opened
    <3>. QED BY <3>1, <3>2, <3>3, <3>4 DEF OpenSegmentsCounted
  <2>. QED BY <2>1, <2>2, <2>3
       DEF Next, Step, vars, StartBatch, Miss, ReleaseTable, TableFits, CloseSegment,
           OpenSegment, LoadTable, CopyChunk, ReadChunk, Join, JoinCrashes, EndBatch,
           CopyLegacy, ReadLegacy, AewfRead, Work, UnchangedFiles
<1>. QED BY <1>1, <1>2, AlwaysTyped, PTL DEF Spec

=============================================================================
