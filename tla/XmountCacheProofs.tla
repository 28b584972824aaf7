-------------------------- MODULE XmountCacheProofs --------------------------
(***************************************************************************)
(* Proofs about XmountCache, for every size of image, block, header and    *)
(* footer, every number of threads and every set of requests: as long as   *)
(* no fflush fails, the variables keep their types and the block index of  *)
(* the cache file is sound.  The invariant that makes the induction work   *)
(* is IndexInv of XmountCache.                                             *)
(***************************************************************************)
EXTENDS XmountCache, SequenceTheorems, TLAPS

-----------------------------------------------------------------------------
(* Arithmetic of blocks                                                    *)

\* Quotient and remainder by the block size.
LEMMA DivMod ==
  ASSUME NEW f \in Nat
  PROVE  /\ f \div BlockSize \in Nat
         /\ f % BlockSize \in 0..BlockSize-1
         /\ f = BlockSize * (f \div BlockSize) + (f % BlockSize)
  BY SizesAssumption

\* There is a block for every cell of the image: needed_blocks is enough.
LEMMA BlockExists ==
  ASSUME NEW f \in Nat, f < ImageSize
  PROVE  /\ NeededBlocks \in Nat
         /\ f \div BlockSize < NeededBlocks
<1>. DEFINE q == f \div BlockSize
            Q == ImageSize \div BlockSize
            R == ImageSize % BlockSize
<1>1. q \in Nat /\ Q \in Nat /\ R \in 0..BlockSize-1
  BY DivMod, SizesAssumption
<1>2. f >= BlockSize * q
  BY DivMod, SizesAssumption
<1>3. ImageSize = BlockSize * Q + R
  BY DivMod, SizesAssumption
<1>4. NeededBlocks = IF R # 0 THEN Q + 1 ELSE Q
  BY <1>1 DEF NeededBlocks
<1>5. BlockSize * q < BlockSize * Q + R
  BY <1>1, <1>2, <1>3, SizesAssumption
<1>6. q <= Q
  <2>1. SUFFICES ASSUME q >= Q + 1 PROVE FALSE
    BY <1>1
  <2>2. BlockSize * q >= BlockSize * Q + BlockSize
    BY <1>1, <2>1, SizesAssumption
  <2>. QED BY <1>1, <1>5, <2>2, SizesAssumption
<1>7. R = 0 => q < Q
  BY <1>1, <1>5, <1>6, SizesAssumption
<1>. QED BY <1>1, <1>4, <1>6, <1>7

LEMMA NeededBlocksType == NeededBlocks \in Nat /\ DataStart \in Nat /\ DataStart >= 2
  BY DivMod, SizesAssumption DEF NeededBlocks, DataStart

\* A cell of the image at f, as block and offset: the block's last cell that
\* the image has is not before f.
LEMMA BlockPart ==
  ASSUME NEW f \in Nat, f < ImageSize
  PROVE  /\ BlockChunk(f \div BlockSize) \in Chunks
         /\ IsBlock(BlockChunk(f \div BlockSize))
         /\ (f % BlockSize) \in 0..BlockSize-1
<1>1. /\ f \div BlockSize \in Nat
      /\ (f % BlockSize) \in 0..BlockSize-1
      /\ NeededBlocks \in Nat
      /\ f \div BlockSize < NeededBlocks
  BY BlockExists, DivMod
<1>. HIDE DEF NeededBlocks
<1>. QED BY <1>1 DEF BlockChunk, Chunks, IsBlock

-----------------------------------------------------------------------------
(* Pieces of requests                                                      *)

LEMMA ChunkSizeType ==
  ASSUME NEW c \in Chunks
  PROVE  ChunkSize(c) \in Nat \ {0}
  BY SizesAssumption DEF ChunkSize

\* A piece of a request inside the virtual file is not empty, is part of the
\* request and lies inside one chunk.
LEMMA PieceInChunk ==
  ASSUME NEW ot \in {"dd", "vdi", "vhd"}, NEW v \in Nat, NEW left \in Nat \ {0},
         v + left <= VirtImageSize(ot)
  PROVE  /\ ChunkAt(ot, v) \in Chunks
         /\ OffsetAt(ot, v) \in Nat
         /\ CountAt(ot, v, left) \in 1..left
         /\ OffsetAt(ot, v) + CountAt(ot, v, left) <= ChunkSize(ChunkAt(ot, v))
<1>1. CASE ot = "vdi" /\ v < VdiSize
  <2>1. /\ ChunkAt(ot, v) = 0
        /\ OffsetAt(ot, v) = v
        /\ CountAt(ot, v, left) = Least(left, VdiSize - v)
        /\ ChunkSize(0) = VdiSize
    <3>1. ChunkAt(ot, v) = 0
      BY <1>1 DEF ChunkAt, VdiChunk
    <3>2. OffsetAt(ot, v) = v
      BY <1>1 DEF OffsetAt
    <3>3. CountAt(ot, v, left) = Least(left, VdiSize - v)
      BY <1>1 DEF CountAt
    <3>4. ChunkSize(0) = VdiSize
      BY DEF ChunkSize, VdiChunk, VhdChunk
    <3>. QED BY <3>1, <3>2, <3>3, <3>4
  <2>. QED BY <1>1, <2>1, NeededBlocksType, SizesAssumption DEF Chunks, Least
<1>2. CASE ot = "vhd" /\ v >= ImageSize
  BY <1>2, NeededBlocksType, SizesAssumption
  DEF ChunkAt, OffsetAt, CountAt, ChunkSize, VhdChunk, VdiChunk, Chunks, VirtImageSize
<1>3. CASE ~(ot = "vdi" /\ v < VdiSize) /\ ~(ot = "vhd" /\ v >= ImageSize)
  <2>. DEFINE f == ImageOffset(ot, v)
  <2>1. f \in Nat /\ f < ImageSize
    BY <1>3, SizesAssumption DEF ImageOffset, VirtImageSize
  <2>2. /\ ChunkAt(ot, v) = BlockChunk(f \div BlockSize)
        /\ OffsetAt(ot, v) = f % BlockSize
        /\ CountAt(ot, v, left)
             = Least(Least(left, BlockSize - (f % BlockSize)), ImageSize - f)
    BY <1>3 DEF ChunkAt, OffsetAt, CountAt
  <2>3. ChunkSize(ChunkAt(ot, v)) = BlockSize
    BY <2>1, <2>2, BlockPart DEF IsBlock, ChunkSize, VdiChunk, VhdChunk, Chunks
  <2>4. (f % BlockSize) \in 0..BlockSize-1
    BY <2>1, BlockPart
  <2>5. ChunkAt(ot, v) \in Chunks
    BY <2>1, <2>2, BlockPart
  <2>. DEFINE r == f % BlockSize
  <2>6. CountAt(ot, v, left) \in 1..left /\ CountAt(ot, v, left) <= BlockSize - r
    <3>. HIDE DEF f, r
    <3>. QED BY <2>1, <2>2, <2>4, SizesAssumption DEF Least, r
  <2>. HIDE DEF f
  <2>. QED BY <2>2, <2>3, <2>4, <2>5, <2>6, SizesAssumption
<1>. QED BY <1>1, <1>2, <1>3

\* The original contents of a chunk are values.
LEMMA OriginalType ==
  ASSUME NEW c \in Chunks, NEW i \in Nat, i < ChunkSize(c)
  PROVE  Original(c, i) \in Values
<1>1. CASE c = VdiChunk
  BY <1>1, ContentsAssumption, SizesAssumption DEF Original, ChunkSize
<1>2. CASE c = VhdChunk
  BY <1>2, ContentsAssumption, SizesAssumption
  DEF Original, ChunkSize, VdiChunk, VhdChunk
<1>3. CASE c # VdiChunk /\ c # VhdChunk
  <2>. DEFINE a == (c - 2) * BlockSize + i
  <2>1. c - 2 \in Nat
    BY <1>3, NeededBlocksType DEF Chunks, VdiChunk, VhdChunk
  <2>2. a \in Nat
    BY <2>1, SizesAssumption
  <2>3. Original(c, i) = IF a < ImageSize THEN Image[a] ELSE Zero
    BY <1>3 DEF Original
  <2>. HIDE DEF a
  <2>. QED BY <2>2, <2>3, ContentsAssumption, SizesAssumption
<1>. QED BY <1>1, <1>2, <1>3

LEMMA OriginalRangeType ==
  ASSUME NEW c \in Chunks, NEW first \in Nat, NEW n \in Nat,
         first + n <= ChunkSize(c)
  PROVE  /\ OriginalRange(c, first, n) \in Seq(Values)
         /\ Len(OriginalRange(c, first, n)) = n
<1>1. \A i \in 1..n : Original(c, first + i - 1) \in Values
  <2>. SUFFICES ASSUME NEW i \in 1..n PROVE Original(c, first + i - 1) \in Values
    OBVIOUS
  <2>1. first + i - 1 \in Nat /\ first + i - 1 < ChunkSize(c)
    BY ChunkSizeType
  <2>. QED BY <2>1, OriginalType
<1>2. OriginalRange(c, first, n) \in [1..n -> Values]
  BY <1>1 DEF OriginalRange
<1>. QED BY <1>2

-----------------------------------------------------------------------------
(* The stream                                                              *)

\* A cache file whose cells have the types they have to have.
FileTyped(f) ==
  /\ f.len \in Nat
  /\ DOMAIN f.cell = 0..f.len-1
  /\ \A x \in 0..f.len-1 : f.cell[x] \in (IF x < DataStart THEN Entry ELSE Values)

\* Cell x of file f after d is written at address a.
CellAfter(f, a, d, x) ==
  CASE x \in a..a+Len(d)-1 -> d[x - a + 1]
    [] x \notin a..a+Len(d)-1 /\ x < f.len -> f.cell[x]
    [] OTHER -> Zero

\* What a write to a file changes.
LEMMA OverwriteCell ==
  ASSUME NEW f, NEW a, NEW d
  PROVE  /\ DOMAIN Overwrite(f, a, d).cell = 0..Overwrite(f, a, d).len-1
         /\ \A x \in 0..Overwrite(f, a, d).len-1 :
              Overwrite(f, a, d).cell[x] = CellAfter(f, a, d, x)
BY DEF Overwrite, CellAfter

\* Data of the right types written to a file leaves no gap in header and index.
LEMMA OverwriteTyped ==
  ASSUME NEW f, FileTyped(f), NEW a \in Nat, NEW d \in Seq(Entry \cup Values),
         a >= DataStart => f.len >= DataStart \/ d = <<>>,
         a < DataStart => a <= f.len,
         \A i \in 1..Len(d) : d[i] \in (IF a + i - 1 < DataStart THEN Entry ELSE Values)
  PROVE  FileTyped(Overwrite(f, a, d))
<1>. SUFFICES ASSUME NEW g, g = Overwrite(f, a, d) PROVE FileTyped(g)
  OBVIOUS
<1>1. f.len \in Nat /\ Len(d) \in Nat /\ DataStart \in Nat
  BY NeededBlocksType DEF FileTyped
<1>2. /\ g.len \in Nat
      /\ DOMAIN g.cell = 0..g.len-1
      /\ g.len = f.len \/ (d # <<>> /\ g.len = a + Len(d))
  <2>1. DOMAIN g.cell = 0..g.len-1
    BY OverwriteCell
  <2>2. g.len \in Nat /\ (g.len = f.len \/ (d # <<>> /\ g.len = a + Len(d)))
    BY <1>1 DEF Overwrite
  <2>. QED BY <2>1, <2>2
<1>3. ASSUME NEW x \in 0..g.len-1
      PROVE  g.cell[x] \in (IF x < DataStart THEN Entry ELSE Values)
  <2>1. g.cell[x] = CellAfter(f, a, d, x)
    BY OverwriteCell
  <2>2. CASE x \in a..a+Len(d)-1
    <3>1. g.cell[x] = d[x - a + 1] /\ x - a + 1 \in 1..Len(d)
      BY <1>1, <2>1, <2>2 DEF CellAfter
    <3>2. a + (x - a + 1) - 1 = x
      BY <1>1, <2>2
    <3>. DEFINE i == x - a + 1
    <3>3. d[i] \in (IF a + i - 1 < DataStart THEN Entry ELSE Values)
      <4>. HIDE DEF i
      <4>. QED BY <3>1 DEF i
    <3>. QED BY <3>1, <3>2, <3>3
  <2>3. CASE x \notin a..a+Len(d)-1 /\ x < f.len
    <3>1. g.cell[x] = f.cell[x]
      BY <2>1, <2>3 DEF CellAfter
    <3>2. x \in 0..f.len-1
      BY <1>1, <1>2, <2>3
    <3>. QED BY <3>1, <3>2 DEF FileTyped
  <2>4. CASE x \notin a..a+Len(d)-1 /\ ~(x < f.len)
    <3>1. g.cell[x] = Zero
      BY <2>1, <2>4 DEF CellAfter
    <3>2. x >= DataStart
      <4>1. d # <<>> /\ x < a
        BY <1>1, <1>2, <2>4
      <4>. QED BY <1>1, <2>4, <4>1
    <3>. QED BY <3>1, <3>2, ContentsAssumption, <1>1
  <2>. QED BY <2>2, <2>3, <2>4
<1>. QED BY <1>2, <1>3 DEF FileTyped

\* The part of the invariant that speaks about the cache file, the stream and
\* the block index, while the program runs.
Stored ==
  /\ FileTyped(file)
  /\ at \in Nat
  /\ buf \in Seq(Entry \cup Values)
  /\ \A i \in 1..Len(buf) :
       buf[i] \in (IF at + i - 1 < DataStart THEN Entry ELSE Values)
  /\ mem \in [Chunks -> Entry]
  /\ StreamInv
  /\ file.len >= DataStart =>
       \A c \in Chunks : file.cell[c].Assigned => mem[c] = file.cell[c]
  /\ SoundIndex(mem)

\* What reaches the file when n of the unwritten cells are written out.
LEMMA WrittenStored ==
  ASSUME Stored, NEW n \in 0..Len(buf), NEW f, f = Written(n)
  PROVE  /\ FileTyped(f)
         /\ f.len >= file.len
         /\ f.len >= DataStart =>
              \A c \in Chunks : f.cell[c].Assigned => mem[c] = f.cell[c]
         /\ n = Len(buf) => f.len >= DataStart
         /\ n = Len(buf) /\ buf # <<>> => f.len >= at + Len(buf)
<1>. DEFINE s == SubSeq(buf, 1, n)
<1>1. /\ file.len \in Nat /\ FileTyped(file)
      /\ at \in Nat
      /\ Len(buf) \in Nat /\ n \in Nat
      /\ DataStart \in Nat /\ DataStart >= 2
      /\ file.len >= DataStart \/ NewHeader
  BY NeededBlocksType DEF Stored, FileTyped, StreamInv
<1>2. /\ s \in Seq(Entry \cup Values)
      /\ Len(s) = n
      /\ \A i \in 1..n : s[i] = buf[i]
  <2>1. \A i \in 1..n : buf[i] \in Entry \cup Values
    BY <1>1 DEF Stored
  <2>. QED BY <1>1, <2>1, SubSeqProperties
<1>. HIDE DEF s
<1>3. f = Overwrite(file, at, s)
  BY DEF Written, s
<1>4. FileTyped(f)
  <2>1. \A i \in 1..Len(s) : s[i] \in (IF at + i - 1 < DataStart THEN Entry ELSE Values)
    <3>. SUFFICES ASSUME NEW i \in 1..n
                  PROVE  s[i] \in (IF at + i - 1 < DataStart THEN Entry ELSE Values)
      BY <1>2
    <3>1. s[i] = buf[i] /\ i \in 1..Len(buf)
      BY <1>1, <1>2
    <3>. QED BY <3>1 DEF Stored
  <2>2. at >= DataStart => file.len >= DataStart
    BY <1>1 DEF NewHeader
  <2>3. at < DataStart => at <= file.len
    BY <1>1 DEF NewHeader
  <2>. QED BY <1>1, <1>2, <1>3, <2>1, <2>2, <2>3, OverwriteTyped
<1>5. /\ f.len \in Nat
      /\ f.len >= file.len
      /\ n # 0 => f.len >= at + n
      /\ f.len # file.len => f.len = at + n
      /\ n = 0 => f.len = file.len
  <2>1. s = <<>> <=> n = 0
    BY <1>2, EmptySeq
  <2>2. file.len \in Nat /\ at \in Nat /\ Len(s) \in Nat
    BY <1>1, <1>2
  <2>3. /\ f.len \in Nat
        /\ f.len >= file.len
        /\ s = <<>> => f.len = file.len
        /\ s # <<>> => f.len >= at + Len(s)
        /\ f.len # file.len => f.len = at + Len(s)
    BY <1>3, <2>2 DEF Overwrite
  <2>. QED BY <1>2, <2>1, <2>3
<1>6. n = Len(buf) => f.len >= DataStart
  BY <1>1, <1>5 DEF NewHeader
<1>7. buf # <<>> => Len(buf) # 0
  BY EmptySeq DEF Stored
<1>8. ASSUME f.len >= DataStart, NEW c \in Chunks, f.cell[c].Assigned
      PROVE  mem[c] = f.cell[c]
  <2>1. c \in Nat /\ c < DataStart
    BY NeededBlocksType DEF Chunks, DataStart
  <2>2. f.cell[c] = CellAfter(file, at, s, c)
    BY <1>1, <1>3, <1>5, <1>8, <2>1, OverwriteCell
  <2>3. CASE c \in at..at+n-1
    <3>1. f.cell[c] = buf[c - at + 1] /\ c - at + 1 \in 1..Len(buf)
      <4>1. f.cell[c] = s[c - at + 1]
        BY <1>2, <2>2, <2>3 DEF CellAfter
      <4>. QED BY <1>1, <1>2, <2>3, <4>1
    <3>2. NewHeader \/ OneSlot
      BY <1>1, <2>1, <2>3, EmptySeq DEF Stored, StreamInv
    <3>3. CASE NewHeader
      <4>1. f.cell[c] = EmptyIndex[c]
        BY <2>1, <3>1, <3>3 DEF NewHeader
      <4>2. ~f.cell[c].Assigned
        BY <4>1 DEF EmptyIndex
      <4>. QED BY <1>8, <4>2
    <3>4. CASE OneSlot
      BY <1>1, <2>1, <2>3, <3>1, <3>4 DEF OneSlot
    <3>. QED BY <3>2, <3>3, <3>4
  <2>4. CASE c \notin at..at+n-1
    <3>1. file.len >= DataStart
      BY <1>1, <1>5, <1>8, <2>1, <2>4 DEF NewHeader
    <3>2. f.cell[c] = file.cell[c]
      BY <1>1, <1>2, <2>1, <2>2, <2>4, <3>1 DEF CellAfter
    <3>. QED BY <1>8, <3>1, <3>2 DEF Stored
  <2>. QED BY <2>3, <2>4
<1>. QED BY <1>4, <1>5, <1>6, <1>7, <1>8

\* An index stays sound when the file grows.
LEMMA LargerFile ==
  ASSUME mem \in [Chunks -> Entry], SoundIndex(mem), file.len \in Nat,
         file'.len \in Nat, file'.len >= file.len, UNCHANGED mem
  PROVE  SoundIndex(mem)'
<1>1. \A c \in Chunks : mem[c].Assigned =>
        /\ mem[c].off_data >= DataStart
        /\ mem[c].off_data + ChunkSize(c) <= file'.len
  <2>. SUFFICES ASSUME NEW c \in Chunks, mem[c].Assigned
                PROVE  /\ mem[c].off_data >= DataStart
                       /\ mem[c].off_data + ChunkSize(c) <= file'.len
    OBVIOUS
  <2>1. mem[c].off_data \in Nat /\ ChunkSize(c) \in Nat
    BY ChunkSizeType DEF Entry
  <2>2. /\ mem[c].off_data >= DataStart
        /\ mem[c].off_data + ChunkSize(c) <= file.len
    BY DEF SoundIndex
  <2>. QED BY <2>1, <2>2
<1>. QED BY <1>1 DEF SoundIndex, Apart

\* fseeko: the buffer has gone to the file.
LEMMA SeekStored ==
  ASSUME Stored, NEW a \in Nat, SeekTo(a), UNCHANGED mem
  PROVE  /\ Stored'
         /\ buf' = <<>> /\ at' = a
         /\ file'.len >= DataStart /\ file'.len >= file.len
         /\ buf # <<>> => file'.len >= at + Len(buf)
<1>1. Len(buf) \in 0..Len(buf) /\ Len(buf) \in Nat
  BY DEF Stored
<1>2. file' = Written(Len(buf)) /\ buf' = <<>> /\ at' = a /\ mem' = mem
  BY DEF SeekTo, Flushed
<1>3. /\ FileTyped(file')
      /\ file'.len >= file.len
      /\ \A c \in Chunks : file'.cell[c].Assigned => mem[c] = file'.cell[c]
      /\ file'.len >= DataStart
      /\ buf # <<>> => file'.len >= at + Len(buf)
  BY <1>1, <1>2, WrittenStored
<1>4. file.len \in Nat /\ file'.len \in Nat
  BY <1>3 DEF Stored, FileTyped
<1>5. SoundIndex(mem)'
  BY <1>2, <1>3, <1>4, LargerFile DEF Stored
<1>6. StreamInv'
  BY <1>2, <1>3 DEF StreamInv
<1>7. Stored'
  BY <1>2, <1>3, <1>5, <1>6, EmptySeq DEF Stored
<1>. QED BY <1>2, <1>3, <1>7

\* fwrite of data behind header and index.
LEMMA PutStored ==
  ASSUME Stored, buf = <<>>, at >= DataStart, NEW d \in Seq(Values), Put(d),
         UNCHANGED mem
  PROVE  Stored' /\ buf' = d /\ file' = file /\ at' = at
<1>1. buf' = d /\ file' = file /\ at' = at /\ mem' = mem
  BY ConcatEmptySeq DEF Put
<1>2. at \in Nat /\ DataStart \in Nat /\ Len(d) \in Nat
  BY NeededBlocksType DEF Stored
<1>3. d \in Seq(Entry \cup Values) /\ \A i \in 1..Len(d) : d[i] \in Values
  <2>1. \A i \in 1..Len(d) : d[i] \in Values
    OBVIOUS
  <2>2. d \in [1..Len(d) -> Entry \cup Values]
    BY <2>1, LenProperties
  <2>. QED BY <1>2, <2>1, <2>2
<1>4. \A i \in 1..Len(d) : d[i] \in (IF at + i - 1 < DataStart THEN Entry ELSE Values)
  BY <1>2, <1>3
<1>5. StreamInv'
  <2>1. file.len >= DataStart
    BY <1>2, NeededBlocksType DEF Stored, StreamInv, NewHeader
  <2>. QED BY <1>1, <2>1 DEF StreamInv
<1>6. SoundIndex(mem)'
  BY <1>1 DEF Stored, SoundIndex, Apart
<1>. QED BY <1>1, <1>2, <1>3, <1>4, <1>5, <1>6 DEF Stored

\* fwrite that fails: some of the data is in the file, the buffer is empty.
LEMMA PutFailsStored ==
  ASSUME Stored, buf = <<>>, at >= DataStart, NEW d \in Seq(Values), PutFails(d),
         UNCHANGED mem
  PROVE  Stored' /\ buf' = <<>>
<1>1. PICK n \in 0..Len(d)-1 :
        /\ file' = Overwrite(file, at, SubSeq(buf \o d, 1, Len(buf) + n))
        /\ at' = at + Len(buf) + n
  BY DEF PutFails
<1>. DEFINE s == SubSeq(d, 1, n)
<1>2. /\ at \in Nat /\ DataStart \in Nat /\ DataStart >= 2 /\ Len(d) \in Nat
      /\ n \in Nat /\ n <= Len(d)
      /\ file.len \in Nat /\ FileTyped(file)
      /\ file.len >= DataStart
  BY NeededBlocksType DEF Stored, FileTyped, StreamInv, NewHeader
<1>3. Len(buf) = 0 /\ buf \o d = d
  BY ConcatEmptySeq, EmptySeq
<1>4. file' = Overwrite(file, at, s) /\ at' = at + n /\ buf' = <<>> /\ mem' = mem
  BY <1>1, <1>2, <1>3 DEF PutFails
<1>5. s \in Seq(Values) /\ Len(s) = n /\ \A i \in 1..n : s[i] \in Values
  <2>1. \A i \in 1..n : d[i] \in Values
    BY <1>2
  <2>. QED BY <1>2, <2>1, SubSeqProperties
<1>. HIDE DEF s
<1>6. s \in Seq(Entry \cup Values)
  <2>1. s \in [1..n -> Entry \cup Values]
    BY <1>5, LenProperties
  <2>. QED BY <1>2, <2>1
<1>7. FileTyped(file')
  <2>1. \A i \in 1..Len(s) : s[i] \in (IF at + i - 1 < DataStart THEN Entry ELSE Values)
    BY <1>2, <1>5
  <2>. QED BY <1>2, <1>4, <1>6, <2>1, OverwriteTyped
<1>8. file'.len \in Nat /\ file'.len >= file.len
  BY <1>2, <1>4, <1>5 DEF Overwrite
<1>9. ASSUME NEW c \in Chunks PROVE file'.cell[c] = file.cell[c]
  <2>1. c \in Nat /\ c < DataStart
    BY NeededBlocksType DEF Chunks, DataStart
  <2>2. file'.cell[c] = CellAfter(file, at, s, c)
    BY <1>2, <1>4, <1>8, <2>1, OverwriteCell
  <2>. QED BY <1>2, <1>5, <2>1, <2>2 DEF CellAfter
<1>10. SoundIndex(mem)'
  BY <1>2, <1>4, <1>8, LargerFile DEF Stored
<1>11. StreamInv'
  BY <1>2, <1>4, <1>8 DEF StreamInv
<1>12. \A c \in Chunks : file'.cell[c].Assigned => mem'[c] = file'.cell[c]
  BY <1>2, <1>4, <1>9 DEF Stored
<1>. QED BY <1>2, <1>4, <1>7, <1>10, <1>11, <1>12, EmptySeq DEF Stored

-----------------------------------------------------------------------------
(* The threads                                                             *)

Inv == TypeOK /\ IndexInv

Outside == {"idle", "called", "answered"}

\* What the invariant says while the program runs.
LEMMA RunningInv ==
  ASSUME otype # "none"
  PROVE  Inv <=> /\ Stored
                 /\ otype \in OutputTypes
                 /\ mutex \in Threads \cup {NoThread}
                 /\ th \in [Threads -> ThreadState]
                 /\ \A t \in Threads : RequestInv(t) /\ AppendInv(t)
BY DEF Inv, TypeOK, IndexInv, Stored, FileTyped

\* A thread that handles a request belongs to a running program.
LEMMA Running ==
  ASSUME Inv, NEW t \in Threads, th[t].pc # "idle"
  PROVE  otype # "none" /\ otype \in {"dd", "vdi", "vhd"} /\ Stored
<1>1. otype # "none"
  <2>. SUFFICES ASSUME otype = "none" PROVE FALSE
    OBVIOUS
  <2>1. th = IdleThreads
    BY DEF Inv, IndexInv
  <2>. QED BY <2>1 DEF IdleThreads, IdleThread
<1>. QED BY <1>1, RunningInv, RequestsAssumption

\* A thread outside the critical section that does not move keeps its part of
\* the invariant whatever the others do.
LEMMA Waiting ==
  ASSUME NEW s \in Threads, th[s].pc \in Outside, RequestInv(s), th'[s] = th[s]
  PROVE  RequestInv(s)' /\ AppendInv(s)'
BY DEF Outside, RequestInv, AppendInv, Working

\* The piece that a thread in the critical section works on.
LEMMA Piece ==
  ASSUME Inv, NEW t \in Threads, th[t].pc \in Working, Left(t) # 0
  PROVE  /\ Left(t) \in Nat \ {0}
         /\ Chunk(t) \in Chunks
         /\ ChunkOff(t) \in Nat
         /\ Count(t) \in 1..Left(t)
         /\ ChunkOff(t) + Count(t) <= ChunkSize(Chunk(t))
         /\ th[t].op = "write" => /\ NewData(t) \in Seq(Values)
                                  /\ Len(NewData(t)) = Count(t)
<1>. DEFINE v == th[t].off + th[t].done
<1>1. /\ th[t] \in ThreadState
      /\ RequestInv(t)
      /\ otype \in {"dd", "vdi", "vhd"}
  BY Running DEF Inv, TypeOK, IndexInv, Working
<1>2. /\ th[t].off \in Nat /\ th[t].want \in Nat /\ th[t].done \in Nat
      /\ th[t].data \in Seq(Values)
  BY <1>1 DEF ThreadState
<1>3. /\ th[t].done <= th[t].want
      /\ th[t].want # 0 => th[t].off + th[t].want <= VirtImageSize(otype)
      /\ th[t].op = "write" => Len(th[t].data) = th[t].want
  BY <1>1 DEF RequestInv
<1>4. Left(t) \in Nat \ {0} /\ th[t].want # 0
  BY <1>2, <1>3 DEF Left
<1>5. v \in Nat /\ v + Left(t) <= VirtImageSize(otype)
  <2>1. VirtImageSize(otype) \in Nat
    BY SizesAssumption DEF VirtImageSize
  <2>. QED BY <1>2, <1>3, <1>4, <2>1 DEF Left
<1>6. /\ Chunk(t) \in Chunks
      /\ ChunkOff(t) \in Nat
      /\ Count(t) \in 1..Left(t)
      /\ ChunkOff(t) + Count(t) <= ChunkSize(Chunk(t))
  <2>. HIDE DEF v
  <2>1. /\ Chunk(t) = ChunkAt(otype, v)
        /\ ChunkOff(t) = OffsetAt(otype, v)
        /\ Count(t) = CountAt(otype, v, Left(t))
    BY DEF Chunk, ChunkOff, Count, v
  <2>. QED BY <1>1, <1>4, <1>5, <2>1, PieceInChunk
<1>7. ASSUME th[t].op = "write"
      PROVE  NewData(t) \in Seq(Values) /\ Len(NewData(t)) = Count(t)
  <2>. DEFINE m == th[t].done + 1
              n == th[t].done + Count(t)
  <2>1. m \in Int /\ n \in Int /\ 1 <= m /\ m <= n /\ n <= Len(th[t].data)
    <3>1. Len(th[t].data) = th[t].want
      BY <1>3, <1>7
    <3>2. Left(t) = th[t].want - th[t].done
      BY DEF Left
    <3>3. \A a \in 1..Left(t) : /\ th[t].done + a \in Int
                                /\ th[t].done + 1 <= th[t].done + a
                                /\ th[t].done + a <= th[t].want
      BY <1>2, <1>4, <3>2
    <3>. QED BY <1>2, <1>6, <3>1, <3>3
  <2>2. \A i \in m..n : th[t].data[i] \in Values
    <3>. SUFFICES ASSUME NEW i \in m..n PROVE th[t].data[i] \in Values
      OBVIOUS
    <3>1. i \in 1..Len(th[t].data)
      BY <1>2, <2>1
    <3>. QED BY <1>2, <3>1
  <2>3. NewData(t) = SubSeq(th[t].data, m, n)
    BY DEF NewData
  <2>4. n - m + 1 = Count(t)
    BY <1>2, <1>4, <1>6
  <2>. HIDE DEF m, n
  <2>. QED BY <2>1, <2>2, <2>3, <2>4, SubSeqProperties
<1>. QED BY <1>4, <1>6, <1>7

\* A step of the thread that has the mutex preserves the invariant if it keeps
\* the stream and the index in order and that thread's own part.
LEMMA InsideStep ==
  ASSUME Inv, NEW t \in Threads, th[t].pc \notin Outside,
         UNCHANGED <<otype, mutex>>,
         NEW r \in ThreadState, th' = [th EXCEPT ![t] = r],
         Stored', RequestInv(t)', AppendInv(t)'
  PROVE  Inv'
<1>1. /\ otype # "none" /\ otype \in OutputTypes
      /\ th \in [Threads -> ThreadState]
      /\ mutex = t
  BY Running, RunningInv DEF Outside, RequestInv
<1>2. th' \in [Threads -> ThreadState]
  BY <1>1
<1>3. ASSUME NEW s \in Threads
      PROVE  RequestInv(s)' /\ AppendInv(s)'
  <2>1. CASE s # t
    <3>1. th'[s] = th[s]
      BY <1>1, <2>1
    <3>2. RequestInv(s)
      BY DEF Inv, IndexInv
    <3>3. th[s].pc \in Outside
      BY <1>1, <2>1, <3>2 DEF RequestInv, Outside
    <3>. QED BY <3>1, <3>2, <3>3, Waiting
  <2>. QED BY <2>1
<1>4. otype' \in OutputTypes /\ otype' # "none" /\ mutex' \in Threads \cup {NoThread}
  BY <1>1
<1>. QED BY <1>2, <1>3, <1>4 DEF Inv, TypeOK, IndexInv, Stored, FileTyped

LEMMA StoredUnchanged ==
  ASSUME Stored, UNCHANGED <<file, at, buf, mem>>
  PROVE  Stored'
BY DEF Stored, StreamInv, NewHeader, OneSlot, SoundIndex, Apart

\* What is known of a thread in the critical section.
LEMMA Inside ==
  ASSUME Inv, NEW t \in Threads, th[t].pc \notin Outside
  PROVE  /\ th \in [Threads -> ThreadState]
         /\ th[t] \in ThreadState
         /\ RequestInv(t) /\ AppendInv(t)
         /\ mutex = t
         /\ Stored
         /\ otype \in {"dd", "vdi", "vhd"}
BY Running, RunningInv DEF Outside, RequestInv

\* The error return.
LEMMA FailStep ==
  ASSUME Inv, NEW t \in Threads, th[t].pc \notin Outside, Fail(t),
         UNCHANGED <<otype, mutex>>, Stored'
  PROVE  Inv'
<1>. DEFINE r == [th[t] EXCEPT !.pc = "answer", !.ok = FALSE]
<1>1. th' = [th EXCEPT ![t] = r] /\ r \in ThreadState
  BY Inside DEF Fail, ThreadState
<1>2. th'[t].pc = "answer" /\ mutex' = t
  BY <1>1, Inside DEF ThreadState
<1>3. RequestInv(t)' /\ AppendInv(t)'
  BY <1>2 DEF RequestInv, AppendInv, Working
<1>. HIDE DEF r
<1>. QED BY <1>1, <1>3, InsideStep

\* A piece has been read.
LEMMA ReceivedStep ==
  ASSUME Inv, NEW t \in Threads, th[t].pc \in {"piece", "fread"},
         th[t].op = "read", Left(t) # 0,
         NEW d \in Seq(Values), Len(d) = Count(t), Received(t, d),
         UNCHANGED <<otype, mutex>>, Stored'
  PROVE  Inv'
<1>. DEFINE r == [th[t] EXCEPT !.pc = "piece", !.data = @ \o d, !.done = @ + Len(d)]
<1>1. /\ th[t] \in ThreadState /\ th \in [Threads -> ThreadState]
      /\ RequestInv(t) /\ mutex = t
      /\ th[t].pc \in Working /\ th[t].pc \notin Outside
  BY Inside DEF Outside, Working
<1>2. /\ th[t].done \in Nat /\ th[t].want \in Nat
      /\ Count(t) \in 1..Left(t)
      /\ th[t].data \o d \in Seq(Values)
      /\ th[t].done <= th[t].want
  BY <1>1, Piece, ConcatProperties DEF ThreadState, RequestInv
<1>3. /\ th' = [th EXCEPT ![t] = r]
      /\ r \in ThreadState
  BY <1>1, <1>2 DEF Received, ThreadState
<1>4. /\ th'[t].pc = "piece" /\ th'[t].op = "read"
      /\ th'[t].want = th[t].want /\ th'[t].off = th[t].off
      /\ th'[t].done = th[t].done + Count(t)
      /\ mutex' = t /\ otype' = otype
  BY <1>1, <1>3 DEF ThreadState
<1>5. th'[t].done <= th'[t].want
  BY <1>2, <1>4 DEF Left
<1>6. RequestInv(t)' /\ AppendInv(t)'
  BY <1>1, <1>4, <1>5 DEF RequestInv, AppendInv, Working
<1>. HIDE DEF r
<1>. QED BY <1>1, <1>3, <1>6, InsideStep

\* A thread goes on with the piece it works on.
LEMMA GotoStep ==
  ASSUME Inv, NEW t \in Threads, th[t].pc \in Working, Left(t) # 0,
         NEW pc \in Working \ {"piece"}, Goto(t, pc),
         th[t].op = (IF pc = "fread" THEN "read" ELSE "write"),
         UNCHANGED <<otype, mutex>>, Stored',
         /\ pc \in {"fread", "fwrite"} => buf' = <<>> /\ at' >= DataStart
         /\ pc = "append" => buf' = <<>>
         /\ pc = "assign" => Len(buf') = ChunkSize(Chunk(t))
         /\ pc \in {"append", "assign"} =>
              /\ at' = file'.len
              /\ file'.len >= DataStart
              /\ mem'[Chunk(t)] = [Assigned |-> FALSE, off_data |-> at']
  PROVE  Inv'
<1>. DEFINE r == [th[t] EXCEPT !.pc = pc]
<1>1. /\ th[t] \in ThreadState /\ th \in [Threads -> ThreadState]
      /\ RequestInv(t) /\ mutex = t
      /\ th[t].pc \notin Outside
  BY Inside DEF Outside, Working
<1>2. th' = [th EXCEPT ![t] = r] /\ r \in ThreadState
  BY <1>1 DEF Goto, ThreadState, Working
<1>3. /\ th'[t].pc = pc /\ th'[t].op = th[t].op /\ th'[t].data = th[t].data
      /\ th'[t].want = th[t].want /\ th'[t].off = th[t].off
      /\ th'[t].done = th[t].done
      /\ mutex' = t /\ otype' = otype
  BY <1>1, <1>2 DEF ThreadState
<1>4. th[t].done < th[t].want
  BY <1>1 DEF RequestInv, ThreadState, Left
<1>5. RequestInv(t)'
  BY <1>1, <1>3, <1>4 DEF RequestInv, Working
<1>6. Chunk(t)' = Chunk(t)
  BY <1>3 DEF Chunk
<1>7. AppendInv(t)'
  BY <1>3, <1>6 DEF AppendInv
<1>. HIDE DEF r
<1>. QED BY <1>1, <1>2, <1>5, <1>7, InsideStep

-----------------------------------------------------------------------------
(* Every action preserves the invariant                                    *)

LEMMA ReadOriginalInv ==
  ASSUME Inv, NEW t \in Threads, ReadOriginal(t)
  PROVE  Inv'
<1>1. /\ th[t].pc = "piece" /\ th[t].op = "read" /\ Left(t) # 0
      /\ th[t].pc \in Working /\ th[t].pc \notin Outside
      /\ UNCHANGED <<file, at, buf, mem, otype, mutex>>
  BY DEF ReadOriginal, AtPiece, Working, Outside, UnchangedStream
<1>2. Stored'
  BY <1>1, Inside, StoredUnchanged
<1>3. CASE Received(t, OriginalRange(Chunk(t), ChunkOff(t), Count(t)))
  <2>1. /\ Chunk(t) \in Chunks /\ ChunkOff(t) \in Nat /\ Count(t) \in Nat
        /\ ChunkOff(t) + Count(t) <= ChunkSize(Chunk(t))
    BY <1>1, Piece
  <2>2. /\ OriginalRange(Chunk(t), ChunkOff(t), Count(t)) \in Seq(Values)
        /\ Len(OriginalRange(Chunk(t), ChunkOff(t), Count(t))) = Count(t)
    BY <2>1, OriginalRangeType
  <2>. QED BY <1>1, <1>2, <1>3, <2>2, ReceivedStep
<1>4. CASE Fail(t)
  BY <1>1, <1>2, <1>4, FailStep
<1>. QED BY <1>3, <1>4 DEF ReadOriginal

LEMMA SeekCachedInv ==
  ASSUME Inv, "flush" \notin Faults, NEW t \in Threads, SeekCached(t)
  PROVE  Inv'
<1>1. /\ th[t].pc = "piece" /\ Left(t) # 0 /\ mem[Chunk(t)].Assigned
      /\ th[t].pc \in Working /\ th[t].pc \notin Outside
      /\ UNCHANGED <<mem, otype, mutex>>
  BY DEF SeekCached, Working, Outside
<1>2. /\ SeekTo(mem[Chunk(t)].off_data + ChunkOff(t))
      /\ Goto(t, IF th[t].op = "read" THEN "fread" ELSE "fwrite")
  BY DEF SeekCached, FlushFails
<1>3. Stored /\ th[t].op \in {"read", "write"}
  BY <1>1, Inside DEF ThreadState
<1>4. Chunk(t) \in Chunks /\ ChunkOff(t) \in Nat
  BY <1>1, Piece
<1>. DEFINE a == mem[Chunk(t)].off_data + ChunkOff(t)
<1>5. a \in Nat /\ a >= DataStart
  <2>1. mem[Chunk(t)].off_data \in Nat /\ mem[Chunk(t)].off_data >= DataStart
    BY <1>1, <1>3, <1>4 DEF Stored, SoundIndex, Entry
  <2>. QED BY <1>4, <2>1, NeededBlocksType
<1>6. Stored' /\ buf' = <<>> /\ at' = a
  <2>. HIDE DEF a
  <2>1. SeekTo(a)
    BY <1>2 DEF a
  <2>. QED BY <1>1, <1>3, <1>5, <2>1, SeekStored
<1>. DEFINE pc == IF th[t].op = "read" THEN "fread" ELSE "fwrite"
<1>7. /\ pc \in Working \ {"piece"} /\ pc \in {"fread", "fwrite"}
      /\ pc \notin {"append", "assign"}
      /\ th[t].op = (IF pc = "fread" THEN "read" ELSE "write")
  BY <1>3 DEF Working
<1>8. Goto(t, pc) /\ at' >= DataStart
  BY <1>2, <1>5, <1>6
<1>. HIDE DEF pc, a
<1>. QED BY <1>1, <1>6, <1>7, <1>8, GotoStep

LEMMA ReadCachedInv ==
  ASSUME Inv, NEW t \in Threads, ReadCached(t)
  PROVE  Inv'
<1>1. /\ th[t].pc = "fread"
      /\ th[t].pc \in Working /\ th[t].pc \notin Outside
      /\ UNCHANGED <<file, buf, mem, otype, mutex>>
  BY DEF ReadCached, Working, Outside
<1>2. /\ Stored /\ th[t] \in ThreadState
      /\ th[t].op = "read" /\ th[t].done < th[t].want
      /\ buf = <<>> /\ at >= DataStart
  BY <1>1, Inside DEF RequestInv, AppendInv, Working
<1>3. Left(t) # 0
  BY <1>2 DEF Left, ThreadState
<1>4. /\ Count(t) \in Nat
      /\ at \in Nat /\ file.len \in Nat /\ DataStart \in Nat
      /\ file.len >= DataStart
  <2>1. Count(t) \in Nat
    BY <1>1, <1>3, Piece
  <2>2. ~NewHeader
    BY <1>2, NeededBlocksType, EmptySeq DEF NewHeader
  <2>. QED BY <1>2, <2>1, <2>2, NeededBlocksType DEF Stored, FileTyped, StreamInv
<1>5. at' \in Nat
  BY <1>4 DEF ReadCached
<1>6. Stored'
  <2>1. StreamInv'
    BY <1>1, <1>2, <1>4 DEF StreamInv
  <2>2. SoundIndex(mem)'
    BY <1>1, <1>2 DEF Stored, SoundIndex, Apart
  <2>. QED BY <1>1, <1>2, <1>5, <2>1, <2>2, EmptySeq DEF Stored
<1>7. CASE /\ at + Count(t) <= file.len
           /\ Received(t, [i \in 1..Count(t) |-> file.cell[at + i - 1]])
  <2>. DEFINE d == [i \in 1..Count(t) |-> file.cell[at + i - 1]]
  <2>1. \A i \in 1..Count(t) : file.cell[at + i - 1] \in Values
    <3>. SUFFICES ASSUME NEW i \in 1..Count(t) PROVE file.cell[at + i - 1] \in Values
      OBVIOUS
    <3>1. at + i - 1 \in 0..file.len-1 /\ ~(at + i - 1 < DataStart)
      BY <1>2, <1>4, <1>7
    <3>. QED BY <1>2, <3>1 DEF Stored, FileTyped
  <2>2. d \in [1..Count(t) -> Values]
    BY <2>1
  <2>3. d \in Seq(Values) /\ Len(d) = Count(t)
    BY <1>4, <2>2
  <2>. HIDE DEF d
  <2>4. Received(t, d)
    BY <1>7 DEF d
  <2>. QED BY <1>1, <1>2, <1>3, <1>6, <2>3, <2>4, ReceivedStep
<1>8. CASE Fail(t)
  BY <1>1, <1>6, <1>8, FailStep
<1>. QED BY <1>7, <1>8 DEF ReadCached

LEMMA WriteCachedInv ==
  ASSUME Inv, NEW t \in Threads, WriteCached(t)
  PROVE  Inv'
<1>1. /\ th[t].pc = "fwrite"
      /\ th[t].pc \in Working /\ th[t].pc \notin Outside
      /\ UNCHANGED <<mem, otype, mutex>>
  BY DEF WriteCached, Working, Outside
<1>2. /\ Stored /\ th[t] \in ThreadState
      /\ th[t].op = "write" /\ th[t].done < th[t].want
      /\ buf = <<>> /\ at >= DataStart
  BY <1>1, Inside DEF RequestInv, AppendInv, Working
<1>3. Left(t) # 0
  BY <1>2 DEF Left, ThreadState
<1>4. NewData(t) \in Seq(Values)
  BY <1>1, <1>2, <1>3, Piece
<1>5. CASE Put(NewData(t)) /\ Goto(t, "sync")
  <2>1. Stored'
    BY <1>1, <1>2, <1>4, <1>5, PutStored
  <2>. QED BY <1>1, <1>2, <1>3, <1>5, <2>1, GotoStep DEF Working
<1>6. CASE PutFails(NewData(t)) /\ Fail(t)
  <2>1. Stored'
    BY <1>1, <1>2, <1>4, <1>6, PutFailsStored
  <2>. QED BY <1>1, <1>6, <2>1, FailStep
<1>. QED BY <1>5, <1>6 DEF WriteCached

LEMMA SeekEndInv ==
  ASSUME Inv, "flush" \notin Faults, NEW t \in Threads, SeekEnd(t)
  PROVE  Inv'
<1>. DEFINE c == Chunk(t)
<1>1. /\ th[t].pc = "piece" /\ th[t].op = "write" /\ Left(t) # 0
      /\ ~mem[c].Assigned
      /\ th[t].pc \in Working /\ th[t].pc \notin Outside
      /\ UNCHANGED <<otype, mutex>>
  BY DEF SeekEnd, AtPiece, Working, Outside
<1>2. /\ file' = Written(Len(buf)) /\ buf' = <<>> /\ at' = file'.len
      /\ mem' = [mem EXCEPT ![c].off_data = at']
      /\ Goto(t, "append")
  BY DEF SeekEnd, AppendAddress, FlushFails, SeekTo, Flushed
<1>3. Stored /\ c \in Chunks
  BY <1>1, Inside, Piece
<1>4. /\ FileTyped(file')
      /\ file'.len >= file.len
      /\ file'.len >= DataStart
      /\ \A x \in Chunks : file'.cell[x].Assigned => mem[x] = file'.cell[x]
  <2>1. Len(buf) \in 0..Len(buf)
    BY <1>3 DEF Stored
  <2>. QED BY <1>2, <1>3, <2>1, WrittenStored
<1>5. /\ mem \in [Chunks -> Entry]
      /\ at' \in Nat /\ file.len \in Nat /\ file'.len \in Nat
  BY <1>2, <1>3, <1>4 DEF Stored, FileTyped
<1>6. /\ mem' \in [Chunks -> Entry]
      /\ mem'[c] = [Assigned |-> FALSE, off_data |-> at']
      /\ \A x \in Chunks \ {c} : mem'[x] = mem[x]
  <2>1. mem[c] \in Entry /\ mem[c].Assigned = FALSE
    BY <1>1, <1>3, <1>5 DEF Entry
  <2>. QED BY <1>2, <1>3, <1>5, <2>1 DEF Entry
<1>7. \A x \in Chunks : mem'[x].Assigned => x # c /\ mem'[x] = mem[x]
  BY <1>6
<1>8. \A x \in Chunks : file'.cell[x].Assigned => mem'[x] = file'.cell[x]
  BY <1>1, <1>4, <1>6
<1>9. SoundIndex(mem)'
  <2>1. ASSUME NEW x \in Chunks, mem'[x].Assigned
        PROVE  /\ mem'[x].off_data >= DataStart
               /\ mem'[x].off_data + ChunkSize(x) <= file'.len
    <3>1. mem[x].Assigned /\ mem'[x] = mem[x]
      BY <1>7, <2>1
    <3>2. /\ mem[x].off_data >= DataStart
          /\ mem[x].off_data + ChunkSize(x) <= file.len
      BY <1>3, <3>1 DEF Stored, SoundIndex
    <3>3. mem[x].off_data \in Nat /\ ChunkSize(x) \in Nat
      BY <1>5, ChunkSizeType DEF Entry
    <3>. QED BY <1>4, <1>5, <3>1, <3>2, <3>3
  <2>2. ASSUME NEW x \in Chunks, NEW y \in Chunks, x # y,
               mem'[x].Assigned, mem'[y].Assigned
        PROVE  Apart(mem', x, y)
    BY <1>3, <1>7, <2>2 DEF Stored, SoundIndex, Apart
  <2>. QED BY <2>1, <2>2 DEF SoundIndex, Apart
<1>10. Stored'
  <2>1. StreamInv'
    BY <1>2, <1>4 DEF StreamInv
  <2>. QED BY <1>2, <1>4, <1>5, <1>6, <1>8, <1>9, <2>1, EmptySeq DEF Stored
<1>11. "append" \in Working \ {"piece"}
  BY DEF Working
<1>. QED BY <1>1, <1>2, <1>4, <1>6, <1>10, <1>11, GotoStep

LEMMA AppendChunkInv ==
  ASSUME Inv, NEW t \in Threads, AppendChunk(t)
  PROVE  Inv'
<1>. DEFINE c == Chunk(t)
            o == ChunkOff(t)
            end == o + Count(t)
            head == OriginalRange(c, 0, o) \o NewData(t)
            tail == Padding(c, end)
<1>1. /\ th[t].pc = "append"
      /\ th[t].pc \in Working /\ th[t].pc \notin Outside
      /\ UNCHANGED <<mem, otype, mutex>>
  BY DEF AppendChunk, Working, Outside
<1>2. /\ Stored /\ th[t] \in ThreadState
      /\ th[t].op = "write" /\ th[t].done < th[t].want
      /\ buf = <<>> /\ at = file.len /\ at >= DataStart
      /\ mem[c] = [Assigned |-> FALSE, off_data |-> at]
  BY <1>1, Inside DEF RequestInv, AppendInv, Working
<1>3. Left(t) # 0
  BY <1>2 DEF Left, ThreadState
<1>4. /\ c \in Chunks /\ o \in Nat /\ Count(t) \in Nat /\ end \in Nat
      /\ end <= ChunkSize(c) /\ ChunkSize(c) \in Nat
      /\ NewData(t) \in Seq(Values) /\ Len(NewData(t)) = Count(t)
  BY <1>1, <1>2, <1>3, Piece, ChunkSizeType
<1>5. head \in Seq(Values) /\ Len(head) = end
  <2>1. /\ OriginalRange(c, 0, o) \in Seq(Values)
        /\ Len(OriginalRange(c, 0, o)) = o
    BY <1>4, OriginalRangeType
  <2>. QED BY <1>4, <2>1, ConcatProperties
<1>6. tail \in Seq(Values) /\ Len(tail) = ChunkSize(c) - end
  BY <1>4, OriginalRangeType DEF Padding
<1>7. head \o tail \in Seq(Values) /\ Len(head \o tail) = ChunkSize(c)
  <2>. HIDE DEF head, tail
  <2>1. /\ head \o tail \in Seq(Values)
        /\ Len(head \o tail) = Len(head) + Len(tail)
    BY <1>5, <1>6, ConcatProperties
  <2>2. Len(head) + Len(tail) = ChunkSize(c)
    <3>. HIDE DEF c, end
    <3>. QED BY <1>4, <1>5, <1>6
  <2>. QED BY <2>1, <2>2
<1>8. CASE Put(head \o tail) /\ Goto(t, "assign")
  <2>. HIDE DEF head, tail
  <2>1. Stored' /\ buf' = head \o tail /\ file' = file /\ at' = at
    BY <1>1, <1>2, <1>7, <1>8, PutStored
  <2>2. "assign" \in Working \ {"piece"} /\ mem' = mem
    BY <1>1 DEF Working
  <2>. QED BY <1>1, <1>2, <1>3, <1>7, <1>8, <2>1, <2>2, GotoStep
<1>9. ASSUME NEW d \in {head \o tail, head}, PutFails(d), Fail(t)
      PROVE  Inv'
  <2>1. d \in Seq(Values)
    BY <1>5, <1>7
  <2>2. Stored'
    BY <1>1, <1>2, <1>9, <2>1, PutFailsStored
  <2>. QED BY <1>1, <1>9, <2>2, FailStep
<1>10. CASE UnchangedStream /\ Fail(t)
  BY <1>1, <1>2, <1>10, StoredUnchanged, FailStep DEF UnchangedStream
<1>11. CASE Put(head) /\ Fail(t)
  <2>. HIDE DEF head
  <2>1. Stored'
    BY <1>1, <1>2, <1>5, <1>11, PutStored
  <2>. QED BY <1>1, <1>11, <2>1, FailStep
<1>12. \/ Put(head \o tail) /\ Goto(t, "assign")
       \/ \E d \in {head \o tail, head} : PutFails(d) /\ Fail(t)
       \/ UnchangedStream /\ Fail(t)
       \/ Put(head) /\ Fail(t)
  BY DEF AppendChunk
<1>. QED BY <1>8, <1>9, <1>10, <1>11, <1>12

LEMMA AssignChunkInv ==
  ASSUME Inv, "flush" \notin Faults, NEW t \in Threads, AssignChunk(t)
  PROVE  Inv'
<1>. DEFINE c == Chunk(t)
<1>1. /\ th[t].pc = "assign"
      /\ th[t].pc \in Working /\ th[t].pc \notin Outside
      /\ UNCHANGED <<otype, mutex>>
  BY DEF AssignChunk, Working, Outside
<1>2. /\ Stored /\ th[t] \in ThreadState
      /\ th[t].op = "write" /\ th[t].done < th[t].want
      /\ Len(buf) = ChunkSize(c) /\ at = file.len /\ file.len >= DataStart
      /\ mem[c] = [Assigned |-> FALSE, off_data |-> at]
  BY <1>1, Inside DEF RequestInv, AppendInv, Working
<1>3. Left(t) # 0
  BY <1>2 DEF Left, ThreadState
<1>4. /\ c \in Chunks /\ ChunkSize(c) \in Nat \ {0}
      /\ c \in Nat /\ c < DataStart
  <2>1. c \in Chunks
    BY <1>1, <1>3, Piece
  <2>. QED BY <2>1, ChunkSizeType, NeededBlocksType DEF Chunks, DataStart
<1>5. /\ mem' = [mem EXCEPT ![c] = [Assigned |-> TRUE, off_data |-> @.off_data]]
      /\ file' = Written(Len(buf)) /\ at' = c
      /\ \/ buf' = <<mem'[c]>> /\ Goto(t, "sync")
         \/ buf' = <<>> /\ Fail(t)
  BY DEF AssignChunk, FlushFails, Flushed, SlotAddress
<1>6. /\ FileTyped(file')
      /\ file'.len >= file.len
      /\ file'.len >= DataStart
      /\ file'.len >= at + ChunkSize(c)
      /\ \A x \in Chunks : file'.cell[x].Assigned => mem[x] = file'.cell[x]
  <2>1. Len(buf) \in 0..Len(buf) /\ buf # <<>>
    BY <1>2, <1>4, EmptySeq DEF Stored
  <2>. QED BY <1>2, <1>5, <2>1, WrittenStored
<1>7. /\ mem \in [Chunks -> Entry]
      /\ at \in Nat /\ file.len \in Nat /\ file'.len \in Nat /\ DataStart \in Nat
  BY <1>2, <1>6, NeededBlocksType DEF Stored, FileTyped
<1>8. /\ mem' \in [Chunks -> Entry]
      /\ mem'[c] = [Assigned |-> TRUE, off_data |-> at]
      /\ \A x \in Chunks \ {c} : mem'[x] = mem[x]
  <2>. HIDE DEF c
  <2>. DEFINE e == [Assigned |-> FALSE, off_data |-> at]
  <2>1. mem[c] = e
    BY <1>2
  <2>2. mem'[c] = [Assigned |-> TRUE, off_data |-> mem[c].off_data]
    BY <1>4, <1>5, <1>7
  <2>3. mem[c].off_data = at
    BY <2>1
  <2>4. mem'[c] = [Assigned |-> TRUE, off_data |-> at]
    BY <2>2, <2>3
  <2>5. [Assigned |-> TRUE, off_data |-> at] \in Entry
    BY <1>7 DEF Entry
  <2>6. mem'[c] \in Entry
    BY <2>4, <2>5
  <2>. QED BY <1>4, <1>5, <1>7, <2>4, <2>6
<1>9. \A x \in Chunks : file'.cell[x].Assigned => mem'[x] = file'.cell[x]
  <2>. SUFFICES ASSUME NEW x \in Chunks, file'.cell[x].Assigned
                PROVE  mem'[x] = file'.cell[x]
    OBVIOUS
  <2>1. mem[x] = file'.cell[x] /\ mem[x].Assigned
    BY <1>6
  <2>2. x # c
    BY <1>2, <2>1
  <2>. QED BY <1>8, <2>1, <2>2
<1>10. \A x \in Chunks \ {c} : mem'[x].Assigned =>
         /\ mem'[x].off_data \in Nat /\ ChunkSize(x) \in Nat
         /\ mem'[x].off_data >= DataStart
         /\ mem'[x].off_data + ChunkSize(x) <= file.len
  <2>. SUFFICES ASSUME NEW x \in Chunks \ {c}, mem[x].Assigned
                PROVE  /\ mem[x].off_data \in Nat /\ ChunkSize(x) \in Nat
                       /\ mem[x].off_data >= DataStart
                       /\ mem[x].off_data + ChunkSize(x) <= file.len
    BY <1>8
  <2>1. mem[x].off_data \in Nat /\ ChunkSize(x) \in Nat
    BY <1>7, ChunkSizeType DEF Entry
  <2>. QED BY <1>2, <2>1 DEF Stored, SoundIndex
<1>11. SoundIndex(mem)'
  <2>1. ASSUME NEW x \in Chunks, mem'[x].Assigned
        PROVE  /\ mem'[x].off_data >= DataStart
               /\ mem'[x].off_data + ChunkSize(x) <= file'.len
    <3>1. CASE x = c
      BY <1>2, <1>4, <1>6, <1>7, <1>8, <3>1
    <3>2. CASE x # c
      BY <1>6, <1>7, <1>10, <2>1, <3>2
    <3>. QED BY <3>1, <3>2
  <2>2. ASSUME NEW x \in Chunks, NEW y \in Chunks, x # y,
               mem'[x].Assigned, mem'[y].Assigned
        PROVE  Apart(mem', x, y)
    <3>1. CASE x = c
      BY <1>2, <1>8, <1>10, <2>2, <3>1 DEF Apart
    <3>2. CASE y = c
      BY <1>2, <1>8, <1>10, <2>2, <3>2 DEF Apart
    <3>3. CASE x # c /\ y # c
      BY <1>2, <1>8, <2>2, <3>3 DEF Stored, SoundIndex, Apart
    <3>. QED BY <3>1, <3>2, <3>3
  <2>. QED BY <2>1, <2>2 DEF SoundIndex, Apart
<1>12. ASSUME buf' = <<>> \/ buf' = <<mem'[c]>>
       PROVE  Stored'
  <2>1. StreamInv'
    <3>1. CASE buf' = <<>>
      BY <1>6, <3>1 DEF StreamInv
    <3>2. CASE buf' = <<mem'[c]>>
      <4>1. Len(buf') = 1 /\ buf'[1] = mem'[c]
        BY <3>2
      <4>2. OneSlot'
        BY <1>4, <1>5, <4>1 DEF OneSlot
      <4>. QED BY <1>6, <4>2 DEF StreamInv
    <3>. QED BY <1>12, <3>1, <3>2
  <2>2. /\ buf' \in Seq(Entry \cup Values)
        /\ \A i \in 1..Len(buf') :
             buf'[i] \in (IF at' + i - 1 < DataStart THEN Entry ELSE Values)
    <3>1. CASE buf' = <<>>
      BY <3>1
    <3>2. CASE buf' = <<mem'[c]>>
      <4>1. mem'[c] \in Entry
        BY <1>4, <1>8
      <4>2. buf' \in Seq(Entry \cup Values) /\ Len(buf') = 1 /\ buf'[1] \in Entry
        BY <3>2, <4>1
      <4>. QED BY <1>4, <1>5, <1>7, <4>2
    <3>. QED BY <1>12, <3>1, <3>2
  <2>. QED BY <1>4, <1>5, <1>6, <1>8, <1>9, <1>11, <2>1, <2>2 DEF Stored
<1>13. "sync" \in Working \ {"piece"}
  BY DEF Working
<1>14. CASE buf' = <<mem'[c]>> /\ Goto(t, "sync")
  BY <1>1, <1>2, <1>3, <1>12, <1>13, <1>14, GotoStep
<1>15. CASE buf' = <<>> /\ Fail(t)
  BY <1>1, <1>12, <1>15, FailStep
<1>. QED BY <1>5, <1>14, <1>15

LEMMA SyncInv ==
  ASSUME Inv, "flush" \notin Faults, NEW t \in Threads, Sync(t)
  PROVE  Inv'
<1>. DEFINE r == [th[t] EXCEPT !.pc = "piece", !.done = @ + Count(t)]
<1>1. /\ th[t].pc = "sync"
      /\ th[t].pc \in Working /\ th[t].pc \notin Outside
      /\ UNCHANGED <<mem, otype, mutex>>
      /\ SeekTo(at + Len(buf))
  BY DEF Sync, SyncStream, Flush, FlushFails, Working, Outside
<1>2. /\ Stored /\ th[t] \in ThreadState /\ th \in [Threads -> ThreadState]
      /\ RequestInv(t) /\ mutex = t
      /\ th[t].op = "write" /\ th[t].done < th[t].want
  BY <1>1, Inside DEF RequestInv, Working
<1>3. Left(t) # 0
  BY <1>2 DEF Left, ThreadState
<1>4. Stored'
  <2>1. at + Len(buf) \in Nat
    BY <1>2 DEF Stored
  <2>. QED BY <1>1, <1>2, <2>1, SeekStored
<1>5. /\ th[t].done \in Nat /\ th[t].want \in Nat
      /\ Count(t) \in Nat /\ th[t].done + Count(t) <= th[t].want
  <2>1. Count(t) \in 1..Left(t)
    BY <1>1, <1>3, Piece
  <2>. QED BY <1>2, <2>1 DEF Left, ThreadState
<1>6. th' = [th EXCEPT ![t] = r] /\ r \in ThreadState
  <2>1. th' = [th EXCEPT ![t].pc = "piece", ![t].done = @ + Count(t)]
    BY DEF Sync
  <2>2. th' = [th EXCEPT ![t] = r]
    BY <1>2, <2>1
  <2>3. th[t].done + Count(t) \in Nat
    BY <1>5
  <2>4. r \in ThreadState
    BY <1>2, <2>3 DEF ThreadState
  <2>. QED BY <2>2, <2>4
<1>7. /\ th'[t].pc = "piece" /\ th'[t].op = "write" /\ th'[t].data = th[t].data
      /\ th'[t].want = th[t].want /\ th'[t].off = th[t].off
      /\ th'[t].done = th[t].done + Count(t)
      /\ mutex' = t /\ otype' = otype
  BY <1>1, <1>2, <1>6 DEF ThreadState
<1>8. RequestInv(t)' /\ AppendInv(t)'
  BY <1>1, <1>2, <1>5, <1>7 DEF RequestInv, AppendInv, Working
<1>. HIDE DEF r
<1>. QED BY <1>1, <1>4, <1>6, <1>8, InsideStep

\* A step that leaves file, stream and index alone.
LEMMA StillStep ==
  ASSUME Inv, otype # "none", UNCHANGED <<file, at, buf, mem, otype>>,
         mutex' \in Threads \cup {NoThread}, th' \in [Threads -> ThreadState],
         \A s \in Threads : RequestInv(s)' /\ AppendInv(s)'
  PROVE  Inv'
<1>1. Stored'
  BY RunningInv, StoredUnchanged
<1>2. otype' \in OutputTypes /\ otype' # "none"
  BY RunningInv
<1>. QED BY <1>1, <1>2 DEF Inv, TypeOK, IndexInv, Stored, FileTyped

LEMMA RequestStep ==
  ASSUME Inv, NEW t \in Threads, NEW op \in {"read", "write"}, NEW off \in Nat,
         NEW want \in Nat, NEW data \in Seq(Values),
         op = "write" => Len(data) = want,
         Request(t, op, off, want, data)
  PROVE  Inv'
<1>. DEFINE r == [IdleThread EXCEPT !.pc = "called", !.op = op, !.off = off,
                                    !.want = want, !.data = data]
<1>1. /\ otype # "none"
      /\ th' = [th EXCEPT ![t] = r]
      /\ UNCHANGED <<file, at, buf, mem, otype, mutex>>
  BY DEF Request
<1>2. IdleThread \in ThreadState /\ IdleThread.done = 0
  BY EmptySeq DEF IdleThread, ThreadState
<1>3. r \in ThreadState
  BY <1>2 DEF ThreadState
<1>4. /\ th \in [Threads -> ThreadState] /\ mutex' \in Threads \cup {NoThread}
      /\ \A s \in Threads : RequestInv(s) /\ AppendInv(s)
  BY <1>1, RunningInv
<1>5. th' \in [Threads -> ThreadState] /\ th'[t] = r
      /\ \A s \in Threads \ {t} : th'[s] = th[s]
  BY <1>1, <1>3, <1>4
<1>6. /\ th'[t].pc = "called" /\ th'[t].op = op /\ th'[t].data = data
      /\ th'[t].want = want /\ th'[t].done = 0
  BY <1>2, <1>5 DEF ThreadState
<1>7. RequestInv(t)' /\ AppendInv(t)'
  BY <1>6 DEF RequestInv, AppendInv, Working
<1>8. ASSUME NEW s \in Threads \ {t}
      PROVE  RequestInv(s)' /\ AppendInv(s)'
  <2>1. th'[s] = th[s] /\ RequestInv(s) /\ AppendInv(s)
    BY <1>4, <1>5
  <2>2. Chunk(s)' = Chunk(s)
    BY <1>1, <2>1 DEF Chunk
  <2>. QED BY <1>1, <2>1, <2>2 DEF RequestInv, AppendInv
<1>. QED BY <1>1, <1>4, <1>5, <1>7, <1>8, StillStep

LEMMA VirtImageSizeType ==
  ASSUME otype \in OutputTypes
  PROVE  VirtImageSize(otype) \in Nat
BY SizesAssumption DEF VirtImageSize

LEMMA RequestReadInv ==
  ASSUME Inv, NEW t \in Threads, RequestRead(t)
  PROVE  Inv'
<1>1. PICK off \in 0..VirtImageSize(otype), n \in ReadSizes :
        Request(t, "read", off, n, <<>>)
  BY DEF RequestRead
<1>2. otype \in OutputTypes
  BY <1>1, RunningInv DEF Request
<1>3. off \in Nat /\ n \in Nat /\ <<>> \in Seq(Values)
  BY <1>2, VirtImageSizeType, RequestsAssumption
<1>. QED BY <1>1, <1>3, RequestStep

LEMMA RequestWriteInv ==
  ASSUME Inv, NEW t \in Threads, RequestWrite(t)
  PROVE  Inv'
<1>1. PICK off \in 0..VirtImageSize(otype), data \in Payloads :
        Request(t, "write", off, Len(data), data)
  BY DEF RequestWrite
<1>2. otype \in OutputTypes
  BY <1>1, RunningInv DEF Request
<1>3. off \in Nat /\ data \in Seq(Values) /\ Len(data) \in Nat
  BY <1>2, VirtImageSizeType, RequestsAssumption
<1>. QED BY <1>1, <1>3, RequestStep

LEMMA LockInv ==
  ASSUME Inv, NEW t \in Threads, Lock(t)
  PROVE  Inv'
<1>. DEFINE want == Clipped(th[t].off, th[t].want)
            n == IF th[t].op = "write" THEN want ELSE 0
            r == [th[t] EXCEPT !.pc = "piece", !.want = want,
                               !.data = SubSeq(@, 1, n)]
<1>1. /\ th[t].pc = "called" /\ mutex = NoThread /\ mutex' = t
      /\ th' = [th EXCEPT ![t].pc = "piece", ![t].want = want,
                          ![t].data = SubSeq(@, 1, n)]
      /\ UNCHANGED <<file, at, buf, mem, otype>>
  BY DEF Lock, MutexFree
<1>2. /\ otype # "none" /\ otype \in OutputTypes
      /\ th \in [Threads -> ThreadState] /\ th[t] \in ThreadState
      /\ \A s \in Threads : RequestInv(s) /\ AppendInv(s)
  BY <1>1, Running, RunningInv
<1>3. /\ th[t].off \in Nat /\ th[t].want \in Nat /\ th[t].data \in Seq(Values)
      /\ th[t].op \in {"read", "write"}
      /\ th[t].op = "write" => Len(th[t].data) = th[t].want
  BY <1>1, <1>2 DEF ThreadState, RequestInv
<1>4. /\ want \in Nat /\ want <= th[t].want
      /\ want # 0 => th[t].off + want <= VirtImageSize(otype)
  BY <1>2, <1>3, VirtImageSizeType DEF Clipped, Least
<1>. HIDE DEF want
<1>5. /\ SubSeq(th[t].data, 1, n) \in Seq(Values)
      /\ th[t].op = "write" => Len(SubSeq(th[t].data, 1, n)) = want
  <2>1. n \in Nat /\ n <= want
    BY <1>4
  <2>2. \A i \in 1..n : th[t].data[i] \in Values
    BY <1>3, <1>4, <2>1
  <2>3. /\ SubSeq(th[t].data, 1, n) \in Seq(Values)
        /\ Len(SubSeq(th[t].data, 1, n)) = n
    <3>. HIDE DEF n
    <3>. QED BY <2>1, <2>2, SubSeqProperties
  <2>. QED BY <2>3
<1>. HIDE DEF n
<1>6. th' = [th EXCEPT ![t] = r]
  BY <1>1, <1>2
<1>7. r \in ThreadState
  BY <1>2, <1>4, <1>5 DEF ThreadState
<1>8. /\ th'[t].pc = "piece" /\ th'[t].op = th[t].op /\ th'[t].want = want
      /\ th'[t].off = th[t].off /\ th'[t].done = th[t].done
      /\ th'[t].data = SubSeq(th[t].data, 1, n)
  BY <1>2, <1>6 DEF ThreadState
<1>9. th[t].done = 0
  BY <1>1, <1>2 DEF RequestInv
<1>10. RequestInv(t)' /\ AppendInv(t)'
  BY <1>1, <1>4, <1>5, <1>8, <1>9 DEF RequestInv, AppendInv, Working
<1>11. ASSUME NEW s \in Threads \ {t}
       PROVE  RequestInv(s)' /\ AppendInv(s)'
  <2>1. th'[s] = th[s] /\ RequestInv(s)
    BY <1>2, <1>6
  <2>2. th[s].pc \in Outside
    BY <1>1, <2>1, ThreadsAssumption DEF RequestInv, Outside
  <2>. QED BY <2>1, <2>2, Waiting
<1>12. th' \in [Threads -> ThreadState]
  <2>. HIDE DEF r
  <2>. QED BY <1>2, <1>6, <1>7
<1>. QED BY <1>1, <1>2, <1>10, <1>11, <1>12, StillStep

LEMMA AnswerInv ==
  ASSUME Inv, NEW t \in Threads, Answer(t)
  PROVE  Inv'
<1>. DEFINE d == IF th[t].op = "read" /\ th[t].ok THEN th[t].data ELSE <<>>
            r == [IdleThread EXCEPT !.pc = "answered", !.op = th[t].op,
                                    !.ok = th[t].ok, !.data = d]
<1>1. /\ th[t].pc \in {"answer", "piece"} /\ th[t].pc \notin Outside
      /\ mutex' = NoThread
      /\ th' = [th EXCEPT ![t] = r]
      /\ UNCHANGED <<file, at, buf, mem, otype>>
  BY DEF Answer, Outside
<1>2. /\ otype # "none"
      /\ th \in [Threads -> ThreadState] /\ th[t] \in ThreadState
      /\ mutex = t
      /\ \A s \in Threads : RequestInv(s)
  BY <1>1, Inside, Running, RunningInv DEF Outside
<1>3. r \in ThreadState
  <2>1. d \in Seq(Values)
    BY <1>2 DEF ThreadState
  <2>. HIDE DEF d
  <2>. QED BY <1>2, <2>1 DEF ThreadState, IdleThread
<1>4. th'[t].pc = "answered"
  BY <1>1, <1>2 DEF IdleThread
<1>5. RequestInv(t)' /\ AppendInv(t)'
  BY <1>4 DEF RequestInv, AppendInv, Working
<1>. HIDE DEF r
<1>6. ASSUME NEW s \in Threads \ {t}
      PROVE  RequestInv(s)' /\ AppendInv(s)'
  <2>1. th'[s] = th[s] /\ RequestInv(s)
    BY <1>1, <1>2
  <2>2. th[s].pc \in Outside
    BY <1>2, <2>1 DEF RequestInv, Outside
  <2>. QED BY <2>1, <2>2, Waiting
<1>7. th' \in [Threads -> ThreadState]
  BY <1>1, <1>2, <1>3
<1>. QED BY <1>1, <1>2, <1>5, <1>6, <1>7, StillStep

LEMMA EmptyIndexType ==
  /\ EmptyIndex \in [Chunks -> Entry]
  /\ \A c \in Chunks : EmptyIndex[c].Assigned = FALSE
BY DEF EmptyIndex, Entry

LEMMA IdleThreadsType ==
  /\ IdleThreads \in [Threads -> ThreadState]
  /\ \A t \in Threads : IdleThreads[t].pc = "idle"
<1>1. IdleThread \in ThreadState /\ IdleThread.pc = "idle"
  BY EmptySeq DEF IdleThread, ThreadState
<1>. QED BY <1>1 DEF IdleThreads

\* A program that does not run satisfies the invariant if its file does.
LEMMA StoppedInv ==
  ASSUME FileTyped(file'), at' = 0, buf' = <<>>, mem' = EmptyIndex,
         otype' = "none", mutex' = NoThread, th' = IdleThreads,
         file'.len >= DataStart => SoundIndex(file.cell)'
  PROVE  Inv'
<1>1. TypeOK'
  BY EmptySeq, EmptyIndexType, IdleThreadsType DEF TypeOK, FileTyped
<1>2. SoundIndex(mem)'
  BY EmptyIndexType DEF SoundIndex
<1>3. ASSUME NEW t \in Threads PROVE RequestInv(t)' /\ AppendInv(t)'
  BY IdleThreadsType DEF RequestInv, AppendInv, Working
<1>. QED BY <1>1, <1>2, <1>3 DEF Inv, IndexInv

\* The file is sound when what it says is also what the program knows.
LEMMA FileSound ==
  ASSUME mem \in [Chunks -> Entry], SoundIndex(mem),
         file.len \in Nat, file'.len \in Nat, file'.len >= file.len,
         \A c \in Chunks : file'.cell[c].Assigned => mem[c] = file'.cell[c]
  PROVE  SoundIndex(file.cell)'
<1>1. ASSUME NEW c \in Chunks, file'.cell[c].Assigned
      PROVE  /\ file'.cell[c].off_data >= DataStart
             /\ file'.cell[c].off_data + ChunkSize(c) <= file'.len
  <2>1. mem[c] = file'.cell[c] /\ mem[c].Assigned
    BY <1>1
  <2>2. mem[c].off_data \in Nat /\ ChunkSize(c) \in Nat
    BY ChunkSizeType DEF Entry
  <2>3. /\ mem[c].off_data >= DataStart
        /\ mem[c].off_data + ChunkSize(c) <= file.len
    BY <2>1 DEF SoundIndex
  <2>. QED BY <2>1, <2>2, <2>3
<1>2. ASSUME NEW c \in Chunks, NEW d \in Chunks, c # d,
             file'.cell[c].Assigned, file'.cell[d].Assigned
      PROVE  Apart(file'.cell, c, d)
  <2>1. mem[c] = file'.cell[c] /\ mem[d] = file'.cell[d]
    BY <1>2
  <2>. QED BY <1>2, <2>1 DEF SoundIndex, Apart
<1>. QED BY <1>1, <1>2 DEF SoundIndex, Apart

LEMMA EndedInv ==
  ASSUME Inv, NEW n \in 0..Len(buf), Ended(n)
  PROVE  Inv'
<1>1. /\ otype # "none" /\ file' = Written(n)
      /\ at' = 0 /\ buf' = <<>> /\ mem' = EmptyIndex /\ otype' = "none"
      /\ mutex' = NoThread /\ th' = IdleThreads
  BY DEF Ended
<1>2. Stored
  BY <1>1, RunningInv
<1>3. /\ FileTyped(file')
      /\ file'.len >= file.len
      /\ file'.len >= DataStart =>
           \A c \in Chunks : file'.cell[c].Assigned => mem[c] = file'.cell[c]
  BY <1>1, <1>2, WrittenStored
<1>4. file'.len >= DataStart => SoundIndex(file.cell)'
  BY <1>2, <1>3, FileSound DEF Stored, FileTyped
<1>. QED BY <1>1, <1>3, <1>4, StoppedInv

LEMMA UnmountInv == ASSUME Inv, Unmount PROVE Inv'
<1>1. otype # "none" /\ Ended(Len(buf))
  BY DEF Unmount, Ended
<1>2. Len(buf) \in 0..Len(buf)
  BY <1>1, RunningInv DEF Stored
<1>. QED BY <1>1, <1>2, EndedInv

LEMMA CrashInv == ASSUME Inv, Crash PROVE Inv'
BY EndedInv DEF Crash

\* What the invariant says while the program does not run.
LEMMA StoppedNow ==
  ASSUME Inv, otype = "none"
  PROVE  /\ FileTyped(file)
         /\ buf = <<>> /\ at = 0 /\ mutex = NoThread
         /\ th = IdleThreads /\ mem = EmptyIndex
         /\ file.len >= DataStart => SoundIndex(file.cell)
BY DEF Inv, TypeOK, IndexInv, FileTyped

\* The program starts running.
LEMMA StartedInv ==
  ASSUME Stored', otype' \in OutputTypes, mutex' = NoThread, th' = IdleThreads
  PROVE  Inv'
<1>1. otype' # "none"
  BY RequestsAssumption
<1>2. ASSUME NEW t \in Threads PROVE RequestInv(t)' /\ AppendInv(t)'
  BY IdleThreadsType DEF RequestInv, AppendInv, Working
<1>. QED BY <1>1, <1>2, IdleThreadsType
         DEF Inv, TypeOK, IndexInv, Stored, FileTyped

LEMMA EmptyFileTyped == FileTyped(EmptyFile) /\ EmptyFile.len = 0
BY DEF FileTyped, EmptyFile

LEMMA MountNewInv == ASSUME Inv, MountNew PROVE Inv'
<1>. DEFINE slots == [i \in 1..DataStart |-> EmptyIndex[i - 1]]
<1>1. /\ otype = "none" /\ at' = 0
      /\ UNCHANGED <<mem, mutex, th>>
  BY DEF MountNew
<1>2. /\ buf = <<>> /\ mutex = NoThread /\ th = IdleThreads /\ mem = EmptyIndex
      /\ DataStart \in Nat /\ DataStart >= 2
  BY <1>1, StoppedNow, NeededBlocksType
<1>3. \A i \in 1..DataStart : EmptyIndex[i - 1] \in Entry
  <2>. SUFFICES ASSUME NEW i \in 1..DataStart PROVE EmptyIndex[i - 1] \in Entry
    OBVIOUS
  <2>1. i - 1 \in Chunks
    BY NeededBlocksType DEF Chunks, DataStart
  <2>. QED BY <2>1, EmptyIndexType
<1>4. /\ slots \in Seq(Entry \cup Values)
      /\ Len(slots) = DataStart
      /\ \A i \in 1..DataStart : slots[i] = EmptyIndex[i - 1] /\ slots[i] \in Entry
  <2>1. slots \in [1..DataStart -> Entry \cup Values]
    BY <1>3
  <2>. QED BY <1>2, <1>3, <2>1
<1>5. CASE file' = EmptyFile /\ buf' = slots /\ otype' \in OutputTypes
  <2>. HIDE DEF slots
  <2>1. FileTyped(file') /\ file'.len = 0 /\ ~(file'.len >= DataStart)
    BY <1>2, <1>5, EmptyFileTyped
  <2>2. NewHeader'
    BY <1>1, <1>4, <1>5, <2>1 DEF NewHeader
  <2>3. SoundIndex(mem)'
    BY <1>1, <1>2, EmptyIndexType DEF SoundIndex
  <2>4. /\ buf' \in Seq(Entry \cup Values)
        /\ \A i \in 1..Len(buf') :
             buf'[i] \in (IF at' + i - 1 < DataStart THEN Entry ELSE Values)
    BY <1>1, <1>2, <1>4, <1>5
  <2>5. Stored'
    BY <1>1, <1>2, <2>1, <2>2, <2>3, <2>4, EmptyIndexType DEF Stored, StreamInv
  <2>. QED BY <1>1, <1>2, <1>5, <2>5, StartedInv
<1>6. ASSUME NEW n \in 0..DataStart-1,
             file' = Overwrite(EmptyFile, 0, SubSeq(slots, 1, n)),
             UNCHANGED <<buf, otype>>
      PROVE  Inv'
  <2>. DEFINE s == SubSeq(slots, 1, n)
  <2>1. \A i \in 1..n : slots[i] \in Entry /\ slots[i] \in Entry \cup Values
    BY <1>2, <1>4
  <2>2. /\ s \in Seq(Entry \cup Values)
        /\ Len(s) = n
        /\ \A i \in 1..n : s[i] = slots[i]
    <3>. HIDE DEF slots
    <3>. QED BY <1>2, <2>1, SubSeqProperties
  <2>. HIDE DEF s, slots
  <2>3. file' = Overwrite(EmptyFile, 0, s) /\ n \in Nat /\ n < DataStart
    BY <1>2, <1>6 DEF s, slots
  <2>4. FileTyped(file')
    <3>1. \A i \in 1..Len(s) : s[i] \in (IF 0 + i - 1 < DataStart THEN Entry ELSE Values)
      BY <1>2, <2>1, <2>2, <2>3
    <3>. QED BY <1>2, <2>2, <2>3, <3>1, EmptyFileTyped, OverwriteTyped
  <2>5. file'.len < DataStart
    BY <1>2, <2>2, <2>3, EmptyFileTyped DEF Overwrite
  <2>6. ~(file'.len >= DataStart)
    BY <1>2, <2>4, <2>5 DEF FileTyped
  <2>. QED BY <1>1, <1>2, <1>6, <2>4, <2>6, StoppedInv
<1>. QED BY <1>5, <1>6 DEF MountNew

LEMMA MountExistingInv == ASSUME Inv, MountExisting PROVE Inv'
<1>1. /\ otype = "none" /\ file.len >= DataStart
      /\ at' = DataStart /\ otype' \in OutputTypes
      /\ UNCHANGED <<file, buf, mutex, th>>
  BY DEF MountExisting
<1>2. /\ FileTyped(file) /\ SoundIndex(file.cell)
      /\ buf = <<>> /\ mutex = NoThread /\ th = IdleThreads
  BY <1>1, StoppedNow
<1>3. \A c \in Chunks : file.cell[c] \in Entry
  <2>. SUFFICES ASSUME NEW c \in Chunks PROVE file.cell[c] \in Entry
    OBVIOUS
  <2>1. c \in 0..file.len-1 /\ c < DataStart
    BY <1>1, <1>2, NeededBlocksType DEF Chunks, DataStart, FileTyped
  <2>. QED BY <1>2, <2>1 DEF FileTyped
<1>4. mem' = [c \in Chunks |-> file.cell[c]]
  <2>1. PICK garbage \in [{c \in Chunks : file.cell[c] \notin Entry} -> AnyEntry] :
          mem' = [c \in Chunks |-> IF c \in DOMAIN garbage THEN garbage[c]
                                   ELSE LoadedSlot(c)]
    BY DEF MountExisting
  <2>2. DOMAIN garbage = {}
    BY <1>3
  <2>. QED BY <2>1, <2>2 DEF LoadedSlot
<1>5. mem' \in [Chunks -> Entry] /\ \A c \in Chunks : mem'[c] = file.cell[c]
  BY <1>3, <1>4
<1>6. SoundIndex(mem)'
  BY <1>1, <1>2, <1>5 DEF SoundIndex, Apart
<1>7. Stored'
  BY <1>1, <1>2, <1>5, <1>6, NeededBlocksType, EmptySeq DEF Stored, StreamInv, FileTyped
<1>. QED BY <1>1, <1>2, <1>7, StartedInv

LEMMA StutterInv == ASSUME Inv, UNCHANGED vars PROVE Inv'
<1>1. UNCHANGED <<file, at, buf, mem, otype, mutex, th>>
  BY DEF vars
<1>2. CASE otype = "none"
  <2>1. file'.len >= DataStart => SoundIndex(file.cell)'
    BY <1>1, <1>2, StoppedNow DEF SoundIndex, Apart
  <2>. QED BY <1>1, <1>2, <2>1, StoppedNow, StoppedInv
<1>3. CASE otype # "none"
  <2>1. ASSUME NEW s \in Threads PROVE RequestInv(s)' /\ AppendInv(s)'
    <3>1. RequestInv(s) /\ AppendInv(s) /\ Chunk(s)' = Chunk(s)
      BY <1>1, <1>3, RunningInv DEF Chunk
    <3>. QED BY <1>1, <3>1 DEF RequestInv, AppendInv
  <2>. QED BY <1>1, <1>3, <2>1, RunningInv, StillStep
<1>. QED BY <1>2, <1>3

LEMMA InitInv == Init => Inv
<1>. SUFFICES ASSUME Init PROVE Inv
  OBVIOUS
<1>1. /\ file = EmptyFile /\ at = 0 /\ buf = <<>> /\ mem = EmptyIndex
      /\ otype = "none" /\ mutex = NoThread /\ th = IdleThreads
  BY DEF Init
<1>2. FileTyped(file) /\ ~(file.len >= DataStart)
  BY <1>1, EmptyFileTyped, NeededBlocksType
<1>3. TypeOK
  BY <1>1, <1>2, EmptySeq, EmptyIndexType, IdleThreadsType DEF TypeOK, FileTyped
<1>4. SoundIndex(mem)
  BY <1>1, EmptyIndexType DEF SoundIndex
<1>5. ASSUME NEW t \in Threads PROVE RequestInv(t) /\ AppendInv(t)
  BY <1>1, IdleThreadsType DEF RequestInv, AppendInv, Working
<1>. QED BY <1>1, <1>2, <1>3, <1>4, <1>5 DEF Inv, IndexInv

LEMMA NextInv ==
  ASSUME "flush" \notin Faults, Inv, [Next]_vars
  PROVE  Inv'
<1>1. CASE MountNew
  BY <1>1, MountNewInv
<1>2. CASE MountExisting
  BY <1>2, MountExistingInv
<1>3. CASE MountRefused \/ UNCHANGED vars
  BY <1>3, StutterInv DEF MountRefused
<1>4. CASE Unmount
  BY <1>4, UnmountInv
<1>5. CASE Crash
  BY <1>5, CrashInv
<1>6. ASSUME NEW t \in Threads, RequestRead(t)
      PROVE  Inv'
  BY <1>6, RequestReadInv
<1>7. ASSUME NEW t \in Threads, RequestWrite(t)
      PROVE  Inv'
  BY <1>7, RequestWriteInv
<1>8. ASSUME NEW t \in Threads, Lock(t)
      PROVE  Inv'
  BY <1>8, LockInv
<1>9. ASSUME NEW t \in Threads, Serving(t)
      PROVE  Inv'
  <2>1. CASE ReadOriginal(t) \/ SeekCached(t) \/ ReadCached(t)
    BY <2>1, ReadOriginalInv, SeekCachedInv, ReadCachedInv
  <2>2. CASE WriteCached(t) \/ SeekEnd(t) \/ AppendChunk(t)
    BY <2>2, WriteCachedInv, SeekEndInv, AppendChunkInv
  <2>3. CASE AssignChunk(t) \/ Sync(t) \/ Answer(t)
    BY <2>3, AssignChunkInv, SyncInv, AnswerInv
  <2>. QED BY <1>9, <2>1, <2>2, <2>3 DEF Serving
<1>. QED BY <1>1, <1>2, <1>3, <1>4, <1>5, <1>6, <1>7, <1>8, <1>9 DEF Next

-----------------------------------------------------------------------------
(* The theorems                                                            *)

LEMMA Invariance ==
  ASSUME "flush" \notin Faults
  PROVE  Spec => []Inv
<1>1. Inv /\ [Next]_vars => Inv'
  BY NextInv
<1>. QED BY <1>1, InitInv, PTL DEF Spec

\* As long as no fflush of the cache file fails, header and index of the file
\* hold slots and nothing else, whatever is mounted, written or killed.
THEOREM Typing ==
  ASSUME "flush" \notin Faults
  PROVE  Spec => []TypeOK
<1>1. Inv => TypeOK
  BY DEF Inv
<1>. QED BY <1>1, Invariance, PTL

\* As long as no fflush fails, InitCacheFile and SetVirtImageData keep what is
\* known of the index in memory and what is known of the one in the file.
THEOREM IndexInvariance ==
  ASSUME "flush" \notin Faults
  PROVE  Spec => []IndexInv
<1>1. Inv => IndexInv
  BY DEF Inv
<1>. QED BY <1>1, Invariance, PTL

\* The slots of the cache file are sound in every state.
LEMMA SlotsSound ==
  ASSUME Inv, file.len >= DataStart
  PROVE  SoundIndex(file.cell)
<1>1. CASE otype = "none"
  BY <1>1, StoppedNow
<1>2. CASE otype # "none"
  <2>1. /\ mem \in [Chunks -> Entry] /\ SoundIndex(mem)
        /\ \A c \in Chunks : file.cell[c].Assigned => mem[c] = file.cell[c]
    BY <1>2, RunningInv DEF Stored
  <2>2. \A c \in Chunks : file.cell[c].Assigned =>
          /\ file.cell[c].off_data >= DataStart
          /\ file.cell[c].off_data + ChunkSize(c) <= file.len
    BY <2>1 DEF SoundIndex
  <2>3. ASSUME NEW c \in Chunks, NEW d \in Chunks, c # d,
               file.cell[c].Assigned, file.cell[d].Assigned
        PROVE  Apart(file.cell, c, d)
    <3>1. mem[c] = file.cell[c] /\ mem[d] = file.cell[d]
      BY <2>1, <2>3
    <3>. QED BY <2>1, <2>3, <3>1 DEF SoundIndex, Apart
  <2>. QED BY <2>2, <2>3 DEF SoundIndex, Apart
<1>. QED BY <1>1, <1>2

\* As long as no fflush fails, a slot marked as assigned in the cache file
\* names a whole chunk that is in the file.
THEOREM ChunksStored ==
  ASSUME "flush" \notin Faults
  PROVE  Spec => []AssignedChunksStored
<1>1. Inv => AssignedChunksStored
  <2>. SUFFICES ASSUME Inv, NEW c \in Chunks, Slot(c).Assigned
                PROVE  /\ Slot(c).off_data >= DataStart
                       /\ Slot(c).off_data + ChunkSize(c) <= file.len
    BY DEF AssignedChunksStored
  <2>1. file.len >= DataStart /\ Slot(c) = file.cell[c]
    BY EmptyIndexType DEF Slot
  <2>. QED BY <2>1, SlotsSound DEF SoundIndex
<1>. QED BY <1>1, Invariance, PTL

\* As long as no fflush fails, no two cached chunks share a cell of the file:
\* a write to one block never changes another.
THEOREM ChunksApart ==
  ASSUME "flush" \notin Faults
  PROVE  Spec => []ChunksDisjoint
<1>1. Inv => ChunksDisjoint
  <2>. SUFFICES ASSUME Inv, NEW c \in Chunks, NEW d \in Chunks, c # d,
                       Slot(c).Assigned, Slot(d).Assigned
                PROVE  ChunkCells(Slot(c), c) \cap ChunkCells(Slot(d), d) = {}
    BY DEF ChunksDisjoint
  <2>1. /\ file.len >= DataStart
        /\ Slot(c) = file.cell[c] /\ Slot(d) = file.cell[d]
    BY EmptyIndexType DEF Slot
  <2>2. Apart(file.cell, c, d)
    BY <2>1, SlotsSound DEF SoundIndex
  <2>3. file.cell[c] \in Entry /\ file.cell[d] \in Entry
    <3>1. c \in 0..file.len-1 /\ d \in 0..file.len-1 /\ c < DataStart /\ d < DataStart
      BY <2>1, NeededBlocksType DEF Inv, TypeOK, Chunks, DataStart
    <3>. QED BY <3>1 DEF Inv, TypeOK
  <2>4. ChunkSize(c) \in Nat /\ ChunkSize(d) \in Nat
    BY ChunkSizeType
  <2>. QED BY <2>1, <2>2, <2>3, <2>4 DEF Apart, ChunkCells, Entry
<1>. QED BY <1>1, Invariance, PTL

\* As long as no fflush fails, the comment where SetVirtImageData marks a chunk
\* as cached tells the truth: all of it is in the file.
THEOREM MarkedWritten ==
  ASSUME "flush" \notin Faults
  PROVE  Spec => []MarkedChunksWritten
<1>1. Inv => MarkedChunksWritten
  BY DEF Inv, IndexInv, SoundIndex, MarkedChunksWritten
<1>. QED BY <1>1, Invariance, PTL

-----------------------------------------------------------------------------
(* Chunks stay where they are                                              *)

\* Every slot that is assigned in the cache file stays as it is.
SlotsKept ==
  file.len >= DataStart =>
    /\ file'.len >= DataStart
    /\ \A c \in Chunks : file.cell[c].Assigned => file'.cell[c] = file.cell[c]

\* What the buffer writes over an assigned slot is that slot.
LEMMA WrittenKept ==
  ASSUME Stored, NEW n \in 0..Len(buf), file' = Written(n)
  PROVE  SlotsKept
<1>. DEFINE s == SubSeq(buf, 1, n)
<1>. SUFFICES ASSUME file.len >= DataStart
              PROVE  /\ file'.len >= DataStart
                     /\ \A c \in Chunks : file.cell[c].Assigned
                                           => file'.cell[c] = file.cell[c]
  BY DEF SlotsKept
<1>1. /\ file.len \in Nat /\ at \in Nat /\ Len(buf) \in Nat /\ n \in Nat
      /\ DataStart \in Nat /\ DataStart >= 2 /\ ~NewHeader
  BY NeededBlocksType DEF Stored, FileTyped, NewHeader
<1>2. Len(s) = n /\ \A i \in 1..n : s[i] = buf[i]
  <2>1. \A i \in 1..n : buf[i] \in Entry \cup Values
    BY <1>1 DEF Stored
  <2>. QED BY <1>1, <2>1, SubSeqProperties
<1>. HIDE DEF s
<1>3. file' = Overwrite(file, at, s)
  BY DEF Written, s
<1>4. file'.len \in Nat /\ file'.len >= file.len
  BY <1>1, <1>2, <1>3 DEF Overwrite
<1>5. ASSUME NEW c \in Chunks, file.cell[c].Assigned
      PROVE  file'.cell[c] = file.cell[c]
  <2>1. c \in Nat /\ c < DataStart
    BY NeededBlocksType DEF Chunks, DataStart
  <2>2. file'.cell[c] = CellAfter(file, at, s, c)
    BY <1>1, <1>3, <1>4, <2>1, OverwriteCell
  <2>3. CASE c \in at..at+n-1
    <3>1. OneSlot
      BY <1>1, <2>1, <2>3, EmptySeq DEF Stored, StreamInv
    <3>2. c = at /\ n = 1
      BY <1>1, <2>1, <2>3, <3>1 DEF OneSlot
    <3>3. file'.cell[c] = s[1]
      BY <1>1, <1>2, <2>2, <2>3, <3>2 DEF CellAfter
    <3>4. file'.cell[c] = mem[c]
      BY <1>2, <3>1, <3>2, <3>3 DEF OneSlot
    <3>. QED BY <1>5, <3>4 DEF Stored
  <2>4. CASE c \notin at..at+n-1
    BY <1>1, <1>2, <2>1, <2>2, <2>4 DEF CellAfter
  <2>. QED BY <2>3, <2>4
<1>. QED BY <1>1, <1>4, <1>5

LEMMA PutFailsKept ==
  ASSUME Stored, buf = <<>>, at >= DataStart, NEW d \in Seq(Values), PutFails(d)
  PROVE  SlotsKept
<1>. SUFFICES ASSUME file.len >= DataStart
              PROVE  /\ file'.len >= DataStart
                     /\ \A c \in Chunks : file.cell[c].Assigned
                                           => file'.cell[c] = file.cell[c]
  BY DEF SlotsKept
<1>1. PICK n \in 0..Len(d)-1 :
        file' = Overwrite(file, at, SubSeq(buf \o d, 1, Len(buf) + n))
  BY DEF PutFails
<1>2. /\ file.len \in Nat /\ at \in Nat /\ DataStart \in Nat
      /\ Len(d) \in Nat /\ n \in Nat
  BY NeededBlocksType DEF Stored, FileTyped
<1>. DEFINE s == SubSeq(buf \o d, 1, Len(buf) + n)
<1>3. Len(s) \in Nat
  <2>1. Len(buf) = 0 /\ buf \o d = d
    BY ConcatEmptySeq, EmptySeq
  <2>2. Len(SubSeq(d, 1, n)) \in Nat
    <3>1. \A i \in 1..n : d[i] \in Values
      BY <1>2
    <3>. QED BY <1>2, <3>1, SubSeqProperties
  <2>. QED BY <1>2, <2>1, <2>2
<1>. HIDE DEF s
<1>4. file' = Overwrite(file, at, s)
  BY <1>1 DEF s
<1>5. file'.len \in Nat /\ file'.len >= file.len
  BY <1>2, <1>3, <1>4 DEF Overwrite
<1>6. ASSUME NEW c \in Chunks PROVE file'.cell[c] = file.cell[c]
  <2>1. c \in Nat /\ c < DataStart
    BY NeededBlocksType DEF Chunks, DataStart
  <2>2. file'.cell[c] = CellAfter(file, at, s, c)
    BY <1>2, <1>4, <1>5, <2>1, OverwriteCell
  <2>. QED BY <1>2, <1>3, <2>1, <2>2 DEF CellAfter
<1>. QED BY <1>2, <1>5, <1>6

LEMMA ServingKept ==
  ASSUME "flush" \notin Faults, Inv, NEW t \in Threads, Serving(t)
  PROVE  SlotsKept
<1>1. CASE UNCHANGED file
  BY <1>1 DEF SlotsKept
<1>2. ASSUME Stored, file' = Written(Len(buf))
      PROVE  SlotsKept
  BY <1>2, WrittenKept DEF Stored
<1>3. CASE ReadOriginal(t) \/ ReadCached(t) \/ Answer(t)
  BY <1>1, <1>3 DEF ReadOriginal, ReadCached, Answer, UnchangedStream
<1>4. CASE SeekCached(t) \/ SeekEnd(t) \/ AssignChunk(t) \/ Sync(t)
  <2>1. th[t].pc # "idle"
    BY <1>4 DEF SeekCached, SeekEnd, AtPiece, AssignChunk, Sync
  <2>2. file' = Written(Len(buf))
    BY <1>4 DEF SeekCached, SeekEnd, AssignChunk, Sync, SyncStream, Flush, SeekTo,
                FlushFails, Flushed
  <2>. QED BY <1>2, <2>1, <2>2, Running
<1>5. ASSUME NEW d \in Seq(Values), th[t].pc \in {"fwrite", "append"}, PutFails(d)
      PROVE  SlotsKept
  <2>1. th[t].pc \notin Outside
    BY <1>5 DEF Outside
  <2>2. Stored /\ buf = <<>> /\ at >= DataStart
    BY <1>5, <2>1, Inside DEF AppendInv
  <2>. QED BY <1>5, <2>2, PutFailsKept
<1>6. ASSUME th[t].pc \in {"fwrite", "append"}
      PROVE  /\ Chunk(t) \in Chunks /\ ChunkOff(t) \in Nat /\ Count(t) \in Nat
             /\ ChunkOff(t) + Count(t) <= ChunkSize(Chunk(t))
             /\ NewData(t) \in Seq(Values)
  <2>1. th[t].pc \in Working /\ th[t].pc \notin Outside /\ th[t].pc # "fread"
        /\ th[t].pc # "piece"
    BY <1>6 DEF Working, Outside
  <2>2. th[t] \in ThreadState /\ th[t].done < th[t].want /\ th[t].op = "write"
    BY <2>1, Inside DEF RequestInv
  <2>3. Left(t) # 0
    BY <2>2 DEF Left, ThreadState
  <2>. QED BY <2>1, <2>2, <2>3, Piece
<1>7. CASE WriteCached(t)
  BY <1>1, <1>5, <1>6, <1>7 DEF WriteCached, Put
<1>8. CASE AppendChunk(t)
  <2>. DEFINE c == Chunk(t)
              o == ChunkOff(t)
              end == o + Count(t)
              head == OriginalRange(c, 0, o) \o NewData(t)
              tail == Padding(c, end)
  <2>1. th[t].pc \in {"fwrite", "append"}
    BY <1>8 DEF AppendChunk
  <2>2. head \in Seq(Values) /\ tail \in Seq(Values)
    <3>1. o \in Nat /\ end \in Nat /\ ChunkSize(c) \in Nat
          /\ o <= ChunkSize(c) /\ end <= ChunkSize(c)
      BY <1>6, <2>1, ChunkSizeType
    <3>2. OriginalRange(c, 0, o) \in Seq(Values)
      BY <1>6, <2>1, <3>1, OriginalRangeType
    <3>3. tail \in Seq(Values)
      BY <1>6, <2>1, <3>1, OriginalRangeType DEF Padding
    <3>. QED BY <1>6, <2>1, <3>2, <3>3, ConcatProperties
  <2>3. head \o tail \in Seq(Values)
    <3>. HIDE DEF head, tail
    <3>. QED BY <2>2, ConcatProperties
  <2>4. UNCHANGED file \/ PutFails(head \o tail) \/ PutFails(head)
    BY <1>8 DEF AppendChunk, Put, UnchangedStream
  <2>. HIDE DEF head, tail
  <2>. QED BY <1>1, <1>5, <2>1, <2>2, <2>3, <2>4
<1>. QED BY <1>3, <1>4, <1>7, <1>8 DEF Serving

LEMMA NextKept ==
  ASSUME "flush" \notin Faults, MayOverwrite = FALSE, Inv, [Next]_vars
  PROVE  SlotsKept
<1>1. CASE UNCHANGED file
  BY <1>1 DEF SlotsKept
<1>2. CASE MountNew
  <2>1. file.len = 0
    BY <1>2 DEF MountNew
  <2>. QED BY <2>1, NeededBlocksType DEF SlotsKept
<1>3. ASSUME NEW n \in 0..Len(buf), Ended(n)
      PROVE  SlotsKept
  <2>1. Stored /\ file' = Written(n)
    BY <1>3, RunningInv DEF Ended
  <2>. QED BY <2>1, WrittenKept
<1>4. CASE Unmount
  <2>1. otype # "none" /\ Ended(Len(buf))
    BY <1>4 DEF Unmount, Ended
  <2>2. Len(buf) \in 0..Len(buf)
    BY <2>1, RunningInv DEF Stored
  <2>. QED BY <1>3, <2>1, <2>2
<1>5. CASE Crash
  BY <1>3, <1>5 DEF Crash
<1>6. CASE MountExisting \/ MountRefused \/ UNCHANGED vars
  BY <1>1, <1>6 DEF MountExisting, MountRefused, vars
<1>7. ASSUME NEW t \in Threads, RequestRead(t) \/ RequestWrite(t) \/ Lock(t)
      PROVE  SlotsKept
  BY <1>1, <1>7 DEF RequestRead, RequestWrite, Request, Lock
<1>8. ASSUME NEW t \in Threads, Serving(t)
      PROVE  SlotsKept
  BY <1>8, ServingKept
<1>. QED BY <1>2, <1>4, <1>5, <1>6, <1>7, <1>8 DEF Next

\* As long as no fflush fails and --owcache is not used, a slot that is assigned
\* in the cache file stays as it is: what was cached is never lost from sight.
THEOREM NeverMoves ==
  ASSUME "flush" \notin Faults, MayOverwrite = FALSE
  PROVE  Spec => ChunksNeverMove
<1>1. Inv /\ [Next]_vars =>
        [\A c \in Chunks : Slot(c).Assigned => Slot(c)' = Slot(c)]_file
  <2>. SUFFICES ASSUME Inv, [Next]_vars, NEW c \in Chunks, Slot(c).Assigned
                PROVE  Slot(c)' = Slot(c)
    OBVIOUS
  <2>1. file.len >= DataStart /\ Slot(c) = file.cell[c]
    BY EmptyIndexType DEF Slot
  <2>2. file'.len >= DataStart /\ file'.cell[c] = file.cell[c]
    BY <2>1, NextKept DEF SlotsKept
  <2>. QED BY <2>1, <2>2 DEF Slot
<1>. QED BY <1>1, Invariance, PTL DEF Spec, ChunksNeverMove
=============================================================================
