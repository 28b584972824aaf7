--------------------------- MODULE XmountDiskProofs ---------------------------
(***************************************************************************)
(* XmountCache implements VirtualDisk, for every size, every number of     *)
(* threads and every set of requests: the emulated image is a disk, as     *)
(* long as the only I/O faults are failing reads of the input image and    *)
(* failing writes of data to the cache file.  (A failing fflush loses data *)
(* that was answered, and after a slot that could not be written the       *)
(* program knows chunks that the file does not.)                           *)
(*                                                                         *)
(* DiskInv adds to IndexInv what the refinement needs: the program knows   *)
(* no chunk that the file does not name, apart from the one whose slot is  *)
(* in the buffer; the buffer holds nothing else that could change the      *)
(* disk; and what a thread has transferred so far is what the disk holds.  *)
(***************************************************************************)
EXTENDS XmountCacheProofs

-----------------------------------------------------------------------------
(* Sequences                                                               *)

\* The first n elements of a sequence.
LEMMA Prefix ==
  ASSUME NEW S, NEW s, NEW n \in Nat, \A i \in 1..n : s[i] \in S
  PROVE  /\ SubSeq(s, 1, n) \in Seq(S)
         /\ Len(SubSeq(s, 1, n)) = n
         /\ \A i \in 1..n : SubSeq(s, 1, n)[i] = s[i]
<1>1. /\ SubSeq(s, 1, n) \in Seq(S)
      /\ Len(SubSeq(s, 1, n)) = IF 1 <= n THEN n - 1 + 1 ELSE 0
      /\ \A i \in 1..n - 1 + 1 : SubSeq(s, 1, n)[i] = s[1 + i - 1]
  BY SubSeqProperties
<1>2. n - 1 + 1 = n /\ \A i \in 1..n : 1 + i - 1 = i
  OBVIOUS
<1>. QED BY <1>1, <1>2

\* Three sequences in a row.
LEMMA ThreeParts ==
  ASSUME NEW S, NEW a \in Seq(S), NEW b \in Seq(S), NEW d \in Seq(S)
  PROVE  /\ a \o b \in Seq(S) /\ (a \o b) \o d \in Seq(S)
         /\ \A i \in 0..Len(a)+Len(b)+Len(d)-1 :
              ((a \o b) \o d)[i + 1] =
                IF i < Len(a) THEN a[i + 1]
                ELSE IF i < Len(a) + Len(b) THEN b[i - Len(a) + 1]
                ELSE d[i - (Len(a) + Len(b)) + 1]
<1>1. Len(a) \in Nat /\ Len(b) \in Nat /\ Len(d) \in Nat
  OBVIOUS
<1>2. /\ a \o b \in Seq(S) /\ Len(a \o b) = Len(a) + Len(b)
      /\ \A j \in 1..Len(a)+Len(b) :
           (a \o b)[j] = IF j <= Len(a) THEN a[j] ELSE b[j - Len(a)]
  BY ConcatProperties
<1>3. PICK g : g = a \o b
  OBVIOUS
<1>4. /\ g \o d \in Seq(S)
      /\ \A j \in 1..Len(g)+Len(d) :
           (g \o d)[j] = IF j <= Len(g) THEN g[j] ELSE d[j - Len(g)]
  BY <1>2, <1>3, ConcatProperties
<1>5. ASSUME NEW i \in 0..Len(a)+Len(b)+Len(d)-1
      PROVE  (g \o d)[i + 1] =
               IF i < Len(a) THEN a[i + 1]
               ELSE IF i < Len(a) + Len(b) THEN b[i - Len(a) + 1]
               ELSE d[i - (Len(a) + Len(b)) + 1]
  <2>1. i + 1 \in 1..Len(g)+Len(d) /\ Len(g) = Len(a) + Len(b) /\ Len(g) \in Nat
    BY <1>1, <1>2, <1>3
  <2>2. (g \o d)[i + 1] = IF i + 1 <= Len(g) THEN g[i + 1] ELSE d[i + 1 - Len(g)]
    BY <1>4, <2>1
  <2>3. CASE i < Len(a) + Len(b)
    <3>1. i + 1 \in 1..Len(a)+Len(b)
      BY <1>1, <2>3
    <3>2. g[i + 1] = IF i + 1 <= Len(a) THEN a[i + 1] ELSE b[i + 1 - Len(a)]
      BY <1>2, <1>3, <3>1
    <3>3. i + 1 - Len(a) = i - Len(a) + 1 /\ (i < Len(a) <=> i + 1 <= Len(a))
          /\ i + 1 <= Len(g)
      BY <1>1, <2>1, <2>3
    <3>. QED BY <1>2, <1>3, <1>4, <2>2, <2>3, <3>2, <3>3
  <2>4. CASE ~(i < Len(a) + Len(b))
    <3>1. i + 1 - Len(g) = i - (Len(a) + Len(b)) + 1
          /\ ~(i < Len(a)) /\ ~(i + 1 <= Len(g))
      BY <1>1, <2>1, <2>4
    <3>. QED BY <1>2, <1>3, <1>4, <2>2, <2>4, <3>1
  <2>. QED BY <2>3, <2>4
<1>. QED BY <1>2, <1>3, <1>4, <1>5

-----------------------------------------------------------------------------
(* Cells of the disk                                                       *)

\* The chunk that a cell of the disk belongs to, and its place there.
CellChunk(p) == IF p[1] = "vdi" THEN VdiChunk
                ELSE IF p[1] = "vhd" THEN VhdChunk
                ELSE BlockChunk(p[2] \div BlockSize)
CellIndex(p) == IF p[1] = "image" THEN p[2] % BlockSize ELSE p[2]

\* What cell i of chunk c holds for a restarted xmount.
Contents(c, i) == IF Slot(c).Assigned THEN Cached(c, i) ELSE Original(c, i)

\* The quotient and the remainder determine a number.
LEMMA DivUnique ==
  ASSUME NEW q \in Nat, NEW r \in 0..BlockSize-1, NEW x \in Nat,
         x = BlockSize * q + r
  PROVE  x \div BlockSize = q /\ x % BlockSize = r
<1>. DEFINE p == x \div BlockSize
            s == x % BlockSize
<1>1. p \in Nat /\ s \in 0..BlockSize-1 /\ BlockSize * q + r = BlockSize * p + s
  BY DivMod
<1>. HIDE DEF p, s
<1>2. p <= q
  <2>1. SUFFICES ASSUME p >= q + 1 PROVE FALSE
    BY <1>1
  <2>2. BlockSize * p >= BlockSize * q + BlockSize
    BY <1>1, <2>1, SizesAssumption
  <2>. QED BY <1>1, <2>2, SizesAssumption
<1>3. q <= p
  <2>1. SUFFICES ASSUME q >= p + 1 PROVE FALSE
    BY <1>1
  <2>2. BlockSize * q >= BlockSize * p + BlockSize
    BY <1>1, <2>1, SizesAssumption
  <2>. QED BY <1>1, <2>2, SizesAssumption
<1>4. p = q
  BY <1>1, <1>2, <1>3
<1>5. s = r
  BY <1>1, <1>4, SizesAssumption
<1>. QED BY <1>4, <1>5 DEF p, s

\* Cells that follow each other in a block.
LEMMA BlockRun ==
  ASSUME NEW f \in Nat, NEW k \in Nat, (f % BlockSize) + k < BlockSize
  PROVE  /\ (f + k) \div BlockSize = f \div BlockSize
         /\ (f + k) % BlockSize = (f % BlockSize) + k
<1>. DEFINE q == f \div BlockSize
            r == f % BlockSize
<1>1. q \in Nat /\ r \in 0..BlockSize-1 /\ f = BlockSize * q + r
  BY DivMod
<1>. HIDE DEF q, r
<1>2. r + k < BlockSize
  BY DEF r
<1>3. r + k \in 0..BlockSize-1 /\ f + k = BlockSize * q + (r + k)
  BY <1>1, <1>2, SizesAssumption
<1>4. (f + k) \div BlockSize = q /\ (f + k) % BlockSize = r + k
  <2>. DEFINE x == f + k
              s == r + k
  <2>1. x \in Nat /\ s \in 0..BlockSize-1 /\ x = BlockSize * q + s
    BY <1>1, <1>3
  <2>. HIDE DEF x, s
  <2>2. x \div BlockSize = q /\ x % BlockSize = s
    BY <1>1, <2>1, DivUnique
  <2>. QED BY <2>2 DEF x, s
<1>. QED BY <1>4 DEF q, r

\* A cell of the disk is a cell of a chunk.
LEMMA CellPlace ==
  ASSUME NEW p \in DiskCells
  PROVE  /\ CellChunk(p) \in Chunks
         /\ CellIndex(p) \in 0..ChunkSize(CellChunk(p))-1
         /\ DiskPristine[p] = Original(CellChunk(p), CellIndex(p))
         /\ DiskContents[p] = Contents(CellChunk(p), CellIndex(p))
<1>1. CASE p \in {"vdi"} \X (0..VdiSize-1)
  <2>1. p[1] = "vdi" /\ p[2] \in 0..VdiSize-1
    BY <1>1
  <2>2. CellChunk(p) = VdiChunk /\ CellIndex(p) = p[2]
    BY <2>1 DEF CellChunk, CellIndex
  <2>3. DiskPristine[p] = VdiHeader[p[2]]
    BY <2>1 DEF DiskPristine
  <2>4. Original(VdiChunk, p[2]) = VdiHeader[p[2]] /\ ChunkSize(VdiChunk) = VdiSize
    BY DEF Original, ChunkSize, VdiChunk, VhdChunk
  <2>5. VdiChunk \in Chunks
    BY NeededBlocksType DEF VdiChunk, Chunks
  <2>6. DiskContents[p] = IF Slot(VdiChunk).Assigned THEN Cached(VdiChunk, p[2])
                          ELSE DiskPristine[p]
    BY <2>1 DEF DiskContents
  <2>. QED BY <2>1, <2>2, <2>3, <2>4, <2>5, <2>6 DEF Contents
<1>2. CASE p \in {"vhd"} \X (0..VhdSize-1)
  <2>1. p[1] = "vhd" /\ p[2] \in 0..VhdSize-1
    BY <1>2
  <2>2. CellChunk(p) = VhdChunk /\ CellIndex(p) = p[2]
    BY <2>1 DEF CellChunk, CellIndex
  <2>3. DiskPristine[p] = VhdFooter[p[2]]
    BY <2>1 DEF DiskPristine
  <2>4. Original(VhdChunk, p[2]) = VhdFooter[p[2]] /\ ChunkSize(VhdChunk) = VhdSize
    BY DEF Original, ChunkSize, VdiChunk, VhdChunk
  <2>5. VhdChunk \in Chunks
    BY NeededBlocksType DEF VhdChunk, Chunks
  <2>6. DiskContents[p] = IF Slot(VhdChunk).Assigned THEN Cached(VhdChunk, p[2])
                          ELSE DiskPristine[p]
    BY <2>1 DEF DiskContents
  <2>. QED BY <2>1, <2>2, <2>3, <2>4, <2>5, <2>6 DEF Contents
<1>3. CASE p \in {"image"} \X (0..ImageSize-1)
  <2>. DEFINE f == p[2]
              c == BlockChunk(f \div BlockSize)
              i == f % BlockSize
  <2>1. p[1] = "image" /\ f \in Nat /\ f < ImageSize
    BY <1>3, SizesAssumption
  <2>2. CellChunk(p) = c /\ CellIndex(p) = i
    BY <2>1 DEF CellChunk, CellIndex
  <2>3. DiskPristine[p] = Image[f]
    BY <1>3, <2>1 DEF DiskPristine
  <2>4. c \in Chunks /\ IsBlock(c) /\ i \in 0..BlockSize-1
    BY <2>1, BlockPart
  <2>5. c # VdiChunk /\ c # VhdChunk /\ ChunkSize(c) = BlockSize
    <3>. HIDE DEF c
    <3>. QED BY <2>4 DEF IsBlock, ChunkSize, VdiChunk, VhdChunk, Chunks
  <2>6. Original(c, i) = Image[f]
    <3>1. (c - 2) * BlockSize + i = f
      <4>1. f \div BlockSize \in Nat /\ f = BlockSize * (f \div BlockSize) + i
        BY <2>1, DivMod
      <4>. DEFINE q == f \div BlockSize
      <4>2. c - 2 = q /\ q \in Nat /\ i \in Nat /\ f = BlockSize * q + i
        BY <2>4, <4>1, SizesAssumption DEF BlockChunk
      <4>. HIDE DEF c, i, q, f
      <4>. QED BY <4>2, SizesAssumption
    <3>2. Original(c, i) = LET a == (c - 2) * BlockSize + i
                           IN IF a < ImageSize THEN Image[a] ELSE Zero
      <4>. HIDE DEF c, i
      <4>. QED BY <2>5 DEF Original
    <3>. HIDE DEF c, i
    <3>. QED BY <2>1, <3>1, <3>2
  <2>7. DiskContents[p] = IF Slot(c).Assigned THEN Cached(c, i) ELSE DiskPristine[p]
    BY <2>1 DEF DiskContents
  <2>. QED BY <2>2, <2>3, <2>4, <2>5, <2>6, <2>7 DEF Contents
<1>. QED BY <1>1, <1>2, <1>3 DEF DiskCells

\* Different cells of the disk have different places.
LEMMA PlaceUnique ==
  ASSUME NEW p \in DiskCells, NEW q \in DiskCells,
         CellChunk(p) = CellChunk(q), CellIndex(p) = CellIndex(q)
  PROVE  p = q
<1>1. ASSUME NEW r \in DiskCells
      PROVE  /\ r = <<r[1], r[2]>>
             /\ \/ r[1] = "vdi" /\ CellChunk(r) = 0 /\ CellIndex(r) = r[2]
                \/ r[1] = "vhd" /\ CellChunk(r) = 1 /\ CellIndex(r) = r[2]
                \/ /\ r[1] = "image" /\ r[2] \in Nat
                   /\ CellChunk(r) = 2 + (r[2] \div BlockSize)
                   /\ CellIndex(r) = r[2] % BlockSize
  BY DEF DiskCells, CellChunk, CellIndex, VdiChunk, VhdChunk, BlockChunk
<1>2. ASSUME NEW r \in DiskCells, r[1] = "image"
      PROVE  /\ r[2] \div BlockSize \in Nat
             /\ r[2] = BlockSize * (r[2] \div BlockSize) + (r[2] % BlockSize)
             /\ CellChunk(r) # 0 /\ CellChunk(r) # 1
  <2>1. r[2] \in Nat /\ CellChunk(r) = 2 + (r[2] \div BlockSize)
    BY <1>1, <1>2
  <2>2. r[2] \div BlockSize \in Nat
    BY <2>1, DivMod
  <2>. QED BY <2>1, <2>2, DivMod
<1>3. CASE p[1] = "image"
  <2>1. q[1] = "image"
    BY <1>1, <1>2, <1>3
  <2>2. p[2] \div BlockSize = q[2] \div BlockSize /\ p[2] % BlockSize = q[2] % BlockSize
    BY <1>1, <1>2, <1>3, <2>1
  <2>3. p[2] = q[2]
    BY <1>2, <1>3, <2>1, <2>2
  <2>. QED BY <1>1, <1>3, <2>1, <2>3
<1>4. CASE p[1] = "vdi"
  <2>1. CellChunk(p) = 0 /\ CellIndex(p) = p[2]
    BY <1>1, <1>4
  <2>2. q[1] # "image"
    BY <1>2, <2>1
  <2>3. q[1] = "vdi" /\ CellIndex(q) = q[2]
    <3>1. CellChunk(q) = 0
      BY <2>1
    <3>2. CellChunk(q) # 1
      BY <3>1
    <3>. QED BY <1>1, <2>2, <3>2, Zenon
  <2>4. p[1] = q[1] /\ p[2] = q[2]
    BY <1>4, <2>1, <2>3
  <2>. QED BY <1>1, <2>4
<1>5. CASE p[1] = "vhd"
  <2>1. CellChunk(p) = 1 /\ CellIndex(p) = p[2]
    BY <1>1, <1>5
  <2>2. q[1] # "image"
    BY <1>2, <2>1
  <2>3. q[1] = "vhd" /\ CellIndex(q) = q[2]
    <3>1. CellChunk(q) = 1
      BY <2>1
    <3>2. \/ q[1] = "vdi" /\ CellChunk(q) = 0 /\ CellIndex(q) = q[2]
          \/ q[1] = "vhd" /\ CellChunk(q) = 1 /\ CellIndex(q) = q[2]
      BY <1>1, <2>2
    <3>. QED BY <3>1, <3>2
  <2>. QED BY <1>1, <1>5, <2>1, <2>3
<1>. QED BY <1>1, <1>3, <1>4, <1>5

\* An offset of the virtual file is a cell of the disk, and each another one.
LEMMA DiskCellType ==
  ASSUME NEW ot \in {"dd", "vdi", "vhd"}, NEW v \in Nat, v < VirtImageSize(ot)
  PROVE  /\ DiskCell(ot, v) \in DiskCells
         /\ \/ ot = "vdi" /\ v < VdiSize /\ DiskCell(ot, v) = <<"vdi", v>>
            \/ /\ ot = "vdi" /\ v >= VdiSize /\ v - VdiSize \in 0..ImageSize-1
               /\ DiskCell(ot, v) = <<"image", v - VdiSize>>
            \/ /\ ot = "vhd" /\ v >= ImageSize
               /\ DiskCell(ot, v) = <<"vhd", v - ImageSize>>
            \/ /\ ot # "vdi" /\ v < ImageSize
               /\ DiskCell(ot, v) = <<"image", v>>
<1>1. CASE ot = "vdi" /\ v < VdiSize
  <2>1. DiskCell(ot, v) = <<"vdi", v>> /\ v \in 0..VdiSize-1
    BY <1>1, SizesAssumption DEF DiskCell
  <2>. QED BY <1>1, <2>1 DEF DiskCells
<1>2. CASE ot = "vdi" /\ v >= VdiSize
  <2>1. v - VdiSize \in 0..ImageSize-1
    BY <1>2, SizesAssumption DEF VirtImageSize
  <2>2. DiskCell(ot, v) = <<"image", v - VdiSize>>
    BY <1>2, SizesAssumption DEF DiskCell
  <2>. QED BY <1>2, <2>1, <2>2 DEF DiskCells
<1>3. CASE ot = "vhd" /\ v >= ImageSize
  <2>1. v - ImageSize \in 0..VhdSize-1
    BY <1>3, SizesAssumption DEF VirtImageSize
  <2>2. DiskCell(ot, v) = <<"vhd", v - ImageSize>>
    BY <1>3 DEF DiskCell
  <2>. QED BY <1>3, <2>1, <2>2 DEF DiskCells
<1>4. CASE ot # "vdi" /\ ~(ot = "vhd" /\ v >= ImageSize)
  <2>1. v \in 0..ImageSize-1 /\ v < ImageSize
    BY <1>4, SizesAssumption DEF VirtImageSize
  <2>2. DiskCell(ot, v) = <<"image", v>>
    BY <1>4 DEF DiskCell
  <2>. QED BY <1>4, <2>1, <2>2 DEF DiskCells
<1>. QED BY <1>1, <1>2, <1>3, <1>4, SizesAssumption

LEMMA DiskCellsDiffer ==
  ASSUME NEW ot \in {"dd", "vdi", "vhd"}, NEW v \in Nat, NEW w \in Nat,
         v < VirtImageSize(ot), w < VirtImageSize(ot),
         DiskCell(ot, v) = DiskCell(ot, w)
  PROVE  v = w
<1>. DEFINE p == DiskCell(ot, v)
            q == DiskCell(ot, w)
<1>1. \/ ot = "vdi" /\ v < VdiSize /\ p[1] = "vdi" /\ p[2] = v
      \/ ot = "vdi" /\ v >= VdiSize /\ p[1] = "image" /\ p[2] = v - VdiSize
      \/ ot = "vhd" /\ v >= ImageSize /\ p[1] = "vhd" /\ p[2] = v - ImageSize
      \/ ot # "vdi" /\ v < ImageSize /\ p[1] = "image" /\ p[2] = v
  BY DiskCellType
<1>2. \/ ot = "vdi" /\ w < VdiSize /\ q[1] = "vdi" /\ q[2] = w
      \/ ot = "vdi" /\ w >= VdiSize /\ q[1] = "image" /\ q[2] = w - VdiSize
      \/ ot = "vhd" /\ w >= ImageSize /\ q[1] = "vhd" /\ q[2] = w - ImageSize
      \/ ot # "vdi" /\ w < ImageSize /\ q[1] = "image" /\ q[2] = w
  BY DiskCellType
<1>3. p[1] = q[1] /\ p[2] = q[2]
  OBVIOUS
<1>. HIDE DEF p, q
<1>. QED BY <1>1, <1>2, <1>3, SizesAssumption

\* The cells of the disk under a piece of a request follow each other in the
\* chunk that the piece is in.
LEMMA PieceCells ==
  ASSUME NEW ot \in {"dd", "vdi", "vhd"}, NEW v \in Nat, NEW left \in Nat \ {0},
         v + left <= VirtImageSize(ot), NEW k \in 0..CountAt(ot, v, left)-1
  PROVE  /\ DiskCell(ot, v + k) \in DiskCells
         /\ CellChunk(DiskCell(ot, v + k)) = ChunkAt(ot, v)
         /\ CellIndex(DiskCell(ot, v + k)) = OffsetAt(ot, v) + k
<1>1. /\ CountAt(ot, v, left) \in 1..left
      /\ VirtImageSize(ot) \in Nat
  <2>1. CountAt(ot, v, left) \in 1..left
    BY PieceInChunk, Zenon
  <2>2. VirtImageSize(ot) \in Nat
    BY SizesAssumption DEF VirtImageSize
  <2>. QED BY <2>1, <2>2
<1>2. k \in Nat /\ v + k \in Nat /\ v + k < VirtImageSize(ot)
  BY <1>1
<1>3. DiskCell(ot, v + k) \in DiskCells
  <2>1. \A u \in Nat : u < VirtImageSize(ot) => DiskCell(ot, u) \in DiskCells
    BY DiskCellType
  <2>. QED BY <1>2, <2>1
<1>4. CASE ot = "vdi" /\ v < VdiSize
  <2>1. CountAt(ot, v, left) = Least(left, VdiSize - v)
    BY <1>4 DEF CountAt
  <2>2. v + k < VdiSize
    BY <1>2, <1>4, <2>1, SizesAssumption DEF Least
  <2>3. DiskCell(ot, v + k) = <<"vdi", v + k>>
    <3>1. ~(v + k >= VdiSize)
      BY <1>2, <2>2, SizesAssumption
    <3>. QED BY <1>2, <1>4, <3>1, DiskCellType
  <2>4. ChunkAt(ot, v) = VdiChunk /\ OffsetAt(ot, v) = v
    BY <1>4 DEF ChunkAt, OffsetAt
  <2>. QED BY <1>3, <2>3, <2>4 DEF CellChunk, CellIndex
<1>5. CASE ot = "vhd" /\ v >= ImageSize
  <2>1. v + k >= ImageSize
    BY <1>2, <1>5, SizesAssumption
  <2>2. DiskCell(ot, v + k) = <<"vhd", (v + k) - ImageSize>>
    BY <1>5, <2>1 DEF DiskCell
  <2>3. ChunkAt(ot, v) = VhdChunk /\ OffsetAt(ot, v) = v - ImageSize
    BY <1>5 DEF ChunkAt, OffsetAt
  <2>4. (v + k) - ImageSize = (v - ImageSize) + k
    BY <1>2, SizesAssumption
  <2>. QED BY <1>3, <2>2, <2>3, <2>4 DEF CellChunk, CellIndex
<1>6. CASE ~(ot = "vdi" /\ v < VdiSize) /\ ~(ot = "vhd" /\ v >= ImageSize)
  <2>. DEFINE f == ImageOffset(ot, v)
              r == f % BlockSize
  <2>1. f \in Nat /\ f < ImageSize
    BY <1>6, SizesAssumption DEF ImageOffset, VirtImageSize
  <2>2. /\ ChunkAt(ot, v) = BlockChunk(f \div BlockSize)
        /\ OffsetAt(ot, v) = r
        /\ CountAt(ot, v, left) = Least(Least(left, BlockSize - r), ImageSize - f)
    BY <1>6 DEF ChunkAt, OffsetAt, CountAt
  <2>3. r \in 0..BlockSize-1
    BY <2>1, DivMod
  <2>4. f + k < ImageSize /\ r + k < BlockSize /\ f + k \in Nat
    <3>. HIDE DEF f, r
    <3>. QED BY <1>2, <2>1, <2>2, <2>3, SizesAssumption DEF Least
  <2>5. DiskCell(ot, v + k) = <<"image", f + k>>
    <3>1. CASE ot = "vdi"
      <4>1. f = v - VdiSize /\ (v + k) - VdiSize = f + k /\ v + k >= VdiSize
        BY <1>2, <1>6, <3>1, SizesAssumption DEF ImageOffset
      <4>2. DiskCell(ot, v + k) = <<"image", (v + k) - VdiSize>>
        <5>1. ~(v + k < VdiSize)
          BY <1>2, <4>1, SizesAssumption
        <5>. QED BY <3>1, <4>1, <5>1 DEF DiskCell
      <4>. QED BY <4>1, <4>2
    <3>2. CASE ot # "vdi"
      <4>1. f = v
        BY <3>2 DEF ImageOffset
      <4>2. ~(v + k >= ImageSize)
        BY <1>2, <2>4, <4>1, SizesAssumption
      <4>3. DiskCell(ot, v + k) = <<"image", v + k>>
        BY <3>2, <4>2 DEF DiskCell
      <4>. QED BY <4>1, <4>3
    <3>. QED BY <3>1, <3>2
  <2>6. (f + k) \div BlockSize = f \div BlockSize /\ (f + k) % BlockSize = r + k
    BY <1>2, <2>1, <2>4, BlockRun
  <2>. QED BY <1>3, <2>2, <2>5, <2>6 DEF CellChunk, CellIndex
<1>. QED BY <1>3, <1>4, <1>5, <1>6

-----------------------------------------------------------------------------
(* What a write to the cache file does to the disk                         *)

\* What is known of the slots of the cache file.
LEMMA SlotKnown ==
  ASSUME Inv, NEW c \in Chunks
  PROVE  /\ Slot(c) \in Entry
         /\ ChunkSize(c) \in Nat \ {0}
         /\ c \in Nat /\ c < DataStart /\ DataStart \in Nat
         /\ file.len \in Nat /\ FileTyped(file)
         /\ Slot(c).Assigned =>
              /\ file.len >= DataStart
              /\ Slot(c) = file.cell[c]
              /\ Slot(c).off_data \in Nat
              /\ Slot(c).off_data >= DataStart
              /\ Slot(c).off_data + ChunkSize(c) <= file.len
              /\ \A d \in Chunks : (d # c /\ Slot(d).Assigned) =>
                   \/ Slot(c).off_data + ChunkSize(c) <= Slot(d).off_data
                   \/ Slot(d).off_data + ChunkSize(d) <= Slot(c).off_data
<1>1. FileTyped(file) /\ file.len \in Nat
  BY DEF Inv, TypeOK, FileTyped
<1>2. c \in Nat /\ c < DataStart /\ DataStart \in Nat
  BY NeededBlocksType DEF Chunks, DataStart
<1>3. Slot(c) \in Entry
  <2>1. CASE file.len >= DataStart
    <3>1. c \in 0..file.len-1
      BY <1>1, <1>2, <2>1
    <3>2. file.cell[c] \in Entry
      BY <1>1, <1>2, <3>1 DEF FileTyped
    <3>. QED BY <2>1, <3>2 DEF Slot
  <2>2. CASE ~(file.len >= DataStart)
    BY <2>2, EmptyIndexType DEF Slot
  <2>. QED BY <2>1, <2>2
<1>4. ASSUME Slot(c).Assigned
      PROVE  /\ file.len >= DataStart
             /\ Slot(c) = file.cell[c]
             /\ Slot(c).off_data \in Nat
             /\ Slot(c).off_data >= DataStart
             /\ Slot(c).off_data + ChunkSize(c) <= file.len
             /\ \A d \in Chunks : (d # c /\ Slot(d).Assigned) =>
                  \/ Slot(c).off_data + ChunkSize(c) <= Slot(d).off_data
                  \/ Slot(d).off_data + ChunkSize(d) <= Slot(c).off_data
  <2>1. file.len >= DataStart
    BY <1>4, EmptyIndexType DEF Slot
  <2>2. \A d \in Chunks : Slot(d) = file.cell[d]
    BY <2>1 DEF Slot
  <2>3. SoundIndex(file.cell)
    BY <2>1, SlotsSound
  <2>4. /\ Slot(c).off_data >= DataStart
        /\ Slot(c).off_data + ChunkSize(c) <= file.len
    BY <1>4, <2>2, <2>3 DEF SoundIndex
  <2>5. \A d \in Chunks : (d # c /\ Slot(d).Assigned) =>
          \/ Slot(c).off_data + ChunkSize(c) <= Slot(d).off_data
          \/ Slot(d).off_data + ChunkSize(d) <= Slot(c).off_data
    BY <1>4, <2>2, <2>3 DEF SoundIndex, Apart
  <2>. QED BY <1>3, <2>1, <2>2, <2>4, <2>5 DEF Entry
<1>. QED BY <1>1, <1>2, <1>3, <1>4, ChunkSizeType

\* A cell that a file has, after a write to it.
LEMMA OverwriteReads ==
  ASSUME NEW f, f.len \in Nat, NEW a \in Nat, NEW d, Len(d) \in Nat,
         NEW x \in Nat, x < f.len \/ (d # <<>> /\ x \in a..a+Len(d)-1)
  PROVE  /\ Overwrite(f, a, d).len \in Nat
         /\ Overwrite(f, a, d).len >= f.len
         /\ x < Overwrite(f, a, d).len
         /\ x \in a..a+Len(d)-1 => Overwrite(f, a, d).cell[x] = d[x - a + 1]
         /\ x \notin a..a+Len(d)-1 => Overwrite(f, a, d).cell[x] = f.cell[x]
<1>. SUFFICES ASSUME NEW g, g = Overwrite(f, a, d)
              PROVE  /\ g.len \in Nat /\ g.len >= f.len /\ x < g.len
                     /\ x \in a..a+Len(d)-1 => g.cell[x] = d[x - a + 1]
                     /\ x \notin a..a+Len(d)-1 => g.cell[x] = f.cell[x]
  OBVIOUS
<1>1. g.len = IF d # <<>> /\ a + Len(d) > f.len THEN a + Len(d) ELSE f.len
  BY DEF Overwrite
<1>2. g.len \in Nat /\ g.len >= f.len /\ x < g.len
  BY <1>1
<1>3. g.cell[x] = CellAfter(f, a, d, x)
  BY <1>2, OverwriteCell
<1>4. x \in a..a+Len(d)-1 => g.cell[x] = d[x - a + 1]
  BY <1>3 DEF CellAfter
<1>5. x \notin a..a+Len(d)-1 => g.cell[x] = f.cell[x]
  BY <1>3 DEF CellAfter
<1>. QED BY <1>2, <1>4, <1>5

\* What was written is in the file.
LEMMA OverwriteData ==
  ASSUME NEW f, f.len \in Nat, NEW a \in Nat, NEW d, d # <<>>, Len(d) \in Nat,
         NEW i \in Nat, i < Len(d)
  PROVE  Overwrite(f, a, d).cell[a + i] = d[i + 1]
<1>1. PICK x \in Nat : x = a + i
  OBVIOUS
<1>2. x \in a..a+Len(d)-1 /\ x - a + 1 = i + 1
  BY <1>1
<1>3. Overwrite(f, a, d).cell[x] = d[x - a + 1]
  BY <1>2, OverwriteReads
<1>. QED BY <1>1, <1>2, <1>3

\* Slots stay, and so do the cells of the chunks they name.
Harmless ==
  \A c \in Chunks :
    /\ Slot(c)' = Slot(c)
    /\ Slot(c).Assigned => \A i \in 0..ChunkSize(c)-1 : Cached(c, i)' = Cached(c, i)

\* The disk is a function of the contents of the chunks.
DiskIsContents ==
  /\ DiskContents = [p \in DiskCells |-> DiskContents[p]]
  /\ \A p \in DiskCells : DiskContents[p] = Contents(CellChunk(p), CellIndex(p))

LEMMA DiskOfChunks == DiskIsContents
<1>1. DiskContents = [p \in DiskCells |-> DiskContents[p]]
  <2>. SUFFICES ASSUME NEW D, D = DiskContents PROVE D = [p \in DiskCells |-> D[p]]
    OBVIOUS
  <2>. DEFINE F(p) == LET c == CASE p[1] = "vdi" -> VdiChunk
                                 [] p[1] = "vhd" -> VhdChunk
                                 [] p[1] = "image" -> BlockChunk(p[2] \div BlockSize)
                          i == IF p[1] = "image" THEN p[2] % BlockSize ELSE p[2]
                      IN IF Slot(c).Assigned THEN Cached(c, i) ELSE DiskPristine[p]
  <2>1. D = [p \in DiskCells |-> F(p)]
    BY DEF DiskContents
  <2>. HIDE DEF F
  <2>. QED BY <2>1
<1>2. \A p \in DiskCells : DiskContents[p] = Contents(CellChunk(p), CellIndex(p))
  BY CellPlace
<1>. QED BY <1>1, <1>2 DEF DiskIsContents

\* The disk stays as it is when all cells of all chunks do.
LEMMA SameDisk ==
  ASSUME \A c \in Chunks : \A i \in 0..ChunkSize(c)-1 : Contents(c, i)' = Contents(c, i)
  PROVE  DiskContents' = DiskContents
<1>1. DiskIsContents /\ DiskIsContents'
  BY DiskOfChunks, PTL
<1>2. ASSUME NEW p \in DiskCells PROVE DiskContents'[p] = DiskContents[p]
  BY <1>1, CellPlace DEF DiskIsContents
<1>. QED BY <1>1, <1>2 DEF DiskIsContents

LEMMA HarmlessDisk ==
  ASSUME Harmless
  PROVE  /\ DiskContents' = DiskContents
         /\ \A c \in Chunks : Slot(c)' = Slot(c)
<1>1. ASSUME NEW c \in Chunks, NEW i \in 0..ChunkSize(c)-1
      PROVE  Contents(c, i)' = Contents(c, i)
  BY DEF Harmless, Contents
<1>. QED BY <1>1, SameDisk DEF Harmless

\* What is written behind the end of the file, or nothing, is harmless.
LEMMA TailWrite ==
  ASSUME Inv, file.len >= DataStart, NEW a \in Nat, NEW d, Len(d) \in Nat,
         a >= file.len \/ Len(d) = 0, file' = Overwrite(file, a, d)
  PROVE  Harmless
<1>. SUFFICES ASSUME NEW c \in Chunks
              PROVE  /\ Slot(c)' = Slot(c)
                     /\ Slot(c).Assigned =>
                          \A i \in 0..ChunkSize(c)-1 : Cached(c, i)' = Cached(c, i)
  BY DEF Harmless
<1>1. /\ c \in Nat /\ c < DataStart /\ DataStart \in Nat /\ file.len \in Nat
      /\ ChunkSize(c) \in Nat
  BY SlotKnown
<1>2. \A x \in Nat : x < file.len =>
        /\ file'.cell[x] = file.cell[x]
        /\ file'.len >= file.len /\ file'.len \in Nat
  <2>. SUFFICES ASSUME NEW x \in Nat, x < file.len
                PROVE  /\ file'.cell[x] = file.cell[x]
                       /\ file'.len >= file.len /\ file'.len \in Nat
    OBVIOUS
  <2>1. x \notin a..a+Len(d)-1
    BY <1>1
  <2>. QED BY <1>1, <2>1, OverwriteReads
<1>3. Slot(c)' = Slot(c)
  <2>1. c < file.len /\ file'.cell[c] = file.cell[c] /\ file'.len >= DataStart
    BY <1>1, <1>2
  <2>. QED BY <2>1 DEF Slot
<1>4. ASSUME Slot(c).Assigned, NEW i \in 0..ChunkSize(c)-1
      PROVE  Cached(c, i)' = Cached(c, i)
  <2>1. Slot(c).off_data \in Nat /\ Slot(c).off_data + ChunkSize(c) <= file.len
    BY <1>4, SlotKnown
  <2>2. Slot(c).off_data + i \in Nat /\ Slot(c).off_data + i < file.len
    BY <1>1, <2>1
  <2>. QED BY <1>2, <1>3, <2>2 DEF Cached
<1>. QED BY <1>3, <1>4

\* The buffer holds nothing that changes the disk.
Quiet == buf = <<>> \/ NewHeader \/ at >= file.len

LEMMA QuietWrite ==
  ASSUME Inv, otype # "none", Quiet, NEW n \in 0..Len(buf), file' = Written(n)
  PROVE  Harmless
<1>. DEFINE s == SubSeq(buf, 1, n)
<1>1. /\ Stored
      /\ at \in Nat /\ Len(buf) \in Nat /\ n \in Nat /\ file.len \in Nat
      /\ DataStart \in Nat /\ DataStart >= 2
  BY RunningInv, NeededBlocksType DEF Stored, FileTyped
<1>2. Len(s) = n /\ \A i \in 1..n : s[i] = buf[i]
  <2>1. \A i \in 1..n : buf[i] \in Entry \cup Values
    BY <1>1 DEF Stored
  <2>. QED BY <1>1, <2>1, SubSeqProperties
<1>. HIDE DEF s
<1>3. file' = Overwrite(file, at, s)
  BY DEF Written, s
<1>4. CASE NewHeader
  <2>. SUFFICES ASSUME NEW c \in Chunks
                PROVE  /\ Slot(c)' = Slot(c)
                       /\ ~Slot(c).Assigned
    BY DEF Harmless
  <2>1. file.len = 0 /\ at = 0 /\ Len(buf) = DataStart
        /\ \A i \in 1..DataStart : buf[i] = EmptyIndex[i - 1]
    BY <1>4 DEF NewHeader
  <2>2. Slot(c) = EmptyIndex[c]
    BY <1>1, <2>1 DEF Slot
  <2>3. c \in Nat /\ c < DataStart
    BY SlotKnown
  <2>4. CASE n = DataStart
    <3>1. s # <<>>
      BY <1>1, <1>2, <2>4
    <3>2. file'.len >= DataStart
      BY <1>1, <1>2, <1>3, <2>1, <2>4, <3>1 DEF Overwrite
    <3>3. c \in at..at+Len(s)-1
      BY <1>1, <1>2, <2>1, <2>3, <2>4
    <3>4. file'.cell[c] = s[c - at + 1]
      <4>1. Len(s) \in Nat /\ c \in Nat
        BY <1>1, <1>2, <2>3
      <4>2. c \in at..at+Len(s)-1 => Overwrite(file, at, s).cell[c] = s[c - at + 1]
        BY <1>1, <3>1, <3>3, <4>1, OverwriteReads
      <4>. QED BY <1>3, <3>3, <4>2
    <3>5. s[c - at + 1] = buf[c + 1] /\ buf[c + 1] = EmptyIndex[c]
      BY <1>2, <2>1, <2>3, <2>4
    <3>. QED BY <2>2, <3>2, <3>4, <3>5, EmptyIndexType DEF Slot
  <2>5. CASE n # DataStart
    <3>1. file'.len = IF s # <<>> /\ at + Len(s) > file.len THEN at + Len(s) ELSE file.len
      BY <1>3 DEF Overwrite
    <3>2. ~(file'.len >= DataStart)
      BY <1>1, <1>2, <2>1, <2>5, <3>1
    <3>. QED BY <2>2, <3>2, EmptyIndexType DEF Slot
  <2>. QED BY <2>4, <2>5
<1>5. CASE ~NewHeader
  <2>1. file.len >= DataStart
    BY <1>1, <1>5 DEF Stored, StreamInv
  <2>2. at >= file.len \/ Len(s) = 0
    BY <1>1, <1>2, <1>5 DEF Quiet
  <2>. QED BY <1>1, <1>2, <1>3, <2>1, <2>2, TailWrite
<1>. QED BY <1>4, <1>5

\* What is written into a cached chunk changes these cells of it and no others.
LEMMA ChunkWrite ==
  ASSUME Inv, NEW c \in Chunks, Slot(c).Assigned, NEW o \in Nat,
         NEW d, Len(d) \in Nat, o + Len(d) <= ChunkSize(c),
         file' = Overwrite(file, Slot(c).off_data + o, d)
  PROVE  /\ \A b \in Chunks : Slot(b)' = Slot(b)
         /\ \A b \in Chunks : \A i \in 0..ChunkSize(b)-1 :
              Contents(b, i)' = IF b = c /\ i \in o..o+Len(d)-1 THEN d[i - o + 1]
                                ELSE Contents(b, i)
<1>. DEFINE a == Slot(c).off_data
<1>1. /\ file.len \in Nat /\ file.len >= DataStart /\ DataStart \in Nat
      /\ a \in Nat /\ a >= DataStart /\ a + ChunkSize(c) <= file.len
      /\ ChunkSize(c) \in Nat
      /\ a + o \in Nat
  BY SlotKnown
<1>. DEFINE w == a + o
<1>2. w \in Nat /\ w = a + o /\ file' = Overwrite(file, w, d)
  BY <1>1
<1>. HIDE DEF w
<1>3. ASSUME NEW x \in Nat, x < file.len
      PROVE  /\ file'.len >= file.len /\ file'.len \in Nat
             /\ x \in w..w+Len(d)-1 => file'.cell[x] = d[x - w + 1]
             /\ x \notin w..w+Len(d)-1 => file'.cell[x] = file.cell[x]
  <2>. DEFINE g == Overwrite(file, w, d)
  <2>1. /\ g.len \in Nat /\ g.len >= file.len
        /\ x \in w..w+Len(d)-1 => g.cell[x] = d[x - w + 1]
        /\ x \notin w..w+Len(d)-1 => g.cell[x] = file.cell[x]
    <3>1. file.len \in Nat /\ w \in Nat /\ Len(d) \in Nat /\ x < file.len
      BY <1>1, <1>2, <1>3
    <3>. QED BY <3>1, OverwriteReads
  <2>. HIDE DEF g
  <2>. QED BY <1>2, <2>1 DEF g
<1>4. ASSUME NEW b \in Chunks PROVE Slot(b)' = Slot(b)
  <2>1. b \in Nat /\ b < DataStart
    BY SlotKnown
  <2>2. b \notin w..w+Len(d)-1 /\ b < file.len
    <3>. HIDE DEF a
    <3>. QED BY <1>1, <1>2, <2>1
  <2>3. file'.cell[b] = file.cell[b] /\ file'.len >= DataStart
    BY <1>1, <1>3, <2>1, <2>2
  <2>. QED BY <1>1, <2>3 DEF Slot
<1>5. ASSUME NEW b \in Chunks, NEW i \in 0..ChunkSize(b)-1
      PROVE  Contents(b, i)' = IF b = c /\ i \in o..o+Len(d)-1 THEN d[i - o + 1]
                               ELSE Contents(b, i)
  <2>1. CASE ~Slot(b).Assigned
    BY <1>4, <2>1 DEF Contents
  <2>2. CASE Slot(b).Assigned
    <3>. DEFINE x == Slot(b).off_data + i
    <3>1. /\ Slot(b).off_data \in Nat /\ Slot(b).off_data >= DataStart
          /\ Slot(b).off_data + ChunkSize(b) <= file.len
          /\ ChunkSize(b) \in Nat
          /\ b # c => \/ Slot(c).off_data + ChunkSize(c) <= Slot(b).off_data
                      \/ Slot(b).off_data + ChunkSize(b) <= Slot(c).off_data
      BY <2>2, SlotKnown
    <3>2. x \in Nat /\ x < file.len
      <4>1. file.len \in Nat
        BY <1>1
      <4>. QED BY <3>1, <4>1
    <3>3. Contents(b, i) = file.cell[x] /\ Contents(b, i)' = file'.cell[x]
      BY <1>4, <2>2 DEF Contents, Cached
    <3>4. CASE b = c /\ i \in o..o+Len(d)-1
      <4>1. x \in w..w+Len(d)-1 /\ x - w + 1 = i - o + 1
        <5>1. x = a + i
          BY <3>4
        <5>. HIDE DEF x, a
        <5>. QED BY <1>1, <1>2, <3>2, <3>4, <5>1
      <4>. HIDE DEF x, a
      <4>. QED BY <1>3, <3>2, <3>3, <3>4, <4>1
    <3>5. CASE ~(b = c /\ i \in o..o+Len(d)-1)
      <4>1. x \notin w..w+Len(d)-1
        <5>1. CASE b = c
          <6>1. x = a + i /\ i \in Nat /\ i \notin o..o+Len(d)-1
            BY <1>1, <3>1, <3>5, <5>1
          <6>. HIDE DEF x, a
          <6>. QED BY <1>1, <1>2, <3>2, <6>1
        <5>2. CASE b # c
          <6>1. w >= a /\ w + Len(d) <= a + ChunkSize(c)
            BY <1>1, <1>2
          <6>2. x + 1 <= a \/ a + ChunkSize(c) <= x
            <7>1. \/ a + ChunkSize(c) <= Slot(b).off_data
                  \/ Slot(b).off_data + ChunkSize(b) <= a
              BY <3>1, <5>2
            <7>. HIDE DEF a
            <7>2. PICK y \in Nat, z \in Nat, e \in Int :
                    y = Slot(b).off_data /\ z = ChunkSize(b) /\ e = a + ChunkSize(c)
              BY <1>1, <3>1
            <7>3. e <= y \/ y + z <= a
              BY <7>1, <7>2
            <7>4. x = y + i /\ i \in 0..z-1 /\ a \in Nat
              BY <1>1, <7>2
            <7>5. x + 1 <= a \/ e <= x
              <8>. HIDE DEF x
              <8>. QED BY <7>3, <7>4
            <7>. QED BY <7>2, <7>5
          <6>. HIDE DEF x, a
          <6>. QED BY <1>1, <1>2, <3>2, <6>1, <6>2
        <5>. QED BY <5>1, <5>2
      <4>. HIDE DEF x, a
      <4>. QED BY <1>3, <3>2, <3>3, <3>5, <4>1
    <3>. QED BY <3>4, <3>5
  <2>. QED BY <2>1, <2>2
<1>. QED BY <1>4, <1>5

\* What is written over a slot puts the chunk it names in the place of the
\* original contents.
LEMMA SlotWrite ==
  ASSUME Inv, NEW c \in Chunks, ~Slot(c).Assigned, file.len >= DataStart,
         NEW e \in Entry, e.Assigned,
         e.off_data >= DataStart, e.off_data + ChunkSize(c) <= file.len,
         file' = Overwrite(file, c, <<e>>)
  PROVE  /\ \A b \in Chunks : Slot(b)' = IF b = c THEN e ELSE Slot(b)
         /\ \A b \in Chunks : \A i \in 0..ChunkSize(b)-1 :
              Contents(b, i)' = IF b = c THEN file.cell[e.off_data + i]
                                ELSE Contents(b, i)
<1>1. /\ file.len \in Nat /\ DataStart \in Nat
      /\ c \in Nat /\ c < DataStart
      /\ ChunkSize(c) \in Nat
      /\ e.off_data \in Nat
  BY SlotKnown DEF Entry
<1>. DEFINE d == <<e>>
<1>2. Len(d) = 1 /\ d[1] = e
  OBVIOUS
<1>. HIDE DEF d
<1>3. ASSUME NEW x \in Nat, x < file.len
      PROVE  /\ file'.len >= file.len /\ file'.len \in Nat
             /\ x = c => file'.cell[x] = e
             /\ x # c => file'.cell[x] = file.cell[x]
  <2>1. /\ file'.len >= file.len /\ file'.len \in Nat
        /\ x \in c..c+Len(d)-1 => file'.cell[x] = d[x - c + 1]
        /\ x \notin c..c+Len(d)-1 => file'.cell[x] = file.cell[x]
    <3>. DEFINE g == Overwrite(file, c, d)
    <3>1. /\ g.len \in Nat /\ g.len >= file.len
          /\ x \in c..c+Len(d)-1 => g.cell[x] = d[x - c + 1]
          /\ x \notin c..c+Len(d)-1 => g.cell[x] = file.cell[x]
      <4>1. file.len \in Nat /\ c \in Nat /\ Len(d) \in Nat /\ x < file.len
        BY <1>1, <1>2, <1>3
      <4>. QED BY <4>1, OverwriteReads
    <3>2. file' = g
      BY DEF d
    <3>. HIDE DEF g
    <3>. QED BY <3>1, <3>2
  <2>2. CASE x = c
    <3>1. x \in c..c+Len(d)-1 /\ x - c + 1 = 1
      BY <1>1, <1>2, <2>2
    <3>. QED BY <1>2, <2>1, <2>2, <3>1
  <2>3. CASE x # c
    BY <1>1, <1>2, <2>1, <2>3
  <2>. QED BY <2>1, <2>2, <2>3
<1>4. ASSUME NEW b \in Chunks PROVE Slot(b)' = IF b = c THEN e ELSE Slot(b)
  <2>1. b \in Nat /\ b < DataStart /\ b < file.len
    BY <1>1, SlotKnown
  <2>2. file'.len >= DataStart
    BY <1>1, <1>3, <2>1
  <2>. QED BY <1>3, <2>1, <2>2 DEF Slot
<1>5. ASSUME NEW b \in Chunks, NEW i \in 0..ChunkSize(b)-1
      PROVE  Contents(b, i)' = IF b = c THEN file.cell[e.off_data + i]
                               ELSE Contents(b, i)
  <2>1. CASE b = c
    <3>1. Contents(b, i)' = file'.cell[e.off_data + i]
      BY <1>4, <2>1 DEF Contents, Cached
    <3>2. e.off_data + i \in Nat /\ e.off_data + i < file.len /\ e.off_data + i # c
      BY <1>1, <2>1
    <3>. QED BY <1>3, <2>1, <3>1, <3>2
  <2>2. CASE b # c /\ Slot(b).Assigned
    <3>1. /\ Slot(b).off_data \in Nat /\ Slot(b).off_data >= DataStart
          /\ Slot(b).off_data + ChunkSize(b) <= file.len
          /\ ChunkSize(b) \in Nat
      BY <2>2, SlotKnown
    <3>2. Slot(b).off_data + i \in Nat /\ Slot(b).off_data + i < file.len
          /\ Slot(b).off_data + i # c
      BY <1>1, <3>1
    <3>. QED BY <1>3, <1>4, <2>2, <3>2 DEF Contents, Cached
  <2>3. CASE b # c /\ ~Slot(b).Assigned
    BY <1>4, <2>3 DEF Contents
  <2>. QED BY <2>1, <2>2, <2>3
<1>. QED BY <1>4, <1>5

-----------------------------------------------------------------------------
(* The invariant                                                           *)

\* What cell i of the chunk of t's piece will hold.
Merged(t, i) ==
  IF i \in ChunkOff(t)..ChunkOff(t)+Count(t)-1
  THEN NewData(t)[i - ChunkOff(t) + 1] ELSE Original(Chunk(t), i)

\* The buffer holds the piece of t and will write it into its cached chunk ...
InPlace(t) ==
  /\ mem[Chunk(t)].Assigned
  /\ Slot(Chunk(t)) = mem[Chunk(t)]
  /\ at = mem[Chunk(t)].off_data + ChunkOff(t)
  /\ buf = NewData(t)

\* ... or the slot of the chunk that was appended with the piece in it.
NewSlot(t) ==
  /\ mem[Chunk(t)].Assigned
  /\ ~Slot(Chunk(t)).Assigned
  /\ at = Chunk(t)
  /\ buf = <<mem[Chunk(t)]>>
  /\ \A i \in 0..ChunkSize(Chunk(t))-1 :
       file.cell[mem[Chunk(t)].off_data + i] = Merged(t, i)

\* What t has transferred so far is what the disk holds.
Transferred(t) ==
  /\ th[t].op = "read" => Len(th[t].data) = th[t].done
  /\ \A i \in 1..th[t].done :
       DiskContents[DiskCell(otype, th[t].off + i - 1)] = th[t].data[i]

TransferInv(t) ==
  /\ th[t].pc \in Working => Transferred(t)
  /\ th[t].pc \in {"fread", "fwrite"} =>
       /\ mem[Chunk(t)].Assigned
       /\ at = mem[Chunk(t)].off_data + ChunkOff(t)
  /\ th[t].pc = "assign" =>
       \A i \in 0..ChunkSize(Chunk(t))-1 : buf[i + 1] = Merged(t, i)
  /\ th[t].pc = "sync" => InPlace(t) \/ NewSlot(t)
  /\ th[t].pc = "answer" => ~th[t].ok

\* The program knows no chunk that the file does not name, apart from the one
\* whose slot waits in the buffer.
KnownInv ==
  \A c \in Chunks : mem[c].Assigned =>
    \/ Slot(c) = mem[c]
    \/ \E t \in Threads : th[t].pc = "sync" /\ NewSlot(t) /\ c = Chunk(t)

\* Only a thread that is about to write out what it put into the buffer has
\* something there that matters.
QuietInv == (\A t \in Threads : th[t].pc \notin {"assign", "sync"}) => Quiet

DiskInv == KnownInv /\ QuietInv /\ \A t \in Threads : TransferInv(t)

-----------------------------------------------------------------------------
(* Requests as calls of the disk                                           *)

RequestSize(t) == Clipped(th[t].off, th[t].want)
RequestCells(t) ==
  [i \in 1..RequestSize(t) |-> DiskCell(otype, th[t].off + i - 1)]

PendingRead(t) == [state |-> "pending", op |-> "read", cells |-> RequestCells(t)]
PendingWrite(t) == [state |-> "pending", op |-> "write", cells |-> RequestCells(t),
                    data |-> SubSeq(th[t].data, 1, RequestSize(t))]

CallShape ==
  \A t \in Threads :
    /\ th[t].pc = "idle" => DiskCall(t) = [state |-> "none"]
    /\ (th[t].pc = "answered" /\ (th[t].op = "write" \/ ~th[t].ok)) =>
         DiskCall(t) = [state |-> "done", ok |-> th[t].ok]
    /\ (th[t].pc = "answered" /\ th[t].op = "read" /\ th[t].ok) =>
         DiskCall(t) = [state |-> "done", ok |-> TRUE, data |-> th[t].data]
    /\ (th[t].pc \notin {"idle", "answered"} /\ th[t].op = "read") =>
         DiskCall(t) = PendingRead(t)
    /\ (th[t].pc \notin {"idle", "answered"} /\ th[t].op = "write") =>
         DiskCall(t) = PendingWrite(t)

LEMMA CallShapes == CallShape
<1>. SUFFICES ASSUME NEW t \in Threads
     PROVE
       /\ th[t].pc = "idle" => DiskCall(t) = [state |-> "none"]
       /\ (th[t].pc = "answered" /\ (th[t].op = "write" \/ ~th[t].ok)) =>
            DiskCall(t) = [state |-> "done", ok |-> th[t].ok]
       /\ (th[t].pc = "answered" /\ th[t].op = "read" /\ th[t].ok) =>
            DiskCall(t) = [state |-> "done", ok |-> TRUE, data |-> th[t].data]
       /\ (th[t].pc \notin {"idle", "answered"} /\ th[t].op = "read") =>
            DiskCall(t) = PendingRead(t)
       /\ (th[t].pc \notin {"idle", "answered"} /\ th[t].op = "write") =>
            DiskCall(t) = PendingWrite(t)
  BY DEF CallShape
<1>1. ASSUME th[t].pc = "idle" PROVE DiskCall(t) = [state |-> "none"]
  BY <1>1 DEF DiskCall
<1>2. ASSUME th[t].pc = "answered", th[t].op = "write" \/ ~th[t].ok
      PROVE  DiskCall(t) = [state |-> "done", ok |-> th[t].ok]
  BY <1>2 DEF DiskCall
<1>3. ASSUME th[t].pc = "answered", th[t].op = "read", th[t].ok
      PROVE  DiskCall(t) = [state |-> "done", ok |-> TRUE, data |-> th[t].data]
  BY <1>3 DEF DiskCall
<1>4. ASSUME th[t].pc \notin {"idle", "answered"}, th[t].op = "read"
      PROVE  DiskCall(t) = PendingRead(t)
  BY <1>4 DEF DiskCall, PendingRead, RequestCells, RequestSize
<1>5. ASSUME th[t].pc \notin {"idle", "answered"}, th[t].op = "write"
      PROVE  DiskCall(t) = PendingWrite(t)
  BY <1>5 DEF DiskCall, PendingWrite, RequestCells, RequestSize
<1>. QED BY <1>1, <1>2, <1>3, <1>4, <1>5

\* The calls of all threads.
Calls == [t \in Threads |-> DiskCall(t)]

\* A request that goes on stays the call it is.
LEMMA CallKept ==
  ASSUME NEW t \in Threads, otype' = otype,
         th[t].op \in {"read", "write"},
         th[t].pc \notin {"idle", "answered"},
         th'[t].pc \notin {"idle", "answered"},
         th'[t].op = th[t].op, th'[t].off = th[t].off, th'[t].want = th[t].want,
         th[t].op = "write" => th'[t].data = th[t].data
  PROVE  DiskCall(t)' = DiskCall(t)
<1>1. CallShape /\ CallShape'
  BY CallShapes, PTL
<1>2. RequestSize(t)' = RequestSize(t)
  BY DEF RequestSize, Clipped, VirtImageSize
<1>3. RequestCells(t)' = RequestCells(t)
  BY <1>2 DEF RequestCells
<1>4. CASE th[t].op = "read"
  <2>1. DiskCall(t) = PendingRead(t) /\ DiskCall(t)' = PendingRead(t)'
    BY <1>1, <1>4 DEF CallShape
  <2>. QED BY <1>3, <2>1 DEF PendingRead
<1>5. CASE th[t].op = "write"
  <2>1. DiskCall(t) = PendingWrite(t) /\ DiskCall(t)' = PendingWrite(t)'
    BY <1>1, <1>5 DEF CallShape
  <2>. QED BY <1>2, <1>3, <1>5, <2>1 DEF PendingWrite
<1>. QED BY <1>4, <1>5

\* A thread that does not move keeps its call.
LEMMA CallStays ==
  ASSUME NEW t \in Threads, otype' = otype, th'[t] = th[t], th[t] \in ThreadState
  PROVE  DiskCall(t)' = DiskCall(t)
<1>1. CallShape /\ CallShape'
  BY CallShapes, PTL
<1>2. th[t].op \in {"read", "write"} /\ th[t].ok \in BOOLEAN
  BY DEF ThreadState
<1>3. CASE th[t].pc \notin {"idle", "answered"}
  BY <1>2, <1>3, CallKept
<1>4. CASE th[t].pc = "idle"
  BY <1>1, <1>4 DEF CallShape
<1>5. CASE th[t].pc = "answered"
  <2>1. CASE th[t].op = "write" \/ ~th[t].ok
    BY <1>1, <1>5, <2>1 DEF CallShape
  <2>2. CASE th[t].op = "read" /\ th[t].ok
    BY <1>1, <1>5, <2>2 DEF CallShape
  <2>. QED BY <1>2, <2>1, <2>2
<1>. QED BY <1>3, <1>4, <1>5

DiskStep == [Disk!Next]_Disk!vars

LEMMA DiskStutters ==
  ASSUME DiskContents' = DiskContents,
         \A t \in Threads : DiskCall(t)' = DiskCall(t),
         mutex' = mutex
  PROVE  DiskStep
<1>1. Calls' = Calls
  BY DEF Calls
<1>2. UNCHANGED Disk!vars
  BY <1>1 DEF Disk!vars, Calls
<1>. QED BY <1>2 DEF DiskStep

-----------------------------------------------------------------------------
(* Steps that the disk does not notice                                     *)

\* While no thread waits to write a slot, program and file know the same.
LEMMA KnownNow ==
  ASSUME KnownInv, \A t \in Threads : th[t].pc # "sync", NEW c \in Chunks,
         mem[c].Assigned
  PROVE  Slot(c) = mem[c]
BY DEF KnownInv

\* What the file says the program knows.
LEMMA SlotIsKnown ==
  ASSUME Inv, otype # "none", NEW c \in Chunks, Slot(c).Assigned
  PROVE  mem[c] = Slot(c)
<1>1. file.len >= DataStart /\ Slot(c) = file.cell[c]
  BY SlotKnown
<1>. QED BY <1>1, RunningInv DEF Stored

\* The thread that has the mutex is the only one in the critical section.
LEMMA OthersOutside ==
  ASSUME Inv, NEW t \in Threads, th[t].pc \notin Outside, NEW s \in Threads \ {t}
  PROVE  th[s].pc \in Outside
<1>1. mutex = t
  BY Inside
<1>2. RequestInv(s)
  BY DEF Inv, IndexInv
<1>. QED BY <1>1, <1>2 DEF RequestInv, Outside

LEMMA OutsideTransfer ==
  ASSUME NEW s \in Threads, th'[s].pc \in Outside
  PROVE  TransferInv(s)' /\ th'[s].pc \notin {"assign", "sync"}
BY DEF TransferInv, Outside, Working

\* A thread in the critical section goes on with its request: all calls stay,
\* and the other threads have nothing in transfer.
LEMMA GoOn ==
  ASSUME Inv, NEW t \in Threads, th[t].pc \notin Outside,
         NEW r \in ThreadState, th' = [th EXCEPT ![t] = r], r.pc \notin Outside,
         r.op = th[t].op, r.off = th[t].off, r.want = th[t].want,
         r.op = "write" => r.data = th[t].data,
         otype' = otype
  PROVE  /\ \A s \in Threads : DiskCall(s)' = DiskCall(s)
         /\ \A s \in Threads \ {t} :
              TransferInv(s)' /\ th'[s].pc \notin {"assign", "sync"}
         /\ th'[t] = r
<1>1. /\ th \in [Threads -> ThreadState] /\ th[t] \in ThreadState
  BY Inside
<1>2. th'[t] = r /\ \A s \in Threads \ {t} : th'[s] = th[s]
  BY <1>1
<1>3. DiskCall(t)' = DiskCall(t)
  BY <1>1, <1>2, CallKept DEF Outside, ThreadState
<1>4. ASSUME NEW s \in Threads \ {t}
      PROVE  /\ DiskCall(s)' = DiskCall(s)
             /\ TransferInv(s)' /\ th'[s].pc \notin {"assign", "sync"}
  <2>1. th[s].pc \in Outside
    BY OthersOutside
  <2>2. th'[s] = th[s] /\ th[s] \in ThreadState
    BY <1>1, <1>2
  <2>. QED BY <2>1, <2>2, CallStays, OutsideTransfer
<1>. QED BY <1>2, <1>3, <1>4

\* A step of the thread in the critical section that changes neither slots nor
\* cached cells, and brings no new chunk into the index.
LEMMA HarmlessStep ==
  ASSUME Inv, DiskInv, NEW t \in Threads, th[t].pc \notin Outside,
         th[t].pc # "sync",
         NEW r \in ThreadState, th' = [th EXCEPT ![t] = r], r.pc \notin Outside,
         r.op = th[t].op, r.off = th[t].off, r.want = th[t].want,
         r.op = "write" => r.data = th[t].data,
         UNCHANGED <<otype, mutex>>,
         Harmless,
         \A c \in Chunks : mem'[c].Assigned => mem'[c] = mem[c],
         Quiet' \/ r.pc \in {"assign", "sync"},
         TransferInv(t)'
  PROVE  DiskInv' /\ DiskStep
<1>1. /\ \A s \in Threads : DiskCall(s)' = DiskCall(s)
      /\ \A s \in Threads \ {t} : TransferInv(s)'
      /\ th'[t] = r
  BY GoOn
<1>2. DiskContents' = DiskContents /\ \A c \in Chunks : Slot(c)' = Slot(c)
  BY HarmlessDisk
<1>3. \A s \in Threads : th[s].pc # "sync"
  BY OthersOutside DEF Outside
<1>4. KnownInv'
  <2>. SUFFICES ASSUME NEW c \in Chunks, mem'[c].Assigned
                PROVE  Slot(c)' = mem'[c]
    BY DEF KnownInv
  <2>. QED BY <1>2, <1>3, KnownNow DEF DiskInv
<1>5. QuietInv'
  BY <1>1 DEF QuietInv
<1>6. DiskStep
  BY <1>1, <1>2, DiskStutters
<1>. QED BY <1>1, <1>4, <1>5, <1>6 DEF DiskInv

\* A file that stays is harmless.
LEMMA SameFile ==
  ASSUME UNCHANGED file
  PROVE  Harmless
BY DEF Harmless, Slot, Cached

\* What is known of the thread that has the mutex, and of the stream, before
\* the thread has put something that matters into the buffer.
LEMMA QuietNow ==
  ASSUME Inv, DiskInv, NEW t \in Threads, th[t].pc \notin Outside,
         th[t].pc \notin {"assign", "sync"}
  PROVE  /\ Quiet
         /\ \A s \in Threads : th[s].pc # "sync"
<1>1. \A s \in Threads : th[s].pc \notin {"assign", "sync"}
  BY OthersOutside DEF Outside
<1>. QED BY <1>1 DEF DiskInv, QuietInv

\* The error return.
LEMMA FailDisk ==
  ASSUME Inv, DiskInv, NEW t \in Threads, th[t].pc \notin Outside,
         th[t].pc # "sync", Fail(t),
         UNCHANGED <<otype, mutex>>,
         Harmless, Quiet',
         \A c \in Chunks : mem'[c].Assigned => mem'[c] = mem[c]
  PROVE  DiskInv' /\ DiskStep
<1>. DEFINE r == [th[t] EXCEPT !.pc = "answer", !.ok = FALSE]
<1>1. th[t] \in ThreadState /\ th \in [Threads -> ThreadState]
  BY Inside
<1>2. th' = [th EXCEPT ![t] = r]
  BY <1>1 DEF Fail
<1>3. /\ r \in ThreadState /\ r.pc = "answer" /\ ~r.ok
      /\ r.op = th[t].op /\ r.off = th[t].off /\ r.want = th[t].want
      /\ r.data = th[t].data
  BY <1>1 DEF ThreadState
<1>. HIDE DEF r
<1>4. th'[t] = r
  BY <1>1, <1>2
<1>5. TransferInv(t)'
  BY <1>3, <1>4 DEF TransferInv, Working
<1>6. r.pc \notin Outside
  BY <1>3 DEF Outside
<1>. QED BY <1>2, <1>3, <1>5, <1>6, HarmlessStep

\* A thread goes on with its piece.
LEMMA GotoDisk ==
  ASSUME Inv, DiskInv, NEW t \in Threads, th[t].pc \in Working, th[t].pc # "sync",
         NEW pc \in Working, Goto(t, pc),
         UNCHANGED <<otype, mutex>>,
         Harmless,
         \A c \in Chunks : mem'[c].Assigned => mem'[c] = mem[c],
         Quiet' \/ pc \in {"assign", "sync"},
         pc \in {"fread", "fwrite"} =>
           /\ mem'[Chunk(t)].Assigned
           /\ at' = mem'[Chunk(t)].off_data + ChunkOff(t),
         pc = "assign" =>
           \A i \in 0..ChunkSize(Chunk(t))-1 : buf'[i + 1] = Merged(t, i),
         pc = "sync" => InPlace(t)' \/ NewSlot(t)'
  PROVE  DiskInv' /\ DiskStep
<1>. DEFINE r == [th[t] EXCEPT !.pc = pc]
<1>1. /\ th[t] \in ThreadState /\ th \in [Threads -> ThreadState]
      /\ th[t].pc \notin Outside /\ pc \notin Outside /\ pc # "answer"
  BY Inside DEF Working, Outside
<1>2. th' = [th EXCEPT ![t] = r]
  BY <1>1 DEF Goto
<1>3. /\ r \in ThreadState /\ r.pc = pc
      /\ r.op = th[t].op /\ r.off = th[t].off /\ r.want = th[t].want
      /\ r.data = th[t].data /\ r.done = th[t].done
  BY <1>1 DEF ThreadState, Working
<1>. HIDE DEF r
<1>4. th'[t] = r
  BY <1>1, <1>2
<1>5. DiskContents' = DiskContents
  BY HarmlessDisk
<1>6. /\ Chunk(t)' = Chunk(t) /\ ChunkOff(t)' = ChunkOff(t)
      /\ Count(t)' = Count(t) /\ NewData(t)' = NewData(t)
  <2>1. Left(t)' = Left(t)
    BY <1>3, <1>4 DEF Left
  <2>2. Count(t)' = Count(t)
    BY <1>3, <1>4, <2>1 DEF Count
  <2>. QED BY <1>3, <1>4, <2>2 DEF Chunk, ChunkOff, NewData
<1>7. \A i : Merged(t, i)' = Merged(t, i)
  BY <1>6 DEF Merged
<1>8. Transferred(t)'
  <2>1. Transferred(t)
    BY DEF DiskInv, TransferInv
  <2>. QED BY <1>3, <1>4, <1>5, <2>1 DEF Transferred
<1>9. TransferInv(t)'
  BY <1>1, <1>3, <1>4, <1>6, <1>7, <1>8 DEF TransferInv
<1>. QED BY <1>1, <1>2, <1>3, <1>9, HarmlessStep

-----------------------------------------------------------------------------
(* The cells of a request                                                  *)

\* The cells of a request that is being served: different cells of the disk.
LEMMA CellsOfRequest ==
  ASSUME Inv, NEW t \in Threads, th[t].pc \in Working
  PROVE  /\ th[t].off \in Nat /\ th[t].want \in Nat /\ th[t].done \in Nat
         /\ th[t].done <= th[t].want
         /\ th[t].data \in Seq(Values)
         /\ otype \in {"dd", "vdi", "vhd"}
         /\ RequestSize(t) = th[t].want
         /\ \A i \in 1..th[t].want :
              /\ th[t].off + i - 1 \in Nat
              /\ th[t].off + i - 1 < VirtImageSize(otype)
              /\ DiskCell(otype, th[t].off + i - 1) \in DiskCells
         /\ \A i, j \in 1..th[t].want :
              DiskCell(otype, th[t].off + i - 1) = DiskCell(otype, th[t].off + j - 1)
                => i = j
<1>1. /\ th[t] \in ThreadState /\ RequestInv(t) /\ otype \in {"dd", "vdi", "vhd"}
  BY Inside DEF Working, Outside
<1>2. /\ th[t].off \in Nat /\ th[t].want \in Nat /\ th[t].done \in Nat
      /\ th[t].data \in Seq(Values)
  BY <1>1 DEF ThreadState
<1>3. /\ th[t].done <= th[t].want
      /\ th[t].want # 0 => th[t].off + th[t].want <= VirtImageSize(otype)
  BY <1>1 DEF RequestInv
<1>4. VirtImageSize(otype) \in Nat
  BY SizesAssumption DEF VirtImageSize
<1>5. RequestSize(t) = th[t].want
  BY <1>2, <1>3, <1>4 DEF RequestSize, Clipped, Least
<1>6. ASSUME NEW i \in 1..th[t].want
      PROVE  /\ th[t].off + i - 1 \in Nat
             /\ th[t].off + i - 1 < VirtImageSize(otype)
  BY <1>2, <1>3, <1>4
<1>7. ASSUME NEW i \in 1..th[t].want
      PROVE  DiskCell(otype, th[t].off + i - 1) \in DiskCells
  BY <1>1, <1>6, DiskCellType
<1>8. ASSUME NEW i \in 1..th[t].want, NEW j \in 1..th[t].want,
             DiskCell(otype, th[t].off + i - 1) = DiskCell(otype, th[t].off + j - 1)
      PROVE  i = j
  <2>1. th[t].off + i - 1 = th[t].off + j - 1
    BY <1>1, <1>6, <1>8, DiskCellsDiffer
  <2>. QED BY <1>2, <2>1
<1>. QED BY <1>1, <1>2, <1>3, <1>5, <1>6, <1>7, <1>8

\* The cells of the piece a thread works on: they follow each other in a chunk.
LEMMA CellsOfPiece ==
  ASSUME Inv, NEW t \in Threads, th[t].pc \in Working, Left(t) # 0
  PROVE  /\ Count(t) \in Nat \ {0} /\ ChunkOff(t) \in Nat /\ Chunk(t) \in Chunks
         /\ th[t].done + Count(t) <= th[t].want
         /\ \A i \in th[t].done+1..th[t].done+Count(t) :
              /\ DiskCell(otype, th[t].off + i - 1) \in DiskCells
              /\ CellChunk(DiskCell(otype, th[t].off + i - 1)) = Chunk(t)
              /\ CellIndex(DiskCell(otype, th[t].off + i - 1))
                   = ChunkOff(t) + (i - th[t].done - 1)
<1>. DEFINE v == th[t].off + th[t].done
<1>1. /\ th[t].off \in Nat /\ th[t].want \in Nat /\ th[t].done \in Nat
      /\ th[t].done <= th[t].want
      /\ otype \in {"dd", "vdi", "vhd"}
  BY CellsOfRequest
<1>2. Count(t) \in 1..Left(t) /\ ChunkOff(t) \in Nat /\ Chunk(t) \in Chunks
  BY Piece
<1>3. /\ Left(t) = th[t].want - th[t].done /\ Left(t) \in Nat \ {0}
      /\ v \in Nat /\ th[t].want # 0
  BY <1>1 DEF Left
<1>4. v + Left(t) <= VirtImageSize(otype)
  <2>1. RequestInv(t)
    BY Inside DEF Working, Outside
  <2>2. th[t].off + th[t].want <= VirtImageSize(otype)
    BY <1>3, <2>1 DEF RequestInv
  <2>. QED BY <1>1, <1>3, <2>2
<1>. HIDE DEF v
<1>5. /\ Chunk(t) = ChunkAt(otype, v)
      /\ ChunkOff(t) = OffsetAt(otype, v)
      /\ Count(t) = CountAt(otype, v, Left(t))
  BY DEF Chunk, ChunkOff, Count, v
<1>6. ASSUME NEW i \in th[t].done+1..th[t].done+Count(t)
      PROVE  /\ DiskCell(otype, th[t].off + i - 1) \in DiskCells
             /\ CellChunk(DiskCell(otype, th[t].off + i - 1)) = Chunk(t)
             /\ CellIndex(DiskCell(otype, th[t].off + i - 1))
                  = ChunkOff(t) + (i - th[t].done - 1)
  <2>. DEFINE k == i - th[t].done - 1
  <2>1. k \in 0..CountAt(otype, v, Left(t))-1 /\ v + k = th[t].off + i - 1
    BY <1>1, <1>2, <1>3, <1>5 DEF v
  <2>. HIDE DEF k
  <2>2. /\ DiskCell(otype, v + k) \in DiskCells
        /\ CellChunk(DiskCell(otype, v + k)) = ChunkAt(otype, v)
        /\ CellIndex(DiskCell(otype, v + k)) = OffsetAt(otype, v) + k
    BY <1>1, <1>3, <1>4, <2>1, PieceCells
  <2>. QED BY <1>5, <2>1, <2>2 DEF k
<1>7. Count(t) \in Nat \ {0} /\ th[t].done + Count(t) <= th[t].want
  BY <1>1, <1>2, <1>3
<1>. QED BY <1>2, <1>6, <1>7

LEMMA NewDataCell ==
  ASSUME Inv, NEW t \in Threads, th[t].pc \in Working, Left(t) # 0,
         th[t].op = "write", NEW k \in 1..Count(t)
  PROVE  NewData(t)[k] = th[t].data[th[t].done + k]
<1>1. Count(t) \in Nat \ {0} /\ th[t].done \in Nat
  BY CellsOfPiece, CellsOfRequest
<1>. DEFINE m == th[t].done + 1
            n == th[t].done + Count(t)
<1>2. /\ m \in Nat /\ n \in Nat /\ 1 <= m /\ m <= n + 1
      /\ k \in 1..n-m+1 /\ m + k - 1 = th[t].done + k
      /\ \A i \in m..n : th[t].data[i] \in Values
  <2>1. th[t].data \in Seq(Values) /\ Len(th[t].data) = th[t].want
        /\ th[t].done + Count(t) <= th[t].want /\ th[t].want \in Nat
    BY CellsOfPiece, CellsOfRequest, Inside DEF RequestInv, Working, Outside
  <2>2. \A i \in m..n : i \in 1..Len(th[t].data)
    BY <1>1, <2>1
  <2>3. \A i \in m..n : th[t].data[i] \in Values
    <3>. HIDE DEF m, n
    <3>. QED BY <2>1, <2>2
  <2>4. k \in Nat /\ k >= 1 /\ k <= Count(t)
    BY <1>1
  <2>. QED BY <1>1, <2>3, <2>4
<1>3. NewData(t) = SubSeq(th[t].data, m, n)
  BY DEF NewData
<1>. HIDE DEF m, n
<1>4. SubSeq(th[t].data, m, n)[k] = th[t].data[m + k - 1]
  BY <1>2, SubSeqProperties
<1>. QED BY <1>2, <1>3, <1>4

\* When the first m cells of a piece reach their chunk, and nothing else does,
\* the disk makes a step: these cells of the write are applied.
LEMMA PieceApplied ==
  ASSUME Inv, NEW t \in Threads, th[t].pc \in Working, Left(t) # 0,
         th[t].op = "write", NEW m \in 0..Count(t),
         \A b \in Chunks : \A i \in 0..ChunkSize(b)-1 :
           Contents(b, i)' = IF b = Chunk(t) /\ i \in ChunkOff(t)..ChunkOff(t)+m-1
                             THEN NewData(t)[i - ChunkOff(t) + 1] ELSE Contents(b, i)
  PROVE  /\ Disk!Apply
         /\ \A i \in 1..th[t].done :
              DiskContents'[DiskCell(otype, th[t].off + i - 1)]
                = DiskContents[DiskCell(otype, th[t].off + i - 1)]
         /\ \A i \in th[t].done+1..th[t].done+m :
              DiskContents'[DiskCell(otype, th[t].off + i - 1)] = th[t].data[i]
<1>. DEFINE N(i) == DiskCell(otype, th[t].off + i - 1)
            S == th[t].done+1..th[t].done+m
<1>1. /\ th[t].want \in Nat /\ th[t].done \in Nat
      /\ th[t].data \in Seq(Values) /\ Len(th[t].data) = th[t].want
      /\ RequestSize(t) = th[t].want
      /\ \A i \in 1..th[t].want : N(i) \in DiskCells
      /\ \A i, j \in 1..th[t].want : N(i) = N(j) => i = j
      /\ mutex = t
  <2>1. RequestInv(t) /\ mutex = t
    BY Inside DEF Working, Outside
  <2>2. Len(th[t].data) = th[t].want
    BY <2>1 DEF RequestInv
  <2>. QED BY <2>1, <2>2, CellsOfRequest
<1>2. /\ Count(t) \in Nat \ {0} /\ ChunkOff(t) \in Nat /\ Chunk(t) \in Chunks
      /\ m \in Nat /\ m <= Count(t)
      /\ th[t].done + Count(t) <= th[t].want
      /\ \A i \in S : /\ CellChunk(N(i)) = Chunk(t)
                      /\ CellIndex(N(i)) = ChunkOff(t) + (i - th[t].done - 1)
  <2>1. /\ Count(t) \in Nat \ {0} /\ ChunkOff(t) \in Nat /\ Chunk(t) \in Chunks
        /\ th[t].done + Count(t) <= th[t].want
        /\ \A i \in th[t].done+1..th[t].done+Count(t) :
             /\ CellChunk(N(i)) = Chunk(t)
             /\ CellIndex(N(i)) = ChunkOff(t) + (i - th[t].done - 1)
    BY CellsOfPiece
  <2>2. m \in Nat /\ m <= Count(t)
    BY <2>1
  <2>3. \A i \in S : i \in th[t].done+1..th[t].done+Count(t)
    BY <1>1, <2>1, <2>2
  <2>. HIDE DEF N, S
  <2>. QED BY <2>1, <2>2, <2>3
<1>. HIDE DEF N
<1>3. ASSUME NEW i \in S
      PROVE  i \in 1..th[t].want /\ i \in Nat /\ i - th[t].done \in 1..m
             /\ i - th[t].done \in 1..Count(t)
  <2>1. th[t].done \in Nat /\ th[t].want \in Nat /\ m \in Nat /\ m <= Count(t)
        /\ Count(t) \in Nat /\ th[t].done + Count(t) <= th[t].want
    BY <1>1, <1>2
  <2>. QED BY <2>1
<1>4. DiskIsContents /\ DiskIsContents'
  BY DiskOfChunks, PTL
<1>5. ASSUME NEW i \in S
      PROVE  DiskContents'[N(i)] = th[t].data[i]
  <2>1. PICK p \in DiskCells : p = N(i)
    BY <1>1, <1>3
  <2>2. PICK c \in Chunks : c = Chunk(t)
    BY <1>2
  <2>3. PICK j \in 0..ChunkSize(c)-1 : j = ChunkOff(t) + (i - th[t].done - 1)
    <3>1. CellChunk(p) = c /\ CellIndex(p) = ChunkOff(t) + (i - th[t].done - 1)
      BY <1>2, <2>1, <2>2
    <3>2. CellIndex(p) \in 0..ChunkSize(CellChunk(p))-1
      BY CellPlace
    <3>. QED BY <3>1, <3>2
  <2>4. CellChunk(p) = c /\ CellIndex(p) = j
    BY <1>2, <2>1, <2>2, <2>3
  <2>5. DiskContents'[N(i)] = NewData(t)[i - th[t].done]
    <3>1. i - th[t].done \in 1..m /\ i \in Nat /\ th[t].done \in Nat
          /\ ChunkOff(t) \in Nat /\ m \in Nat
      BY <1>1, <1>2, <1>3
    <3>2. j \in ChunkOff(t)..ChunkOff(t)+m-1 /\ j - ChunkOff(t) + 1 = i - th[t].done
      BY <2>3, <3>1
    <3>3. DiskContents'[p] = Contents(c, j)'
      BY <1>4, <2>4 DEF DiskIsContents
    <3>4. Contents(c, j)' = NewData(t)[j - ChunkOff(t) + 1]
      BY <2>2, <3>2
    <3>. QED BY <2>1, <3>2, <3>3, <3>4
  <2>6. NewData(t)[i - th[t].done] = th[t].data[th[t].done + (i - th[t].done)]
    BY <1>3, NewDataCell
  <2>7. th[t].done + (i - th[t].done) = i
    BY <1>1, <1>3
  <2>. QED BY <2>5, <2>6, <2>7
<1>6. ASSUME NEW p \in DiskCells, \A i \in S : N(i) # p
      PROVE  DiskContents'[p] = DiskContents[p]
  <2>. DEFINE b == CellChunk(p)
              j == CellIndex(p)
  <2>1. /\ b \in Chunks /\ j \in 0..ChunkSize(b)-1
        /\ DiskContents[p] = Contents(b, j) /\ DiskContents'[p] = Contents(b, j)'
    BY <1>4, CellPlace DEF DiskIsContents
  <2>2. ~(b = Chunk(t) /\ j \in ChunkOff(t)..ChunkOff(t)+m-1)
    <3>. SUFFICES ASSUME b = Chunk(t), j \in ChunkOff(t)..ChunkOff(t)+m-1 PROVE FALSE
      OBVIOUS
    <3>. DEFINE i == th[t].done + 1 + (j - ChunkOff(t))
    <3>1. i \in S /\ ChunkOff(t) + (i - th[t].done - 1) = j
      <4>1. th[t].done \in Nat /\ ChunkOff(t) \in Nat /\ m \in Nat
        BY <1>1, <1>2
      <4>. HIDE DEF j
      <4>. QED BY <4>1
    <3>. HIDE DEF i
    <3>2. N(i) \in DiskCells /\ CellChunk(N(i)) = b /\ CellIndex(N(i)) = j
      BY <1>1, <1>2, <1>3, <3>1
    <3>3. N(i) = p
      BY <3>2, PlaceUnique
    <3>. QED BY <1>6, <3>1, <3>3
  <2>. HIDE DEF b, j
  <2>. QED BY <2>1, <2>2
<1>7. ASSUME NEW i \in 1..th[t].done
      PROVE  DiskContents'[N(i)] = DiskContents[N(i)]
  <2>1. i \in 1..th[t].want /\ i \notin S
    BY <1>1, <1>2
  <2>2. N(i) \in DiskCells /\ \A k \in S : N(k) # N(i)
    BY <1>1, <1>3, <2>1
  <2>. QED BY <1>6, <2>2
<1>8. Disk!Apply
  <2>. DEFINE cells == RequestCells(t)
              data == SubSeq(th[t].data, 1, RequestSize(t))
  <2>1. DiskCall(t) = PendingWrite(t)
    BY CallShapes DEF CallShape, Working
  <2>2. /\ Calls[t].op = "write" /\ Calls[t].cells = cells /\ Calls[t].data = data
    BY <2>1 DEF Calls, PendingWrite
  <2>3. Len(cells) = th[t].want /\ \A i \in 1..th[t].want : cells[i] = N(i)
    BY <1>1 DEF RequestCells, N
  <2>4. \A i \in 1..th[t].want : data[i] = th[t].data[i]
    <3>1. \A i \in 1..th[t].want : th[t].data[i] \in Values
      BY <1>1
    <3>. QED BY <1>1, <3>1, Prefix
  <2>. HIDE DEF cells, data
  <2>5. S \in SUBSET (1..Len(cells))
    <3>. HIDE DEF S
    <3>. QED BY <1>3, <2>3
  <2>6. ASSUME NEW p \in DiskCells
        PROVE  DiskContents'[p] = IF \E i \in S : cells[i] = p
                                  THEN data[CHOOSE i \in S : cells[i] = p]
                                  ELSE DiskContents[p]
    <3>. HIDE DEF S
    <3>1. \A i \in S : cells[i] = N(i) /\ data[i] = th[t].data[i]
      BY <1>3, <2>3, <2>4
    <3>2. CASE \E i \in S : cells[i] = p
      <4>. DEFINE k == CHOOSE i \in S : cells[i] = p
      <4>1. k \in S /\ cells[k] = p
        BY <3>2
      <4>. HIDE DEF k
      <4>2. DiskContents'[p] = data[k]
        BY <1>5, <3>1, <4>1
      <4>. QED BY <3>2, <4>2 DEF k
    <3>3. CASE ~\E i \in S : cells[i] = p
      BY <1>6, <3>1, <3>3
    <3>. QED BY <3>2, <3>3
  <2>7. DiskContents' = [p \in DiskCells |-> IF \E i \in S : cells[i] = p
                                             THEN data[CHOOSE i \in S : cells[i] = p]
                                             ELSE DiskContents[p]]
    <3>1. DiskContents' = [p \in DiskCells |-> DiskContents'[p]]
      BY <1>4 DEF DiskIsContents
    <3>. HIDE DEF S
    <3>. QED BY <2>6, <3>1
  <2>8. DiskContents' = Disk!Overlay(cells, data, S)
    BY <2>7 DEF Disk!Overlay
  <2>. HIDE DEF S
  <2>. QED BY <1>1, <2>2, <2>5, <2>8, ThreadsAssumption DEF Disk!Apply, Calls
<1>. QED BY <1>5, <1>7, <1>8 DEF N

-----------------------------------------------------------------------------
(* The steps of a thread that serves a request                             *)

SmallFaults == Faults \subseteq {"input", "data"}

\* The thread that has the mutex, at work on a piece.
LEMMA AtWork ==
  ASSUME Inv, DiskInv, NEW t \in Threads, th[t].pc \in Working
  PROVE  /\ th[t].pc \notin Outside
         /\ th[t] \in ThreadState /\ th \in [Threads -> ThreadState]
         /\ Stored /\ otype # "none"
         /\ Transferred(t) /\ TransferInv(t) /\ RequestInv(t) /\ AppendInv(t)
         /\ th[t].pc # "piece" => Left(t) # 0
<1>1. th[t].pc \notin Outside
  BY DEF Working, Outside
<1>2. /\ th[t] \in ThreadState /\ th \in [Threads -> ThreadState]
      /\ Stored /\ RequestInv(t) /\ AppendInv(t) /\ otype # "none"
  BY <1>1, Inside
<1>3. Transferred(t) /\ TransferInv(t)
  BY DEF DiskInv, TransferInv
<1>4. th[t].pc # "piece" => th[t].done < th[t].want
  BY <1>2 DEF RequestInv
<1>5. th[t].pc # "piece" => Left(t) # 0
  BY <1>2, <1>4 DEF Left, ThreadState
<1>. QED BY <1>1, <1>2, <1>3, <1>5

\* A piece has been read, and it is what the disk holds.
LEMMA ReceivedDisk ==
  ASSUME Inv, DiskInv, NEW t \in Threads, th[t].pc \in {"piece", "fread"},
         th[t].op = "read", Left(t) # 0,
         NEW d \in Seq(Values), Len(d) = Count(t), Received(t, d),
         \A k \in 1..Count(t) : d[k] = Contents(Chunk(t), ChunkOff(t) + k - 1),
         UNCHANGED <<file, mem, otype, mutex>>, Quiet'
  PROVE  DiskInv' /\ DiskStep
<1>. DEFINE r == [th[t] EXCEPT !.pc = "piece", !.data = @ \o d, !.done = @ + Len(d)]
<1>1. /\ th[t].pc \in Working /\ th[t].pc # "sync"
      /\ th[t].pc \notin Outside
      /\ th[t] \in ThreadState /\ th \in [Threads -> ThreadState]
      /\ Transferred(t)
  <2>1. th[t].pc \in Working /\ th[t].pc # "sync"
    BY DEF Working
  <2>. QED BY <2>1, AtWork
<1>2. /\ th[t].done \in Nat /\ th[t].want \in Nat /\ Count(t) \in Nat \ {0}
      /\ th[t].data \o d \in Seq(Values)
      /\ th[t].data \in Seq(Values) /\ Len(th[t].data) = th[t].done
  BY <1>1, CellsOfPiece, CellsOfRequest, ConcatProperties DEF Transferred
<1>3. th' = [th EXCEPT ![t] = r] /\ r \in ThreadState
  BY <1>1, <1>2 DEF Received, ThreadState
<1>4. /\ r.pc = "piece" /\ r.op = "read" /\ r.want = th[t].want /\ r.off = th[t].off
      /\ r.done = th[t].done + Count(t)
      /\ r.data = th[t].data \o d
  BY <1>1, <1>2 DEF ThreadState
<1>. HIDE DEF r
<1>5. th'[t] = r
  BY <1>1, <1>3
<1>6. Harmless /\ DiskContents' = DiskContents
  BY SameFile, HarmlessDisk
<1>7. ASSUME NEW i \in 1..r.done
      PROVE  DiskContents[DiskCell(otype, r.off + i - 1)] = r.data[i]
  <2>1. i \in 1..Len(th[t].data) + Len(d)
    BY <1>2, <1>4
  <2>2. r.data[i] = IF i <= th[t].done THEN th[t].data[i] ELSE d[i - th[t].done]
    <3>1. PICK a \in Seq(Values) : a = th[t].data
      BY <1>2
    <3>2. \A j \in 1..Len(a)+Len(d) : (a \o d)[j] = IF j <= Len(a) THEN a[j] ELSE d[j - Len(a)]
      BY ConcatProperties
    <3>3. r.data = a \o d /\ Len(a) = th[t].done /\ i \in 1..Len(a)+Len(d)
      BY <1>2, <1>4, <2>1, <3>1
    <3>. QED BY <3>1, <3>2, <3>3
  <2>3. CASE i <= th[t].done
    BY <1>1, <1>2, <1>4, <2>2, <2>3 DEF Transferred
  <2>4. CASE ~(i <= th[t].done)
    <3>. DEFINE p == DiskCell(otype, th[t].off + i - 1)
                k == i - th[t].done
    <3>1. i \in th[t].done+1..th[t].done+Count(t) /\ k \in 1..Count(t)
      <4>1. PICK m \in Nat, n \in Nat : m = th[t].done /\ n = Count(t)
        BY <1>2
      <4>2. i \in 1..m+n /\ ~(i <= m)
        BY <1>4, <2>4, <4>1
      <4>. QED BY <4>1, <4>2
    <3>2. /\ p \in DiskCells /\ CellChunk(p) = Chunk(t)
          /\ CellIndex(p) = ChunkOff(t) + (k - 1)
          /\ ChunkOff(t) \in Nat
      BY <1>1, <3>1, CellsOfPiece
    <3>3. CellIndex(p) = ChunkOff(t) + k - 1
      BY <3>1, <3>2
    <3>4. DiskContents[p] = Contents(Chunk(t), ChunkOff(t) + k - 1)
      BY <3>2, <3>3, CellPlace
    <3>. QED BY <1>4, <2>2, <2>4, <3>1, <3>4
  <2>. QED BY <2>3, <2>4
<1>8. Len(r.data) = r.done
  <2>1. Len(th[t].data \o d) = Len(th[t].data) + Len(d)
    BY <1>2, ConcatProperties
  <2>. QED BY <1>2, <1>4, <2>1
<1>9. TransferInv(t)'
  <2>1. Transferred(t)'
    BY <1>4, <1>5, <1>6, <1>7, <1>8 DEF Transferred
  <2>. QED BY <1>4, <1>5, <2>1 DEF TransferInv
<1>10. r.pc \notin Outside
  BY <1>4 DEF Outside
<1>. QED BY <1>1, <1>3, <1>4, <1>6, <1>9, <1>10, HarmlessStep

LEMMA QuietStays ==
  ASSUME Quiet, UNCHANGED <<file, buf>>, at' >= file.len \/ UNCHANGED at \/ buf = <<>>
  PROVE  Quiet'
BY DEF Quiet, NewHeader

LEMMA ReadOriginalDisk ==
  ASSUME Inv, DiskInv, NEW t \in Threads, ReadOriginal(t)
  PROVE  DiskInv' /\ DiskStep
<1>1. /\ th[t].pc = "piece" /\ th[t].op = "read" /\ Left(t) # 0
      /\ th[t].pc \in Working /\ th[t].pc \notin Outside
      /\ th[t].pc \notin {"assign", "sync"}
      /\ ~mem[Chunk(t)].Assigned
      /\ UNCHANGED <<file, at, buf, mem, otype, mutex>>
  BY DEF ReadOriginal, AtPiece, Working, Outside, UnchangedStream
<1>2. Quiet'
  BY <1>1, QuietNow, QuietStays
<1>3. CASE Received(t, OriginalRange(Chunk(t), ChunkOff(t), Count(t)))
  <2>. DEFINE d == OriginalRange(Chunk(t), ChunkOff(t), Count(t))
  <2>1. /\ Chunk(t) \in Chunks /\ ChunkOff(t) \in Nat /\ Count(t) \in Nat
        /\ ChunkOff(t) + Count(t) <= ChunkSize(Chunk(t))
    BY <1>1, Piece
  <2>2. d \in Seq(Values) /\ Len(d) = Count(t)
    BY <2>1, OriginalRangeType
  <2>3. ~Slot(Chunk(t)).Assigned
    BY <1>1, <2>1, SlotIsKnown, AtWork
  <2>4. \A k \in 1..Count(t) : d[k] = Contents(Chunk(t), ChunkOff(t) + k - 1)
    BY <2>3 DEF Contents, OriginalRange
  <2>. HIDE DEF d
  <2>5. Received(t, d)
    BY <1>3 DEF d
  <2>. QED BY <1>1, <1>2, <2>2, <2>4, <2>5, ReceivedDisk
<1>4. CASE Fail(t)
  BY <1>1, <1>2, <1>4, SameFile, FailDisk
<1>. QED BY <1>3, <1>4 DEF ReadOriginal

LEMMA SeekCachedDisk ==
  ASSUME SmallFaults, Inv, DiskInv, NEW t \in Threads, SeekCached(t)
  PROVE  DiskInv' /\ DiskStep
<1>1. /\ th[t].pc = "piece" /\ Left(t) # 0 /\ mem[Chunk(t)].Assigned
      /\ th[t].pc \in Working /\ th[t].pc \notin Outside
      /\ th[t].pc \notin {"assign", "sync"}
      /\ UNCHANGED <<mem, otype, mutex>>
  BY DEF SeekCached, Working, Outside
<1>. DEFINE pc == IF th[t].op = "read" THEN "fread" ELSE "fwrite"
<1>2. /\ file' = Written(Len(buf)) /\ buf' = <<>>
      /\ at' = mem[Chunk(t)].off_data + ChunkOff(t)
      /\ Goto(t, pc)
  BY DEF SeekCached, FlushFails, SmallFaults, SeekTo, Flushed
<1>3. Harmless
  <2>1. otype # "none" /\ Stored
    BY <1>1, AtWork
  <2>2. Len(buf) \in 0..Len(buf)
    BY <2>1 DEF Stored
  <2>. QED BY <1>1, <1>2, <2>1, <2>2, QuietNow, QuietWrite
<1>4. Quiet'
  BY <1>2 DEF Quiet
<1>5. pc \in Working /\ pc \notin {"assign", "sync"}
  BY DEF Working
<1>. HIDE DEF pc
<1>. QED BY <1>1, <1>2, <1>3, <1>4, <1>5, GotoDisk

LEMMA ReadCachedDisk ==
  ASSUME Inv, DiskInv, NEW t \in Threads, ReadCached(t)
  PROVE  DiskInv' /\ DiskStep
<1>1. /\ th[t].pc = "fread"
      /\ th[t].pc \in Working /\ th[t].pc \notin Outside
      /\ th[t].pc \notin {"assign", "sync"}
      /\ UNCHANGED <<file, buf, mem, otype, mutex>>
  BY DEF ReadCached, Working, Outside
<1>2. /\ th[t].op = "read" /\ Left(t) # 0
      /\ buf = <<>> /\ at >= DataStart
      /\ mem[Chunk(t)].Assigned
      /\ at = mem[Chunk(t)].off_data + ChunkOff(t)
  BY <1>1, AtWork DEF RequestInv, AppendInv, TransferInv
<1>3. Quiet'
  BY <1>1, <1>2 DEF Quiet
<1>4. /\ Chunk(t) \in Chunks /\ ChunkOff(t) \in Nat /\ Count(t) \in Nat
  BY <1>1, <1>2, CellsOfPiece
<1>5. Slot(Chunk(t)) = mem[Chunk(t)] /\ mem[Chunk(t)].off_data \in Nat
  <2>1. Slot(Chunk(t)) = mem[Chunk(t)]
    BY <1>1, <1>2, <1>4, QuietNow, KnownNow DEF DiskInv
  <2>. QED BY <1>4, <2>1, SlotKnown DEF Entry
<1>6. CASE /\ at + Count(t) <= file.len
           /\ Received(t, [i \in 1..Count(t) |-> file.cell[at + i - 1]])
  <2>. DEFINE d == [i \in 1..Count(t) |-> file.cell[at + i - 1]]
  <2>1. \A i \in 1..Count(t) : file.cell[at + i - 1] \in Values
    <3>. SUFFICES ASSUME NEW i \in 1..Count(t) PROVE file.cell[at + i - 1] \in Values
      OBVIOUS
    <3>1. at \in Nat /\ file.len \in Nat /\ DataStart \in Nat
      <4>1. file.len \in Nat /\ DataStart \in Nat
        BY <1>4, SlotKnown
      <4>. QED BY <1>2, <1>4, <1>5, <4>1
    <3>2. at + i - 1 \in 0..file.len-1 /\ ~(at + i - 1 < DataStart)
      <4>1. PICK n \in Nat, l \in Nat, e \in Nat : n = Count(t) /\ l = file.len /\ e = DataStart
        BY <1>4, <3>1
      <4>2. i \in 1..n /\ at + n <= l /\ at >= e
        BY <1>2, <1>6, <4>1
      <4>3. at + i - 1 \in 0..l-1 /\ ~(at + i - 1 < e)
        BY <3>1, <4>2
      <4>. QED BY <4>1, <4>3
    <3>3. FileTyped(file)
      BY <1>4, SlotKnown
    <3>. QED BY <3>2, <3>3 DEF FileTyped
  <2>2. d \in Seq(Values) /\ Len(d) = Count(t)
    <3>1. d \in [1..Count(t) -> Values]
      BY <2>1
    <3>. QED BY <1>4, <3>1
  <2>3. \A k \in 1..Count(t) : d[k] = Contents(Chunk(t), ChunkOff(t) + k - 1)
    <3>. SUFFICES ASSUME NEW k \in 1..Count(t)
                  PROVE  d[k] = Contents(Chunk(t), ChunkOff(t) + k - 1)
      OBVIOUS
    <3>1. at + k - 1 = mem[Chunk(t)].off_data + (ChunkOff(t) + k - 1)
      BY <1>2, <1>4, <1>5
    <3>. QED BY <1>2, <1>5, <3>1 DEF Contents, Cached
  <2>. HIDE DEF d
  <2>4. Received(t, d)
    BY <1>6 DEF d
  <2>. QED BY <1>1, <1>2, <1>3, <2>2, <2>3, <2>4, ReceivedDisk
<1>7. CASE Fail(t)
  BY <1>1, <1>3, <1>7, SameFile, FailDisk
<1>. QED BY <1>6, <1>7 DEF ReadCached

\* A thread that goes on with its piece works on the same one.
LEMMA PieceKept ==
  ASSUME NEW t \in Threads, NEW pc, Goto(t, pc), th \in [Threads -> ThreadState],
         otype' = otype
  PROVE  /\ Chunk(t)' = Chunk(t) /\ ChunkOff(t)' = ChunkOff(t)
         /\ Count(t)' = Count(t) /\ NewData(t)' = NewData(t)
         /\ \A i : Merged(t, i)' = Merged(t, i)
         /\ th'[t].pc = pc
<1>. DEFINE r == [th[t] EXCEPT !.pc = pc]
<1>1. th' = [th EXCEPT ![t] = r]
  BY DEF Goto
<1>2. /\ r.pc = pc /\ r.off = th[t].off /\ r.want = th[t].want
      /\ r.data = th[t].data /\ r.done = th[t].done
  BY DEF ThreadState
<1>. HIDE DEF r
<1>3. th'[t] = r
  BY <1>1
<1>4. Left(t)' = Left(t)
  BY <1>2, <1>3 DEF Left
<1>5. Chunk(t)' = Chunk(t) /\ ChunkOff(t)' = ChunkOff(t) /\ Count(t)' = Count(t)
  BY <1>2, <1>3, <1>4 DEF Chunk, ChunkOff, Count
<1>6. NewData(t)' = NewData(t)
  BY <1>2, <1>3, <1>5 DEF NewData
<1>. QED BY <1>2, <1>3, <1>5, <1>6 DEF Merged

LEMMA SeekEndDisk ==
  ASSUME SmallFaults, Inv, DiskInv, NEW t \in Threads, SeekEnd(t)
  PROVE  DiskInv' /\ DiskStep
<1>. DEFINE c == Chunk(t)
<1>1. /\ th[t].pc = "piece" /\ th[t].op = "write" /\ Left(t) # 0
      /\ ~mem[c].Assigned
      /\ th[t].pc \in Working /\ th[t].pc \notin Outside
      /\ th[t].pc \notin {"assign", "sync"}
      /\ UNCHANGED <<otype, mutex>>
  BY DEF SeekEnd, AtPiece, Working, Outside
<1>2. /\ file' = Written(Len(buf)) /\ buf' = <<>>
      /\ mem' = [mem EXCEPT ![c].off_data = at']
      /\ Goto(t, "append")
  BY DEF SeekEnd, FlushFails, SmallFaults, SeekTo, Flushed
<1>3. otype # "none" /\ Stored /\ mem \in [Chunks -> Entry]
  BY <1>1, AtWork DEF Stored
<1>4. Harmless
  <2>1. Len(buf) \in 0..Len(buf)
    BY <1>3 DEF Stored
  <2>. QED BY <1>1, <1>2, <1>3, <2>1, QuietNow, QuietWrite
<1>5. Quiet'
  BY <1>2 DEF Quiet
<1>6. \A b \in Chunks : mem'[b].Assigned => mem'[b] = mem[b]
  <2>. SUFFICES ASSUME NEW b \in Chunks, mem'[b].Assigned PROVE mem'[b] = mem[b]
    OBVIOUS
  <2>1. CASE b = c
    <3>1. mem'[b] = [mem[b] EXCEPT !.off_data = at']
      BY <1>2, <1>3, <2>1
    <3>2. mem'[b].Assigned = mem[b].Assigned
      BY <1>3, <3>1 DEF Entry
    <3>. QED BY <1>1, <2>1, <3>2
  <2>2. CASE b # c
    BY <1>2, <1>3, <2>2
  <2>. QED BY <2>1, <2>2
<1>7. "append" \in Working
  BY DEF Working
<1>. QED BY <1>1, <1>2, <1>4, <1>5, <1>6, <1>7, GotoDisk

\* fwrite fails in the chunk: the disk has taken some of the piece.
LEMMA WriteCachedDisk ==
  ASSUME Inv, DiskInv, NEW t \in Threads, WriteCached(t)
  PROVE  DiskInv' /\ DiskStep
<1>1. /\ th[t].pc = "fwrite"
      /\ th[t].pc \in Working /\ th[t].pc \notin Outside
      /\ th[t].pc \notin {"assign", "sync"}
      /\ UNCHANGED <<mem, otype, mutex>>
  BY DEF WriteCached, Working, Outside
<1>2. /\ th[t].op = "write" /\ Left(t) # 0
      /\ buf = <<>>
      /\ mem[Chunk(t)].Assigned
      /\ at = mem[Chunk(t)].off_data + ChunkOff(t)
      /\ th \in [Threads -> ThreadState] /\ th[t] \in ThreadState
  BY <1>1, AtWork DEF RequestInv, AppendInv, TransferInv
<1>3. PICK c \in Chunks : c = Chunk(t)
  BY <1>1, <1>2, CellsOfPiece
<1>4. /\ ChunkOff(t) \in Nat /\ Count(t) \in Nat \ {0}
      /\ ChunkOff(t) + Count(t) <= ChunkSize(c)
      /\ NewData(t) \in Seq(Values) /\ Len(NewData(t)) = Count(t)
  BY <1>1, <1>2, <1>3, Piece
<1>5. Slot(c) = mem[c] /\ mem[c].off_data \in Nat /\ \A s \in Threads : th[s].pc # "sync"
  <2>1. Slot(c) = mem[c] /\ \A s \in Threads : th[s].pc # "sync"
    BY <1>1, <1>2, <1>3, QuietNow, KnownNow DEF DiskInv
  <2>. QED BY <2>1, SlotKnown DEF Entry
<1>6. CASE Put(NewData(t)) /\ Goto(t, "sync")
  <2>1. file' = file /\ at' = at /\ buf' = NewData(t)
    BY <1>2, <1>4, <1>6, ConcatEmptySeq DEF Put
  <2>2. Chunk(t)' = c /\ ChunkOff(t)' = ChunkOff(t) /\ NewData(t)' = NewData(t)
    BY <1>1, <1>2, <1>3, <1>6, PieceKept
  <2>3. Slot(c)' = Slot(c)
    BY <2>1 DEF Slot
  <2>4. InPlace(t)'
    BY <1>1, <1>2, <1>3, <1>5, <2>1, <2>2, <2>3 DEF InPlace
  <2>5. "sync" \in Working
    BY DEF Working
  <2>. QED BY <1>1, <1>6, <2>1, <2>4, <2>5, SameFile, GotoDisk
<1>7. CASE PutFails(NewData(t)) /\ Fail(t)
  <2>1. PICK n \in 0..Len(NewData(t))-1 :
          file' = Overwrite(file, at, SubSeq(buf \o NewData(t), 1, Len(buf) + n))
    BY <1>7 DEF PutFails
  <2>. DEFINE d == SubSeq(NewData(t), 1, n)
  <2>2. n \in Nat /\ n < Count(t)
    BY <1>4, <2>1
  <2>3. file' = Overwrite(file, Slot(c).off_data + ChunkOff(t), d) /\ buf' = <<>>
    <3>1. Len(buf) = 0 /\ buf \o NewData(t) = NewData(t) /\ 0 + n = n
      BY <1>2, <1>4, <2>2, ConcatEmptySeq, EmptySeq
    <3>. QED BY <1>2, <1>3, <1>5, <1>7, <2>1, <3>1 DEF PutFails
  <2>4. Len(d) = n /\ \A i \in 1..n : d[i] = NewData(t)[i]
    <3>1. \A i \in 1..n : NewData(t)[i] \in Values
      BY <1>4, <2>2
    <3>. QED BY <2>2, <3>1, Prefix
  <2>. HIDE DEF d
  <2>5. /\ \A b \in Chunks : Slot(b)' = Slot(b)
        /\ \A b \in Chunks : \A i \in 0..ChunkSize(b)-1 :
             Contents(b, i)' = IF b = c /\ i \in ChunkOff(t)..ChunkOff(t)+n-1
                               THEN d[i - ChunkOff(t) + 1] ELSE Contents(b, i)
    <3>1. ChunkOff(t) + Len(d) <= ChunkSize(c) /\ Len(d) \in Nat
      BY <1>4, <2>2, <2>4, ChunkSizeType
    <3>2. Slot(c).Assigned
      BY <1>2, <1>3, <1>5
    <3>3. PICK o \in Nat : o = ChunkOff(t)
      BY <1>4
    <3>4. file' = Overwrite(file, Slot(c).off_data + o, d) /\ o + Len(d) <= ChunkSize(c)
      BY <2>3, <3>1, <3>3
    <3>5. /\ \A b \in Chunks : Slot(b)' = Slot(b)
          /\ \A b \in Chunks : \A i \in 0..ChunkSize(b)-1 :
               Contents(b, i)' = IF b = c /\ i \in o..o+Len(d)-1
                                 THEN d[i - o + 1] ELSE Contents(b, i)
      BY <3>1, <3>2, <3>4, ChunkWrite
    <3>. QED BY <2>4, <3>3, <3>5
  <2>6. \A b \in Chunks : \A i \in 0..ChunkSize(b)-1 :
          Contents(b, i)' = IF b = Chunk(t) /\ i \in ChunkOff(t)..ChunkOff(t)+n-1
                            THEN NewData(t)[i - ChunkOff(t) + 1] ELSE Contents(b, i)
    <3>1. \A i \in Nat : i \in ChunkOff(t)..ChunkOff(t)+n-1 =>
                           i - ChunkOff(t) + 1 \in 1..n
      BY <1>4, <2>2
    <3>2. \A b \in Chunks : \A i \in 0..ChunkSize(b)-1 : i \in Nat
      BY ChunkSizeType
    <3>. QED BY <1>3, <2>4, <2>5, <3>1, <3>2
  <2>7. Disk!Apply
    <3>1. n \in 0..Count(t)
      BY <1>4, <2>2
    <3>. QED BY <1>1, <1>2, <2>6, <3>1, PieceApplied
  <2>. DEFINE r == [th[t] EXCEPT !.pc = "answer", !.ok = FALSE]
  <2>8. th' = [th EXCEPT ![t] = r]
    BY <1>2, <1>7 DEF Fail
  <2>9. /\ r \in ThreadState /\ r.pc = "answer" /\ ~r.ok
        /\ r.op = th[t].op /\ r.off = th[t].off /\ r.want = th[t].want
        /\ r.data = th[t].data /\ r.pc \notin Outside
    BY <1>2 DEF ThreadState, Outside
  <2>. HIDE DEF r
  <2>10. /\ \A s \in Threads : DiskCall(s)' = DiskCall(s)
         /\ \A s \in Threads \ {t} : TransferInv(s)'
         /\ th'[t] = r
    BY <1>1, <2>8, <2>9, GoOn
  <2>11. TransferInv(t)'
    BY <2>9, <2>10 DEF TransferInv, Working
  <2>12. KnownInv'
    <3>. SUFFICES ASSUME NEW b \in Chunks, mem'[b].Assigned PROVE Slot(b)' = mem'[b]
      BY DEF KnownInv
    <3>. QED BY <1>1, <1>5, <2>5, KnownNow DEF DiskInv
  <2>13. QuietInv'
    BY <2>3 DEF QuietInv, Quiet
  <2>14. Disk!ApplyOnly
    <3>1. Calls' = Calls /\ mutex' = mutex
      BY <1>1, <2>10 DEF Calls
    <3>. QED BY <2>7, <3>1 DEF Disk!ApplyOnly, Calls
  <2>15. DiskStep
    BY <2>14 DEF DiskStep, Disk!Next
  <2>. QED BY <2>10, <2>11, <2>12, <2>13, <2>15 DEF DiskInv
<1>. QED BY <1>6, <1>7 DEF WriteCached

\* The chunk that is appended: what it held before with the piece in it.
LEMMA AppendedChunk ==
  ASSUME Inv, NEW t \in Threads, th[t].pc \in Working, Left(t) # 0,
         th[t].op = "write"
  PROVE  /\ OriginalRange(Chunk(t), 0, ChunkOff(t)) \o NewData(t) \in Seq(Values)
         /\ (OriginalRange(Chunk(t), 0, ChunkOff(t)) \o NewData(t))
              \o Padding(Chunk(t), ChunkOff(t) + Count(t)) \in Seq(Values)
         /\ \A i \in 0..ChunkSize(Chunk(t))-1 :
              ((OriginalRange(Chunk(t), 0, ChunkOff(t)) \o NewData(t))
                 \o Padding(Chunk(t), ChunkOff(t) + Count(t)))[i + 1] = Merged(t, i)
<1>1. PICK c \in Chunks, o \in Nat, n \in Nat : c = Chunk(t) /\ o = ChunkOff(t) /\ n = Count(t)
  BY Piece
<1>2. /\ o + n \in Nat /\ o + n <= ChunkSize(c) /\ ChunkSize(c) \in Nat \ {0}
      /\ NewData(t) \in Seq(Values) /\ Len(NewData(t)) = n
  BY <1>1, Piece, ChunkSizeType
<1>3. PICK a \in Seq(Values) : a = OriginalRange(c, 0, o) /\ Len(a) = o
  <2>1. 0 + o <= ChunkSize(c)
    BY <1>2
  <2>. QED BY <2>1, OriginalRangeType
<1>4. PICK b \in Seq(Values) : b = NewData(t)
  BY <1>2
<1>5. PICK d \in Seq(Values) : d = Padding(c, o + n) /\ Len(d) = ChunkSize(c) - (o + n)
  BY <1>2, OriginalRangeType DEF Padding
<1>6. \A i \in 1..o : a[i] = Original(c, 0 + i - 1)
  BY <1>3 DEF OriginalRange
<1>7. \A i \in 1..ChunkSize(c)-(o+n) : d[i] = Original(c, o + n + i - 1)
  BY <1>5 DEF Padding, OriginalRange
<1>8. \A i : Merged(t, i) = IF i \in o..o+n-1 THEN b[i - o + 1] ELSE Original(c, i)
  BY <1>1, <1>4 DEF Merged
<1>9. Len(a) = o /\ Len(b) = n /\ Len(d) = ChunkSize(c) - (o + n)
  BY <1>2, <1>3, <1>4, <1>5
<1>10. /\ a \o b \in Seq(Values) /\ (a \o b) \o d \in Seq(Values)
       /\ \A j \in 0..Len(a)+Len(b)+Len(d)-1 :
            ((a \o b) \o d)[j + 1] =
              IF j < Len(a) THEN a[j + 1]
              ELSE IF j < Len(a) + Len(b) THEN b[j - Len(a) + 1]
              ELSE d[j - (Len(a) + Len(b)) + 1]
  BY ThreeParts
<1>11. ASSUME NEW i \in 0..ChunkSize(c)-1
       PROVE  /\ a \o b \in Seq(Values) /\ (a \o b) \o d \in Seq(Values)
              /\ ((a \o b) \o d)[i + 1] = Merged(t, i)
  <2>1. i \in 0..Len(a)+Len(b)+Len(d)-1
    BY <1>2, <1>9
  <2>2. PICK w : w = ((a \o b) \o d)[i + 1]
    OBVIOUS
  <2>3. /\ a \o b \in Seq(Values) /\ (a \o b) \o d \in Seq(Values)
        /\ w = IF i < o THEN a[i + 1]
               ELSE IF i < o + n THEN b[i - o + 1] ELSE d[i - (o + n) + 1]
    <3>1. ((a \o b) \o d)[i + 1] =
             IF i < Len(a) THEN a[i + 1]
             ELSE IF i < Len(a) + Len(b) THEN b[i - Len(a) + 1]
             ELSE d[i - (Len(a) + Len(b)) + 1]
      BY <2>1, <1>10, Zenon
    <3>2. w = IF i < Len(a) THEN a[i + 1]
              ELSE IF i < Len(a) + Len(b) THEN b[i - Len(a) + 1]
              ELSE d[i - (Len(a) + Len(b)) + 1]
      BY <2>2, <3>1
    <3>. QED BY <1>9, <1>10, <3>2
  <2>4. CASE i < o
    <3>1. i + 1 \in 1..o /\ 0 + (i + 1) - 1 = i /\ i \notin o..o+n-1
      BY <1>2, <2>4
    <3>2. w = a[i + 1]
      BY <2>3, <2>4
    <3>3. a[i + 1] = Original(c, i)
      BY <1>6, <3>1
    <3>4. Merged(t, i) = Original(c, i)
      BY <1>8, <3>1
    <3>. QED BY <2>2, <3>2, <3>3, <3>4
  <2>5. CASE i >= o /\ i < o + n
    <3>1. i \in o..o+n-1 /\ ~(i < o)
      BY <1>2, <2>5
    <3>2. w = b[i - o + 1]
      BY <2>3, <2>5, <3>1
    <3>3. Merged(t, i) = b[i - o + 1]
      BY <1>8, <3>1
    <3>. QED BY <2>2, <3>2, <3>3
  <2>6. CASE i >= o + n
    <3>1. /\ i - (o + n) + 1 \in 1..ChunkSize(c)-(o+n)
          /\ o + n + (i - (o + n) + 1) - 1 = i
          /\ i \notin o..o+n-1 /\ ~(i < o) /\ ~(i < o + n)
      <4>1. PICK m \in Nat, z \in Nat : m = o + n /\ z = ChunkSize(c)
        BY <1>2
      <4>2. i \in 0..z-1 /\ i >= m /\ o <= m
        BY <2>6, <4>1
      <4>3. i - m + 1 \in 1..z-m /\ m + (i - m + 1) - 1 = i /\ i \notin o..m-1 /\ ~(i < o)
        BY <4>2
      <4>. QED BY <4>1, <4>2, <4>3
    <3>2. w = d[i - (o + n) + 1]
      BY <2>3, <3>1
    <3>3. d[i - (o + n) + 1] = Original(c, i)
      BY <1>7, <3>1
    <3>4. Merged(t, i) = Original(c, i)
      BY <1>8, <3>1
    <3>. QED BY <2>2, <3>2, <3>3, <3>4
  <2>7. i < o \/ (i >= o /\ i < o + n) \/ i >= o + n
    BY <1>2
  <2>8. w = Merged(t, i)
    BY <2>2, <2>4, <2>5, <2>6, <2>7
  <2>. QED BY <2>2, <2>3, <2>8
<1>12. 0 \in 0..ChunkSize(c)-1
  BY <1>2
<1>. QED BY <1>1, <1>3, <1>4, <1>5, <1>11, <1>12

\* A failing fwrite at the end of the file leaves cells behind it that no slot
\* names.
LEMMA AppendChunkDisk ==
  ASSUME Inv, DiskInv, NEW t \in Threads, AppendChunk(t)
  PROVE  DiskInv' /\ DiskStep
<1>1. /\ th[t].pc = "append"
      /\ th[t].pc \in Working /\ th[t].pc \notin Outside
      /\ th[t].pc \notin {"assign", "sync"}
      /\ UNCHANGED <<mem, otype, mutex>>
  BY DEF AppendChunk, Working, Outside
<1>2. /\ th[t].op = "write" /\ Left(t) # 0 /\ Stored
      /\ buf = <<>> /\ at = file.len /\ file.len >= DataStart
      /\ at \in Nat
  BY <1>1, AtWork DEF RequestInv, AppendInv, Working, Stored
<1>3. PICK head \in Seq(Values), whole \in Seq(Values) :
        /\ head = OriginalRange(Chunk(t), 0, ChunkOff(t)) \o NewData(t)
        /\ whole = head \o Padding(Chunk(t), ChunkOff(t) + Count(t))
        /\ \A i \in 0..ChunkSize(Chunk(t))-1 : whole[i + 1] = Merged(t, i)
  BY <1>1, <1>2, AppendedChunk
<1>8. \/ Put(whole) /\ Goto(t, "assign")
      \/ \E d \in {whole, head} : PutFails(d) /\ Fail(t)
      \/ UnchangedStream /\ Fail(t)
      \/ Put(head) /\ Fail(t)
  BY <1>3 DEF AppendChunk
<1>9. CASE Put(whole) /\ Goto(t, "assign")
  <2>1. file' = file /\ buf' = whole
    BY <1>2, <1>9, ConcatEmptySeq DEF Put
  <2>2. \A i \in 0..ChunkSize(Chunk(t))-1 : buf'[i + 1] = Merged(t, i)
    BY <1>3, <2>1
  <2>3. "assign" \in Working
    BY DEF Working
  <2>. QED BY <1>1, <1>9, <2>1, <2>2, <2>3, SameFile, GotoDisk
<1>10. ASSUME NEW d \in {whole, head}, PutFails(d), Fail(t)
       PROVE  DiskInv' /\ DiskStep
  <2>1. d \in Seq(Values) /\ Len(d) \in Nat
    OBVIOUS
  <2>2. PICK n \in 0..Len(d)-1 :
          file' = Overwrite(file, at, SubSeq(buf \o d, 1, Len(buf) + n))
    BY <1>10 DEF PutFails
  <2>. DEFINE s == SubSeq(buf \o d, 1, Len(buf) + n)
  <2>3. Len(s) \in Nat
    <3>1. Len(buf) = 0 /\ buf \o d = d /\ 0 + n = n /\ n \in Nat /\ n <= Len(d)
      BY <1>2, <2>1, <2>2, ConcatEmptySeq, EmptySeq
    <3>2. s = SubSeq(d, 1, n) /\ \A i \in 1..n : d[i] \in Values
      BY <2>1, <3>1
    <3>. QED BY <3>1, <3>2, SubSeqProperties
  <2>. HIDE DEF s
  <2>4. file' = Overwrite(file, at, s) /\ at >= file.len
    BY <1>2, <2>2 DEF s
  <2>5. Harmless
    BY <1>2, <2>3, <2>4, TailWrite
  <2>6. Quiet'
    BY <1>10 DEF PutFails, Quiet
  <2>. QED BY <1>1, <1>10, <2>5, <2>6, FailDisk
<1>11. CASE UnchangedStream /\ Fail(t)
  <2>1. Quiet' /\ UNCHANGED file
    BY <1>2, <1>11 DEF Quiet, UnchangedStream
  <2>. QED BY <1>1, <1>11, <2>1, SameFile, FailDisk
<1>12. CASE Put(head) /\ Fail(t)
  <2>1. Quiet' /\ UNCHANGED file
    BY <1>2, <1>12 DEF Quiet, Put
  <2>. QED BY <1>1, <1>12, <2>1, SameFile, FailDisk
<1>. QED BY <1>8, <1>9, <1>10, <1>11, <1>12

\* The chunk that was appended is in the file, and its slot in the buffer.
LEMMA AssignChunkDisk ==
  ASSUME SmallFaults, Inv, DiskInv, NEW t \in Threads, AssignChunk(t)
  PROVE  DiskInv' /\ DiskStep
<1>1. /\ th[t].pc = "assign"
      /\ th[t].pc \in Working /\ th[t].pc \notin Outside
      /\ UNCHANGED <<otype, mutex>>
  BY DEF AssignChunk, Working, Outside
<1>2. /\ th[t].op = "write" /\ Left(t) # 0 /\ Stored /\ otype # "none"
      /\ at = file.len /\ file.len >= DataStart /\ at \in Nat
      /\ Len(buf) = ChunkSize(Chunk(t))
      /\ mem[Chunk(t)] = [Assigned |-> FALSE, off_data |-> at]
      /\ \A i \in 0..ChunkSize(Chunk(t))-1 : buf[i + 1] = Merged(t, i)
      /\ th[t] \in ThreadState /\ th \in [Threads -> ThreadState]
      /\ Transferred(t)
  BY <1>1, AtWork DEF RequestInv, AppendInv, Working, TransferInv, Stored
<1>3. PICK c \in Chunks : c = Chunk(t)
  BY <1>1, <1>2, Piece
<1>4. /\ mem' = [mem EXCEPT ![c] = [Assigned |-> TRUE, off_data |-> @.off_data]]
      /\ file' = Written(Len(buf)) /\ at' = c
      /\ buf' = <<mem'[c]>> /\ Goto(t, "sync")
  BY <1>3 DEF AssignChunk, FlushFails, Flushed, SlotAddress, SmallFaults
<1>5. /\ ChunkSize(c) \in Nat \ {0} /\ file.len \in Nat /\ mem \in [Chunks -> Entry]
      /\ \A i \in 1..Len(buf) : buf[i] \in Entry \cup Values
  BY <1>2, <1>3, SlotKnown DEF Stored
<1>6. mem'[c].Assigned /\ mem'[c].off_data = at /\ \A b \in Chunks \ {c} : mem'[b] = mem[b]
  <2>1. mem'[c] = [Assigned |-> TRUE, off_data |-> mem[c].off_data]
    BY <1>4, <1>5
  <2>2. mem[c].off_data = at
    BY <1>2, <1>3
  <2>. QED BY <1>4, <1>5, <2>1, <2>2
<1>7. PICK d : d = SubSeq(buf, 1, Len(buf))
  OBVIOUS
<1>8. Len(d) = ChunkSize(c) /\ \A i \in 1..ChunkSize(c) : d[i] = buf[i]
  <2>1. PICK n \in Nat : n = Len(buf) /\ n = ChunkSize(c) /\ n # 0
    BY <1>2, <1>3, <1>5
  <2>2. Len(d) = n /\ \A i \in 1..n : d[i] = buf[i]
    BY <1>5, <1>7, <2>1, Prefix
  <2>. QED BY <2>1, <2>2
<1>9. file' = Overwrite(file, at, d)
  BY <1>4, <1>7 DEF Written
<1>10. Harmless
  BY <1>2, <1>5, <1>8, <1>9, TailWrite
<1>11. DiskContents' = DiskContents /\ \A b \in Chunks : Slot(b)' = Slot(b)
  BY <1>10, HarmlessDisk
<1>12. ASSUME NEW i \in 0..ChunkSize(c)-1
       PROVE  file'.cell[at + i] = Merged(t, i)
  <2>1. i \in Nat /\ i < Len(d) /\ Len(d) \in Nat \ {0} /\ i + 1 \in 1..ChunkSize(c)
    BY <1>5, <1>8
  <2>2. d # <<>>
    BY <2>1, EmptySeq
  <2>3. file'.cell[at + i] = d[i + 1]
    BY <1>2, <1>5, <1>9, <2>1, <2>2, OverwriteData
  <2>. QED BY <1>2, <1>3, <1>8, <2>1, <2>3
<1>13. /\ Chunk(t)' = c /\ \A i : Merged(t, i)' = Merged(t, i)
       /\ th'[t].pc = "sync"
  BY <1>1, <1>2, <1>3, <1>4, PieceKept
<1>14. NewSlot(t)'
  <2>1. ~Slot(c).Assigned
    BY <1>2, <1>3, SlotIsKnown
  <2>2. ~Slot(c)'.Assigned
    BY <1>11, <2>1
  <2>3. \A i \in 0..ChunkSize(c)-1 : file'.cell[mem'[c].off_data + i] = Merged(t, i)'
    BY <1>6, <1>12, <1>13
  <2>. QED BY <1>4, <1>6, <1>13, <2>2, <2>3 DEF NewSlot
<1>. DEFINE r == [th[t] EXCEPT !.pc = "sync"]
<1>15. th' = [th EXCEPT ![t] = r]
  BY <1>4 DEF Goto
<1>16. /\ r \in ThreadState /\ r.pc = "sync" /\ r.pc \notin Outside
       /\ r.op = th[t].op /\ r.off = th[t].off /\ r.want = th[t].want
       /\ r.data = th[t].data /\ r.done = th[t].done
  BY <1>2 DEF ThreadState, Outside
<1>. HIDE DEF r
<1>17. /\ \A s \in Threads : DiskCall(s)' = DiskCall(s)
       /\ \A s \in Threads \ {t} : TransferInv(s)'
       /\ th'[t] = r
  BY <1>1, <1>15, <1>16, GoOn
<1>18. TransferInv(t)'
  <2>1. Transferred(t)'
    BY <1>1, <1>2, <1>11, <1>16, <1>17 DEF Transferred
  <2>. QED BY <1>14, <1>16, <1>17, <2>1 DEF TransferInv
<1>19. KnownInv'
  <2>. SUFFICES ASSUME NEW b \in Chunks, mem'[b].Assigned, b # c
                PROVE  Slot(b)' = mem'[b]
    BY <1>13, <1>14 DEF KnownInv
  <2>1. \A s \in Threads : th[s].pc # "sync"
    BY <1>1, OthersOutside DEF Outside
  <2>. QED BY <1>6, <1>11, <2>1, KnownNow DEF DiskInv
<1>20. QuietInv'
  BY <1>13 DEF QuietInv
<1>21. DiskStep
  BY <1>1, <1>11, <1>17, DiskStutters
<1>. QED BY <1>17, <1>18, <1>19, <1>20, <1>21 DEF DiskInv

\* What the buffer holds reaches the file, or the first n cells of it do: the
\* piece is applied as far as it was written.
LEMMA PieceWritten ==
  ASSUME Inv, DiskInv, NEW t \in Threads, th[t].pc = "sync",
         NEW n \in 0..Len(buf), file' = Written(n)
  PROVE  /\ Disk!Apply
         /\ n = Len(buf) =>
              /\ \A i \in 1..th[t].done+Count(t) :
                   DiskContents'[DiskCell(otype, th[t].off + i - 1)] = th[t].data[i]
              /\ \A c \in Chunks : mem[c].Assigned => Slot(c)' = mem[c]
<1>1. th[t].pc \in Working /\ th[t].pc \notin Outside
  BY DEF Working, Outside
<1>2. /\ th[t].op = "write" /\ Left(t) # 0 /\ Stored /\ otype # "none"
      /\ Transferred(t) /\ (InPlace(t) \/ NewSlot(t))
  BY <1>1, AtWork DEF RequestInv, Working, TransferInv
<1>3. PICK c \in Chunks : c = Chunk(t)
  BY <1>1, <1>2, Piece
<1>4. PICK o \in Nat : o = ChunkOff(t)
  BY <1>1, <1>2, Piece
<1>5. /\ Count(t) \in Nat \ {0} /\ ChunkSize(c) \in Nat \ {0}
      /\ o + Count(t) <= ChunkSize(c)
      /\ NewData(t) \in Seq(Values) /\ Len(NewData(t)) = Count(t)
      /\ th[t].done \in Nat
  BY <1>1, <1>2, <1>3, <1>4, Piece, ChunkSizeType, CellsOfRequest
<1>6. /\ Len(buf) \in Nat /\ n \in Nat /\ n <= Len(buf)
      /\ mem \in [Chunks -> Entry]
      /\ \A i \in 1..Len(buf) : buf[i] \in Entry \cup Values
  BY <1>2 DEF Stored
<1>7. PICK d : d = SubSeq(buf, 1, n)
  OBVIOUS
<1>8. Len(d) = n /\ \A i \in 1..n : d[i] = buf[i]
  <2>1. \A i \in 1..n : buf[i] \in Entry \cup Values
    BY <1>6
  <2>. QED BY <1>6, <1>7, <2>1, Prefix
<1>9. file' = Overwrite(file, at, d)
  BY <1>7 DEF Written
<1>10. \A b \in Chunks : (mem[b].Assigned /\ b # c) => Slot(b) = mem[b]
  <2>. SUFFICES ASSUME NEW b \in Chunks, mem[b].Assigned, b # c
                PROVE  Slot(b) = mem[b]
    OBVIOUS
  <2>1. ASSUME NEW s \in Threads, th[s].pc = "sync" PROVE s = t
    BY <1>1, <2>1, OthersOutside DEF Outside
  <2>. QED BY <1>3, <2>1 DEF DiskInv, KnownInv
\* When the piece, or its first m cells, is all that changes.
<1>11. ASSUME NEW m \in 0..Count(t), n = Len(buf) => m = Count(t),
              \A b \in Chunks : \A i \in 0..ChunkSize(b)-1 :
                Contents(b, i)' = IF b = Chunk(t) /\ i \in ChunkOff(t)..ChunkOff(t)+m-1
                                  THEN NewData(t)[i - ChunkOff(t) + 1]
                                  ELSE Contents(b, i)
       PROVE  /\ Disk!Apply
              /\ n = Len(buf) =>
                   \A i \in 1..th[t].done+Count(t) :
                     DiskContents'[DiskCell(otype, th[t].off + i - 1)] = th[t].data[i]
  <2>1. /\ Disk!Apply
        /\ \A i \in 1..th[t].done :
             DiskContents'[DiskCell(otype, th[t].off + i - 1)]
               = DiskContents[DiskCell(otype, th[t].off + i - 1)]
        /\ \A i \in th[t].done+1..th[t].done+m :
             DiskContents'[DiskCell(otype, th[t].off + i - 1)] = th[t].data[i]
    BY <1>1, <1>2, <1>11, PieceApplied
  <2>2. ASSUME n = Len(buf), NEW i \in 1..th[t].done+Count(t)
        PROVE  DiskContents'[DiskCell(otype, th[t].off + i - 1)] = th[t].data[i]
    <3>1. i \in 1..th[t].done \/ i \in th[t].done+1..th[t].done+m
      BY <1>5, <1>11, <2>2
    <3>. QED BY <1>2, <2>1, <3>1 DEF Transferred
  <2>. QED BY <2>1, <2>2
<1>12. CASE InPlace(t)
  <2>1. /\ Slot(c).Assigned /\ Slot(c) = mem[c]
        /\ at = Slot(c).off_data + o /\ buf = NewData(t)
    BY <1>3, <1>4, <1>12 DEF InPlace
  <2>2. /\ n <= Count(t) /\ Len(buf) = Count(t) /\ o + Len(d) <= ChunkSize(c)
        /\ Len(d) \in Nat
        /\ file' = Overwrite(file, Slot(c).off_data + o, d)
    BY <1>5, <1>6, <1>8, <1>9, <2>1
  <2>3. /\ \A b \in Chunks : Slot(b)' = Slot(b)
        /\ \A b \in Chunks : \A i \in 0..ChunkSize(b)-1 :
             Contents(b, i)' = IF b = c /\ i \in o..o+Len(d)-1
                               THEN d[i - o + 1] ELSE Contents(b, i)
    BY <2>1, <2>2, ChunkWrite
  <2>4. \A b \in Chunks : \A i \in 0..ChunkSize(b)-1 :
          Contents(b, i)' = IF b = Chunk(t) /\ i \in ChunkOff(t)..ChunkOff(t)+n-1
                            THEN NewData(t)[i - ChunkOff(t) + 1] ELSE Contents(b, i)
    <3>1. \A i \in Nat : i \in o..o+n-1 => i - o + 1 \in 1..n
      BY <1>6
    <3>2. \A b \in Chunks : \A i \in 0..ChunkSize(b)-1 : i \in Nat
      BY ChunkSizeType
    <3>3. \A i \in 1..n : d[i] = NewData(t)[i]
      BY <1>8, <2>1
    <3>. QED BY <1>3, <1>4, <1>8, <2>3, <3>1, <3>2, <3>3
  <2>5. n \in 0..Count(t)
    BY <1>5, <1>6, <2>2
  <2>6. n = Len(buf) => n = Count(t)
    BY <2>2
  <2>7. \A b \in Chunks : mem[b].Assigned => Slot(b)' = mem[b]
    BY <1>10, <2>1, <2>3
  <2>. QED BY <1>11, <2>4, <2>5, <2>6, <2>7
<1>13. CASE NewSlot(t)
  <2>1. /\ mem[c].Assigned /\ ~Slot(c).Assigned /\ at = c /\ buf = <<mem[c]>>
        /\ \A i \in 0..ChunkSize(c)-1 : file.cell[mem[c].off_data + i] = Merged(t, i)
    BY <1>3, <1>13 DEF NewSlot
  <2>2. PICK e \in Entry : e = mem[c]
    BY <1>6
  <2>3. Len(buf) = 1 /\ buf[1] = e
    BY <2>1, <2>2
  <2>4. CASE n = 0
    <3>1. Harmless
      <4>1. at \in Nat /\ file.len >= DataStart
        BY <1>2, <2>1, <2>3, NeededBlocksType DEF Stored, StreamInv, NewHeader
      <4>. QED BY <1>8, <1>9, <2>4, <4>1, TailWrite
    <3>2. \A b \in Chunks : \A i \in 0..ChunkSize(b)-1 :
            Contents(b, i)' = IF b = Chunk(t) /\ i \in ChunkOff(t)..ChunkOff(t)+0-1
                              THEN NewData(t)[i - ChunkOff(t) + 1] ELSE Contents(b, i)
      <4>. SUFFICES ASSUME NEW b \in Chunks, NEW i \in 0..ChunkSize(b)-1
                    PROVE  /\ Contents(b, i)' = Contents(b, i)
                           /\ i \notin ChunkOff(t)..ChunkOff(t)+0-1
        OBVIOUS
      <4>1. Contents(b, i)' = Contents(b, i)
        BY <3>1 DEF Harmless, Contents
      <4>2. i \notin ChunkOff(t)..ChunkOff(t)+0-1
        BY <1>4
      <4>. QED BY <4>1, <4>2
    <3>3. 0 \in 0..Count(t) /\ n # Len(buf)
      BY <1>5, <2>3, <2>4
    <3>. QED BY <1>11, <3>2, <3>3
  <2>5. CASE n = 1
    <3>1. d = <<e>>
      <4>1. Len(d) = 1 /\ d[1] = e
        BY <1>8, <2>3, <2>5
      <4>2. d \in Seq(Entry \cup Values)
        BY <1>6, <1>7, SubSeqProperties
      <4>. QED BY <4>1, <4>2
    <3>2. /\ e.Assigned /\ e.off_data \in Nat /\ e.off_data >= DataStart
          /\ e.off_data + ChunkSize(c) <= file.len
      BY <1>2, <2>1, <2>2 DEF Stored, SoundIndex, Entry
    <3>3. file.len >= DataStart /\ file' = Overwrite(file, c, <<e>>)
      <4>1. file.len \in Nat /\ DataStart \in Nat
        BY SlotKnown
      <4>. QED BY <1>5, <1>9, <2>1, <3>1, <3>2, <4>1
    <3>4. /\ \A b \in Chunks : Slot(b)' = IF b = c THEN e ELSE Slot(b)
          /\ \A b \in Chunks : \A i \in 0..ChunkSize(b)-1 :
               Contents(b, i)' = IF b = c THEN file.cell[e.off_data + i]
                                 ELSE Contents(b, i)
      BY <2>1, <3>2, <3>3, SlotWrite
    <3>5. ASSUME NEW b \in Chunks, NEW i \in 0..ChunkSize(b)-1
          PROVE  Contents(b, i)' = IF b = Chunk(t) /\ i \in ChunkOff(t)..ChunkOff(t)+Count(t)-1
                                   THEN NewData(t)[i - ChunkOff(t) + 1]
                                   ELSE Contents(b, i)
      <4>1. CASE b # c
        BY <1>3, <3>4, <4>1
      <4>2. CASE b = c
        <5>1. Contents(b, i)' = Merged(t, i)
          BY <2>1, <2>2, <3>4, <4>2
        <5>2. Contents(b, i) = Original(c, i)
          BY <2>1, <4>2 DEF Contents
        <5>. QED BY <1>3, <4>2, <5>1, <5>2 DEF Merged
      <4>. QED BY <4>1, <4>2
    <3>6. Count(t) \in 0..Count(t)
      BY <1>5
    <3>7. \A b \in Chunks : mem[b].Assigned => Slot(b)' = mem[b]
      BY <1>10, <2>2, <3>4
    <3>. QED BY <1>11, <3>5, <3>6, <3>7
  <2>. QED BY <1>6, <2>3, <2>4, <2>5
<1>. QED BY <1>2, <1>12, <1>13

\* The final fflush: the piece is on the disk.
LEMMA SyncDisk ==
  ASSUME SmallFaults, Inv, DiskInv, NEW t \in Threads, Sync(t)
  PROVE  DiskInv' /\ DiskStep
<1>1. /\ th[t].pc = "sync"
      /\ th[t].pc \in Working /\ th[t].pc \notin Outside
      /\ UNCHANGED <<mem, otype, mutex>>
      /\ file' = Written(Len(buf)) /\ buf' = <<>>
  BY DEF Sync, SyncStream, Flush, FlushFails, SmallFaults, SeekTo, Flushed, Working, Outside
<1>2. /\ th[t].op = "write" /\ Left(t) # 0 /\ Stored
      /\ th[t] \in ThreadState /\ th \in [Threads -> ThreadState]
  BY <1>1, AtWork DEF RequestInv, Working
<1>3. Len(buf) \in 0..Len(buf)
  BY <1>2 DEF Stored
<1>4. /\ Disk!Apply
      /\ \A i \in 1..th[t].done+Count(t) :
           DiskContents'[DiskCell(otype, th[t].off + i - 1)] = th[t].data[i]
      /\ \A c \in Chunks : mem[c].Assigned => Slot(c)' = mem[c]
  BY <1>1, <1>3, PieceWritten
<1>. DEFINE r == [th[t] EXCEPT !.pc = "piece", !.done = @ + Count(t)]
<1>5. th' = [th EXCEPT ![t] = r]
  BY <1>2 DEF Sync
<1>6. /\ r \in ThreadState /\ r.pc = "piece" /\ r.pc \notin Outside
      /\ r.op = th[t].op /\ r.off = th[t].off /\ r.want = th[t].want
      /\ r.data = th[t].data /\ r.done = th[t].done + Count(t)
  <2>1. th[t].done + Count(t) \in Nat
    BY <1>1, <1>2, CellsOfPiece, CellsOfRequest
  <2>. QED BY <1>2, <2>1 DEF ThreadState, Outside
<1>. HIDE DEF r
<1>7. /\ \A s \in Threads : DiskCall(s)' = DiskCall(s)
      /\ \A s \in Threads \ {t} : TransferInv(s)'
      /\ th'[t] = r
  BY <1>1, <1>5, <1>6, GoOn
<1>8. TransferInv(t)'
  <2>1. Transferred(t)'
    BY <1>1, <1>2, <1>4, <1>6, <1>7 DEF Transferred
  <2>. QED BY <1>6, <1>7, <2>1 DEF TransferInv
<1>9. KnownInv'
  BY <1>1, <1>4 DEF KnownInv
<1>10. QuietInv'
  BY <1>1 DEF QuietInv, Quiet
<1>11. Disk!ApplyOnly
  <2>1. Calls' = Calls /\ mutex' = mutex
    BY <1>1, <1>7 DEF Calls
  <2>. QED BY <1>4, <2>1 DEF Disk!ApplyOnly, Calls
<1>12. DiskStep
  BY <1>11 DEF DiskStep, Disk!Next
<1>. QED BY <1>7, <1>8, <1>9, <1>10, <1>12 DEF DiskInv

-----------------------------------------------------------------------------
(* Requests and answers                                                    *)

LEMMA CallsExcept ==
  ASSUME NEW t \in Threads, \A s \in Threads \ {t} : DiskCall(s)' = DiskCall(s),
         NEW x, DiskCall(t)' = x
  PROVE  Calls' = [Calls EXCEPT ![t] = x] /\ Calls'[t] = x /\ Calls[t] = DiskCall(t)
BY DEF Calls

\* A step that leaves file, stream and index alone.
LEMMA StillDisk ==
  ASSUME DiskInv, Quiet, \A s \in Threads : th[s].pc # "sync",
         UNCHANGED <<file, at, buf, mem>>, \A s \in Threads : TransferInv(s)'
  PROVE  DiskInv'
<1>1. \A c \in Chunks : Slot(c)' = Slot(c)
  BY DEF Slot
<1>2. KnownInv'
  BY <1>1, KnownNow DEF DiskInv, KnownInv
<1>3. QuietInv'
  BY QuietStays DEF QuietInv
<1>. QED BY <1>2, <1>3 DEF DiskInv

\* The request is answered.
LEMMA AnswerDisk ==
  ASSUME Inv, DiskInv, NEW t \in Threads, Answer(t)
  PROVE  DiskInv' /\ DiskStep
<1>. DEFINE d == IF th[t].op = "read" /\ th[t].ok THEN th[t].data ELSE <<>>
            r == [IdleThread EXCEPT !.pc = "answered", !.op = th[t].op,
                                    !.ok = th[t].ok, !.data = d]
<1>1. /\ th[t].pc \notin Outside /\ th[t].pc \notin {"assign", "sync"}
      /\ th[t].pc \notin {"idle", "answered"}
      /\ mutex' = NoThread
      /\ th' = [th EXCEPT ![t] = r]
      /\ UNCHANGED <<file, at, buf, mem, otype>>
  BY DEF Answer, Outside
<1>2. /\ th \in [Threads -> ThreadState] /\ th[t] \in ThreadState /\ mutex = t
  BY <1>1, Inside
<1>3. /\ r.pc = "answered" /\ r.op = th[t].op /\ r.ok = th[t].ok
      /\ (th[t].op = "read" /\ th[t].ok) => r.data = th[t].data
  BY DEF IdleThread
<1>. HIDE DEF r
<1>4. th'[t] = r /\ \A s \in Threads \ {t} : th'[s] = th[s]
  BY <1>1, <1>2
<1>5. ASSUME NEW s \in Threads \ {t}
      PROVE  DiskCall(s)' = DiskCall(s) /\ TransferInv(s)'
  BY <1>1, <1>2, <1>4, OthersOutside, CallStays, OutsideTransfer
<1>6. TransferInv(t)'
  BY <1>3, <1>4, OutsideTransfer DEF Outside
<1>7. DiskInv'
  BY <1>1, <1>5, <1>6, QuietNow, StillDisk
<1>8. DiskContents' = DiskContents
  BY <1>1, SameFile, HarmlessDisk
<1>9. CallShape /\ CallShape'
  BY CallShapes, PTL
<1>10. ASSUME th[t].ok
       PROVE  /\ th[t].pc \in Working /\ Transferred(t) /\ th[t].done = th[t].want
              /\ th[t].want \in Nat /\ th[t].data \in Seq(Values)
              /\ RequestSize(t) = th[t].want
              /\ \A i \in 1..th[t].want :
                   DiskContents[RequestCells(t)[i]] = th[t].data[i]
              /\ th[t].op = "read" => Len(th[t].data) = th[t].want
              /\ th[t].op = "write" => Len(th[t].data) = th[t].want
  <2>1. th[t].pc = "piece" /\ Left(t) = 0
    BY <1>10 DEF Answer, DiskInv, TransferInv
  <2>2. th[t].pc \in Working
    BY <2>1 DEF Working
  <2>3. /\ th[t].want \in Nat /\ th[t].done \in Nat /\ th[t].data \in Seq(Values)
        /\ RequestSize(t) = th[t].want /\ Transferred(t) /\ RequestInv(t)
    BY <2>2, CellsOfRequest, AtWork
  <2>4. th[t].done = th[t].want
    BY <2>1, <2>3 DEF Left
  <2>5. \A i \in 1..th[t].want : DiskContents[RequestCells(t)[i]] = th[t].data[i]
    BY <2>3, <2>4 DEF RequestCells, Transferred
  <2>. QED BY <2>2, <2>3, <2>4, <2>5 DEF Transferred, RequestInv
<1>11. CASE th[t].op = "write"
  <2>1. PICK ok \in BOOLEAN : ok = th[t].ok
    BY <1>2 DEF ThreadState
  <2>2. DiskCall(t)' = [state |-> "done", ok |-> ok]
    BY <1>3, <1>4, <1>9, <1>11, <2>1 DEF CallShape
  <2>3. Calls' = [Calls EXCEPT ![t] = [state |-> "done", ok |-> ok]]
    BY <1>5, <2>2, CallsExcept
  <2>4. /\ Calls[t].op = "write" /\ Calls[t].cells = RequestCells(t)
        /\ Calls[t].data = SubSeq(th[t].data, 1, RequestSize(t))
    <3>1. DiskCall(t) = PendingWrite(t)
      BY <1>1, <1>9, <1>11 DEF CallShape
    <3>2. Calls[t] = PendingWrite(t)
      BY <3>1 DEF Calls
    <3>3. /\ PendingWrite(t).op = "write" /\ PendingWrite(t).cells = RequestCells(t)
          /\ PendingWrite(t).data = SubSeq(th[t].data, 1, RequestSize(t))
      BY DEF PendingWrite
    <3>. QED BY <3>2, <3>3
  <2>5. ASSUME ok
        PROVE  \A i \in 1..Len(Calls[t].cells) :
                 DiskContents[Calls[t].cells[i]] = Calls[t].data[i]
    <3>1. PICK n \in Nat : n = th[t].want
      BY <1>10, <2>1, <2>5
    <3>2. Len(RequestCells(t)) = n /\ RequestSize(t) = n
      BY <1>10, <2>1, <2>5, <3>1 DEF RequestCells
    <3>3. \A i \in 1..n : SubSeq(th[t].data, 1, n)[i] = th[t].data[i]
      <4>1. \A i \in 1..n : th[t].data[i] \in Values
        BY <1>10, <1>11, <2>1, <2>5, <3>1
      <4>. QED BY <4>1, Prefix
    <3>. QED BY <1>10, <2>1, <2>4, <2>5, <3>1, <3>2, <3>3
  <2>6. Disk!AnswerWrite(t)
    BY <1>1, <1>2, <1>8, <2>1, <2>3, <2>4, <2>5 DEF Disk!AnswerWrite, Calls
  <2>. QED BY <1>7, <2>6 DEF DiskStep, Disk!Next
<1>12. CASE th[t].op = "read"
  <2>1. Calls[t] = PendingRead(t)
    <3>1. DiskCall(t) = PendingRead(t)
      BY <1>1, <1>9, <1>12 DEF CallShape
    <3>. QED BY <3>1 DEF Calls
  <2>2. Calls[t].op = "read" /\ Calls[t].cells = RequestCells(t)
    BY <2>1 DEF PendingRead
  <2>3. CASE ~th[t].ok
    <3>1. th[t].ok = FALSE
      BY <1>2, <2>3 DEF ThreadState
    <3>2. DiskCall(t)' = [state |-> "done", ok |-> FALSE]
      BY <1>3, <1>4, <1>9, <3>1 DEF CallShape
    <3>3. Calls' = [Calls EXCEPT ![t] = [state |-> "done", ok |-> FALSE]]
      BY <1>5, <3>2, CallsExcept
    <3>4. Disk!AnswerRead(t)
      BY <1>1, <1>2, <1>8, <2>2, <3>3 DEF Disk!AnswerRead, Calls
    <3>. QED BY <1>7, <3>4 DEF DiskStep, Disk!Next
  <2>4. CASE th[t].ok
    <3>. DEFINE read == [i \in 1..Len(RequestCells(t)) |-> DiskContents[RequestCells(t)[i]]]
    <3>1. th[t].data = read
      <4>1. PICK n \in Nat : n = th[t].want
        BY <1>10, <2>4
      <4>2. Len(RequestCells(t)) = n
        BY <1>10, <2>4, <4>1 DEF RequestCells
      <4>3. th[t].data \in Seq(Values) /\ Len(th[t].data) = n
        BY <1>10, <1>12, <2>4, <4>1
      <4>4. \A i \in 1..n : DiskContents[RequestCells(t)[i]] = th[t].data[i]
        BY <1>10, <2>4, <4>1
      <4>5. th[t].data = [i \in 1..n |-> th[t].data[i]]
        BY <4>3
      <4>6. read = [i \in 1..n |-> th[t].data[i]]
        BY <4>2, <4>4
      <4>. QED BY <4>5, <4>6
    <3>. HIDE DEF read
    <3>2. DiskCall(t)' = [state |-> "done", ok |-> TRUE, data |-> read]
      BY <1>3, <1>4, <1>9, <1>12, <2>4, <3>1 DEF CallShape
    <3>3. Calls' = [Calls EXCEPT ![t] = [state |-> "done", ok |-> TRUE, data |-> read]]
      BY <1>5, <3>2, CallsExcept
    <3>4. Disk!AnswerRead(t)
      BY <1>1, <1>2, <1>8, <2>2, <3>3 DEF Disk!AnswerRead, Calls, read
    <3>. QED BY <1>7, <3>4 DEF DiskStep, Disk!Next
  <2>. QED BY <1>2, <2>3, <2>4 DEF ThreadState
<1>. QED BY <1>2, <1>11, <1>12 DEF ThreadState

\* A thread that does not move goes on with what it was doing when nothing but
\* the mutex changes.
LEMMA TransferStays ==
  ASSUME NEW s \in Threads, th'[s] = th[s], UNCHANGED <<file, at, buf, mem, otype>>
  PROVE  /\ TransferInv(s)' <=> TransferInv(s)
         /\ NewSlot(s)' <=> NewSlot(s)
         /\ Chunk(s)' = Chunk(s)
<1>1. /\ Chunk(s)' = Chunk(s) /\ ChunkOff(s)' = ChunkOff(s)
      /\ Left(s)' = Left(s)
  BY DEF Chunk, ChunkOff, Left
<1>2. Count(s)' = Count(s)
  BY <1>1 DEF Count
<1>3. NewData(s)' = NewData(s)
  BY <1>2 DEF NewData
<1>4. \A i : Merged(s, i)' = Merged(s, i)
  BY <1>1, <1>2, <1>3 DEF Merged
<1>5. DiskContents' = DiskContents
  BY SameFile, HarmlessDisk
<1>6. Slot(Chunk(s))' = Slot(Chunk(s))
  BY <1>1 DEF Slot
<1>7. InPlace(s)' <=> InPlace(s)
  BY <1>1, <1>3, <1>6 DEF InPlace
<1>8. NewSlot(s)' <=> NewSlot(s)
  BY <1>1, <1>4, <1>6 DEF NewSlot
<1>9. Transferred(s)' <=> Transferred(s)
  BY <1>5 DEF Transferred
<1>. QED BY <1>1, <1>4, <1>7, <1>8, <1>9 DEF TransferInv

LEMMA ClippedType ==
  ASSUME otype \in {"dd", "vdi", "vhd"}, NEW off \in Nat, NEW want \in Nat
  PROVE  /\ Clipped(off, want) \in Nat /\ Clipped(off, want) <= want
         /\ \A i \in 1..Clipped(off, want) :
              /\ off + i - 1 \in Nat
              /\ off + i - 1 < VirtImageSize(otype)
              /\ DiskCell(otype, off + i - 1) \in DiskCells
         /\ Clipped(off, Clipped(off, want)) = Clipped(off, want)
<1>1. VirtImageSize(otype) \in Nat
  BY SizesAssumption DEF VirtImageSize
<1>2. /\ Clipped(off, want) \in Nat /\ Clipped(off, want) <= want
      /\ Clipped(off, Clipped(off, want)) = Clipped(off, want)
      /\ Clipped(off, want) # 0 => off + Clipped(off, want) <= VirtImageSize(otype)
  BY <1>1 DEF Clipped, Least
<1>3. ASSUME NEW i \in 1..Clipped(off, want)
      PROVE  /\ off + i - 1 \in Nat
             /\ off + i - 1 < VirtImageSize(otype)
  BY <1>1, <1>2, <1>3
<1>4. ASSUME NEW i \in 1..Clipped(off, want)
      PROVE  DiskCell(otype, off + i - 1) \in DiskCells
  BY <1>3, DiskCellType
<1>. QED BY <1>2, <1>3, <1>4

\* A request is delivered.
LEMMA RequestDisk ==
  ASSUME Inv, DiskInv, NEW t \in Threads, NEW op \in {"read", "write"},
         NEW off \in Nat, NEW want \in Nat, NEW data \in Seq(Values),
         op = "write" => Len(data) = want,
         Request(t, op, off, want, data)
  PROVE  DiskInv' /\ DiskStep
<1>. DEFINE r == [IdleThread EXCEPT !.pc = "called", !.op = op, !.off = off,
                                    !.want = want, !.data = data]
<1>1. /\ otype # "none"
      /\ th[t].pc \in {"idle", "answered"}
      /\ th' = [th EXCEPT ![t] = r]
      /\ UNCHANGED <<file, at, buf, mem, otype, mutex>>
  BY DEF Request
<1>2. /\ th \in [Threads -> ThreadState] /\ otype \in {"dd", "vdi", "vhd"}
  BY <1>1, RunningInv, RequestsAssumption
<1>3. /\ r.pc = "called" /\ r.op = op /\ r.off = off /\ r.want = want
      /\ r.data = data
  BY DEF IdleThread
<1>. HIDE DEF r
<1>4. th'[t] = r /\ \A s \in Threads \ {t} : th'[s] = th[s]
  BY <1>1, <1>2
<1>5. DiskContents' = DiskContents /\ \A c \in Chunks : Slot(c)' = Slot(c)
  BY <1>1, SameFile, HarmlessDisk
<1>6. ASSUME NEW s \in Threads
      PROVE  /\ TransferInv(s)'
             /\ th'[s].pc \in {"assign", "sync"} <=> th[s].pc \in {"assign", "sync"}
             /\ s # t => /\ DiskCall(s)' = DiskCall(s)
                         /\ th'[s] = th[s]
                         /\ NewSlot(s)' <=> NewSlot(s)
                         /\ Chunk(s)' = Chunk(s)
  <2>1. CASE s = t
    BY <1>1, <1>3, <1>4, <2>1, OutsideTransfer DEF Outside
  <2>2. CASE s # t
    <3>1. th'[s] = th[s] /\ th[s] \in ThreadState /\ TransferInv(s)
      BY <1>2, <1>4, <2>2 DEF DiskInv
    <3>. QED BY <1>1, <3>1, CallStays, TransferStays
  <2>. QED BY <2>1, <2>2
<1>7. KnownInv'
  <2>. SUFFICES ASSUME NEW c \in Chunks, mem'[c].Assigned
                PROVE  \/ Slot(c)' = mem'[c]
                       \/ \E s \in Threads : th'[s].pc = "sync" /\ NewSlot(s)' /\ c = Chunk(s)'
    BY DEF KnownInv
  <2>1. CASE Slot(c) = mem[c]
    BY <1>1, <1>5, <2>1
  <2>2. ASSUME NEW s \in Threads, th[s].pc = "sync", NewSlot(s), c = Chunk(s)
        PROVE  th'[s].pc = "sync" /\ NewSlot(s)' /\ c = Chunk(s)'
    <3>1. s # t
      BY <1>1, <2>2
    <3>. QED BY <1>6, <2>2, <3>1
  <2>. QED BY <1>1, <2>1, <2>2 DEF DiskInv, KnownInv
<1>8. QuietInv'
  <2>1. Quiet => Quiet'
    BY <1>1, QuietStays
  <2>. QED BY <1>6, <2>1 DEF DiskInv, QuietInv
<1>9. DiskInv'
  BY <1>6, <1>7, <1>8 DEF DiskInv
<1>10. CallShape /\ CallShape'
  BY CallShapes, PTL
<1>11. Calls[t].state # "pending"
  <2>1. DiskCall(t).state = "none" \/ DiskCall(t).state = "done"
    <3>1. CASE th[t].pc = "idle"
      BY <1>10, <3>1 DEF CallShape
    <3>2. CASE th[t].pc = "answered" /\ (th[t].op = "write" \/ ~th[t].ok)
      BY <1>10, <3>2 DEF CallShape
    <3>3. CASE th[t].pc = "answered" /\ th[t].op = "read" /\ th[t].ok
      BY <1>10, <3>3 DEF CallShape
    <3>. QED BY <1>1, <1>2, <3>1, <3>2, <3>3 DEF ThreadState
  <2>. QED BY <2>1 DEF Calls
<1>12. PICK n \in Nat : n = Clipped(off, want)
  BY <1>2, ClippedType
<1>13. RequestSize(t)' = n
  BY <1>1, <1>3, <1>4, <1>12 DEF RequestSize, Clipped, VirtImageSize
<1>14. PICK cells \in Seq(DiskCells) : cells = RequestCells(t)'
  <2>1. RequestCells(t)' = [i \in 1..n |-> DiskCell(otype, off + i - 1)]
    BY <1>1, <1>3, <1>4, <1>13 DEF RequestCells
  <2>2. \A i \in 1..n : DiskCell(otype, off + i - 1) \in DiskCells
    BY <1>2, <1>12, ClippedType
  <2>3. PICK f : f = [i \in 1..n |-> DiskCell(otype, off + i - 1)]
    OBVIOUS
  <2>4. f \in [1..n -> DiskCells]
    BY <2>2, <2>3
  <2>5. f \in Seq(DiskCells)
    BY <2>4
  <2>. QED BY <2>1, <2>3, <2>5
<1>15. DiskCall(t)' \in Disk!Pending
  <2>1. CASE op = "read"
    <3>1. DiskCall(t)' = PendingRead(t)'
      BY <1>3, <1>4, <1>10, <2>1 DEF CallShape
    <3>2. PendingRead(t)' = [state |-> "pending", op |-> "read", cells |-> cells]
      BY <1>14 DEF PendingRead
    <3>. QED BY <3>1, <3>2 DEF Disk!Pending
  <2>2. CASE op = "write"
    <3>1. DiskCall(t)' = PendingWrite(t)'
      BY <1>3, <1>4, <1>10, <2>2 DEF CallShape
    <3>2. PICK cut \in Seq(Values) : cut = SubSeq(data, 1, n)
      <4>1. n <= Len(data) /\ Len(data) \in Nat
        BY <1>2, <1>12, <2>2, ClippedType
      <4>2. \A i \in 1..n : data[i] \in Values
        BY <4>1
      <4>. QED BY <4>2, Prefix
    <3>3. PendingWrite(t)' = [state |-> "pending", op |-> "write", cells |-> cells,
                              data |-> cut]
      BY <1>3, <1>4, <1>13, <1>14, <3>2 DEF PendingWrite
    <3>. QED BY <3>1, <3>3 DEF Disk!Pending
  <2>. QED BY <2>1, <2>2
<1>16. PICK x \in Disk!Pending : x = DiskCall(t)'
  BY <1>15
<1>17. Calls' = [Calls EXCEPT ![t] = x] /\ Calls'[t] = x
  BY <1>6, <1>16, CallsExcept
<1>18. Disk!Start(t)
  BY <1>1, <1>5, <1>11, <1>16, <1>17 DEF Disk!Start, Calls
<1>. QED BY <1>9, <1>18 DEF DiskStep, Disk!Next

LEMMA RequestReadDisk ==
  ASSUME Inv, DiskInv, NEW t \in Threads, RequestRead(t)
  PROVE  DiskInv' /\ DiskStep
<1>1. PICK off \in 0..VirtImageSize(otype), n \in ReadSizes :
        Request(t, "read", off, n, <<>>)
  BY DEF RequestRead
<1>2. otype \in OutputTypes
  BY <1>1, RunningInv DEF Request
<1>3. off \in Nat /\ n \in Nat /\ <<>> \in Seq(Values)
  BY <1>2, VirtImageSizeType, RequestsAssumption
<1>. QED BY <1>1, <1>3, RequestDisk

LEMMA RequestWriteDisk ==
  ASSUME Inv, DiskInv, NEW t \in Threads, RequestWrite(t)
  PROVE  DiskInv' /\ DiskStep
<1>1. PICK off \in 0..VirtImageSize(otype), data \in Payloads :
        Request(t, "write", off, Len(data), data)
  BY DEF RequestWrite
<1>2. otype \in OutputTypes
  BY <1>1, RunningInv DEF Request
<1>3. off \in Nat /\ data \in Seq(Values) /\ Len(data) \in Nat
  BY <1>2, VirtImageSizeType, RequestsAssumption
<1>. QED BY <1>1, <1>3, RequestDisk

\* A request becomes the one that is served; cutting it at the end of the
\* virtual file does not change which cells it covers.
LEMMA LockDisk ==
  ASSUME Inv, DiskInv, NEW t \in Threads, Lock(t)
  PROVE  DiskInv' /\ DiskStep
<1>1. PICK want : want = Clipped(th[t].off, th[t].want)
  OBVIOUS
<1>2. PICK n : n = IF th[t].op = "write" THEN want ELSE 0
  OBVIOUS
<1>. DEFINE r == [th[t] EXCEPT !.pc = "piece", !.want = want,
                               !.data = SubSeq(@, 1, n)]
<1>3. /\ th[t].pc = "called" /\ mutex = NoThread /\ mutex' = t
      /\ th' = [th EXCEPT ![t].pc = "piece", ![t].want = want,
                          ![t].data = SubSeq(@, 1, n)]
      /\ UNCHANGED <<file, at, buf, mem, otype>>
  BY <1>1, <1>2 DEF Lock, MutexFree
<1>4. /\ otype # "none" /\ otype \in {"dd", "vdi", "vhd"}
      /\ th \in [Threads -> ThreadState] /\ th[t] \in ThreadState
      /\ \A s \in Threads : RequestInv(s)
  BY <1>3, Running, RunningInv
<1>5. /\ th[t].off \in Nat /\ th[t].want \in Nat /\ th[t].data \in Seq(Values)
      /\ th[t].op \in {"read", "write"} /\ th[t].done = 0
      /\ th[t].op = "write" => Len(th[t].data) = th[t].want
  BY <1>3, <1>4 DEF ThreadState, RequestInv
<1>6. /\ want \in Nat /\ want <= th[t].want
      /\ Clipped(th[t].off, want) = want
      /\ n \in Nat
  BY <1>1, <1>2, <1>4, <1>5, ClippedType
<1>7. PICK cut \in Seq(Values) :
        cut = SubSeq(th[t].data, 1, n) /\ Len(cut) = n
  <2>1. \A i \in 1..n : th[t].data[i] \in Values
    <3>1. CASE th[t].op = "write"
      <4>1. \A i \in 1..n : i \in 1..Len(th[t].data)
        BY <1>2, <1>5, <1>6, <3>1
      <4>. QED BY <1>5, <4>1
    <3>2. CASE th[t].op = "read"
      <4>1. n = 0
        BY <1>2, <3>2
      <4>. QED BY <4>1
    <3>. QED BY <1>5, <3>1, <3>2
  <2>. QED BY <1>6, <2>1, Prefix
<1>8. th' = [th EXCEPT ![t] = r]
  BY <1>3, <1>4
<1>9. /\ r.pc = "piece" /\ r.want = want /\ r.data = cut
      /\ r.op = th[t].op /\ r.off = th[t].off /\ r.done = 0
  BY <1>4, <1>5, <1>7 DEF ThreadState
<1>. HIDE DEF r
<1>10. th'[t] = r /\ \A s \in Threads \ {t} : th'[s] = th[s]
  BY <1>4, <1>8
<1>11. ASSUME NEW s \in Threads PROVE th[s].pc \in Outside
  BY <1>3, <1>4, ThreadsAssumption DEF RequestInv, Outside
<1>12. ASSUME NEW s \in Threads \ {t}
       PROVE  DiskCall(s)' = DiskCall(s) /\ TransferInv(s)'
  BY <1>3, <1>4, <1>10, <1>11, CallStays, OutsideTransfer
<1>13. TransferInv(t)'
  <2>1. Transferred(t)'
    <3>1. th[t].op = "read" => Len(cut) = 0
      BY <1>2, <1>7
    <3>. QED BY <1>9, <1>10, <3>1 DEF Transferred
  <2>. QED BY <1>9, <1>10, <2>1 DEF TransferInv
<1>14. Quiet /\ \A s \in Threads : th[s].pc # "sync"
  BY <1>11 DEF Outside, DiskInv, QuietInv
<1>15. DiskInv'
  BY <1>3, <1>12, <1>13, <1>14, StillDisk
<1>16. DiskContents' = DiskContents
  BY <1>3, SameFile, HarmlessDisk
<1>17. CallShape /\ CallShape'
  BY CallShapes, PTL
<1>18. RequestSize(t) = want /\ RequestSize(t)' = want
  <2>1. RequestSize(t) = want
    BY <1>1 DEF RequestSize
  <2>2. RequestSize(t)' = Clipped(th[t].off, want)
    BY <1>3, <1>9, <1>10 DEF RequestSize, Clipped, VirtImageSize
  <2>. QED BY <1>6, <2>1, <2>2
<1>19. RequestCells(t)' = RequestCells(t)
  BY <1>3, <1>9, <1>10, <1>18 DEF RequestCells
<1>20. DiskCall(t)' = DiskCall(t)
  <2>1. CASE th[t].op = "read"
    <3>1. DiskCall(t) = PendingRead(t) /\ DiskCall(t)' = PendingRead(t)'
      BY <1>3, <1>9, <1>10, <1>17, <2>1 DEF CallShape
    <3>. QED BY <1>19, <3>1 DEF PendingRead
  <2>2. CASE th[t].op = "write"
    <3>1. DiskCall(t) = PendingWrite(t) /\ DiskCall(t)' = PendingWrite(t)'
      BY <1>3, <1>9, <1>10, <1>17, <2>2 DEF CallShape
    <3>2. SubSeq(th[t].data, 1, RequestSize(t)) = cut
      BY <1>2, <1>7, <1>18, <2>2
    <3>3. SubSeq(th'[t].data, 1, RequestSize(t)') = cut
      <4>1. Len(cut) = want
        BY <1>2, <1>7, <2>2
      <4>2. SubSeq(cut, 1, want) = cut
        BY <4>1, SubSeqFull
      <4>. QED BY <1>9, <1>10, <1>18, <4>2
    <3>. QED BY <1>19, <3>1, <3>2, <3>3 DEF PendingWrite
  <2>. QED BY <1>5, <2>1, <2>2
<1>21. Calls[t].state = "pending"
  <2>1. DiskCall(t) = PendingRead(t) \/ DiskCall(t) = PendingWrite(t)
    BY <1>3, <1>5, <1>17 DEF CallShape
  <2>2. PendingRead(t).state = "pending" /\ PendingWrite(t).state = "pending"
    BY DEF PendingRead, PendingWrite
  <2>. QED BY <2>1, <2>2 DEF Calls
<1>22. Calls' = Calls
  BY <1>12, <1>20 DEF Calls
<1>23. Disk!Serve(t)
  BY <1>3, <1>16, <1>21, <1>22 DEF Disk!Serve, Calls
<1>. QED BY <1>15, <1>23 DEF DiskStep, Disk!Next

-----------------------------------------------------------------------------
(* Start and end of the program                                            *)

\* Between two runs of the program, and at the start of one.
LEMMA AtRest ==
  ASSUME th' = IdleThreads, Quiet',
         \A c \in Chunks : mem'[c].Assigned => Slot(c)' = mem'[c]
  PROVE  DiskInv'
<1>1. \A t \in Threads : th'[t].pc = "idle"
  BY IdleThreadsType
<1>2. \A t \in Threads : TransferInv(t)'
  BY <1>1, OutsideTransfer DEF Outside
<1>3. KnownInv'
  BY DEF KnownInv
<1>4. QuietInv'
  BY DEF QuietInv
<1>. QED BY <1>2, <1>3, <1>4 DEF DiskInv

NoCalls == th = IdleThreads => \A t \in Threads : DiskCall(t) = Disk!NoCall

LEMMA IdleCalls == NoCalls
BY CallShapes, IdleThreadsType DEF CallShape, NoCalls, Disk!NoCall

\* The program ends: a write that was under way may be on the disk in part, and
\* everything else is there.
LEMMA EndedDisk ==
  ASSUME Inv, DiskInv, NEW n \in 0..Len(buf), Ended(n)
  PROVE  DiskInv' /\ DiskStep
<1>1. /\ otype # "none" /\ file' = Written(n) /\ buf' = <<>> /\ mem' = EmptyIndex
      /\ mutex' = NoThread /\ th' = IdleThreads
  BY DEF Ended
<1>2. DiskInv'
  BY <1>1, AtRest, EmptyIndexType DEF Quiet
<1>3. DiskContents' = DiskContents \/ Disk!Apply
  <2>1. ASSUME NEW t \in Threads, th[t].pc = "sync" PROVE Disk!Apply
    BY <1>1, <2>1, PieceWritten
  <2>2. ASSUME NEW t \in Threads, th[t].pc = "assign" PROVE Harmless
    <3>1. /\ th[t].pc \in Working
          /\ Stored /\ at = file.len /\ file.len >= DataStart
      BY <2>2, AtWork DEF Working, AppendInv
    <3>2. PICK d : d = SubSeq(buf, 1, n)
      OBVIOUS
    <3>3. Len(d) \in Nat
      <4>1. /\ n \in Nat /\ \A i \in 1..n : buf[i] \in Entry \cup Values
        BY <3>1 DEF Stored
      <4>. QED BY <3>2, <4>1, Prefix
    <3>4. file' = Overwrite(file, at, d) /\ at \in Nat /\ at >= file.len
      BY <1>1, <3>1, <3>2 DEF Written, Stored
    <3>. QED BY <3>1, <3>3, <3>4, TailWrite
  <2>3. ASSUME \A t \in Threads : th[t].pc \notin {"assign", "sync"} PROVE Harmless
    <3>1. Quiet
      BY <2>3 DEF DiskInv, QuietInv
    <3>. QED BY <1>1, <3>1, QuietWrite
  <2>. QED BY <2>1, <2>2, <2>3, HarmlessDisk
<1>4. \A t \in Threads : DiskCall(t)' = Disk!NoCall
  <2>1. NoCalls'
    BY IdleCalls, PTL
  <2>. QED BY <1>1, <2>1 DEF NoCalls, Disk!NoCall
<1>5. Disk!Restart
  BY <1>1, <1>3, <1>4 DEF Disk!Restart
<1>. QED BY <1>2, <1>5 DEF DiskStep, Disk!Next

LEMMA UnmountDisk == ASSUME Inv, DiskInv, Unmount PROVE DiskInv' /\ DiskStep
<1>1. otype # "none" /\ Ended(Len(buf))
  BY DEF Unmount, Ended
<1>2. Len(buf) \in 0..Len(buf)
  BY <1>1, RunningInv DEF Stored
<1>. QED BY <1>1, <1>2, EndedDisk

LEMMA CrashDisk == ASSUME Inv, DiskInv, Crash PROVE DiskInv' /\ DiskStep
BY EndedDisk DEF Crash

\* A file that has no header and index yet says nothing about the disk.
NoHeader ==
  (file.len \in Nat /\ file.len < DataStart) =>
    /\ DiskContents = DiskPristine
    /\ \A c \in Chunks : ~Slot(c).Assigned

LEMMA NoHeaderYet == NoHeader
<1>. SUFFICES ASSUME file.len \in Nat, file.len < DataStart
              PROVE  /\ DiskContents = DiskPristine
                     /\ \A c \in Chunks : ~Slot(c).Assigned
  BY DEF NoHeader
<1>1. ASSUME NEW c \in Chunks PROVE ~Slot(c).Assigned
  <2>1. ~(file.len >= DataStart)
    BY NeededBlocksType
  <2>. QED BY <2>1, EmptyIndexType DEF Slot
<1>2. DiskIsContents
  BY DiskOfChunks
<1>3. ASSUME NEW p \in DiskCells PROVE DiskContents[p] = DiskPristine[p]
  BY <1>1, CellPlace DEF Contents
<1>4. DiskPristine = [p \in DiskCells |-> DiskPristine[p]]
  <2>. DEFINE F(p) == CASE p[1] = "vdi" -> VdiHeader[p[2]]
                        [] p[1] = "vhd" -> VhdFooter[p[2]]
                        [] p[1] = "image" -> Image[p[2]]
  <2>1. DiskPristine = [p \in DiskCells |-> F(p)]
    BY DEF DiskPristine
  <2>. HIDE DEF F
  <2>2. PICK g : g = DiskPristine
    OBVIOUS
  <2>3. g = [p \in DiskCells |-> g[p]]
    BY <2>1, <2>2
  <2>. QED BY <2>2, <2>3
<1>5. DiskContents = [p \in DiskCells |-> DiskContents[p]]
  BY <1>2 DEF DiskIsContents
<1>6. DiskContents = DiskPristine
  BY <1>3, <1>4, <1>5
<1>. QED BY <1>1, <1>6

\* A new cache file: the disk is the one of the input image, again if there
\* was a cache file before.
LEMMA MountNewDisk ==
  ASSUME Inv, DiskInv, MountNew
  PROVE  DiskInv' /\ DiskStep
<1>. DEFINE slots == [i \in 1..DataStart |-> EmptyIndex[i - 1]]
<1>1. /\ otype = "none" /\ at' = 0 /\ UNCHANGED <<mem, mutex, th>>
      /\ file.len = 0 \/ MayOverwrite
      /\ \/ file' = EmptyFile /\ buf' = slots
         \/ /\ \E n \in 0..DataStart-1 :
                 file' = Overwrite(EmptyFile, 0, SubSeq(slots, 1, n))
            /\ UNCHANGED buf
  BY DEF MountNew
<1>2. /\ FileTyped(file) /\ buf = <<>> /\ th = IdleThreads /\ mem = EmptyIndex
      /\ file.len \in Nat /\ DataStart \in Nat /\ DataStart >= 2
  BY <1>1, StoppedNow, NeededBlocksType DEF FileTyped
<1>3. /\ slots \in Seq(Entry) /\ Len(slots) = DataStart
      /\ \A i \in 1..DataStart : slots[i] = EmptyIndex[i - 1] /\ slots[i] \in Entry
  <2>1. \A i \in 1..DataStart : EmptyIndex[i - 1] \in Entry
    <3>. SUFFICES ASSUME NEW i \in 1..DataStart PROVE EmptyIndex[i - 1] \in Entry
      OBVIOUS
    <3>1. i - 1 \in Chunks
      BY NeededBlocksType DEF Chunks, DataStart
    <3>. QED BY <3>1, EmptyIndexType
  <2>2. slots \in [1..DataStart -> Entry]
    BY <2>1
  <2>. QED BY <1>2, <2>1, <2>2
<1>. HIDE DEF slots
<1>4. /\ file'.len \in Nat /\ file'.len < DataStart
      /\ Quiet'
  <2>1. CASE file' = EmptyFile /\ buf' = slots
    <3>1. file'.len = 0
      BY <2>1 DEF EmptyFile
    <3>2. NewHeader'
      BY <1>1, <1>3, <2>1, <3>1 DEF NewHeader
    <3>. QED BY <1>2, <3>1, <3>2 DEF Quiet
  <2>2. ASSUME NEW n \in 0..DataStart-1,
               file' = Overwrite(EmptyFile, 0, SubSeq(slots, 1, n)), UNCHANGED buf
        PROVE  file'.len \in Nat /\ file'.len < DataStart /\ Quiet'
    <3>1. PICK d : d = SubSeq(slots, 1, n)
      OBVIOUS
    <3>2. n \in Nat /\ n < DataStart /\ Len(d) = n
      <4>1. n \in Nat /\ n < DataStart /\ \A i \in 1..n : slots[i] \in Entry
        BY <1>2, <1>3
      <4>. QED BY <3>1, <4>1, Prefix
    <3>3. /\ file'.len = IF d # <<>> /\ 0 + Len(d) > EmptyFile.len
                         THEN 0 + Len(d) ELSE EmptyFile.len
          /\ EmptyFile.len = 0
      BY <2>2, <3>1 DEF Overwrite, EmptyFile
    <3>4. file'.len \in Nat /\ file'.len < DataStart
      BY <1>2, <3>2, <3>3
    <3>. QED BY <1>2, <2>2, <3>4 DEF Quiet
  <2>. QED BY <1>1, <2>1, <2>2
<1>5. DiskContents' = DiskPristine
  <2>1. NoHeader'
    BY NoHeaderYet, PTL
  <2>. QED BY <1>4, <2>1 DEF NoHeader
<1>6. DiskInv'
  BY <1>1, <1>2, <1>4, AtRest, EmptyIndexType
<1>7. /\ \A t \in Threads : DiskCall(t) = Disk!NoCall
      /\ \A t \in Threads : DiskCall(t)' = Disk!NoCall
  <2>1. NoCalls /\ NoCalls'
    BY IdleCalls, PTL
  <2>. QED BY <1>1, <1>2, <2>1 DEF NoCalls, Disk!NoCall
<1>8. CASE file.len = 0
  <2>1. DiskContents = DiskPristine
    BY <1>2, <1>8, NoHeaderYet DEF NoHeader
  <2>. QED BY <1>1, <1>5, <1>6, <1>7, <2>1, DiskStutters
<1>9. CASE MayOverwrite
  <2>1. Calls' = Calls /\ \A t \in Threads : Calls[t] = Disk!NoCall
    BY <1>7 DEF Calls
  <2>2. Disk!Discard
    BY <1>1, <1>5, <1>9, <2>1 DEF Disk!Discard, Calls
  <2>. QED BY <1>6, <2>2 DEF DiskStep, Disk!Next
<1>. QED BY <1>1, <1>8, <1>9

\* A restarted program loads what the disk is made of.
LEMMA MountExistingDisk ==
  ASSUME Inv, DiskInv, MountExisting
  PROVE  DiskInv' /\ DiskStep
<1>1. /\ otype = "none" /\ file.len >= DataStart
      /\ UNCHANGED <<file, buf, mutex, th>>
  BY DEF MountExisting
<1>2. FileTyped(file) /\ buf = <<>> /\ th = IdleThreads
  BY <1>1, StoppedNow
<1>3. \A c \in Chunks : file.cell[c] \in Entry
  <2>. SUFFICES ASSUME NEW c \in Chunks PROVE file.cell[c] \in Entry
    OBVIOUS
  <2>1. c \in 0..file.len-1 /\ c < DataStart
    BY <1>1, <1>2, NeededBlocksType DEF Chunks, DataStart, FileTyped
  <2>. QED BY <1>2, <2>1 DEF FileTyped
<1>4. mem' = [c \in Chunks |-> file.cell[c]]
  <2>1. PICK garbage \in [{c \in Chunks : file.cell[c] \notin Entry} -> AnyEntry] :
          mem' = [c \in Chunks |-> IF c \in DOMAIN garbage THEN garbage[c]
                                   ELSE LoadedSlot(c)]
    BY DEF MountExisting
  <2>2. DOMAIN garbage = {}
    BY <1>3
  <2>. QED BY <2>1, <2>2 DEF LoadedSlot
<1>5. \A c \in Chunks : Slot(c)' = mem'[c]
  BY <1>1, <1>4 DEF Slot
<1>6. Quiet'
  BY <1>1, <1>2 DEF Quiet
<1>7. DiskInv'
  BY <1>1, <1>2, <1>5, <1>6, AtRest
<1>8. DiskContents' = DiskContents
  BY <1>1, SameFile, HarmlessDisk
<1>9. \A t \in Threads : DiskCall(t)' = DiskCall(t)
  <2>1. NoCalls /\ NoCalls'
    BY IdleCalls, PTL
  <2>. QED BY <1>1, <1>2, <2>1 DEF NoCalls, Disk!NoCall
<1>. QED BY <1>1, <1>7, <1>8, <1>9, DiskStutters

LEMMA StutterDisk ==
  ASSUME Inv, DiskInv, UNCHANGED vars
  PROVE  DiskInv' /\ DiskStep
<1>1. UNCHANGED <<file, at, buf, mem, otype, mutex, th>>
  BY DEF vars
<1>2. th \in [Threads -> ThreadState]
  BY DEF Inv, TypeOK
<1>3. DiskContents' = DiskContents /\ \A c \in Chunks : Slot(c)' = Slot(c)
  BY <1>1, SameFile, HarmlessDisk
<1>4. ASSUME NEW s \in Threads
      PROVE  /\ DiskCall(s)' = DiskCall(s) /\ TransferInv(s)'
             /\ NewSlot(s)' <=> NewSlot(s)
             /\ Chunk(s)' = Chunk(s)
  <2>1. th'[s] = th[s] /\ th[s] \in ThreadState
    BY <1>1, <1>2
  <2>. QED BY <1>1, <2>1, CallStays, TransferStays DEF DiskInv
<1>5. KnownInv'
  BY <1>1, <1>3, <1>4 DEF DiskInv, KnownInv
<1>6. QuietInv'
  BY <1>1, QuietStays DEF DiskInv, QuietInv
<1>. QED BY <1>1, <1>3, <1>4, <1>5, <1>6, DiskStutters DEF DiskInv

-----------------------------------------------------------------------------
(* The theorems                                                            *)

LEMMA InitDisk == Init => DiskInv /\ Disk!Init
<1>. SUFFICES ASSUME Init PROVE DiskInv /\ Disk!Init
  OBVIOUS
<1>1. /\ file = EmptyFile /\ buf = <<>> /\ mem = EmptyIndex
      /\ mutex = NoThread /\ th = IdleThreads
  BY DEF Init
<1>2. DiskInv
  <2>1. \A t \in Threads : th[t].pc = "idle"
    BY <1>1, IdleThreadsType
  <2>2. \A t \in Threads : TransferInv(t)
    BY <2>1 DEF TransferInv, Working
  <2>3. KnownInv
    BY <1>1, EmptyIndexType DEF KnownInv
  <2>4. QuietInv
    BY <1>1 DEF QuietInv, Quiet
  <2>. QED BY <2>2, <2>3, <2>4 DEF DiskInv
<1>3. DiskContents = DiskPristine
  <2>1. file.len \in Nat /\ file.len < DataStart
    BY <1>1, NeededBlocksType DEF EmptyFile
  <2>. QED BY <2>1, NoHeaderYet DEF NoHeader
<1>4. \A t \in Threads : DiskCall(t) = Disk!NoCall
  BY <1>1, IdleCalls DEF NoCalls
<1>. QED BY <1>1, <1>2, <1>3, <1>4 DEF Disk!Init

LEMMA NextDisk ==
  ASSUME SmallFaults, Inv, DiskInv, [Next]_vars
  PROVE  DiskInv' /\ DiskStep
<1>1. CASE MountNew
  BY <1>1, MountNewDisk
<1>2. CASE MountExisting
  BY <1>2, MountExistingDisk
<1>3. CASE MountRefused \/ UNCHANGED vars
  BY <1>3, StutterDisk DEF MountRefused
<1>4. CASE Unmount
  BY <1>4, UnmountDisk
<1>5. CASE Crash
  BY <1>5, CrashDisk
<1>6. ASSUME NEW t \in Threads, RequestRead(t)
      PROVE  DiskInv' /\ DiskStep
  BY <1>6, RequestReadDisk
<1>7. ASSUME NEW t \in Threads, RequestWrite(t)
      PROVE  DiskInv' /\ DiskStep
  BY <1>7, RequestWriteDisk
<1>8. ASSUME NEW t \in Threads, Lock(t)
      PROVE  DiskInv' /\ DiskStep
  BY <1>8, LockDisk
<1>9. ASSUME NEW t \in Threads, Serving(t)
      PROVE  DiskInv' /\ DiskStep
  <2>1. CASE ReadOriginal(t)
    BY <2>1, ReadOriginalDisk
  <2>2. CASE SeekCached(t)
    BY <2>2, SeekCachedDisk
  <2>3. CASE ReadCached(t)
    BY <2>3, ReadCachedDisk
  <2>4. CASE WriteCached(t)
    BY <2>4, WriteCachedDisk
  <2>5. CASE SeekEnd(t)
    BY <2>5, SeekEndDisk
  <2>6. CASE AppendChunk(t)
    BY <2>6, AppendChunkDisk
  <2>7. CASE AssignChunk(t)
    BY <2>7, AssignChunkDisk
  <2>8. CASE Sync(t)
    BY <2>8, SyncDisk
  <2>9. CASE Answer(t)
    BY <2>9, AnswerDisk
  <2>. QED BY <1>9, <2>1, <2>2, <2>3, <2>4, <2>5, <2>6, <2>7, <2>8, <2>9 DEF Serving
<1>. QED BY <1>1, <1>2, <1>3, <1>4, <1>5, <1>6, <1>7, <1>8, <1>9 DEF Next

LEMMA DiskInvariance ==
  ASSUME SmallFaults
  PROVE  Spec => [](Inv /\ DiskInv)
<1>1. Init => Inv /\ DiskInv
  BY InitInv, InitDisk
<1>2. Inv /\ DiskInv /\ [Next]_vars => (Inv /\ DiskInv)'
  BY NextInv, NextDisk DEF SmallFaults
<1>. QED BY <1>1, <1>2, PTL DEF Spec

\* Whenever no request is being served, the slots of the cache file say exactly
\* what the running program knows: SetVirtImageData and SetVdiFileHeaderData
\* rewrite the slot of a new chunk and flush it before they give up the mutex,
\* so killing xmount between two requests loses nothing.
THEOREM Durability ==
  ASSUME SmallFaults
  PROVE  Spec => []IndexDurable
<1>1. Inv /\ DiskInv => IndexDurable
  <2>. SUFFICES ASSUME Inv, DiskInv, otype # "none", mutex = NoThread, NEW c \in Chunks
                PROVE  /\ mem[c].Assigned <=> Slot(c).Assigned
                       /\ mem[c].Assigned => mem[c] = Slot(c)
    BY DEF IndexDurable
  <2>1. \A s \in Threads : th[s].pc # "sync"
    <3>. SUFFICES ASSUME NEW s \in Threads, th[s].pc = "sync" PROVE FALSE
      OBVIOUS
    <3>1. mutex = s
      BY Inside DEF Outside
    <3>. QED BY <3>1, ThreadsAssumption
  <2>2. mem[c].Assigned => Slot(c) = mem[c]
    BY <2>1, KnownNow DEF DiskInv
  <2>3. Slot(c).Assigned => mem[c] = Slot(c)
    BY SlotIsKnown
  <2>. QED BY <2>2, <2>3
<1>. QED BY <1>1, DiskInvariance, PTL

\* The emulated image is a disk.  Whatever the threads of FUSE deliver, and
\* whenever xmount is killed, unmounted and started again - also with another
\* output type, also with --owcache - every step of the code is a step of
\* VirtualDisk or leaves the disk alone.
THEOREM Refinement ==
  ASSUME SmallFaults
  PROVE  Spec => IsADisk
<1>1. Init => Disk!Init
  BY InitDisk
<1>2. Inv /\ DiskInv /\ [Next]_vars => [Disk!Next]_Disk!vars
  BY NextDisk DEF DiskStep
<1>. QED BY <1>1, <1>2, DiskInvariance, PTL DEF Spec, IsADisk, Disk!Spec
=============================================================================
