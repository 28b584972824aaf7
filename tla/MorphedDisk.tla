------------------------------ MODULE MorphedDisk ------------------------------
(***************************************************************************)
(* What a mount of ImageReads is, by the files and options alone: whether  *)
(* it can be served, which byte of which file each byte of its disk is,    *)
(* and whether all of them are there.  Nothing here is about reads: no     *)
(* cluster, piece, page or chunk is ever cut, and no number either.        *)
(***************************************************************************)
EXTENDS ImageReads

-----------------------------------------------------------------------------
(* How long an image is, by what is stated in it, the byte at place p, and *)
(* whether the files hold it.                                              *)

Length(image) == IF image.format = "raw" THEN RawSize(image.file) ELSE image.file.size

PieceStart(f, j) == RawSize([pieces |-> SubSeq(f.pieces, 1, j - 1)])
InPiece(f, j, p) == p \in PieceStart(f, j)..(PieceStart(f, j) + Len(f.pieces[j].bytes) - 1)
RawByte(f, p) ==
  LET j == CHOOSE k \in DOMAIN f.pieces : InPiece(f, k, p)
  IN f.pieces[j].bytes[p - PieceStart(f, j) + 1]

\* The entry of the second table that is about the cluster of p.
QcowCluster(f, p) ==
  LET c == p \div f.clusterSize IN QcowEntry(f, f.l1[(c \div f.l2Size) + 1], c % f.l2Size)
QcowByte(f, p) ==
  LET entry == QcowCluster(f, p)
      ofs == p % f.clusterSize
  IN CASE entry.packed -> f.packed[entry.at][ofs + 1]
       [] ~entry.packed /\ ~entry.zero /\ entry.at # 0 /\ ofs < Len(f.clusters[entry.at]) ->
            f.clusters[entry.at][ofs + 1]
       [] OTHER -> Zero

\* Where the byte is in the data of a VDI file, if its block is stored.
VdiBlock(f, p) == f.bmap[(p \div f.blockSize) + 1]
VdiPlace(f, p) == VdiBlock(f, p) * f.blockSize + (p % f.blockSize)
VdiByte(f, p) ==
  IF VdiBlock(f, p) \in {Discarded, Unallocated} THEN Zero ELSE f.data[VdiPlace(f, p) + 1]

AaffByte(f, p) == f.pages[(p \div f.pageSize) + 1][(p % f.pageSize) + 1]

Byte(image, p) ==
  LET f == image.file IN
  CASE image.format = "raw" -> RawByte(f, p)
    [] image.format = "qcow" -> QcowByte(f, p)
    [] image.format = "vdi" -> VdiByte(f, p)
    [] image.format = "aaff" -> AaffByte(f, p)
    [] image.format \in Whole -> f.bytes[p + 1]

Readable(image, p) ==
  LET f == image.file IN
  /\ p \in 0..(Length(image) - 1)
  /\ image.format = "qcow" => (p \div f.clusterSize) \div f.l2Size < Len(f.l1)
  /\ image.format = "vdi" =>
       /\ p \div f.blockSize < Len(f.bmap)
       /\ VdiBlock(f, p) \notin {Discarded, Unallocated} => VdiPlace(f, p) < Len(f.data)
  /\ image.format = "aaff" => p \div f.pageSize < Len(f.pages)
  /\ image.format \in Whole => p < Len(f.bytes)

-----------------------------------------------------------------------------
(* The file system of an image: whether it is one whose free blocks can be *)
(* told, and where they are, in order.                                     *)

FatStart(fs) == fs.reserved + fs.fatCount * FatSectors(fs) + RootSectors(fs)
FatCount(fs) == (SectorsOf(fs) - FatStart(fs)) \div fs.sectorsPerCluster
FatTells(fs, size) ==
  FatFieldsValid(fs, size) /\ FatCount(fs) >= Fat12Below /\ FatReadable(fs, size)
FatPlaces(fs) ==
  LET free == InOrder(FatCount(fs) + 2,
                      {c \in 2..(FatCount(fs) + 1) : fs.fat[c + 1] \in {0, fs.bad}})
  IN [k \in DOMAIN free |->
        FatStart(fs) * fs.bytesPerSector + (free[k] - 2) * FatBlockSize(fs)]

HfsAllocStarts(fs) ==
  [k \in DOMAIN HfsAllocBlocks(fs) |-> HfsAllocBlocks(fs)[k] * fs.blockSize]
HfsTells(fs, size) ==
  /\ HfsHeaderValid(fs, size)
  /\ Len(HfsAllocBlocks(fs)) * fs.blockSize = fs.allocFileSize
  /\ \A k \in DOMAIN HfsAllocBlocks(fs) : HfsAllocStarts(fs)[k] + fs.blockSize <= size
HfsPlaces(fs) ==
  LET free == HfsFreeBlocks(fs, HfsBits(fs, HfsAllocStarts(fs)))
  IN [k \in DOMAIN free |-> free[k] * fs.blockSize]

FreePlaces(fs) == IF fs.kind = "hfs" THEN HfsPlaces(fs) ELSE FatPlaces(fs)

-----------------------------------------------------------------------------
(* The disk of a mount.                                                    *)

CanOpen(image) ==
  LET f == image.file IN
  CASE image.format = "raw" -> RawOpens(f)
    [] image.format = "qcow" -> QcowOpens(f)
    [] image.format = "vdi" -> VdiOpens(f)
    [] image.format = "ewf" -> f.signed /\ \A p \in 0..(f.size - 1) : p < Len(f.bytes)
    [] image.format = "aff" -> AffOpens(f)
    [] image.format = "aff4" -> Aff4Opens(f)
    [] image.format = "aaff" -> A!AaffOpens(f)

\* What --offset and --sizelimit leave of the images.
Remaining(m) ==
  [k \in DOMAIN m.images |-> IF m.limit # 0 THEN m.limit ELSE Length(m.images[k]) - m.offset]

BlocksTell(m) ==
  LET fs == m.images[1].fs
      size == Remaining(m)[1]
  IN \/ m.fs # "fat" /\ fs.kind = "hfs" /\ HfsTells(fs, size)
     \/ m.fs # "hfs" /\ fs.kind = "fat" /\ FatTells(fs, size)

Servable(m) ==
  /\ \A k \in DOMAIN m.images :
       CanOpen(m.images[k]) /\ m.offset + m.limit <= Length(m.images[k])
  /\ m.morph = "unallocated" => Len(m.images) = 1 /\ BlocksTell(m)

\* Byte p of what is left of image i, counted from 0, is byte k of the disk.
Shows(m, k, i, p) ==
  Readable(m.images[i + 1], m.offset + p) =>
    m.disk[k + 1] = Byte(m.images[i + 1], m.offset + p)

Joined(m) ==
  LET parts == Remaining(m)
      before(i) == SumOf(SubSeq(parts, 1, i))
  IN /\ Len(m.disk) = SumOf(parts)
     /\ \A i \in 0..(Len(parts) - 1) : \A p \in 0..(parts[i + 1] - 1) :
          Shows(m, before(i) + p, i, p)

\* Each image has as many chunks as the smallest one.
Dealt(m) ==
  LET parts == Remaining(m)
      n == Len(parts)
  IN \E k \in DOMAIN parts :
       LET chunks == parts[k] \div m.chunk
       IN /\ \A j \in DOMAIN parts : chunks <= parts[j] \div m.chunk
          /\ Len(m.disk) = chunks * m.chunk * n
          /\ \A u \in 0..(chunks * n - 1) : \A o \in 0..(m.chunk - 1) :
               Shows(m, (u * m.chunk) + o, u % n, ((u \div n) * m.chunk) + o)

Swapped(m) ==
  LET parts == Remaining(m)
  IN /\ Len(m.disk) = SumOf(parts) /\ Len(m.disk) % 2 = 0
     /\ \A p \in 0..(Len(m.disk) - 1) :
          p < parts[1] => Shows(m, IF p % 2 = 0 THEN p + 1 ELSE p - 1, 0, p)

FreeBlocks(m) ==
  LET map == FreePlaces(m.images[1].fs)
      unit == FreeBlockSize(m.images[1].fs)
  IN /\ Len(m.disk) = unit * Len(map)
     /\ \A u \in 0..(Len(map) - 1) : \A o \in 0..(unit - 1) :
          map[u + 1] + o < Remaining(m)[1] => Shows(m, (u * unit) + o, 0, map[u + 1] + o)

IsTheDisk(m) ==
  /\ m.morph = "combine" => Joined(m)
  /\ m.morph = "raid" => Dealt(m)
  /\ m.morph = "swab" => Swapped(m)
  /\ m.morph = "unallocated" => FreeBlocks(m)

\* All that the disk is made of is in the files.  swab states the size of all
\* images but reads the first one only.
IsComplete(m) ==
  /\ \A k \in DOMAIN m.images :
       \A p \in 0..(Length(m.images[k]) - 1) : Readable(m.images[k], p)
  /\ m.morph = "swab" => Len(m.images) = 1
  /\ m.morph = "unallocated" =>
       \A b \in DOMAIN FreePlaces(m.images[1].fs) :
         FreePlaces(m.images[1].fs)[b] + FreeBlockSize(m.images[1].fs) <= Remaining(m)[1]

\* A mount that is what it says it is.
Described(m) ==
  /\ IsSequence(m.disk)
  /\ m.good <=> Servable(m)
  /\ Servable(m) => IsTheDisk(m)
  /\ Servable(m) /\ m.whole => IsComplete(m)

MountsDescribed == \A s \in DOMAIN Setups : Described(Setups[s])
=============================================================================
