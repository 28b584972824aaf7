------------------------------- MODULE Morphings -------------------------------
(***************************************************************************)
(* The morphing libraries: which image the images together make, and which *)
(* read of an input image is the next of a read of the morphed one.        *)
(*                                                                         *)
(* They see the images through ImageCount, Size and Read of xmount.c only: *)
(* sizes is the sequence of the sizes.  A read that is under way is at     *)
(* offset ofs of a unit (an image for combine, a chunk for raid, a free    *)
(* block for unallocated) and has left bytes to go; all but the first unit *)
(* are read from their start.                                              *)
(***************************************************************************)
EXTENDS Integers, SequencesExt

CONSTANTS
  Word,           \* 2^32 and 2^64: where uint32_t ends, in which the header of
  Wide,           \* a FAT is checked and the HFS code computes offsets, and
                  \* where uint64_t ends
  SectorUnit,     \* 512: sectors are a multiple of it
  Fat12Below,     \* 4085 and 65525: with fewer clusters it is a FAT12, FAT16
  Fat16Below,
  Fat16Mask,      \* 2^12: what the code keeps of an entry of a FAT16
  DirEntrySize,   \* 32 bytes, an entry of the root directory
  HfsHeaderEnd    \* where the HFS volume header ends

SumOf(sizes) == FoldSeq(LAMBDA s, t : s + t, 0, sizes)
Step(image, offset, count) == [image |-> image, offset |-> offset, count |-> count]
UpTo(unitSize, at) == Min({at.left, unitSize - at.ofs})

-----------------------------------------------------------------------------
(* combine: one image behind the other.                                    *)

CombineSize(sizes) == SumOf(sizes)

\* The image in which the offset lies, found from the first on.
CombineStart(sizes, offset, count) ==
  LET before(i) == SumOf(SubSeq(sizes, 1, i))
      i == CHOOSE j \in 0..(Len(sizes) - 1) :
             before(j) <= offset /\ offset < before(j + 1)
  IN [unit |-> i, ofs |-> offset - before(i), left |-> count]

CombineStep_Uncut(sizes, at) == Step(at.unit, at.ofs, at.left)
CombineStep(sizes, at) == Step(at.unit, at.ofs, UpTo(sizes[at.unit + 1], at))

-----------------------------------------------------------------------------
(* raid: chunks dealt out over the images.                                 *)

\* RaidMorph: 0 chunks per image stands for "no image seen so far".
RaidChunksPerImage_Largest(sizes, chunk) ==
  FoldLeft(LAMBDA n, size : IF size \div chunk > n THEN size \div chunk ELSE n,
           0, sizes)
RaidChunksPerImage(sizes, chunk) ==
  FoldLeft(LAMBDA n, size : IF n = 0 \/ size \div chunk < n THEN size \div chunk ELSE n,
           0, sizes)

RaidSize(sizes, chunk) == RaidChunksPerImage(sizes, chunk) * chunk * Len(sizes)

UnitStart(unitSize, offset, count) ==
  [unit |-> offset \div unitSize, ofs |-> offset % unitSize, left |-> count]

RaidStep_WholeChunks(sizes, chunk, at) ==
  Step(at.unit % Len(sizes), (at.unit \div Len(sizes)) * chunk, UpTo(chunk, at))
RaidStep(sizes, chunk, at) ==
  Step(at.unit % Len(sizes), (at.unit \div Len(sizes)) * chunk + at.ofs,
       UpTo(chunk, at))

-----------------------------------------------------------------------------
(* swab: the two bytes of each pair of the first image change places.      *)

SwabSize(sizes) == SumOf(sizes)

\* Everything is read at once, from an even offset on.
SwabStart(offset, count) == [unit |-> 0, ofs |-> offset, left |-> count]
SwabStep(at) == Step(0, at.ofs - (at.ofs % 2), at.left + (at.ofs % 2))

\* What SwabRead puts into the buffer of the caller.  The partner of the last
\* byte of an odd number of bytes is whatever lies behind the data.
SwabBytes_LastPairKept(bytes, count, behind) ==
  LET n == Len(bytes)
      swapped(k) == IF k >= n - 1 THEN bytes[k]
                    ELSE IF k % 2 = 0 THEN bytes[k - 1] ELSE bytes[k + 1]
  IN [k \in 1..count |-> swapped(k)]
SwabBytes(bytes, count, behind) ==
  LET n == Len(bytes)
      swapped(k) == IF k % 2 = 0 THEN bytes[k - 1]
                    ELSE IF k = n THEN behind ELSE bytes[k + 1]
  IN [k \in 1..count |-> swapped(k)]

-----------------------------------------------------------------------------
(* unallocated: the free blocks of a file system, one behind the other.    *)

SectorsOf(fs) == fs.sectors16 + fs.sectors32
FatSectors(fs) == IF fs.fat16Sectors # 0 THEN fs.fat16Sectors ELSE fs.fat32Sectors

\* In front of the data: reserved sectors, the FATs, the root directory.
RootSectors(fs) ==
  (fs.rootEntries * DirEntrySize + fs.bytesPerSector - 1) \div fs.bytesPerSector
FatDataSector(fs) ==
  fs.reserved + ((fs.fatCount * FatSectors(fs)) % Word) + RootSectors(fs)

\* The clusters as ReadFatHeader counts them, and as BuildFatBlockMap does.
FatClusters(fs) ==
  ((SectorsOf(fs) - FatDataSector(fs)) % Word) \div fs.sectorsPerCluster
FatMapClusters(fs) ==
  ((SectorsOf(fs) - FatDataSector(fs)) % Wide) \div fs.sectorsPerCluster

\* ReadFatHeader: its fields, and the number of clusters, which tells a FAT12.
FatFieldsValid(fs, size) ==
  /\ size >= fs.headerSize
  /\ fs.jump
  /\ fs.bytesPerSector # 0 /\ fs.bytesPerSector % SectorUnit = 0
  /\ fs.sectorsPerCluster # 0 /\ fs.sectorsPerCluster % 2 = 0
  /\ fs.reserved # 0 /\ fs.fatCount # 0
  /\ (fs.sectors16 = 0) # (fs.sectors32 = 0)
FatHeaderValid(fs, size) == FatFieldsValid(fs, size) /\ FatClusters(fs) >= Fat12Below

FatBlockSize(fs) == fs.bytesPerSector * fs.sectorsPerCluster

\* ReadFat: the first FAT has to be in the image.
FatReadable(fs, size) ==
  (fs.reserved + FatSectors(fs)) * fs.bytesPerSector <= size

\* BuildFatBlockMap: a cluster is free when its entry is 0 or marks it as bad.
\* The entries of clusters 0 and 1 are not about clusters; those of a FAT32
\* are what is left of them without their upper four bits.
FatFree(fs, entry) ==
  IF FatClusters(fs) < Fat16Below
  THEN entry % Fat16Mask \in {0, fs.bad % Fat16Mask}
  ELSE entry \in {0, fs.bad}

InOrder(n, numbers) == SelectSeq([k \in 1..n |-> k - 1], LAMBDA b : b \in numbers)

FatFreeClusters(fs) ==
  {c \in 2..(FatMapClusters(fs) + 1) : FatFree(fs, fs.fat[c + 1])}
FatBlockMap(fs) ==
  LET free == InOrder(FatMapClusters(fs) + 2, FatFreeClusters(fs))
  IN [k \in DOMAIN free |->
        FatDataSector(fs) * fs.bytesPerSector + (free[k] - 2) * FatBlockSize(fs)]

\* ReadHfsHeader.
HfsHeaderValid(fs, size) == size >= HfsHeaderEnd /\ fs.signature /\ fs.version = 4

\* The blocks of the allocation file, from its first 8 extents.
HfsAllocBlocks(fs) ==
  LET blocks(e) == [k \in 1..e.count |-> e.start + k - 1]
      first == SubSeq(fs.extents, 1, Min({8, Len(fs.extents)}))
  IN FoldLeft(LAMBDA s, e : s \o blocks(e), <<>>, first)

\* ReadHfsAllocFile: all of it has to be there.
HfsPlace(fs, block) == (block * fs.blockSize) % Word
HfsAllocPlaces(fs) ==
  [k \in DOMAIN HfsAllocBlocks(fs) |-> HfsPlace(fs, HfsAllocBlocks(fs)[k])]
HfsAllocFileReadable(fs, size) ==
  /\ Len(HfsAllocBlocks(fs)) * fs.blockSize = fs.allocFileSize
  /\ \A k \in DOMAIN HfsAllocBlocks(fs) : HfsAllocPlaces(fs)[k] + fs.blockSize <= size

\* Its bits, one for each block; fs.bits are those that lie at a place.
HfsBits(fs, places) == FoldLeft(LAMBDA s, place : s \o fs.bits[place], <<>>, places)
HfsFreeBlocks(fs, bits) ==
  InOrder(fs.totalBlocks, {b \in 0..(fs.totalBlocks - 1) : bits[b + 1] = 0})

\* BuildHfsBlockMap.
HfsBlockMap(fs) ==
  LET free == HfsFreeBlocks(fs, HfsBits(fs, HfsAllocPlaces(fs)))
  IN [k \in DOMAIN free |-> HfsPlace(fs, free[k])]

\* UnallocatedMorph: HFS is tried before FAT unless the user named one.
FsOf(fs, size, wanted) ==
  CASE wanted # "fat" /\ fs.kind = "hfs" /\ HfsHeaderValid(fs, size) -> "hfs"
    [] wanted # "hfs" /\ fs.kind = "fat" /\ FatHeaderValid(fs, size) -> "fat"
    [] OTHER -> "none"

UnallocatedMorphs(fs, size, wanted) ==
  CASE FsOf(fs, size, wanted) = "hfs" -> HfsAllocFileReadable(fs, size)
    [] FsOf(fs, size, wanted) = "fat" -> FatReadable(fs, size)
    [] OTHER -> FALSE

FreeBlockMap(fs) == IF fs.kind = "hfs" THEN HfsBlockMap(fs) ELSE FatBlockMap(fs)
FreeBlockSize(fs) == IF fs.kind = "hfs" THEN fs.blockSize ELSE FatBlockSize(fs)

\* UnallocatedRead adds the offset within the block to an offset in the image
\* that contains it already.
UnallocatedStep(map, blockSize, at) ==
  Step(0, map[at.unit + 1] + at.ofs + at.ofs, UpTo(blockSize, at))
=============================================================================
