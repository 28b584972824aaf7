------------------------------ MODULE MCImageReads ------------------------------
(***************************************************************************)
(* ImageReads with files as the programs that make them write them: the    *)
(* content of a disk is chosen first and then stored, so that the tables   *)
(* of the files say where the bytes of the disk are.  Clusters and blocks  *)
(* have two bytes and are stored in the opposite order; byte p of image i  *)
(* is <<i, p>>, so that no two bytes are the same unless they are zero.    *)
(***************************************************************************)
EXTENDS MorphedDisk

Bytes(i, from, n) == [k \in 1..n |-> <<i, from + k>>]

\* The content of a disk, and of its cluster c, counted from 1.
HasData(kind) == kind \in {"data", "packed"}
ClusterOf(i, kinds, c) == IF HasData(kinds[c]) THEN Bytes(i, 2 * (c - 1), 2) ELSE Zeros(2)
DiskOf(i, kinds, size) ==
  [p \in 1..size |-> ClusterOf(i, kinds, (p + 1) \div 2)[IF p % 2 = 1 THEN 1 ELSE 2]]

Image(format, file) == [format |-> format, file |-> file, fs |-> [kind |-> "none"]]

Raw(pieces) ==
  Image("raw", [pieces |-> [k \in DOMAIN pieces |-> [exists |-> TRUE, bytes |-> pieces[k]]]])

\* The second tables hold two addresses; one whose clusters are all holes is
\* not there.  Cluster c is at address 20 - c, table t at address 30 - t.
QcowFile(i, kinds, size) ==
  LET n == Len(kinds)
      kind(c) == IF c <= n THEN kinds[c] ELSE "hole"
      entry(c) == [at |-> IF kind(c) = "hole" THEN 0 ELSE 20 - c,
                   zero |-> kind(c) = "zero", packed |-> kind(c) = "packed"]
      table(t) == IF kind(2 * t - 1) = "hole" /\ kind(2 * t) = "hole" THEN 0 ELSE 30 - t
  IN [magic |-> TRUE, version |-> 3, crypt |-> 0, size |-> size,
      clusterSize |-> 2, l2Size |-> 2,
      l1 |-> [t \in 1..((n + 1) \div 2) |-> table(t)],
      tables |-> [a \in 20..29 |-> <<entry(2 * (30 - a) - 1), entry(2 * (30 - a))>>],
      packed |-> [a \in 1..19 |-> Bytes(i, 2 * (19 - a), 2)],
      clusters |-> [a \in 1..19 |-> Bytes(i, 2 * (19 - a), IF 20 - a = n THEN size - 2 * (n - 1) ELSE 2)]]
Qcow(i, kinds, size) == Image("qcow", QcowFile(i, kinds, size))

\* The last block of the disk is the first of the file.
VdiFile(i, kinds, size) ==
  LET n == Len(kinds)
      stored == SelectSeq([c \in 1..n |-> n + 1 - c], LAMBDA c : HasData(kinds[c]))
      place(c) == CHOOSE k \in DOMAIN stored : stored[k] = c
  IN [signature |-> TRUE, version |-> "1.1", blockSize |-> 2, size |-> size,
      bmap |-> [c \in 1..n |-> CASE HasData(kinds[c]) -> place(c) - 1
                                 [] kinds[c] = "zero" -> Discarded
                                 [] OTHER -> Unallocated],
      data |-> FlattenSeq([k \in DOMAIN stored |-> ClusterOf(i, kinds, stored[k])])]
Vdi(i, kinds, size) == Image("vdi", VdiFile(i, kinds, size))

LibFile(i, size, there) ==
  [files |-> 1, signed |-> TRUE, encrypted |-> FALSE, size |-> size, bytes |-> Bytes(i, 0, there)]
Lib(format, i, size, there) == Image(format, LibFile(i, size, there))

AaffFile(i, size, pageSize, entries) ==
  LET pages == A!CeilDiv(size, pageSize)
      len(p) == IF p < pages THEN pageSize ELSE size - (pageSize * (pages - 1))
  IN [files |-> 1, signed |-> TRUE, sectorSize |-> 1, sectors |-> size, typed |-> TRUE,
      guymager |-> TRUE, size |-> size, pageSize |-> pageSize, firstPage |-> 0, entries |-> entries,
      pages |-> [p \in 1..pages |-> Bytes(i, pageSize * (p - 1), len(p))]]
\* Four pages, an entry of the seek array for each two of them.
Aaff(i) == Image("aaff", AaffFile(i, 7, 2, 2))
\* Three pages, of which the last has its entry behind the seek array.
AaffShort(i) == Image("aaff", AaffFile(i, 6, 2, 2))
\* Four bytes in two pages, which are read as 34 in 12.
AaffMisread(i) == Image("aaff", AaffFile(i, 4, 3, 4))

\* File systems with sectors of two bytes: a FAT has clusters of four bytes.
FatFs(fat, sectors, fatSectors) ==
  [kind |-> "fat", headerSize |-> 1, jump |-> TRUE, bytesPerSector |-> 2, sectorsPerCluster |-> 2,
   reserved |-> 1, fatCount |-> 1, rootEntries |-> 1, sectors16 |-> sectors, sectors32 |-> 0,
   fat16Sectors |-> fatSectors, fat32Sectors |-> 0, bad |-> 39, fat |-> fat]
\* Clusters 2 to 5; 2 leads to 4, 3 is free, 5 is bad; the data begin at 12.
Fat16 == FatFs(<<0, 0, 4, 0, 47, 39>>, 14, 4)
\* Cluster 2 leads to one whose number is a multiple of the mask.
FatMasked == FatFs(<<0, 0, 16, 0, 47, 39>>, 14, 4)
\* Clusters 2 to 7; 3 and 7 are free; the FAT has seven sectors, no root
\* directory is in front of the data, which begin at 16.
Fat32 == [FatFs(<<0, 0, 3, 0, 5, 6, 47, 0>>, 0, 0)
            EXCEPT !.rootEntries = 0, !.sectors32 = 20, !.fat32Sectors = 7]
\* Blocks 0 to 5, the first three are described in block 4, the others in 1.
Hfs == [kind |-> "hfs", signature |-> TRUE, version |-> 4, blockSize |-> 2, totalBlocks |-> 6,
        extents |-> <<[start |-> 4, count |-> 1], [start |-> 1, count |-> 1]>>, allocFileSize |-> 4,
        bits |-> (8 :> <<1, 1, 0>> @@ 2 :> <<0, 1, 0>>)]
\* Blocks 0 to 13; of the free ones the last begins behind a uint32_t.
HfsLong == [Hfs EXCEPT !.totalBlocks = 14,
                       !.bits = (8 :> <<1, 1, 1, 1, 1, 1, 1>> @@ 2 :> <<0, 1, 1, 1, 1, 1, 0>>)]
WithFs(image, fs) == [image EXCEPT !.fs = fs]

Mount(lib, images, disk) ==
  [images |-> images, offset |-> 0, limit |-> 0, morph |-> lib, chunk |-> 2, fs |-> "any",
   disk |-> disk, good |-> TRUE, whole |-> TRUE]
Refuse(mount) == [mount EXCEPT !.good = FALSE]

Mixed == <<"data", "hole", "packed", "zero", "data">>
Sparse == <<"hole", "hole", "data", "zero">>

Combined == <<
  Mount("combine", <<Raw(<<Bytes(1, 0, 2), <<>>, Bytes(1, 2, 1)>>), Qcow(2, Sparse, 7)>>,
        Bytes(1, 0, 3) \o DiskOf(2, Sparse, 7)),
  [Mount("combine", <<Qcow(1, Mixed, 9)>>, SubSeq(DiskOf(1, Mixed, 9), 2, 8))
     EXCEPT !.offset = 1, !.limit = 7],
  [Mount("combine", <<Vdi(1, Mixed, 9), Lib("ewf", 2, 3, 3)>>,
         SubSeq(DiskOf(1, Mixed, 9), 2, 9) \o Bytes(2, 1, 2)) EXCEPT !.offset = 1],
  [Mount("combine", <<Lib("aff4", 1, 2, 2), Lib("aff", 2, 4, 2)>>, Bytes(1, 0, 2) \o Bytes(2, 0, 4))
     EXCEPT !.whole = FALSE],
  [Mount("combine", <<Aaff(1)>>, Bytes(1, 1, 6)) EXCEPT !.offset = 1],
  Mount("combine", <<AaffShort(1)>>, Bytes(1, 0, 6)),
  Mount("combine", <<Raw(<<Bytes(1, 0, 2)>>), Raw(<<<<>>>>), Raw(<<Bytes(2, 0, 2)>>)>>,
        Bytes(1, 0, 2) \o Bytes(2, 0, 2))>>

\* Every content of three clusters, in both formats that store some of them.
KindOf == <<"data", "packed", "zero", "hole">>
Kinds == [k \in 1..64 |-> [c \in 1..3 |-> KindOf[(((k - 1) \div 4^(c - 1)) % 4) + 1]]]
Stored == [k \in DOMAIN Kinds |-> Mount("combine", <<Qcow(1, Kinds[k], 5)>>, DiskOf(1, Kinds[k], 5))]
            \o [k \in DOMAIN Kinds |->
                   Mount("combine", <<Vdi(1, Kinds[k], 6)>>, DiskOf(1, Kinds[k], 6))]

DealtOut == <<
  Mount("raid", <<Raw(<<Bytes(1, 0, 5)>>), Vdi(2, Sparse, 8), Raw(<<Bytes(3, 0, 4)>>)>>,
        Bytes(1, 0, 2) \o Zeros(2) \o Bytes(3, 0, 2) \o Bytes(1, 2, 2) \o Zeros(2) \o Bytes(3, 2, 2)),
  Mount("raid", <<Raw(<<Bytes(1, 0, 5)>>), Raw(<<Bytes(2, 0, 1)>>), Raw(<<Bytes(3, 0, 4)>>)>>, <<>>)>>

Swabbed == <<
  Mount("swab", <<Raw(<<Bytes(1, 0, 3), Bytes(1, 3, 3)>>)>>,
        << <<1, 2>>, <<1, 1>>, <<1, 4>>, <<1, 3>>, <<1, 6>>, <<1, 5>> >>)>>

FreeFat16 == Mount("unallocated", <<WithFs(Raw(<<Bytes(1, 0, 28)>>), Fat16)>>, Bytes(1, 16, 4) \o Bytes(1, 24, 4))
FreeHfs == Mount("unallocated", <<WithFs(Raw(<<Bytes(1, 0, 12)>>), Hfs)>>,
                 Bytes(1, 4, 4) \o Bytes(1, 10, 2))
FreeSpaces == <<
  FreeFat16,
  [FreeFat16 EXCEPT !.images[1].fs = FatMasked],
  Mount("unallocated", <<WithFs(Raw(<<Bytes(1, 0, 40)>>), Fat32)>>, Bytes(1, 20, 4) \o Bytes(1, 36, 4)),
  [FreeHfs EXCEPT !.fs = "hfs"],
  Mount("unallocated", <<WithFs(Raw(<<Bytes(1, 0, 28)>>), HfsLong)>>, Bytes(1, 14, 2) \o Bytes(1, 26, 2))>>

\* What cannot be mounted.  A limit behind the end of an image is only accepted
\* if the size of the image is misread.
Bad == <<
  [Mount("combine", <<AaffMisread(1)>>, <<>>) EXCEPT !.limit = 6],
  Mount("combine", <<Raw(<<Bytes(1, 0, 2)>>), [Qcow(2, Mixed, 9) EXCEPT !.file.version = 4]>>, <<>>),
  Mount("combine", <<[Qcow(1, Mixed, 9) EXCEPT !.file.crypt = 1]>>, <<>>),
  Mount("combine", <<[Vdi(1, Mixed, 9) EXCEPT !.file.version = "1.0"]>>, <<>>),
  Mount("combine", <<Vdi(1, <<>>, 0)>>, <<>>),
  Mount("combine", <<Lib("ewf", 1, 4, 2)>>, <<>>),
  Mount("combine", <<[Lib("aff", 1, 4, 4) EXCEPT !.file.encrypted = TRUE]>>, <<>>),
  Mount("combine", <<[Lib("aff4", 1, 4, 4) EXCEPT !.file.files = 2]>>, <<>>),
  Mount("combine", <<[Aaff(1) EXCEPT !.file.guymager = FALSE]>>, <<>>),
  Mount("combine", <<[Aaff(1) EXCEPT !.file.files = 2]>>, <<>>),
  Mount("combine", <<[Aaff(1) EXCEPT !.file.sectorSize = 0]>>, <<>>),
  Mount("combine", <<[Aaff(1) EXCEPT !.file.typed = FALSE]>>, <<>>),
  Mount("combine", <<[Raw(<<Bytes(1, 0, 2)>>) EXCEPT !.file.pieces[1].exists = FALSE]>>, <<>>),
  [Mount("combine", <<Lib("ewf", 1, 4, 4)>>, <<>>) EXCEPT !.offset = 3, !.limit = 2],
  [Mount("combine", <<Lib("ewf", 1, 4, 4)>>, <<>>) EXCEPT !.offset = 5],
  [FreeFat16 EXCEPT !.fs = "hfs"],
  [FreeHfs EXCEPT !.images[1].fs.allocFileSize = 6],
  [FreeFat16 EXCEPT !.images[1].fs.bytesPerSector = 3],
  [FreeFat16 EXCEPT !.images[1].fs.sectors16 = 8],
  [FreeFat16 EXCEPT !.images = <<@[1], @[1]>>]>>

MCSetups == Combined \o Stored \o DealtOut \o Swabbed \o FreeSpaces \o [k \in DOMAIN Bad |-> Refuse(Bad[k])]
AaffSetups == <<Mount("combine", <<Aaff(1)>>, Bytes(1, 0, 7))>>
FatSetups == <<FreeFat16>>

\* The disks above are what the files and options make of them.
ASSUME DisksAreRight == MountsDescribed
=============================================================================
