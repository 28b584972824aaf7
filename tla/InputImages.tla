------------------------------ MODULE InputImages ------------------------------
(***************************************************************************)
(* What the input libraries for raw, QCOW and VDI images make of a file,   *)
(* and what xmount needs of libewf, libaff and libaff4: whether Open       *)
(* accepts the file, which size it states, and what one step of a read     *)
(* returns.                                                                *)
(*                                                                         *)
(* A file is a record of what its headers and tables hold; its data are    *)
(* sequences of bytes, and a byte is any value.  Offsets count from 0.  A  *)
(* table in a QCOW or VDI file refers to a cluster by its address, 0 being *)
(* none, or to a block by its number.                                      *)
(***************************************************************************)
EXTENDS Integers, SequencesExt

Zero == <<0, 0>>
Zeros(n) == [k \in 1..n |-> Zero]
Cut(bytes, offset, n) == SubSeq(bytes, offset + 1, offset + n)

\* The answer of one step: its data, and whether the file had to be read.
Got(bytes, io) == [ok |-> TRUE, data |-> bytes, io |-> io]
Refused == [ok |-> FALSE, data |-> <<>>, io |-> FALSE]

-----------------------------------------------------------------------------
(* Raw: the files are the pieces of one image.                             *)

RawOpens(file) == \A i \in DOMAIN file.pieces : file.pieces[i].exists

RawSize(file) == FoldSeq(LAMBDA piece, sum : sum + Len(piece.bytes), 0, file.pieces)

\* RawRead0: the search for the piece takes the size of each piece before it
\* from Seek.  fread of nothing is an error too.
RawRead0(file, seek, count) ==
  LET start(i) == RawSize([pieces |-> SubSeq(file.pieces, 1, i - 1)])
      here == {i \in DOMAIN file.pieces :
                 seek \in start(i)..(start(i) + Len(file.pieces[i].bytes) - 1)}
  IN IF here = {} \/ count = 0 THEN Refused
     ELSE LET i == CHOOSE j \in here : TRUE
              bytes == file.pieces[i].bytes
              ofs == seek - start(i)
          IN Got(Cut(bytes, ofs, Min({count, Len(bytes) - ofs})), TRUE)

\* What is wanted of a cluster or block: to its end at most; as a bug would
\* have it, without its last byte.
InUnit_BeforeEnd(unitSize, ofs, count) == Min({count, unitSize - ofs - 1})
InUnit(unitSize, ofs, count) == Min({count, unitSize - ofs})

-----------------------------------------------------------------------------
(* QCOW: a first table (kept in memory) of the addresses of second tables, *)
(* which hold the addresses of the clusters.                               *)

\* QcowParseHeader.  A backing file is not asked for.
QcowOpens(file) == file.magic /\ file.version \in {2, 3} /\ file.crypt = 0

\* QcowUtilFileRead: what lies behind the end of the file reads as zeros.
QcowFileRead(bytes, offset, n) ==
  [k \in 1..n |-> IF offset + k <= Len(bytes) THEN bytes[offset + k] ELSE Zero]

\* The entry of the second table: a cluster that is stored as it is or
\* compressed, or zeros, without a table, an address or with the zero flag.
QcowEntry(file, table, l2) ==
  IF table = 0 THEN [at |-> 0, zero |-> FALSE, packed |-> FALSE]
  ELSE file.tables[table][l2 + 1]

QcowRead0(file, seek, count) ==
  LET ofs == seek % file.clusterSize
      cluster == seek \div file.clusterSize
      l2 == cluster % file.l2Size
      l1 == cluster \div file.l2Size
      n == InUnit(file.clusterSize, ofs, count)
  IN IF l1 >= Len(file.l1) THEN Refused
     ELSE LET table == file.l1[l1 + 1]
              entry == QcowEntry(file, table, l2)
              unused == ~entry.packed /\ (entry.zero \/ entry.at = 0)
          IN CASE unused -> Got(Zeros(n), table # 0)
               [] entry.packed -> Got(Cut(file.packed[entry.at], ofs, n), TRUE)
               [] OTHER -> Got(QcowFileRead(file.clusters[entry.at], ofs, n), TRUE)

-----------------------------------------------------------------------------
(* VDI: a block map (kept in memory) of the numbers of the blocks.         *)

Discarded == -2
Unallocated == -1

\* VdiParseHeader.
VdiHeaderValid(file) == file.signature /\ file.version = "1.1" /\ file.blockSize # 0

\* VdiOpen reads the block map too: fread of nothing is an error.
VdiOpens(file) == VdiHeaderValid(file) /\ file.bmap # <<>>

\* A block that is not whole in the file cannot be read to its end.
VdiRead0(file, seek, count) ==
  LET block == seek \div file.blockSize
      ofs == seek % file.blockSize
      n == InUnit(file.blockSize, ofs, count)
  IN IF block >= Len(file.bmap) THEN Refused
     ELSE LET b == file.bmap[block + 1]
              at == b * file.blockSize + ofs
          IN CASE b \in {Discarded, Unallocated} -> Got(Zeros(n), FALSE)
               [] at + n > Len(file.data) -> Refused
               [] OTHER -> Got(Cut(file.data, at, n), TRUE)

-----------------------------------------------------------------------------
(* EWF, AFF and AFF4: the library has the bytes of the segments that are   *)
(* there; the size is stated in the first of them.                         *)

\* EwfOpen reads the last byte to see that all segments were given.
EwfOpens_FirstSegment(file) == file.signed
EwfOpens(file) == file.signed /\ (file.size = 0 \/ Len(file.bytes) >= file.size)

\* AffOpen and Aff4Open take one file; AffOpen none that is encrypted.
AffOpens(file) == file.files = 1 /\ file.signed /\ ~file.encrypted
Aff4Opens(file) == file.files = 1 /\ file.signed

\* EwfRead, AffRead, Aff4Read: anything but all that was asked is an error.
LibraryRead(file, seek, count) ==
  IF seek + count > Len(file.bytes) THEN Refused
  ELSE Got(Cut(file.bytes, seek, count), TRUE)
=============================================================================
