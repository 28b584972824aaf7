---------------------------- MODULE VirtualHeaders ----------------------------
(***************************************************************************)
(* What xmount.c puts around an image to make it a VDI, VHD or VMDK file:  *)
(* sizes, the VDI block map and the VHD disk geometry.  Integers are cut   *)
(* off where the code's variables are.                                     *)
(***************************************************************************)
EXTENDS Integers

CONSTANTS
  SectorSize,     \* 512
  VdiBlockSize,   \* VDI_IMAGE_BLOCK_SIZE
  VdiStructSize,  \* sizeof(ts_VdiFileHeader)
  VhdStructSize,  \* sizeof(ts_VhdFileHeader)
  Two32           \* the numbers of a uint32_t: 2^32

ASSUME HeaderConstants ==
  /\ SectorSize \in Nat \ {0}
  /\ VdiBlockSize \in Nat \ {0}
  /\ VdiStructSize \in Nat \ {0}
  /\ VhdStructSize \in Nat \ {0}
  /\ Two32 \in Nat \ {0}

Byte(n) == n % 256      \* uint8_t
Short(n) == n % 65536   \* uint16_t
Cut32(n) == n % Two32   \* uint32_t

\* n pieces of size s are needed for size bytes.
Pieces(size, s) == size \div s + (IF size % s # 0 THEN 1 ELSE 0)

\* The sectors of an image, at most what 65535 * 16 * 255 can address.
MaxSectors == 267382800
Sectors(size) == IF size > MaxSectors * SectorSize THEN MaxSectors
                 ELSE Pieces(size, SectorSize)

Geometry(c, h, s) == [c |-> Short(c), h |-> h, s |-> s]

\* With 17 sectors per track: the heads for the tracks, and whether they do.
Heads17(cxh) == LET h == Byte((cxh + 1023) \div 1024) IN IF h < 4 THEN 4 ELSE h
\* Mutant: only the number of heads is looked at.
Geometry17Fits_Heads(cxh, h) == ~(h > 16)
Geometry17Fits(cxh, h) == ~(cxh >= h * 1024 \/ h > 16)

\* The disk geometry of InitVirtVhdHeader.
VhdGeometry(size) ==
  LET tot == Sectors(size)
      t17 == tot \div 17
      h17 == Heads17(t17)
  IN IF tot >= 66059280 THEN Geometry((tot \div 255) \div 16, 16, 255)
     ELSE IF Geometry17Fits(t17, h17) THEN Geometry(t17 \div h17, h17, 17)
     ELSE IF tot \div 31 < 16 * 1024 THEN Geometry((tot \div 31) \div 16, 16, 31)
     ELSE Geometry((tot \div 63) \div 16, 16, 63)

\* block_entries and vdi_block_map_size.
BlockEntries(size) == Cut32(Pieces(size, VdiBlockSize))
BlockMapSize(size) == Cut32(4 * BlockEntries(size))

\* The header of InitVirtVdiHeader: block i of the image is block i of the file.
VdiHeader(size) ==
  [blocks |-> BlockEntries(size), offBlocks |-> VdiStructSize,
   offData |-> Cut32(VdiStructSize + BlockMapSize(size)), cbDisk |-> size]

\* The extent in the descriptor of InitVirtualVmdkFile, in sectors.
VmdkExtent(size) == Pieces(size, SectorSize)

\* GetVirtImageSize.
VirtImageSize(type, size) ==
  CASE type = "vdi" -> size + VdiStructSize + BlockMapSize(size)
    [] type = "vhd" -> size + VhdStructSize
    [] OTHER -> size

-----------------------------------------------------------------------------
(* Properties                                                              *)

\* The geometry's numbers are ones that a disk can have.
GeometryValid(g) == /\ g.c \in Nat /\ g.c <= 65535 /\ g.h \in 4..16
                    /\ g.s \in {17, 31, 63, 255}

\* The geometry describes the disk: it does not reach beyond the last sector
\* and leaves out less than one cylinder, whatever was cut off on the way.
GeometryFits(size, g) ==
  LET cyl == g.h * g.s
  IN /\ GeometryValid(g)
     /\ g.c * cyl <= Sectors(size)
     /\ Sectors(size) < (g.c + 1) * cyl

\* Header and block map of a disk of this size can be counted in 32 bits: up to
\* 2^30 blocks, less those that the header takes.
VdiCountable(size) == VdiStructSize + 4 * Pieces(size, VdiBlockSize) < Two32

\* The block map begins behind the header and has an entry for every block, the
\* data follows it, and the file ends with the last byte of the disk.
VdiHeaderFits(size, h) ==
  /\ h.offBlocks = VdiStructSize
  /\ h.blocks * VdiBlockSize >= size
  /\ (h.blocks - 1) * VdiBlockSize < size
  /\ h.offData = h.offBlocks + 4 * h.blocks
  /\ VirtImageSize("vdi", size) = h.offData + size /\ h.cbDisk = size

=============================================================================
