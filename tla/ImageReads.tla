------------------------------- MODULE ImageReads -------------------------------
(***************************************************************************)
(* From the files of the input images to the data of the morphed image:    *)
(* main opens each image and cuts it to --offset and --sizelimit, the      *)
(* morphing library computes the size of what it makes of them, and then   *)
(* every read of the morphed image (GetMorphedImageData, called with the   *)
(* image's mutex held, so one at a time) goes through the loop of the      *)
(* morphing library, through GetInputImageData and through the loop of the *)
(* input library, down to the reads of a file, any of which may fail.      *)
(***************************************************************************)
EXTENDS InputImages, Morphings, ImageHandles

CONSTANTS
  ByteBase,    \* 2^8, and 2^0, 2^8, ..., 2^56: what each byte of the size of an
  ByteWeights, \* AFF image counts

  Setups,      \* what may be mounted: images, offset, limit, morph and its
               \* options, and what there is to be seen: the bytes (disk),
               \* whether xmount can start (good), and whether no file is cut
               \* off where opening it does not show (whole)
  Faults,      \* BOOLEAN or {FALSE}: whether a read of a file may fail
  AnyRequest   \* whether requests need not fit the units of swab, unallocated

Positive == Nat \ {0}

ASSUME ImageConstants ==
  /\ Faults \subseteq BOOLEAN /\ FALSE \in Faults /\ AnyRequest \in BOOLEAN
  /\ Word \in Positive /\ Wide \in Nat /\ Word <= Wide /\ SectorUnit \in Positive
  /\ Fat12Below < Fat16Below /\ Fat16Mask \in Positive /\ DirEntrySize \in Nat
  /\ ByteBase \in Positive /\ IsFiniteSet(ByteWeights) /\ ByteWeights \subseteq Positive
  /\ \A w \in ByteWeights : w * ByteBase <= Wide

A == INSTANCE AaffImage

VARIABLES
  setup,   \* which of them is mounted
  pc,      \* where the program is
  sizes,   \* the images' sizes, of those that are open
  morph,   \* the morphing library: the morphed size, what Morph computed
  req,     \* the read of the morphed image
  at,      \* the loop of the morphing library: unit, ofs, left
  in,      \* the loop of the input library
  out,     \* what was copied to the caller's buffer
  ret,     \* how the last read ended
  met,     \* whether that read met an error of a file
  bad,     \* the images whose FILE has its error flag set
  aaff,    \* the handles of the AFF images, as far as the search is concerned
  handles, \* what the handles of the images hold
  twice    \* the images with something that was freed twice

vars == <<setup, pc, sizes, morph, req, at, in, out, ret, met, bad, aaff, handles, twice>>

Setup == Setups[setup]
Images == Setup.images
File(i) == Images[i + 1].file
Format(i) == Images[i + 1].format
Looped == {"raw", "qcow", "vdi"}
Whole == {"ewf", "aff", "aff4"}
Formats == Looped \cup Whole \cup {"aaff"}

\* What a mount is.  An AFF image has as many pages as there are in the file:
\* one or more, none of them behind the end that the imager stated.
IsSequence(s) == Len(s) \in Nat /\ s = [k \in 1..Len(s) |-> s[k]]

FileMakesSense(format, f) ==
  /\ format = "raw" =>
       IsSequence(f.pieces) /\ \A k \in DOMAIN f.pieces : Len(f.pieces[k].bytes) \in Nat
  /\ format = "qcow" =>
       f.size \in Nat /\ f.clusterSize \in Positive /\ f.l2Size \in Positive
  /\ format = "vdi" =>
       /\ f.size \in Nat /\ f.blockSize \in Nat
       /\ f.bmap \in Seq(Nat \cup {Discarded, Unallocated}) /\ Len(f.data) \in Nat
  /\ format \in Whole => f.size \in Nat /\ Len(f.bytes) \in Nat
  /\ format = "aaff" =>
       /\ f.size \in Positive /\ f.pageSize \in Positive /\ f.entries \in Positive
       /\ f.pageSize < Word
       /\ A!ImageSize(f) \in Positive /\ Len(f.pages) \in 1..A!TotalPages(f)
       /\ \A p \in 0..(Len(f.pages) - 1) :
            p * f.pageSize < f.size /\ Len(f.pages[p + 1]) = A!PageLen(f, p)

ImageSize(image) ==
  CASE image.format = "raw" -> RawSize(image.file)
    [] image.format = "aaff" -> A!ImageSize(image.file)
    [] OTHER -> image.file.size
PartSize(m, image) == IF m.limit # 0 THEN m.limit ELSE ImageSize(image) - m.offset

FsMakesSense(fs) ==
  fs.kind = "fat" =>
    /\ fs.reserved \in Nat /\ fs.fatCount \in Nat /\ FatSectors(fs) \in Nat
    /\ fs.bytesPerSector \in Nat /\ fs.sectorsPerCluster \in Nat /\ fs.rootEntries \in Nat
    /\ SectorsOf(fs) \in 0..(Word - 1)

MountMakesSense(m) ==
  /\ IsSequence(m.images)
  /\ \A k \in DOMAIN m.images :
       m.images[k].format \in Formats /\ FileMakesSense(m.images[k].format, m.images[k].file)
  /\ m.offset \in Nat /\ m.limit \in Nat
  /\ m.morph \in {"combine", "raid", "swab", "unallocated"}
  /\ m.morph = "raid" => m.chunk \in Positive
  /\ m.morph = "unallocated" => FsMakesSense(m.images[1].fs)
  /\ m.morph = "unallocated" /\ Len(m.images) = 1
       /\ UnallocatedMorphs(m.images[1].fs, PartSize(m, m.images[1]), m.fs) =>
     /\ FreeBlockSize(m.images[1].fs) \in Positive
     /\ FreeBlockMap(m.images[1].fs) \in Seq(Nat)

ASSUME MountsMakeSense == \A s \in DOMAIN Setups : MountMakesSense(Setups[s])

NoMorph == [size |-> 0, map |-> <<>>, unit |-> 0]
NoReq == [offset |-> 0, count |-> 0]
NoAt == [unit |-> 0, ofs |-> 0, left |-> 0]
NoIn == [image |-> 0, seek |-> 0, left |-> 0, asked |-> 0, got |-> 0, page |-> 0, hops |-> 0]

Init ==
  /\ setup \in DOMAIN Setups
  /\ pc = "open" /\ sizes = <<>> /\ morph = NoMorph
  /\ req = NoReq /\ at = NoAt /\ in = NoIn
  /\ out = <<>> /\ ret = "none" /\ met = FALSE /\ bad = {}
  /\ aaff = [i \in {j \in 0..(Len(Images) - 1) : Format(j) = "aaff"} |->
               A!AaffHandle(File(i))]
  /\ handles = <<>> /\ twice = {}

Unread == UNCHANGED <<req, at, in, out, ret, met, bad, aaff, twice>>

-----------------------------------------------------------------------------
(* The start: main.                                                        *)

Opens(i) ==
  LET f == File(i) IN
  CASE Format(i) = "raw" -> RawOpens(f)
    [] Format(i) = "qcow" -> QcowOpens(f)
    [] Format(i) = "vdi" -> VdiOpens(f)
    [] Format(i) = "ewf" -> EwfOpens(f)
    [] Format(i) = "aff" -> AffOpens(f)
    [] Format(i) = "aff4" -> Aff4Opens(f)
    [] Format(i) = "aaff" -> A!AaffOpens(f)

Size(i) == ImageSize(Images[i + 1])

\* The checks of --offset and --sizelimit, and the size they leave.
FitsOptions_AnyOffset(size) ==
  Setup.limit # 0 => Setup.limit <= size - Setup.offset
FitsOptions(size) ==
  /\ Setup.offset <= size
  /\ Setup.limit # 0 => Setup.limit <= size - Setup.offset

OpenImage ==
  /\ pc = "open" /\ Len(sizes) < Len(Images)
  /\ LET i == Len(sizes)
         end == CASE Opens(i) -> "opened"
                  [] ~Opens(i) /\ Format(i) = "raw" -> "missing"
                  [] OTHER -> "refused"
     IN /\ IF Opens(i) /\ FitsOptions(Size(i))
           THEN /\ sizes' = Append(sizes, PartSize(Setup, Images[i + 1]))
                /\ pc' = pc
           ELSE sizes' = sizes /\ pc' = "failed"
        /\ \E h \in OpenLeaves(Format(i), end) : handles' = Append(handles, h)
  /\ UNCHANGED <<setup, morph>> /\ Unread

\* There is no file, or a header, a table or a page of it cannot be read.
OpenFault ==
  /\ pc = "open" /\ Len(sizes) < Len(Images) /\ TRUE \in Faults
  /\ \E end \in {"missing", "unreadable"} :
       \E h \in OpenLeaves(Format(Len(sizes)), end) : handles' = Append(handles, h)
  /\ pc' = "failed" /\ met' = TRUE
  /\ UNCHANGED <<setup, sizes, morph, req, at, in, out, ret, bad, aaff, twice>>

Morphs ==
  Setup.morph = "unallocated" =>
    Len(sizes) = 1 /\ UnallocatedMorphs(Images[1].fs, sizes[1], Setup.fs)

Morphed ==
  CASE Setup.morph = "combine" -> [NoMorph EXCEPT !.size = CombineSize(sizes)]
    [] Setup.morph = "swab" -> [NoMorph EXCEPT !.size = SwabSize(sizes)]
    [] Setup.morph = "raid" -> [NoMorph EXCEPT !.size = RaidSize(sizes, Setup.chunk),
                                               !.unit = Setup.chunk]
    [] Setup.morph = "unallocated" ->
         LET fs == Images[1].fs
         IN [size |-> FreeBlockSize(fs) * Len(FreeBlockMap(fs)),
             map |-> FreeBlockMap(fs), unit |-> FreeBlockSize(fs)]

Morph ==
  /\ pc = "open" /\ Len(sizes) = Len(Images)
  /\ IF Morphs THEN pc' = "idle" /\ morph' = Morphed ELSE pc' = "failed" /\ morph' = morph
  /\ UNCHANGED <<setup, sizes, handles>> /\ Unread

\* The morphing library reads the header and the tables of a file system.
MorphFault ==
  /\ pc = "open" /\ Len(sizes) = Len(Images) /\ TRUE \in Faults
  /\ Setup.morph = "unallocated"
  /\ pc' = "failed" /\ met' = TRUE
  /\ UNCHANGED <<setup, sizes, morph, req, at, in, out, ret, bad, aaff, handles, twice>>

\* FreeResources: every handle that was created is closed and destroyed.
End ==
  /\ pc \in {"failed", "idle"}
  /\ pc' = "ended"
  /\ twice' = {i \in 0..(Len(handles) - 1) : GivenBackTwice(Format(i), handles[i + 1])}
  /\ handles' = [k \in DOMAIN handles |-> GivenBack(Format(k - 1), handles[k])]
  /\ req' = NoReq /\ at' = NoAt /\ in' = NoIn /\ out' = <<>> /\ ret' = "none"
  /\ UNCHANGED <<setup, sizes, morph, met, bad, aaff>>

-----------------------------------------------------------------------------
(* A read of the morphed image.                                            *)

\* The kernel asks for whole pages, which begin and end where a pair of bytes
\* does, and, in the small instances without AnyRequest, a free block too.
Askable(offset, count) ==
  \/ AnyRequest
  \/ Setup.morph \in {"combine", "raid"}
  \/ Setup.morph = "swab" /\ offset % 2 = 0 /\ count % 2 = 0
  \/ Setup.morph = "unallocated" /\ offset % morph.unit = 0

Finish(result) == pc' = "idle" /\ ret' = result
Static == UNCHANGED <<setup, sizes, morph, handles, twice>>

\* GetMorphedImageData: nothing is read behind the end of the image.
Request(offset, count) ==
  /\ pc = "idle" /\ Askable(offset, count)
  /\ req' = [offset |-> offset, count |-> count]
  /\ out' = <<>> /\ met' = FALSE /\ in' = NoIn
  /\ IF offset >= morph.size THEN Finish("ok") /\ at' = NoAt
     ELSE LET n == Min({count, morph.size - offset}) IN
          /\ at' = CASE Setup.morph = "combine" -> CombineStart(sizes, offset, n)
                     [] Setup.morph = "swab" -> SwabStart(offset, n)
                     [] OTHER -> UnitStart(morph.unit, offset, n)
          /\ pc' = "morphing" /\ ret' = "none"
  /\ UNCHANGED <<bad, aaff>> /\ Static

MorphStep ==
  CASE Setup.morph = "combine" -> CombineStep(sizes, at)
    [] Setup.morph = "raid" -> RaidStep(sizes, morph.unit, at)
    [] Setup.morph = "swab" -> SwabStep(at)
    [] Setup.morph = "unallocated" -> UnallocatedStep(morph.map, morph.unit, at)

MorphLeft == IF Setup.morph = "combine" THEN at.left # 0 /\ at.unit < Len(sizes)
             ELSE at.left # 0

\* The loop is over; combine fails if it ran out of images.
MorphDone ==
  /\ pc = "morphing" /\ ~MorphLeft
  /\ Finish(IF at.left = 0 THEN "ok" ELSE "error")
  /\ UNCHANGED <<req, at, in, out, met, bad, aaff>> /\ Static

\* One turn calls LibXmount_Morphing_Read and so GetInputImageData, which cuts
\* the read to the size of the image and adds --offset; a library that looks
\* at the end of its image refuses what is behind it.
MorphCall ==
  /\ pc = "morphing" /\ MorphLeft
  /\ LET step == MorphStep
         n == Min({step.count, sizes[step.image + 1] - step.offset})
         seek == step.offset + Setup.offset
     IN CASE step.image >= Len(sizes) -> Finish("error") /\ in' = in
          [] step.image < Len(sizes) /\ step.offset >= sizes[step.image + 1] ->
               /\ in' = [NoIn EXCEPT !.asked = step.count]
               /\ pc' = "back" /\ ret' = ret
          [] OTHER ->
               /\ in' = [image |-> step.image, seek |-> seek, left |-> n,
                         asked |-> step.count, got |-> n, hops |-> 0,
                         page |-> IF Format(step.image) = "aaff"
                                  THEN seek \div File(step.image).pageSize ELSE 0]
               /\ pc' = IF Format(step.image) = "aaff" THEN "page" ELSE "input"
               /\ ret' = ret
  /\ UNCHANGED <<req, at, out, met, bad, aaff>> /\ Static

\* The morphing library takes less than it asked for as an error.
MorphBack ==
  /\ pc = "back"
  /\ IF in.got # in.asked THEN Finish("error") /\ UNCHANGED <<at, out>>
     ELSE /\ pc' = "morphing" /\ ret' = ret
          /\ IF Setup.morph = "swab"
             THEN /\ \E behind \in {Zero, A!TornByte} :
                       out' = SwabBytes(out, at.left, behind)
                  /\ at' = [at EXCEPT !.left = 0]
             ELSE /\ out' = out
                  /\ at' = [unit |-> at.unit + 1, ofs |-> 0, left |-> at.left - in.asked]
  /\ UNCHANGED <<req, in, met, bad, aaff>> /\ Static

-----------------------------------------------------------------------------
(* A read of an input image.                                               *)

Read0(i, seek, count) ==
  CASE Format(i) = "raw" -> RawRead0(File(i), seek, count)
    [] Format(i) = "qcow" -> QcowRead0(File(i), seek, count)
    [] Format(i) = "vdi" -> VdiRead0(File(i), seek, count)
    [] OTHER -> LibraryRead(File(i), seek, count)

\* RawRead, QcowRead and VdiRead go on until all is read; what a library
\* answers is all.  A FILE whose error flag is set stays so: QcowUtilFileRead,
\* which looks at the flag, fails from then on.
InputStep ==
  /\ pc = "input"
  /\ LET i == in.image
         answer == Read0(i, in.seek, in.left)
         n == Len(answer.data)
     IN \E fault \in Faults :
          /\ fault => answer.io
          /\ IF ~answer.ok \/ fault \/ (answer.io /\ i \in bad)
                \/ (Format(i) \in Looped /\ in.seek + in.left > Size(i))
             THEN /\ Finish("error")
                  /\ met' = (met \/ fault)
                  /\ bad' = IF fault /\ Format(i) = "qcow" THEN bad \cup {i} ELSE bad
                  /\ UNCHANGED <<in, out>>
             ELSE /\ out' = out \o answer.data
                  /\ in' = [in EXCEPT !.seek = @ + n, !.left = @ - n]
                  /\ pc' = IF in.left = n THEN "back" ELSE "input"
                  /\ UNCHANGED <<ret, met, bad>>
  /\ UNCHANGED <<req, at, aaff>> /\ Static

-----------------------------------------------------------------------------
(* AaffRead: page by page.  The loop is controlled by Count, which it does *)
(* not change, and not by what remains.                                    *)

\* The part of the page in the buffer that is asked for.  PageLen - Ofs is a
\* uint32_t: in a page that ends in front of Ofs it is large.
CopyPage(a) ==
  LET f == File(in.image)
      buffer == A!PageBuffer(f, a)
      ofs == IF in.page = in.seek \div f.pageSize THEN in.seek % f.pageSize ELSE 0
      n == Min({(Len(buffer) - ofs) % Word, in.left})
  IN /\ out' = out \o A!FromBuffer(buffer, ofs, n)
     /\ in' = [in EXCEPT !.left = @ - n, !.page = @ + 1, !.hops = 0]
     /\ pc' = "page"

\* AaffReadPage until its loop.
AaffPage ==
  /\ pc = "page"
  /\ LET f == File(in.image)
         a == aaff[in.image]
     IN CASE in.page >= A!TotalPages(f) ->
               Finish("error") /\ UNCHANGED <<in, out, aaff>>
          [] in.page < A!TotalPages(f) /\ A!InBuffer(a, in.page) ->
               CopyPage(a) /\ UNCHANGED <<ret, aaff>>
          [] OTHER ->
               /\ \E behind \in A!BehindArray(f) :
                    /\ aaff' = [aaff EXCEPT ![in.image] = A!SearchFrom(f, a, in.page, behind)]
                    /\ in' = [in EXCEPT !.hops = A!MaxHops(f, a, in.page, behind)]
               /\ pc' = "hop"
               /\ UNCHANGED <<out, ret>>
  /\ UNCHANGED <<req, at, met, bad>> /\ Static

\* One turn of that loop: the page is found, another one is passed, or there
\* are no hops left.
AaffHop ==
  /\ pc = "hop" /\ A!AtPage(File(in.image), aaff[in.image])
  /\ LET a == A!Passed(File(in.image), aaff[in.image], in.page) IN
     /\ aaff' = [aaff EXCEPT ![in.image] = a]
     /\ CASE aaff[in.image].pos = in.page -> CopyPage(a) /\ ret' = ret
          [] aaff[in.image].pos # in.page /\ in.hops = 1 ->
               Finish("error") /\ UNCHANGED <<in, out>>
          [] OTHER ->
               /\ in' = [in EXCEPT !.hops = @ - 1]
               /\ UNCHANGED <<pc, out, ret>>
  /\ UNCHANGED <<req, at, met, bad>> /\ Static

\* It ends where no page's segment starts, or a read of the file fails.
AaffLost ==
  /\ pc = "hop"
  /\ \E fault \in Faults :
       /\ fault \/ ~A!AtPage(File(in.image), aaff[in.image])
       /\ met' = (met \/ fault)
  /\ \E a \in A!Broken(File(in.image), aaff[in.image], in.page) :
       aaff' = [aaff EXCEPT ![in.image] = a]
  /\ Finish("error")
  /\ UNCHANGED <<req, at, in, out, bad>> /\ Static

-----------------------------------------------------------------------------
Steps ==
  \/ OpenImage \/ OpenFault \/ Morph \/ MorphFault
  \/ MorphDone \/ MorphCall \/ MorphBack
  \/ InputStep
  \/ AaffPage \/ AaffHop \/ AaffLost

\* Bound of the model: reads begin at most one byte behind the end.
Requests ==
  \E offset \in 0..morph.size, count \in 1..(morph.size + 1) : Request(offset, count)

Next == Steps \/ Requests \/ End

Spec == Init /\ [][Next]_vars

\* The program goes on; only its users decide whether to read.
FairSpec == Spec /\ WF_vars(Steps)

-----------------------------------------------------------------------------
(* Properties.                                                             *)

TypeOK ==
  /\ setup \in DOMAIN Setups
  /\ pc \in {"open", "failed", "ended", "idle", "morphing", "input", "back", "page", "hop"}
  /\ Len(sizes) <= Len(Images) /\ \A k \in DOMAIN sizes : sizes[k] \in Nat
  /\ morph.size \in Nat
  /\ at.left \in 0..req.count /\ at.unit \in Nat /\ at.ofs \in Nat
  /\ in.left \in 0..in.got /\ in.got <= in.asked
  /\ ret \in {"none", "ok", "error"} /\ met \in BOOLEAN
  /\ bad \subseteq 0..(Len(Images) - 1)
  /\ \A i \in DOMAIN aaff :
       /\ aaff[i].page \in {A!NotSet} \cup 0..(Len(File(i).pages) - 1)
       /\ aaff[i].buf \in {A!Torn} \cup 0..(Len(File(i).pages) - 1)
       /\ aaff[i].pos \in {A!Lost} \cup 0..Len(File(i).pages)

\* What the code takes wrong, and the properties except: the size of an AFF
\* image with a byte of 128 and more in it; a smallest image of a RAID that is
\* smaller than a chunk; and in a file system the entries of a FAT16 that are
\* free only as far as the code looks at them, the places in an HFS that end
\* behind a uint32_t, and a FAT whose header counts more than there is.
SizesRead(m) ==
  \A k \in DOMAIN m.images :
    m.images[k].format = "aaff" => A!SignedBytes(m.images[k].file.size) = {}

ChunksEverywhere(m) ==
  m.morph = "raid" => \A k \in DOMAIN m.images : m.chunk <= PartSize(m, m.images[k])

FatTold(fs) ==
  /\ fs.fatCount * FatSectors(fs) < Word
  /\ FatDataSector(fs) <= SectorsOf(fs)
  /\ \A c \in FatFreeClusters(fs) : fs.fat[c + 1] \in {0, fs.bad}
HfsTold(fs) ==
  /\ \A k \in DOMAIN HfsAllocBlocks(fs) : HfsAllocBlocks(fs)[k] * fs.blockSize \in 0..(Word - 1)
  /\ LET free == HfsFreeBlocks(fs, HfsBits(fs, HfsAllocPlaces(fs)))
     IN \A k \in DOMAIN free : free[k] * fs.blockSize \in 0..(Word - 1)
BlocksTold(m) ==
  m.morph = "unallocated" /\ Len(m.images) = 1 =>
    IF m.images[1].fs.kind = "hfs" THEN HfsTold(m.images[1].fs) ELSE FatTold(m.images[1].fs)

TakenRight(m) == SizesRead(m) /\ ChunksEverywhere(m) /\ BlocksTold(m)

Started == pc \notin {"open", "failed", "ended"}

\* The bytes of the morphed image that the read is about.
Asked == SubSeq(Setup.disk, req.offset + 1,
                Min({req.offset + req.count, Len(Setup.disk)}))

\* xmount starts with what it can serve and with nothing else: an image that
\* is cut off, encrypted, of another version or too small for --offset and
\* --sizelimit is refused, as is a file system that cannot be read; nothing
\* else is, unless a file cannot be read.  But for what it takes wrong.
StartsIfItCan ==
  SizesRead(Setup) /\ BlocksTold(Setup) =>
    /\ pc = "failed" => met \/ ~Setup.good
    /\ Started => Setup.good

\* The size the morphing library computes is that of the data there is to be
\* read, be the images of different sizes or cut by the options.
SizeIsTheImages == Started /\ TakenRight(Setup) => morph.size = Len(Setup.disk)

\* A read that succeeds has copied exactly the bytes it is about: through the
\* tables of a QCOW or VDI image, over the ends of pieces, clusters, chunks,
\* free blocks and images.
ReadsDeliverImage == pc = "idle" /\ ret = "ok" /\ TakenRight(Setup) => out = Asked

\* Nor does one that goes on or fails copy more than that, or anything else;
\* but for a page of an AFF image that was once read in part.
CopiedIsTheImage ==
  Setup.morph # "swab" /\ TakenRight(Setup) =>
    /\ Len(out) <= Len(Asked)
    /\ \A k \in DOMAIN out : out[k] \in {Asked[k], A!TornByte}

\* A read does not fail unless a file cannot be read or is cut off; or could
\* not be read once, for a QCOW image; or the image is an AFF image.
FailuresHaveACause ==
  pc = "idle" /\ ret = "error" /\ TakenRight(Setup) =>
    met \/ bad # {} \/ DOMAIN aaff # {} \/ ~Setup.whole

\* What the seek array of an AFF image knows is right, whatever searches
\* failed, and between two searches the file is positioned behind the page
\* that was read last, as the next search takes for granted, or nowhere.  The
\* latter is known only if the array is as long as what the code looks up in it.
SearchesStartRight ==
  \A i \in DOMAIN aaff :
    LET a == aaff[i] IN
    /\ \A e \in DOMAIN a.seeks : a.seeks[e] \in {A!NotSet, e * A!PagesPerEntry(File(i))}
    /\ pc # "hop" /\ a.page # A!NotSet /\ A!SeeksCover(File(i)) =>
         a.pos \in {a.page + 1, A!Lost}

\* At the end nothing that the images held is left, but for the name and the
\* FILE of a VDI image, and nothing was freed twice; but an image whose Open
\* failed because a piece of it is missing (raw) or it is encrypted (AFF) is
\* closed again.
GivenBackOnce ==
  pc = "ended" =>
    /\ \A k \in DOMAIN handles : \A p \in Parts :
         handles[k][p] = "held" => Format(k - 1) = "vdi" /\ p # "table"
    /\ \A i \in twice : i = Len(sizes) /\ Format(i) \in {"raw", "aff"}

\* Every call ends, with data or an error: the start, and each read, whatever
\* is read from which pieces; AaffRead only because it runs out of pages.
AtRest == pc \in {"idle", "failed", "ended"}
CallsReturn == ~AtRest ~> AtRest

\* "If calling function asks for data beyond end of image simply return what
\* is possible" (libxmount_input_aaff.c): a read that meets no error of the
\* file does not fail.
AaffReadsSucceed == pc = "idle" /\ ret = "error" => met
=============================================================================
