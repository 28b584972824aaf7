------------------------------- MODULE AaffImage -------------------------------
(***************************************************************************)
(* The reader for AFF images of Guymager (libxmount_input_aaff.c).  The    *)
(* pages of the image are segments of the file, one behind the other, and  *)
(* can only be found by going from segment to segment.  The handle         *)
(* remembers where some of them start, one in Interleave, and the page it  *)
(* read last, whose data are in the page buffer and behind whose segment   *)
(* the file is positioned, as long as nothing went wrong.                  *)
(*                                                                         *)
(* A file is what the imager wrote: its size is the one it stated, and its *)
(* pages are those that are there.  A position is the number of the page   *)
(* whose segment starts there.                                             *)
(***************************************************************************)
EXTENDS Integers, SequencesExt

CONSTANTS
  Wide,         \* 2^64: where uint64_t ends
  ByteBase,     \* 2^8: the values of a byte
  ByteWeights   \* 2^0, 2^8, ..., 2^56: what each byte of a number counts

NotSet == -1   \* CurrentPage, a seek entry
Lost == -2     \* a position that is not the start of a page's segment
Torn == -3     \* the page buffer after a page was read in part
TornByte == <<-1, 0>>

CeilDiv(a, b) == (a + b - 1) \div b

\* AaffU64 puts a number together from its bytes, which are of type char: one
\* of 128 and more sets all the bits above it.
SignedBytes(n) == {w \in ByteWeights : (n \div w) % ByteBase >= ByteBase \div 2}
AaffU64(n) ==
  IF SignedBytes(n) = {} THEN n
  ELSE LET reach == Min(SignedBytes(n)) * ByteBase IN (Wide - reach) + (n % reach)

ImageSize(file) == AaffU64(file.size)
TotalPages(file) == CeilDiv(ImageSize(file), file.pageSize)

\* AaffOpen: how many pages share an entry of the seek array, which has room
\* for file.entries of them, and how long the array is: pages behind the last
\* whole group of them have their entry behind the array.
PagesPerEntry(file) == CeilDiv(TotalPages(file), Min({file.entries, TotalPages(file)}))
SeekEntries(file) == 0..(TotalPages(file) \div PagesPerEntry(file) - 1)
SeeksCover(file) == TotalPages(file) % PagesPerEntry(file) = 0

AaffOpens(file) ==
  /\ file.files = 1 /\ file.signed
  /\ file.pageSize # 0 /\ file.sectorSize # 0 /\ file.sectors # 0
  /\ ImageSize(file) # 0
  /\ file.typed /\ file.guymager
  /\ file.firstPage = 0

\* The handle after AaffOpen: the header segments and page 0 are passed.
AaffHandle(file) ==
  [page |-> NotSet, buf |-> Torn, pos |-> 1,
   seeks |-> [e \in SeekEntries(file) |-> IF e = 0 THEN 0 ELSE NotSet]]

PageLen(file, page) ==
  Min({file.pageSize, file.size - page * file.pageSize})

\* The bytes of the page buffer, and n of them: what lies behind is whatever
\* lies there.
PageBuffer(file, a) ==
  IF a.buf = Torn THEN [k \in 1..PageLen(file, a.page) |-> TornByte]
  ELSE file.pages[a.buf + 1]
FromBuffer(buffer, ofs, n) ==
  [k \in 1..n |-> IF ofs + k <= Len(buffer) THEN buffer[ofs + k] ELSE TornByte]

\* AaffReadPage before its loop: whether the page is in the buffer already,
\* or else where the search starts and how many segments it may pass.  An
\* entry behind the array is read like the others: it may look unset, or be
\* the position of anything.
InBuffer(a, page) == page = a.page

NextInFile(a, page) == a.page # NotSet /\ a.page + 1 = page

BehindArray(file) == {NotSet, Lost} \cup 0..(Len(file.pages) - 1)
EntryIs(file, a, e, behind) == IF e \in SeekEntries(file) THEN a.seeks[e] ELSE behind

SearchEntry(file, a, page, behind) ==
  Max({e \in 0..(page \div PagesPerEntry(file)) : EntryIs(file, a, e, behind) # NotSet})

SearchFrom(file, a, page, behind) ==
  IF NextInFile(a, page) THEN a
  ELSE [a EXCEPT !.pos = EntryIs(file, a, SearchEntry(file, a, page, behind), behind)]

MaxHops(file, a, page, behind) ==
  IF NextInFile(a, page) THEN 1
  ELSE page - SearchEntry(file, a, page, behind) * PagesPerEntry(file) + 1

\* One turn of that loop, AaffReadSegmentPage: the segment at the position is
\* passed and, if it is the page's, read.
AtPage(file, a) == a.pos \in 0..(Len(file.pages) - 1)

\* What an entry that is written behind the array destroys is left out.
WithEntry(file, a) ==
  IF a.pos % PagesPerEntry(file) = 0 /\ a.pos \div PagesPerEntry(file) \in SeekEntries(file)
  THEN [a EXCEPT !.seeks[a.pos \div PagesPerEntry(file)] = a.pos]
  ELSE a

Passed(file, a, page) ==
  LET b == [WithEntry(file, a) EXCEPT !.pos = a.pos + 1]
  IN IF a.pos = page THEN [b EXCEPT !.page = page, !.buf = page] ELSE b

\* What the handle may be when a read of the file fails in that turn: before
\* the data, within the data, or behind it.
Broken_KeepsPosition(file, a, page) ==
  IF AtPage(file, a) /\ a.pos = page
  THEN {a, [a EXCEPT !.buf = Torn], [a EXCEPT !.page = page, !.buf = page]}
  ELSE {a}
Broken(file, a, page) ==
  LET b == [a EXCEPT !.pos = Lost]
  IN IF AtPage(file, a) /\ a.pos = page
     THEN {b, [b EXCEPT !.buf = Torn], [b EXCEPT !.page = page, !.buf = page]}
     ELSE {b}
=============================================================================
