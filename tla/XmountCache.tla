----------------------------- MODULE XmountCache -----------------------------
(***************************************************************************)
(* The write-back cache of xmount (src/src/xmount.c).                      *)
(*                                                                         *)
(* Writes to the emulated image never touch the input image.  The cache    *)
(* file starts with a header and a block index; a block of the image, or   *)
(* the VDI header or VHD footer of the emulated file, that is written for  *)
(* the first time is appended to it as a whole "chunk", and its slot in    *)
(* the header or index is then rewritten to say where it is.  Later writes *)
(* go into the chunk in place.  All of this goes through one stdio stream  *)
(* with its buffer and one file position, shared by the FUSE worker        *)
(* threads under mutex_image_rw.                                           *)
(*                                                                         *)
(* Addresses are counted in cells: a slot takes one cell of the cache      *)
(* file, and so does each unit of data.                                    *)
(***************************************************************************)
EXTENDS Naturals, Sequences

CONSTANTS
  Threads, NoThread,       \* FUSE worker threads; "the mutex is free"
  BlockSize,               \* CACHE_BLOCK_SIZE
  ImageSize,               \* size of the morphed image
  VdiSize, VhdSize,        \* sizes of the VDI header and the VHD footer
  Values, Zero,            \* contents of a cell of data; the padding
  Image,                   \* contents of the morphed image
  VdiHeader, VhdFooter,    \* contents of the generated header and footer
  OutputTypes,             \* the --out types this cache file is used with
  Payloads,                \* the data written by one request
  ReadSizes,               \* the sizes of read requests
  Faults,                  \* I/O faults that may happen
  MayOverwrite,            \* whether xmount is ever started with --owcache
  MaxFileLen               \* bound: no write is delivered to a longer file

ASSUME ThreadsAssumption == NoThread \notin Threads
ASSUME SizesAssumption ==
  /\ BlockSize \in Nat \ {0}
  /\ ImageSize \in Nat \ {0}
  /\ VdiSize \in Nat \ {0}
  /\ VhdSize \in Nat \ {0}
  /\ MaxFileLen \in Nat
ASSUME ContentsAssumption ==
  /\ Zero \in Values
  /\ Image \in [0..ImageSize-1 -> Values]
  /\ VdiHeader \in [0..VdiSize-1 -> Values]
  /\ VhdFooter \in [0..VhdSize-1 -> Values]
ASSUME RequestsAssumption ==
  /\ OutputTypes \subseteq {"dd", "vdi", "vhd"}
  /\ Payloads \subseteq Seq(Values) \ {<<>>}
  /\ ReadSizes \subseteq Nat \ {0}
  /\ Faults \subseteq {"input", "data", "entry", "flush"}
  /\ MayOverwrite \in BOOLEAN

VARIABLES
  file,     \* the cache file as the kernel has it: [len, cell]
  at, buf,  \* stdio: where the unwritten data goes, and that data
  mem,      \* header and block index in memory: slot |-> [Assigned, off_data]
  otype,    \* VirtImageType of the running xmount, or "none"
  mutex,    \* owner of mutex_image_rw
  th        \* the FUSE worker threads and the request each one handles

vars == <<file, at, buf, mem, otype, mutex, th>>

-----------------------------------------------------------------------------
(* Geometry                                                                *)

Least(a, b) == IF a < b THEN a ELSE b

\* needed_blocks
NeededBlocks == ImageSize \div BlockSize
                  + (IF ImageSize % BlockSize # 0 THEN 1 ELSE 0)

VdiChunk == 0
VhdChunk == 1
BlockChunk(b) == 2 + b
Chunks == 0..NeededBlocks + 1
IsBlock(c) == c >= 2

\* The cells of the cache file taken by the header and the block index.
DataStart == NeededBlocks + 2

\* Mutant: index entries are written one entry too far.
SlotAddress_Shifted(c) == IF IsBlock(c) THEN c + 1 ELSE c

\* Where the slot of chunk c is in the cache file.
SlotAddress(c) == c

ChunkSize(c) == CASE c = VdiChunk -> VdiSize
                  [] c = VhdChunk -> VhdSize
                  [] OTHER -> BlockSize

\* The uncached contents of cell i of chunk c; a block that reaches past the
\* end of the image is padded.
Original(c, i) ==
  CASE c = VdiChunk -> VdiHeader[i]
    [] c = VhdChunk -> VhdFooter[i]
    [] OTHER -> LET a == (c - 2) * BlockSize + i
                IN IF a < ImageSize THEN Image[a] ELSE Zero

VirtImageSize(ot) == CASE ot = "vdi" -> ImageSize + VdiSize
                       [] ot = "vhd" -> ImageSize + VhdSize
                       [] OTHER -> ImageSize

\* Offset in the morphed image of offset v of the virtual file.
ImageOffset(ot, v) == IF ot = "vdi" THEN v - VdiSize ELSE v

\* The chunk that offset v of the virtual file belongs to, the offset in it,
\* and how many cells from there on one pass of the code handles.
ChunkAt(ot, v) ==
  CASE ot = "vdi" /\ v < VdiSize -> VdiChunk
    [] ot = "vhd" /\ v >= ImageSize -> VhdChunk
    [] OTHER -> BlockChunk(ImageOffset(ot, v) \div BlockSize)

\* Mutant: the VHD footer is always written from its start on.
OffsetAt_FooterStart(ot, v) ==
  CASE ot = "vdi" /\ v < VdiSize -> v
    [] ot = "vhd" /\ v >= ImageSize -> 0
    [] OTHER -> ImageOffset(ot, v) % BlockSize

OffsetAt(ot, v) ==
  CASE ot = "vdi" /\ v < VdiSize -> v
    [] ot = "vhd" /\ v >= ImageSize -> v - ImageSize
    [] OTHER -> ImageOffset(ot, v) % BlockSize

CountAt(ot, v, left) ==
  CASE ot = "vdi" /\ v < VdiSize -> Least(left, VdiSize - v)
    [] ot = "vhd" /\ v >= ImageSize -> left
    [] OTHER -> LET f == ImageOffset(ot, v)
                IN Least(Least(left, BlockSize - (f % BlockSize)), ImageSize - f)

-----------------------------------------------------------------------------
(* stdio.  The stream is a kernel file and one run of unwritten cells; the *)
(* file position is the end of that run.                                   *)

EmptyFile == [len |-> 0, cell |-> <<>>]

\* File f after d is written at address a; a gap before it reads as zero.
Overwrite(f, a, d) ==
  LET end == IF d # <<>> /\ a + Len(d) > f.len THEN a + Len(d) ELSE f.len
  IN [len  |-> end,
      cell |-> [x \in 0..end-1 |->
                  CASE x \in a..a+Len(d)-1 -> d[x - a + 1]
                    [] x \notin a..a+Len(d)-1 /\ x < f.len -> f.cell[x]
                    [] OTHER -> Zero]]

\* The file once the first n unwritten cells have reached the kernel.
Written(n) == Overwrite(file, at, SubSeq(buf, 1, n))
Flushed == Written(Len(buf))

\* fseeko to address a: writes out the buffer, then moves.
SeekTo(a) == file' = Flushed /\ buf' = <<>> /\ at' = a

\* fflush: writes out the buffer, the position stays.
Flush == SeekTo(at + Len(buf))

\* The write inside fflush or fseeko fails half way; stdio drops the rest.
FlushFails ==
  /\ "flush" \in Faults
  /\ \E n \in 0..Len(buf)-1 : file' = Written(n) /\ at' = at + n
  /\ buf' = <<>>

\* fwrite of d at the position; stdio may write some of it at once, which is
\* the same as writing it later because nobody else looks at the file.
Put(d) == buf' = buf \o d /\ UNCHANGED <<file, at>>

\* fwrite fails after some of the data reached the file.
PutFails(d) ==
  /\ "data" \in Faults
  /\ \E n \in 0..Len(d)-1 :
       /\ file' = Overwrite(file, at, SubSeq(buf \o d, 1, Len(buf) + n))
       /\ at' = at + Len(buf) + n
  /\ buf' = <<>>

UnchangedStream == UNCHANGED <<file, at, buf>>

-----------------------------------------------------------------------------
(* The threads                                                             *)

IdleThread == [pc |-> "idle", op |-> "read", off |-> 0, want |-> 0,
               done |-> 0, data |-> <<>>, ok |-> TRUE]

IdleThreads == [t \in Threads |-> IdleThread]

Goto(t, pc) == th' = [th EXCEPT ![t].pc = pc]

\* Mutant: an error path that returns without unlocking the mutex.
Fail_WithoutUnlock(t) ==
  th' = [th EXCEPT ![t].pc = "answered", ![t].ok = FALSE]

\* An error return: the request is answered as failed once the mutex is free.
Fail(t) == th' = [th EXCEPT ![t].pc = "answer", ![t].ok = FALSE]

\* The piece of the request that thread t works on.
Left(t) == th[t].want - th[t].done
Chunk(t) == ChunkAt(otype, th[t].off + th[t].done)
ChunkOff(t) == OffsetAt(otype, th[t].off + th[t].done)
Count(t) == CountAt(otype, th[t].off + th[t].done, Left(t))
NewData(t) == SubSeq(th[t].data, th[t].done + 1, th[t].done + Count(t))

\* n cells of the original contents of chunk c from cell first on.
\* Mutant: they are taken one cell too far.
OriginalRange_Shifted(c, first, n) ==
  [i \in 1..n |-> Original(c, (first + i) % ChunkSize(c))]

OriginalRange(c, first, n) == [i \in 1..n |-> Original(c, first + i - 1)]

\* GetMorphedImageData: TRUE when something can be read at offset a of the
\* image, 0 - which its callers take for an error - at or past the end.
MorphedReadable(a) == a < ImageSize

\* What a slot holds; the entries that data taken for a slot may read as are
\* bounded like the file.
Entry == [Assigned : BOOLEAN, off_data : Nat]
AnyEntry == [Assigned : BOOLEAN, off_data : 0..MaxFileLen]

EmptyIndex == [c \in Chunks |-> [Assigned |-> FALSE, off_data |-> 0]]

Init ==
  /\ file = EmptyFile
  /\ at = 0
  /\ buf = <<>>
  /\ mem = EmptyIndex
  /\ otype = "none"
  /\ mutex = NoThread
  /\ th = IdleThreads

\* xmount is started; InitCacheFile finds no cache file, an empty one or one
\* to overwrite, and fwrite of the new header and index leaves them in the
\* buffer of the stream, or fails and the program ends.
MountNew ==
  /\ otype = "none"
  /\ file.len = 0 \/ MayOverwrite
  /\ LET slots == [i \in 1..DataStart |-> EmptyIndex[i - 1]]
     IN \/ /\ file' = EmptyFile
           /\ buf' = slots
           /\ otype' \in OutputTypes
        \/ /\ "data" \in Faults
           /\ \E n \in 0..DataStart-1 :
                file' = Overwrite(EmptyFile, 0, SubSeq(slots, 1, n))
           /\ UNCHANGED <<buf, otype>>
  /\ at' = 0
  /\ UNCHANGED <<mem, mutex, th>>

\* Mutant: the flags of VDI header and VHD footer are not taken over.
LoadedSlot_IndexOnly(c) == IF IsBlock(c) THEN file.cell[c] ELSE EmptyIndex[c]

\* What InitCacheFile reads for slot c.
LoadedSlot(c) == file.cell[c]

\* InitCacheFile reads header and index of an existing cache file.  The
\* signature has to be right; a slot that data was written to, which only a
\* failing fflush of a new header can lead to, reads as any entry.
MountExisting ==
  /\ otype = "none"
  /\ file.len >= DataStart
  /\ file.cell[0] \in Entry
  /\ \E garbage \in [{c \in Chunks : file.cell[c] \notin Entry} -> AnyEntry] :
       mem' = [c \in Chunks |-> IF c \in DOMAIN garbage THEN garbage[c]
                                ELSE LoadedSlot(c)]
  /\ at' = DataStart
  /\ otype' \in OutputTypes
  /\ UNCHANGED <<file, buf, mutex, th>>

\* The file is too short for header and index, or has no header at all.
MountRefused ==
  /\ otype = "none"
  /\ file.len # 0
  /\ file.len < DataStart \/ file.cell[0] \notin Entry
  /\ UNCHANGED vars

\* The process is gone after n of the unwritten cells reached the kernel.
Ended(n) ==
  /\ otype # "none"
  /\ file' = Written(n)
  /\ at' = 0
  /\ buf' = <<>>
  /\ mem' = EmptyIndex
  /\ otype' = "none"
  /\ mutex' = NoThread
  /\ th' = IdleThreads

\* fuse_main returns and FreeResources closes the cache file.
Unmount ==
  /\ \A t \in Threads : th[t].pc \in {"idle", "answered"}
  /\ Ended(Len(buf))

\* xmount is killed, any part of the buffer having been written by then; or
\* the write inside fclose fails.
Crash == \E n \in 0..Len(buf) : Ended(n)

\* FUSE calls FuseRead or FuseWrite in thread t.
Request(t, op, off, want, data) ==
  /\ otype # "none"
  /\ th[t].pc \in {"idle", "answered"}
  /\ th' = [th EXCEPT ![t] = [IdleThread EXCEPT !.pc = "called", !.op = op,
                                !.off = off, !.want = want, !.data = data]]
  /\ UNCHANGED <<file, at, buf, mem, otype, mutex>>

RequestRead(t) ==
  \E off \in 0..VirtImageSize(otype), n \in ReadSizes :
    Request(t, "read", off, n, <<>>)

RequestWrite(t) ==
  /\ file.len <= MaxFileLen
  /\ \E off \in 0..VirtImageSize(otype), data \in Payloads :
       Request(t, "write", off, Len(data), data)

\* pthread_mutex_lock, then the size is cut at the end of the virtual file.
Clipped(off, want) ==
  IF off < VirtImageSize(otype)
  THEN Least(want, VirtImageSize(otype) - off) ELSE 0

\* Mutant: the mutex does not keep other threads out.
MutexFree_Ignored == TRUE

MutexFree == mutex = NoThread

Lock(t) ==
  /\ th[t].pc = "called"
  /\ MutexFree
  /\ mutex' = t
  /\ LET want == Clipped(th[t].off, th[t].want)
     IN th' = [th EXCEPT ![t].pc = "piece", ![t].want = want,
                 ![t].data = SubSeq(@, 1, IF th[t].op = "write" THEN want ELSE 0)]
  /\ UNCHANGED <<file, at, buf, mem, otype>>

\* pthread_mutex_unlock, and the request is answered.
Answer(t) ==
  /\ \/ th[t].pc = "answer"
     \/ th[t].pc = "piece" /\ Left(t) = 0
  /\ mutex' = NoThread
  /\ th' = [th EXCEPT ![t] =
              [IdleThread EXCEPT !.pc = "answered", !.op = th[t].op, !.ok = th[t].ok,
                 !.data = IF th[t].op = "read" /\ th[t].ok THEN th[t].data ELSE <<>>]]
  /\ UNCHANGED <<file, at, buf, mem, otype>>

\* Thread t is at the top of the loop over pieces of a request of kind op.
AtPiece(t, op) ==
  /\ th[t].pc = "piece"
  /\ th[t].op = op
  /\ Left(t) # 0

Received(t, d) == th' = [th EXCEPT ![t].pc = "piece", ![t].data = @ \o d,
                                   ![t].done = @ + Len(d)]

\* GetVirtImageData, a piece that is not cached: from the input image or the
\* generated header or footer.
ReadOriginal(t) ==
  /\ AtPiece(t, "read")
  /\ ~mem[Chunk(t)].Assigned
  /\ \/ Received(t, OriginalRange(Chunk(t), ChunkOff(t), Count(t)))
     \/ "input" \in Faults /\ IsBlock(Chunk(t)) /\ Fail(t)
  /\ UnchangedStream
  /\ UNCHANGED <<mem, otype, mutex>>

\* A cached piece, read or written in place: fseeko to it.
SeekCached(t) ==
  /\ th[t].pc = "piece"
  /\ Left(t) # 0
  /\ mem[Chunk(t)].Assigned
  /\ \/ /\ SeekTo(mem[Chunk(t)].off_data + ChunkOff(t))
        /\ Goto(t, IF th[t].op = "read" THEN "fread" ELSE "fwrite")
     \/ FlushFails /\ Fail(t)
  /\ UNCHANGED <<mem, otype, mutex>>

\* fread at the position; it fails when the file ends before.
ReadCached(t) ==
  /\ th[t].pc = "fread"
  /\ UNCHANGED <<file, buf>>
  /\ \/ /\ at + Count(t) <= file.len
        /\ Received(t, [i \in 1..Count(t) |-> file.cell[at + i - 1]])
        /\ at' = at + Count(t)
     \/ /\ at + Count(t) > file.len
        /\ Fail(t)
        /\ at' = IF at > file.len THEN at ELSE file.len
  /\ UNCHANGED <<mem, otype, mutex>>

\* fwrite of the piece into its chunk.
WriteCached(t) ==
  /\ th[t].pc = "fwrite"
  /\ \/ Put(NewData(t)) /\ Goto(t, "sync")
     \/ PutFails(NewData(t)) /\ Fail(t)
  /\ UNCHANGED <<mem, otype, mutex>>

\* Mutant: every chunk goes where the first one does, behind the index.
AppendAddress_Fixed == DataStart

\* Where a new chunk starts: fseeko with SEEK_END.
AppendAddress == Flushed.len

\* First write to a chunk: it will start at the end of the cache file.
\* SetVirtImageData does not look at what this fseeko returns.
SeekEnd(t) ==
  /\ AtPiece(t, "write")
  /\ ~mem[Chunk(t)].Assigned
  /\ \/ /\ SeekTo(AppendAddress) \/ (FlushFails /\ IsBlock(Chunk(t)))
        /\ mem' = [mem EXCEPT ![Chunk(t)].off_data = at']
        /\ Goto(t, "append")
     \/ FlushFails /\ ~IsBlock(Chunk(t)) /\ Fail(t) /\ UNCHANGED mem
  /\ UNCHANGED <<otype, mutex>>

\* Mutant: the chunk is not filled up behind the changed data.
Padding_Missing(c, end) == <<>>

\* What follows the changed data in the appended chunk.
Padding(c, end) == OriginalRange(c, end, ChunkSize(c) - end)

\* The whole chunk is appended: original contents before the changed data,
\* the data, original contents after it.
AppendChunk(t) ==
  /\ th[t].pc = "append"
  /\ LET c == Chunk(t)
         o == ChunkOff(t)
         end == o + Count(t)
         head == OriginalRange(c, 0, o) \o NewData(t)
         tail == Padding(c, end)
         partial == end # ChunkSize(c)
         readable == IsBlock(c) =>
                       MorphedReadable((c - 2) * BlockSize + end)
     IN \/ /\ partial => readable
           /\ Put(head \o tail)
           /\ Goto(t, "assign")
        \/ /\ PutFails(IF partial => readable THEN head \o tail ELSE head)
           /\ Fail(t)
        \* GetMorphedImageData fails while reading what comes before ...
        \/ /\ "input" \in Faults /\ IsBlock(c) /\ o # 0
           /\ UnchangedStream
           /\ Fail(t)
        \* ... or after the changed data, or finds the image at its end
        \/ /\ partial /\ IsBlock(c)
           /\ "input" \in Faults \/ ~readable
           /\ Put(head)
           /\ Fail(t)
  /\ UNCHANGED <<mem, otype, mutex>>

\* The chunk is marked as cached in memory and written out, and its slot is
\* rewritten.  SetVirtImageData ignores a failing fflush; for header and
\* footer it is the fseeko to the slot that writes out, and it is checked.
AssignChunk(t) ==
  /\ th[t].pc = "assign"
  /\ LET c == Chunk(t)
     IN /\ mem' = [mem EXCEPT ![c] = [Assigned |-> TRUE, off_data |-> @.off_data]]
        /\ \/ /\ \/ file' = Flushed
                 \/ /\ "flush" \in Faults /\ IsBlock(c)
                    /\ \E n \in 0..Len(buf)-1 : file' = Written(n)
              /\ at' = SlotAddress(c)
              /\ \/ buf' = <<mem'[c]>> /\ Goto(t, "sync")
                 \/ "entry" \in Faults /\ buf' = <<>> /\ Fail(t)
           \/ FlushFails /\ ~IsBlock(c) /\ Fail(t)
  /\ UNCHANGED <<otype, mutex>>

\* Mutant: the slot stays in the buffer of the stream.
SyncStream_Unflushed == UnchangedStream

\* The final fflush of a piece, whose result is ignored.
SyncStream == Flush \/ FlushFails

Sync(t) ==
  /\ th[t].pc = "sync"
  /\ SyncStream
  /\ th' = [th EXCEPT ![t].pc = "piece", ![t].done = @ + Count(t)]
  /\ UNCHANGED <<mem, otype, mutex>>

Serving(t) ==
  \/ ReadOriginal(t) \/ SeekCached(t) \/ ReadCached(t) \/ WriteCached(t)
  \/ SeekEnd(t) \/ AppendChunk(t) \/ AssignChunk(t) \/ Sync(t) \/ Answer(t)

Next ==
  \/ MountNew \/ MountExisting \/ MountRefused \/ Unmount \/ Crash
  \/ \E t \in Threads :
       RequestRead(t) \/ RequestWrite(t) \/ Lock(t) \/ Serving(t)

Spec == Init /\ [][Next]_vars

\* Threads that run keep running: those inside the critical section only wait
\* for the file system.
FairSpec == Spec /\ \A t \in Threads : WF_vars(Serving(t))

-----------------------------------------------------------------------------
(* Properties                                                              *)

ThreadState ==
  [pc : {"idle", "called", "piece", "fread", "fwrite", "append", "assign",
         "sync", "answer", "answered"},
   op : {"read", "write"}, off : Nat, want : Nat, done : Nat,
   data : Seq(Values), ok : BOOLEAN]

\* Every variable has its type: the cells of header and index are slots, the
\* other cells of the cache file and of the stream's buffer hold data.
TypeOK ==
  /\ file.len \in Nat
  /\ DOMAIN file.cell = 0..file.len-1
  /\ \A x \in 0..file.len-1 :
       file.cell[x] \in (IF x < DataStart THEN Entry ELSE Values)
  /\ at \in Nat
  /\ buf \in Seq(Entry \cup Values)
  /\ \A i \in 1..Len(buf) :
       buf[i] \in (IF at + i - 1 < DataStart THEN Entry ELSE Values)
  /\ mem \in [Chunks -> Entry]
  /\ otype \in OutputTypes \cup {"none"}
  /\ mutex \in Threads \cup {NoThread}
  /\ th \in [Threads -> ThreadState]

\* The slots of the cache file as a restarted xmount would load them.
Slot(c) == IF file.len >= DataStart THEN file.cell[c] ELSE EmptyIndex[c]

ChunkCells(e, c) == e.off_data .. e.off_data + ChunkSize(c) - 1

\* A slot that is marked as assigned in the cache file names a whole chunk
\* that lies in the file behind header and index.
AssignedChunksStored ==
  \A c \in Chunks : Slot(c).Assigned =>
    /\ Slot(c).off_data >= DataStart
    /\ Slot(c).off_data + ChunkSize(c) <= file.len

\* No two assigned slots of the cache file share a cell: writing one block
\* never changes another.
ChunksDisjoint ==
  \A c, d \in Chunks :
    (c # d /\ Slot(c).Assigned /\ Slot(d).Assigned)
      => ChunkCells(Slot(c), c) \cap ChunkCells(Slot(d), d) = {}

\* Between requests everything the running program would serve from the cache
\* is found there by the next one too: killing it loses nothing.
IndexDurable ==
  (otype # "none" /\ mutex = NoThread)
    => \A c \in Chunks : /\ mem[c].Assigned <=> Slot(c).Assigned
                         /\ mem[c].Assigned => mem[c] = Slot(c)

\* A chunk never moves: its slot, once assigned in the cache file, stays as it
\* is, so that nothing written to it before can be lost from sight.
ChunksNeverMove ==
  [][\A c \in Chunks : Slot(c).Assigned => Slot(c)' = Slot(c)]_file

\* Every thread that has mutex_image_rw gives it back, error or not.
MutexReleased == \A t \in Threads : (mutex = t) ~> (mutex # t)

\* A chunk marked as cached in memory has been written out to the file, as the
\* comment where SetVirtImageData marks it says.
MarkedChunksWritten ==
  \A c \in Chunks :
    mem[c].Assigned => mem[c].off_data + ChunkSize(c) <= file.len

\* A write inside the emulated file is answered with the number of bytes
\* written unless an I/O operation failed: what SetVirtImageData documents.
HealthyWritesSucceed ==
  Faults = {} => \A t \in Threads :
    (th[t].pc = "answered" /\ th[t].op = "write") => th[t].ok

-----------------------------------------------------------------------------
(* Why the index is sound.  IndexInv is the inductive strengthening of     *)
(* AssignedChunksStored and ChunksDisjoint when no fflush fails.           *)

Working == {"piece", "fread", "fwrite", "append", "assign", "sync"}

\* A request is inside the virtual file from the moment it holds the mutex.
RequestInv(t) ==
  /\ th[t].pc \notin {"idle", "called", "answered"} => mutex = t
  /\ (th[t].pc \in Working \cup {"called"} /\ th[t].op = "write")
       => Len(th[t].data) = th[t].want
  /\ th[t].pc = "called" => th[t].done = 0
  /\ th[t].pc \in Working =>
       /\ th[t].done <= th[t].want
       /\ th[t].want # 0 => th[t].off + th[t].want <= VirtImageSize(otype)
  /\ th[t].pc \in Working \ {"piece"} =>
       /\ th[t].done < th[t].want
       /\ th[t].op = (IF th[t].pc = "fread" THEN "read" ELSE "write")

\* The buffer holds all slots of a new file, one slot, or data behind them.
NewHeader ==
  /\ file.len = 0
  /\ at = 0
  /\ Len(buf) = DataStart
  /\ \A i \in 1..DataStart : buf[i] = EmptyIndex[i - 1]

OneSlot == Len(buf) = 1 /\ at \in Chunks /\ buf[1] = mem[at]

StreamInv ==
  /\ buf # <<>> => NewHeader \/ OneSlot \/ at >= DataStart
  /\ file.len >= DataStart \/ NewHeader

\* A chunk that is being appended starts where the file ends.
AppendInv(t) ==
  /\ th[t].pc \in {"fread", "fwrite"} => buf = <<>> /\ at >= DataStart
  /\ th[t].pc = "append" => buf = <<>>
  /\ th[t].pc = "assign" => Len(buf) = ChunkSize(Chunk(t))
  /\ th[t].pc \in {"append", "assign"} =>
       /\ at = file.len
       /\ file.len >= DataStart
       /\ mem[Chunk(t)] = [Assigned |-> FALSE, off_data |-> at]

Apart(idx, c, d) ==
  \/ idx[c].off_data + ChunkSize(c) <= idx[d].off_data
  \/ idx[d].off_data + ChunkSize(d) <= idx[c].off_data

\* An index whose assigned entries name chunks that are stored and disjoint.
SoundIndex(idx) ==
  /\ \A c \in Chunks : idx[c].Assigned =>
       /\ idx[c].off_data >= DataStart
       /\ idx[c].off_data + ChunkSize(c) <= file.len
  /\ \A c, d \in Chunks :
       (c # d /\ idx[c].Assigned /\ idx[d].Assigned) => Apart(idx, c, d)

\* What the program has assigned is sound, and the file never says more than
\* the program knows; while it does not run, the file alone is sound.
IndexInv ==
  /\ otype = "none" => /\ buf = <<>> /\ at = 0 /\ mutex = NoThread
                       /\ th = IdleThreads /\ mem = EmptyIndex
                       /\ file.len >= DataStart => SoundIndex(file.cell)
  /\ otype # "none" => /\ StreamInv
                       /\ file.len >= DataStart =>
                            \A c \in Chunks : file.cell[c].Assigned
                                                => mem[c] = file.cell[c]
  /\ SoundIndex(mem)
  /\ \A t \in Threads : RequestInv(t) /\ AppendInv(t)

-----------------------------------------------------------------------------
(* The cache implements a disk whose contents are what a restarted xmount  *)
(* would serve from the cache file.                                        *)

DiskCells == ({"vdi"} \X (0..VdiSize-1)) \cup ({"vhd"} \X (0..VhdSize-1))
               \cup ({"image"} \X (0..ImageSize-1))

DiskPristine ==
  [p \in DiskCells |-> CASE p[1] = "vdi" -> VdiHeader[p[2]]
                         [] p[1] = "vhd" -> VhdFooter[p[2]]
                         [] p[1] = "image" -> Image[p[2]]]

Cached(c, i) == file.cell[Slot(c).off_data + i]

DiskContents ==
  [p \in DiskCells |->
     LET c == CASE p[1] = "vdi" -> VdiChunk
                [] p[1] = "vhd" -> VhdChunk
                [] p[1] = "image" -> BlockChunk(p[2] \div BlockSize)
         i == IF p[1] = "image" THEN p[2] % BlockSize ELSE p[2]
     IN IF Slot(c).Assigned THEN Cached(c, i) ELSE DiskPristine[p]]

\* The cell of the disk at offset v of a virtual file of type ot.
DiskCell(ot, v) ==
  CASE ot = "vdi" /\ v < VdiSize -> <<"vdi", v>>
    [] ot = "vdi" /\ v >= VdiSize -> <<"image", v - VdiSize>>
    [] ot = "vhd" /\ v >= ImageSize -> <<"vhd", v - ImageSize>>
    [] OTHER -> <<"image", v>>

DiskCall(t) ==
  LET r == th[t]
      n == Clipped(r.off, r.want)
      cells == [i \in 1..n |-> DiskCell(otype, r.off + i - 1)]
  IN CASE r.pc = "idle" -> [state |-> "none"]
       [] r.pc = "answered" /\ (r.op = "write" \/ ~r.ok) ->
            [state |-> "done", ok |-> r.ok]
       [] r.pc = "answered" /\ r.op = "read" /\ r.ok ->
            [state |-> "done", ok |-> TRUE, data |-> r.data]
       [] r.pc \notin {"idle", "answered"} /\ r.op = "read" ->
            [state |-> "pending", op |-> "read", cells |-> cells]
       [] r.pc \notin {"idle", "answered"} /\ r.op = "write" ->
            [state |-> "pending", op |-> "write", cells |-> cells,
             data |-> SubSeq(r.data, 1, n)]

Disk == INSTANCE VirtualDisk WITH
  Cells     <- DiskCells,
  Pristine  <- DiskPristine,
  MayDiscard <- MayOverwrite,
  disk      <- DiskContents,
  call      <- [t \in Threads |-> DiskCall(t)],
  busy      <- mutex

\* The emulated image is a disk: requests of different threads do not mix,
\* reads return what was written last, unwritten cells keep the contents of
\* the input image, and a restart keeps everything that was answered.
IsADisk == Disk!Spec
=============================================================================
