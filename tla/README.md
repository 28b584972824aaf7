# A verification project for xmount

xmount mounts forensic disk images through FUSE. It reads one or more *input
images* with a plugin per file format, combines or transforms them with a
*morphing* plugin, and shows the result as one *virtual file* of another format
(raw, VDI, VHD, VMDK). The input is never written: with `--cache FILE` changes
go to a cache file that overlays the image.

This directory holds TLA+ models of the parts of xmount where order, failure,
concurrency and arithmetic at boundaries matter, the TLC runs that check them on
small instances, and proofs, checked by TLAPS, that hold for every instance.

Source paths below are relative to the root of the repository.

## 1. The system

| part | source | state it keeps | operations |
|---|---|---|---|
| start and end | `src/xmount.c` `main`, `ParseCmdLine`, `FreeResources` | `glob_xmount`: options, plugins, handles | parse options, load plugins, open, start morphing, hash the image, build headers, open the cache, run FUSE, free |
| emulated image and cache | `src/xmount.c` `FuseRead`, `FuseWrite`, `GetVirtImageData`, `SetVirtImageData`, `SetVdiFileHeaderData`, `SetVhdFileHeaderData`, `InitCacheFile` | cache file and its stdio stream, header and block index in memory, `mutex_image_rw` | read, write, mount with a new or an existing cache file, unmount |
| virtual headers | `src/xmount.c` `InitVirtVdiHeader`, `InitVirtVhdHeader`, `InitVirtualVmdkFile`, `InitVirtImageInfoFile` | header, footer, descriptor, info text in memory | built once at start |
| VMDK name space | `src/xmount.c` `FuseMkDir`, `FuseMkNod`, `FuseRename`, `FuseRmDir`, `FuseUnlink`, `FuseReadDir`, `FuseGetAttr`, `FuseOpen` | two lock directories, one lock file and its data, the descriptor | what VMware does to lock a disk |
| input plugins | `libxmount_input/*` | one handle per image; raw: pieces; qcow, vdi: maps; aaff: page search position and page buffer; aewf: tables, segment files, chunk buffers and threads; ewf, aff, aff4: handles of external libraries | open, size, read, close, options |
| morphing plugins | `libxmount_morphing/*` | combine, raid, swab: sizes; unallocated: map of free blocks of a FAT or HFS+ file system | morph, size, read |
| helpers | `libxmount/*`, `src/md5.c` | none | option strings, byte order, hash |

How they interact: libfuse calls the `Fuse*` functions from several threads.
`FuseRead` and `FuseWrite` of the virtual image take `mutex_image_rw` for the
whole request and split it into pieces: VDI header, blocks of the image, VHD
footer. A piece comes from the cache file if its block is assigned there and
otherwise from the morphing plugin, which calls back into xmount
(`LibXmount_Morphing_Read` → `GetInputImageData`), which calls the input
plugin. The plugins are thus only ever called under the mutex; `aewf` starts
threads of its own inside one call and joins them before it returns. The only
persistent state is the cache file, and it outlives the process: it is read
again by a later mount, possibly with another output type.

What is hard:

* **one stream, many threads** - one file position and one buffer for all
  requests, kept apart only by the mutex, which every error path has to release;
* **crash consistency** - a first write to a block appends a chunk, marks it in
  memory, then rewrites its index entry; stdio buffers, and a kill may leave any
  prefix of the buffer in the file;
* **partial failure** - a read of the input, a write of data or of an index
  entry, or a flush may fail in the middle of a request of several pieces;
* **boundaries** - images that end inside a cache block or chunk, requests that
  cross header, blocks and footer, batches that start inside a chunk;
* **caches with counters** - aewf counts open files and table memory apart from
  the pointers; its output buffers double as a chunk cache while threads run;
* **stale state** - `ChunkInBuff` after a failed read, a cache file made with
  another output type, a page search that goes on from where the last one ended;
* **legal call sequences** - VMware's lock protocol on three in-memory names, in
  which any client may create and remove anything;
* **widths** - sizes in an `int`, heads in a byte, block offsets in a `uint32_t`, a
  number put together from signed bytes.

`PROJECT.json` lists every hazard at the line where it bites, with the properties
that look for it.

## 2. Modules

| module | models | role |
|---|---|---|
| `VirtualDisk` | - | abstract specification: what a user of the emulated file is promised |
| `XmountCache` | cache file and emulated image | state machine, properties, inductive invariant, refinement mapping to `VirtualDisk` |
| `AewfReader` | `AewfRead` and everything below it | state machine and properties |
| `VmdkNameSpace` | descriptor, lock directories and lock file of a VMDK image | state machine of several FUSE requests, properties |
| `VirtualHeaders` | sizes, block map and disk geometry of VDI, VHD and VMDK | operators and what they have to satisfy |
| `MountSession` | one run of xmount: command line, libraries, images, morphing, headers, cache, service, release | state machine; extends `VirtualHeaders` |
| `InputImages` | raw, QCOW, VDI; what is needed of libewf, libaff, libaff4 | operators: accepted or not, size, one step of a read |
| `AaffImage` | the page search of the AAFF library | operators on its handle |
| `Morphings` | combine, raid, swab, unallocated | operators: size, first and next read of an input image |
| `ImageHandles` | what Open leaves in a handle and what Close and DestroyHandle free | operators |
| `ImageReads` | the path of a read from the morphed image to the files | state machine; composes the four modules above |
| `MorphedDisk` | - | what a mount of `ImageReads` is by its files and options alone: which byte of which file each byte of its disk is |
| `MCXmountCache`, `MCAewfReader`, `MCVmdkNameSpace`, `MCMountSession`, `MCImageReads` | - | values for TLC |
| `XmountCacheProofs`, `XmountDiskProofs`, `AewfReaderProofs`, `AewfBytesProofs`, `VmdkNameSpaceProofs`, `MountSessionProofs`, `ImageReadsProofs` | - | theorems |
| `SumProofs` | - | lemmas about sums over sets and over sequences of sizes |

The pieces meet at two interfaces. `XmountCache` sees the morphed image as a
constant `Image` whose read succeeds or fails: that a read which succeeds returns
the bytes of the image is what `ImageReads` is about. `ImageReads` sees an EWF
image as bytes of a library; for the AEWF library, which has threads and caches
of its own, that is what `AewfReader` is about. `MountSession` sees libraries as
calls that succeed or fail and is about their order.

### 2.1 `VirtualDisk`

A disk with cells. Requests of threads are served one at a time; the cells of a
write being served change in any grouping; a write reported as done has changed
all of them, a failed one any part; a read returns what the cells hold when it
is answered; a restart loses the requests in progress and nothing that was
reported as done. `Discard` is `--owcache`.

### 2.2 `XmountCache`

Sizes are counted in cells: a slot of the cache header or block index takes one
cell of the file, and so does each unit of data. Slots 0 and 1 are the VDI header
and the VHD footer (`VdiFileHeaderCached`/`pVdiFileHeader` and the VHD pair), the
others are the entries `Assigned`/`off_data` of the block index. A *chunk* is what
a slot names: a whole cache block, header or footer.

| variable | code |
|---|---|
| `file` | the cache file as the kernel has it |
| `at`, `buf` | the stdio stream `h_cache_file`: where its unwritten data goes, and that data; `at + Len(buf)` is the file position |
| `mem` | `p_cache_header` and `p_cache_blkidx` |
| `otype` | `VirtImageType` of the running process, `"none"` while none runs |
| `mutex` | owner of `mutex_image_rw` |
| `th` | the FUSE worker threads: program counter, request, progress, answer |

| action | code |
|---|---|
| `MountNew`, `MountExisting`, `MountRefused` | `InitCacheFile`: new or overwritten file, existing file, refused file |
| `Unmount` | `fuse_main` returns, `FreeResources` closes the stream |
| `Crash` | the process is killed; any prefix of the buffer has been written |
| `RequestRead`, `RequestWrite`, `Lock`, `Answer` | entry of `FuseRead`/`FuseWrite`, the mutex and the cut at the end of the file, the return |
| `ReadOriginal`, `SeekCached`, `ReadCached` | one pass of the loop in `GetVirtImageData` |
| `SeekCached`, `WriteCached`, `Sync` | one pass of the loop in `SetVirtImageData` (or `SetVdiFileHeaderData`, `SetVhdFileHeaderData`) for a chunk that is cached |
| `SeekEnd`, `AppendChunk`, `AssignChunk`, `Sync` | the same for the first write to a chunk |

Every file operation is a step of its own, so that a crash, an error, or - were it
not for the mutex - another thread can come between any two of them. `Faults`
selects the operations that may fail: `"input"` (reading the image), `"data"`
(writing data), `"entry"` (writing an index entry), `"flush"` (`fflush`, or the
write inside `fseeko`).

The environment: stdio writes its buffer no later than at a flush or a seek;
writing it earlier is not observable, because nobody else reads the file, except
by a crash, which keeps any prefix. A crash is the death of the process, not of
the machine: xmount never calls `fsync` (the `BLKFLSBUF` ioctl does nothing on a
regular file), and nothing is claimed about power loss. Padding bytes are all
alike. The header's version, block size and hash are constants, the file is
taken to belong to this image: the code does not compare the hash or the size.

### 2.3 `AewfReader`

The caller's buffer, the chunk buffers and the image are abstracted to *where data
comes from*: a cell of the caller's buffer holds an address of the image or `Junk`;
a chunk buffer holds the number of a chunk or `None`.

| variable | code |
|---|---|
| `pEwfTable`, `TableCache` | `t_Table.pEwfTable` and the memory counted for tables |
| `pFile`, `OpenSegments` | `t_Segment.pFile` and the number of open files |
| `slot` | `pThreadArr`; with one thread the single buffer in `t_Aewf` |
| `req` | the locals of `AewfRead`, `AewfReadMT`, `AewfReadMT0` and of the legacy functions |

| action | code |
|---|---|
| `AewfRead`, `StartBatch`, `EndBatch` | `AewfRead`, the loop of `AewfReadMT`, one call of `AewfReadMT0` |
| `Miss`, `CopyChunk` | the search of the buffers in `AewfReadChunkMT` / `AewfReadChunkLegacy` |
| `ReleaseTable`, `TableFits`, `LoadTable` | `AewfLoadEwfTable` |
| `CloseSegment`, `OpenSegment` | `AewfOpenSegment` |
| `ReadChunk` | `AewfReadChunkMT0` |
| `Work` | `AewfThreadUncompress`, `AewfThreadCRC`, `AewfThreadCopy` |
| `Join`, `JoinCrashes` | the loop that joins the threads |
| `CopyLegacy`, `ReadLegacy` | `AewfReadLegacy`, `AewfReadChunkLegacy0` |

`Faults`: `"open"` (opening a segment file), `"size"` (its size changed), `"table"`
(reading a table), `"chunk"` (reading a chunk), `"thread"` (`pthread_create`).
`Damaged` chunks do not match their checksum. A table whose read failed stays
allocated with whatever `malloc` returned (`"garbage"`). Joining a thread that was
never created is undefined: the model lets it end the program (`"dead"`) or
return. `LastUsed` has a resolution of one second, so which table or file makes
room is left open. A chunk that no table lists ends the read with an error:
`AewfOpen` does not check that the tables are complete.

### 2.4 `VmdkNameSpace`

VMware opens a VMDK only if it can lock it: it makes a directory
`<descriptor>.lck`, a file in it, renames the file, reads and writes it. xmount
keeps one or two directory names, one file name and one buffer in memory.

| variable | code |
|---|---|
| `lockdir1`, `lockdir2`, `lockname` | `p_vmdk_lockdir1`, `p_vmdk_lockdir2`, `p_vmdk_lockfile_name` |
| `size`, `alloc` | `vmdk_file_size`, `vmdk_lockfile_size`, and the length of the buffers they belong to |
| `mutex` | owner of `mutex_image_rw` |
| `rq` | the request of each client, where its handler is and the handler's locals |
| `fd`, `holds` | the file each client has open; the lock file it made |
| `misused` | no variable of the code: a history of what takes the guarantees away, see below |

A request of a client begins with an action `Begin...`, in which the kernel's
checks and what the handler looks at first (`May` for names, `Check` for reads and
writes) are one step: nothing that happens between the two can change the outcome of
the former. What a handler assigns then is a step of its own - `MkDir`, `MkNod`,
`Rename`, `RmDir`, `Unlink` and `UnlinkData`, none of which takes the mutex; `Lock`,
`Grow`/`Grown` and `Copy` for reads and writes: `pthread_mutex_lock`, the two
assignments that make a file longer (in one order for the lock file, in the other for
the descriptor), `memcpy` and unlock. An allocation that fails ends the process
(`Exit`).

What keeps handlers apart is mostly not in the code but around it, and is modelled as
external: the kernel looks a path up before an operation and holds the lock of each
directory an operation changes (`Locked`); libfuse lets a removal or renaming wait for the
requests on that path and renames an open file that is removed to a hidden name
(`BeginName`, `PathFree`, `Unused`, `Hidden`). Clients may make, rename and remove
anything anywhere: in the lock directory (`Inside`), beside it (`Outside`), under a name
that begins like its own (`Siblings`, which `FuseMkDir` lets a second directory have).
They rename to where there is nothing; renaming over an existing file is left out.

Sizes are ints, as in the code: `AsInt` is the assignment to one, `AsSize` the
conversion to `uint64_t` for a comparison, `IntMax` and `Huge` stand for 2^31 - 1 and
2^64. What two things do to the names and buffers is in the model, and the properties
say for which files they are meant (`WellUsed`):

* a write that ends beyond the greatest int makes the size of that file negative
  (`misused` gets the file);
* a lock file that gets its name while another `mknod` or the second half of an
  `unlink` is under way (`"names"`), which the kernel excludes only in one directory.

### 2.5 `MountSession` and `VirtualHeaders`

| variable | code |
|---|---|
| `pc` | where `main` is |
| `argv`, `args`, `opt` | the command line, what of it is not parsed yet, and what the options have set in `glob_xmount` |
| `img`, `cur` | `input.pp_images` and the loop variable of `main` or `FreeResources` |
| `libs`, `inits`, `gone` | the libraries that are mapped, how often `Init` was called, which have had `DeInit` |
| `morph`, `out` | morphing library and handle; headers, names, cache file |
| `call` | the last call of a library, and whether it was mapped then |

`Init` is `InitResources`; `LoadLibs` is `LoadLibs`; `Parse...` are the branches of the
loop in `ParseCmdLine`, one option each with its checks; `CheckOptions` to `InitCache`
are the calls of `main` in their order, each of which may fail and then leads to
`FreeResources`; `FreeMorphing` to `UnloadInput` are its steps. A command line is a
sequence of words, of which `Number` are numbers, `Options` can be split into options of
a library, and `OtherShort` and `OtherLong` begin with one dash and with two without
being options of xmount; `None` is what was not given. `Part` is the arithmetic of
`--offset` and `--sizelimit`, and `VirtualHeaders` that of `InitVirtVdiHeader`,
`InitVirtVhdHeader` (with the number of heads in a byte, the cylinders in sixteen bits,
and the VDI's block map, its size and the header's in a `uint32_t`),
`InitVirtualVmdkFile` and `GetVirtImageSize`.

### 2.6 `ImageReads` and the modules it composes

A mount is a record: images (what the headers and tables of their files hold and
what their data are), options, morphing, and what there is to be seen of it.
Bytes are pairs of a file and a place in it, so that data from a wrong place
cannot look right.  What there is to be seen - the disk, whether the mount can be
served, whether all of the disk is in the files - is written out with each mount,
and `MorphedDisk` says byte by byte what it has to be (`MountsDescribed`): byte `p`
of a VDI image is in the block the map names for `p`, byte `k` of a RAID is in chunk
`k \div chunk`, dealt out in turn, and so on.  `MCImageReads` assumes this of its 163
mounts, so that TLC checks it, and the theorems of section 4.6 assume it of any.
`MorphedDisk` has no widths and no masks: the free blocks of a file system are those
whose whole entry or bit says so (`FatPlaces`, `HfsPlaces`) and lie where block size and
number put them, an AFF image is as long as it states. The code's own arithmetic
is in the modules that model it: `AaffU64` with its signed bytes, FAT numbers cut to 32
bits in `ReadFatHeader` and not in `BuildFatBlockMap`, twelve bits of a FAT16 entry,
offsets of HFS+ blocks in a `uint32_t`. Where the two differ, what xmount serves is not
the disk, and the properties say where they differ (`TakenRight`):

| exception | code | in the run |
|---|---|---|
| `SizesRead` | a byte of 128 or more in the size of an AFF image (`libxmount_input_aaff.c:192`) | a mount of four bytes read as 34 |
| `ChunksEverywhere` | an image of a RAID smaller than a chunk (`libxmount_morphing_raid.c:150`) | a RAID of three images, the second of which has no chunk |
| `BlocksTold` | entries the FAT16 mask makes look free (`fat_functions.c:314`), HFS+ blocks behind a `uint32_t` (`hfs_functions.c:157`, `:206`), a FAT whose header counts more than there is | a FAT16 with such an entry, an HFS+ with such a block |

A fault that has no name there would show as a violation: the mutants of these runs,
and the finding `unallocated_read`, are such.

| action | code |
|---|---|
| `OpenImage`, `OpenFault` | the loop of `main` over the images: Open of the library, `--offset`, `--sizelimit` |
| `Morph`, `MorphFault` | `CombineMorph`, `RaidMorph`, `SwabMorph`, `UnallocatedMorph` with detection, FAT or HFS+ header and block map |
| `Request` | `GetMorphedImageData` and the start of the morphing library's Read |
| `MorphCall`, `MorphBack`, `MorphDone` | one turn of the loop in `CombineRead`, `RaidRead`, `UnallocatedRead`, the single turn of `SwabRead`; `LibXmount_Morphing_Read`, `GetInputImageData` |
| `InputStep` | one turn of the loop in `RawRead`, `QcowRead`, `VdiRead` (`RawRead0`, `QcowRead0`, `VdiRead0`), or `EwfRead`, `AffRead`, `Aff4Read` |
| `AaffPage`, `AaffHop`, `AaffLost` | `AaffRead` and `AaffReadPage`: page in the buffer or search, one segment passed or read, end of the search |
| `End` | `FreeResources` as far as the images' handles go |

A handle remembers what goes wrong: `bad` is the error flag of a QCOW image's
`FILE`, which nothing clears; `aaff` is the page search with the seek array, the
page in the buffer and the position in the file; `handles` says which pointers
are null, held or freed and still kept. An entry of the seek array that is looked up
behind its end (`libxmount_input_aaff.c:588`) may be anything an entry can be
(`BehindArray`); what writing there destroys is left out.

## 3. Runs

| run | question |
|---|---|
| `cache_dd` | do two threads, kills and remounts leave the emulated image a disk? |
| `cache_partial` | what does the index in the file promise when the image ends inside a block, reads and writes fail and `--owcache` is used; does every path give the mutex back? |
| `cache_headers` | is the same cache file good for VDI and VHD in turn, and do chunks stay where they are? |
| `aewf_threads` | with two threads, do reads deliver the image whatever is in the buffers, is each buffer what it is marked as, are both caches counted right? |
| `aewf_faults` | with failing operations, does any chunk get into two buffers or any buffer get touched under a working thread, does every read return? |
| `aewf_legacy` | with one thread and failing operations, are the bytes counted as read the image's? |
| `vmdk` | with two clients that create and remove anything anywhere, has the lock one owner, does every copy stay inside its buffer, is every request answered - and what takes that away? |
| `session` | for some 2200 command lines, with parameters and files that look like options, and any step failing: is what is served what was asked for, do the libraries see their protocol, is all released? |
| `images` | for 163 mounts and any read of a file failing: is every read the image's bytes or an error that has a cause, are the handles given back once? |
| `cache_last_block` | *violation*: a healthy write to the end of the image is answered as failed |
| `aaff_read` | *violation*: a read of an AFF image fails though every read of the file succeeds |
| `unallocated_read` | *violation*: a read that begins inside a free block returns bytes from a wrong place |

The three violations are listed as findings in `PROJECT.json`, with the comment
each contradicts.

### What the runs show

* *The cache is a disk* (`IsADisk`): for every interleaving of two threads, kill,
  remount, failed read or write, the emulated file is one that serves requests
  one at a time and loses nothing it reported.
* *The lock of a VMDK* (`LockExclusive`) holds although `rmdir`, `rename`,
  `unlink` and `mknod` do not look at each other: the directory can even be
  removed and made again under the lock file. It does not hold when two lock files are
  made at once in different directories, which is why the property is conditional.
* *Every byte is from its place* (`ReadsDeliverImage`, `CopiedIsTheImage`): over
  the ends of pieces, clusters, blocks, chunks, pages and images, with holes,
  compressed and zero clusters, and after earlier failures. The one way a read
  delivers something else is `unallocated_read`.
* *Failures have a cause* (`FailuresHaveACause`): with three exceptions, all of
  which are in the property: a QCOW image fails for good after one failed read,
  an AFF image fails always (`aaff_read`), and files cut off behind what Open
  looks at fail when the missing part is read.
* *A start leaves nothing behind* (`NothingLeft`, `GivenBackOnce`), with the
  exceptions in section 5.

### Bounds

* `cache_*`: two blocks of two cells are the least that has a block boundary, a
  partial block, a request over two blocks, and a chunk appended behind another.
  `cache_dd` has two threads (a third adds no kind of interleaving: the mutex is
  the only thing they share); the runs about failures and crashes have one,
  since the mutex serialises requests. All cells of image, header and footer are
  different values, so data from a wrong place is noticed. `MaxFileLen` bounds
  the file to which a write is delivered; it is large enough for all chunks of the
  image to be appended, and in the runs with failures for part of a chunk to be
  left behind by a failed write before that.
  `cache_partial` has two blocks of three cells for an image of five: a write of two
  cells over the border is in the last block without reaching the end of the image, so
  that the block is cached with what the image has behind it and padding; one that does
  reach the end fails (`cache_last_block`), and what it or a kill leaves at the end of the
  file is where the next chunk must not go (`AppendAddress`).
  `cache_partial` is also the run for liveness, so it is checked under `FairSpec`.
* `aewf_*`: chunks of two cells, an image of three or four chunks whose last one is
  short (in `aewf_legacy` it is whole, but in no table), two threads, two tables
  in two segment files with room for one open file and for one of the larger or
  the smaller table: batches that start inside a chunk need a third structure,
  every chunk can be in or out of the buffers, and tables and files are evicted.
  `Word` = 16 is larger than every counter, so that only a subtraction of what
  was never added wraps.
* `vmdk`: two clients, since what one may do to a file that another uses is all there
  is; two names in the lock directory, so that a file can be renamed and renamed back
  while another is made; one beside it that begins like its own and one that does not; a
  hidden name in each directory. The lock file may get any of them, a second directory
  those that `FuseMkDir` lets it have. An int goes from -4 to 3 (`IntMax`): of a
  descriptor of one byte a write of two makes it longer and a read of two is cut, and a
  write at 3 makes the size negative (`MCPieces`). `Bound` is the only bound on
  behaviours: states in which two lock files were made at once (`"names"`) are checked
  but not gone on from; from there on the properties are about the descriptor only, and
  about that they are proved.
* `session`: one or two images, a library for two types and one for a type of its
  own. Command lines are all those of one or two options around an `--in` or two,
  the old syntax with one option, lines that lack their last words, and lines in
  which the cache file is called `--owcache`, the options of libfuse `--cache`, or an
  image `-d`. A sector
  has two bytes. Image sizes are zero, one on each side of `--offset 5
  --sizelimit 5`, and the first for which the VHD geometry has more heads than a
  byte can count.
* `images`: clusters, blocks and chunks have two bytes, second level tables two
  entries, AFF pages two bytes with one seek entry for two pages (`PagesPerEntry`
  divides the number of pages). For three clusters all sixty-four combinations of
  stored, compressed, zero and missing are mounted as QCOW and as VDI; the other
  mounts mix formats, options, empty images, images of different size, and what
  must be refused. Reads have every offset and every length up to one byte behind
  the end. One AFF image has a seek array that is too short (`AaffShort`: three pages,
  two to an entry). The number of clusters below which a file system is FAT12 or FAT16
  (`Fat12Below`, `Fat16Below`), the mask of a FAT16 entry (`Fat16Mask`), the size of
  a directory entry and of the HFS+ header and `bytes_per_sector % 512` (`SectorUnit`) are
  scaled down together with the images, and so are the widths: `Word` = 24 is 2^32,
  `Wide` = 36 is 2^64, a byte has the values below `ByteBase` = 6; `HfsLong` and
  `AaffMisread` are the mounts that do not fit in them. `Askable` keeps requests to what
  the kernel asks for: whole pages, so even offsets and sizes for `swab`, and
  requests from the start of a block for `unallocated` (whose other reads are the
  run `unallocated_read`, with `AnyRequest`). What is proved about `combine` and
  `raid` needs no such limit (section 4.6).

Every property has a mutant in `PROJECT.json`: a change of one definition, as a
plausible slip in the code would make it, under which TLC finds the property
violated.

### Fairness

| module | weak fairness of | why; what is left unfair |
|---|---|---|
| `XmountCache` | each thread's steps inside the mutex | they only wait for the file system; not who gets the mutex, clients, mounts, crashes |
| `AewfReader` | the calling thread's steps together, and each worker | running threads run on; new reads are never forced |
| `VmdkNameSpace` | each client's handler | a worker thread of libfuse runs on; whether a waiting one gets the mutex is left open, so `RequestsAnswered` promises an answer only to who gets it, and that the mutex comes free again and again |
| `MountSession` | the steps of `main` and `FreeResources` | one thread that waits for nobody; the file system need not be unmounted |
| `ImageReads` | the steps of a call | the same; reads and the end are never forced |

`CHECK_DEADLOCK FALSE` is set where the program may end: `session`, `images`,
`aaff_read` and `unallocated_read` (the process has returned from `main`), and
`aewf_faults` (joining a thread that does not exist may end it).

## 4. What is proved

TLAPS checks eight modules. Each but `SumProofs` proves an inductive invariant; what TLC
found on the instances above then holds for every value of the constants.

### 4.1 `XmountCacheProofs`

For any threads, sizes, payloads, output types and faults other than `"flush"`
(a failed flush does break the index, see section 5):

| theorem | states |
|---|---|
| `Typing` | `TypeOK`: in particular header and index cells always hold slots, never data |
| `IndexInvariance` | `IndexInv`, the inductive invariant |
| `ChunksStored` | `AssignedChunksStored`: an assigned slot of the file names a whole chunk in the file |
| `ChunksApart` | `ChunksDisjoint`: no two assigned slots share a cell |
| `MarkedWritten` | `MarkedChunksWritten`: a chunk marked in memory has been written |
| `NeverMoves` | `ChunksNeverMove`, without `--owcache`: an assigned slot never changes |

The argument. Soundness of the index *in the file* is not inductive: what is
written to the file later comes from the buffer, and what is in the buffer comes
from the index in memory. `IndexInv` therefore says: the index in memory is
sound (its assigned chunks lie behind the slots, inside the file, and apart from
each other); the file never marks a slot that memory does not mark, and then with
the same offset; the buffer holds the slots of a new file, one slot equal to the
one in memory, or data that goes behind the slots (`StreamInv`); a chunk that is
being appended starts exactly where the file ends (`AppendInv`), which makes it
disjoint from all others; and a thread past `Lock` owns the mutex and works
inside the virtual file (`RequestInv`). While no process runs, the file alone is
sound, and a mount loads it. Each action has a lemma (`...Inv`); `NextInv` puts
them together and the theorems are read off the invariant. The lemmas at the
start are about the geometry (a piece lies inside its chunk) and about what a
write to a stream does to a file.

### 4.2 `XmountDiskProofs`

Built on the module above, for any threads, sizes, payloads, requests and output
types, with kills, unmounts and remounts (also with another output type, also
with `--owcache`):

| theorem | states |
|---|---|
| `Refinement` | `IsADisk`: every behaviour of `XmountCache` is one of `VirtualDisk` |
| `Durability` | `IndexDurable`: between two requests the slots in the file are those in memory |

Both assume `SmallFaults`, `Faults \subseteq {"input", "data"}`: reads of the image and
writes of data to the cache file may fail. The other two faults break the
statements themselves, not only the proof. A failing `fflush` goes unnoticed and
loses data that was answered. When the write of a slot fails, the chunk is already
marked in memory but not in the file, and later writes to it are answered as
successful and gone after a kill (section 5).

The argument. `IndexInv` says that the file never names more than the program
knows, but not the converse, and it does not look at contents. `DiskInv` adds:

* `KnownInv` - the program knows no chunk the file does not name, apart from the
  one whose slot waits in the buffer of a thread at `Sync`. So what a kill leaves is
  what the program would have read.
* `QuietInv` - unless a thread is between putting data into the buffer and writing
  it out, nothing in the buffer changes the disk: it is empty, or has the slots of
  a new file, or data behind the end of the file which no slot names.
* `TransferInv` - what a thread has read so far is what the disk holds, what it
  has written so far is on the disk; before `AssignChunk` the buffer is a whole
  chunk, the old contents with the written piece laid over it; at `Sync` the buffer
  is either the piece, at its place in an assigned chunk, or the slot of a chunk
  that is complete in the file.

Each action has a lemma `...Disk` that names its step of `VirtualDisk`: `Request...` is
`Start`, `Lock` is `Serve`, `Sync` and a `WriteCached` that fails are `ApplyOnly`,
`Answer` is `AnswerRead` or `AnswerWrite`, `Unmount` and `Crash` are `Restart`, a
`MountNew` is `Discard` when it overwrites a file; all other steps leave the disk
alone. Appending a chunk, in particular, is no step of the disk until its slot
is written: a kill before that leaves cells nobody names. The geometry behind this
(`CellPlace`, `PlaceUnique`, `DiskCellsDiffer`: a cell of the virtual file has one
place, and different cells have different places) is proved from the sizes alone.

### 4.3 `AewfReaderProofs`, `AewfBytesProofs` and `SumProofs`

For any number of threads, chunk and image size, layout of tables and segment
files, limits of the two caches and set of compressed or damaged chunks:

| theorem | states | assuming |
|---|---|---|
| `Typing` | `TypeOK`; in particular `req.read` never exceeds what was asked for | - |
| `BuffersApart` | `OneSlotPerChunk` | - |
| `JobsLeftAlone` | `JobsUndisturbed` | - |
| `Delivery` | `ReadsDeliverImage` | the property itself is about `Faults = {}` |
| `HitsAreRight` | `ChunkInBuffIsStored` | the property itself is about `Faults = {}` and undamaged chunks |
| `OpenFilesCounted` | `OpenSegmentsCounted` | no file changes its size; `MaxOpenSegments` fits its type |
| `OneBufferReadsTheImage` | `ReadBytesAreTheImages` | one buffer; `fseek` and `fread` fail for compressed chunks only |
| `ThreadsReadUndamaged` | `ReadBytesAreTheImages` for reads of undamaged chunks | several threads; of the operations only opening a segment file fails (`Harmless`) |
| `ThreadsReadTheImage` | `ReadBytesAreTheImages` | the same, and no chunk is damaged |
| `TableMemoryCounted` | `TableCacheCounted` | reading a table does not fail; the sum of all tables is below `Word` |
| `TableMemoryKept` | `TableMemoryLimited`: the cached tables never take more than `aewfmaxmem`, but for a single one that is larger by itself | the same |

The argument has layers, each inductive given those before it:

1. `Typed` - types that need no arithmetic, and that a chunk whose table is looked
   for is listed in one.
2. `SlotsInv` - while chunks are looked for, every running job is for a chunk
   *before* the current one. So a hit never finds a structure that works (chunks
   of a batch are different and ascending), and a chunk that is read was in no
   buffer. `OneSlotPerChunk` and `JobsUndisturbed` follow.
3. `Position`, `Coverage` - where the batch has come to, and that the jobs launched
   so far have exactly the cells from the start of the batch to there, disjointly.
   The number of jobs is the number of chunks passed, so when a batch needs one
   structure more than there are (it starts inside a chunk), what is dropped is the
   tail of the batch and is less than a chunk. When the jobs are joined, what they
   still have and what was counted add up to `CoveredEnd`, which stays in the
   request: the type of `req.read` needs all of this.
4. `BuffersInv`, `PlacedInv` (at most segment files fail to open) - a buffer that is said to hold an
   undamaged chunk does, and a job's chunk, offset and length are those of its
   part of the request.
5. `DeliveredInv` (no faults) - everything counted, joined or finished is the
   image's, and nothing fails.
6. `BytesInv`, `OneBufferInv` (with faults) - what is *counted* is the image's. With
   threads this is `DeliveredInv` without the claim that nothing fails: a batch that
   failed is not counted, but its other threads still copy, each to its own part.
   With one buffer it is enough that the buffer holds what `ChunkInBuff` names.

The hypotheses of the three theorems about bytes are where the code stops delivering: a
chunk that is damaged, or that `fseek`, `fread` or `pthread_create` failed for, keeps
its number on the buffer of its thread structure, and the next read copies what it
finds there (see 5); with one buffer a chunk that is stored uncompressed is read
over the buffer that `ChunkInBuff` still names.

`TableMemoryCounted` is about a sum over the set of cached tables, which the
community modules define by recursion over sets. `SumProofs` gets along without
induction over data: a law that fails for some set fails for one of the fewest
elements (the natural numbers have a least one), and one element less makes it
hold. The same argument over the length gives the laws of the sum over a sequence
of sizes that `combine` needs in 4.6.

### 4.4 `VmdkNameSpaceProofs`

For any number of clients, any names, any offsets and lengths and any width of an
int; the bound of the run is no assumption:

| theorem | states | on condition of |
|---|---|---|
| `Typing` | `TypeOK`; in particular sizes are ints | - |
| `LockWorks` | `LockExclusive`: at most one client holds the lock, under the name the file has | no lock file got its name while another `mknod` or `unlink` was half-way |
| `CopiesStayInside` | `CopiesInBounds`: no copy leaves its buffer | `WellUsed`: the same for the lock file, and no write made the file longer than the greatest int |
| `SizesAreAllocated` | `SizeIsAllocated`: size and buffer agree unless a write or a removal is half-way | the same |

The conditions are in the properties, as history (`misused`), and not assumptions about
clients: they say from when on nothing is promised, and about which file. Both are
needed, as section 5 tells.

The hard part is that a handler uses a name or a size it looked at before, while
another changes it without the mutex. The invariant says why that is safe:

* `DirsApart` - requests that change names are about different directories, since the
  kernel locks the directories. A renaming and a removal are about the one lock file and
  thus about the same directory, so one of them at a time; a `mknod` in another directory
  is what is left, and is the condition above;
* `NamesInv` - the name of the lock file is still what a handler found when it began,
  and gone when `FuseUnlink` frees the data;
* `OpenTransfers` - who reads or writes the lock file has it open, and nobody
  removes or renames a file that is in use; so a transfer that found its file
  keeps it until it is answered, and none is under way when the data are freed;
* `MutexInv`, `SizeInv` - who is between lock and unlock owns the mutex, and only a
  writer between its two assignments (`"grown"`) sees size and buffer differ; a
  read that was cut at the size stays inside it because sizes only grow while
  it waits; and a size that is not negative is the same as an int and as a number
  that is compared with the end of a write (`AsIntFacts`);
* `HoldInv` - the lock is held under the name the file has, and a file that is
  being removed is nobody's lock.

`DirsApart` and `OpenTransfers` are promises of the kernel and of libfuse: without them
the lock and the copies are not safe.

### 4.5 `MountSessionProofs`

For any command lines, libraries, supported types, numbers of images and sizes, and
any step of the start failing (`CmdLines` has to be sequences of words, and `None` no
word of them):

| theorem | states | assuming |
|---|---|---|
| `Typing` | `TypeOK`: in particular what is left to parse is always the end of the command line | - |
| `InitialisedOnce` | `InitOnce` | - |
| `EverythingGivenBack` | `NothingLeft` | - |
| `HeadersFit` | `HeaderFits`: VHD geometry and VDI block map describe the image that is served, whatever its size; the VDI's if its map can be counted in 32 bits (`VdiCountable`, some 2^30 blocks) | the morphed size is a natural number |
| `ServedAsAsked` | `ServesWhatWasAsked`: the images, their order, types and files, the part of them, and the cache file are those the command line asks for | the morphed size is a natural number |

The invariant tells what has been opened from the place `main` has come to: the
images before the current one are open, those after it have no handle
(`OpenedInv`), and in `FreeResources` those before it have none any more
(`ClosingInv`). What makes the release right from *every* place is a part that does
not mention the place, `HandlesInv`: an image with a handle has a library that is
mapped and was initialised exactly once. Between the end of `FreeMorphing` and
`UnloadInput` the libraries that were already left are those of images before the
current one, so a call after `DeInit` means two images of one library.

That options never take a word too many is `ArgsInv`, with a lemma about the files
of `--in` (`FileCounted`: the first long option or the last word ends them, and
there always is one). `HeadersFit` joins `OutInv`, the header is still the one built
for the image, with lemmas about the algorithms: `PiecesFit`, `CylindersFit` (two
divisions in a row lose less than a cylinder) and `VhdFits`, which goes through the
four geometries and shows for each that the number of cylinders fits 16 bits and
that of heads is one a disk can have.

`ServedAsAsked` compares the options `ParseCmdLine` leaves behind, which it sets word by
word, with what the whole line says. What it says cannot be read off its words: in
`--cache --owcache` the second word is a file. So the property first says where options
stand (`OptionPlaces`): in the first place, and where another option ends, if a word
with a dash is there - the least set of places that is closed under this. Everything
else is about those places only: the last `--offset` gives the offset, the cache can be
written if `--cache` or `--owcache` is at any of them, the n-th image is what the n-th
`--in` says. For a parser that goes from left to right the other direction is hard:
nothing it has skipped may be an option. The invariant `ParsedInv` says that the places
passed are such places and are closed but for the next word (`ParsedPlaces`), and that
what they ask for is what the options are set to; when no word with a dash comes next
the set is closed, so it is all of them (`AllParsed`). The image of the old syntax, whose
files come last, is in the invariant with any files (`ParsedImages`), of which those
that are left when the options end are then one choice (`PartOfLine`). That `--in` takes
its files up to the same word in the code and in the property is `FilesFollow`. From
there `AskedInv` carries it to the service: each image main has passed belongs to
the library for its type and was cut to a part that lies inside it (`AsTold`), the size
is not zero once the hash was computed, and the cache file is open exactly if there is
one. `LineInv`, the line stays one of `CmdLines`, makes the file of a cache option a
word and thus not `None`.

### 4.6 `ImageReadsProofs`

For any set of mounts, each of any images, options and morphing, any read and any
read of a file failing. What a mount is, is the assumption `MountsMakeSense`: the
headers hold numbers, a size of clusters, pages, chunks or free blocks is not zero,
the pages of an AFF image are there, and sums and sectors are what their types can hold.
Of the seek array it asks nothing, nor of the size an AFF image states, the chunks
of a RAID or the entries of a file system.

| theorem | states | assuming |
|---|---|---|
| `Typing` | `TypeOK`: no size, offset or count goes below 0, and what is left of a read of an image never exceeds what was asked for | - |
| `SearchesRight` | `SearchesStartRight`: what the seek array of an AFF image knows is right, whichever searches failed before and whatever lies behind it; if it is long enough (`SeeksCover`), so is the position of the file | - |
| `HopsAreEnough` | `HopsLeft`: the search for a page never uses up the hops `AaffReadPage` gives it, if the array is long enough | - |
| `HandlesGivenBack` | `GivenBackOnce` | - |
| `StartsWithWhatCanBeServed` | `StartsIfItCan`: a mount is served if and only if its images and options allow it, but for `SizesRead` and `BlocksTold` | `MountsDescribed` |
| `SizeIsThatOfTheImages` | `SizeIsTheImages`: the size xmount states is that of the disk | `MountsDescribed` |
| `ReadsDeliver` | `ReadsDeliverImage`: a read that succeeds delivers the bytes of the disk it is about, and all of them | `MountsDescribed`, `RequestsFit` |
| `NothingElseCopied` | `CopiedIsTheImage`: nor does one that goes on or fails copy anything else | `MountsDescribed`, `RequestsFit` |
| `FailuresExplained` | `FailuresHaveACause` | `MountsDescribed`, `RequestsFit` |

`MountsDescribed` (module `MorphedDisk`) says what the disk of a mount is; it is a
statement about the records of `Setups`, and about reads it says nothing: nothing in it
is cut where a cluster, a piece, a page or an image ends, nor to a width. The four
properties below `StartsIfItCan` are about mounts whose sizes, chunks and free blocks
the code takes right (`TakenRight`, section 2.6), and say nothing of the others.
`RequestsFit` says that a read of a byte swapped image begins and ends with a pair of
bytes, and one of unallocated blocks begins with a block: without the first `SwabRead`
swaps with what lies behind the data, without the second the theorem is false (run
`unallocated_read`). If all images are morphed with `combine` or `raid` it says nothing,
and reads may be any.

*Types and the search.* For the types alone one has to know what a read has passed. A
difference such as `in.left - n` stays above 0 because a file returns at most what it is
asked for (`ReadAnswers`), and the next read begins inside an image because the loop of
the morphing library never leaves the disk: `RequestInv` says where the loop is
(`Place`: in which image or chunk, and that what is left fits behind it), `MountInv`
that each image that is open has the size the options leave of it, `InputInv` that a
read of an image ends inside the image. For `combine`, that what is left lies in the
images behind is a sum over a part of the sizes (`CombineFinds`, `SumSteps`).

`AaffInv` and `PageInv` are about the search. Between two searches the file stands
behind the page in the buffer or nowhere (`Behind`); during one it stands at a page in
front of the one that is looked for, with as many hops as there are pages from it to
that one (`Before`), if the seek array is as long as what is looked up in it; if not, a
search may begin anywhere, and all that is kept is that what the array itself knows is
right and that a page in the buffer is the one it is said to be. A failed search leaves
the file anywhere and forgets the page, so that the next one starts at an entry of the
seek array. `HopsAreEnough` is `Before` read at the last hop.

`HandlesGivenBack` has an invariant of its own (`HandlesInv`): what a handle holds is
one of what Open leaves behind, on its way through Close and DestroyHandle.

*The bytes.* That what the code computes is what `MorphedDisk` says, if it takes it
right, are lemmas of their own: `LengthIs` about sizes, `FatIsTold`, `HfsIsTold` and
`BlocksAreTold` about free blocks. From there the argument has three layers, each with
lemmas that do not mention the others:

1. One turn of an input library's loop returns bytes of the image, and at least one
   if they are there (`RawDelivers`, `QcowDelivers`, `VdiDelivers`, `LibraryDelivers`,
   together `ReadDelivers`). Here is what the libraries do to find a place: what is
   returned does not cross the end of a unit (`InUnitKeeps`), inside a unit the
   quotient is the same (`SameUnit`), the pieces of a raw image do not overlap and
   leave no gap (`PieceFound`). For a page of an AFF image this is `PageBytes`.
2. One turn of a morphing library's loop asks for the place of an image that the disk
   shows at the place the loop has come to (`CombineStepRight`, `RaidStepRight`,
   `UnallocatedStepRight`, `SwabStepRight`, together `MorphStepRight`), and the turn
   after it goes on where this one ends (`OnTheWay`, `NextUnit`).
3. The inductive invariant `Ready => DeliverInv` joins them; `Ready` is that the mount is
   described and taken right, and does not change after the start. `PlaceInv`: the loop of the
   morphing library is on its way at the place up to which bytes were copied.
   `ComesInv`: what the image has from the cursor of its own loop on is what the disk
   has behind what was copied; for an AFF image the cursor is computed from what is left,
   and is the beginning of the next page. `CopiedInv`: what was copied is the disk, of
   exactly the length the two loops have made - before `SwabBytes`, the disk with its
   pairs of bytes not yet swapped. `CompleteInv`: if the files hold everything, an image
   never gives less than it is asked for.

A read that fails can do so in each of these places, and `FailuresExplained` is what the
cases leave: an image that could not be read, one whose error flag is set, one that is cut
off, or any AFF image.

### 4.7 Model-checked only

* liveness, which TLAPS cannot prove: `MutexReleased`, `ReadsReturn`,
  `RequestsAnswered`, `StartsOrEnds`, `CallsReturn`.

Every other property of a passing run is a theorem.

## 5. Where the code departs from what one would state

Besides the three findings, which have runs of their own, these came up while
modelling. Each is either an exception named in a property or a fault a run
leaves out.

* The result of `fflush` is ignored (`src/xmount.c:1743`): with `"flush"` in `Faults`
  a block is marked that is not in the file, and `MarkedChunksWritten`,
  `AssignedChunksStored` and `IsADisk` are violated.
* When the slot of a new chunk cannot be written (`src/xmount.c:1748` ff.), the
  chunk stays marked in memory: the next write to it succeeds, and is lost if
  xmount is killed. With `"entry"` in `Faults`, `IndexDurable` and `IsADisk` are violated.
* A first write to the last block of an image which is not a multiple of the block
  size fails if it reaches the end of the image (`cache_last_block`). One that stops
  before that succeeds, fills the block up and leaves the rest to later writes.
* `FuseMkNod` takes any path (`src/xmount.c:3163`), although the comment at line 3152 says
  that only VMware's lock file can be created. The kernel's lock on a directory thus keeps
  neither two `mknod`s apart nor a `mknod` and an `unlink`: between the look at the
  name and its assignment (3163-3168) another file may be made in another directory, and
  both clients are told that theirs is the lock file; between `unlink`'s two halves
  (3494-3498) a new file may be made and written to, whose data are then freed. The
  model has both; `LockExclusive` and the properties of the lock file's data say that
  they are about the time before.
* The sizes of the descriptor and of the lock file are ints (`src/xmount.h:391`, `:399`). A write
  that ends beyond 2^31 - 1 makes the size negative (`src/xmount.c:3595`, `:3607`), the
  next comparison takes that for a huge number (3581, 3602), and the data are copied
  to behind the buffer. Also in the model, and excepted by `WellUsed`.
* `FuseReadDir` lists the lock file without the beginning that a path in the lock directory
  has; for one that was made elsewhere, with a short name, it reads behind the
  name. Listing is not modelled.
* `FuseRename` looks at the old name only: the lock file can be renamed over the image or
  the descriptor, under whose names it is then never found. The clients of the model
  rename to where there is nothing.
* The number of blocks of a VDI, the size of its map and that of its header are
  `uint32_t` (`src/xmount.h:369`, `:373`; `src/xmount.c:1848`): of an image with some 2^30 blocks
  the map is too short. `HeaderFits` is about those that can be counted (`VdiCountable`).
* `AewfRead` drops the errors of the functions it calls
  (`libxmount_input_aewf.c:1717`); the number of bytes is the caller's only hint.
* A table that could not be read, and a segment file whose size changed since
  `AewfOpen`, stay in the pointers but not in the counters of the two caches: with
  `"table"` or `"size"` in `Faults`, `TableCacheCounted` and `OpenSegmentsCounted` are
  violated.
* A chunk that does not match its checksum stays in the buffer of a thread under
  its number, and the next read takes it from there without an error;
  `ChunkInBuffIsStored` is about chunks that are intact.
* A structure becomes `AEWF_LAUNCHED` whether or not `pthread_create` succeeded
  (`libxmount_input_aewf.c:1025`; the comment there says otherwise), and a thread
  that was never created is joined.
* `DeInit` is called for every image and not for every library
  (`src/xmount.c:2816`): `NothingLeft` excepts libraries with several images. It is called
  for images that have a handle, so a library whose `Init` succeeded and whose
  `CreateHandle` then failed never gets it; `NothingLeft` does not ask for that.
* When the hash of the image cannot be computed `main` returns without
  `FreeResources` (`src/xmount.c:3939`).
* A raw image of which a piece is missing and an encrypted AFF image are closed
  twice, the second time with pointers that were freed; the name and the file of a
  VDI image are never given back. `GivenBackOnce` excepts them.
* A FAT16 entry is masked with twelve bits (`fat_functions.c:314`), so that a used
  cluster whose successor has a number that is a multiple of 4096 looks free and is
  served as unallocated. A mount of the run has one; `BlocksTold` excepts it.
* Offsets of HFS+ blocks are multiplied in a `uint32_t` (`hfs_functions.c:157`, `:206`): free
  blocks that lie behind 4 GiB are read from the wrong place, and so is an allocation
  file there. A mount of the run has such a block; `BlocksTold` excepts it. That the
  allocation file or the FAT may be shorter than the file system has blocks or clusters,
  and is then read behind its end, is left out.
* `AaffU64` puts a number together from bytes of type `char` (`libxmount_input_aaff.c:192`): one of
  128 or more sets all bits above it, so that a size with such a byte is misread, as one
  far too large. A mount of the run has such a size;
  `SizesRead` excepts it. Where a page would then lie behind the real end,
  `PageLen - Ofs` can wrap in its `uint32_t`; what is copied from behind the page buffer
  is a byte of no image in the model.
* The seek array of an AFF image has `TotalPages / Interleave` entries, rounded down
  (`libxmount_input_aaff.c:588`): if there is a remainder, a search for one of the last
  pages looks at the array, and writes to it, behind its end. What is read there is any
  value in the model, and one of the run's mounts has such an image; what the write
  destroys is left out. With `aaffmaxmem=0` the interleave is a division by zero (line
  584), which is left out too.
* In `RaidMorph` zero chunks stand for "no image yet" (`libxmount_morphing_raid.c:150`):
  an image that is smaller than a chunk does not make the RAID empty if a larger one
  follows. A mount of the run is such a RAID;
  `ChunksEverywhere` excepts it.
* `SwabMorph` adds up the sizes of all images, but `SwabRead` reads the first one only
  (`libxmount_morphing_swab.c:143`, `:198`): what lies behind that cannot be read. With several
  images `--morph swab` serves a disk whose end always fails, and `IsComplete` is about
  a single one.
* An odd offset or an odd size makes `SwabRead` swap with a byte that lies behind
  the data; the kernel does not ask for those.

## 6. What is not modelled, and the plan

| part | why, and what is planned |
|---|---|
| `AewfOpen` | the walk over the sections of the segment files is parsing; its result, tables and segments, is a constant of `AewfReader` |
| the rest of the AEWF and AAFF libraries | options, statistics, log and info file: formatting |
| `FuseReadDir`, renaming over an existing file | listing changes nothing; the other is described in section 5 |
| writes behind the end of the AFF seek array, reads behind the end of a FAT or an allocation file | undefined, with no outcome that could be listed |
| sums of sizes beyond 2^64 | `combine` and `swab` add sizes in a `uint64_t`; images are taken to be smaller |
| texts of headers and descriptor, UUIDs, VHD checksum, info file | formatting; what other programs rely on, sizes and geometry, is in `VirtualHeaders` |
| `dlopen`, `dlsym`, string helpers, byte order, option strings | a library that loads or does not, a word that is a number or not |
| libewf, libaff, libaff4, zlib, libfuse, the kernel | external; modelled as far as xmount relies on them |
| `ntfs_functions.c` | a stub |
| MD5 | third-party, and its value is never compared |
| power loss | xmount never calls `fsync`; nothing can be claimed |
| macOS application, build files, documentation | no program logic |

Not proved, since it does not hold: what is delivered when reads of unallocated blocks
begin inside one (section 5), and reads of swapped bytes that begin or end inside a pair.
