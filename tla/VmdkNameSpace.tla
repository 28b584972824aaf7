---------------------------- MODULE VmdkNameSpace ----------------------------
(***************************************************************************)
(* The files beside a VMDK image that VMware needs to open it (xmount.c):  *)
(* the descriptor, two lock directories and one lock file, kept in memory  *)
(* and changed by FUSE requests of several threads.  Only the contents of  *)
(* the files are under mutex_image_rw; the names are not.                  *)
(*                                                                         *)
(* Requests come from clients through the kernel and libfuse, which look a *)
(* path up before they use it, run one operation at a time that changes a  *)
(* directory, keep requests off a path that is being removed or renamed,   *)
(* and rename a file that is removed while it is open (external).          *)
(*                                                                         *)
(* Contents are abstracted to their length; file f has a buffer of         *)
(* alloc[f] bytes, 0 if there is none, and size[f] bytes according to      *)
(* xmount, which keeps that number in an int.                              *)
(***************************************************************************)
EXTENDS Integers

CONSTANTS
  Clients,
  NoClient,
  LockDir,   \* "<descriptor>.lck"
  Inside,    \* the paths in it that clients use
  Outside,   \* other paths in the root directory that clients use
  Siblings,  \* those of them whose name starts with that of LockDir
  Hidden,    \* what libfuse renames an open file to that is removed
  Root,
  NoPath,
  DescSize,  \* length of the descriptor that InitVirtualVmdkFile makes
  IntMax,    \* the greatest int: 2^31 - 1
  Huge,      \* the numbers of a uint64_t: 2^64
  Pieces     \* where reads and writes begin, and how long they are

Files == {"vmdk", "lock"}
Paths == {LockDir} \cup Inside \cup Outside
Names == Paths \cup {NoPath}
Visible == Paths \ Hidden

ASSUME VmdkConstants ==
  /\ NoClient \notin Clients
  /\ NoPath \notin Paths /\ Root \notin Names
  /\ LockDir \notin Inside \cup Outside /\ Inside \cap Outside = {}
  /\ Siblings \subseteq Outside /\ Hidden \subseteq Inside \cup Outside
  /\ IntMax \in Nat /\ Huge \in Nat /\ Huge > 2 * (IntMax + 1)
  /\ DescSize \in Nat \ {0} /\ DescSize <= IntMax
  /\ \A piece \in Pieces : piece.off \in Nat /\ piece.len \in Nat \ {0}

VARIABLES
  lockdir1, lockdir2,  \* p_vmdk_lockdir1, p_vmdk_lockdir2
  lockname,            \* p_vmdk_lockfile_name
  size,                \* vmdk_file_size, vmdk_lockfile_size
  alloc,               \* length of p_vmdk_file, p_vmdk_lockfile_data
  mutex,               \* owner of mutex_image_rw
  rq,                  \* the request of each client, and its handler's locals
  fd,                  \* the file that each client has open
  holds,               \* the lock file that each client believes to be its own
  misused              \* history: files made longer than an int can tell, and
                       \* "names" if a lock file got its name while another
                       \* request was half-way through giving or taking one

vars == <<lockdir1, lockdir2, lockname, size, alloc, mutex, rq, fd, holds, misused>>

Idle == [op |-> "none", step |-> "done", p |-> NoPath, np |-> NoPath,
         file |-> "vmdk", off |-> 0, len |-> 0]

StartSize == [f \in Files |-> IF f = "vmdk" THEN DescSize ELSE 0]

Init ==
  /\ lockdir1 = NoPath /\ lockdir2 = NoPath /\ lockname = NoPath
  /\ size = StartSize /\ alloc = StartSize
  /\ mutex = NoClient
  /\ rq = [c \in Clients |-> Idle]
  /\ fd = [c \in Clients |-> NoPath]
  /\ holds = [c \in Clients |-> NoPath]
  /\ misused = {}

UnchangedNames == UNCHANGED <<lockdir1, lockdir2, lockname>>
UnchangedData == UNCHANGED <<size, alloc>>
UnchangedClients == UNCHANGED <<fd, holds>>

-----------------------------------------------------------------------------
(* What the handlers look at first, without the mutex                      *)

\* Mutant: the second directory may have any name.
May_AnyName(r) ==
  \/ r.op = "mkdir" /\ lockdir1 = NoPath /\ r.p = LockDir
  \/ r.op = "mkdir" /\ lockdir1 # NoPath /\ lockdir2 = NoPath
  \/ r.op = "mknod" /\ lockdir1 # NoPath /\ lockname = NoPath
  \/ r.op \in {"rename", "unlink"} /\ lockname # NoPath /\ lockname = r.p
  \/ r.op = "rmdir" /\ r.p \in {lockdir1, lockdir2}

\* Mutant: a second lock file takes the place of the first.
May_Again(r) ==
  \/ r.op = "mkdir" /\ lockdir1 = NoPath /\ r.p = LockDir
  \/ r.op = "mknod" /\ lockdir1 # NoPath
  \/ r.op \in {"rename", "unlink"} /\ lockname # NoPath /\ lockname = r.p
  \/ r.op = "rmdir" /\ r.p \in {lockdir1, lockdir2}

\* What a handler that changes names asks for before it does.  The name of a
\* second directory has to start with that of the first one; a lock file may
\* have any name.
May(r) ==
  \/ r.op = "mkdir" /\ lockdir1 = NoPath /\ r.p = LockDir
  \/ /\ r.op = "mkdir" /\ lockdir1 # NoPath /\ lockdir2 = NoPath
     /\ r.p \in {LockDir} \cup Inside \cup Siblings
  \/ r.op = "mknod" /\ lockdir1 # NoPath /\ lockname = NoPath
  \/ r.op \in {"rename", "unlink"} /\ lockname # NoPath /\ lockname = r.p
  \/ r.op = "rmdir" /\ r.p \in {lockdir1, lockdir2}

\* Conversions from a size to an int, and from an int to a size.
AsInt(n) == LET m == n % (2 * (IntMax + 1))
            IN IF m <= IntMax THEN m ELSE m - 2 * (IntMax + 1)
AsSize(n) == IF n < 0 THEN n + Huge ELSE n

\* What FuseRead leaves of a read, and FuseWrite of a write: a read is cut at the
\* size, which is looked at before the mutex is taken.
Cut(r) ==
  LET end == AsSize(size[r.file])
  IN IF r.op = "read" /\ r.off + r.len > end THEN end - r.off ELSE r.len

\* Mutant: the read is not cut.
Check_Uncut(r) ==
  IF r.file = "lock" /\ lockname # r.p THEN Idle ELSE [r EXCEPT !.step = "lock"]

\* Which file is meant, and whether there is something to read.
Check(r) ==
  IF \/ r.file = "lock" /\ lockname # r.p
     \/ r.op = "read" /\ r.off >= AsSize(size[r.file])
  THEN Idle ELSE [r EXCEPT !.step = "lock", !.len = Cut(r)]

-----------------------------------------------------------------------------
(* The kernel and libfuse.  A request begins with what its handler looks   *)
(* at first: nothing that happens between the kernel's checks and that     *)
(* look could change the former, since the request is already under way.   *)

Parent(p) == IF p \in Inside THEN LockDir ELSE Root

\* What FuseGetAttr finds under a path other than the root, the image and the
\* info file; the descriptor is always there.
GetAttr(p) == IF p = NoPath THEN "nothing"
              ELSE IF p \in {lockdir1, lockdir2} THEN "directory"
              ELSE IF p = lockname THEN "file" ELSE "nothing"

ParentExists(p) == Parent(p) = Root \/ GetAttr(Parent(p)) = "directory"
NameOps == {"mkdir", "mknod", "rename", "rmdir", "unlink"}

\* The directories the kernel locks for a request that changes names.
Locked(r) == {Parent(x) : x \in {r.p, r.np} \ {NoPath}}
               \cup {x \in {r.p} : r.op = "rmdir"}

\* A path that a request is removing or renaming, or about to rename to.
Removing(c, p) == /\ rq[c].op \in {"rename", "rmdir", "unlink"}
                  /\ p \in {rq[c].p, rq[c].np}
\* A request on p or below may start.
PathFree(p) == \A c \in Clients : ~Removing(c, p) /\ ~Removing(c, Parent(p))
\* No request on p or below is under way.
Unused(p) == \A c \in Clients : rq[c].op # "none" =>
  p # rq[c].p /\ (rq[c].p # NoPath => p # Parent(rq[c].p))

Begin(c, r) == /\ rq[c].op = "none"
               /\ rq' = [rq EXCEPT ![c] = r]
               /\ UnchangedNames /\ UnchangedData /\ UNCHANGED <<mutex, misused>>

\* A refused request is answered at once.
BeginName(c, op, p, np) ==
  LET r == [Idle EXCEPT !.op = op, !.step = "set", !.p = p, !.np = np]
  IN /\ ParentExists(p) /\ PathFree(p)
     /\ \A d \in Clients :
          rq[d].op \in NameOps => Locked(rq[d]) \cap Locked(r) = {}
     /\ Begin(c, IF May(r) THEN r ELSE Idle)

\* mkdir or mknod of any path at which the kernel finds nothing.
BeginMake(c) ==
  /\ \E p \in Visible, op \in {"mkdir", "mknod"} :
       GetAttr(p) = "nothing" /\ BeginName(c, op, p, NoPath)
  /\ UnchangedClients

\* rename of the lock file to any path at which there is nothing.
BeginRename(c) ==
  /\ \E p, np \in Visible :
       /\ p # np /\ GetAttr(p) = "file" /\ GetAttr(np) = "nothing"
       /\ ParentExists(np) /\ PathFree(np) /\ Unused(p) /\ Unused(np)
       /\ BeginName(c, "rename", p, np)
  /\ UnchangedClients

\* Removing the lock file gives up the lock, or breaks that of another client.
BeginUnlink(c) ==
  /\ \E p \in Visible :
       /\ GetAttr(p) = "file" /\ Unused(p)
       /\ IF \E d \in Clients : fd[d] = p THEN
            \E h \in Hidden : /\ Parent(h) = Parent(p)
                              /\ GetAttr(h) = "nothing" /\ Unused(h)
                              /\ BeginName(c, "rename", p, h)
          ELSE BeginName(c, "unlink", p, NoPath)
       /\ holds' = [d \in Clients |-> IF holds[d] = p THEN NoPath ELSE holds[d]]
  /\ UNCHANGED fd

\* Open files below a removed directory can no longer be used.
BeginRmDir(c) ==
  /\ \E p \in Visible :
       /\ GetAttr(p) = "directory" /\ Unused(p)
       /\ BeginName(c, "rmdir", p, NoPath)
       /\ fd' = [d \in Clients |->
                   IF fd[d] # NoPath /\ Parent(fd[d]) = p THEN NoPath ELSE fd[d]]
  /\ UNCHANGED holds

\* FuseOpen of the lock file.
Open(c) ==
  /\ rq[c].op = "none" /\ fd[c] = NoPath
  /\ \E p \in Visible :
       /\ ParentExists(p) /\ PathFree(p) /\ GetAttr(p) = "file"
       /\ fd' = [fd EXCEPT ![c] = p]
  /\ UnchangedNames /\ UnchangedData /\ UNCHANGED <<mutex, rq, holds, misused>>

\* The last close of a file that was removed meanwhile removes it.
Close(c) ==
  /\ fd[c] # NoPath
  /\ fd' = [fd EXCEPT ![c] = NoPath]
  /\ IF fd[c] \in Hidden /\ (\A d \in Clients \ {c} : fd[d] # fd[c])
     THEN BeginName(c, "unlink", fd[c], NoPath)
     ELSE Begin(c, Idle)
  /\ UNCHANGED holds

\* A read or write of the descriptor, or of the lock file if it is open.
BeginTransfer(c) ==
  /\ \E op \in {"read", "write"}, f \in Files, piece \in Pieces :
       /\ f = "lock" => fd[c] # NoPath /\ PathFree(fd[c])
       /\ Begin(c, Check([Idle EXCEPT !.op = op, !.file = f,
                            !.p = IF f = "lock" THEN fd[c] ELSE NoPath,
                            !.off = piece.off, !.len = piece.len]))
  /\ UnchangedClients

-----------------------------------------------------------------------------
(* The rest of the handlers                                                *)

Answered(c) == rq' = [rq EXCEPT ![c] = Idle]
AtStep(c, op, step) == rq[c].op = op /\ rq[c].step = step
Goto(c, step) == rq' = [rq EXCEPT ![c].step = step]

\* What they assign then; only the kernel keeps other handlers out in between.
MkDir(c) ==
  /\ AtStep(c, "mkdir", "set")
  /\ IF rq[c].p = LockDir THEN lockdir1' = LockDir /\ UNCHANGED lockdir2
     ELSE lockdir2' = rq[c].p /\ UNCHANGED lockdir1
  /\ Answered(c)
  /\ UnchangedData /\ UnchangedClients /\ UNCHANGED <<lockname, mutex, misused>>

\* Neither directory has to be empty.
RmDir(c) ==
  /\ AtStep(c, "rmdir", "set")
  /\ IF rq[c].p = LockDir THEN lockdir1' = NoPath /\ UNCHANGED lockdir2
     ELSE lockdir2' = NoPath /\ UNCHANGED lockdir1
  /\ Answered(c)
  /\ UnchangedData /\ UnchangedClients /\ UNCHANGED <<lockname, mutex, misused>>

\* Another request is about to name the lock file, or has not yet freed the data
\* of one that it has taken the name of.
NameInWork(c) == \E d \in Clients \ {c} :
  AtStep(d, "mknod", "set") \/ rq[d].step = "data"

MkNod(c) ==
  /\ AtStep(c, "mknod", "set")
  /\ lockname' = rq[c].p
  /\ holds' = [holds EXCEPT ![c] = rq[c].p]
  /\ misused' = misused \cup {m \in {"names"} : NameInWork(c)}
  /\ Answered(c)
  /\ UnchangedData /\ UNCHANGED <<lockdir1, lockdir2, mutex, fd>>

\* The file keeps its owner, if it is not about to be removed, and stays open.
Rename(c) ==
  /\ AtStep(c, "rename", "set")
  /\ LET Moved(x) == IF x = rq[c].p THEN rq[c].np ELSE x
     IN /\ lockname' = rq[c].np
        /\ holds' = [d \in Clients |-> Moved(holds[d])]
        /\ fd' = [d \in Clients |-> Moved(fd[d])]
  /\ Answered(c)
  /\ UnchangedData /\ UNCHANGED <<lockdir1, lockdir2, mutex, misused>>

\* The name goes first; the mutex is not taken.
Unlink(c) ==
  /\ AtStep(c, "unlink", "set")
  /\ lockname' = NoPath
  /\ Goto(c, "data")
  /\ UnchangedData /\ UnchangedClients
  /\ UNCHANGED <<lockdir1, lockdir2, mutex, misused>>

\* Mutant: the size is kept.
UnlinkData_KeepSize(c) ==
  /\ AtStep(c, "unlink", "data")
  /\ alloc' = [alloc EXCEPT !["lock"] = 0]
  /\ Answered(c)
  /\ UnchangedNames /\ UnchangedClients /\ UNCHANGED <<size, mutex, misused>>

UnlinkData(c) ==
  /\ AtStep(c, "unlink", "data")
  /\ alloc' = [alloc EXCEPT !["lock"] = 0]
  /\ size' = [size EXCEPT !["lock"] = 0]
  /\ Answered(c)
  /\ UnchangedNames /\ UnchangedClients /\ UNCHANGED <<mutex, misused>>

Lock(c) ==
  /\ rq[c].step = "lock" /\ mutex = NoClient
  /\ mutex' = c
  /\ Goto(c, IF rq[c].op = "write" THEN "grow" ELSE "copy")
  /\ UnchangedNames /\ UnchangedData /\ UnchangedClients /\ UNCHANGED misused

End(c) == rq[c].off + rq[c].len
Grows(c) == End(c) > AsSize(size[rq[c].file])

\* A write beyond the end gets a longer buffer.  The size is set before that
\* for the lock file and after it for the descriptor.
Grow(c) ==
  /\ rq[c].step = "grow"
  /\ IF ~Grows(c) THEN Goto(c, "copy") /\ UnchangedData /\ UNCHANGED misused
     ELSE /\ Goto(c, "grown")
          /\ IF rq[c].file = "lock"
             THEN size' = [size EXCEPT !["lock"] = AsInt(End(c))] /\ UNCHANGED alloc
             ELSE alloc' = [alloc EXCEPT !["vmdk"] = End(c)] /\ UNCHANGED size
          /\ misused' = misused \cup {f \in {rq[c].file} : End(c) > IntMax}
  /\ UnchangedNames /\ UnchangedClients /\ UNCHANGED mutex

\* The lock file gets as many bytes as its size says, which no allocation gives
\* if that is negative.
Grown(c) ==
  /\ rq[c].step = "grown"
  /\ IF rq[c].file = "lock"
     THEN /\ size["lock"] >= 0
          /\ alloc' = [alloc EXCEPT !["lock"] = size["lock"]] /\ UNCHANGED size
     ELSE size' = [size EXCEPT !["vmdk"] = AsInt(End(c))] /\ UNCHANGED alloc
  /\ Goto(c, "copy")
  /\ UnchangedNames /\ UnchangedClients /\ UNCHANGED <<mutex, misused>>

\* An allocation fails and ends the process; what follows is another mount.
Exit(c) ==
  /\ \/ rq[c].step = "grow" /\ rq[c].file = "vmdk" /\ Grows(c)
     \/ rq[c].step = "grown" /\ rq[c].file = "lock"
  /\ lockdir1' = NoPath /\ lockdir2' = NoPath /\ lockname' = NoPath
  /\ size' = StartSize /\ alloc' = StartSize
  /\ mutex' = NoClient
  /\ rq' = [d \in Clients |-> Idle]
  /\ fd' = [d \in Clients |-> NoPath]
  /\ holds' = [d \in Clients |-> NoPath]
  /\ misused' = {}

\* Mutant: the mutex is kept.
Copy_KeepMutex(c) ==
  /\ rq[c].step = "copy"
  /\ Answered(c)
  /\ UnchangedNames /\ UnchangedData /\ UnchangedClients
  /\ UNCHANGED <<mutex, misused>>

\* memcpy, unlock, answer.
Copy(c) ==
  /\ rq[c].step = "copy"
  /\ mutex' = NoClient
  /\ Answered(c)
  /\ UnchangedNames /\ UnchangedData /\ UnchangedClients /\ UNCHANGED misused

Client(c) == BeginMake(c) \/ BeginRename(c) \/ BeginUnlink(c) \/ BeginRmDir(c)
               \/ Open(c) \/ Close(c) \/ BeginTransfer(c)
Handler(c) == MkDir(c) \/ RmDir(c) \/ MkNod(c) \/ Rename(c)
                \/ Unlink(c) \/ UnlinkData(c)
                \/ Lock(c) \/ Grow(c) \/ Grown(c) \/ Exit(c) \/ Copy(c)
Next == \E c \in Clients : Client(c) \/ Handler(c)
Spec == Init /\ [][Next]_vars

\* A worker thread of libfuse runs on; who gets the mutex is left open.
FairSpec == Spec /\ \A c \in Clients : WF_vars(Handler(c))

-----------------------------------------------------------------------------
(* Properties                                                              *)

Steps == {"done", "set", "data", "lock", "grow", "grown", "copy"}

\* The variables have their types: the second directory's name starts with that
\* of the first (FuseMkDir), and a size is an int.
TypeOK ==
  /\ lockdir1 \in {LockDir, NoPath}
  /\ lockdir2 \in Inside \cup Siblings \cup {NoPath}
  /\ lockname \in Names
  /\ size \in [Files -> Int]
  /\ \A f \in Files : -IntMax - 1 <= size[f] /\ size[f] <= IntMax
  /\ alloc \in [Files -> Nat]
  /\ mutex \in Clients \cup {NoClient}
  /\ rq \in [Clients -> [op : NameOps \cup {"none", "read", "write"}, step : Steps,
                         p : Names, np : Names, file : Files,
                         off : Nat, len : Nat]]
  /\ fd \in [Clients -> Names]
  /\ holds \in [Clients -> Visible \cup {NoPath}]
  /\ misused \subseteq Files \cup {"names"}

\* The lock works unless two lock files were made at the same time, which they
\* can be in different directories: the client whose lock file was created
\* (FuseMkNod) is the only one that has it, and the file stays, under the name
\* it was last given, until somebody removes it, whatever else is created,
\* renamed or removed, in the lock directory or elsewhere.
LockExclusive == "names" \notin misused =>
  \A c \in Clients : holds[c] # NoPath =>
    /\ lockname = holds[c]
    /\ \A d \in Clients : holds[d] # NoPath => c = d

\* A file was used as xmount is made for: no write made it longer than an int
\* can tell, and if it is the lock file, its name and data came and went alone.
WellUsed(f) == f \notin misused /\ (f = "lock" => "names" \notin misused)

\* No memcpy of FuseRead or FuseWrite about such a file leaves the buffer: the
\* size that a read was cut to before it got the mutex is still there when it
\* copies, although FuseUnlink frees the buffer without the mutex, and neither
\* what happens to the other file nor what is done to directories matters.
CopiesInBounds == \A c \in Clients :
  rq[c].step = "copy" /\ WellUsed(rq[c].file) => End(c) <= alloc[rq[c].file]

\* While nobody makes such a file longer or removes it, its size is that of its
\* buffer, and not negative.
SizeIsAllocated == \A f \in Files :
  WellUsed(f) /\ (\A c \in Clients : rq[c].step \notin {"grown", "data"})
    => size[f] = alloc[f]

\* Every request is answered unless it waits for the mutex, and the mutex is
\* given back every time (the lock and unlock pairs of FuseRead and FuseWrite).
RequestsAnswered ==
  /\ \A c \in Clients :
       rq[c].op # "none" ~> rq[c].op = "none" \/ rq[c].step = "lock"
  /\ []<>(mutex = NoClient)

=============================================================================
