------------------------- MODULE VmdkNameSpaceProofs -------------------------
(***************************************************************************)
(* Theorems about VmdkNameSpace, for any number of clients, any names and  *)
(* any lengths.                                                            *)
(*                                                                         *)
(* FuseUnlink, FuseRename and FuseMkNod do not take the mutex.  What       *)
(* protects names and buffer of the lock file is that the kernel lets one  *)
(* operation at a time change a directory (DirsApart), and that libfuse    *)
(* lets none remove or rename a file that a request is about               *)
(* (OpenTransfers): who reads or writes the lock file keeps it, and the    *)
(* buffer is freed when nobody is about to copy.  The kernel does not keep *)
(* lock files in two directories apart: from the moment that one gets its  *)
(* name while another request is half-way, nothing is said of the lock     *)
(* file; nor of a file that a write has made longer than an int can tell.  *)
(***************************************************************************)
EXTENDS VmdkNameSpace, TLAPS

Request == [op : NameOps \cup {"none", "read", "write"}, step : Steps,
            p : Names, np : Names, file : Files, off : Nat, len : Nat]

Transfers == {"read", "write"}
Removals == {"rename", "unlink"}
InMutex == {"grow", "grown", "copy"}
NamesApart == "names" \notin misused

-----------------------------------------------------------------------------
(* The invariant                                                           *)

\* What a request is about, and the steps its handler takes.
Shape(r) ==
  /\ r.op = "none" => r.step = "done"
  /\ r.op \in NameOps =>
       r.p \in Paths /\ (r.step = "set" \/ (r.step = "data" /\ r.op = "unlink"))
  /\ r.op = "mkdir" => r.p \in {LockDir} \cup Inside \cup Siblings
  /\ r.op = "mknod" => r.p \in Visible
  /\ r.op = "rename" => r.np \in Paths
  /\ r.op \in Transfers => r.step \in {"lock"} \cup InMutex
  /\ r.op \in Transfers /\ r.file = "lock" => r.p \in Paths
  /\ r.step \in {"grow", "grown"} => r.op = "write"

Shapes == \A c \in Clients : Shape(rq[c])

\* Requests that change names are about different directories.
DirsApart == \A c, d \in Clients :
  c # d /\ rq[c].op \in NameOps /\ rq[d].op \in NameOps
    => Locked(rq[c]) \cap Locked(rq[d]) = {}

Transfer(c) == rq[c].op \in Transfers /\ rq[c].file = "lock"

\* Who reads or writes the lock file has it open; nobody removes or renames it
\* meanwhile, so that it keeps the name that was found.
OpenTransfers == \A c \in Clients : Transfer(c) =>
  /\ fd[c] = rq[c].p
  /\ NamesApart => lockname = rq[c].p
  /\ \A d \in Clients : rq[d].op \in Removals =>
       rq[c].p # rq[d].p /\ rq[c].p # rq[d].np

\* The name of the lock file is still what a handler found when it began, and
\* gone when its data are freed.
NamesInv == NamesApart => \A c \in Clients :
  /\ rq[c].op = "mknod" \/ rq[c].step = "data" => lockname = NoPath
  /\ rq[c].op \in Removals /\ rq[c].step = "set" => lockname = rq[c].p

\* Who is between lock and unlock owns the mutex.
MutexInv == \A c \in Clients : (mutex = c) <=> (rq[c].step \in InMutex)

\* A request that is to copy what its handler has compared with the size.
Sized(c) == rq[c].step = "copy" \/ (rq[c].step = "lock" /\ rq[c].op = "read")

\* Size and buffer differ only while one of them is already changed; what is
\* to be copied lies inside the size.
SizeInv == \A f \in Files : WellUsed(f) =>
  /\ size[f] >= 0
  /\ (\A c \in Clients : ~(rq[c].step = "grown" /\ rq[c].file = f))
       => size[f] = alloc[f]
  /\ \A c \in Clients : rq[c].step = "grown" /\ rq[c].file = f =>
       /\ End(c) <= IntMax
       /\ IF f = "lock" THEN size[f] = End(c)
          ELSE alloc[f] = End(c) /\ size[f] <= End(c)
  /\ \A c \in Clients : Sized(c) /\ rq[c].file = f => End(c) <= size[f]

\* The lock is held under the name the file has; a file that is being removed
\* is nobody's lock.
HoldInv ==
  /\ LockExclusive
  /\ \A c \in Clients :
       (rq[c].op = "unlink" \/ (rq[c].op = "rename" /\ rq[c].np \in Hidden))
         => \A d \in Clients : holds[d] # rq[c].p

Inv == /\ TypeOK /\ Shapes /\ DirsApart /\ OpenTransfers
       /\ NamesInv /\ MutexInv /\ SizeInv /\ HoldInv

-----------------------------------------------------------------------------
(* The constants, the conversions, and what the invariant gives            *)

\* The names of the constants' sets are different from each other.
LEMMA PathFacts ==
  /\ NoPath \notin Paths /\ LockDir # NoPath /\ LockDir \in Paths
  /\ Visible \subseteq Paths /\ Visible \cap Hidden = {} /\ Hidden \subseteq Paths
  /\ Paths \subseteq Names /\ NoPath \in Names
  /\ NoClient \notin Clients
  BY VmdkConstants DEF Paths, Visible, Names

\* A request that is answered is well formed.
LEMMA IdleFacts ==
  /\ Idle \in Request /\ Shape(Idle) /\ Idle.op = "none" /\ Idle.step = "done"
  BY DEF Request, Idle, Names, Files, Steps, Shape, NameOps, Transfers, InMutex

\* A remainder lies below what it is the remainder of a division by.
LEMMA Remainder ==
  ASSUME NEW n \in Nat, NEW m \in Nat, m > 0
  PROVE  n % m \in Nat /\ n % m < m /\ (n < m => n % m = n)
  OBVIOUS

\* An int is an int, and a length that is one stays as it is.
LEMMA AsIntFacts ==
  ASSUME NEW n \in Nat
  PROVE  /\ AsInt(n) \in Int /\ -IntMax - 1 <= AsInt(n) /\ AsInt(n) <= IntMax
         /\ n <= IntMax => AsInt(n) = n
<1>. DEFINE k == 2 * (IntMax + 1)
            m == n % k
<1>1. IntMax \in Nat /\ k \in Nat /\ k > 0 /\ k = 2 * IntMax + 2
  BY VmdkConstants
<1>2. m \in Nat /\ m < k /\ (n < k => m = n)
  <2>. HIDE DEF k
  <2>. QED BY <1>1, Remainder
<1>3. AsInt(n) = IF m <= IntMax THEN m ELSE m - k
  BY DEF AsInt
<1>. HIDE DEF m, k
<1>. QED BY <1>1, <1>2, <1>3

\* A size as an unsigned number.
LEMMA AsSizeFacts ==
  ASSUME NEW n \in Int, -IntMax - 1 <= n, n <= IntMax
  PROVE  AsSize(n) \in Nat /\ (n >= 0 => AsSize(n) = n)
<1>1. IntMax \in Nat /\ Huge \in Nat /\ Huge > 2 * (IntMax + 1)
  BY VmdkConstants
<1>. QED BY <1>1 DEF AsSize

\* The invariant holds when xmount has built the descriptor.
LEMMA InitInv == Init => Inv
<1>. SUFFICES ASSUME Init PROVE Inv
  OBVIOUS
<1>1. \A c \in Clients : rq[c] = Idle
  BY DEF Init
<1>2. StartSize \in [Files -> Nat] /\ \A f \in Files : StartSize[f] <= IntMax
  BY VmdkConstants DEF StartSize, Files
<1>3. TypeOK
  <2>1. \A f \in Files : -IntMax - 1 <= StartSize[f]
    BY <1>2, VmdkConstants
  <2>2. size \in [Files -> Int] /\ alloc \in [Files -> Nat]
    BY <1>2 DEF Init
  <2>. QED BY <1>2, <2>1, <2>2, IdleFacts, PathFacts DEF Init, TypeOK, Request
<1>4. Shapes /\ DirsApart /\ OpenTransfers /\ NamesInv
  BY <1>1, IdleFacts DEF Shapes, DirsApart, OpenTransfers, Transfer, NamesInv,
     NameOps, Transfers, Removals
<1>5. MutexInv
  BY <1>1, IdleFacts, PathFacts DEF Init, MutexInv, InMutex
<1>6. SizeInv
  BY <1>1, <1>2, IdleFacts DEF Init, SizeInv, Sized
<1>7. HoldInv
  BY <1>1, IdleFacts DEF Init, HoldInv, LockExclusive
<1>. QED BY <1>3, <1>4, <1>5, <1>6, <1>7 DEF Inv

\* Who copies owns the mutex, so that no write is half-way.
LEMMA InvBounds == Inv => CopiesInBounds /\ SizeIsAllocated
<1>. SUFFICES ASSUME Inv PROVE CopiesInBounds /\ SizeIsAllocated
  OBVIOUS
<1>1. SizeIsAllocated
  BY DEF Inv, SizeInv, SizeIsAllocated
<1>2. ASSUME NEW c \in Clients, rq[c].step = "copy", WellUsed(rq[c].file)
      PROVE  End(c) <= alloc[rq[c].file]
  <2>1. mutex = c
    BY <1>2 DEF Inv, MutexInv, InMutex
  <2>2. \A d \in Clients : rq[d].step # "grown"
    BY <1>2, <2>1 DEF Inv, MutexInv, InMutex
  <2>3. rq[c].file \in Files
    BY DEF Inv, TypeOK
  <2>. QED BY <1>2, <2>2, <2>3 DEF Inv, SizeInv, Sized
<1>. QED BY <1>1, <1>2 DEF CopiesInBounds

\* What the invariant says of one request.
LEMMA RequestFacts ==
  ASSUME Inv, NEW c \in Clients
  PROVE  /\ rq[c] \in Request /\ Shape(rq[c]) /\ rq[c].file \in Files
         /\ rq[c].p \in Names /\ rq[c].np \in Names
         /\ rq[c].off \in Nat /\ rq[c].len \in Nat /\ End(c) \in Nat
         /\ rq[c].op \in NameOps \cup Transfers \cup {"none"}
         /\ rq[c].step \in {"lock"} \cup InMutex => rq[c].op \in Transfers
         /\ rq[c].step = "data" => rq[c].op = "unlink"
<1>1. rq[c] \in Request /\ Shape(rq[c])
  BY DEF Inv, TypeOK, Request, Shapes
<1>2. /\ rq[c].file \in Files /\ rq[c].p \in Names /\ rq[c].np \in Names
      /\ rq[c].off \in Nat /\ rq[c].len \in Nat
      /\ rq[c].op \in NameOps \cup Transfers \cup {"none"}
  BY <1>1 DEF Request, Transfers
<1>3. End(c) \in Nat
  BY <1>2 DEF End
<1>4. rq[c].step \in {"lock"} \cup InMutex => rq[c].op \in Transfers
  BY <1>1, <1>2 DEF Shape, InMutex
<1>5. rq[c].step = "data" => rq[c].op = "unlink"
  BY <1>1, <1>2 DEF Shape, InMutex, Transfers
<1>. QED BY <1>1, <1>2, <1>3, <1>4, <1>5

\* Two requests that change names are about different paths.
LEMMA PathsApart ==
  ASSUME Inv, NEW c \in Clients, NEW d \in Clients, c # d,
         rq[c].op \in NameOps, rq[d].op \in NameOps
  PROVE  rq[c].p # rq[d].p /\ (rq[c].op = "rename" => rq[c].np # rq[d].p)
<1>1. rq[c].p \in Paths /\ rq[d].p \in Paths /\ (rq[c].op = "rename" => rq[c].np \in Paths)
  BY RequestFacts DEF Shape
<1>2. /\ Parent(rq[c].p) \in Locked(rq[c]) /\ Parent(rq[d].p) \in Locked(rq[d])
      /\ rq[c].op = "rename" => Parent(rq[c].np) \in Locked(rq[c])
  BY <1>1, PathFacts DEF Locked
<1>3. Locked(rq[c]) \cap Locked(rq[d]) = {}
  BY DEF Inv, DirsApart
<1>. QED BY <1>2, <1>3

\* Sizes and buffers stay, and so does what requests need of them.
LEMMA SizeKept ==
  ASSUME Inv, UNCHANGED <<size, alloc>>, misused \subseteq misused',
         \A d \in Clients : rq[d].step = "grown" \/ rq'[d].step = "grown"
                               => rq'[d] = rq[d],
         \A d \in Clients : Sized(d)' /\ WellUsed(rq'[d].file) =>
                               End(d)' <= size[rq'[d].file]
  PROVE  SizeInv'
<1>. SUFFICES ASSUME NEW f \in Files, WellUsed(f)'
              PROVE  /\ size[f] >= 0
                     /\ (\A c \in Clients : ~(rq'[c].step = "grown" /\ rq'[c].file = f))
                          => size[f] = alloc[f]
                     /\ \A c \in Clients : rq'[c].step = "grown" /\ rq'[c].file = f =>
                          /\ End(c)' <= IntMax
                          /\ IF f = "lock" THEN size[f] = End(c)'
                             ELSE alloc[f] = End(c)' /\ size[f] <= End(c)'
                     /\ \A c \in Clients : Sized(c)' /\ rq'[c].file = f =>
                          End(c)' <= size[f]
  BY DEF SizeInv
<1>1. WellUsed(f)
  BY DEF WellUsed
<1>2. \A c \in Clients : rq'[c] = rq[c] => End(c)' = End(c)
  BY DEF End
<1>3. \A c \in Clients : rq[c].step = "grown" => rq'[c] = rq[c]
  OBVIOUS
<1>4. \A c \in Clients : rq'[c].step = "grown" => rq'[c] = rq[c]
  OBVIOUS
<1>5. (\A c \in Clients : ~(rq'[c].step = "grown" /\ rq'[c].file = f))
        => size[f] = alloc[f]
  BY <1>1, <1>3 DEF Inv, SizeInv
<1>6. \A c \in Clients : rq'[c].step = "grown" /\ rq'[c].file = f =>
        /\ End(c)' <= IntMax
        /\ IF f = "lock" THEN size[f] = End(c)'
           ELSE alloc[f] = End(c)' /\ size[f] <= End(c)'
  BY <1>1, <1>2, <1>4 DEF Inv, SizeInv
<1>7. size[f] >= 0
  BY <1>1 DEF Inv, SizeInv
<1>. QED BY <1>1, <1>5, <1>6, <1>7

-----------------------------------------------------------------------------
(* Requests begin                                                          *)

\* A request that begins changes nothing that is behind the mutex.
LEMMA BeginData ==
  ASSUME Inv, NEW c \in Clients, NEW r \in Request, Shape(r), Begin(c, r),
         r.step \in {"done", "set", "lock"},
         r.step = "lock" /\ r.op = "read" /\ WellUsed(r.file)
           => r.off + r.len <= size[r.file]
  PROVE  /\ rq' \in [Clients -> Request]
         /\ rq'[c] = r /\ \A d \in Clients : d # c => rq'[d] = rq[d]
         /\ rq[c].op = "none" /\ rq[c].step = "done"
         /\ UNCHANGED <<lockdir1, lockdir2, lockname, size, alloc, mutex, misused>>
         /\ Shapes' /\ MutexInv' /\ SizeInv'
<1>1. /\ rq' \in [Clients -> Request]
      /\ rq'[c] = r /\ \A d \in Clients : d # c => rq'[d] = rq[d]
  BY DEF Begin, Inv, TypeOK, Request
<1>2. UNCHANGED <<lockdir1, lockdir2, lockname, size, alloc, mutex, misused>>
  BY DEF Begin, UnchangedNames, UnchangedData
<1>3. Shapes'
  BY <1>1 DEF Inv, Shapes
<1>4. rq[c].op = "none" /\ rq[c].step = "done"
  BY DEF Begin, Inv, Shapes, Shape
<1>5. MutexInv'
  BY <1>1, <1>2, <1>4 DEF Inv, MutexInv, InMutex
<1>6. ASSUME NEW d \in Clients, Sized(d)', WellUsed(rq'[d].file)
      PROVE  End(d)' <= size[rq'[d].file]
  <2>1. CASE d = c
    BY <1>1, <1>6, <2>1 DEF Sized, End
  <2>2. CASE d # c
    <3>1. rq'[d] = rq[d] /\ rq[d].file \in Files
      BY <1>1, <2>2, RequestFacts
    <3>. QED BY <1>6, <3>1 DEF Inv, SizeInv, Sized, End
  <2>. QED BY <2>1, <2>2
<1>7. SizeInv'
  BY <1>1, <1>2, <1>4, <1>6, SizeKept
<1>. QED BY <1>1, <1>2, <1>3, <1>4, <1>5, <1>7

\* A request to change names begins, or is refused: none that is under way is
\* about the file if it goes, and no other changes the same directories.
LEMMA BeginNameInv ==
  ASSUME Inv, NEW c \in Clients, NEW op \in NameOps, NEW p \in Paths, NEW np \in Names,
         BeginName(c, op, p, np),
         op = "mknod" => p \in Visible,
         op = "rename" => np \in Paths,
         op \in Removals => \A d \in Clients : Transfer(d) => rq[d].p \notin {p, np},
         fd' \in [Clients -> Names],
         \A d \in Clients : Transfer(d) => fd'[d] = fd[d],
         holds' \in [Clients -> Visible \cup {NoPath}],
         \A d \in Clients : holds'[d] \in {holds[d], NoPath},
         op = "unlink" \/ (op = "rename" /\ np \in Hidden)
           => \A d \in Clients : holds'[d] # p
  PROVE  Inv'
<1>. DEFINE r == [Idle EXCEPT !.op = op, !.step = "set", !.p = p, !.np = np]
<1>1. r \in Request /\ r.op = op /\ r.step = "set" /\ r.p = p /\ r.np = np
  BY PathFacts DEF Request, Idle, Files, Steps
<1>2. Begin(c, IF May(r) THEN r ELSE Idle)
  BY DEF BeginName
<1>3. \A d \in Clients : rq[d].op \in NameOps => Locked(rq[d]) \cap Locked(r) = {}
  BY DEF BeginName
<1>. HIDE DEF r
<1>4. May(r) => Shape(r)
  BY <1>1 DEF May, Shape, NameOps, Transfers
<1>5. PICK s \in Request :
        /\ Begin(c, s) /\ Shape(s)
        /\ s.step \in {"set", "done"} /\ s.op \in NameOps \cup {"none"}
        /\ (s = r /\ May(r)) \/ s = Idle
  <2>1. CASE May(r)
    BY <1>1, <1>2, <1>4, <2>1
  <2>2. CASE ~May(r)
    BY <1>2, <2>2, IdleFacts
  <2>. QED BY <2>1, <2>2
<1>6. /\ rq' \in [Clients -> Request]
      /\ rq'[c] = s /\ \A d \in Clients : d # c => rq'[d] = rq[d]
      /\ UNCHANGED <<lockdir1, lockdir2, lockname, size, alloc, mutex, misused>>
      /\ Shapes' /\ MutexInv' /\ SizeInv'
  BY <1>5, BeginData
<1>7. TypeOK'
  BY <1>6 DEF Inv, TypeOK, Request
<1>8. s.op # "none" => s = r /\ May(r)
  BY <1>5, IdleFacts
<1>9. DirsApart'
  BY <1>3, <1>6, <1>8, IdleFacts DEF Inv, DirsApart, NameOps
<1>10. OpenTransfers'
  <2>. SUFFICES ASSUME NEW e \in Clients, Transfer(e)'
                PROVE  /\ fd'[e] = rq'[e].p
                       /\ NamesApart' => lockname' = rq'[e].p
                       /\ \A d \in Clients : rq'[d].op \in Removals =>
                            rq'[e].p # rq'[d].p /\ rq'[e].p # rq'[d].np
    BY DEF OpenTransfers
  <2>1. e # c /\ rq'[e] = rq[e] /\ Transfer(e)
    BY <1>5, <1>6 DEF Transfer, NameOps, Transfers
  <2>2. ASSUME NEW d \in Clients, rq'[d].op \in Removals
        PROVE  rq'[e].p # rq'[d].p /\ rq'[e].p # rq'[d].np
    <3>1. CASE d = c
      <4>1. s = r
        BY <1>6, <1>8, <2>2, <3>1 DEF Removals
      <4>. QED BY <1>1, <1>6, <2>1, <2>2, <3>1, <4>1
    <3>2. CASE d # c
      BY <1>6, <2>1, <2>2, <3>2 DEF Inv, OpenTransfers
    <3>. QED BY <3>1, <3>2
  <2>. QED BY <1>6, <2>1, <2>2 DEF Inv, OpenTransfers, NamesApart
<1>11. NamesInv'
  <2>1. May(r) => /\ r.op = "mknod" => lockname = NoPath
                  /\ r.op \in Removals => lockname = r.p
    BY <1>1 DEF May, Removals
  <2>. QED BY <1>1, <1>5, <1>6, <1>8, <2>1 DEF Inv, NamesInv, NamesApart, Removals
<1>12. HoldInv'
  <2>1. LockExclusive'
    BY <1>6 DEF Inv, HoldInv, LockExclusive
  <2>2. ASSUME NEW e \in Clients, NEW d \in Clients,
               rq'[e].op = "unlink" \/ (rq'[e].op = "rename" /\ rq'[e].np \in Hidden)
        PROVE  holds'[d] # rq'[e].p
    <3>1. CASE e = c
      BY <1>1, <1>6, <1>8, <2>2, <3>1
    <3>2. CASE e # c
      <4>1. rq'[e] = rq[e] /\ rq[e].p \in Paths
        BY <1>6, <2>2, <3>2, RequestFacts DEF Shape, NameOps
      <4>. QED BY <2>2, <4>1, PathFacts DEF Inv, HoldInv
    <3>. QED BY <3>1, <3>2
  <2>. QED BY <2>1, <2>2 DEF HoldInv
<1>. QED BY <1>6, <1>7, <1>9, <1>10, <1>11, <1>12 DEF Inv

\* mkdir and mknod begin.
LEMMA BeginMakeInv ==
  ASSUME Inv, NEW c \in Clients, BeginMake(c)
  PROVE  Inv'
<1>1. UNCHANGED <<fd, holds>>
  BY DEF BeginMake, UnchangedClients
<1>2. PICK p \in Visible, op \in {"mkdir", "mknod"} : BeginName(c, op, p, NoPath)
  BY DEF BeginMake
<1>3. p \in Paths /\ NoPath \in Names /\ op \in NameOps /\ op \notin Removals
  BY PathFacts DEF NameOps, Removals
<1>4. op # "rename" /\ op # "unlink"
  OBVIOUS
<1>. QED BY <1>1, <1>2, <1>3, <1>4, BeginNameInv DEF Inv, TypeOK

\* What Unused says of a path.
LEMMA NobodyOn ==
  ASSUME Inv, NEW p, Unused(p)
  PROVE  \A d \in Clients : Transfer(d) => rq[d].p # p
  BY DEF Unused, Transfer, Transfers

\* A rename of the lock file begins.
LEMMA BeginRenameInv ==
  ASSUME Inv, NEW c \in Clients, BeginRename(c)
  PROVE  Inv'
<1>1. UNCHANGED <<fd, holds>>
  BY DEF BeginRename, UnchangedClients
<1>2. PICK p \in Visible, np \in Visible :
        Unused(p) /\ Unused(np) /\ BeginName(c, "rename", p, np)
  BY DEF BeginRename
<1>3. \A d \in Clients : Transfer(d) => rq[d].p \notin {p, np}
  BY <1>2, NobodyOn
<1>4. p \in Paths /\ np \in Paths /\ np \in Names /\ np \notin Hidden
  BY PathFacts
<1>5. "rename" \in NameOps
  BY DEF NameOps
<1>. QED BY <1>1, <1>2, <1>3, <1>4, <1>5, BeginNameInv DEF TypeOK, Inv

\* A removal of the lock file begins; nobody holds it from now on.
LEMMA BeginUnlinkInv ==
  ASSUME Inv, NEW c \in Clients, BeginUnlink(c)
  PROVE  Inv'
<1>1. fd' = fd
  BY DEF BeginUnlink
<1>2. PICK p \in Visible :
        /\ Unused(p)
        /\ \/ \E h \in Hidden : Unused(h) /\ BeginName(c, "rename", p, h)
           \/ BeginName(c, "unlink", p, NoPath)
        /\ holds' = [d \in Clients |-> IF holds[d] = p THEN NoPath ELSE holds[d]]
  BY DEF BeginUnlink
<1>3. p \in Paths /\ p # NoPath
  BY PathFacts
<1>4. \A d \in Clients : Transfer(d) => rq[d].p # p /\ rq[d].p # NoPath
  BY <1>2, NobodyOn, RequestFacts, PathFacts DEF Shape, Transfer
<1>5. /\ holds' \in [Clients -> Visible \cup {NoPath}]
      /\ \A d \in Clients : holds'[d] \in {holds[d], NoPath} /\ holds'[d] # p
  BY <1>2, <1>3 DEF Inv, TypeOK
<1>6. "rename" \in NameOps /\ "unlink" \in NameOps
  BY DEF NameOps
<1>7. ASSUME NEW h \in Hidden, Unused(h), BeginName(c, "rename", p, h) PROVE Inv'
  <2>1. \A d \in Clients : Transfer(d) => rq[d].p \notin {p, h}
    BY <1>4, <1>7, NobodyOn
  <2>2. h \in Names /\ h \in Paths
    BY PathFacts
  <2>. QED BY <1>1, <1>3, <1>5, <1>6, <1>7, <2>1, <2>2, BeginNameInv DEF TypeOK, Inv
<1>8. CASE BeginName(c, "unlink", p, NoPath)
  BY <1>1, <1>3, <1>4, <1>5, <1>6, <1>8, PathFacts, BeginNameInv DEF TypeOK, Inv
<1>. QED BY <1>2, <1>7, <1>8

\* A removal of a directory begins.
LEMMA BeginRmDirInv ==
  ASSUME Inv, NEW c \in Clients, BeginRmDir(c)
  PROVE  Inv'
<1>1. holds' = holds
  BY DEF BeginRmDir
<1>2. PICK p \in Visible :
        /\ Unused(p) /\ BeginName(c, "rmdir", p, NoPath)
        /\ fd' = [d \in Clients |->
                    IF fd[d] # NoPath /\ Parent(fd[d]) = p THEN NoPath ELSE fd[d]]
  BY DEF BeginRmDir
<1>3. p \in Paths /\ NoPath \in Names /\ "rmdir" \in NameOps /\ "rmdir" \notin Removals
  BY PathFacts DEF NameOps, Removals
<1>4. fd' \in [Clients -> Names]
  BY <1>2, <1>3 DEF Inv, TypeOK
<1>5. ASSUME NEW d \in Clients, Transfer(d)
      PROVE  fd'[d] = fd[d]
  <2>1. fd[d] = rq[d].p /\ rq[d].p # NoPath /\ rq[d].op # "none"
    BY <1>5, RequestFacts, PathFacts DEF Inv, OpenTransfers, Shape, Transfer, Transfers
  <2>2. Parent(fd[d]) # p
    BY <1>2, <2>1 DEF Unused
  <2>. QED BY <1>2, <2>2
<1>. QED BY <1>1, <1>2, <1>3, <1>4, <1>5, BeginNameInv DEF Inv, TypeOK

\* A request that changes no name begins, or none at all.
LEMMA BeginOtherInv ==
  ASSUME Inv, NEW c \in Clients, NEW r \in Request, Shape(r), Begin(c, r),
         r = Idle \/ (r.op \in Transfers /\ r.step = "lock"),
         r.op = "read" /\ WellUsed(r.file) => r.off + r.len <= size[r.file],
         r.op # "none" /\ r.file = "lock" =>
           /\ fd'[c] = r.p /\ lockname = r.p
           /\ \A d \in Clients : rq[d].op \in Removals =>
                r.p # rq[d].p /\ r.p # rq[d].np,
         fd' \in [Clients -> Names],
         \A d \in Clients : d # c => fd'[d] = fd[d],
         holds' = holds
  PROVE  Inv'
<1>1. r.step \in {"done", "set", "lock"} /\ r.op \in Transfers \cup {"none"}
  BY IdleFacts
<1>2. /\ rq' \in [Clients -> Request]
      /\ rq'[c] = r /\ \A d \in Clients : d # c => rq'[d] = rq[d]
      /\ rq[c].op = "none"
      /\ UNCHANGED <<lockdir1, lockdir2, lockname, size, alloc, mutex, misused>>
      /\ Shapes' /\ MutexInv' /\ SizeInv'
  BY <1>1, BeginData
<1>3. TypeOK'
  BY <1>2 DEF Inv, TypeOK, Request
<1>4. DirsApart'
  BY <1>1, <1>2 DEF Inv, DirsApart, NameOps, Transfers
<1>5. OpenTransfers'
  <2>1. \A d \in Clients : rq'[d].op \in Removals => d # c /\ rq'[d] = rq[d]
    BY <1>1, <1>2 DEF Removals, Transfers
  <2>2. ASSUME NEW e \in Clients, Transfer(e)', e # c
        PROVE  /\ fd'[e] = rq'[e].p
               /\ NamesApart' => lockname' = rq'[e].p
               /\ \A d \in Clients : rq'[d].op \in Removals =>
                    rq'[e].p # rq'[d].p /\ rq'[e].p # rq'[d].np
    BY <1>2, <2>1, <2>2 DEF Inv, OpenTransfers, Transfer, NamesApart
  <2>3. ASSUME Transfer(c)'
        PROVE  /\ fd'[c] = rq'[c].p
               /\ NamesApart' => lockname' = rq'[c].p
               /\ \A d \in Clients : rq'[d].op \in Removals =>
                    rq'[c].p # rq'[d].p /\ rq'[c].p # rq'[d].np
    BY <1>2, <2>1, <2>3 DEF Transfer, Transfers
  <2>. QED BY <2>2, <2>3 DEF OpenTransfers
<1>6. NamesInv'
  <2>1. r.op # "mknod" /\ r.op \notin Removals /\ r.step # "data"
    BY <1>1 DEF Removals, Transfers
  <2>. QED BY <1>2, <2>1 DEF Inv, NamesInv, NamesApart
<1>7. HoldInv'
  <2>1. r.op # "unlink" /\ r.op # "rename"
    BY <1>1 DEF Transfers
  <2>. QED BY <1>2, <2>1 DEF Inv, HoldInv, LockExclusive
<1>. QED BY <1>2, <1>3, <1>4, <1>5, <1>6, <1>7 DEF Inv

\* The lock file is opened.
LEMMA OpenInv ==
  ASSUME Inv, NEW c \in Clients, Open(c)
  PROVE  Inv'
<1>1. /\ UNCHANGED <<lockdir1, lockdir2, lockname, size, alloc, mutex, rq, holds, misused>>
      /\ rq[c].op = "none"
      /\ fd' \in [Clients -> Names] /\ \A d \in Clients : d # c => fd'[d] = fd[d]
  <2>1. PICK p \in Visible : fd' = [fd EXCEPT ![c] = p]
    BY DEF Open
  <2>2. p \in Names
    BY PathFacts
  <2>. QED BY <2>1, <2>2 DEF Open, UnchangedNames, UnchangedData, Inv, TypeOK
<1>2. TypeOK'
  BY <1>1 DEF Inv, TypeOK
<1>3. Shapes' /\ DirsApart' /\ MutexInv' /\ NamesInv'
  BY <1>1 DEF Inv, Shapes, DirsApart, MutexInv, NamesInv, NamesApart
<1>4. OpenTransfers'
  <2>1. \A e \in Clients : Transfer(e)' => e # c /\ Transfer(e)
    BY <1>1 DEF Transfer, Transfers
  <2>. QED BY <1>1, <2>1 DEF Inv, OpenTransfers, NamesApart
<1>5. SizeInv' /\ HoldInv'
  BY <1>1 DEF Inv, SizeInv, Sized, WellUsed, End, HoldInv, LockExclusive
<1>. QED BY <1>2, <1>3, <1>4, <1>5 DEF Inv

\* The lock file is closed, and removed if that was put off.
LEMMA CloseInv ==
  ASSUME Inv, NEW c \in Clients, Close(c)
  PROVE  Inv'
<1>1. /\ holds' = holds /\ fd' \in [Clients -> Names]
      /\ \A d \in Clients : d # c => fd'[d] = fd[d]
  BY PathFacts DEF Close, Inv, TypeOK
<1>2. rq[c].op = "none"
  BY DEF Close, BeginName, Begin
<1>3. CASE Begin(c, Idle)
  BY <1>1, <1>3, IdleFacts, BeginOtherInv
<1>4. CASE /\ fd[c] \in Hidden
           /\ \A d \in Clients \ {c} : fd[d] # fd[c]
           /\ BeginName(c, "unlink", fd[c], NoPath)
  <2>1. fd[c] \in Paths /\ fd[c] \notin Visible /\ fd[c] # NoPath
    BY <1>4, PathFacts
  <2>2. \A d \in Clients : Transfer(d) => d # c /\ rq[d].p \notin {fd[c], NoPath}
    BY <1>2, <1>4, RequestFacts, PathFacts
       DEF Inv, OpenTransfers, Transfer, Transfers, Shape
  <2>3. \A d \in Clients : holds[d] # fd[c]
    BY <2>1 DEF Inv, TypeOK
  <2>4. "unlink" \in NameOps
    BY DEF NameOps
  <2>5. holds \in [Clients -> Visible \cup {NoPath}]
    BY DEF Inv, TypeOK
  <2>6. \A d \in Clients : Transfer(d) => fd'[d] = fd[d]
    BY <1>1, <2>2
  <2>. QED BY <1>1, <1>4, <2>1, <2>2, <2>3, <2>4, <2>5, <2>6, PathFacts, BeginNameInv
<1>. QED BY <1>3, <1>4 DEF Close

\* What FuseRead and FuseWrite look at first leaves of a request.
LEMMA CheckFacts ==
  ASSUME Inv, NEW r \in Request, r.op \in Transfers, r.file = "lock" => r.p \in Paths
  PROVE  \/ Check(r) = Idle
         \/ /\ Check(r) \in Request /\ Shape(Check(r))
            /\ Check(r).op = r.op /\ Check(r).step = "lock"
            /\ Check(r).file = r.file /\ Check(r).p = r.p
            /\ r.file = "lock" => lockname = r.p
            /\ r.op = "read" /\ WellUsed(r.file)
                 => Check(r).off + Check(r).len <= size[r.file]
<1>. SUFFICES ASSUME Check(r) # Idle
              PROVE  /\ Check(r) \in Request /\ Shape(Check(r))
                     /\ Check(r).op = r.op /\ Check(r).step = "lock"
                     /\ Check(r).file = r.file /\ Check(r).p = r.p
                     /\ r.file = "lock" => lockname = r.p
                     /\ r.op = "read" /\ WellUsed(r.file)
                          => Check(r).off + Check(r).len <= size[r.file]
  OBVIOUS
<1>. DEFINE end == AsSize(size[r.file])
            cut == Cut(r)
            s == [r EXCEPT !.step = "lock", !.len = cut]
<1>1. r.file \in Files /\ r.off \in Nat /\ r.len \in Nat
  BY DEF Request
<1>2. /\ Check(r) = s /\ (r.file = "lock" => lockname = r.p)
      /\ r.op = "read" => ~(r.off >= end)
  BY DEF Check
<1>3. end \in Nat /\ (WellUsed(r.file) => end = size[r.file])
  BY <1>1, AsSizeFacts DEF Inv, TypeOK, SizeInv
<1>4. cut = IF r.op = "read" /\ r.off + r.len > end THEN end - r.off ELSE r.len
  BY DEF Cut
<1>. HIDE DEF end, cut
<1>5. cut \in Nat /\ (r.op = "read" => r.off + cut <= end)
  BY <1>1, <1>2, <1>3, <1>4
<1>6. s \in Request
  BY <1>5 DEF Request, Steps
<1>7. /\ s.step = "lock" /\ s.op = r.op /\ s.file = r.file /\ s.p = r.p
      /\ s.np = r.np /\ s.off = r.off /\ s.len = cut
  BY DEF Request
<1>8. Shape(s)
  BY <1>7 DEF Shape, NameOps, Transfers
<1>. HIDE DEF s
<1>. QED BY <1>2, <1>3, <1>5, <1>6, <1>7, <1>8

\* A read or write begins.
LEMMA BeginTransferInv ==
  ASSUME Inv, NEW c \in Clients, BeginTransfer(c)
  PROVE  Inv'
<1>1. fd' = fd /\ holds' = holds
  BY DEF BeginTransfer, UnchangedClients
<1>2. PICK op \in {"read", "write"}, f \in Files, piece \in Pieces :
        /\ f = "lock" => fd[c] # NoPath /\ PathFree(fd[c])
        /\ Begin(c, Check([Idle EXCEPT !.op = op, !.file = f,
                            !.p = IF f = "lock" THEN fd[c] ELSE NoPath,
                            !.off = piece.off, !.len = piece.len]))
  BY DEF BeginTransfer
<1>. DEFINE r == [Idle EXCEPT !.op = op, !.file = f,
                    !.p = IF f = "lock" THEN fd[c] ELSE NoPath,
                    !.off = piece.off, !.len = piece.len]
            s == Check(r)
<1>3. fd[c] \in Names /\ (f = "lock" => fd[c] \in Paths)
  BY <1>2 DEF Inv, TypeOK, Names
<1>4. /\ r.op = op /\ r.file = f /\ r.off = piece.off /\ r.len = piece.len
      /\ r.p = (IF f = "lock" THEN fd[c] ELSE NoPath)
  BY DEF Idle
<1>5. piece.off \in Nat /\ piece.len \in Nat
  BY VmdkConstants
<1>6. r \in Request
  BY <1>3, <1>5, PathFacts DEF Request, Idle, Steps
<1>7. f = "lock" => \A d \in Clients : rq[d].op \in Removals =>
                      fd[c] # rq[d].p /\ fd[c] # rq[d].np
  BY <1>2 DEF PathFree, Removing, Removals
<1>8. Begin(c, s) /\ r.op \in Transfers /\ (r.file = "lock" => r.p \in Paths)
  BY <1>2, <1>3, <1>4 DEF Transfers
<1>. HIDE DEF r
<1>9. \/ s = Idle
      \/ /\ s \in Request /\ Shape(s)
         /\ s.op = r.op /\ s.step = "lock" /\ s.file = r.file /\ s.p = r.p
         /\ r.file = "lock" => lockname = r.p
         /\ r.op = "read" /\ WellUsed(r.file) => s.off + s.len <= size[r.file]
  BY <1>6, <1>8, CheckFacts
<1>10. s \in Request /\ Shape(s) /\ (s = Idle \/ (s.op \in Transfers /\ s.step = "lock"))
  BY <1>8, <1>9, IdleFacts
<1>11. s.op = "read" /\ WellUsed(s.file) => s.off + s.len <= size[s.file]
  BY <1>9, IdleFacts
<1>12. s.op # "none" /\ s.file = "lock" =>
         /\ fd[c] = s.p /\ lockname = s.p
         /\ \A d \in Clients : rq[d].op \in Removals => s.p # rq[d].p /\ s.p # rq[d].np
  BY <1>4, <1>7, <1>9, IdleFacts
<1>13. fd \in [Clients -> Names]
  BY DEF Inv, TypeOK
<1>. HIDE DEF s
<1>. QED BY <1>1, <1>8, <1>10, <1>11, <1>12, <1>13, BeginOtherInv

-----------------------------------------------------------------------------
(* The handlers that change names                                          *)

\* A handler that changes names goes on or answers; the mutex is not its
\* business.
LEMMA NameStep ==
  ASSUME Inv, NEW c \in Clients, NEW s \in Request, rq' = [rq EXCEPT ![c] = s],
         rq[c].op \in NameOps,
         s = Idle \/ (rq[c].op = "unlink" /\ s = [rq[c] EXCEPT !.step = "data"]),
         mutex' = mutex
  PROVE  /\ rq' \in [Clients -> Request]
         /\ rq'[c] = s /\ \A d \in Clients : d # c => rq'[d] = rq[d]
         /\ s.op \notin Transfers /\ s.step \in {"done", "data"}
         /\ Shapes' /\ DirsApart' /\ MutexInv'
<1>1. /\ rq' \in [Clients -> Request]
      /\ rq'[c] = s /\ \A d \in Clients : d # c => rq'[d] = rq[d]
  BY DEF Inv, TypeOK, Request
<1>2. /\ rq[c] \in Request /\ Shape(rq[c])
      /\ rq[c].step \notin InMutex
  BY RequestFacts DEF InMutex, NameOps, Transfers, Shape
<1>3. s = Idle \/ (/\ rq[c].op = "unlink" /\ s.op = "unlink" /\ s.step = "data"
                   /\ s.p = rq[c].p /\ s.np = rq[c].np)
  BY <1>2 DEF Request
<1>4. Shape(s) /\ s.op \notin Transfers /\ s.step \in {"done", "data"}
  BY <1>2, <1>3, IdleFacts DEF Shape, NameOps, Transfers
<1>5. Shapes'
  BY <1>1, <1>4 DEF Inv, Shapes
<1>6. s.op # "none" => Locked(s) = Locked(rq[c])
  BY <1>3, IdleFacts DEF Locked
<1>7. DirsApart'
  BY <1>1, <1>6, IdleFacts DEF Inv, DirsApart, NameOps
<1>8. MutexInv'
  BY <1>1, <1>2, <1>4 DEF Inv, MutexInv, InMutex
<1>. QED BY <1>1, <1>4, <1>5, <1>7, <1>8

\* Sizes and buffers stay while it does.
LEMMA NameStepSizes ==
  ASSUME Inv, NEW c \in Clients, UNCHANGED <<size, alloc>>, misused \subseteq misused',
         rq[c].op \in NameOps, rq'[c].step \in {"done", "data"},
         \A d \in Clients : d # c => rq'[d] = rq[d]
  PROVE  SizeInv'
<1>1. rq[c].step # "grown"
  BY RequestFacts DEF InMutex, NameOps, Transfers
<1>2. ASSUME NEW d \in Clients, Sized(d)', WellUsed(rq'[d].file)
      PROVE  End(d)' <= size[rq'[d].file]
  <2>1. d # c
    BY <1>2 DEF Sized
  <2>2. rq'[d] = rq[d] /\ rq[d].file \in Files
    BY <2>1, RequestFacts
  <2>. QED BY <1>2, <2>2 DEF Inv, SizeInv, Sized, End
<1>. QED BY <1>1, <1>2, SizeKept

\* A transfer that is under way after such a step was so before it.
LEMMA OthersTransfer ==
  ASSUME NEW c \in Clients, rq'[c].op \notin Transfers,
         \A d \in Clients : d # c => rq'[d] = rq[d]
  PROVE  \A e \in Clients : Transfer(e)' => e # c /\ rq'[e] = rq[e] /\ Transfer(e)
  BY DEF Transfer

\* A handler that makes or removes a directory leaves the lock file alone.
LEMMA DirectoryAnswered ==
  ASSUME Inv, NEW c \in Clients, Answered(c), rq[c].op \in {"mkdir", "rmdir"},
         UnchangedData, UnchangedClients, UNCHANGED <<lockname, mutex, misused>>,
         lockdir1' \in {LockDir, NoPath},
         lockdir2' \in Inside \cup Siblings \cup {NoPath}
  PROVE  Inv'
<1>1. /\ rq' \in [Clients -> Request]
      /\ rq'[c] = Idle /\ \A d \in Clients : d # c => rq'[d] = rq[d]
      /\ Shapes' /\ DirsApart' /\ MutexInv'
  BY IdleFacts, NameStep DEF Answered, NameOps
<1>2. UNCHANGED <<size, alloc, fd, holds>>
  BY DEF UnchangedData, UnchangedClients
<1>3. TypeOK'
  BY <1>1, <1>2 DEF Inv, TypeOK, Request
<1>4. OpenTransfers'
  <2>1. \A d \in Clients : rq'[d].op \in Removals => rq'[d] = rq[d]
    BY <1>1, IdleFacts DEF Removals
  <2>2. \A e \in Clients : Transfer(e)' => rq'[e] = rq[e] /\ Transfer(e)
    BY <1>1, IdleFacts, OthersTransfer DEF Transfers
  <2>. QED BY <1>2, <2>1, <2>2 DEF Inv, OpenTransfers, NamesApart
<1>5. NamesInv'
  BY <1>1, IdleFacts DEF Inv, NamesInv, NamesApart, Removals
<1>6. SizeInv'
  BY <1>1, <1>2, IdleFacts, NameStepSizes DEF NameOps
<1>7. HoldInv'
  BY <1>1, <1>2, IdleFacts DEF Inv, HoldInv, LockExclusive
<1>. QED BY <1>1, <1>3, <1>4, <1>5, <1>6, <1>7 DEF Inv

\* FuseMkDir.
LEMMA MkDirInv ==
  ASSUME Inv, NEW c \in Clients, MkDir(c)
  PROVE  Inv'
<1>1. rq[c].op = "mkdir" /\ rq[c].p \in {LockDir} \cup Inside \cup Siblings
  BY RequestFacts DEF MkDir, AtStep, Shape
<1>2. /\ lockdir1' \in {LockDir, NoPath}
      /\ lockdir2' \in Inside \cup Siblings \cup {NoPath}
  BY <1>1 DEF MkDir, Inv, TypeOK
<1>. QED BY <1>1, <1>2, DirectoryAnswered DEF MkDir

\* FuseRmDir.
LEMMA RmDirInv ==
  ASSUME Inv, NEW c \in Clients, RmDir(c)
  PROVE  Inv'
<1>1. /\ lockdir1' \in {LockDir, NoPath}
      /\ lockdir2' \in Inside \cup Siblings \cup {NoPath}
  BY DEF RmDir, Inv, TypeOK
<1>. QED BY <1>1, DirectoryAnswered DEF RmDir, AtStep

\* FuseMkNod gives the lock; to more than one if it names the file while
\* another request is half-way.
LEMMA MkNodInv ==
  ASSUME Inv, NEW c \in Clients, MkNod(c)
  PROVE  Inv'
<1>1. /\ Answered(c) /\ UNCHANGED <<size, alloc, lockdir1, lockdir2, mutex, fd>>
      /\ rq[c].op = "mknod" /\ rq[c].step = "set" /\ rq[c].op \in NameOps
      /\ lockname' = rq[c].p
      /\ holds' = [holds EXCEPT ![c] = rq[c].p]
      /\ misused' = misused \cup {m \in {"names"} : NameInWork(c)}
  BY DEF MkNod, AtStep, UnchangedData, NameOps
<1>2. rq[c].p \in Visible /\ rq[c].p \in Names /\ rq[c].p # NoPath
  BY <1>1, RequestFacts, PathFacts DEF Shape
<1>3. /\ rq' \in [Clients -> Request]
      /\ rq'[c] = Idle /\ \A d \in Clients : d # c => rq'[d] = rq[d]
      /\ Shapes' /\ DirsApart' /\ MutexInv'
  BY <1>1, IdleFacts, NameStep DEF Answered
<1>4. SizeInv'
  BY <1>1, <1>3, IdleFacts, NameStepSizes
<1>5. TypeOK'
  <2>1. holds' \in [Clients -> Visible \cup {NoPath}]
    BY <1>1, <1>2 DEF Inv, TypeOK
  <2>2. misused' \subseteq Files \cup {"names"}
    BY <1>1 DEF Inv, TypeOK
  <2>. QED BY <1>1, <1>2, <1>3, <2>1, <2>2 DEF Inv, TypeOK, Request
<1>6. NamesApart' => /\ NamesApart /\ lockname = NoPath
                     /\ \A d \in Clients : d # c =>
                          /\ rq[d].op # "mknod" /\ rq[d].step # "data"
                          /\ ~(rq[d].op \in Removals /\ rq[d].step = "set")
  <2>. SUFFICES ASSUME NamesApart'
                PROVE  /\ NamesApart /\ lockname = NoPath
                       /\ \A d \in Clients : d # c =>
                            /\ rq[d].op # "mknod" /\ rq[d].step # "data"
                            /\ ~(rq[d].op \in Removals /\ rq[d].step = "set")
    OBVIOUS
  <2>1. NamesApart /\ ~NameInWork(c)
    BY <1>1 DEF NamesApart
  <2>2. lockname = NoPath
    BY <1>1, <2>1 DEF Inv, NamesInv
  <2>3. \A d \in Clients : d # c =>
          rq[d].step # "data" /\ ~(rq[d].op = "mknod" /\ rq[d].step = "set")
    BY <2>1 DEF NameInWork, AtStep
  <2>4. \A d \in Clients : rq[d].op = "mknod" => rq[d].step = "set"
    BY RequestFacts DEF Shape, NameOps
  <2>5. \A d \in Clients : rq[d].op \in Removals => rq[d].p # NoPath
    BY RequestFacts, PathFacts DEF Shape, NameOps, Removals
  <2>. QED BY <2>1, <2>2, <2>3, <2>4, <2>5 DEF Inv, NamesInv
<1>7. OpenTransfers'
  <2>1. \A e \in Clients : Transfer(e)' => rq'[e] = rq[e] /\ Transfer(e)
    BY <1>3, IdleFacts, OthersTransfer DEF Transfers
  <2>2. \A d \in Clients : rq'[d].op \in Removals => rq'[d] = rq[d]
    BY <1>3, IdleFacts DEF Removals
  <2>3. ASSUME NEW e \in Clients, Transfer(e) PROVE ~NamesApart'
    BY <1>6, <2>3, RequestFacts, PathFacts DEF Inv, OpenTransfers, Transfer, Shape
  <2>. QED BY <1>1, <2>1, <2>2, <2>3 DEF Inv, OpenTransfers
<1>8. NamesInv'
  BY <1>3, <1>6, IdleFacts DEF NamesInv, Removals
<1>9. HoldInv'
  <2>1. LockExclusive'
    <3>. SUFFICES ASSUME NamesApart' PROVE
           \A d \in Clients : holds'[d] # NoPath =>
             /\ lockname' = holds'[d]
             /\ \A e \in Clients : holds'[e] # NoPath => d = e
      BY DEF LockExclusive, NamesApart
    <3>1. \A d \in Clients : holds[d] = NoPath
      BY <1>6 DEF Inv, HoldInv, LockExclusive, NamesApart
    <3>2. /\ holds'[c] = rq[c].p /\ lockname' = rq[c].p
          /\ \A d \in Clients : d # c => holds'[d] = NoPath
      BY <1>1, <3>1 DEF Inv, TypeOK
    <3>. QED BY <3>2
  <2>2. ASSUME NEW e \in Clients, NEW d \in Clients,
               rq'[e].op = "unlink" \/ (rq'[e].op = "rename" /\ rq'[e].np \in Hidden)
        PROVE  holds'[d] # rq'[e].p
    <3>1. e # c /\ rq'[e] = rq[e] /\ rq[e].op \in NameOps
      BY <1>3, <2>2, IdleFacts DEF NameOps
    <3>2. rq[c].p # rq[e].p
      BY <1>1, <3>1, PathsApart
    <3>. QED BY <1>1, <2>2, <3>1, <3>2 DEF Inv, HoldInv, TypeOK
  <2>. QED BY <2>1, <2>2 DEF HoldInv
<1>. QED BY <1>3, <1>4, <1>5, <1>7, <1>8, <1>9 DEF Inv

\* While c renames or removes the lock file, it still has the name that was
\* found, nobody else is about to name, rename or remove it, and no transfer is
\* about it.
LEMMA OthersAway ==
  ASSUME Inv, NEW c \in Clients, rq[c].op \in Removals, rq[c].step = "set"
  PROVE  /\ rq[c].op \in NameOps /\ rq[c].p \in Paths /\ rq[c].p # NoPath
         /\ \A d \in Clients : Transfer(d) => rq[d].p # rq[c].p
         /\ NamesApart =>
              /\ lockname = rq[c].p
              /\ \A d \in Clients : ~Transfer(d)
              /\ \A d \in Clients : d # c =>
                   /\ rq[d].op # "mknod" /\ rq[d].step # "data"
                   /\ ~(rq[d].op \in Removals /\ rq[d].step = "set")
<1>1. rq[c].op \in NameOps /\ rq[c].p \in Paths /\ rq[c].p # NoPath
  BY RequestFacts, PathFacts DEF Removals, NameOps, Shape
<1>2. \A d \in Clients : Transfer(d) => rq[d].p # rq[c].p
  BY DEF Inv, OpenTransfers
<1>3. NamesApart => lockname = rq[c].p
  BY DEF Inv, NamesInv
<1>4. NamesApart => \A d \in Clients : ~Transfer(d)
  BY <1>2, <1>3 DEF Inv, OpenTransfers
<1>5. ASSUME NamesApart, NEW d \in Clients, d # c
      PROVE  /\ rq[d].op # "mknod" /\ rq[d].step # "data"
             /\ ~(rq[d].op \in Removals /\ rq[d].step = "set")
  <2>1. rq[d].op # "mknod" /\ rq[d].step # "data"
    BY <1>1, <1>3, <1>5 DEF Inv, NamesInv
  <2>2. rq[d].op \in Removals => rq[c].p # rq[d].p
    BY <1>1, <1>5, PathsApart DEF Removals, NameOps
  <2>. QED BY <1>3, <1>5, <2>1, <2>2 DEF Inv, NamesInv
<1>. QED BY <1>1, <1>2, <1>3, <1>4, <1>5

\* FuseRename moves file, owner and open files together.
LEMMA RenameInv ==
  ASSUME Inv, NEW c \in Clients, Rename(c)
  PROVE  Inv'
<1>. DEFINE p == rq[c].p
            np == rq[c].np
            Moved(x) == IF x = p THEN np ELSE x
<1>1. /\ Answered(c) /\ UNCHANGED <<size, alloc, lockdir1, lockdir2, mutex, misused>>
      /\ rq[c].op = "rename" /\ rq[c].step = "set" /\ rq[c].op \in Removals
      /\ lockname' = np
      /\ holds' = [d \in Clients |-> Moved(holds[d])]
      /\ fd' = [d \in Clients |-> Moved(fd[d])]
  BY DEF Rename, AtStep, UnchangedData, Removals
<1>2. /\ rq[c].op \in NameOps /\ p \in Paths /\ p # NoPath
      /\ \A d \in Clients : Transfer(d) => rq[d].p # p
      /\ NamesApart =>
           /\ lockname = p
           /\ \A d \in Clients : ~Transfer(d)
           /\ \A d \in Clients : d # c =>
                /\ rq[d].op # "mknod" /\ rq[d].step # "data"
                /\ ~(rq[d].op \in Removals /\ rq[d].step = "set")
  BY <1>1, OthersAway
<1>3. np \in Paths /\ np \in Names /\ np # NoPath
  BY <1>1, RequestFacts, PathFacts DEF Shape
<1>4. /\ rq' \in [Clients -> Request]
      /\ rq'[c] = Idle /\ \A d \in Clients : d # c => rq'[d] = rq[d]
      /\ Shapes' /\ DirsApart' /\ MutexInv'
  BY <1>1, <1>2, IdleFacts, NameStep DEF Answered
<1>5. SizeInv'
  BY <1>1, <1>2, <1>4, IdleFacts, NameStepSizes
<1>6. \A d \in Clients : /\ holds[d] \in Visible \cup {NoPath} /\ fd[d] \in Names
                         /\ np \in Hidden => holds[d] # p
  BY <1>1 DEF Inv, TypeOK, HoldInv
<1>7. TypeOK'
  <2>1. holds' \in [Clients -> Visible \cup {NoPath}]
    <3>1. np \in Visible \/ np \in Hidden
      BY <1>3 DEF Visible
    <3>. QED BY <1>1, <1>6, <3>1
  <2>2. fd' \in [Clients -> Names]
    BY <1>1, <1>3, <1>6
  <2>. QED BY <1>1, <1>3, <1>4, <2>1, <2>2 DEF Inv, TypeOK, Request
<1>8. NamesInv'
  BY <1>1, <1>2, <1>4, IdleFacts DEF NamesInv, NamesApart, Removals
<1>9. OpenTransfers'
  <2>1. \A e \in Clients : Transfer(e)' => rq'[e] = rq[e] /\ Transfer(e)
    BY <1>4, IdleFacts, OthersTransfer DEF Transfers
  <2>2. \A d \in Clients : rq'[d].op \in Removals => rq'[d] = rq[d]
    BY <1>4, IdleFacts DEF Removals
  <2>3. \A d \in Clients : Transfer(d) => fd'[d] = fd[d]
    BY <1>1, <1>2 DEF Inv, OpenTransfers
  <2>. QED BY <1>1, <1>2, <2>1, <2>2, <2>3 DEF Inv, OpenTransfers, NamesApart
<1>10. HoldInv'
  <2>1. LockExclusive'
    <3>. SUFFICES ASSUME NamesApart' PROVE
           \A d \in Clients : holds'[d] # NoPath =>
             /\ lockname' = holds'[d]
             /\ \A e \in Clients : holds'[e] # NoPath => d = e
      BY DEF LockExclusive, NamesApart
    <3>1. NamesApart
      BY <1>1 DEF NamesApart
    <3>2. \A d \in Clients : holds'[d] # NoPath => holds[d] # NoPath
      BY <1>1, <1>2
    <3>3. \A d \in Clients : holds[d] # NoPath =>
            holds[d] = p /\ \A e \in Clients : holds[e] # NoPath => d = e
      BY <1>2, <3>1 DEF Inv, HoldInv, LockExclusive, NamesApart
    <3>. QED BY <1>1, <3>2, <3>3
  <2>2. ASSUME NEW e \in Clients, NEW d \in Clients,
               rq'[e].op = "unlink" \/ (rq'[e].op = "rename" /\ rq'[e].np \in Hidden)
        PROVE  holds'[d] # rq'[e].p
    <3>1. e # c /\ rq'[e] = rq[e] /\ rq[e].op \in NameOps
      BY <1>4, <2>2, IdleFacts DEF NameOps
    <3>2. np # rq[e].p
      BY <1>1, <1>2, <3>1, PathsApart
    <3>3. holds[d] # rq[e].p
      BY <2>2, <3>1 DEF Inv, HoldInv
    <3>. QED BY <1>1, <3>1, <3>2, <3>3
  <2>. QED BY <2>1, <2>2 DEF HoldInv
<1>. QED BY <1>4, <1>5, <1>7, <1>8, <1>9, <1>10 DEF Inv

\* FuseUnlink forgets the name.
LEMMA UnlinkInv ==
  ASSUME Inv, NEW c \in Clients, Unlink(c)
  PROVE  Inv'
<1>. DEFINE s == [rq[c] EXCEPT !.step = "data"]
<1>1. /\ UNCHANGED <<size, alloc, fd, holds, lockdir1, lockdir2, mutex, misused>>
      /\ rq[c].op = "unlink" /\ rq[c].step = "set" /\ rq[c].op \in Removals
      /\ lockname' = NoPath
      /\ rq' = [rq EXCEPT ![c] = s]
  BY DEF Unlink, AtStep, Goto, UnchangedData, UnchangedClients, Removals, Inv, TypeOK
<1>2. /\ s \in Request /\ s.op = "unlink" /\ s.step = "data"
      /\ s.p = rq[c].p /\ s.np = rq[c].np
  <2>1. rq[c] \in Request
    BY RequestFacts
  <2>. QED BY <1>1, <2>1 DEF Request, Steps
<1>3. /\ rq[c].op \in NameOps /\ rq[c].p \in Paths /\ rq[c].p # NoPath
      /\ \A d \in Clients : Transfer(d) => rq[d].p # rq[c].p
      /\ NamesApart =>
           /\ lockname = rq[c].p
           /\ \A d \in Clients : ~Transfer(d)
           /\ \A d \in Clients : d # c =>
                /\ rq[d].op # "mknod" /\ rq[d].step # "data"
                /\ ~(rq[d].op \in Removals /\ rq[d].step = "set")
  BY <1>1, OthersAway
<1>4. /\ rq' \in [Clients -> Request]
      /\ rq'[c] = s /\ \A d \in Clients : d # c => rq'[d] = rq[d]
      /\ Shapes' /\ DirsApart' /\ MutexInv'
  BY <1>1, <1>2, <1>3, NameStep
<1>. HIDE DEF s
<1>5. SizeInv'
  BY <1>1, <1>2, <1>3, <1>4, NameStepSizes
<1>6. TypeOK'
  BY <1>1, <1>4, PathFacts DEF Inv, TypeOK, Request
<1>7. NamesInv'
  BY <1>1, <1>2, <1>3, <1>4 DEF NamesInv, NamesApart, Removals
<1>8. OpenTransfers'
  <2>1. \A e \in Clients : Transfer(e)' => rq'[e] = rq[e] /\ Transfer(e)
    BY <1>2, <1>4, OthersTransfer DEF Transfers
  <2>2. \A d \in Clients : /\ rq'[d].p = rq[d].p /\ rq'[d].np = rq[d].np
                           /\ rq'[d].op = rq[d].op
    BY <1>1, <1>2, <1>4
  <2>. QED BY <1>1, <1>3, <2>1, <2>2 DEF Inv, OpenTransfers, NamesApart
<1>9. HoldInv'
  <2>1. \A d \in Clients : holds[d] # rq[c].p
    BY <1>1 DEF Inv, HoldInv
  <2>2. LockExclusive'
    BY <1>1, <1>3, <2>1 DEF Inv, HoldInv, LockExclusive, NamesApart
  <2>3. \A e \in Clients :
          rq'[e].op = rq[e].op /\ rq'[e].np = rq[e].np /\ rq'[e].p = rq[e].p
    BY <1>1, <1>2, <1>4
  <2>. QED BY <1>1, <2>2, <2>3 DEF Inv, HoldInv
<1>. QED BY <1>4, <1>5, <1>6, <1>7, <1>8, <1>9 DEF Inv

\* FuseUnlink frees the buffer: nobody is about to copy from it.
LEMMA UnlinkDataInv ==
  ASSUME Inv, NEW c \in Clients, UnlinkData(c)
  PROVE  Inv'
<1>1. /\ Answered(c) /\ rq[c].op = "unlink" /\ rq[c].step = "data"
      /\ rq[c].op \in NameOps
      /\ alloc' = [alloc EXCEPT !["lock"] = 0] /\ size' = [size EXCEPT !["lock"] = 0]
      /\ UNCHANGED <<lockdir1, lockdir2, lockname, mutex, fd, holds, misused>>
  BY DEF UnlinkData, AtStep, UnchangedNames, UnchangedClients, NameOps
<1>2. /\ rq' \in [Clients -> Request]
      /\ rq'[c] = Idle /\ \A d \in Clients : d # c => rq'[d] = rq[d]
      /\ Shapes' /\ DirsApart' /\ MutexInv'
  BY <1>1, IdleFacts, NameStep DEF Answered
<1>3. NamesApart => \A d \in Clients : ~Transfer(d)
  <2>1. NamesApart => lockname = NoPath
    BY <1>1 DEF Inv, NamesInv
  <2>2. \A d \in Clients : Transfer(d) => rq[d].p # NoPath
    BY RequestFacts, PathFacts DEF Transfer, Shape
  <2>. QED BY <2>1, <2>2 DEF Inv, OpenTransfers
<1>4. /\ size'["lock"] = 0 /\ alloc'["lock"] = 0
      /\ size'["vmdk"] = size["vmdk"] /\ alloc'["vmdk"] = alloc["vmdk"]
      /\ size' \in [Files -> Int] /\ alloc' \in [Files -> Nat]
  BY <1>1 DEF Inv, TypeOK, Files
<1>5. TypeOK'
  <2>1. \A f \in Files : -IntMax - 1 <= size'[f] /\ size'[f] <= IntMax
    <3>1. IntMax \in Nat
      BY VmdkConstants
    <3>. QED BY <1>4, <3>1 DEF Inv, TypeOK, Files
  <2>. QED BY <1>1, <1>2, <1>4, <2>1 DEF Inv, TypeOK, Request
<1>6. OpenTransfers'
  <2>1. \A e \in Clients : Transfer(e)' => rq'[e] = rq[e] /\ Transfer(e)
    BY <1>2, IdleFacts, OthersTransfer DEF Transfers
  <2>2. \A d \in Clients : rq'[d].op \in Removals => rq'[d] = rq[d]
    BY <1>2, IdleFacts DEF Removals
  <2>. QED BY <1>1, <2>1, <2>2 DEF Inv, OpenTransfers, NamesApart
<1>7. NamesInv'
  BY <1>1, <1>2, IdleFacts DEF Inv, NamesInv, NamesApart, Removals
<1>8. SizeInv'
  <2>. SUFFICES ASSUME NEW f \in Files, WellUsed(f)'
                PROVE  /\ size'[f] >= 0
                       /\ (\A d \in Clients : ~(rq'[d].step = "grown" /\ rq'[d].file = f))
                            => size'[f] = alloc'[f]
                       /\ \A d \in Clients : rq'[d].step = "grown" /\ rq'[d].file = f =>
                            /\ End(d)' <= IntMax
                            /\ IF f = "lock" THEN size'[f] = End(d)'
                               ELSE alloc'[f] = End(d)' /\ size'[f] <= End(d)'
                       /\ \A d \in Clients : Sized(d)' /\ rq'[d].file = f =>
                            End(d)' <= size'[f]
    BY DEF SizeInv
  <2>1. WellUsed(f) /\ (f = "lock" => NamesApart)
    BY <1>1 DEF WellUsed, NamesApart
  <2>2. \A d \in Clients : Sized(d)' \/ rq'[d].step = "grown" =>
          rq'[d] = rq[d] /\ End(d)' = End(d) /\ (Sized(d)' => Sized(d))
    BY <1>2, IdleFacts DEF Sized, End
  <2>3. \A d \in Clients : rq[d].step = "grown" => rq'[d] = rq[d]
    BY <1>1, <1>2
  <2>4. CASE f = "vmdk"
    BY <1>4, <2>1, <2>2, <2>3, <2>4 DEF Inv, SizeInv
  <2>5. CASE f = "lock"
    <3>1. ASSUME NEW d \in Clients, rq'[d].file = f, Sized(d)' \/ rq'[d].step = "grown"
          PROVE  FALSE
      <4>1. rq[d].file = "lock" /\ (Sized(d) \/ rq[d].step = "grown")
        BY <2>2, <2>5, <3>1
      <4>2. Transfer(d)
        BY <4>1, RequestFacts DEF Transfer, Sized, InMutex
      <4>. QED BY <1>3, <2>1, <2>5, <4>2
    <3>. QED BY <1>4, <2>5, <3>1
  <2>. QED BY <2>4, <2>5 DEF Files
<1>9. HoldInv'
  BY <1>1, <1>2, IdleFacts DEF Inv, HoldInv, LockExclusive
<1>. QED BY <1>2, <1>5, <1>6, <1>7, <1>8, <1>9 DEF Inv

-----------------------------------------------------------------------------
(* The handlers that read and write                                        *)

\* A read or write goes on to its next step or is answered.
LEMMA TransferGoesOn ==
  ASSUME Inv, NEW c \in Clients, NEW s \in Request, Shape(s),
         rq' = [rq EXCEPT ![c] = s], rq[c].op \in Transfers,
         s = Idle \/ (s.op = rq[c].op /\ s.file = rq[c].file /\ s.p = rq[c].p),
         UNCHANGED <<lockdir1, lockdir2, lockname, fd, holds>>,
         size' \in [Files -> Int],
         \A f \in Files : -IntMax - 1 <= size'[f] /\ size'[f] <= IntMax,
         alloc' \in [Files -> Nat], mutex' \in Clients \cup {NoClient},
         misused \subseteq misused', misused' \subseteq misused \cup Files
  PROVE  /\ rq'[c] = s /\ \A d \in Clients : d # c => rq'[d] = rq[d]
         /\ TypeOK' /\ Shapes' /\ DirsApart' /\ OpenTransfers'
         /\ NamesInv' /\ HoldInv'
<1>1. /\ rq' \in [Clients -> Request]
      /\ rq'[c] = s /\ \A d \in Clients : d # c => rq'[d] = rq[d]
  BY DEF Inv, TypeOK, Request
<1>2. s.op \in Transfers \cup {"none"} /\ s.step # "data"
  BY IdleFacts DEF Shape, Transfers, InMutex
<1>3. TypeOK'
  BY <1>1 DEF Inv, TypeOK, Request
<1>4. Shapes' /\ DirsApart'
  BY <1>1, <1>2 DEF Inv, Shapes, DirsApart, NameOps, Transfers
<1>5. NamesApart' <=> NamesApart
  BY DEF NamesApart, Files
<1>6. OpenTransfers'
  <2>1. \A d \in Clients : rq'[d].op \in Removals => rq'[d] = rq[d]
    BY <1>1, <1>2 DEF Removals, Transfers
  <2>2. \A e \in Clients : Transfer(e)' => Transfer(e) /\ rq'[e].p = rq[e].p
    BY <1>1, IdleFacts DEF Transfer, Transfers
  <2>. QED BY <1>5, <2>1, <2>2 DEF Inv, OpenTransfers
<1>7. NamesInv'
  BY <1>1, <1>2, <1>5 DEF Inv, NamesInv, Removals, Transfers
<1>8. HoldInv'
  BY <1>1, <1>2, <1>5 DEF Inv, HoldInv, LockExclusive, NamesApart, Transfers
<1>. QED BY <1>1, <1>3, <1>4, <1>6, <1>7, <1>8

\* They lock: what a read was cut to still lies inside the file.
LEMMA LockInv ==
  ASSUME Inv, NEW c \in Clients, Lock(c)
  PROVE  Inv'
<1>. DEFINE s == [rq[c] EXCEPT !.step = IF rq[c].op = "write" THEN "grow" ELSE "copy"]
<1>1. /\ UNCHANGED <<lockdir1, lockdir2, lockname, size, alloc, fd, holds, misused>>
      /\ rq[c].step = "lock" /\ mutex = NoClient /\ mutex' = c
      /\ rq' = [rq EXCEPT ![c] = s]
  BY DEF Lock, Goto, UnchangedNames, UnchangedData, UnchangedClients, Inv, TypeOK
<1>2. rq[c].op \in Transfers /\ rq[c] \in Request /\ Shape(rq[c])
  BY <1>1, RequestFacts
<1>3. /\ s \in Request /\ s.op = rq[c].op /\ s.file = rq[c].file /\ s.p = rq[c].p
      /\ s.np = rq[c].np /\ s.off = rq[c].off /\ s.len = rq[c].len
      /\ s.step = IF rq[c].op = "write" THEN "grow" ELSE "copy"
  BY <1>2 DEF Request, Steps
<1>. HIDE DEF s
<1>4. Shape(s)
  BY <1>2, <1>3 DEF Shape, NameOps, Transfers, InMutex
<1>5. /\ rq'[c] = s /\ \A d \in Clients : d # c => rq'[d] = rq[d]
      /\ TypeOK' /\ Shapes' /\ DirsApart' /\ OpenTransfers' /\ NamesInv' /\ HoldInv'
  BY <1>1, <1>2, <1>3, <1>4, TransferGoesOn DEF Inv, TypeOK
<1>6. MutexInv'
  BY <1>1, <1>3, <1>5, PathFacts DEF Inv, MutexInv, InMutex
<1>7. SizeInv'
  <2>1. \A d \in Clients : rq[d].step = "grown" \/ rq'[d].step = "grown" => rq'[d] = rq[d]
    BY <1>1, <1>3, <1>5
  <2>2. ASSUME NEW d \in Clients, Sized(d)', WellUsed(rq'[d].file)
        PROVE  End(d)' <= size[rq'[d].file]
    <3>1. /\ rq'[d].file = rq[d].file /\ rq[d].file \in Files /\ End(d)' = End(d)
      BY <1>3, <1>5, RequestFacts DEF End
    <3>2. Sized(d)
      BY <1>1, <1>2, <1>3, <1>5, <2>2 DEF Sized, Transfers
    <3>. QED BY <2>2, <3>1, <3>2 DEF Inv, SizeInv
  <2>. QED BY <1>1, <2>1, <2>2, SizeKept
<1>. QED BY <1>5, <1>6, <1>7 DEF Inv

\* Who is between lock and unlock is so alone.
LEMMA OwnerAlone ==
  ASSUME Inv, NEW c \in Clients, rq[c].step \in InMutex
  PROVE  /\ mutex = c /\ rq[c].op \in Transfers
         /\ \A d \in Clients : d # c => rq[d].step \notin InMutex
  BY RequestFacts DEF Inv, MutexInv

\* FuseWrite changes the first of size and buffer.
LEMMA GrowInv ==
  ASSUME Inv, NEW c \in Clients, Grow(c)
  PROVE  Inv'
<1>. DEFINE more == Grows(c)
            s == [rq[c] EXCEPT !.step = IF more THEN "grown" ELSE "copy"]
            long == AsInt(End(c))
<1>1. /\ rq[c].op = "write" /\ rq[c] \in Request /\ Shape(rq[c])
      /\ rq[c].file \in Files /\ rq[c].step = "grow" /\ End(c) \in Nat
  BY RequestFacts DEF Grow, Shape
<1>2. /\ size \in [Files -> Int] /\ alloc \in [Files -> Nat]
      /\ \A f \in Files : size[f] \in Int /\ -IntMax - 1 <= size[f] /\ size[f] <= IntMax
      /\ long \in Int /\ -IntMax - 1 <= long /\ long <= IntMax
      /\ (End(c) <= IntMax => long = End(c))
  BY <1>1, AsIntFacts DEF Inv, TypeOK
<1>3. rq' = [rq EXCEPT ![c] = s]
  BY DEF Grow, Goto, Inv, TypeOK
<1>4. /\ UNCHANGED <<lockdir1, lockdir2, lockname, fd, holds, mutex>>
      /\ ~more => UNCHANGED <<size, alloc, misused>>
      /\ more => misused' = misused \cup {f \in {rq[c].file} : End(c) > IntMax}
      /\ more /\ rq[c].file = "lock" =>
           size' = [size EXCEPT !["lock"] = long] /\ UNCHANGED alloc
      /\ more /\ rq[c].file # "lock" =>
           alloc' = [alloc EXCEPT !["vmdk"] = End(c)] /\ UNCHANGED size
  BY DEF Grow, UnchangedNames, UnchangedData, UnchangedClients
<1>5. /\ s \in Request /\ s.op = "write" /\ s.file = rq[c].file /\ s.p = rq[c].p
      /\ s.np = rq[c].np /\ s.off = rq[c].off /\ s.len = rq[c].len
      /\ s.step = IF more THEN "grown" ELSE "copy"
  BY <1>1 DEF Request, Steps
<1>6. WellUsed(rq[c].file) => (more <=> End(c) > size[rq[c].file])
  <2>1. WellUsed(rq[c].file) => AsSize(size[rq[c].file]) = size[rq[c].file]
    BY <1>1, <1>2, AsSizeFacts DEF Inv, SizeInv
  <2>. QED BY <2>1 DEF Grows
<1>. HIDE DEF s, more, long
<1>7. Shape(s)
  BY <1>1, <1>5 DEF Shape, NameOps, Transfers, InMutex
<1>8. /\ size' \in [Files -> Int] /\ alloc' \in [Files -> Nat]
      /\ \A f \in Files : -IntMax - 1 <= size'[f] /\ size'[f] <= IntMax
  BY <1>1, <1>2, <1>4
<1>9. misused \subseteq misused' /\ misused' \subseteq misused \cup Files
  BY <1>1, <1>4
<1>10. /\ rq'[c] = s /\ \A d \in Clients : d # c => rq'[d] = rq[d]
       /\ TypeOK' /\ Shapes' /\ DirsApart' /\ OpenTransfers' /\ NamesInv' /\ HoldInv'
  BY <1>1, <1>3, <1>4, <1>5, <1>7, <1>8, <1>9, TransferGoesOn DEF Inv, TypeOK, Transfers
<1>11. MutexInv'
  BY <1>1, <1>4, <1>5, <1>10 DEF Inv, MutexInv, InMutex
<1>12. \A d \in Clients : d # c => rq[d].step \notin InMutex /\ rq'[d] = rq[d]
  BY <1>1, <1>10, OwnerAlone DEF InMutex
<1>13. End(c)' = End(c)
  BY <1>5, <1>10 DEF End
<1>14. ASSUME NEW f \in Files, WellUsed(f)' PROVE
         /\ WellUsed(f) /\ size[f] = alloc[f] /\ size[f] >= 0
         /\ f = rq[c].file /\ more => End(c) <= IntMax /\ long = End(c)
  <2>1. WellUsed(f) /\ (f = rq[c].file /\ more => ~(End(c) > IntMax))
    BY <1>4, <1>9, <1>14 DEF WellUsed
  <2>2. size[f] = alloc[f] /\ size[f] >= 0
    BY <1>1, <1>12, <2>1 DEF Inv, SizeInv, InMutex
  <2>3. IntMax \in Nat
    BY VmdkConstants
  <2>. QED BY <1>1, <1>2, <2>1, <2>2, <2>3
<1>15. SizeInv'
  <2>. SUFFICES ASSUME NEW f \in Files, WellUsed(f)'
                PROVE  /\ size'[f] >= 0
                       /\ (\A d \in Clients : ~(rq'[d].step = "grown" /\ rq'[d].file = f))
                            => size'[f] = alloc'[f]
                       /\ \A d \in Clients : rq'[d].step = "grown" /\ rq'[d].file = f =>
                            /\ End(d)' <= IntMax
                            /\ IF f = "lock" THEN size'[f] = End(d)'
                               ELSE alloc'[f] = End(d)' /\ size'[f] <= End(d)'
                       /\ \A d \in Clients : Sized(d)' /\ rq'[d].file = f =>
                            End(d)' <= size'[f]
    BY DEF SizeInv
  <2>1. /\ WellUsed(f) /\ size[f] = alloc[f] /\ size[f] >= 0
        /\ f = rq[c].file /\ more => End(c) <= IntMax /\ long = End(c)
    BY <1>14
  <2>2. CASE f = rq[c].file /\ more
    <3>1. f \in {"lock", "vmdk"} /\ End(c) > size[f]
      BY <1>6, <2>1, <2>2 DEF Files
    <3>2. IF f = "lock" THEN size'[f] = End(c) ELSE alloc'[f] = End(c) /\ size'[f] = size[f]
      BY <1>2, <1>4, <2>1, <2>2, <3>1
    <3>3. /\ size[f] \in Int /\ size'[f] \in Int
          /\ size'[f] >= size[f] /\ size'[f] <= End(c)
      BY <1>1, <1>2, <3>1, <3>2
    <3>4. rq'[c].step = "grown" /\ rq'[c].file = f
      BY <1>5, <1>10, <2>2
    <3>5. \A d \in Clients : rq'[d].step = "grown" => d = c
      BY <1>12 DEF InMutex
    <3>6. ASSUME NEW d \in Clients, Sized(d)', rq'[d].file = f
          PROVE  End(d)' <= size'[f]
      <4>1. d # c
        BY <3>4, <3>6 DEF Sized
      <4>2. rq'[d] = rq[d] /\ End(d)' = End(d) /\ Sized(d) /\ rq[d].file = f
        BY <1>12, <3>6, <4>1 DEF End, Sized
      <4>3. End(d) <= size[f] /\ End(d) \in Nat
        BY <2>1, <4>2, RequestFacts DEF Inv, SizeInv
      <4>. QED BY <3>3, <4>2, <4>3
    <3>7. size'[f] >= 0
      BY <2>1, <3>3
    <3>. QED BY <1>13, <2>1, <2>2, <3>2, <3>3, <3>4, <3>5, <3>6, <3>7
  <2>3. CASE ~(f = rq[c].file /\ more)
    <3>1. size'[f] = size[f] /\ alloc'[f] = alloc[f]
      BY <1>1, <1>2, <1>4, <2>3 DEF Files
    <3>2. ASSUME NEW d \in Clients PROVE ~(rq'[d].step = "grown" /\ rq'[d].file = f)
      BY <1>5, <1>10, <1>12, <2>3 DEF InMutex
    <3>3. ASSUME NEW d \in Clients, Sized(d)', rq'[d].file = f
          PROVE  End(d)' <= size[f]
      <4>1. CASE d = c
        <5>1. ~more /\ rq[c].file = f
          BY <1>5, <1>10, <2>3, <3>3, <4>1
        <5>2. ~(End(c) > size[f])
          BY <1>6, <2>1, <5>1
        <5>. QED BY <1>1, <1>2, <1>13, <4>1, <5>2
      <4>2. CASE d # c
        <5>1. rq'[d] = rq[d] /\ End(d)' = End(d) /\ Sized(d) /\ rq[d].file = f
          BY <1>12, <3>3, <4>2 DEF End, Sized
        <5>. QED BY <2>1, <5>1 DEF Inv, SizeInv
      <4>. QED BY <4>1, <4>2
    <3>. QED BY <2>1, <3>1, <3>2, <3>3
  <2>. QED BY <2>2, <2>3
<1>. QED BY <1>10, <1>11, <1>15 DEF Inv

\* FuseWrite changes the second of them.
LEMMA GrownInv ==
  ASSUME Inv, NEW c \in Clients, Grown(c)
  PROVE  Inv'
<1>. DEFINE s == [rq[c] EXCEPT !.step = "copy"]
            long == AsInt(End(c))
<1>1. /\ rq[c].op = "write" /\ rq[c] \in Request /\ Shape(rq[c])
      /\ rq[c].file \in Files /\ rq[c].step = "grown" /\ End(c) \in Nat
  BY RequestFacts DEF Grown, Shape
<1>2. /\ size \in [Files -> Int] /\ alloc \in [Files -> Nat]
      /\ \A f \in Files : size[f] \in Int /\ -IntMax - 1 <= size[f] /\ size[f] <= IntMax
      /\ long \in Int /\ -IntMax - 1 <= long /\ long <= IntMax
      /\ (End(c) <= IntMax => long = End(c))
  BY <1>1, AsIntFacts DEF Inv, TypeOK
<1>3. /\ rq' = [rq EXCEPT ![c] = s]
      /\ UNCHANGED <<lockdir1, lockdir2, lockname, fd, holds, mutex, misused>>
      /\ rq[c].file = "lock" =>
           /\ size["lock"] >= 0
           /\ alloc' = [alloc EXCEPT !["lock"] = size["lock"]] /\ UNCHANGED size
      /\ rq[c].file # "lock" =>
           size' = [size EXCEPT !["vmdk"] = long] /\ UNCHANGED alloc
  BY DEF Grown, Goto, Inv, TypeOK, UnchangedNames, UnchangedClients
<1>4. /\ s \in Request /\ s.op = "write" /\ s.file = rq[c].file /\ s.p = rq[c].p
      /\ s.np = rq[c].np /\ s.off = rq[c].off /\ s.len = rq[c].len
      /\ s.step = "copy"
  BY <1>1 DEF Request, Steps
<1>. HIDE DEF s, long
<1>5. Shape(s)
  BY <1>1, <1>4 DEF Shape, NameOps, Transfers, InMutex
<1>6. /\ size' \in [Files -> Int] /\ alloc' \in [Files -> Nat]
      /\ \A f \in Files : -IntMax - 1 <= size'[f] /\ size'[f] <= IntMax
  BY <1>1, <1>2, <1>3 DEF Files
<1>7. /\ rq'[c] = s /\ \A d \in Clients : d # c => rq'[d] = rq[d]
      /\ TypeOK' /\ Shapes' /\ DirsApart' /\ OpenTransfers' /\ NamesInv' /\ HoldInv'
  BY <1>1, <1>3, <1>4, <1>5, <1>6, TransferGoesOn DEF Inv, TypeOK, Transfers
<1>8. MutexInv'
  BY <1>1, <1>3, <1>4, <1>7 DEF Inv, MutexInv, InMutex
<1>9. \A d \in Clients : d # c => rq[d].step \notin InMutex /\ rq'[d] = rq[d]
  BY <1>1, <1>7, OwnerAlone DEF InMutex
<1>10. End(c)' = End(c)
  BY <1>4, <1>7 DEF End
<1>11. SizeInv'
  <2>. SUFFICES ASSUME NEW f \in Files, WellUsed(f)'
                PROVE  /\ size'[f] >= 0
                       /\ (\A d \in Clients : ~(rq'[d].step = "grown" /\ rq'[d].file = f))
                            => size'[f] = alloc'[f]
                       /\ \A d \in Clients : rq'[d].step = "grown" /\ rq'[d].file = f =>
                            /\ End(d)' <= IntMax
                            /\ IF f = "lock" THEN size'[f] = End(d)'
                               ELSE alloc'[f] = End(d)' /\ size'[f] <= End(d)'
                       /\ \A d \in Clients : Sized(d)' /\ rq'[d].file = f =>
                            End(d)' <= size'[f]
    BY DEF SizeInv
  <2>1. WellUsed(f) /\ size[f] >= 0
    BY <1>3 DEF WellUsed, Inv, SizeInv
  <2>2. \A d \in Clients : rq'[d].step # "grown"
    BY <1>4, <1>7, <1>9 DEF InMutex
  <2>3. CASE f = rq[c].file
    <3>1. f \in {"lock", "vmdk"} /\ End(c) <= IntMax /\ long = End(c)
      BY <1>1, <1>2, <2>1, <2>3 DEF Inv, SizeInv, Files
    <3>2. IF f = "lock" THEN size[f] = End(c) ELSE alloc[f] = End(c) /\ size[f] <= End(c)
      BY <1>1, <2>1, <2>3 DEF Inv, SizeInv
    <3>3. size'[f] = End(c) /\ alloc'[f] = End(c) /\ size[f] <= End(c) /\ size[f] \in Int
      BY <1>1, <1>2, <1>3, <2>3, <3>1, <3>2
    <3>4. ASSUME NEW d \in Clients, Sized(d)', rq'[d].file = f
          PROVE  End(d)' <= size'[f]
      <4>1. CASE d = c
        BY <1>1, <1>10, <3>3, <4>1
      <4>2. CASE d # c
        <5>1. rq'[d] = rq[d] /\ End(d)' = End(d) /\ Sized(d) /\ rq[d].file = f
          BY <1>9, <3>4, <4>2 DEF End, Sized
        <5>2. End(d) <= size[f] /\ End(d) \in Nat
          BY <2>1, <5>1, RequestFacts DEF Inv, SizeInv
        <5>. QED BY <1>1, <3>3, <5>1, <5>2
      <4>. QED BY <4>1, <4>2
    <3>. QED BY <1>1, <2>2, <3>3, <3>4
  <2>4. CASE f # rq[c].file
    <3>1. size'[f] = size[f] /\ alloc'[f] = alloc[f]
      BY <1>1, <1>2, <1>3, <2>4 DEF Files
    <3>2. size[f] = alloc[f]
      BY <1>9, <2>1, <2>4 DEF Inv, SizeInv, InMutex
    <3>3. ASSUME NEW d \in Clients, Sized(d)', rq'[d].file = f
          PROVE  End(d)' <= size[f]
      <4>1. d # c
        BY <1>4, <1>7, <2>4, <3>3
      <4>2. rq'[d] = rq[d] /\ End(d)' = End(d) /\ Sized(d) /\ rq[d].file = f
        BY <1>9, <3>3, <4>1 DEF End, Sized
      <4>. QED BY <2>1, <4>2 DEF Inv, SizeInv
    <3>. QED BY <2>1, <2>2, <3>1, <3>2, <3>3
  <2>. QED BY <2>3, <2>4
<1>. QED BY <1>7, <1>8, <1>11 DEF Inv

\* They copy, unlock and answer.
LEMMA CopyInv ==
  ASSUME Inv, NEW c \in Clients, Copy(c)
  PROVE  Inv'
<1>1. /\ rq' = [rq EXCEPT ![c] = Idle] /\ mutex' = NoClient
      /\ UNCHANGED <<lockdir1, lockdir2, lockname, fd, holds, size, alloc, misused>>
      /\ rq[c].step = "copy"
  BY DEF Copy, Answered, UnchangedNames, UnchangedData, UnchangedClients
<1>2. rq[c].op \in Transfers
  BY <1>1, RequestFacts DEF InMutex
<1>3. /\ rq'[c] = Idle /\ \A d \in Clients : d # c => rq'[d] = rq[d]
      /\ TypeOK' /\ Shapes' /\ DirsApart' /\ OpenTransfers' /\ NamesInv' /\ HoldInv'
  BY <1>1, <1>2, IdleFacts, TransferGoesOn DEF Inv, TypeOK
<1>4. \A d \in Clients : d # c => rq[d].step \notin InMutex
  BY <1>1, OwnerAlone DEF InMutex
<1>5. MutexInv'
  BY <1>1, <1>3, <1>4, IdleFacts, PathFacts DEF MutexInv, InMutex
<1>6. SizeInv'
  <2>1. \A d \in Clients : rq[d].step = "grown" \/ rq'[d].step = "grown" => rq'[d] = rq[d]
    BY <1>1, <1>3, IdleFacts
  <2>2. ASSUME NEW d \in Clients, Sized(d)', WellUsed(rq'[d].file)
        PROVE  End(d)' <= size[rq'[d].file]
    <3>1. d # c
      BY <1>3, <2>2, IdleFacts DEF Sized
    <3>2. rq'[d] = rq[d] /\ End(d)' = End(d) /\ Sized(d) /\ rq[d].file \in Files
      BY <1>3, <2>2, <3>1, RequestFacts DEF End, Sized
    <3>. QED BY <2>2, <3>2 DEF Inv, SizeInv
  <2>. QED BY <1>1, <2>1, <2>2, SizeKept
<1>. QED BY <1>3, <1>5, <1>6 DEF Inv

\* An allocation fails: the next mount starts from nothing.
LEMMA ExitInv ==
  ASSUME NEW c \in Clients, Exit(c)
  PROVE  Inv'
<1>1. Init'
  BY DEF Exit, Init
<1>. QED BY <1>1, InitInv, PTL

-----------------------------------------------------------------------------
(* The theorems                                                            *)

\* Every request and every step of a handler keeps the invariant.
LEMMA NextInv == Inv /\ [Next]_vars => Inv'
<1>. SUFFICES ASSUME Inv, [Next]_vars PROVE Inv'
  OBVIOUS
<1>1. CASE UNCHANGED vars
  BY <1>1 DEF Inv, TypeOK, Shapes, DirsApart, OpenTransfers, Transfer, NamesInv,
              NamesApart, MutexInv, SizeInv, Sized, WellUsed, End, HoldInv,
              LockExclusive, vars
<1>2. ASSUME NEW c \in Clients, Client(c) PROVE Inv'
  BY <1>2, BeginMakeInv, BeginRenameInv, BeginUnlinkInv, BeginRmDirInv, OpenInv,
     CloseInv, BeginTransferInv DEF Client
<1>3. ASSUME NEW c \in Clients, Handler(c) PROVE Inv'
  BY <1>3, MkDirInv, RmDirInv, MkNodInv, RenameInv, UnlinkInv, UnlinkDataInv,
     LockInv, GrowInv, GrownInv, ExitInv, CopyInv DEF Handler
<1>. QED BY <1>1, <1>2, <1>3 DEF Next

\* The kernel's and libfuse's ordering of requests and the mutex together keep
\* names, open files, buffers and sizes consistent in every state, as far as the
\* invariant says (NamesApart, WellUsed).
THEOREM Invariance == Spec => []Inv
  BY InitInv, NextInv, PTL DEF Spec

\* Lock directories, lock file, sizes, requests and open files stay what they
\* are declared as, whatever clients ask for (all handlers of the name space).
THEOREM Typing == Spec => []TypeOK
<1>1. Inv => TypeOK
  BY DEF Inv
<1>. QED BY <1>1, Invariance, PTL

\* Unless a lock file got its name while another request was half-way, one
\* client at a time holds the lock, under the name the file has, until somebody
\* removes the file (FuseMkNod, FuseRename, FuseUnlink).
THEOREM LockWorks == Spec => []LockExclusive
<1>1. Inv => LockExclusive
  BY DEF Inv, HoldInv
<1>. QED BY <1>1, Invariance, PTL

\* No memcpy of FuseRead or FuseWrite leaves the buffer of a file that no write
\* has made longer than an int can tell (and whose names were given alone, for
\* the lock file), although the size is looked at before the mutex is taken and
\* FuseUnlink does not take it.
THEOREM CopiesStayInside == Spec => []CopiesInBounds
<1>1. Inv => CopiesInBounds
  BY InvBounds
<1>. QED BY <1>1, Invariance, PTL

\* The size of such a file, which is kept in an int, is the length of its buffer
\* whenever no write is half-way and no removal either (FuseWrite, FuseUnlink).
THEOREM SizesAreAllocated == Spec => []SizeIsAllocated
<1>1. Inv => SizeIsAllocated
  BY InvBounds
<1>. QED BY <1>1, Invariance, PTL

=============================================================================
