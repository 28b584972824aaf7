------------------------------ MODULE ImageHandles ------------------------------
(***************************************************************************)
(* What the handle of an input image holds: names and buffers, a table     *)
(* (the pieces of a raw image, an L1 table, a block map, a seek array) and *)
(* an open file, which for EWF, AFF and AFF4 is that of their library.     *)
(*                                                                         *)
(* Open may end at several places and does not always take back what it    *)
(* has done; FreeResources of xmount.c calls Close and DestroyHandle for   *)
(* every handle that was created, whether Open succeeded or not.  A        *)
(* pointer may be null, held, or gone: freed, but still kept.              *)
(***************************************************************************)
Parts == {"name", "table", "file"}
Held(parts) == [p \in Parts |-> IF p \in parts THEN "held" ELSE "null"]
Gone == [p \in Parts |-> "gone"]

\* The handle after Open, which ends when everything is open, when a file is
\* missing, when the file is not one that is supported, or when reading it
\* fails.

\* RawOpen calls RawClose, which does not clear the pointers, unless it is the
\* size of a piece that cannot be found out.
RawOpenLeaves(end) == {IF end = "missing" THEN Gone ELSE Held(Parts)}

\* QcowOpen and VdiOpen close only if there is no file.
QcowOpenLeaves(end) ==
  CASE end = "missing" -> {Held({})}
    [] end = "refused" -> {Held({"name", "file"})}
    [] end = "unreadable" -> {Held({"name", "file"}), Held(Parts)}
    [] end = "opened" -> {Held(Parts)}

VdiOpenLeaves(end) ==
  IF end = "missing" THEN {Held({"name"})} ELSE QcowOpenLeaves(end)

\* AaffOpen closes some of what it refuses, but not a file whose header lacks
\* something.
AaffOpenLeaves(end) ==
  IF end = "refused" THEN {Held({}), Held({"name", "file"})} ELSE QcowOpenLeaves(end)

\* AffOpen closes an encrypted image and keeps its pointer.
AffOpenLeaves(end) ==
  CASE end = "refused" -> {Gone}
    [] end = "opened" -> {Held({"file"})}
    [] OTHER -> {Held({})}

\* EwfOpen does not close an image whose last byte it cannot read.
EwfOpenLeaves(end) ==
  IF end = "opened" THEN {Held({"file"})} ELSE {Held({}), Held({"file"})}

Aff4OpenLeaves(end) == {IF end = "opened" THEN Held({"file"}) ELSE Held({})}

OpenLeaves(format, end) ==
  CASE format = "raw" -> RawOpenLeaves(end)
    [] format = "qcow" -> QcowOpenLeaves(end)
    [] format = "vdi" -> VdiOpenLeaves(end)
    [] format = "aaff" -> AaffOpenLeaves(end)
    [] format = "ewf" -> EwfOpenLeaves(end)
    [] format = "aff" -> AffOpenLeaves(end)
    [] format = "aff4" -> Aff4OpenLeaves(end)

\* What Close frees, and whether it clears the pointers.
CloseFrees(format) == IF format = "vdi" THEN {"table"} ELSE Parts
CloseClears_Never(format) == FALSE
CloseClears(format) == format \in {"qcow", "vdi", "aaff"}

\* DestroyHandle of AAFF calls AaffClose again, that of VDI frees the map.
DestroyFrees(format) ==
  CASE format = "vdi" -> {"table"}
    [] format = "aaff" -> Parts
    [] OTHER -> {}

Freed(handle, parts, clears) ==
  [p \in Parts |-> IF p \in parts /\ handle[p] # "null"
                   THEN IF clears THEN "null" ELSE "gone"
                   ELSE handle[p]]
FreesTwice(handle, parts) == \E p \in parts : handle[p] = "gone"

Closed(format, handle) == Freed(handle, CloseFrees(format), CloseClears(format))

\* The two calls of FreeResources.
GivenBack(format, handle) ==
  Freed(Closed(format, handle), DestroyFrees(format), TRUE)
GivenBackTwice(format, handle) ==
  \/ FreesTwice(handle, CloseFrees(format))
  \/ FreesTwice(Closed(format, handle), DestroyFrees(format))
=============================================================================
