--------------------------- MODULE MCVmdkNameSpace ---------------------------
(***************************************************************************)
(* Values and the bound for model checking VmdkNameSpace.                  *)
(***************************************************************************)
EXTENDS VmdkNameSpace

\* With IntMax = 3 an int goes from -4 to 3.  Of a file of one byte these are: all
\* of it, which a read has cut and a write makes the file longer with, and what
\* makes the size negative.
MCPieces == {[off |-> 0, len |-> 2], [off |-> 3, len |-> 1]}

\* Bound: clients do no more once two lock files were made at the same time.
Bound == "names" \notin misused

=============================================================================
