----------------------------- MODULE MCAewfReader -----------------------------
(* AewfReader with two tables, one in each of two segment files, that list   *)
(* two chunks each, or one in the second if the image has three chunks or the *)
(* last one is in no table; the second table takes more memory than the first.*)
EXTENDS AewfReader

MCTables == 0..1
MCSegments == 0..1
MCTableOf == [c \in Chunks |-> Smaller(c \div 2, 1)]
MCTableOfShort == [c \in Chunks \ {3} |-> MCTableOf[c]]
MCSegmentOf == [t \in MCTables |-> t]
MCTableSize == [t \in MCTables |-> t + 1]
=============================================================================
