---------------------------- MODULE MCXmountCache ----------------------------
(* XmountCache with small sizes: an image of ImageSize cells whose cells,   *)
(* like those of the VDI header and the VHD footer, are all different, so   *)
(* that data copied from a wrong place is noticed.                          *)
EXTENDS XmountCache, TLC

CONSTANTS p0, p1, p2, p3, p4,  \* the cells of the image
          h0, h1,          \* the cells of VDI header or VHD footer
          w0, w1,          \* what is written
          z0               \* padding

MCValues == {p0, p1, p2, p3, p4, h0, h1, w0, w1, z0}
MCImage == [i \in 0..ImageSize-1 |-> <<p0, p1, p2, p3, p4>>[i + 1]]
MCVdiHeader == [i \in 0..VdiSize-1 |-> <<h0, h1>>[i + 1]]
MCVhdFooter == [i \in 0..VhdSize-1 |-> <<h0, h1>>[i + 1]]

\* The data written by requests: one cell, or two that may cross a border.
Pair == {<<w0, w1>>}
OneOrTwo == {<<w0>>, <<w1, w0>>}

Symmetry == Permutations(Threads)
=============================================================================
