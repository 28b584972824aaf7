---------------------------- MODULE MCMountSession ----------------------------
(* MountSession with two input libraries, one of which supports two types, a  *)
(* morphing library that joins the images, and command lines of up to three   *)
(* options around an --in, some of them cut short, and some with a parameter  *)
(* or a file that looks like an option.  A sector has two bytes.              *)
EXTENDS MountSession, FiniteSetsExt

MCInputLibs == {"libraw", "libewf"}
MCMorphLibs == {"libcombine"}
MCLibOf == [t \in {"raw", "dd", "ewf", "combine", "nonsense"} |->
              CASE t \in {"raw", "dd"} -> "libraw" [] t = "ewf" -> "libewf"
                [] t = "combine" -> "libcombine" [] OTHER -> "nolib"]
MCNumber == [n \in {"5", "0"} |-> IF n = "5" THEN 5 ELSE 0]
MCOtherShort == {"-x"}
MCOtherLong == {"--bad"}
MCOptions == {"key=value"}
\* An empty and a small image, and one that needs 256 * 1024 tracks of 17
\* sectors, where a number of heads does not fit into a byte any more and the
\* size of the VDI block map not into a word.
MCImageSizes == {0, 5, 12, 2 * 17 * 262144}
MCMorphedSize(sizes) == FoldSeq(LAMBDA x, y : x + y, 0, sizes)

In == {<<"--in", "raw", "a">>, <<"--in", "ewf", "a", "b">>, <<"--in", "nonsense", "a">>}
OldIn == <<"--in", "dd">>
Opts == {<<"--cache", "c">>, <<"--owcache", "c">>, <<"--rocache", "c">>,
         <<"--inopts", "key=value">>, <<"--inopts", "">>, <<"--morph", "combine">>,
         <<"--morph", "nonsense">>, <<"--morphopts", "key=value">>,
         <<"--morphopts", "bad">>,
         <<"--offset", "5">>, <<"--offset", "0">>, <<"--sizelimit", "5">>, <<"--sizelimit", "bad">>,
         <<"--out", "vdi">>, <<"--out", "vhd">>, <<"--out", "vmdk">>,
         <<"--out", "raw">>,
         <<"-d">>, <<"-o", "no_allow_other">>, <<"-o", "x">>, <<"-h">>, <<"-x">>,
         <<"--bad">>}
\* The cache file and the options of libfuse may be named like options.
Posing == <<"--rocache", "--owcache", "-o", "--cache">>
Lines ==
  {o \o i \o <<"mnt">> : o \in Opts, i \in In}
    \cup {i \o o \o p \o <<"mnt">> : i \in In, o \in Opts, p \in Opts}
    \cup {i \o j \o o \o <<"mnt">> : i \in In, j \in In, o \in Opts}
    \cup {OldIn \o o \o <<"a", "b", "mnt">> : o \in Opts \cup In \cup {<<>>}}
MCCmdLines == Lines
    \cup {SubSeq(l, 1, Len(l) - 1) : l \in {i \o o \o <<"mnt">> : i \in In, o \in Opts}}
    \cup {OldIn \o o \o <<"mnt">> : o \in Opts}
    \cup {o : o \in Opts} \cup {<<>>, <<"mnt">>, <<"a", "mnt">>}
    \cup {Posing \o o \o i \o <<"mnt">> : o \in Opts, i \in In \cup {<<"--in", "raw", "-d">>}}
    \cup {o \o i \o Posing \o <<"mnt">> : o \in Opts, i \in In}
=============================================================================
