----------------------------- MODULE MountSession -----------------------------
(***************************************************************************)
(* One run of xmount (xmount.c): the libraries are loaded, the command     *)
(* line is parsed option by option, each image is opened through the       *)
(* library for its type, the images are morphed, what the output type and  *)
(* the cache need is built, the file system is served, and everything is   *)
(* given back in FreeResources, which is also where every error leads.     *)
(*                                                                         *)
(* A command line is a sequence of words; the last should be the mount     *)
(* point.  Any call of a library or of the system may fail.                *)
(***************************************************************************)
EXTENDS VirtualHeaders, Sequences, SequencesExt

CONSTANTS
  CmdLines,     \* the command lines that are tried
  None,         \* what was not given; no word is None
  OtherShort, OtherLong,  \* words with one dash, and two, that are no options
  InputLibs, MorphLibs,
  LibOf,        \* the library that says it supports an image or morphing type
  NoLib,
  Number,       \* StrToUint64: the words that are numbers, and their values
  Options,      \* the words that SplitLibraryParameters can split
  ImageSizes,   \* what Size of an input library may return
  MorphedSize(_),  \* what the morphing library makes of the sizes of the images
  MaxImages     \* bound of the model: at most so many images are opened

OutputTypes == {"raw", "dd", "dmg", "vdi", "vhd", "vmdk", "vmdks"}
Flags == {"-d", "-s", "-V"}
CacheOptions == {"--cache", "--owcache", "--rocache"}
LongOptions == CacheOptions \cup {"--in", "--inopts", "--morph", "--morphopts",
                 "--offset", "--sizelimit", "--out", "--version", "--info"}
                 \cup OtherLong
Dashed == LongOptions \cup Flags \cup {"-o", "-h"} \cup OtherShort

ASSUME SessionConstants ==
  /\ InputLibs \cap MorphLibs = {} /\ NoLib \notin InputLibs \cup MorphLibs
  /\ MaxImages \in Nat /\ ImageSizes \subseteq Nat
  /\ \A n \in DOMAIN Number : Number[n] \in Nat
  /\ CmdLines \subseteq Seq(STRING)
  /\ \A l \in CmdLines : \A i \in 1..Len(l) : l[i] # None

VARIABLES
  pc,      \* where main is
  argv,    \* the command line
  args,    \* the words that are not yet parsed
  opt,     \* what the options set in glob_xmount
  img,     \* input.pp_images: library, state of the handle, size
  cur,     \* the image that main or FreeResources is at
  libs,    \* the libraries that are mapped
  inits,   \* how often Init was called for each input library
  gone,    \* the input libraries whose DeInit was called
  morph,   \* the morphing library and the state of its handle
  out,     \* the header, footer or descriptor, and whether the cache is open
  call     \* the last call of a library

vars == <<pc, argv, args, opt, img, cur, libs, inits, gone, morph, out, call>>

NoOpt == [cache |-> None, writable |-> FALSE, overwrite |-> FALSE,
          images |-> <<>>, oldIn |-> None, inopts |-> None, morph |-> None,
          morphopts |-> None, offset |-> 0, limit |-> 0, out |-> "dd",
          ownO |-> TRUE, allowOther |-> TRUE, fuse |-> {}]
NoMorph == [lib |-> NoLib, handle |-> "null"]
NoOut == [names |-> {}, header |-> <<>>, cache |-> "closed"]
NoCall == [lib |-> NoLib, fn |-> None, mapped |-> TRUE, late |-> FALSE]

\* InitResources.
Init ==
  /\ pc = "load"
  /\ argv \in CmdLines
  /\ args = argv
  /\ opt = NoOpt
  /\ img = <<>> /\ cur = 1
  /\ libs = {}
  /\ inits = [l \in InputLibs |-> 0] /\ gone = {}
  /\ morph = NoMorph /\ out = NoOut /\ call = NoCall

Goto(p) == pc' = p
Fail == Goto("free")
UnchangedRun == UNCHANGED <<img, cur, inits, gone, morph, out, call>>
UnchangedLine == UNCHANGED <<argv, args, opt>>

\* Which libraries stay mapped: those that load, have all symbols, the right
\* version and all functions.
LoadableInput == SUBSET InputLibs
LoadableMorph == SUBSET MorphLibs

\* The program ends at once unless there is a library of each kind.
LoadLibs ==
  /\ pc = "load"
  /\ \E ins \in LoadableInput, ms \in LoadableMorph :
       /\ libs' = ins \cup ms
       /\ Goto(IF ins # {} /\ ms # {} THEN "parse" ELSE "quit")
  /\ UnchangedLine /\ UnchangedRun

-----------------------------------------------------------------------------
(* ParseCmdLine                                                            *)

More == pc = "parse" /\ args # <<>> /\ Head(args) \in Dashed
Word == Head(args)
Given(n) == Len(args) > n     \* the option has n parameters
Param == args[2]
Drop(n) == args' = SubSeq(args, n + 1, Len(args))

\* Take n words, and set the options to o.
Parsed(n, o) == Drop(n) /\ opt' = o /\ UNCHANGED pc
Bad == Fail /\ UNCHANGED <<args, opt>>
UnchangedParse == UNCHANGED <<argv, libs>> /\ UnchangedRun

\* -d, -s and -V go to libfuse.
ParseFlag ==
  /\ More /\ Word \in Flags
  /\ Parsed(1, [opt EXCEPT !.fuse = @ \cup {Word}])
  /\ UnchangedParse

\* -o goes to libfuse, and then xmount adds nothing of its own.
ParseFuseOption ==
  /\ More /\ Word = "-o"
  /\ IF ~Given(1) THEN Bad
     ELSE IF Param = "no_allow_other" THEN Parsed(2, [opt EXCEPT !.allowOther = FALSE])
     ELSE Parsed(2, [opt EXCEPT !.fuse = @ \cup {Param}, !.ownO = FALSE])
  /\ UnchangedParse

\* --rocache takes nothing back, nor does --cache.
ParseCache ==
  /\ More /\ Word \in CacheOptions
  /\ IF ~Given(1) THEN Bad
     ELSE Parsed(2, [opt EXCEPT !.cache = Param,
                       !.writable = @ \/ Word # "--rocache",
                       !.overwrite = @ \/ Word = "--owcache"])
  /\ UnchangedParse

\* How many of the words from the third on are files: up to the next long
\* option, and never the last word.
FileCount ==
  LET ends == {i \in 3..Len(args) : args[i] \in LongOptions \/ i = Len(args)}
  IN (CHOOSE i \in ends : \A j \in ends : i <= j) - 3

\* --in without files is the old syntax: they follow after all options.
ParseIn ==
  /\ More /\ Word = "--in"
  /\ IF opt.oldIn # None \/ ~Given(2) THEN Bad
     ELSE IF FileCount = 0 THEN Parsed(2, [opt EXCEPT !.oldIn = Param])
     ELSE Parsed(2 + FileCount, [opt EXCEPT !.images = Append(@,
            [type |-> Param, files |-> SubSeq(args, 3, 2 + FileCount)])])
  /\ UnchangedParse

\* SplitLibraryParameters: no options, the options, or an error.
Split(word) == IF word = "" THEN None ELSE word
ParseInOpts ==
  /\ More /\ Word = "--inopts"
  /\ IF ~Given(1) \/ opt.inopts # None \/ Param \notin Options \cup {""} THEN Bad
     ELSE Parsed(2, [opt EXCEPT !.inopts = Split(Param)])
  /\ UnchangedParse
ParseMorphOpts ==
  /\ More /\ Word = "--morphopts"
  /\ IF ~Given(1) \/ opt.morphopts # None \/ Param \notin Options \cup {""} THEN Bad
     ELSE Parsed(2, [opt EXCEPT !.morphopts = Split(Param)])
  /\ UnchangedParse
ParseMorph ==
  /\ More /\ Word = "--morph"
  /\ IF ~Given(1) \/ opt.morph # None THEN Bad
     ELSE Parsed(2, [opt EXCEPT !.morph = Param])
  /\ UnchangedParse

ParseOffset ==
  /\ More /\ Word = "--offset"
  /\ IF ~Given(1) \/ Param \notin DOMAIN Number THEN Bad
     ELSE Parsed(2, [opt EXCEPT !.offset = Number[Param]])
  /\ UnchangedParse
ParseSizeLimit ==
  /\ More /\ Word = "--sizelimit"
  /\ IF ~Given(1) \/ Param \notin DOMAIN Number THEN Bad
     ELSE Parsed(2, [opt EXCEPT !.limit = Number[Param]])
  /\ UnchangedParse
ParseOut ==
  /\ More /\ Word = "--out"
  /\ IF ~Given(1) \/ Param \notin OutputTypes THEN Bad
     ELSE Parsed(2, [opt EXCEPT !.out = IF Param = "raw" THEN "dd" ELSE Param])
  /\ UnchangedParse

\* Help and version end the program.
ParseInfo ==
  /\ More /\ Word \in {"-h", "--version", "--info"}
  /\ Goto("quit") /\ UNCHANGED <<args, opt>>
  /\ UnchangedParse
ParseUnknown ==
  /\ More /\ Word \in OtherShort \cup OtherLong
  /\ Bad
  /\ UnchangedParse

\* The files of the old syntax, and the mount point.
ParseEnd ==
  /\ pc = "parse" /\ ~(args # <<>> /\ Head(args) \in Dashed)
  /\ LET n == Len(args) - 1
         old == [type |-> opt.oldIn, files |-> SubSeq(args, 1, n)]
         o == IF opt.oldIn = None THEN opt ELSE [opt EXCEPT !.images = Append(@, old)]
     IN IF n < (IF opt.oldIn = None THEN 0 ELSE 1) \/ (opt.oldIn = None /\ n # 0)
        THEN Bad
        ELSE /\ Goto("check")
             /\ Drop(n)
             /\ \E may \in IF opt.ownO /\ opt.allowOther THEN BOOLEAN ELSE {FALSE} :
                  opt' = [o EXCEPT !.fuse = @
                    \cup (IF opt.ownO THEN {"subtype"} ELSE {})
                    \cup (IF opt.ownO /\ o.images # <<>> THEN {"fsname"} ELSE {})
                    \cup (IF may THEN {"allow_other"} ELSE {})]
  /\ UnchangedParse

Parse == ParseFlag \/ ParseFuseOption \/ ParseCache \/ ParseIn \/ ParseInOpts
           \/ ParseMorphOpts \/ ParseMorph \/ ParseOffset \/ ParseSizeLimit
           \/ ParseOut \/ ParseInfo \/ ParseUnknown \/ ParseEnd

-----------------------------------------------------------------------------
(* The rest of main                                                        *)

\* At least one image, and a mount point that is a directory.
CheckOptions ==
  /\ pc = "check"
  /\ opt' = [opt EXCEPT !.morph = IF @ = None THEN "combine" ELSE @]
  /\ img' = [i \in 1..Len(opt.images) |->
               [lib |-> NoLib, handle |-> "null", size |-> 0, full |-> 0]]
  /\ \/ opt.images # <<>> /\ Len(opt.images) <= MaxImages /\ Goto("find")
     \/ Fail
  /\ UNCHANGED <<argv, args, libs, cur, inits, gone, morph, out, call>>

Call(l, f) == call' = [lib |-> l, fn |-> f, mapped |-> l \in libs,
                       late |-> l \in gone]
At(p) == pc = p /\ cur <= Len(img)
UnchangedImages == UNCHANGED <<img, cur, inits, gone>>

\* Mutant: the library is initialised for every image.
FindInputLib_Again ==
  /\ At("find")
  /\ LET l == LibOf[opt.images[cur].type]
     IN IF l \in libs \cap InputLibs
        THEN img' = [img EXCEPT ![cur].lib = l] /\ Goto("init")
        ELSE Fail /\ UNCHANGED img
  /\ UnchangedLine /\ UNCHANGED <<cur, libs, inits, gone, morph, out, call>>

\* FindInputLib.
FindInputLib ==
  /\ At("find")
  /\ LET l == LibOf[opt.images[cur].type]
     IN IF l \in libs \cap InputLibs
        THEN /\ img' = [img EXCEPT ![cur].lib = l]
             /\ Goto(IF inits[l] = 0 THEN "init" ELSE "create")
        ELSE Fail /\ UNCHANGED img
  /\ UnchangedLine /\ UNCHANGED <<cur, libs, inits, gone, morph, out, call>>

\* Init, for the first image of a library.
InitLib ==
  /\ At("init")
  /\ Call(img[cur].lib, "Init")
  /\ \/ Goto("create") /\ inits' = [inits EXCEPT ![img[cur].lib] = @ + 1]
     \/ Fail /\ UNCHANGED inits
  /\ UnchangedLine /\ UNCHANGED <<img, cur, libs, gone, morph, out>>

CreateHandle ==
  /\ At("create")
  /\ Call(img[cur].lib, "CreateHandle")
  /\ \/ /\ img' = [img EXCEPT ![cur].handle = "created"]
        /\ Goto(IF opt.inopts # None THEN "options" ELSE "open")
     \/ Fail /\ UNCHANGED img
  /\ UnchangedLine /\ UNCHANGED <<cur, libs, inits, gone, morph, out>>

OptionsParse ==
  /\ At("options")
  /\ Call(img[cur].lib, "OptionsParse")
  /\ Goto("open") \/ Fail
  /\ UnchangedLine /\ UnchangedImages /\ UNCHANGED <<libs, morph, out>>

OpenImage ==
  /\ At("open")
  /\ Call(img[cur].lib, "Open")
  /\ \/ Goto("size") /\ img' = [img EXCEPT ![cur].handle = "open"]
     \/ Fail /\ img' = [img EXCEPT ![cur].handle = "failed"]
  /\ UnchangedLine /\ UNCHANGED <<cur, libs, inits, gone, morph, out>>

\* Mutant: the size limit is compared with the size before the offset.
Part_Whole(full) ==
  IF opt.offset > full \/ opt.limit > full THEN {}
  ELSE {IF opt.limit # 0 THEN opt.limit ELSE full - opt.offset}

\* Mutant: the offset is not compared with the size.
Part_Unchecked(full) ==
  LET rest == full - opt.offset
  IN {IF opt.limit # 0 THEN opt.limit ELSE rest}

\* The part of an image of this size that --offset and --sizelimit leave.
Part(full) ==
  LET rest == full - opt.offset
  IN IF opt.offset > full \/ opt.limit > rest THEN {}
     ELSE {IF opt.limit # 0 THEN opt.limit ELSE rest}

SizeImage ==
  /\ At("size")
  /\ Call(img[cur].lib, "Size")
  /\ \/ \E full \in ImageSizes :
          IF Part(full) = {} THEN Fail /\ UNCHANGED <<img, cur>>
          ELSE /\ \E s \in Part(full) :
                    img' = [img EXCEPT ![cur].size = s, ![cur].full = full]
               /\ cur' = cur + 1
               /\ Goto(IF cur = Len(img) THEN "findmorph" ELSE "find")
     \/ Fail /\ UNCHANGED <<img, cur>>
  /\ UnchangedLine /\ UNCHANGED <<libs, inits, gone, morph, out>>

FindMorphingLib ==
  /\ pc = "findmorph"
  /\ LET l == LibOf[opt.morph]
     IN IF l \in libs \cap MorphLibs
        THEN Goto("createmorph") /\ morph' = [morph EXCEPT !.lib = l]
        ELSE Fail /\ UNCHANGED morph
  /\ UnchangedLine /\ UnchangedImages /\ UNCHANGED <<libs, out, call>>

\* CreateHandle, OptionsParse and Morph of the morphing library.
CreateMorph ==
  /\ pc = "createmorph"
  /\ Call(morph.lib, "CreateHandle")
  /\ \/ /\ morph' = [morph EXCEPT !.handle = "created"]
        /\ Goto(IF opt.morphopts # None THEN "morphoptions" ELSE "morph")
     \/ Fail /\ UNCHANGED morph
  /\ UnchangedLine /\ UnchangedImages /\ UNCHANGED <<libs, out>>
MorphOptions ==
  /\ pc = "morphoptions"
  /\ Call(morph.lib, "OptionsParse")
  /\ Goto("morph") \/ Fail
  /\ UnchangedLine /\ UnchangedImages /\ UNCHANGED <<libs, morph, out>>
Morph ==
  /\ pc = "morph"
  /\ Call(morph.lib, "Morph")
  /\ \/ Goto("hash") /\ morph' = [morph EXCEPT !.handle = "open"]
     \/ Fail /\ UNCHANGED morph
  /\ UnchangedLine /\ UnchangedImages /\ UNCHANGED <<libs, out>>

Size == MorphedSize([i \in 1..Len(img) |-> img[i].size])

\* CalculateInputImageHash reads the beginning of the morphed image: there has
\* to be one.  If it fails main returns without FreeResources.
Hash ==
  /\ pc = "hash"
  /\ Call(morph.lib, "Read")
  /\ (Size # 0 /\ Goto("names")) \/ Goto("quit")
  /\ UnchangedLine /\ UnchangedImages /\ UNCHANGED <<libs, morph, out>>

\* ExtractVirtFileNames and InitVirtImageInfoFile, which asks every library.
Names ==
  /\ pc = "names"
  /\ out' = [out EXCEPT !.names = {"image", "info"}
               \cup (IF opt.out \in {"vmdk", "vmdks"} THEN {"vmdk"} ELSE {})]
  /\ Call(morph.lib, "GetInfofileContent")
  /\ Goto("header") \/ Fail
  /\ UnchangedLine /\ UnchangedImages /\ UNCHANGED <<libs, morph>>

Header(type) ==
  LET vdi == VdiHeader(Size)
      vhd == VhdGeometry(Size)
  IN CASE type = "vdi" -> <<vdi.blocks, vdi.offBlocks, vdi.offData, vdi.cbDisk>>
       [] type = "vhd" -> <<vhd.c, vhd.h, vhd.s>>
       [] type \in {"vmdk", "vmdks"} -> <<VmdkExtent(Size)>>
       [] OTHER -> <<>>

BuildHeader ==
  /\ pc = "header"
  /\ Call(morph.lib, "Size")
  /\ \/ /\ out' = [out EXCEPT !.header = Header(opt.out)]
        /\ Goto(IF opt.cache = None THEN "serve" ELSE "cache")
     \/ opt.out \notin {"dd", "dmg"} /\ Fail /\ UNCHANGED out
  /\ UnchangedLine /\ UnchangedImages /\ UNCHANGED <<libs, morph>>

\* InitCacheFile: it may open the file and still refuse it.
InitCache ==
  /\ pc = "cache"
  /\ \/ Goto("serve") /\ out' = [out EXCEPT !.cache = "open"]
     \/ Fail /\ \E c \in {"open", "closed"} : out' = [out EXCEPT !.cache = c]
  /\ UnchangedLine /\ UnchangedImages /\ UNCHANGED <<libs, morph, call>>

\* fuse_main: requests read the images until the file system is unmounted.
Serve ==
  /\ pc = "serve"
  /\ \/ \E i \in 1..Len(img) : Call(img[i].lib, "Read") /\ UNCHANGED pc
     \/ Fail /\ UNCHANGED call
  /\ UnchangedLine /\ UnchangedImages /\ UNCHANGED <<libs, morph, out>>

-----------------------------------------------------------------------------
(* FreeResources                                                           *)

\* The output, the cache file and the morphing libraries.
FreeMorphing ==
  /\ pc = "free"
  /\ IF morph.handle = "null" THEN UNCHANGED call
     ELSE Call(morph.lib, "DestroyHandle")
  /\ morph' = NoMorph
  /\ out' = NoOut
  /\ libs' = libs \ MorphLibs
  /\ cur' = 1
  /\ Goto("close")
  /\ UnchangedLine /\ UNCHANGED <<img, inits, gone>>

\* Mutant: only what was opened is closed and destroyed.
HasHandle_Open == img[cur].handle = "open"

\* An image is closed, and its handle destroyed, if there is a handle.
HasHandle == img[cur].handle # "null"

\* Mutant: the loop stops at an image without a handle.
CloseImage_Stays ==
  /\ At("close") /\ HasHandle
  /\ Call(img[cur].lib, "Close") /\ Goto("destroy")
  /\ UnchangedLine /\ UNCHANGED <<img, cur, libs, inits, gone, morph, out>>

CloseImage ==
  /\ At("close")
  /\ IF HasHandle THEN Call(img[cur].lib, "Close") /\ Goto("destroy") /\ UNCHANGED cur
     ELSE cur' = cur + 1 /\ UNCHANGED <<call, pc>>
  /\ UnchangedLine /\ UNCHANGED <<img, libs, inits, gone, morph, out>>
DestroyHandle ==
  /\ At("destroy")
  /\ Call(img[cur].lib, "DestroyHandle")
  /\ img' = [img EXCEPT ![cur].handle = "null"]
  /\ Goto("deinit")
  /\ UnchangedLine /\ UNCHANGED <<cur, libs, inits, gone, morph, out>>
\* DeInit is called with every image.
DeInit ==
  /\ At("deinit")
  /\ Call(img[cur].lib, "DeInit")
  /\ gone' = gone \cup {img[cur].lib}
  /\ cur' = cur + 1
  /\ Goto("close")
  /\ UnchangedLine /\ UNCHANGED <<img, libs, inits, morph, out>>

\* The input libraries are unloaded.
UnloadInput ==
  /\ pc = "close" /\ cur > Len(img)
  /\ libs' = libs \ InputLibs
  /\ opt' = NoOpt
  /\ Goto("freed")
  /\ UNCHANGED <<argv, args, img, cur, inits, gone, morph, out, call>>

Start == FindInputLib \/ InitLib \/ CreateHandle \/ OptionsParse \/ OpenImage
           \/ SizeImage \/ FindMorphingLib \/ CreateMorph \/ MorphOptions
           \/ Morph \/ Hash \/ Names \/ BuildHeader \/ InitCache
FreeResources == FreeMorphing \/ CloseImage \/ DestroyHandle \/ DeInit
                   \/ UnloadInput
Next == LoadLibs \/ Parse \/ CheckOptions \/ Start \/ Serve \/ FreeResources
Spec == Init /\ [][Next]_vars

\* The program runs on, but need not be unmounted.
FairSpec == Spec /\ WF_vars(LoadLibs \/ Parse \/ CheckOptions \/ Start
                              \/ FreeResources)

-----------------------------------------------------------------------------
(* Properties                                                              *)

\* The variables have their types.
TypeOK ==
  /\ pc \in {"load", "parse", "check", "find", "init", "create", "options",
             "open", "size", "findmorph", "createmorph", "morphoptions", "morph",
             "hash", "names", "header", "cache", "serve", "free", "close",
             "destroy", "deinit", "freed", "quit"}
  /\ IsSuffix(args, argv)
  /\ libs \subseteq InputLibs \cup MorphLibs
  /\ inits \in [InputLibs -> Nat] /\ gone \subseteq InputLibs
  /\ cur \in 1..Len(img)+1
  /\ \A i \in 1..Len(img) :
       /\ img[i].handle \in {"null", "created", "open", "failed"}
       /\ img[i].lib \in InputLibs \cup {NoLib} /\ img[i].size \in Nat
  /\ opt.offset \in Nat /\ opt.limit \in Nat

\* Every library is initialised once, before its first handle is created,
\* however many images it opens (libxmount_input.h, Init).
InitOnce == \A l \in InputLibs :
  /\ inits[l] <= 1
  /\ (\E i \in 1..Len(img) : img[i].lib = l /\ img[i].handle # "null") => inits[l] = 1

SeveralOfOneLib == \E i, j \in 1..Len(img) : i < j /\ img[i].lib = img[j].lib

\* A library is mapped as long as it is called, and nothing that needs it is
\* left when it is unmapped: whichever step of the start failed, FreeResources
\* destroys every handle and closes the cache file.  DeInit is the last call of
\* a library (libxmount_input.h), unless it opened several images.
NothingLeft ==
  /\ call.mapped
  /\ call.late => SeveralOfOneLib
  /\ pc = "freed" => /\ libs = {} /\ morph.handle = "null" /\ out.cache = "closed"
                     /\ \A i \in 1..Len(img) : img[i].handle = "null"

\* Where the words of a command line begin with dashes, and the word that
\* follows an option and its parameters: an --in takes a type and the files up
\* to the next word with two dashes or the mount point.
Dashes(line) == {i \in 1..Len(line) : line[i] \in Dashed}
FileEnds(line, i) == {j \in i+2..Len(line) : line[j] \in LongOptions \/ j = Len(line)}
Follow(line, i) ==
  IF line[i] \in Flags THEN i + 1
  ELSE IF line[i] = "--in" /\ i + 2 <= Len(line)
       THEN CHOOSE j \in FileEnds(line, i) : \A k \in FileEnds(line, i) : j <= k
       ELSE i + 2

\* Options stand first and where another option ends: the least set of places
\* with that property.  A word that looks like an option but is the parameter
\* of another one, or a file, is none.
ClosedPlaces(line, places) ==
  /\ 1 \in Dashes(line) => 1 \in places
  /\ \A i \in places : Follow(line, i) \in Dashes(line) => Follow(line, i) \in places
OptionPlaces(line) ==
  {i \in Dashes(line) : \A places \in SUBSET Dashes(line) :
                          ClosedPlaces(line, places) => i \in places}

\* Whether one of the options is at one of these places, and the parameter of
\* the last that is.
Asked(line, places, options) == \E i \in places : line[i] \in options
LastGiven(line, places, options) ==
  {line[i + 1] : i \in {i \in places : /\ line[i] \in options
                                       /\ \A j \in places : line[j] \in options => j <= i}}
NumberGiven(line, places, option, number) ==
  IF Asked(line, places, {option})
  THEN \E word \in LastGiven(line, places, {option}) : number = Number[word]
  ELSE number = 0

\* The options at these places of the line, taken together, ask for o.
AsksFor(line, places, o) ==
  /\ o.cache # None <=> Asked(line, places, CacheOptions)
  /\ o.cache # None => o.cache \in LastGiven(line, places, CacheOptions)
  /\ o.writable <=> Asked(line, places, {"--cache", "--owcache"})
  /\ o.overwrite <=> Asked(line, places, {"--owcache"})
  /\ NumberGiven(line, places, "--offset", o.offset)
  /\ NumberGiven(line, places, "--sizelimit", o.limit)

\* These are the images the --ins at these places ask for, in their order: of
\* the types they name, and with the files that stand behind them, or with those
\* that stand behind all options but for the mount point.
ImageAsked(line, i, image, late) ==
  /\ image.type = line[i + 1]
  /\ image.files = IF i + 2 < Follow(line, i) THEN SubSeq(line, i + 2, Follow(line, i) - 1)
                   ELSE late
Ins(line, places) == {i \in places : line[i] = "--in"}
ImagesGiven(line, places, images, late) ==
  /\ Len(images) = Cardinality(Ins(line, places))
  /\ \A i \in Ins(line, places) :
       ImageAsked(line, i, images[Cardinality({j \in Ins(line, places) : j <= i})], late)
\* Where the options end is a place that follows one of them and is none.
Ends(line, places) == ({1} \cup {Follow(line, i) : i \in places}) \ places
ImagesAsked(line, places, images) == \E i \in Ends(line, places) :
  ImagesGiven(line, places, images, SubSeq(line, i, Len(line) - 1))

\* What is served is what was asked for: an image for every --in, in their
\* order, with its files and opened by the library for its type, the part of it
\* that the last --offset and --sizelimit leave inside it, and something to
\* serve; there is a cache file exactly if a cache option names one, the last
\* names it, it takes changes exactly if --cache or --owcache was given and is
\* overwritten exactly if --owcache was.
ServesWhatWasAsked == pc = "serve" =>
  /\ AsksFor(argv, OptionPlaces(argv), opt)
  /\ out.cache = "open" <=> Asked(argv, OptionPlaces(argv), CacheOptions)
  /\ ImagesAsked(argv, OptionPlaces(argv), opt.images)
  /\ Len(img) = Len(opt.images)
  /\ \A i \in 1..Len(img) :
       /\ img[i].handle = "open" /\ img[i].lib = LibOf[opt.images[i].type]
       /\ opt.offset + img[i].size <= img[i].full
  /\ Size > 0 /\ morph.handle = "open"

\* The header built for the output type describes the image that is served; that
\* of a VDI only if 32 bits can count its blocks and their map.
HeaderFits == pc = "serve" =>
  /\ opt.out = "vhd" =>
       GeometryFits(Size, [c |-> out.header[1], h |-> out.header[2], s |-> out.header[3]])
  /\ opt.out = "vdi" /\ VdiCountable(Size) =>
       VdiHeaderFits(Size, [blocks |-> out.header[1], offBlocks |-> out.header[2],
                            offData |-> out.header[3], cbDisk |-> out.header[4]])

\* Every start ends with the file system served or with nothing left to do.
StartsOrEnds == <>(pc \in {"serve", "freed", "quit"})

=============================================================================
