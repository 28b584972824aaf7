-------------------------- MODULE MountSessionProofs --------------------------
(***************************************************************************)
(* Theorems about MountSession, for any command lines, libraries, images   *)
(* and sizes, and any step of the start failing.                           *)
(*                                                                         *)
(* What has been opened so far is told from the place main has come to     *)
(* (CursorInv, OpenedInv, MorphInv); that every handle belongs to a        *)
(* library which is mapped and initialised (HandlesInv) does not depend on *)
(* it, which is why FreeResources may be called from anywhere.  What is    *)
(* left of the command line and the headers have invariants of their own,  *)
(* ArgsInv and OutInv.  What was asked for is told from the words that     *)
(* were parsed (ParsedInv) and then by what became of it (AskedInv).       *)
(***************************************************************************)
EXTENDS MountSession, SequenceTheorems, FiniteSetTheorems, WellFoundedInduction, TLAPS

Early == {"load", "parse", "check"}
Opening == {"find", "init", "create", "options", "open", "size"}
MorphSteps == {"createmorph", "morphoptions", "morph", "hash", "names", "header"}
AllOpen == MorphSteps \cup {"findmorph", "cache", "serve"}
Closing == {"close", "destroy", "deinit", "freed"}

\* Words, and the texts that options are given by default.
Text == STRING \cup {"", None, "dd", "combine"}
FuseWords == Text \cup Flags \cup {"subtype", "fsname", "allow_other"}
ImageSpec == [type : Text, files : Seq(Text)]
OptionRecord ==
  [cache : Text, writable : BOOLEAN, overwrite : BOOLEAN,
   images : Seq(ImageSpec), oldIn : Text, inopts : Text, morph : Text,
   morphopts : Text, offset : Nat, limit : Nat, out : Text,
   ownO : BOOLEAN, allowOther : BOOLEAN, fuse : SUBSET FuseWords]
ImageRecord == [lib : InputLibs \cup {NoLib},
                handle : {"null", "created", "open", "failed"},
                size : Nat, full : Nat]

-----------------------------------------------------------------------------
(* The invariant                                                           *)

Types ==
  /\ pc \in Early \cup Opening \cup AllOpen \cup Closing \cup {"free", "quit"}
  /\ argv \in Seq(Text) /\ args \in Seq(Text) /\ opt \in OptionRecord
  /\ img \in Seq(ImageRecord) /\ cur \in Nat
  /\ libs \subseteq InputLibs \cup MorphLibs
  /\ inits \in [InputLibs -> Nat] /\ gone \subseteq InputLibs
  /\ morph \in [lib : MorphLibs \cup {NoLib}, handle : {"null", "created", "open"}]

\* Which image main or FreeResources is at.
CursorInv ==
  /\ pc \in Early => img = <<>> /\ cur = 1
  /\ cur \in 1..Len(img)+1
  /\ pc \in Opening \cup {"destroy", "deinit"} => cur <= Len(img)

\* A handle belongs to a library that is mapped and was initialised once.
HandlesInv ==
  /\ \A i \in 1..Len(img) : img[i].handle # "null" =>
       img[i].lib \in libs \cap InputLibs /\ inits[img[i].lib] = 1
  /\ \A l \in InputLibs : inits[l] <= 1
  /\ pc \in Opening \ {"find"} => img[cur].lib \in libs \cap InputLibs
  /\ pc = "init" => inits[img[cur].lib] = 0
  /\ pc \in Opening \ {"find", "init"} => inits[img[cur].lib] = 1

\* The images main has passed are open, those it has not come to are not.
OpenedInv ==
  /\ pc \in Opening =>
       /\ \A i \in 1..cur-1 : img[i].handle = "open"
       /\ \A i \in cur+1..Len(img) : img[i].handle = "null"
  /\ pc \in {"find", "init", "create"} => img[cur].handle = "null"
  /\ pc = "size" => img[cur].handle = "open"
  /\ pc \in AllOpen => \A i \in 1..Len(img) : img[i].handle = "open"

MorphInv ==
  /\ morph.handle # "null" => morph.lib \in libs
  /\ pc \in MorphSteps => morph.lib \in libs \cap MorphLibs
  /\ pc \in Early \cup Opening \cup {"findmorph"} => morph = NoMorph

\* What FreeResources has passed is given back.
ClosingInv ==
  /\ pc \in Closing =>
       /\ libs \subseteq InputLibs /\ morph = NoMorph /\ out = NoOut
       /\ \A i \in 1..cur-1 : img[i].handle = "null"
       /\ gone \subseteq {img[j].lib : j \in 1..cur-1}
  /\ pc = "destroy" => img[cur].handle # "null"
  /\ pc = "deinit" => /\ img[cur].handle = "null"
                      /\ img[cur].lib \in libs \cap InputLibs
  /\ pc = "freed" => libs = {} /\ cur = Len(img) + 1
  /\ pc \notin Closing => gone = {} /\ ~call.late

CallInv == call.mapped /\ (call.late => SeveralOfOneLib)

Inv == /\ Types /\ CursorInv /\ HandlesInv /\ OpenedInv /\ MorphInv
       /\ ClosingInv /\ CallInv

-----------------------------------------------------------------------------
(* Facts                                                                   *)

\* A set of natural numbers has a least element.
LEMMA LeastNumber ==
  ASSUME NEW T, T \subseteq Nat, T # {}
  PROVE  \E x \in T : \A y \in T : x <= y
<1>. DEFINE R == {ss \in Nat \X Nat : ss[1] < ss[2]}
<1>1. IsWellFoundedOn(R, Nat)
  BY NatLessThanWellFounded DEF OpToRel
<1>2. ASSUME NEW x \in T, NEW y \in T, ~(<<y, x>> \in R)
      PROVE  x <= y
  BY <1>2
<1>. HIDE DEF R
<1>3. PICK x \in T : \A y \in T : ~(<<y, x>> \in R)
  BY <1>1, WFMin
<1>. QED BY <1>2, <1>3

\* An image's record is replaced.
LEMMA ImageReplaced ==
  ASSUME Types, NEW i \in 1..Len(img), NEW r \in ImageRecord,
         img' = [img EXCEPT ![i] = r]
  PROVE  /\ img' \in Seq(ImageRecord) /\ Len(img') = Len(img)
         /\ img'[i] = r
         /\ \A j \in 1..Len(img) : j # i => img'[j] = img[j]
<1>1. img \in Seq(ImageRecord)
  BY DEF Types
<1>. DEFINE new == [img EXCEPT ![i] = r]
<1>2. /\ new \in Seq(ImageRecord) /\ Len(new) = Len(img)
      /\ \A j \in 1..Len(img) : new[j] = IF j = i THEN r ELSE img[j]
  BY <1>1, ExceptSeq
<1>3. img' = new
  OBVIOUS
<1>. HIDE DEF new
<1>. QED BY <1>2, <1>3

LEMMA ImageTyped ==
  ASSUME Types, NEW i \in 1..Len(img)
  PROVE  img[i] \in ImageRecord /\ Len(img) \in Nat
  BY ElementOfSeq, LenProperties DEF Types

LEMMA InitInv == Init => Inv
<1>. SUFFICES ASSUME Init PROVE Inv
  OBVIOUS
<1>1. argv \in Seq(Text) /\ img = <<>> /\ Len(img) = 0
  <2>1. argv \in Seq(STRING) /\ STRING \subseteq Text
    BY SessionConstants DEF Init, Text
  <2>2. argv \in Seq(Text)
    BY <2>1, SeqMonotonic
  <2>. QED BY <2>2 DEF Init
<1>2. NoOpt \in OptionRecord
  <2>1. <<>> \in Seq(ImageSpec)
    BY EmptySeq
  <2>. QED BY <2>1 DEF NoOpt, OptionRecord, Text
<1>3. Types
  BY <1>1, <1>2 DEF Init, Types, Early, NoMorph
<1>4. CursorInv /\ HandlesInv /\ OpenedInv /\ MorphInv
  BY <1>1 DEF Init, CursorInv, HandlesInv, OpenedInv, MorphInv, Early, Opening,
              AllOpen, MorphSteps, NoMorph
<1>5. ClosingInv /\ CallInv
  BY DEF Init, ClosingInv, CallInv, Closing, NoCall
<1>. QED BY <1>3, <1>4, <1>5 DEF Inv

-----------------------------------------------------------------------------
(* The command line                                                        *)

\* Any stretch of the words is words, and so is what is left of them.
LEMMA WordsTaken ==
  ASSUME Types, NEW m \in Nat \ {0}, NEW n \in Nat, n <= Len(args)
  PROVE  SubSeq(args, m, n) \in Seq(Text)
<1>1. Len(args) \in Nat /\ \A i \in 1..Len(args) : args[i] \in Text
  BY LenProperties, ElementOfSeq DEF Types
<1>2. \A i \in m..n : args[i] \in Text
  BY <1>1
<1>. QED BY <1>2, SubSeqProperties

LEMMA RestIsWords ==
  ASSUME Types, NEW n \in Nat
  PROVE  SubSeq(args, n + 1, Len(args)) \in Seq(Text)
<1>1. Len(args) \in Nat
  BY LenProperties DEF Types
<1>. QED BY <1>1, WordsTaken

LEMMA FileCounted ==
  ASSUME Types, Len(args) > 2
  PROVE  FileCount \in Nat /\ FileCount + 2 < Len(args)
<1>. DEFINE ends == {i \in 3..Len(args) : args[i] \in LongOptions \/ i = Len(args)}
<1>1. Len(args) \in Nat
  BY LenProperties DEF Types
<1>2. Len(args) \in ends /\ ends \subseteq Nat /\ ends \subseteq 3..Len(args)
  BY <1>1
<1>3. FileCount = (CHOOSE i \in ends : \A j \in ends : i <= j) - 3
  BY DEF FileCount
<1>. HIDE DEF ends
<1>4. \E i \in ends : \A j \in ends : i <= j
  BY <1>2, LeastNumber
<1>. DEFINE least == CHOOSE i \in ends : \A j \in ends : i <= j
<1>5. least \in ends /\ FileCount = least - 3
  BY <1>3, <1>4
<1>. HIDE DEF least
<1>6. least \in 3..Len(args)
  BY <1>2, <1>5
<1>. QED BY <1>1, <1>5, <1>6

\* Words that are parsed are words, and the options stay a record of options.
LEMMA ParseTyped ==
  ASSUME Types, Parse
  PROVE  args' \in Seq(Text) /\ opt' \in OptionRecord
<1>1. /\ args \in Seq(Text) /\ opt \in OptionRecord /\ Len(args) \in Nat
      /\ \A i \in 1..Len(args) : args[i] \in Text
  BY LenProperties, ElementOfSeq DEF Types
<1>2. \A n \in Nat : Drop(n) => args' \in Seq(Text)
  <2>1. \A n \in Nat : SubSeq(args, n + 1, Len(args)) \in Seq(Text)
    BY <1>1, RestIsWords
  <2>. QED BY <2>1 DEF Drop
<1>3. Given(1) => Param \in Text
  BY <1>1 DEF Given, Param
<1>4. /\ None \in Text /\ "" \in Text /\ "dd" \in Text /\ Text \subseteq FuseWords
      /\ {"subtype", "fsname", "allow_other"} \subseteq FuseWords
  BY DEF Text, FuseWords
<1>5. CASE ParseFlag
  BY <1>1, <1>2, <1>5 DEF ParseFlag, Parsed, OptionRecord, FuseWords
<1>6. CASE ParseFuseOption
  <2>1. /\ UNCHANGED args \/ Drop(2)
        /\ \/ UNCHANGED opt
           \/ opt' = [opt EXCEPT !.allowOther = FALSE]
           \/ /\ Given(1)
              /\ opt' = [opt EXCEPT !.fuse = opt.fuse \cup {Param}, !.ownO = FALSE]
    BY <1>6 DEF ParseFuseOption, Parsed, Bad
  <2>2. Given(1) => opt.fuse \cup {Param} \in SUBSET FuseWords
    BY <1>1, <1>3, <1>4 DEF OptionRecord
  <2>. QED BY <1>1, <1>2, <2>1, <2>2 DEF OptionRecord
<1>7. CASE ParseCache
  BY <1>1, <1>2, <1>3, <1>7 DEF ParseCache, Parsed, Bad, OptionRecord
<1>8. CASE ParseIn
  <2>1. CASE opt.oldIn # None \/ ~Given(2)
    BY <1>1, <1>8, <2>1 DEF ParseIn, Bad
  <2>2. CASE ~(opt.oldIn # None \/ ~Given(2))
    <3>1. Len(args) > 2 /\ Param \in Text
      BY <1>1, <2>2 DEF Given, Param
    <3>2. FileCount \in Nat /\ FileCount + 2 < Len(args)
      BY <3>1, FileCounted
    <3>3. SubSeq(args, 3, 2 + FileCount) \in Seq(Text)
      BY <1>1, <3>2, WordsTaken
    <3>. DEFINE spec == [type |-> Param, files |-> SubSeq(args, 3, 2 + FileCount)]
    <3>4. spec \in ImageSpec
      BY <3>1, <3>3 DEF ImageSpec
    <3>5. opt.images \in Seq(ImageSpec)
      BY <1>1 DEF OptionRecord
    <3>6. Append(opt.images, spec) \in Seq(ImageSpec)
      BY <3>4, <3>5, AppendProperties
    <3>7. \/ Parsed(2, [opt EXCEPT !.oldIn = Param])
          \/ Parsed(2 + FileCount, [opt EXCEPT !.images = Append(opt.images, spec)])
      BY <1>1, <1>8, <2>2 DEF ParseIn, OptionRecord
    <3>. HIDE DEF spec
    <3>8. args' \in Seq(Text)
      BY <1>2, <3>2, <3>7 DEF Parsed
    <3>9. \/ opt' = [opt EXCEPT !.oldIn = Param]
          \/ opt' = [opt EXCEPT !.images = Append(opt.images, spec)]
      BY <3>7 DEF Parsed
    <3>. QED BY <1>1, <3>1, <3>6, <3>8, <3>9 DEF OptionRecord
  <2>. QED BY <2>1, <2>2
<1>9. CASE ParseInOpts
  BY <1>1, <1>2, <1>3, <1>4, <1>9 DEF ParseInOpts, Parsed, Bad, Split, OptionRecord
<1>10. CASE ParseMorphOpts
  BY <1>1, <1>2, <1>3, <1>4, <1>10 DEF ParseMorphOpts, Parsed, Bad, Split, OptionRecord
<1>11. CASE ParseMorph
  BY <1>1, <1>2, <1>3, <1>11 DEF ParseMorph, Parsed, Bad, OptionRecord
<1>12. CASE ParseOffset
  BY <1>1, <1>2, <1>12, SessionConstants DEF ParseOffset, Parsed, Bad, OptionRecord
<1>13. CASE ParseSizeLimit
  BY <1>1, <1>2, <1>13, SessionConstants DEF ParseSizeLimit, Parsed, Bad, OptionRecord
<1>14. CASE ParseOut
  <2>1. (UNCHANGED args \/ Drop(2)) /\ (UNCHANGED opt \/
          (Given(1) /\ opt' = [opt EXCEPT !.out = IF Param = "raw" THEN "dd" ELSE Param]))
    BY <1>14 DEF ParseOut, Parsed, Bad
  <2>2. Given(1) => (IF Param = "raw" THEN "dd" ELSE Param) \in Text
    BY <1>3, <1>4
  <2>. QED BY <1>1, <1>2, <2>1, <2>2 DEF OptionRecord
<1>15. CASE ParseInfo \/ ParseUnknown
  BY <1>1, <1>15 DEF ParseInfo, ParseUnknown, Bad
<1>16. CASE ParseEnd
  <2>. DEFINE n == Len(args) - 1
              old == [type |-> opt.oldIn, files |-> SubSeq(args, 1, n)]
              o == IF opt.oldIn = None THEN opt
                   ELSE [opt EXCEPT !.images = Append(opt.images, old)]
  <2>1. CASE n < 0
    <3>1. Len(args) = 0
      BY <1>1, <2>1
    <3>2. UNCHANGED <<args, opt>>
      BY <1>16, <3>1 DEF ParseEnd, Bad
    <3>. QED BY <1>1, <3>2
  <2>2. CASE n \in Nat
    <3>1. SubSeq(args, 1, n) \in Seq(Text)
      BY <1>1, <2>2, WordsTaken
    <3>2. opt.oldIn \in Text /\ opt.images \in Seq(ImageSpec)
      BY <1>1 DEF OptionRecord
    <3>3. old \in ImageSpec
      BY <3>1, <3>2 DEF ImageSpec
    <3>. HIDE DEF old
    <3>4. Append(opt.images, old) \in Seq(ImageSpec)
      BY <3>2, <3>3, AppendProperties
    <3>5. o \in OptionRecord
      BY <1>1, <3>4 DEF OptionRecord
    <3>6. \/ args' = args /\ opt' = opt
          \/ Drop(n) /\ \E f \in SUBSET FuseWords : opt' = [o EXCEPT !.fuse = f]
      <4>. DEFINE f(may) ==
             o.fuse \cup (IF opt.ownO THEN {"subtype"} ELSE {})
               \cup (IF opt.ownO /\ o.images # <<>> THEN {"fsname"} ELSE {})
               \cup (IF may THEN {"allow_other"} ELSE {})
      <4>1. \A may \in BOOLEAN : f(may) \in SUBSET FuseWords
        BY <1>4, <3>5 DEF OptionRecord
      <4>2. \/ UNCHANGED <<args, opt>>
            \/ Drop(n) /\ \E may \in BOOLEAN : opt' = [o EXCEPT !.fuse = f(may)]
        BY <1>16 DEF ParseEnd, Bad, old
      <4>. QED BY <4>1, <4>2
    <3>. HIDE DEF o
    <3>7. Drop(n) => args' \in Seq(Text)
      BY <1>2, <2>2
    <3>. QED BY <1>1, <3>5, <3>6, <3>7 DEF OptionRecord
  <2>. QED BY <1>1, <2>1, <2>2
<1>. QED BY <1>5, <1>6, <1>7, <1>8, <1>9, <1>10, <1>11, <1>12, <1>13, <1>14,
            <1>15, <1>16 DEF Parse

LEMMA ParseInv ==
  ASSUME Inv, Parse
  PROVE  Inv'
<1>1. /\ pc = "parse" /\ pc' \in {"parse", "free", "quit", "check"}
      /\ UNCHANGED <<argv, libs, img, cur, inits, gone, morph, out, call>>
  BY DEF Parse, ParseFlag, ParseFuseOption, ParseCache, ParseIn, ParseInOpts,
         ParseMorphOpts, ParseMorph, ParseOffset, ParseSizeLimit, ParseOut,
         ParseInfo, ParseUnknown, ParseEnd, More, Parsed, Bad, Fail, Goto,
         UnchangedParse, UnchangedRun
<1>2. Types'
  BY <1>1, ParseTyped DEF Inv, Types, Early, Opening, AllOpen, Closing
<1>3. CursorInv' /\ HandlesInv' /\ OpenedInv' /\ MorphInv' /\ ClosingInv'
  BY <1>1 DEF Inv, CursorInv, HandlesInv, OpenedInv, MorphInv, ClosingInv,
              Early, Opening, AllOpen, MorphSteps, Closing
<1>4. CallInv'
  BY <1>1 DEF Inv, CallInv, SeveralOfOneLib
<1>. QED BY <1>2, <1>3, <1>4 DEF Inv

-----------------------------------------------------------------------------
(* The start                                                               *)

LEMMA LoadLibsInv ==
  ASSUME Inv, LoadLibs
  PROVE  Inv'
<1>1. /\ pc = "load" /\ pc' \in {"parse", "quit"} /\ libs' \subseteq InputLibs \cup MorphLibs
      /\ UNCHANGED <<argv, args, opt, img, cur, inits, gone, morph, out, call>>
  BY DEF LoadLibs, LoadableInput, LoadableMorph, Goto, UnchangedLine, UnchangedRun
<1>2. img = <<>> /\ Len(img) = 0
  BY <1>1 DEF Inv, CursorInv, Early
<1>3. Types' /\ CursorInv'
  BY <1>1 DEF Inv, Types, CursorInv, Early, Opening, AllOpen, Closing
<1>4. HandlesInv' /\ OpenedInv' /\ ClosingInv'
  BY <1>1, <1>2 DEF Inv, HandlesInv, OpenedInv, ClosingInv, Early, Opening,
                    AllOpen, MorphSteps, Closing
<1>5. MorphInv' /\ CallInv'
  BY <1>1 DEF Inv, MorphInv, MorphSteps, Early, Opening, NoMorph, CallInv, SeveralOfOneLib
<1>. QED BY <1>3, <1>4, <1>5 DEF Inv

LEMMA CheckOptionsInv ==
  ASSUME Inv, CheckOptions
  PROVE  Inv'
<1>1. /\ pc = "check" /\ cur = 1 /\ cur' = 1
      /\ opt' = [opt EXCEPT !.morph = IF opt.morph = None THEN "combine" ELSE opt.morph]
      /\ img' = [i \in 1..Len(opt.images) |->
                   [lib |-> NoLib, handle |-> "null", size |-> 0, full |-> 0]]
      /\ pc' = "free" \/ (pc' = "find" /\ opt.images # <<>>)
      /\ UNCHANGED <<argv, args, libs, inits, gone, morph, out, call>>
  BY DEF CheckOptions, Fail, Goto, Inv, CursorInv, Early
<1>2. opt \in OptionRecord /\ "combine" \in Text
  BY DEF Inv, Types, Text
<1>3. opt' \in OptionRecord
  BY <1>1, <1>2 DEF OptionRecord
<1>4. Len(opt.images) \in Nat /\ (opt.images # <<>> => Len(opt.images) # 0)
  <2>1. opt.images \in Seq(ImageSpec)
    BY <1>2 DEF OptionRecord
  <2>. QED BY <2>1, LenProperties, EmptySeq
<1>5. /\ img' \in Seq(ImageRecord) /\ Len(img') = Len(opt.images)
      /\ \A i \in 1..Len(img') : img'[i].handle = "null"
  <2>. DEFINE r == [lib |-> NoLib, handle |-> "null", size |-> 0, full |-> 0]
  <2>1. r \in ImageRecord /\ r.handle = "null"
    BY DEF ImageRecord
  <2>2. img' = [i \in 1..Len(opt.images) |-> r]
    BY <1>1
  <2>. HIDE DEF r
  <2>. QED BY <1>4, <2>1, <2>2
<1>6. Types'
  BY <1>1, <1>3, <1>5 DEF Inv, Types, Early, Opening, AllOpen, Closing
<1>7. CursorInv' /\ OpenedInv'
  BY <1>1, <1>4, <1>5 DEF CursorInv, OpenedInv, Early, Opening, AllOpen, MorphSteps
<1>8. HandlesInv' /\ MorphInv' /\ ClosingInv'
  BY <1>1, <1>5 DEF Inv, HandlesInv, MorphInv, ClosingInv, Early, Opening, MorphSteps, Closing
<1>9. CallInv'
  BY <1>1 DEF Inv, ClosingInv, CallInv, Closing
<1>. QED BY <1>6, <1>7, <1>8, <1>9 DEF Inv

\* main calls a library for the image it is at and records what comes of it.
\* What may change is the record of that image, and nothing is given back yet.
LEMMA ImageStep ==
  ASSUME Inv, pc \in Opening, NEW r \in ImageRecord,
         img' = [img EXCEPT ![cur] = r],
         UNCHANGED <<argv, args, opt, libs, gone, morph, out>>,
         call' = call \/ (call'.mapped /\ ~call'.late),
         pc' \in Opening \cup {"free", "findmorph"}
  PROVE  /\ cur \in 1..Len(img) /\ img' \in Seq(ImageRecord) /\ Len(img') = Len(img)
         /\ img'[cur] = r
         /\ \A j \in 1..Len(img) : j # cur => img'[j] = img[j]
         /\ MorphInv' /\ ClosingInv' /\ CallInv'
<1>1. cur \in 1..Len(img)
  BY DEF Inv, CursorInv
<1>2. /\ img' \in Seq(ImageRecord) /\ Len(img') = Len(img) /\ img'[cur] = r
      /\ \A j \in 1..Len(img) : j # cur => img'[j] = img[j]
  BY <1>1, ImageReplaced DEF Inv
<1>3. MorphInv' /\ ClosingInv'
  BY DEF Inv, MorphInv, ClosingInv, Early, Opening, MorphSteps, Closing
<1>4. CallInv'
  BY DEF Inv, CallInv, ClosingInv, Opening, Closing
<1>. QED BY <1>1, <1>2, <1>3, <1>4

\* A library called before anything is given back is mapped and not late.
LEMMA EarlyCall ==
  ASSUME Inv, pc \notin Closing, NEW l \in libs, NEW f, Call(l, f)
  PROVE  call'.mapped /\ ~call'.late
  BY DEF Inv, ClosingInv, Call

LEMMA FindInputLibInv ==
  ASSUME Inv, FindInputLib
  PROVE  Inv'
<1>. DEFINE l == LibOf[opt.images[cur].type]
<1>1. /\ pc = "find" /\ cur \in 1..Len(img) /\ img[cur].handle = "null"
      /\ UNCHANGED <<argv, args, opt, cur, libs, inits, gone, morph, out, call>>
  BY DEF FindInputLib, At, UnchangedLine, Inv, CursorInv, OpenedInv, Opening
<1>2. img[cur] \in ImageRecord /\ Len(img) \in Nat
  BY <1>1, ImageTyped DEF Inv
<1>3. CASE l \in libs \cap InputLibs
  <2>. DEFINE r == [img[cur] EXCEPT !.lib = l]
  <2>1. r \in ImageRecord /\ r.lib = l /\ r.handle = "null"
    BY <1>1, <1>2, <1>3 DEF ImageRecord
  <2>2. /\ img' = [img EXCEPT ![cur] = r]
        /\ pc' = IF inits[l] = 0 THEN "init" ELSE "create"
    BY <1>1, <1>3 DEF FindInputLib, Goto
  <2>3. inits[l] \in Nat /\ inits[l] <= 1
    BY <1>3 DEF Inv, Types, HandlesInv
  <2>. HIDE DEF r, l
  <2>4. /\ img' \in Seq(ImageRecord) /\ Len(img') = Len(img) /\ img'[cur] = r
        /\ \A j \in 1..Len(img) : j # cur => img'[j] = img[j]
        /\ MorphInv' /\ ClosingInv' /\ CallInv'
    BY <1>1, <2>1, <2>2, ImageStep DEF Opening
  <2>5. Types' /\ CursorInv'
    BY <1>1, <2>2, <2>4 DEF Inv, Types, CursorInv, Early, Opening, AllOpen, Closing
  <2>6. HandlesInv'
    BY <1>1, <1>3, <2>1, <2>2, <2>3, <2>4 DEF Inv, HandlesInv, Opening
  <2>7. OpenedInv'
    BY <1>1, <1>2, <2>1, <2>2, <2>4 DEF Inv, OpenedInv, CursorInv, Opening, AllOpen, MorphSteps
  <2>. QED BY <2>4, <2>5, <2>6, <2>7 DEF Inv
<1>4. CASE l \notin libs \cap InputLibs
  <2>1. pc' = "free" /\ UNCHANGED img
    BY <1>1, <1>4 DEF FindInputLib, Fail, Goto
  <2>. QED BY <1>1, <2>1 DEF Inv, Types, CursorInv, HandlesInv, OpenedInv, MorphInv,
             ClosingInv, CallInv, SeveralOfOneLib, Early, Opening, AllOpen, MorphSteps, Closing
<1>. QED BY <1>3, <1>4

\* A step of the start that fails leaves everything to FreeResources, and a
\* failed hash ends the program.
LEMMA StartFails ==
  ASSUME Inv, pc \notin Closing, pc' \in {"free", "quit"},
         UNCHANGED <<argv, args, opt, img, cur, libs, inits, gone, morph>>,
         call' = call \/ (call'.mapped /\ ~call'.late)
  PROVE  Inv'
<1>1. Types' /\ CursorInv' /\ HandlesInv' /\ OpenedInv' /\ MorphInv'
  BY DEF Inv, Types, CursorInv, HandlesInv, OpenedInv, MorphInv, Early, Opening,
         AllOpen, MorphSteps, Closing
<1>2. ClosingInv' /\ CallInv'
  BY DEF Inv, ClosingInv, CallInv, Closing
<1>. QED BY <1>1, <1>2 DEF Inv

LEMMA InitLibInv ==
  ASSUME Inv, InitLib
  PROVE  Inv'
<1>. DEFINE l == img[cur].lib
<1>1. /\ pc = "init" /\ cur \in 1..Len(img) /\ Call(l, "Init")
      /\ l \in libs \cap InputLibs /\ inits[l] = 0 /\ img[cur].handle = "null"
      /\ UNCHANGED <<argv, args, opt, img, cur, libs, gone, morph, out>>
  BY DEF InitLib, At, UnchangedLine, Inv, CursorInv, HandlesInv, OpenedInv, Opening
<1>2. call'.mapped /\ ~call'.late
  BY <1>1, EarlyCall DEF Closing
<1>3. CASE pc' = "create" /\ inits' = [inits EXCEPT ![l] = @ + 1]
  <2>1. /\ inits' \in [InputLibs -> Nat] /\ inits'[l] = 1
        /\ \A k \in InputLibs : k # l => inits'[k] = inits[k]
    BY <1>1, <1>3 DEF Inv, Types
  <2>. HIDE DEF l
  <2>2. Types' /\ CursorInv'
    BY <1>1, <1>3, <2>1 DEF Inv, Types, CursorInv, Early, Opening, AllOpen, Closing
  <2>3. HandlesInv'
    BY <1>1, <1>3, <2>1 DEF Inv, HandlesInv, Opening, l
  <2>4. OpenedInv' /\ MorphInv' /\ ClosingInv' /\ CallInv'
    BY <1>1, <1>2, <1>3 DEF Inv, OpenedInv, MorphInv, ClosingInv, CallInv, Early,
                            Opening, AllOpen, MorphSteps, Closing
  <2>. QED BY <2>2, <2>3, <2>4 DEF Inv
<1>4. CASE pc' = "free" /\ UNCHANGED inits
  BY <1>1, <1>2, <1>4, StartFails DEF Closing
<1>. QED BY <1>3, <1>4 DEF InitLib, Goto, Fail

\* The image main is at gets a handle, or the handle a new state.
LEMMA HandleStep ==
  ASSUME Inv, pc \in {"create", "open"}, NEW h \in {"created", "open", "failed"},
         img' = [img EXCEPT ![cur].handle = h],
         pc' \in {"options", "open", "size", "free"}, pc' = "size" => h = "open",
         UNCHANGED <<argv, args, opt, cur, libs, inits, gone, morph, out>>,
         call'.mapped /\ ~call'.late
  PROVE  Inv'
<1>1. cur \in 1..Len(img) /\ img[cur] \in ImageRecord /\ Len(img) \in Nat
  BY ImageTyped DEF Inv, CursorInv, Opening
<1>. DEFINE r == [img[cur] EXCEPT !.handle = h]
<1>2. r \in ImageRecord /\ r.handle = h /\ r.lib = img[cur].lib
  BY <1>1 DEF ImageRecord
<1>3. img' = [img EXCEPT ![cur] = r]
  OBVIOUS
<1>. HIDE DEF r
<1>4. /\ img' \in Seq(ImageRecord) /\ Len(img') = Len(img) /\ img'[cur] = r
      /\ \A j \in 1..Len(img) : j # cur => img'[j] = img[j]
      /\ MorphInv' /\ ClosingInv' /\ CallInv'
  BY <1>2, <1>3, ImageStep DEF Opening
<1>5. Types' /\ CursorInv'
  BY <1>1, <1>4 DEF Inv, Types, CursorInv, Early, Opening, AllOpen, Closing
<1>6. HandlesInv'
  BY <1>1, <1>2, <1>4 DEF Inv, HandlesInv, Opening
<1>7. OpenedInv'
  BY <1>1, <1>2, <1>4 DEF Inv, OpenedInv, Opening, AllOpen, MorphSteps
<1>. QED BY <1>4, <1>5, <1>6, <1>7 DEF Inv

LEMMA CreateHandleInv ==
  ASSUME Inv, CreateHandle
  PROVE  Inv'
<1>1. /\ pc = "create" /\ Call(img[cur].lib, "CreateHandle") /\ img[cur].lib \in libs
      /\ UNCHANGED <<argv, args, opt, cur, libs, inits, gone, morph, out>>
  BY DEF CreateHandle, UnchangedLine, At, Inv, HandlesInv, Opening
<1>2. call'.mapped /\ ~call'.late
  BY <1>1, EarlyCall DEF Closing
<1>3. CASE pc' = "free" /\ UNCHANGED img
  BY <1>1, <1>2, <1>3, StartFails DEF Closing
<1>4. CASE /\ pc' \in {"options", "open"}
           /\ img' = [img EXCEPT ![cur].handle = "created"]
  BY <1>1, <1>2, <1>4, HandleStep
<1>. QED BY <1>3, <1>4 DEF CreateHandle, Goto, Fail

LEMMA OpenImageInv ==
  ASSUME Inv, OpenImage
  PROVE  Inv'
<1>1. /\ pc = "open" /\ Call(img[cur].lib, "Open") /\ img[cur].lib \in libs
      /\ UNCHANGED <<argv, args, opt, cur, libs, inits, gone, morph, out>>
  BY DEF OpenImage, UnchangedLine, At, Inv, HandlesInv, Opening
<1>2. call'.mapped /\ ~call'.late
  BY <1>1, EarlyCall DEF Closing
<1>3. \E h \in {"open", "failed"} :
        /\ img' = [img EXCEPT ![cur].handle = h]
        /\ pc' = IF h = "open" THEN "size" ELSE "free"
  BY DEF OpenImage, Goto, Fail
<1>. QED BY <1>1, <1>2, <1>3, HandleStep

LEMMA OptionsParseInv ==
  ASSUME Inv, OptionsParse
  PROVE  Inv'
<1>1. /\ pc = "options" /\ pc' \in {"open", "free"} /\ Call(img[cur].lib, "OptionsParse")
      /\ img[cur].lib \in libs
      /\ UNCHANGED <<argv, args, opt, img, cur, libs, inits, gone, morph, out>>
  BY DEF OptionsParse, UnchangedLine, UnchangedImages, At, Goto, Fail, Inv,
         HandlesInv, Opening
<1>2. call'.mapped /\ ~call'.late
  BY <1>1, EarlyCall DEF Closing
<1>3. CASE pc' = "free"
  BY <1>1, <1>2, <1>3, StartFails DEF Closing
<1>4. CASE pc' = "open"
  <2>1. Types' /\ CursorInv' /\ HandlesInv' /\ OpenedInv' /\ MorphInv'
    BY <1>1, <1>4 DEF Inv, Types, CursorInv, HandlesInv, OpenedInv, MorphInv,
                      Early, Opening, AllOpen, MorphSteps, Closing
  <2>2. ClosingInv' /\ CallInv'
    BY <1>1, <1>2, <1>4 DEF Inv, ClosingInv, CallInv, Closing
  <2>. QED BY <2>1, <2>2 DEF Inv
<1>. QED BY <1>1, <1>3, <1>4

\* What --offset and --sizelimit leave of an image is a number of bytes.
LEMMA PartIsNumber ==
  ASSUME Types, NEW full \in Nat, NEW s \in Part(full)
  PROVE  s \in Nat
<1>1. opt.offset \in Nat /\ opt.limit \in Nat
  BY DEF Types, OptionRecord
<1>. QED BY <1>1 DEF Part

LEMMA SizeImageInv ==
  ASSUME Inv, SizeImage
  PROVE  Inv'
<1>1. /\ pc = "size" /\ cur \in 1..Len(img) /\ Call(img[cur].lib, "Size")
      /\ img[cur].lib \in libs
      /\ UNCHANGED <<argv, args, opt, libs, inits, gone, morph, out>>
  BY DEF SizeImage, UnchangedLine, At, Inv, CursorInv, HandlesInv, Opening
<1>2. call'.mapped /\ ~call'.late
  BY <1>1, EarlyCall DEF Closing
<1>3. CASE pc' = "free" /\ UNCHANGED <<img, cur>>
  BY <1>1, <1>2, <1>3, StartFails DEF Closing
<1>4. ASSUME NEW full \in ImageSizes, NEW s \in Part(full),
             img' = [img EXCEPT ![cur].size = s, ![cur].full = full],
             cur' = cur + 1, pc' = IF cur = Len(img) THEN "findmorph" ELSE "find"
      PROVE  Inv'
  <2>1. img[cur] \in ImageRecord /\ Len(img) \in Nat /\ img \in Seq(ImageRecord)
    BY <1>1, ImageTyped DEF Inv, Types
  <2>. DEFINE r == [img[cur] EXCEPT !.size = s, !.full = full]
  <2>2. r \in ImageRecord /\ r.handle = "open" /\ r.lib = img[cur].lib
    <3>1. full \in Nat /\ s \in Nat
      BY <1>4, PartIsNumber, SessionConstants DEF Inv
    <3>2. img[cur].handle = "open"
      BY <1>1 DEF Inv, OpenedInv
    <3>. QED BY <2>1, <3>1, <3>2 DEF ImageRecord
  <2>3. img' = [img EXCEPT ![cur] = r]
    BY <1>4
  <2>. HIDE DEF r
  <2>4. /\ img' \in Seq(ImageRecord) /\ Len(img') = Len(img) /\ img'[cur] = r
        /\ \A j \in 1..Len(img) : j # cur => img'[j] = img[j]
        /\ MorphInv' /\ ClosingInv' /\ CallInv'
    BY <1>1, <1>2, <1>4, <2>2, <2>3, ImageStep DEF Opening
  <2>5. Types' /\ CursorInv'
    BY <1>1, <1>4, <2>1, <2>4 DEF Inv, Types, CursorInv, Early, Opening, AllOpen, Closing
  <2>6. HandlesInv'
    BY <1>1, <1>4, <2>1, <2>2, <2>4 DEF Inv, HandlesInv, Opening
  <2>7. OpenedInv'
    BY <1>1, <1>4, <2>1, <2>2, <2>4 DEF Inv, OpenedInv, Opening, AllOpen, MorphSteps
  <2>. QED BY <2>4, <2>5, <2>6, <2>7 DEF Inv
<1>. QED BY <1>3, <1>4 DEF SizeImage, Goto, Fail

-----------------------------------------------------------------------------
(* Morphing, the output and serving                                        *)

\* Every image is open: main goes on to another step, and the handles, the
\* libraries and the images stay as they are.
LEMMA AfterImages ==
  ASSUME Inv, pc \in AllOpen, pc' \in AllOpen,
         UNCHANGED <<argv, args, opt, img, cur, libs, inits, gone>>,
         morph' \in [lib : MorphLibs \cup {NoLib}, handle : {"null", "created", "open"}],
         morph'.handle # "null" => morph'.lib \in libs,
         pc' \in MorphSteps => morph'.lib \in libs \cap MorphLibs,
         pc' # "findmorph",
         call' = call \/ (call'.mapped /\ ~call'.late)
  PROVE  Inv'
<1>1. Types'
  BY DEF Inv, Types, Early, Opening, AllOpen, MorphSteps, Closing
<1>2. CursorInv' /\ HandlesInv' /\ OpenedInv' /\ MorphInv'
  BY DEF Inv, CursorInv, HandlesInv, OpenedInv, MorphInv, Early, Opening,
         AllOpen, MorphSteps
<1>3. ClosingInv' /\ CallInv'
  BY DEF Inv, ClosingInv, CallInv, Closing, AllOpen, MorphSteps
<1>. QED BY <1>1, <1>2, <1>3 DEF Inv

LEMMA FindMorphingLibInv ==
  ASSUME Inv, FindMorphingLib
  PROVE  Inv'
<1>. DEFINE l == LibOf[opt.morph]
<1>1. /\ pc = "findmorph" /\ morph = NoMorph
      /\ UNCHANGED <<argv, args, opt, img, cur, libs, inits, gone, out, call>>
  BY DEF FindMorphingLib, UnchangedLine, UnchangedImages, Inv, MorphInv
<1>2. CASE l \in libs \cap MorphLibs
  <2>1. pc' = "createmorph" /\ morph' = [morph EXCEPT !.lib = l]
    BY <1>2 DEF FindMorphingLib, Goto
  <2>. HIDE DEF l
  <2>2. morph' = [lib |-> l, handle |-> "null"]
    BY <1>1, <2>1 DEF NoMorph
  <2>3. /\ morph' \in [lib : MorphLibs \cup {NoLib}, handle : {"null", "created", "open"}]
        /\ morph'.handle = "null" /\ morph'.lib = l
    BY <1>2, <2>2
  <2>. QED BY <1>1, <1>2, <2>1, <2>3, AfterImages DEF AllOpen, MorphSteps
<1>3. CASE l \notin libs \cap MorphLibs
  <2>1. pc' = "free" /\ UNCHANGED morph
    BY <1>3 DEF FindMorphingLib, Fail, Goto
  <2>. QED BY <1>1, <2>1, StartFails DEF Closing
<1>. QED BY <1>2, <1>3

\* A call of the morphing library, whatever comes of it.
LEMMA MorphCallInv ==
  ASSUME Inv, pc \in MorphSteps, pc' \in MorphSteps \cup {"cache", "serve", "free", "quit"},
         NEW f, Call(morph.lib, f),
         UNCHANGED <<argv, args, opt, img, cur, libs, inits, gone>>,
         \/ UNCHANGED morph
         \/ /\ pc' \in MorphSteps
            /\ \E h \in {"created", "open"} : morph' = [morph EXCEPT !.handle = h]
  PROVE  Inv'
<1>1. /\ morph.lib \in libs \cap MorphLibs
      /\ morph \in [lib : MorphLibs \cup {NoLib}, handle : {"null", "created", "open"}]
  BY DEF Inv, MorphInv, Types
<1>2. call'.mapped /\ ~call'.late
  BY <1>1, EarlyCall DEF MorphSteps, Closing
<1>3. CASE pc' \in {"free", "quit"}
  <2>1. UNCHANGED morph
    BY <1>3 DEF MorphSteps
  <2>. QED BY <1>2, <1>3, <2>1, StartFails DEF MorphSteps, Closing
<1>4. CASE pc' \in MorphSteps \cup {"cache", "serve"}
  <2>1. /\ morph' \in [lib : MorphLibs \cup {NoLib}, handle : {"null", "created", "open"}]
        /\ morph'.lib = morph.lib
    BY <1>1
  <2>. QED BY <1>1, <1>2, <1>4, <2>1, AfterImages DEF AllOpen, MorphSteps
<1>. QED BY <1>3, <1>4

LEMMA MorphStepsInv ==
  ASSUME Inv, CreateMorph \/ MorphOptions \/ Morph \/ Hash \/ Names \/ BuildHeader
  PROVE  Inv'
<1>1. pc \in MorphSteps /\ pc' \in MorphSteps \cup {"cache", "serve", "free", "quit"}
  BY DEF CreateMorph, MorphOptions, Morph, Hash, Names, BuildHeader, Goto, Fail, MorphSteps
<1>2. \E f \in {"CreateHandle", "OptionsParse", "Morph", "Read", "GetInfofileContent", "Size"} :
        Call(morph.lib, f)
  BY DEF CreateMorph, MorphOptions, Morph, Hash, Names, BuildHeader
<1>3. UNCHANGED <<argv, args, opt, img, cur, libs, inits, gone>>
  BY DEF CreateMorph, MorphOptions, Morph, Hash, Names, BuildHeader, UnchangedLine,
         UnchangedImages
<1>4. \/ UNCHANGED morph
      \/ /\ pc' \in MorphSteps
         /\ \E h \in {"created", "open"} : morph' = [morph EXCEPT !.handle = h]
  BY DEF CreateMorph, MorphOptions, Morph, Hash, Names, BuildHeader, Goto, MorphSteps
<1>. QED BY <1>1, <1>2, <1>3, <1>4, MorphCallInv

LEMMA InitCacheInv ==
  ASSUME Inv, InitCache
  PROVE  Inv'
<1>1. /\ pc = "cache" /\ pc' \in {"serve", "free"}
      /\ UNCHANGED <<argv, args, opt, img, cur, libs, inits, gone, morph, call>>
  BY DEF InitCache, Goto, Fail, UnchangedLine, UnchangedImages
<1>2. CASE pc' = "free"
  BY <1>1, <1>2, StartFails DEF Closing
<1>3. CASE pc' = "serve"
  BY <1>1, <1>3, AfterImages DEF Inv, Types, MorphInv, AllOpen, MorphSteps
<1>. QED BY <1>1, <1>2, <1>3

LEMMA ServeInv ==
  ASSUME Inv, Serve
  PROVE  Inv'
<1>1. /\ pc = "serve" /\ \A i \in 1..Len(img) : img[i].lib \in libs
      /\ UNCHANGED <<argv, args, opt, img, cur, libs, inits, gone, morph, out>>
  BY DEF Serve, UnchangedLine, UnchangedImages, Inv, OpenedInv, HandlesInv, AllOpen
<1>2. ASSUME NEW i \in 1..Len(img), Call(img[i].lib, "Read"), UNCHANGED pc
      PROVE  Inv'
  <2>1. call'.mapped /\ ~call'.late
    BY <1>1, <1>2, EarlyCall DEF Closing
  <2>. QED BY <1>1, <1>2, <2>1, AfterImages DEF Inv, Types, MorphInv, AllOpen, MorphSteps
<1>3. CASE pc' = "free" /\ UNCHANGED call
  BY <1>1, <1>3, StartFails DEF Closing
<1>. QED BY <1>2, <1>3 DEF Serve, Fail, Goto

-----------------------------------------------------------------------------
(* FreeResources                                                           *)

LEMMA FreeMorphingInv ==
  ASSUME Inv, FreeMorphing
  PROVE  Inv'
<1>1. /\ pc = "free" /\ pc' = "close" /\ cur' = 1 /\ libs' = libs \ MorphLibs
      /\ morph' = NoMorph /\ out' = NoOut
      /\ UNCHANGED <<argv, args, opt, img, inits, gone>>
      /\ call' = call \/ (morph.handle # "null" /\ Call(morph.lib, "DestroyHandle"))
  BY DEF FreeMorphing, UnchangedLine, Goto
<1>2. Len(img) \in Nat
  BY LenProperties DEF Inv, Types
<1>3. Types' /\ CursorInv'
  BY <1>1, <1>2 DEF Inv, Types, CursorInv, NoMorph, Early, Opening, Closing
<1>4. \A l : l \in libs \cap InputLibs => l \in libs' \cap InputLibs
  BY <1>1, SessionConstants
<1>5. HandlesInv'
  BY <1>1, <1>4 DEF Inv, HandlesInv, Opening
<1>6. OpenedInv' /\ MorphInv'
  BY <1>1 DEF OpenedInv, MorphInv, NoMorph, Early, Opening, AllOpen, MorphSteps
<1>7. gone = {} /\ ~call.late
  BY <1>1 DEF Inv, ClosingInv, Closing
<1>8. ClosingInv'
  BY <1>1, <1>7 DEF Inv, Types, ClosingInv, Closing
<1>9. CallInv'
  <2>1. morph.handle # "null" => morph.lib \in libs
    BY DEF Inv, MorphInv
  <2>2. call'.mapped /\ ~call'.late
    BY <1>1, <1>7, <2>1, EarlyCall DEF Inv, CallInv, Closing
  <2>. QED BY <2>2 DEF CallInv
<1>. QED BY <1>3, <1>5, <1>6, <1>8, <1>9 DEF Inv

\* A library called while the images are closed is mapped, and late only if an
\* earlier image was opened by it too.
LEMMA ClosingCall ==
  ASSUME Inv, pc \in Closing, cur \in 1..Len(img), NEW f,
         img[cur].lib \in libs, Call(img[cur].lib, f)
  PROVE  call'.mapped /\ (call'.late => SeveralOfOneLib)
<1>1. call'.mapped /\ (call'.late => img[cur].lib \in gone)
  BY DEF Call
<1>2. gone \subseteq {img[j].lib : j \in 1..cur-1} /\ Len(img) \in Nat
  BY LenProperties DEF Inv, ClosingInv, Types
<1>3. ASSUME img[cur].lib \in gone
      PROVE  SeveralOfOneLib
  <2>1. PICK j \in 1..cur-1 : img[cur].lib = img[j].lib
    BY <1>2, <1>3
  <2>2. j \in 1..Len(img) /\ j < cur
    BY <1>2, <2>1
  <2>. QED BY <2>1, <2>2 DEF SeveralOfOneLib
<1>. QED BY <1>1, <1>3

LEMMA CloseImageInv ==
  ASSUME Inv, CloseImage
  PROVE  Inv'
<1>1. /\ pc = "close" /\ cur \in 1..Len(img) /\ Len(img) \in Nat
      /\ UNCHANGED <<argv, args, opt, img, libs, inits, gone, morph, out>>
  BY LenProperties DEF CloseImage, At, UnchangedLine, Inv, Types, CursorInv
<1>2. CASE img[cur].handle # "null"
  <2>1. Call(img[cur].lib, "Close") /\ pc' = "destroy" /\ cur' = cur
    BY <1>2 DEF CloseImage, HasHandle, Goto
  <2>2. img[cur].lib \in libs
    BY <1>1, <1>2 DEF Inv, HandlesInv
  <2>3. call'.mapped /\ (call'.late => SeveralOfOneLib)
    BY <1>1, <2>1, <2>2, ClosingCall DEF Closing
  <2>4. Types' /\ CursorInv' /\ HandlesInv' /\ OpenedInv' /\ MorphInv'
    BY <1>1, <2>1 DEF Inv, Types, CursorInv, HandlesInv, OpenedInv, MorphInv,
                      Early, Opening, AllOpen, MorphSteps, Closing
  <2>5. ClosingInv' /\ CallInv'
    BY <1>1, <1>2, <2>1, <2>3 DEF Inv, ClosingInv, CallInv, SeveralOfOneLib, Closing
  <2>. QED BY <2>4, <2>5 DEF Inv
<1>3. CASE img[cur].handle = "null"
  <2>1. call' = call /\ pc' = pc /\ cur' = cur + 1
    BY <1>3 DEF CloseImage, HasHandle
  <2>2. Types' /\ CursorInv' /\ HandlesInv' /\ OpenedInv' /\ MorphInv'
    BY <1>1, <2>1 DEF Inv, Types, CursorInv, HandlesInv, OpenedInv, MorphInv,
                      Early, Opening, AllOpen, MorphSteps, Closing
  <2>3. ClosingInv' /\ CallInv'
    BY <1>1, <1>3, <2>1 DEF Inv, ClosingInv, CallInv, SeveralOfOneLib, Closing
  <2>. QED BY <2>2, <2>3 DEF Inv
<1>. QED BY <1>2, <1>3

LEMMA DestroyHandleInv ==
  ASSUME Inv, DestroyHandle
  PROVE  Inv'
<1>1. /\ pc = "destroy" /\ pc' = "deinit" /\ cur \in 1..Len(img) /\ Len(img) \in Nat
      /\ Call(img[cur].lib, "DestroyHandle") /\ img[cur].lib \in libs \cap InputLibs
      /\ UNCHANGED <<argv, args, opt, cur, libs, inits, gone, morph, out>>
  BY LenProperties DEF DestroyHandle, At, Goto, UnchangedLine, Inv, Types, CursorInv,
                       ClosingInv, HandlesInv
<1>2. call'.mapped /\ (call'.late => SeveralOfOneLib)
  BY <1>1, ClosingCall DEF Closing
<1>. DEFINE r == [img[cur] EXCEPT !.handle = "null"]
<1>3. r \in ImageRecord /\ r.handle = "null" /\ r.lib = img[cur].lib
  <2>1. img[cur] \in ImageRecord
    BY <1>1, ImageTyped DEF Inv
  <2>. QED BY <2>1 DEF ImageRecord
<1>4. img' = [img EXCEPT ![cur] = r]
  BY DEF DestroyHandle
<1>. HIDE DEF r
<1>5. /\ img' \in Seq(ImageRecord) /\ Len(img') = Len(img) /\ img'[cur] = r
      /\ \A j \in 1..Len(img) : j # cur => img'[j] = img[j]
  BY <1>1, <1>3, <1>4, ImageReplaced DEF Inv
<1>6. \A j \in 1..Len(img) : img'[j].lib = img[j].lib
  BY <1>3, <1>5
<1>7. Types' /\ CursorInv'
  BY <1>1, <1>5 DEF Inv, Types, CursorInv, Early, Opening, AllOpen, Closing
<1>8. HandlesInv'
  BY <1>1, <1>3, <1>5 DEF Inv, HandlesInv, Opening
<1>9. OpenedInv' /\ MorphInv'
  BY <1>1 DEF Inv, OpenedInv, MorphInv, Early, Opening, AllOpen, MorphSteps
<1>10. ClosingInv'
  <2>1. gone' \subseteq {img'[j].lib : j \in 1..cur'-1}
    <3>1. gone \subseteq {img[j].lib : j \in 1..cur-1}
      BY <1>1 DEF Inv, ClosingInv, Closing
    <3>2. \A j \in 1..cur-1 : img'[j].lib = img[j].lib
      BY <1>1, <1>6
    <3>. QED BY <1>1, <3>1, <3>2
  <2>2. \A i \in 1..cur'-1 : img'[i].handle = "null"
    BY <1>1, <1>5 DEF Inv, ClosingInv, Closing
  <2>. QED BY <1>1, <1>3, <1>5, <2>1, <2>2 DEF Inv, ClosingInv, Closing
<1>11. CallInv'
  <2>1. SeveralOfOneLib => SeveralOfOneLib'
    BY <1>5, <1>6 DEF SeveralOfOneLib
  <2>. QED BY <1>2, <2>1 DEF CallInv
<1>. QED BY <1>7, <1>8, <1>9, <1>10, <1>11 DEF Inv

LEMMA DeInitInv ==
  ASSUME Inv, DeInit
  PROVE  Inv'
<1>1. /\ pc = "deinit" /\ pc' = "close" /\ cur \in 1..Len(img) /\ Len(img) \in Nat
      /\ cur' = cur + 1 /\ gone' = gone \cup {img[cur].lib} /\ img[cur].handle = "null"
      /\ Call(img[cur].lib, "DeInit") /\ img[cur].lib \in libs \cap InputLibs
      /\ UNCHANGED <<argv, args, opt, img, libs, inits, morph, out>>
  BY LenProperties DEF DeInit, At, Goto, UnchangedLine, Inv, Types, CursorInv, ClosingInv
<1>2. call'.mapped /\ (call'.late => SeveralOfOneLib)
  BY <1>1, ClosingCall DEF Closing
<1>3. Types' /\ CursorInv' /\ HandlesInv' /\ OpenedInv' /\ MorphInv'
  BY <1>1 DEF Inv, Types, CursorInv, HandlesInv, OpenedInv, MorphInv, Early,
              Opening, AllOpen, MorphSteps, Closing
<1>4. ClosingInv'
  <2>1. gone' \subseteq {img'[j].lib : j \in 1..cur'-1}
    <3>1. gone \subseteq {img[j].lib : j \in 1..cur-1}
      BY <1>1 DEF Inv, ClosingInv, Closing
    <3>. QED BY <1>1, <3>1
  <2>. QED BY <1>1, <2>1 DEF Inv, ClosingInv, Closing
<1>5. CallInv'
  BY <1>1, <1>2 DEF CallInv, SeveralOfOneLib
<1>. QED BY <1>3, <1>4, <1>5 DEF Inv

LEMMA UnloadInputInv ==
  ASSUME Inv, UnloadInput
  PROVE  Inv'
<1>1. /\ pc = "close" /\ pc' = "freed" /\ cur = Len(img) + 1 /\ Len(img) \in Nat
      /\ libs' = {} /\ opt' = NoOpt /\ \A i \in 1..Len(img) : img[i].handle = "null"
      /\ UNCHANGED <<argv, args, img, cur, inits, gone, morph, out, call>>
  BY LenProperties DEF UnloadInput, Goto, Inv, Types, CursorInv, ClosingInv, Closing
<1>2. opt' \in OptionRecord
  <2>1. <<>> \in Seq(ImageSpec)
    BY EmptySeq
  <2>. QED BY <1>1, <2>1 DEF NoOpt, OptionRecord, Text
<1>3. Types' /\ CursorInv'
  BY <1>1, <1>2 DEF Inv, Types, CursorInv, Early, Opening, AllOpen, Closing
<1>4. HandlesInv' /\ OpenedInv' /\ ClosingInv'
  BY <1>1 DEF Inv, HandlesInv, OpenedInv, ClosingInv, Opening, AllOpen, MorphSteps, Closing
<1>5. MorphInv'
  BY <1>1 DEF Inv, MorphInv, ClosingInv, NoMorph, Early, Opening, MorphSteps, Closing
<1>6. CallInv'
  BY <1>1 DEF Inv, CallInv, SeveralOfOneLib
<1>. QED BY <1>3, <1>4, <1>5, <1>6 DEF Inv

LEMMA NextInv ==
  ASSUME Inv, [Next]_vars
  PROVE  Inv'
<1>1. CASE LoadLibs \/ Parse \/ CheckOptions
  BY <1>1, LoadLibsInv, ParseInv, CheckOptionsInv
<1>2. CASE Start
  BY <1>2, FindInputLibInv, InitLibInv, CreateHandleInv, OptionsParseInv, OpenImageInv,
     SizeImageInv, FindMorphingLibInv, MorphStepsInv, InitCacheInv DEF Start
<1>3. CASE Serve
  BY <1>3, ServeInv
<1>4. CASE FreeResources
  BY <1>4, FreeMorphingInv, CloseImageInv, DestroyHandleInv, DeInitInv, UnloadInputInv
     DEF FreeResources
<1>5. CASE UNCHANGED vars
  BY <1>5 DEF vars, Inv, Types, CursorInv, HandlesInv, OpenedInv, MorphInv, ClosingInv,
              CallInv, SeveralOfOneLib
<1>. QED BY <1>1, <1>2, <1>3, <1>4, <1>5 DEF Next

-----------------------------------------------------------------------------
(* The words that are left                                                 *)

\* What is not yet parsed is the end of the command line.
ArgsInv ==
  /\ Len(args) <= Len(argv)
  /\ \A i \in 1..Len(args) : args[i] = argv[Len(argv) - Len(args) + i]

LEMMA WordsTakenAway ==
  ASSUME Types, ArgsInv, NEW n \in 0..Len(args), UNCHANGED argv,
         Len(args') = Len(args) - n,
         \A i \in 1..Len(args) - n : args'[i] = args[n + i]
  PROVE  ArgsInv'
<1>1. Len(args) \in Nat /\ Len(argv) \in Nat /\ Len(args) <= Len(argv)
  BY LenProperties DEF Types, ArgsInv
<1>2. \A i \in 1..Len(args) - n : args'[i] = argv[Len(argv) - (Len(args) - n) + i]
  <2>1. TAKE i \in 1..Len(args) - n
  <2>2. n + i \in 1..Len(args) /\ args'[i] = args[n + i]
    BY <1>1
  <2>3. args[n + i] = argv[Len(argv) - Len(args) + (n + i)]
    BY <2>2 DEF ArgsInv
  <2>4. Len(argv) - Len(args) + (n + i) = Len(argv) - (Len(args) - n) + i
    BY <1>1
  <2>. QED BY <2>2, <2>3, <2>4
<1>. QED BY <1>1, <1>2 DEF ArgsInv

LEMMA WordsCut ==
  ASSUME Types, NEW n \in 0..Len(args), args' = SubSeq(args, n + 1, Len(args))
  PROVE  /\ Len(args') = Len(args) - n
         /\ \A i \in 1..Len(args) - n : args'[i] = args[n + i]
<1>1. Len(args) \in Nat /\ \A i \in 1..Len(args) : args[i] \in Text
  BY LenProperties, ElementOfSeq DEF Types
<1>2. /\ Len(args') = Len(args) - n
      /\ \A i \in 1..Len(args) - n : args'[i] = args[n + i]
  <2>1. CASE n = Len(args)
    BY <1>1, <2>1, SubSeqProperties
  <2>2. CASE n < Len(args)
    <3>1. /\ Len(SubSeq(args, n + 1, Len(args))) = Len(args) - (n + 1) + 1
          /\ \A i \in 1..Len(args) - (n + 1) + 1 :
               SubSeq(args, n + 1, Len(args))[i] = args[(n + 1) + i - 1]
      BY <1>1, <2>2, SubSeqProperties
    <3>. QED BY <1>1, <3>1
  <2>. QED BY <1>1, <2>1, <2>2
<1>. QED BY <1>2

LEMMA WordsDropped ==
  ASSUME Types, ArgsInv, NEW n \in 0..Len(args),
         args' = SubSeq(args, n + 1, Len(args)), UNCHANGED argv
  PROVE  ArgsInv'
BY WordsCut, WordsTakenAway

LEMMA ParseArgs ==
  ASSUME Types, ArgsInv, Parse
  PROVE  ArgsInv'
<1>1. Len(args) \in Nat /\ UNCHANGED argv /\ (args # <<>> => Len(args) # 0)
  BY LenProperties, EmptySeq
     DEF Types, Parse, ParseFlag, ParseFuseOption, ParseCache, ParseIn, ParseInOpts,
         ParseMorphOpts, ParseMorph, ParseOffset, ParseSizeLimit, ParseOut,
         ParseInfo, ParseUnknown, ParseEnd, UnchangedParse
<1>2. \A n \in 0..Len(args) : Drop(n) => ArgsInv'
  <2>1. \A n \in 0..Len(args) : args' = SubSeq(args, n + 1, Len(args)) => ArgsInv'
    BY <1>1, WordsDropped
  <2>. QED BY <2>1 DEF Drop
<1>3. UNCHANGED args => ArgsInv'
  BY <1>1 DEF ArgsInv
<1>4. CASE ParseFlag
  BY <1>1, <1>2, <1>4 DEF ParseFlag, More, Parsed
<1>5. CASE ParseFuseOption \/ ParseCache \/ ParseInOpts \/ ParseMorphOpts
             \/ ParseMorph \/ ParseOffset \/ ParseSizeLimit \/ ParseOut
  <2>1. UNCHANGED args \/ (Given(1) /\ Drop(2))
    BY <1>5 DEF ParseFuseOption, ParseCache, ParseInOpts, ParseMorphOpts, ParseMorph,
                ParseOffset, ParseSizeLimit, ParseOut, Parsed, Bad
  <2>. QED BY <1>1, <1>2, <1>3, <2>1 DEF Given
<1>6. CASE ParseIn
  <2>1. UNCHANGED args \/ (Given(2) /\ (Drop(2) \/ Drop(2 + FileCount)))
    BY <1>6 DEF ParseIn, Parsed, Bad
  <2>2. Given(2) => FileCount \in Nat /\ FileCount + 2 < Len(args)
    BY FileCounted DEF Given
  <2>. QED BY <1>1, <1>2, <1>3, <2>1, <2>2 DEF Given
<1>7. CASE ParseInfo \/ ParseUnknown
  BY <1>3, <1>7 DEF ParseInfo, ParseUnknown, Bad
<1>8. CASE ParseEnd
  <2>. DEFINE n == Len(args) - 1
  <2>1. UNCHANGED args \/ (n >= 0 /\ Drop(n))
    <3>1. \/ UNCHANGED args
          \/ /\ ~(n < (IF opt.oldIn = None THEN 0 ELSE 1))
             /\ Drop(n)
      BY <1>8 DEF ParseEnd, Bad
    <3>. QED BY <1>1, <3>1
  <2>. QED BY <1>1, <1>2, <1>3, <2>1
<1>. QED BY <1>4, <1>5, <1>6, <1>7, <1>8 DEF Parse

\* The words that are left, read backwards, are how the command line begins
\* when it is read backwards.
LEMMA SuffixOfLine ==
  ASSUME Types, ArgsInv
  PROVE  IsSuffix(args, argv)
<1>. DEFINE n == Len(args)
            r == Reverse(args)
            t == Reverse(argv)
<1>1. /\ n \in Nat /\ Len(argv) \in Nat /\ n <= Len(argv)
      /\ \A i \in 1..n : args[i] \in Text
      /\ \A i \in 1..Len(argv) : argv[i] \in Text
  BY LenProperties, ElementOfSeq DEF Types, ArgsInv
<1>2. /\ r \in Seq(Text) /\ Len(r) = n
      /\ \A i \in 1..n : r[i] = args[(n - i) + 1]
  BY <1>1 DEF Reverse
<1>3. /\ t \in Seq(Text) /\ Len(t) = Len(argv)
      /\ \A i \in 1..Len(argv) : t[i] = argv[(Len(argv) - i) + 1]
  BY <1>1 DEF Reverse
<1>. HIDE DEF r, t
<1>4. \A i \in 1..n : r[i] = t[i]
  <2>1. TAKE i \in 1..n
  <2>2. n - i + 1 \in 1..n /\ Len(argv) - n + (n - i + 1) = Len(argv) - i + 1
    BY <1>1
  <2>3. args[n - i + 1] = argv[Len(argv) - i + 1]
    BY <2>2 DEF ArgsInv
  <2>. QED BY <1>1, <1>2, <1>3, <2>3
<1>5. \A i \in 1..n : r[i] \in Text /\ t[i] \in Text
  BY <1>1, <1>2, <1>3, ElementOfSeq
<1>6. /\ Len(SubSeq(r, 1, n)) = n /\ SubSeq(r, 1, n) \in Seq(Text)
      /\ \A i \in 1..n : SubSeq(r, 1, n)[i] = r[i]
  BY <1>1, <1>2, <1>5, SubSeqProperties
<1>7. /\ Len(SubSeq(t, 1, n)) = n /\ SubSeq(t, 1, n) \in Seq(Text)
      /\ \A i \in 1..n : SubSeq(t, 1, n)[i] = t[i]
  BY <1>1, <1>3, <1>5, SubSeqProperties
<1>8. SubSeq(r, 1, n) = SubSeq(t, 1, n)
  BY <1>4, <1>6, <1>7, SeqEqual
<1>. QED BY <1>1, <1>2, <1>3, <1>8 DEF IsSuffix, IsPrefix, r, t

LEMMA ArgsInvNext ==
  ASSUME Types, ArgsInv, [Next]_vars
  PROVE  ArgsInv'
<1>1. Parse \/ UNCHANGED <<argv, args>>
  BY DEF Next, LoadLibs, CheckOptions, Start, FindInputLib, InitLib, CreateHandle,
         OptionsParse, OpenImage, SizeImage, FindMorphingLib, CreateMorph,
         MorphOptions, Morph, Hash, Names, BuildHeader, InitCache, Serve,
         FreeResources, FreeMorphing, CloseImage, DestroyHandle, DeInit,
         UnloadInput, UnchangedLine, vars
<1>. QED BY <1>1, ParseArgs DEF ArgsInv

-----------------------------------------------------------------------------
(* The headers                                                             *)

LEMMA Division ==
  ASSUME NEW a \in Nat, NEW s \in Nat \ {0}
  PROVE  /\ a \div s \in Nat /\ a % s \in 0..s-1
         /\ a = s * (a \div s) + (a % s)
  OBVIOUS

\* Pieces cover the whole, and none of them is empty.
LEMMA PiecesFit ==
  ASSUME NEW size \in Nat, NEW s \in Nat \ {0}
  PROVE  /\ Pieces(size, s) \in Nat
         /\ Pieces(size, s) * s >= size
         /\ (Pieces(size, s) - 1) * s < size
<1>. DEFINE q == size \div s
            r == size % s
<1>1. q \in Nat /\ r \in 0..s-1 /\ size = s * q + r
  BY Division
<1>2. Pieces(size, s) = IF r # 0 THEN q + 1 ELSE q
  BY <1>1 DEF Pieces
<1>. HIDE DEF q, r
<1>3. (q + 1) * s = s * q + s /\ (q - 1) * s = s * q - s /\ q * s = s * q
  BY <1>1
<1>4. s * q \in Int /\ s \in Int /\ r \in Int /\ s > 0
  BY <1>1
<1>5. CASE r # 0
  <2>1. Pieces(size, s) = q + 1 /\ Pieces(size, s) - 1 = q
    BY <1>1, <1>2, <1>5
  <2>. QED BY <1>1, <1>3, <1>4, <1>5, <2>1
<1>6. CASE r = 0
  <2>1. Pieces(size, s) = q /\ Pieces(size, s) - 1 = q - 1
    BY <1>1, <1>2, <1>6
  <2>. QED BY <1>1, <1>3, <1>4, <1>6, <2>1
<1>. QED BY <1>5, <1>6

\* A number that 32 bits can tell is not cut.
LEMMA Cut32Fits ==
  ASSUME NEW n \in Nat, n < Two32
  PROVE  Cut32(n) = n
<1>1. Two32 \in Nat /\ Two32 > 0
  BY HeaderConstants
<1>. QED BY <1>1 DEF Cut32

\* The block map has an entry for every block as long as it can be counted.
LEMMA VdiFits ==
  ASSUME NEW size \in Nat, VdiCountable(size)
  PROVE  VdiHeaderFits(size, VdiHeader(size))
<1>. DEFINE n == Pieces(size, VdiBlockSize)
<1>1. n \in Nat /\ n * VdiBlockSize >= size /\ (n - 1) * VdiBlockSize < size
  BY PiecesFit, HeaderConstants
<1>2. VdiStructSize \in Nat /\ VdiStructSize + 4 * n < Two32
  BY HeaderConstants DEF VdiCountable
<1>3. /\ BlockEntries(size) = Cut32(n) /\ BlockMapSize(size) = Cut32(4 * BlockEntries(size))
      /\ VirtImageSize("vdi", size) = size + VdiStructSize + BlockMapSize(size)
  BY DEF BlockEntries, BlockMapSize, VirtImageSize
<1>. HIDE DEF n
<1>4. /\ 4 * n \in Nat /\ n < Two32 /\ 4 * n < Two32
      /\ VdiStructSize + 4 * n \in Nat /\ Two32 \in Nat
  BY <1>1, <1>2, HeaderConstants
<1>5. BlockEntries(size) = n /\ BlockMapSize(size) = 4 * n
  BY <1>1, <1>3, <1>4, Cut32Fits
<1>6. Cut32(VdiStructSize + 4 * n) = VdiStructSize + 4 * n
  BY <1>2, <1>4, Cut32Fits
<1>7. VdiHeader(size) = [blocks |-> n, offBlocks |-> VdiStructSize,
                         offData |-> VdiStructSize + 4 * n, cbDisk |-> size]
  BY <1>5, <1>6 DEF VdiHeader
<1>8. VirtImageSize("vdi", size) = VdiStructSize + 4 * n + size
  BY <1>1, <1>2, <1>3, <1>4, <1>5
<1>. QED BY <1>1, <1>7, <1>8 DEF VdiHeaderFits

LEMMA SectorsBounded ==
  ASSUME NEW size \in Nat
  PROVE  Sectors(size) \in Nat /\ Sectors(size) <= MaxSectors
<1>1. CASE size > MaxSectors * SectorSize
  BY <1>1, SMT DEF Sectors, MaxSectors
<1>2. CASE ~(size > MaxSectors * SectorSize)
  <2>. DEFINE p == Pieces(size, SectorSize)
  <2>1. p \in Nat /\ (p - 1) * SectorSize < size
    BY PiecesFit, HeaderConstants
  <2>2. SectorSize \in Nat \ {0} /\ MaxSectors \in Nat /\ size <= MaxSectors * SectorSize
    BY <1>2, HeaderConstants, SMT DEF MaxSectors
  <2>. HIDE DEF p, MaxSectors
  <2>3. p <= MaxSectors
    <3>1. SUFFICES ASSUME p - 1 >= MaxSectors PROVE FALSE
      BY <2>1, <2>2
    <3>2. (p - 1) * SectorSize >= MaxSectors * SectorSize
      BY <2>1, <2>2, <3>1
    <3>3. (p - 1) * SectorSize \in Int /\ MaxSectors * SectorSize \in Int
      BY <2>1, <2>2
    <3>. QED BY <2>1, <2>2, <3>2, <3>3
  <2>. QED BY <1>2, <2>1, <2>2, <2>3 DEF Sectors, p
<1>. QED BY <1>1, <1>2

\* So many cylinders of h heads with s sectors are at most t sectors, and one
\* more would be too much.
LEMMA CylindersFit ==
  ASSUME NEW t \in Nat, NEW h \in Nat \ {0}, NEW s \in Nat \ {0}
  PROVE  LET c == (t \div s) \div h
         IN /\ c \in Nat /\ c * (h * s) <= t /\ t < (c + 1) * (h * s)
<1>. DEFINE q == t \div s
            c == q \div h
<1>1. q \in Nat /\ q * s <= t /\ t < (q + 1) * s
  <2>1. q \in Nat /\ t % s \in 0..s-1 /\ t = s * q + (t % s)
    BY Division
  <2>2. (q + 1) * s = s * q + s /\ q * s = s * q
    BY <2>1
  <2>. QED BY <2>1, <2>2
<1>2. c \in Nat /\ c * h <= q /\ q + 1 <= (c + 1) * h
  <2>1. q \in Nat
    BY <1>1, SMT
  <2>. HIDE DEF q
  <2>2. c \in Nat /\ q % h \in 0..h-1 /\ q = h * c + (q % h)
    BY <2>1, Division
  <2>3. (c + 1) * h = h * c + h /\ c * h = h * c
    BY <2>2
  <2>. QED BY <2>1, <2>2, <2>3
<1>. HIDE DEF q, c
<1>3. (c * h) * s <= q * s /\ (q + 1) * s <= ((c + 1) * h) * s
  <2>1. \A x, y \in Nat : x <= y => x * s <= y * s
    OBVIOUS
  <2>2. c * h \in Nat /\ (c + 1) * h \in Nat /\ q + 1 \in Nat
    BY <1>1, <1>2
  <2>. QED BY <1>1, <1>2, <2>1, <2>2
<1>4. (c * h) * s = c * (h * s) /\ ((c + 1) * h) * s = (c + 1) * (h * s)
  BY <1>2
<1>5. /\ c * (h * s) \in Nat /\ (c + 1) * (h * s) \in Nat
      /\ q * s \in Nat /\ (q + 1) * s \in Nat
  BY <1>1, <1>2
<1>6. c * (h * s) <= t /\ t < (c + 1) * (h * s)
  BY <1>1, <1>3, <1>4, <1>5
<1>. QED BY <1>2, <1>6 DEF q, c

LEMMA ValidGeometry ==
  ASSUME NEW g, g.c \in Nat, g.c <= 65535, g.h \in 4..16, g.s \in {17, 31, 63, 255}
  PROVE  GeometryValid(g)
BY DEF GeometryValid

\* Nothing is cut off a number of cylinders that fits 16 bits.
LEMMA NothingCutOff ==
  ASSUME NEW size, NEW c \in Nat, c <= 65535, NEW h \in 4..16, NEW s \in {17, 31, 63, 255},
         c * (h * s) <= Sectors(size), Sectors(size) < (c + 1) * (h * s)
  PROVE  GeometryFits(size, Geometry(c, h, s))
<1>. DEFINE g == Geometry(c, h, s)
<1>1. c % 65536 = c
  OBVIOUS
<1>2. g.c = c /\ g.h = h /\ g.s = s
  BY <1>1 DEF Geometry, Short
<1>. HIDE DEF g
<1>3. GeometryValid(g)
  BY <1>2, ValidGeometry
<1>4. GeometryFits(size, g)
  BY <1>2, <1>3 DEF GeometryFits
<1>. QED BY <1>4 DEF g

LEMMA GeometryIsFit ==
  ASSUME NEW size \in Nat, NEW h \in 4..16, NEW s \in {17, 31, 63, 255},
         (Sectors(size) \div s) \div h <= 65535
  PROVE  GeometryFits(size, Geometry((Sectors(size) \div s) \div h, h, s))
<1>. DEFINE t == Sectors(size)
            c == (t \div s) \div h
<1>1. t \in Nat
  BY SectorsBounded, SMT DEF MaxSectors
<1>2. c * (h * s) <= t /\ t < (c + 1) * (h * s)
  BY <1>1, CylindersFit
<1>3. c \in Nat /\ c <= 65535
  BY <1>1, CylindersFit
<1>. HIDE DEF c
<1>4. GeometryFits(size, Geometry(c, h, s))
  BY <1>2, <1>3, NothingCutOff
<1>. QED BY <1>4 DEF c

LEMMA QuotientBounded ==
  ASSUME NEW q \in Nat, NEW h \in 4..16, q < h * 1024
  PROVE  q \div h < 1024
<1>. DEFINE c == q \div h
<1>1. h \in Nat \ {0}
  OBVIOUS
<1>2. c \in Nat /\ q % h \in 0..h-1 /\ q = h * c + (q % h)
  BY <1>1, Division
<1>. HIDE DEF c
<1>3. SUFFICES ASSUME c >= 1024 PROVE FALSE
  BY <1>2 DEF c
<1>4. h * c >= h * 1024 /\ h * c \in Nat
  BY <1>1, <1>2, <1>3
<1>. QED BY <1>1, <1>2, <1>4

LEMMA VhdFits ==
  ASSUME NEW size \in Nat
  PROVE  GeometryFits(size, VhdGeometry(size))
<1>. DEFINE t == Sectors(size)
            q == t \div 17
            h == Heads17(q)
<1>1. t \in Nat /\ t <= 267382800
  BY SectorsBounded, SMT DEF MaxSectors
<1>2. CASE t >= 66059280
  <2>1. (t \div 255) \div 16 <= 65535
    BY <1>1, SMT
  <2>2. VhdGeometry(size) = Geometry((t \div 255) \div 16, 16, 255)
    BY <1>2, SMT DEF VhdGeometry
  <2>. QED BY <2>1, <2>2, GeometryIsFit
<1>3. CASE t < 66059280 /\ Geometry17Fits(q, h)
  <2>1. VhdGeometry(size) = Geometry(q \div h, h, 17)
    BY <1>1, <1>3, SMT DEF VhdGeometry
  <2>2. q \in Nat
    BY <1>1, SMT
  <2>3. h \in 4..16 /\ q < h * 1024
    <3>. DEFINE b == Byte((q + 1023) \div 1024)
    <3>1. b \in Nat
      BY <2>2 DEF Byte
    <3>2. h = IF b < 4 THEN 4 ELSE b
      BY DEF Heads17
    <3>. HIDE DEF b
    <3>3. h \in Nat /\ h >= 4
      BY <3>1, <3>2
    <3>. QED BY <1>3, <2>2, <3>3, SMT DEF Geometry17Fits
  <2>4. q \div h <= 65535
    BY <2>2, <2>3, QuotientBounded, SMT
  <2>. QED BY <2>1, <2>3, <2>4, GeometryIsFit
<1>4. CASE t < 66059280 /\ ~Geometry17Fits(q, h) /\ t \div 31 < 16 * 1024
  <2>1. (t \div 31) \div 16 <= 65535
    BY <1>1, <1>4, SMT
  <2>2. VhdGeometry(size) = Geometry((t \div 31) \div 16, 16, 31)
    BY <1>1, <1>4, SMT DEF VhdGeometry
  <2>. QED BY <2>1, <2>2, GeometryIsFit
<1>5. CASE t < 66059280 /\ ~Geometry17Fits(q, h) /\ ~(t \div 31 < 16 * 1024)
  <2>1. (t \div 63) \div 16 <= 65535
    BY <1>1, <1>5, SMT
  <2>2. VhdGeometry(size) = Geometry((t \div 63) \div 16, 16, 63)
    BY <1>1, <1>5, SMT DEF VhdGeometry
  <2>. QED BY <2>1, <2>2, GeometryIsFit
<1>. QED BY <1>1, <1>2, <1>3, <1>4, <1>5, SMT

\* What is served is still the header that was built for it.
OutInv ==
  /\ DOMAIN out = {"names", "header", "cache"}
  /\ pc \in {"cache", "serve"} => out.header = Header(opt.out)

LEMMA OutInvNext ==
  ASSUME OutInv, [Next]_vars
  PROVE  OutInv'
<1>1. CASE BuildHeader
  <2>1. UNCHANGED <<opt, img>>
    BY <1>1 DEF BuildHeader, UnchangedLine, UnchangedImages
  <2>2. Header(opt.out)' = Header(opt.out)
    BY <2>1 DEF Header, Size
  <2>3. \/ out' = [out EXCEPT !.header = Header(opt.out)]
        \/ pc' = "free" /\ UNCHANGED out
    BY <1>1 DEF BuildHeader, Fail, Goto
  <2>. HIDE DEF Header
  <2>. QED BY <2>2, <2>3 DEF OutInv
<1>2. CASE InitCache \/ Serve \/ UNCHANGED vars
  <2>1. /\ UNCHANGED <<opt, img>> /\ (pc' \in {"cache", "serve"} => pc \in {"cache", "serve"})
        /\ UNCHANGED out \/ \E c \in {"open", "closed"} : out' = [out EXCEPT !.cache = c]
    BY <1>2 DEF InitCache, Serve, Fail, Goto, UnchangedLine, UnchangedImages, vars
  <2>2. Header(opt.out)' = Header(opt.out)
    BY <2>1 DEF Header, Size
  <2>. QED BY <2>1, <2>2 DEF OutInv
<1>3. CASE LoadLibs \/ Parse \/ CheckOptions
  <2>1. UNCHANGED out /\ pc' \notin {"cache", "serve"}
    BY <1>3 DEF LoadLibs, CheckOptions, Parse, ParseFlag, ParseFuseOption, ParseCache, ParseIn,
         ParseInOpts, ParseMorphOpts, ParseMorph, ParseOffset, ParseSizeLimit,
         ParseOut, ParseInfo, ParseUnknown, ParseEnd, More, Parsed, Bad, Fail, Goto,
         UnchangedParse, UnchangedRun
  <2>. QED BY <2>1 DEF OutInv
<1>4. CASE FindInputLib \/ InitLib \/ CreateHandle \/ OptionsParse \/ OpenImage \/ SizeImage
  <2>1. UNCHANGED out /\ pc' \notin {"cache", "serve"}
    BY <1>4 DEF FindInputLib, InitLib, CreateHandle, OptionsParse, OpenImage, SizeImage,
         Fail, Goto
  <2>. QED BY <2>1 DEF OutInv
<1>5. CASE FindMorphingLib \/ CreateMorph \/ MorphOptions \/ Morph \/ Hash \/ Names
  <2>1. /\ pc' \notin {"cache", "serve"}
        /\ UNCHANGED out \/ \E n : out' = [out EXCEPT !.names = n]
    BY <1>5 DEF FindMorphingLib, CreateMorph, MorphOptions, Morph, Hash, Names, Fail, Goto
  <2>. QED BY <2>1 DEF OutInv
<1>6. CASE FreeResources
  <2>1. pc' \notin {"cache", "serve"} /\ (UNCHANGED out \/ out' = NoOut)
    BY <1>6 DEF FreeResources, FreeMorphing, CloseImage, DestroyHandle, DeInit,
         UnloadInput, At, Goto
  <2>. QED BY <2>1 DEF OutInv, NoOut
<1>. QED BY <1>1, <1>2, <1>3, <1>4, <1>5, <1>6 DEF Next, Start

-----------------------------------------------------------------------------
(* What was asked for                                                      *)

\* The word that is parsed next.
Place == Len(argv) - Len(args) + 1

\* The options that are parsed are at the places in v: they were found at the
\* places where options stand, and the next word may be there too.
ParsedPlaces(v) ==
  /\ v \subseteq OptionPlaces(argv) /\ \A i \in v : i < Place
  /\ Place \in Dashes(argv) => Place \in OptionPlaces(argv)
  /\ 1 \in v \cup {Place}
  /\ \A i \in v : Follow(argv, i) \in v \cup {Place}
  /\ Place \in {1} \cup {Follow(argv, i) : i \in v}

\* The images of these options, that of the old syntax with the files it will
\* have been given in the end.
ParsedImages(files) ==
  IF opt.oldIn = None THEN opt.images
  ELSE Append(opt.images, [type |-> opt.oldIn, files |-> files])

ParsedInv == pc \in {"load", "parse"} =>
  \E v \in SUBSET Dashes(argv) :
    /\ ParsedPlaces(v) /\ AsksFor(argv, v, opt)
    /\ \A files \in Seq(Text) : ImagesGiven(argv, v, ParsedImages(files), files)

\* Image i belongs to the library for its type, and the part of it that is
\* served lies inside it.
OfItsType(i) == img[i].lib = LibOf[opt.images[i].type]
AsTold(i) == OfItsType(i) /\ opt.offset + img[i].size <= img[i].full

\* What was asked for is asked of every step of the start, and what the steps
\* before have made of it is still there.
AskedInv ==
  /\ pc \in {"check"} \cup Opening \cup AllOpen =>
       /\ AsksFor(argv, OptionPlaces(argv), opt)
       /\ ImagesAsked(argv, OptionPlaces(argv), opt.images)
  /\ pc \in Opening \cup AllOpen => Len(img) = Len(opt.images)
  /\ pc \in Opening => \A i \in 1..cur-1 : AsTold(i)
  /\ pc \in Opening \ {"find"} => OfItsType(cur)
  /\ pc \in AllOpen => \A i \in 1..Len(img) : AsTold(i)
  /\ pc \in {"names", "header", "cache", "serve"} => Size # 0
  /\ pc \in {"hash", "names", "header", "cache", "serve"} => morph.handle = "open"
  /\ pc \in Early \cup Opening \cup (AllOpen \ {"serve"}) => out.cache = "closed"
  /\ pc = "cache" => opt.cache # None
  /\ pc = "serve" => (out.cache = "open" <=> opt.cache # None)

\* A command line stays what it was.
LineInv == argv \in CmdLines

\* The words that are left begin at the place of the next word.
LEMMA NextPlace ==
  ASSUME Types, ArgsInv
  PROVE  /\ Place \in Nat \ {0} /\ Len(args) \in Nat /\ Len(argv) \in Nat
         /\ Place + Len(args) = Len(argv) + 1
         /\ \A i \in 1..Len(args) : args[i] = argv[Place + i - 1]
<1>1. Len(args) \in Nat /\ Len(argv) \in Nat /\ Len(args) <= Len(argv)
  BY LenProperties DEF Types, ArgsInv
<1>2. Place = Len(argv) - Len(args) + 1
  BY DEF Place
<1>3. \A i \in 1..Len(args) : args[i] = argv[Place + i - 1]
  <2>1. TAKE i \in 1..Len(args)
  <2>2. Len(argv) - Len(args) + i = Place + i - 1
    BY <1>1, <1>2
  <2>. QED BY <2>2 DEF ArgsInv
<1>. QED BY <1>1, <1>2, <1>3

\* There is an option to parse exactly if the next word begins with a dash.
LEMMA DashAtPlace ==
  ASSUME Types, ArgsInv
  PROVE  /\ (args # <<>> /\ Head(args) \in Dashed) <=> Place \in Dashes(argv)
         /\ args # <<>> => Head(args) = argv[Place]
         /\ Len(args) > 1 => args[2] = argv[Place + 1]
<1>1. /\ Place \in Nat \ {0} /\ Len(args) \in Nat /\ Len(argv) \in Nat
      /\ Place + Len(args) = Len(argv) + 1
      /\ \A i \in 1..Len(args) : args[i] = argv[Place + i - 1]
  BY NextPlace
<1>2. args # <<>> <=> Len(args) # 0
  BY LenProperties, EmptySeq DEF Types
<1>3. args # <<>> => Head(args) = args[1]
  BY HeadTailProperties DEF Types
<1>4. Len(args) # 0 => args[1] = argv[Place] /\ Place \in 1..Len(argv)
  <2>. SUFFICES ASSUME Len(args) # 0 PROVE args[1] = argv[Place] /\ Place \in 1..Len(argv)
    OBVIOUS
  <2>1. 1 \in 1..Len(args) /\ Place + 1 - 1 = Place
    BY <1>1
  <2>. QED BY <1>1, <2>1
<1>5. Len(args) = 0 => Place \notin 1..Len(argv)
  BY <1>1
<1>6. Len(args) > 1 => args[2] = argv[Place + 1]
  <2>1. Place + 2 - 1 = Place + 1
    BY <1>1
  <2>2. Len(args) > 1 => 2 \in 1..Len(args)
    BY <1>1
  <2>. QED BY <1>1, <2>1, <2>2
<1>7. Len(args) = 0 => Place \notin Dashes(argv)
  BY <1>5 DEF Dashes
<1>8. Len(args) # 0 => (Place \in Dashes(argv) <=> argv[Place] \in Dashed)
  BY <1>4 DEF Dashes
<1>. QED BY <1>2, <1>3, <1>4, <1>6, <1>7, <1>8

\* What --in takes is what follows it up to the next long option or the mount
\* point.
LEMMA FilesFollow ==
  ASSUME Types, ArgsInv, Len(args) > 2, Head(args) = "--in"
  PROVE  /\ FileCount \in Nat /\ 2 + FileCount < Len(args)
         /\ Follow(argv, Place) = Place + (2 + FileCount)
<1>. DEFINE ends == {i \in 3..Len(args) : args[i] \in LongOptions \/ i = Len(args)}
            least == CHOOSE i \in ends : \A j \in ends : i <= j
            there == FileEnds(argv, Place)
<1>1. /\ Place \in Nat \ {0} /\ Len(args) \in Nat /\ Len(argv) \in Nat
      /\ Place + Len(args) = Len(argv) + 1
      /\ \A i \in 1..Len(args) : args[i] = argv[Place + i - 1]
  BY NextPlace
<1>2. FileCount \in Nat /\ 2 + FileCount < Len(args)
  BY <1>1, FileCounted
<1>3. FileCount = least - 3
  BY DEF FileCount
<1>4. Len(args) \in ends /\ ends \subseteq Nat
  BY <1>1
<1>5. \E i \in ends : \A j \in ends : i <= j
  <2>. HIDE DEF ends
  <2>. QED BY <1>4, LeastNumber
<1>6. least \in ends /\ \A j \in ends : least <= j
  <2>. HIDE DEF ends
  <2>. QED BY <1>5
<1>7. \A i \in Int : i \in ends <=> Place + i - 1 \in there
  <2>. SUFFICES ASSUME NEW i \in Int PROVE i \in ends <=> Place + i - 1 \in there
    OBVIOUS
  <2>. HIDE DEF ends, there
  <2>0. PICK m \in Nat, n \in Nat, k \in Nat :
          m = Len(args) /\ n = Len(argv) /\ k = Place /\ k + m = n + 1
    BY <1>1
  <2>1. i \in 3..m <=> k + i - 1 \in k+2..n
    BY <2>0
  <2>2. i \in 3..Len(args) => args[i] = argv[Place + i - 1]
    <3>1. i \in 3..m => i \in 1..m
      BY <2>0
    <3>. QED BY <1>1, <2>0, <3>1
  <2>3. i = m <=> k + i - 1 = n
    BY <2>0
  <2>4. i \in ends <=> i \in 3..Len(args) /\ (args[i] \in LongOptions \/ i = Len(args))
    BY DEF ends
  <2>5. Place + i - 1 \in there
          <=> /\ Place + i - 1 \in Place+2..Len(argv)
              /\ argv[Place + i - 1] \in LongOptions \/ Place + i - 1 = Len(argv)
    BY DEF FileEnds, there
  <2>. QED BY <2>0, <2>1, <2>2, <2>3, <2>4, <2>5
<1>8. there \subseteq Int
  BY <1>1 DEF FileEnds
<1>. HIDE DEF ends, least, there
<1>9. PICK k \in Int : k = Place + least - 1 /\ k \in there
  BY <1>1, <1>4, <1>6, <1>7
<1>10. \A j \in there : k <= j
  <2>. SUFFICES ASSUME NEW j \in there PROVE k <= j
    OBVIOUS
  <2>1. j \in Int /\ j - Place + 1 \in Int /\ Place + (j - Place + 1) - 1 = j
    BY <1>1, <1>8
  <2>2. j - Place + 1 \in ends
    BY <1>7, <2>1
  <2>3. least <= j - Place + 1 /\ least \in Nat
    BY <1>4, <1>6, <2>2
  <2>. QED BY <1>1, <1>9, <2>1, <2>3
<1>11. \A i \in there : (\A j \in there : i <= j) => i = k
  BY <1>8, <1>9, <1>10
<1>12. (CHOOSE i \in there : \A j \in there : i <= j) = k
  BY <1>9, <1>10, <1>11
<1>13. Follow(argv, Place) = k
  <2>1. args # <<>>
    BY <1>1, EmptySeq
  <2>2. argv[Place] = "--in" /\ argv[Place] \notin Flags
    BY <2>1, DashAtPlace DEF Flags
  <2>3. Place + 2 <= Len(argv)
    BY <1>1
  <2>. QED BY <1>12, <2>2, <2>3 DEF Follow, there
<1>14. least \in Nat
  BY <1>4, <1>6
<1>. QED BY <1>1, <1>2, <1>3, <1>9, <1>13, <1>14

-----------------------------------------------------------------------------
(* Options one by one                                                      *)

\* When the option at place p is one more of those that are parsed: one in the
\* set was asked for if one was before or this is one, and then it is the last.
OneMore(line, v, p, options) ==
  /\ Asked(line, v \cup {p}, options) <=> (Asked(line, v, options) \/ line[p] \in options)
  /\ line[p] \in options => LastGiven(line, v \cup {p}, options) = {line[p + 1]}
  /\ line[p] \notin options =>
       LastGiven(line, v \cup {p}, options) = LastGiven(line, v, options)

LEMMA AskedMore ==
  ASSUME NEW line, NEW v, v \subseteq Nat, NEW p \in Nat, \A i \in v : i < p, NEW options
  PROVE  OneMore(line, v, p, options)
<1>. DEFINE w == v \cup {p}
            last(s) == {i \in s : line[i] \in options /\ \A j \in s : line[j] \in options => j <= i}
<1>1. Asked(line, w, options) <=> (Asked(line, v, options) \/ line[p] \in options)
  BY DEF Asked
<1>2. line[p] \in options => last(w) = {p}
  <2>. SUFFICES ASSUME line[p] \in options PROVE last(w) = {p}
    OBVIOUS
  <2>1. p \in last(w)
    OBVIOUS
  <2>2. ASSUME NEW i \in last(w) PROVE i = p
    <3>1. p <= i /\ i \in w
      OBVIOUS
    <3>. QED BY <3>1
  <2>. HIDE DEF last
  <2>. QED BY <2>1, <2>2
<1>3. line[p] \notin options => last(w) = last(v)
  <2>. SUFFICES ASSUME line[p] \notin options PROVE last(w) = last(v)
    OBVIOUS
  <2>1. \A i \in w : line[i] \in options => i \in v
    OBVIOUS
  <2>. QED BY <2>1
<1>4. \A s : LastGiven(line, s, options) = {line[i + 1] : i \in last(s)}
  BY DEF LastGiven
<1>5. LastGiven(line, w, options) = {line[i + 1] : i \in last(w)}
      /\ LastGiven(line, v, options) = {line[i + 1] : i \in last(v)}
  BY <1>4
<1>6. line[p] \in options => LastGiven(line, w, options) = {line[p + 1]}
  <2>1. ASSUME last(w) = {p} PROVE {line[i + 1] : i \in last(w)} = {line[p + 1]}
    <3>. HIDE DEF last
    <3>. QED BY <2>1
  <2>. HIDE DEF last
  <2>. QED BY <1>2, <1>5, <2>1
<1>. HIDE DEF last
<1>. QED BY <1>1, <1>3, <1>5, <1>6 DEF OneMore

\* A number is the parameter of the last option that gives it.
LEMMA NumberMore ==
  ASSUME NEW line, NEW v, v \subseteq Nat, NEW p \in Nat, \A i \in v : i < p, NEW option,
         NEW n, NEW m, NumberGiven(line, v, option, n),
         m = IF line[p] = option THEN Number[line[p + 1]] ELSE n
  PROVE  NumberGiven(line, v \cup {p}, option, m)
<1>1. OneMore(line, v, p, {option})
  BY AskedMore
<1>2. CASE line[p] = option
  <2>1. Asked(line, v \cup {p}, {option}) /\ m = Number[line[p + 1]]
    BY <1>1, <1>2 DEF OneMore
  <2>2. line[p + 1] \in LastGiven(line, v \cup {p}, {option})
    BY <1>1, <1>2 DEF OneMore
  <2>. QED BY <2>1, <2>2 DEF NumberGiven
<1>3. CASE line[p] # option
  <2>1. Asked(line, v \cup {p}, {option}) <=> Asked(line, v, {option})
    BY <1>1, <1>3 DEF OneMore
  <2>2. LastGiven(line, v \cup {p}, {option}) = LastGiven(line, v, {option}) /\ m = n
    BY <1>1, <1>3 DEF OneMore
  <2>. QED BY <2>1, <2>2 DEF NumberGiven
<1>. QED BY <1>2, <1>3

\* The option at place p makes o of what the options before it asked for.
OptionSets(line, p, before, o) ==
  /\ o.cache = IF line[p] \in CacheOptions THEN line[p + 1] ELSE before.cache
  /\ line[p] \in CacheOptions => o.cache # None
  /\ o.writable <=> (before.writable \/ line[p] \in {"--cache", "--owcache"})
  /\ o.overwrite <=> (before.overwrite \/ line[p] \in {"--owcache"})
  /\ o.offset = IF line[p] = "--offset" THEN Number[line[p + 1]] ELSE before.offset
  /\ o.limit = IF line[p] = "--sizelimit" THEN Number[line[p + 1]] ELSE before.limit

LEMMA AsksForMore ==
  ASSUME NEW line, NEW v, v \subseteq Nat, NEW p \in Nat, \A i \in v : i < p,
         NEW before, NEW o, AsksFor(line, v, before), OptionSets(line, p, before, o)
  PROVE  AsksFor(line, v \cup {p}, o)
<1>1. /\ o.cache # None <=> Asked(line, v \cup {p}, CacheOptions)
      /\ o.cache # None => o.cache \in LastGiven(line, v \cup {p}, CacheOptions)
  <2>1. OneMore(line, v, p, CacheOptions)
    BY AskedMore
  <2>. QED BY <2>1 DEF OneMore, AsksFor, OptionSets
<1>2. o.writable <=> Asked(line, v \cup {p}, {"--cache", "--owcache"})
  <2>1. OneMore(line, v, p, {"--cache", "--owcache"})
    BY AskedMore
  <2>. QED BY <2>1 DEF OneMore, AsksFor, OptionSets
<1>3. o.overwrite <=> Asked(line, v \cup {p}, {"--owcache"})
  <2>1. OneMore(line, v, p, {"--owcache"})
    BY AskedMore
  <2>. QED BY <2>1 DEF OneMore, AsksFor, OptionSets
<1>4. NumberGiven(line, v \cup {p}, "--offset", o.offset)
  BY NumberMore DEF AsksFor, OptionSets
<1>5. NumberGiven(line, v \cup {p}, "--sizelimit", o.limit)
  BY NumberMore DEF AsksFor, OptionSets
<1>. QED BY <1>1, <1>2, <1>3, <1>4, <1>5 DEF AsksFor

\* An --in is one image more, any other option is none.
LEMMA ImagesAskedMore ==
  ASSUME NEW line, NEW v, IsFiniteSet(v), v \subseteq Nat, NEW p \in Nat, \A i \in v : i < p,
         line[p] = "--in", NEW images \in Seq(ImageSpec), NEW late, ImagesGiven(line, v, images, late),
         NEW image \in ImageSpec, ImageAsked(line, p, image, late)
  PROVE  ImagesGiven(line, v \cup {p}, Append(images, image), late)
<1>. DEFINE ins == Ins(line, v)
            more == ins \cup {p}
<1>1. IsFiniteSet(ins) /\ ins \subseteq v /\ p \notin ins
  BY FS_Subset DEF Ins
<1>2. Ins(line, v \cup {p}) = more
  BY DEF Ins
<1>3. /\ Len(images) \in Nat /\ Len(images) = Cardinality(ins)
      /\ \A i \in ins : ImageAsked(line, i, images[Cardinality({j \in ins : j <= i})], late)
  BY LenProperties DEF ImagesGiven
<1>. HIDE DEF ins
<1>4. Cardinality(more) = Len(images) + 1
  BY <1>1, <1>3, FS_AddElement
<1>5. /\ Len(Append(images, image)) = Len(images) + 1
      /\ Append(images, image)[Len(images) + 1] = image
      /\ \A k \in 1..Len(images) : Append(images, image)[k] = images[k]
  BY <1>3, AppendProperties
<1>6. ImageAsked(line, p, Append(images, image)[Cardinality({j \in more : j <= p})], late)
  <2>1. {j \in more : j <= p} = more
    <3>1. \A j \in ins : j \in Nat /\ j < p
      BY <1>1
    <3>2. \A j \in more : j <= p
      BY <3>1
    <3>. HIDE DEF more
    <3>. QED BY <3>2
  <2>2. Cardinality({j \in more : j <= p}) = Len(images) + 1
    BY <1>4, <2>1
  <2>3. Append(images, image)[Cardinality({j \in more : j <= p})] = image
    BY <1>5, <2>2
  <2>. QED BY <2>3
<1>7. ASSUME NEW i \in ins
      PROVE  ImageAsked(line, i, Append(images, image)[Cardinality({j \in more : j <= i})], late)
  <2>. DEFINE upto == {j \in ins : j <= i}
  <2>1. {j \in more : j <= i} = upto
    BY <1>1
  <2>2. upto \subseteq ins /\ i \in upto
    BY <1>1
  <2>. HIDE DEF upto
  <2>3. /\ IsFiniteSet(upto) /\ Cardinality(upto) \in Nat
        /\ Cardinality(upto) <= Cardinality(ins) /\ Cardinality(upto) # 0
    BY <1>1, <2>2, FS_Subset, FS_EmptySet, FS_CardinalityType
  <2>4. Cardinality(upto) \in 1..Len(images)
    BY <1>3, <2>3
  <2>5. ImageAsked(line, i, images[Cardinality(upto)], late)
    BY <1>3 DEF upto
  <2>. QED BY <1>5, <2>1, <2>4, <2>5
<1>. QED BY <1>2, <1>4, <1>5, <1>6, <1>7 DEF ImagesGiven

LEMMA NoImageMore ==
  ASSUME NEW line, NEW v, NEW p, line[p] # "--in", NEW images, NEW late,
         ImagesGiven(line, v, images, late)
  PROVE  ImagesGiven(line, v \cup {p}, images, late)
<1>1. Ins(line, v \cup {p}) = Ins(line, v)
  BY DEF Ins
<1>. QED BY <1>1 DEF ImagesGiven

-----------------------------------------------------------------------------
(* The command line is parsed                                              *)

\* After an option stands the next one, if anything with a dash does.
LEMMA PlacesMore ==
  ASSUME Types, ArgsInv, UNCHANGED argv, NEW n \in 1..Len(args), Drop(n),
         Place \in Dashes(argv), Follow(argv, Place) = Place + n,
         NEW v, ParsedPlaces(v), NEW w, w = v \cup {Place}
  PROVE  ParsedPlaces(w)' /\ Place' = Place + n /\ ArgsInv'
<1>1. Place \in Nat \ {0} /\ Len(args) \in Nat /\ Len(argv) \in Nat
  BY NextPlace
<1>2. Len(args') = Len(args) - n /\ ArgsInv'
  <2>1. args' = SubSeq(args, n + 1, Len(args)) /\ n \in 0..Len(args)
    BY <1>1 DEF Drop
  <2>. QED BY <2>1, WordsCut, WordsDropped
<1>3. Place' = Place + n
  <2>1. Place = Len(argv) - Len(args) + 1 /\ Place' = Len(argv) - (Len(args) - n) + 1
    BY <1>2 DEF Place
  <2>. QED BY <1>1, <2>1
<1>4. /\ v \subseteq OptionPlaces(argv) /\ \A i \in v : i < Place
      /\ Place \in OptionPlaces(argv)
      /\ 1 \in w
      /\ \A i \in v : Follow(argv, i) \in w
  BY DEF ParsedPlaces
<1>5. OptionPlaces(argv) \subseteq Nat
  BY DEF OptionPlaces, Dashes
<1>6. w \subseteq OptionPlaces(argv) /\ \A i \in w : i < Place + n
  <2>1. v \subseteq Nat
    BY <1>4, <1>5
  <2>. QED BY <1>1, <1>4, <2>1
<1>7. Place + n \in Dashes(argv) => Place + n \in OptionPlaces(argv)
  <2>1. ASSUME Place + n \in Dashes(argv), NEW s \in SUBSET Dashes(argv),
               ClosedPlaces(argv, s)
        PROVE  Place + n \in s
    <3>1. Place \in s
      BY <1>4, <2>1 DEF OptionPlaces
    <3>. QED BY <2>1, <3>1 DEF ClosedPlaces
  <2>. QED BY <2>1 DEF OptionPlaces
<1>8. \A i \in w : Follow(argv, i) \in w \cup {Place + n}
  BY <1>4
<1>9. Place + n \in {Follow(argv, i) : i \in w}
  <2>1. Place \in w
    OBVIOUS
  <2>. QED BY <2>1
<1>. QED BY <1>2, <1>3, <1>4, <1>6, <1>7, <1>8, <1>9 DEF ParsedPlaces

\* What the option at the next place makes of the images: an --in adds one.
ImagesSet ==
  IF argv[Place] = "--in"
  THEN \A files \in Seq(Text) : \E image \in ImageSpec :
         /\ ImageAsked(argv, Place, image, files)
         /\ ParsedImages(files)' = Append(ParsedImages(files), image)
  ELSE UNCHANGED <<opt.images, opt.oldIn>>

LEMMA ImagesTyped ==
  ASSUME Types, NEW files \in Seq(Text)
  PROVE  ParsedImages(files) \in Seq(ImageSpec)
<1>1. opt.images \in Seq(ImageSpec) /\ opt.oldIn \in Text
  BY DEF Types, OptionRecord
<1>2. [type |-> opt.oldIn, files |-> files] \in ImageSpec
  BY <1>1 DEF ImageSpec
<1>. QED BY <1>1, <1>2, AppendProperties DEF ParsedImages

\* An option with its parameters is parsed and does what it asks for.
LEMMA OptionParsed ==
  ASSUME Types, ArgsInv, ParsedInv, pc = "parse", UNCHANGED argv,
         NEW n \in 1..Len(args), Drop(n),
         Place \in Dashes(argv), Follow(argv, Place) = Place + n,
         OptionSets(argv, Place, opt, opt'), ImagesSet
  PROVE  ParsedInv'
<1>1. PICK v \in SUBSET Dashes(argv) :
        /\ ParsedPlaces(v) /\ AsksFor(argv, v, opt)
        /\ \A files \in Seq(Text) : ImagesGiven(argv, v, ParsedImages(files), files)
  BY DEF ParsedInv
<1>2. PICK w : w = v \cup {Place}
  OBVIOUS
<1>3. ParsedPlaces(w)'
  BY <1>1, <1>2, PlacesMore
<1>4. Place \in Nat /\ v \subseteq Nat /\ \A i \in v : i < Place
  BY <1>1, NextPlace DEF ParsedPlaces, Dashes
<1>5. AsksFor(argv, w, opt')
  BY <1>1, <1>2, <1>4, AsksForMore
<1>6. IsFiniteSet(v)
  <2>1. v \subseteq 1..Len(argv)
    BY <1>1 DEF Dashes
  <2>2. Len(argv) \in Nat
    BY NextPlace
  <2>3. IsFiniteSet(1..Len(argv))
    BY <2>2, FS_Interval
  <2>. QED BY <2>1, <2>3, FS_Subset
<1>7. ASSUME NEW files \in Seq(Text) PROVE ImagesGiven(argv, w, ParsedImages(files)', files)
  <2>1. ImagesGiven(argv, v, ParsedImages(files), files) /\ ParsedImages(files) \in Seq(ImageSpec)
    BY <1>1, ImagesTyped
  <2>2. CASE argv[Place] = "--in"
    <3>1. PICK image \in ImageSpec :
            /\ ImageAsked(argv, Place, image, files)
            /\ ParsedImages(files)' = Append(ParsedImages(files), image)
      BY <2>2 DEF ImagesSet
    <3>2. PICK images \in Seq(ImageSpec) : images = ParsedImages(files)
      BY <2>1
    <3>3. ImagesGiven(argv, v, images, files)
      BY <2>1, <3>2
    <3>4. ImagesGiven(argv, v \cup {Place}, Append(images, image), files)
      BY <1>4, <1>6, <2>2, <3>1, <3>3, ImagesAskedMore
    <3>. QED BY <1>2, <3>1, <3>2, <3>4
  <2>3. CASE argv[Place] # "--in"
    <3>1. ParsedImages(files)' = ParsedImages(files)
      BY <2>3 DEF ImagesSet, ParsedImages
    <3>. QED BY <1>2, <2>1, <2>3, <3>1, NoImageMore
  <2>. QED BY <2>2, <2>3
<1>8. w \in SUBSET Dashes(argv)
  BY <1>2
<1>. QED BY <1>3, <1>5, <1>7, <1>8 DEF ParsedInv

\* An option with one parameter that says nothing about the images.
LEMMA ParameterParsed ==
  ASSUME Types, ArgsInv, ParsedInv, More, UNCHANGED argv, Given(1), Drop(2),
         Word \notin Flags \cup {"--in"}, OptionSets(argv, Place, opt, opt'),
         opt'.images = opt.images, opt'.oldIn = opt.oldIn
  PROVE  ParsedInv'
<1>1. Place \in Dashes(argv) /\ Word = argv[Place] /\ pc = "parse"
  BY DashAtPlace DEF More, Word
<1>2. Len(args) \in Nat /\ 2 \in 1..Len(args)
  BY NextPlace DEF Given
<1>3. Follow(argv, Place) = Place + 2
  BY <1>1 DEF Follow
<1>4. ImagesSet
  BY <1>1 DEF ImagesSet
<1>. QED BY <1>1, <1>2, <1>3, <1>4, OptionParsed

\* A word of the command line is not None.
LEMMA ParamGiven ==
  ASSUME Types, ArgsInv, LineInv, Given(1)
  PROVE  Param = argv[Place + 1] /\ Param # None
<1>1. /\ Place \in Nat \ {0} /\ Len(args) \in Nat /\ Len(argv) \in Nat
      /\ Place + Len(args) = Len(argv) + 1
  BY NextPlace
<1>2. Len(args) > 1
  BY DEF Given
<1>3. Param = argv[Place + 1]
  BY <1>2, DashAtPlace DEF Param
<1>4. Place + 1 \in 1..Len(argv)
  BY <1>1, <1>2
<1>. QED BY <1>3, <1>4, SessionConstants DEF LineInv

LEMMA ParseFlagAsked ==
  ASSUME Types, ArgsInv, ParsedInv, ParseFlag
  PROVE  ParsedInv'
<1>1. /\ More /\ Word \in Flags /\ UNCHANGED argv /\ Drop(1)
      /\ opt' = [opt EXCEPT !.fuse = opt.fuse \cup {Word}]
  BY DEF ParseFlag, Parsed, UnchangedParse
<1>2. Place \in Dashes(argv) /\ Word = argv[Place] /\ pc = "parse" /\ args # <<>>
  BY <1>1, DashAtPlace DEF More, Word
<1>3. 1 \in 1..Len(args)
  <2>1. Len(args) \in Nat /\ Len(args) # 0
    BY <1>2, LenProperties, EmptySeq DEF Types
  <2>. QED BY <2>1
<1>4. Follow(argv, Place) = Place + 1
  BY <1>1, <1>2 DEF Follow
<1>5. /\ argv[Place] \notin CacheOptions \cup {"--in", "--offset", "--sizelimit"}
      /\ opt'.cache = opt.cache /\ opt'.writable = opt.writable
      /\ opt'.overwrite = opt.overwrite /\ opt'.offset = opt.offset
      /\ opt'.limit = opt.limit /\ opt'.images = opt.images /\ opt'.oldIn = opt.oldIn
  BY <1>1, <1>2 DEF Flags, CacheOptions, Types, OptionRecord
<1>6. OptionSets(argv, Place, opt, opt')
  BY <1>5 DEF OptionSets, CacheOptions
<1>7. ImagesSet
  BY <1>5 DEF ImagesSet
<1>. QED BY <1>1, <1>2, <1>3, <1>4, <1>6, <1>7, OptionParsed

\* The options that leave the cache, the part and the images alone.
LEMMA OtherOptionAsked ==
  ASSUME Types, ArgsInv, LineInv, ParsedInv,
         ParseFuseOption \/ ParseInOpts \/ ParseMorphOpts \/ ParseMorph \/ ParseOut
  PROVE  ParsedInv'
<1>1. /\ More /\ UNCHANGED argv
      /\ Word \in {"-o", "--inopts", "--morphopts", "--morph", "--out"}
      /\ \/ pc' = "free"
         \/ /\ Given(1) /\ Drop(2)
            /\ opt'.cache = opt.cache /\ opt'.writable = opt.writable
            /\ opt'.overwrite = opt.overwrite /\ opt'.offset = opt.offset
            /\ opt'.limit = opt.limit /\ opt'.images = opt.images /\ opt'.oldIn = opt.oldIn
  <2>1. /\ More /\ UNCHANGED argv
        /\ Word \in {"-o", "--inopts", "--morphopts", "--morph", "--out"}
    BY DEF ParseFuseOption, ParseInOpts, ParseMorphOpts, ParseMorph, ParseOut,
           UnchangedParse
  <2>2. opt \in OptionRecord
    BY DEF Types
  <2>3. \/ pc' = "free"
        \/ /\ Given(1) /\ Drop(2)
           /\ \/ opt' = [opt EXCEPT !.allowOther = FALSE]
              \/ \E f : opt' = [opt EXCEPT !.fuse = f, !.ownO = FALSE]
              \/ \E f : opt' = [opt EXCEPT !.inopts = f]
              \/ \E f : opt' = [opt EXCEPT !.morphopts = f]
              \/ \E f : opt' = [opt EXCEPT !.morph = f]
              \/ \E f : opt' = [opt EXCEPT !.out = f]
    <3>1. CASE ParseFuseOption
      BY <3>1 DEF ParseFuseOption, Parsed, Bad, Fail, Goto
    <3>2. CASE ParseInOpts
      BY <3>2 DEF ParseInOpts, Parsed, Bad, Fail, Goto
    <3>3. CASE ParseMorphOpts
      BY <3>3 DEF ParseMorphOpts, Parsed, Bad, Fail, Goto
    <3>4. CASE ParseMorph
      BY <3>4 DEF ParseMorph, Parsed, Bad, Fail, Goto
    <3>5. CASE ParseOut
      BY <3>5 DEF ParseOut, Parsed, Bad, Fail, Goto
    <3>. QED BY <3>1, <3>2, <3>3, <3>4, <3>5
  <2>. QED BY <2>1, <2>2, <2>3 DEF OptionRecord
<1>2. CASE pc' = "free"
  BY <1>2 DEF ParsedInv
<1>3. CASE pc' # "free"
  <2>1. Word = argv[Place]
    BY <1>1, DashAtPlace DEF More, Word
  <2>2. Word \notin Flags \cup {"--in"} /\ OptionSets(argv, Place, opt, opt')
    BY <1>1, <1>3, <2>1 DEF OptionSets, CacheOptions, Flags
  <2>. QED BY <1>1, <1>3, <2>2, ParameterParsed
<1>. QED BY <1>2, <1>3

LEMMA ParseCacheAsked ==
  ASSUME Types, ArgsInv, LineInv, ParsedInv, ParseCache
  PROVE  ParsedInv'
<1>1. /\ More /\ UNCHANGED argv /\ Word \in CacheOptions
      /\ \/ pc' = "free"
         \/ /\ Given(1) /\ Drop(2)
            /\ opt' = [opt EXCEPT !.cache = Param,
                         !.writable = opt.writable \/ Word # "--rocache",
                         !.overwrite = opt.overwrite \/ Word = "--owcache"]
  BY DEF ParseCache, Parsed, Bad, Fail, Goto, UnchangedParse
<1>2. CASE pc' = "free"
  BY <1>2 DEF ParsedInv
<1>3. CASE pc' # "free"
  <2>1. Word = argv[Place] /\ Param = argv[Place + 1] /\ Param # None
    BY <1>1, <1>3, DashAtPlace, ParamGiven DEF More, Word
  <2>2. /\ opt'.cache = Param /\ opt'.offset = opt.offset
        /\ opt'.limit = opt.limit /\ opt'.images = opt.images /\ opt'.oldIn = opt.oldIn
        /\ opt'.writable <=> opt.writable \/ Word # "--rocache"
        /\ opt'.overwrite <=> opt.overwrite \/ Word = "--owcache"
    BY <1>1, <1>3 DEF Types, OptionRecord
  <2>3. Word \notin Flags \cup {"--in"} /\ OptionSets(argv, Place, opt, opt')
    BY <1>1, <2>1, <2>2 DEF OptionSets, CacheOptions, Flags
  <2>. QED BY <1>1, <1>3, <2>2, <2>3, ParameterParsed
<1>. QED BY <1>2, <1>3

LEMMA ParseNumberAsked ==
  ASSUME Types, ArgsInv, LineInv, ParsedInv, ParseOffset \/ ParseSizeLimit
  PROVE  ParsedInv'
<1>1. /\ More /\ UNCHANGED argv
      /\ \/ pc' = "free"
         \/ /\ Given(1) /\ Drop(2)
            /\ \/ Word = "--offset" /\ opt' = [opt EXCEPT !.offset = Number[Param]]
               \/ Word = "--sizelimit" /\ opt' = [opt EXCEPT !.limit = Number[Param]]
  BY DEF ParseOffset, ParseSizeLimit, Parsed, Bad, Fail, Goto, UnchangedParse
<1>2. CASE pc' = "free"
  BY <1>2 DEF ParsedInv
<1>3. CASE pc' # "free"
  <2>1. Word = argv[Place] /\ Param = argv[Place + 1]
    BY <1>1, <1>3, DashAtPlace, ParamGiven DEF More, Word
  <2>2. /\ opt'.cache = opt.cache /\ opt'.writable = opt.writable
        /\ opt'.overwrite = opt.overwrite
        /\ opt'.images = opt.images /\ opt'.oldIn = opt.oldIn
        /\ \/ /\ Word = "--offset" /\ opt'.offset = Number[Param]
              /\ opt'.limit = opt.limit
           \/ /\ Word = "--sizelimit" /\ opt'.limit = Number[Param]
              /\ opt'.offset = opt.offset
    BY <1>1, <1>3 DEF Types, OptionRecord
  <2>3. Word \notin Flags \cup {"--in"} /\ OptionSets(argv, Place, opt, opt')
    BY <2>1, <2>2 DEF OptionSets, CacheOptions, Flags
  <2>. QED BY <1>1, <1>3, <2>2, <2>3, ParameterParsed
<1>. QED BY <1>2, <1>3

\* What is taken from the words that are left is part of the command line.
LEMMA PartOfLine ==
  ASSUME Types, ArgsInv, NEW l \in Nat \ {0}, NEW m \in Nat, m <= Len(args), l <= m + 1
  PROVE  /\ SubSeq(args, l, m) \in Seq(Text)
         /\ SubSeq(args, l, m) = SubSeq(argv, Place + l - 1, Place + m - 1)
<1>1. /\ Place \in Nat \ {0} /\ Len(args) \in Nat /\ Len(argv) \in Nat
      /\ Place + Len(args) = Len(argv) + 1
      /\ \A i \in 1..Len(args) : args[i] = argv[Place + i - 1]
  BY NextPlace
<1>2. PICK a \in Int, b \in Int, n \in Nat :
        a = Place + l - 1 /\ b = Place + m - 1 /\ n = m - l + 1
  BY <1>1
<1>3. /\ \A i \in 1..Len(args) : args[i] \in Text
      /\ \A i \in 1..Len(argv) : argv[i] \in Text
  BY ElementOfSeq DEF Types
<1>4. /\ SubSeq(args, l, m) \in Seq(Text) /\ Len(SubSeq(args, l, m)) = n
      /\ \A i \in 1..n : SubSeq(args, l, m)[i] = args[l + i - 1]
  <2>1. \A i \in l..m : args[i] \in Text
    BY <1>1, <1>3
  <2>2. /\ SubSeq(args, l, m) \in Seq(Text)
        /\ Len(SubSeq(args, l, m)) = IF l <= m THEN m - l + 1 ELSE 0
        /\ \A i \in 1..m-l+1 : SubSeq(args, l, m)[i] = args[l + i - 1]
    BY <2>1, SubSeqProperties
  <2>3. m - l + 1 = n /\ (l <= m \/ n = 0)
    BY <1>2
  <2>. QED BY <2>2, <2>3
<1>5. /\ SubSeq(argv, a, b) \in Seq(Text) /\ Len(SubSeq(argv, a, b)) = n
      /\ \A i \in 1..n : SubSeq(argv, a, b)[i] = argv[a + i - 1]
  <2>1. \A i \in a..b : argv[i] \in Text
    <3>1. 1 <= a /\ b <= Len(argv) /\ Len(argv) \in Nat
      <4>1. PICK k \in Nat \ {0}, x \in Nat, y \in Nat :
              k = Place /\ x = Len(args) /\ y = Len(argv) /\ k + x = y + 1
        BY <1>1
      <4>. QED BY <1>2, <4>1
    <3>2. \A i \in a..b : i \in 1..Len(argv)
      BY <1>2, <3>1
    <3>. QED BY <1>3, <3>2
  <2>2. /\ SubSeq(argv, a, b) \in Seq(Text)
        /\ Len(SubSeq(argv, a, b)) = IF a <= b THEN b - a + 1 ELSE 0
        /\ \A i \in 1..b-a+1 : SubSeq(argv, a, b)[i] = argv[a + i - 1]
    BY <2>1, SubSeqProperties
  <2>3. b - a + 1 = n /\ (a <= b \/ n = 0)
    BY <1>1, <1>2
  <2>. QED BY <2>2, <2>3
<1>6. \A i \in 1..n : args[l + i - 1] = argv[a + i - 1]
  <2>1. TAKE i \in 1..n
  <2>2. l + i - 1 \in 1..Len(args) /\ Place + (l + i - 1) - 1 = a + i - 1
    BY <1>1, <1>2
  <2>. QED BY <1>1, <2>2
<1>7. SubSeq(args, l, m) = SubSeq(argv, a, b)
  <2>1. PICK s \in Seq(Text), t \in Seq(Text) :
          s = SubSeq(args, l, m) /\ t = SubSeq(argv, a, b)
    BY <1>4, <1>5
  <2>2. Len(s) = n /\ Len(t) = n
    BY <1>4, <1>5, <2>1
  <2>3. ASSUME NEW i \in 1..n PROVE s[i] = t[i]
    <3>1. s[i] = args[l + i - 1]
      BY <1>4, <2>1
    <3>2. t[i] = argv[a + i - 1]
      BY <1>5, <2>1
    <3>. QED BY <1>6, <3>1, <3>2
  <2>4. s = t
    BY <2>2, <2>3, SeqEqual
  <2>. QED BY <2>1, <2>4
<1>. QED BY <1>2, <1>4, <1>7

\* An --in is one image more, with its files here or after the options.
LEMMA ParseInAsked ==
  ASSUME Types, ArgsInv, LineInv, ParsedInv, ParseIn
  PROVE  ParsedInv'
<1>1. /\ More /\ UNCHANGED argv /\ Word = "--in"
      /\ \/ pc' = "free"
         \/ /\ Given(2) /\ opt.oldIn = None
            /\ \/ /\ FileCount = 0 /\ Drop(2)
                  /\ opt' = [opt EXCEPT !.oldIn = Param]
               \/ /\ FileCount # 0 /\ Drop(2 + FileCount)
                  /\ opt' = [opt EXCEPT !.images = Append(opt.images,
                       [type |-> Param, files |-> SubSeq(args, 3, 2 + FileCount)])]
  BY DEF ParseIn, Parsed, Bad, Fail, Goto, UnchangedParse
<1>2. CASE pc' = "free"
  BY <1>2 DEF ParsedInv
<1>3. CASE pc' # "free"
  <2>1. /\ Place \in Dashes(argv) /\ Word = argv[Place] /\ pc = "parse"
        /\ Head(args) = "--in"
    BY <1>1, DashAtPlace DEF More, Word
  <2>2. Len(args) > 2 /\ Len(args) \in Nat /\ Given(1)
    BY <1>1, <1>3, NextPlace DEF Given
  <2>3. /\ FileCount \in Nat /\ 2 + FileCount < Len(args)
        /\ Follow(argv, Place) = Place + (2 + FileCount)
    BY <2>1, <2>2, FilesFollow
  <2>4. Drop(2 + FileCount) /\ 2 + FileCount \in 1..Len(args)
    <3>1. FileCount = 0 => 2 + FileCount = 2
      OBVIOUS
    <3>. QED BY <1>1, <1>3, <2>2, <2>3, <3>1
  <2>5. OptionSets(argv, Place, opt, opt')
    <3>1. /\ opt'.cache = opt.cache /\ opt'.writable = opt.writable
          /\ opt'.overwrite = opt.overwrite /\ opt'.offset = opt.offset
          /\ opt'.limit = opt.limit
      BY <1>1, <1>3 DEF Types, OptionRecord
    <3>. QED BY <1>1, <2>1, <3>1 DEF OptionSets, CacheOptions
  <2>6. /\ Param = argv[Place + 1] /\ Param \in Text /\ Param # None
        /\ Place \in Nat \ {0}
    <3>1. Param = args[2] /\ args \in Seq(Text) /\ 2 \in 1..Len(args)
      BY <2>2 DEF Param, Types
    <3>. QED BY <2>2, <3>1, ParamGiven, NextPlace, ElementOfSeq
  <2>7. ImagesSet
    <3>1. SUFFICES ASSUME NEW files \in Seq(Text)
                   PROVE  \E image \in ImageSpec :
                            /\ ImageAsked(argv, Place, image, files)
                            /\ ParsedImages(files)' = Append(ParsedImages(files), image)
      BY <1>1, <2>1 DEF ImagesSet
    <3>2. ParsedImages(files) = opt.images
      BY <1>1, <1>3 DEF ParsedImages
    <3>3. CASE FileCount = 0 /\ opt' = [opt EXCEPT !.oldIn = Param]
      <4>. DEFINE image == [type |-> Param, files |-> files]
      <4>1. opt'.oldIn = Param /\ opt'.images = opt.images
        BY <3>3 DEF Types, OptionRecord
      <4>2. ParsedImages(files)' = Append(opt.images, image)
        BY <2>6, <4>1 DEF ParsedImages
      <4>3. ~ (Place + 2 < Follow(argv, Place))
        BY <2>3, <2>6, <3>3
      <4>4. image \in ImageSpec /\ ImageAsked(argv, Place, image, files)
        BY <2>6, <4>3 DEF ImageSpec, ImageAsked
      <4>. QED BY <3>2, <4>2, <4>4
    <3>4. CASE FileCount # 0 /\ opt' = [opt EXCEPT !.images = Append(opt.images,
                 [type |-> Param, files |-> SubSeq(args, 3, 2 + FileCount)])]
      <4>. DEFINE image == [type |-> Param, files |-> SubSeq(args, 3, 2 + FileCount)]
      <4>1. opt'.oldIn = None /\ opt'.images = Append(opt.images, image)
        BY <1>1, <1>3, <3>4 DEF Types, OptionRecord
      <4>2. ParsedImages(files)' = Append(opt.images, image)
        BY <4>1 DEF ParsedImages
      <4>3. /\ SubSeq(args, 3, 2 + FileCount) \in Seq(Text)
            /\ SubSeq(args, 3, 2 + FileCount) = SubSeq(argv, Place + 2, Place + (2 + FileCount) - 1)
        <5>1. 2 + FileCount \in Nat /\ 2 + FileCount <= Len(args) /\ 3 <= 2 + FileCount + 1
          BY <2>2, <2>3
        <5>2. Place + 3 - 1 = Place + 2
          BY <2>6
        <5>3. 3 \in Nat \ {0}
          OBVIOUS
        <5>. QED BY <5>1, <5>2, <5>3, PartOfLine
      <4>4. Place + 2 < Follow(argv, Place)
        BY <2>3, <2>6, <3>4
      <4>5. image \in ImageSpec
        BY <2>6, <4>3 DEF ImageSpec
      <4>6. ImageAsked(argv, Place, image, files)
        BY <2>3, <2>6, <4>3, <4>4 DEF ImageAsked
      <4>. QED BY <3>2, <4>2, <4>5, <4>6
    <3>. QED BY <1>1, <1>3, <3>3, <3>4
  <2>. QED BY <1>1, <2>1, <2>3, <2>4, <2>5, <2>7, OptionParsed
<1>. QED BY <1>2, <1>3

LEMMA ParseParsed ==
  ASSUME Types, ArgsInv, LineInv, ParsedInv, Parse
  PROVE  ParsedInv'
<1>1. CASE ParseInfo \/ ParseUnknown \/ ParseEnd
  <2>1. pc' \notin {"load", "parse"}
    BY <1>1 DEF ParseInfo, ParseUnknown, ParseEnd, Bad, Fail, Goto
  <2>. QED BY <2>1 DEF ParsedInv
<1>. QED BY <1>1, ParseFlagAsked, OtherOptionAsked, ParseCacheAsked, ParseNumberAsked,
            ParseInAsked DEF Parse

\* When no option is left, the options that were parsed are all there are.
LEMMA AllParsed ==
  ASSUME Types, ArgsInv, Place \notin Dashes(argv), NEW v, v \subseteq Dashes(argv),
         ParsedPlaces(v)
  PROVE  v = OptionPlaces(argv)
<1>1. ClosedPlaces(argv, v)
  BY DEF ParsedPlaces, ClosedPlaces
<1>2. OptionPlaces(argv) \subseteq v
  BY <1>1 DEF OptionPlaces
<1>. QED BY <1>2 DEF ParsedPlaces

LEMMA ParseEndAsked ==
  ASSUME Types, ArgsInv, ParsedInv, ParseEnd, pc' = "check"
  PROVE  /\ AsksFor(argv, OptionPlaces(argv), opt')
         /\ ImagesAsked(argv, OptionPlaces(argv), opt'.images)
<1>1. PICK v \in SUBSET Dashes(argv) :
        /\ ParsedPlaces(v) /\ AsksFor(argv, v, opt)
        /\ \A files \in Seq(Text) : ImagesGiven(argv, v, ParsedImages(files), files)
  BY DEF ParsedInv, ParseEnd
<1>2. Place \notin Dashes(argv)
  BY DashAtPlace DEF ParseEnd
<1>3. v = OptionPlaces(argv)
  BY <1>1, <1>2, AllParsed
<1>. DEFINE n == Len(args) - 1
            old == [type |-> opt.oldIn, files |-> SubSeq(args, 1, n)]
<1>4. PICK f :
        opt' = [IF opt.oldIn = None THEN opt
                ELSE [opt EXCEPT !.images = Append(opt.images, old)] EXCEPT !.fuse = f]
  BY DEF ParseEnd, Bad, Fail, Goto
<1>5. /\ opt'.cache = opt.cache /\ opt'.writable = opt.writable
      /\ opt'.overwrite = opt.overwrite /\ opt'.offset = opt.offset
      /\ opt'.limit = opt.limit
      /\ opt'.images = IF opt.oldIn = None THEN opt.images ELSE Append(opt.images, old)
  BY <1>4 DEF Types, OptionRecord
<1>6. AsksFor(argv, v, opt')
  BY <1>1, <1>5 DEF AsksFor
<1>7. n \in Nat /\ Place + n = Len(argv) /\ Place \in Nat \ {0} /\ n + 1 = Len(args)
  <2>1. Len(args) \in Nat /\ Len(argv) \in Nat /\ Place \in Nat \ {0}
        /\ Place + Len(args) = Len(argv) + 1
    BY NextPlace
  <2>2. ~ (n < IF opt.oldIn = None THEN 0 ELSE 1)
    BY DEF ParseEnd, Bad, Fail, Goto
  <2>3. n >= 0
    BY <2>1, <2>2
  <2>. QED BY <2>1, <2>3
<1>8. opt'.images = ParsedImages(SubSeq(args, 1, n))
  BY <1>5 DEF ParsedImages
<1>9. /\ SubSeq(args, 1, n) \in Seq(Text)
      /\ SubSeq(args, 1, n) = SubSeq(argv, Place, Len(argv) - 1)
  <2>1. 1 \in Nat \ {0} /\ n <= Len(args) /\ 1 <= n + 1
        /\ Place + 1 - 1 = Place /\ Place + n - 1 = Len(argv) - 1
    BY <1>7
  <2>. HIDE DEF n
  <2>. QED BY <1>7, <2>1, PartOfLine
<1>10. Place \in Ends(argv, v)
  BY <1>1, <1>2 DEF ParsedPlaces, Ends
<1>11. ImagesAsked(argv, v, opt'.images)
  <2>. HIDE DEF n
  <2>1. ImagesGiven(argv, v, ParsedImages(SubSeq(args, 1, n)), SubSeq(args, 1, n))
    BY <1>1, <1>9
  <2>2. ImagesGiven(argv, v, opt'.images, SubSeq(argv, Place, Len(argv) - 1))
    BY <1>8, <1>9, <2>1
  <2>. QED BY <1>10, <2>2 DEF ImagesAsked
<1>. QED BY <1>3, <1>6, <1>11

-----------------------------------------------------------------------------
(* What was asked for is done                                              *)

LEMMA BeforeStartAsked ==
  ASSUME Inv, ArgsInv, ParsedInv, AskedInv, LoadLibs \/ Parse
  PROVE  AskedInv'
<1>1. /\ pc \in Early /\ UNCHANGED <<argv, out>>
      /\ pc' \in {"parse", "quit", "free"} \/ (pc' = "check" /\ ParseEnd)
  BY DEF LoadLibs, Parse, ParseFlag, ParseFuseOption, ParseCache, ParseIn, ParseInOpts,
         ParseMorphOpts, ParseMorph, ParseOffset, ParseSizeLimit, ParseOut,
         ParseInfo, ParseUnknown, ParseEnd, More, Parsed, Bad, Fail, Goto,
         UnchangedParse, UnchangedLine, UnchangedRun, Early
<1>2. out'.cache = "closed"
  BY <1>1 DEF AskedInv, Early
<1>3. CASE pc' \in {"parse", "quit", "free"}
  BY <1>2, <1>3 DEF AskedInv, Early, Opening, AllOpen, MorphSteps
<1>4. CASE pc' = "check" /\ ParseEnd
  <2>1. /\ AsksFor(argv', OptionPlaces(argv'), opt')
        /\ ImagesAsked(argv', OptionPlaces(argv'), opt'.images)
    BY <1>1, <1>4, ParseEndAsked DEF Inv
  <2>. QED BY <1>2, <1>4, <2>1 DEF AskedInv, Opening, AllOpen, MorphSteps
<1>. QED BY <1>1, <1>3, <1>4

LEMMA CheckOptionsAsked ==
  ASSUME Inv, AskedInv, CheckOptions
  PROVE  AskedInv'
<1>1. /\ pc = "check" /\ pc' \in {"find", "free"} /\ UNCHANGED <<argv, cur, morph, out>>
      /\ opt' = [opt EXCEPT !.morph = IF opt.morph = None THEN "combine" ELSE opt.morph]
      /\ img' = [i \in 1..Len(opt.images) |->
                   [lib |-> NoLib, handle |-> "null", size |-> 0, full |-> 0]]
  BY DEF CheckOptions, Fail, Goto
<1>2. /\ AsksFor(argv, OptionPlaces(argv), opt)
      /\ ImagesAsked(argv, OptionPlaces(argv), opt.images)
      /\ out.cache = "closed" /\ cur = 1
  BY <1>1 DEF AskedInv, Early, Inv, CursorInv
<1>3. /\ opt'.cache = opt.cache /\ opt'.writable = opt.writable
      /\ opt'.overwrite = opt.overwrite /\ opt'.offset = opt.offset
      /\ opt'.limit = opt.limit /\ opt'.images = opt.images
  BY <1>1 DEF Inv, Types, OptionRecord
<1>4. AsksFor(argv', OptionPlaces(argv'), opt')
  BY <1>1, <1>2, <1>3 DEF AsksFor
<1>5. Len(img') = Len(opt'.images)
  <2>1. opt.images \in Seq(ImageSpec)
    BY DEF Inv, Types, OptionRecord
  <2>2. Len(opt.images) \in Nat
    BY <2>1, LenProperties
  <2>. QED BY <1>1, <1>3, <2>2
<1>. QED BY <1>1, <1>2, <1>3, <1>4, <1>5 DEF AskedInv, Early, Opening, AllOpen, MorphSteps

LEMMA OneImageChanged ==
  ASSUME Types, NEW i \in 1..Len(img), NEW r, img' = [img EXCEPT ![i] = r]
  PROVE  /\ Len(img') = Len(img) /\ img'[i] = r
         /\ \A j \in 1..Len(img) : j # i => img'[j] = img[j]
<1>. DEFINE s == ImageRecord \cup {r}
            new == [img EXCEPT ![i] = r]
<1>1. img \in Seq(s)
  BY SeqMonotonic DEF Types
<1>2. /\ Len(new) = Len(img)
      /\ \A j \in 1..Len(img) : new[j] = IF j = i THEN r ELSE img[j]
  BY <1>1, ExceptSeq
<1>. QED BY <1>2

\* While the images are opened one by one the options stay, and so does what
\* was made of the images that main has passed.
LEMMA OpeningAsked ==
  ASSUME Inv, AskedInv,
         FindInputLib \/ InitLib \/ CreateHandle \/ OptionsParse \/ OpenImage
  PROVE  AskedInv'
<1>1. /\ pc \in Opening /\ pc' \in Opening \cup {"free"} /\ cur \in 1..Len(img)
      /\ UNCHANGED <<argv, opt, cur, morph, out>>
  BY DEF FindInputLib, InitLib, CreateHandle, OptionsParse, OpenImage, At, Fail, Goto,
         UnchangedLine, UnchangedImages, Opening, Inv, CursorInv
<1>2. PICK r :
        /\ UNCHANGED img \/ img' = [img EXCEPT ![cur] = r]
        /\ img' = [img EXCEPT ![cur] = r] => r.lib = img[cur].lib \/ FindInputLib
        /\ FindInputLib => /\ pc' = "free" \/ img' = [img EXCEPT ![cur] = r]
                           /\ r.lib = LibOf[opt.images[cur].type]
  <2>1. img[cur] \in ImageRecord
    BY <1>1, ImageTyped DEF Inv
  <2>2. CASE FindInputLib
    <3>. DEFINE r == [img[cur] EXCEPT !.lib = LibOf[opt.images[cur].type]]
    <3>1. \/ UNCHANGED img /\ pc' = "free"
          \/ img' = [img EXCEPT ![cur].lib = LibOf[opt.images[cur].type]]
      BY <2>2 DEF FindInputLib, Fail, Goto
    <3>2. \/ UNCHANGED img /\ pc' = "free"
          \/ img' = [img EXCEPT ![cur] = r]
      BY <3>1
    <3>3. r.lib = LibOf[opt.images[cur].type]
      BY <2>1 DEF ImageRecord
    <3>. HIDE DEF r
    <3>. QED BY <2>2, <3>2, <3>3
  <2>3. CASE ~FindInputLib /\ UNCHANGED img
    <3>1. img[cur].lib = img[cur].lib
      OBVIOUS
    <3>2. PICK r : r = img[cur]
      OBVIOUS
    <3>. QED BY <2>3, <3>2
  <2>4. ASSUME NEW h, img' = [img EXCEPT ![cur].handle = h], ~FindInputLib
        PROVE  \E r : /\ img' = [img EXCEPT ![cur] = r]
                      /\ r.lib = img[cur].lib
    <3>. DEFINE r == [img[cur] EXCEPT !.handle = h]
    <3>1. img' = [img EXCEPT ![cur] = r]
      BY <2>4
    <3>2. r.lib = img[cur].lib
      BY <2>1 DEF ImageRecord
    <3>. HIDE DEF r
    <3>. QED BY <3>1, <3>2
  <2>5. ~FindInputLib => UNCHANGED img \/ \E h : img' = [img EXCEPT ![cur].handle = h]
    BY DEF InitLib, CreateHandle, OptionsParse, OpenImage, UnchangedImages
  <2>. QED BY <2>2, <2>3, <2>4, <2>5
<1>3. Len(img') = Len(img) /\ \A j \in 1..Len(img) : j # cur => img'[j] = img[j]
  BY <1>1, <1>2, OneImageChanged DEF Inv
<1>4. /\ AsksFor(argv, OptionPlaces(argv), opt)
      /\ ImagesAsked(argv, OptionPlaces(argv), opt.images)
      /\ Len(img) = Len(opt.images) /\ out.cache = "closed"
      /\ \A i \in 1..cur-1 : AsTold(i)
      /\ pc # "find" => OfItsType(cur)
  BY <1>1 DEF AskedInv, Opening
<1>5. \A i \in 1..cur-1 : AsTold(i)'
  <2>1. Len(img) \in Nat
    BY LenProperties DEF Inv, Types
  <2>2. \A i \in 1..cur-1 : i \in 1..Len(img) /\ i # cur
    BY <1>1, <2>1
  <2>. QED BY <1>1, <1>3, <1>4, <2>2 DEF AsTold, OfItsType
<1>6. pc' # "free" => OfItsType(cur)'
  <2>1. img' = [img EXCEPT ![cur] = r] => img'[cur] = r
    BY <1>1, OneImageChanged DEF Inv
  <2>2. pc = "find" => FindInputLib
    BY DEF InitLib, CreateHandle, OptionsParse, OpenImage, At
  <2>3. FindInputLib => pc = "find"
    BY DEF FindInputLib, At
  <2>4. CASE FindInputLib /\ pc' # "free"
    <3>1. img'[cur].lib = LibOf[opt.images[cur].type]
      BY <1>2, <2>1, <2>4
    <3>. QED BY <1>1, <3>1 DEF OfItsType
  <2>5. CASE ~FindInputLib
    <3>1. img'[cur].lib = img[cur].lib
      BY <1>2, <2>1, <2>5
    <3>. QED BY <1>1, <1>4, <2>2, <2>5, <3>1 DEF OfItsType
  <2>. QED BY <2>4, <2>5
<1>. QED BY <1>1, <1>3, <1>4, <1>5, <1>6 DEF AskedInv, Early, Opening, AllOpen, MorphSteps

\* The part that is left of an image lies inside it.
LEMMA PartInside ==
  ASSUME Types, NEW full \in Nat, NEW s \in Part(full)
  PROVE  opt.offset + s <= full
<1>1. opt.offset \in Nat /\ opt.limit \in Nat
  BY DEF Types, OptionRecord
<1>. QED BY <1>1 DEF Part

LEMMA SizeImageAsked ==
  ASSUME Inv, AskedInv, SizeImage
  PROVE  AskedInv'
<1>1. /\ pc = "size" /\ cur \in 1..Len(img) /\ UNCHANGED <<argv, opt, morph, out>>
  BY DEF SizeImage, UnchangedLine, At, Inv, CursorInv, Opening
<1>2. CASE pc' = "free"
  BY <1>2 DEF AskedInv, Early, Opening, AllOpen, MorphSteps
<1>3. ASSUME NEW full \in ImageSizes, NEW s \in Part(full),
             img' = [img EXCEPT ![cur].size = s, ![cur].full = full],
             cur' = cur + 1, pc' = IF cur = Len(img) THEN "findmorph" ELSE "find"
      PROVE  AskedInv'
  <2>1. img[cur] \in ImageRecord /\ Len(img) \in Nat
    BY <1>1, ImageTyped DEF Inv
  <2>. DEFINE r == [img[cur] EXCEPT !.size = s, !.full = full]
  <2>2. r.size = s /\ r.full = full /\ r.lib = img[cur].lib
    BY <2>1 DEF ImageRecord
  <2>3. img' = [img EXCEPT ![cur] = r]
    BY <1>3
  <2>. HIDE DEF r
  <2>4. /\ Len(img') = Len(img) /\ img'[cur] = r
        /\ \A j \in 1..Len(img) : j # cur => img'[j] = img[j]
    BY <1>1, <2>3, OneImageChanged DEF Inv
  <2>5. /\ AsksFor(argv, OptionPlaces(argv), opt)
        /\ ImagesAsked(argv, OptionPlaces(argv), opt.images)
        /\ Len(img) = Len(opt.images) /\ out.cache = "closed"
        /\ OfItsType(cur) /\ \A i \in 1..cur-1 : AsTold(i)
    BY <1>1 DEF AskedInv, Early, Opening
  <2>6. \A i \in 1..cur : AsTold(i)'
    <3>1. TAKE i \in 1..cur
    <3>2. CASE i = cur
      <4>1. opt'.offset + img'[cur].size <= img'[cur].full
        BY <1>1, <1>3, <2>2, <2>4, PartInside, SessionConstants DEF Inv
      <4>2. img'[cur].lib = img[cur].lib
        BY <2>2, <2>4
      <4>. QED BY <1>1, <2>5, <3>2, <4>1, <4>2 DEF AsTold, OfItsType
    <3>3. CASE i # cur
      <4>1. i \in 1..cur-1 /\ i \in 1..Len(img)
        BY <1>1, <2>1, <3>3
      <4>. QED BY <1>1, <2>4, <2>5, <3>3, <4>1 DEF AsTold, OfItsType
    <3>. QED BY <3>2, <3>3
  <2>7. cur' - 1 = cur
    BY <1>1, <1>3
  <2>. QED BY <1>1, <1>3, <2>4, <2>5, <2>6, <2>7
           DEF AskedInv, Early, Opening, AllOpen, MorphSteps
<1>. QED BY <1>2, <1>3 DEF SizeImage, Goto, Fail

\* From the last image on the options and the images stay; what the step adds
\* is the morphing handle, the size that the hash found, and the cache file.
LEMMA AfterImagesAsked ==
  ASSUME Inv, AskedInv, pc \in AllOpen, pc' \in AllOpen, UNCHANGED <<argv, opt, img>>,
         pc' \in {"names", "header", "cache", "serve"} => Size # 0,
         pc' \in {"hash", "names", "header", "cache", "serve"} => morph'.handle = "open",
         pc' # "serve" => out'.cache = "closed",
         pc' = "cache" => opt.cache # None,
         pc' = "serve" => (out'.cache = "open" <=> opt.cache # None)
  PROVE  AskedInv'
<1>1. /\ AsksFor(argv, OptionPlaces(argv), opt)
      /\ ImagesAsked(argv, OptionPlaces(argv), opt.images)
      /\ Len(img) = Len(opt.images)
      /\ \A i \in 1..Len(img) : AsTold(i)
  BY DEF AskedInv
<1>2. Size' = Size
  BY DEF Size
<1>3. \A i \in 1..Len(img) : AsTold(i)'
  BY <1>1 DEF AsTold, OfItsType
<1>. QED BY <1>1, <1>2, <1>3 DEF AskedInv, Early, Opening, AllOpen, MorphSteps

LEMMA MorphingAsked ==
  ASSUME Inv, OutInv, AskedInv,
         FindMorphingLib \/ CreateMorph \/ MorphOptions \/ Morph \/ Hash \/ Names
  PROVE  AskedInv'
<1>1. /\ pc \in AllOpen \ {"cache", "serve"} /\ pc' \in AllOpen \cup {"free", "quit"}
      /\ UNCHANGED <<argv, opt, img>> /\ out'.cache = out.cache
  <2>1. UNCHANGED out \/ \E n : out' = [out EXCEPT !.names = n]
    BY DEF FindMorphingLib, CreateMorph, MorphOptions, Morph, Hash, Names
  <2>2. out'.cache = out.cache
    BY <2>1 DEF OutInv
  <2>. QED BY <2>2 DEF FindMorphingLib, CreateMorph, MorphOptions, Morph, Hash, Names, Fail, Goto,
                  UnchangedLine, UnchangedImages, AllOpen, MorphSteps
<1>2. CASE pc' \in {"free", "quit"}
  BY <1>2 DEF AskedInv, Early, Opening, AllOpen, MorphSteps
<1>3. CASE pc' \in AllOpen
  <2>1. pc' \in {"findmorph", "createmorph", "morphoptions", "morph", "hash", "names", "header"}
    BY <1>3 DEF FindMorphingLib, CreateMorph, MorphOptions, Morph, Hash, Names, Fail, Goto,
                AllOpen, MorphSteps
  <2>2. pc' \in {"names", "header"} => Size # 0
    BY DEF FindMorphingLib, CreateMorph, MorphOptions, Morph, Hash, Names, Fail, Goto, AskedInv
  <2>3. pc' \in {"hash", "names", "header"} => morph'.handle = "open"
    <3>1. CASE Morph
      <4>1. pc' = "free" \/ morph' = [morph EXCEPT !.handle = "open"]
        BY <3>1 DEF Morph, Goto, Fail
      <4>. QED BY <4>1 DEF Inv, Types
    <3>2. CASE Hash \/ Names
      BY <3>2 DEF Hash, Names, AskedInv
    <3>3. CASE FindMorphingLib \/ CreateMorph \/ MorphOptions
      BY <3>3 DEF FindMorphingLib, CreateMorph, MorphOptions, Fail, Goto
    <3>. QED BY <3>1, <3>2, <3>3
  <2>4. out'.cache = "closed"
    BY <1>1 DEF AskedInv, AllOpen
  <2>. QED BY <1>1, <1>3, <2>1, <2>2, <2>3, <2>4, AfterImagesAsked
<1>. QED BY <1>1, <1>2, <1>3

LEMMA OutputAsked ==
  ASSUME Inv, OutInv, AskedInv, BuildHeader \/ InitCache \/ Serve
  PROVE  AskedInv'
<1>1. /\ pc \in {"header", "cache", "serve"} /\ pc' \in {"cache", "serve", "free"}
      /\ UNCHANGED <<argv, opt, img, morph>>
  BY DEF BuildHeader, InitCache, Serve, Fail, Goto, UnchangedLine, UnchangedImages
<1>2. CASE pc' = "free"
  BY <1>2 DEF AskedInv, Early, Opening, AllOpen, MorphSteps
<1>3. CASE pc' # "free"
  <2>1. /\ Size # 0 /\ morph.handle = "open"
    BY <1>1 DEF AskedInv
  <2>2. CASE BuildHeader
    <3>1. /\ pc = "header" /\ out'.cache = out.cache
          /\ pc' = IF opt.cache = None THEN "serve" ELSE "cache"
      BY <1>3, <2>2 DEF BuildHeader, Fail, Goto, OutInv
    <3>2. out.cache = "closed"
      BY <3>1 DEF AskedInv, AllOpen, MorphSteps
    <3>. QED BY <1>1, <2>1, <3>1, <3>2, AfterImagesAsked DEF AllOpen, MorphSteps
  <2>3. CASE InitCache
    <3>1. pc = "cache" /\ pc' = "serve" /\ out'.cache = "open"
      BY <1>3, <2>3 DEF InitCache, Fail, Goto, OutInv
    <3>2. opt.cache # None
      BY <3>1 DEF AskedInv
    <3>. QED BY <1>1, <2>1, <3>1, <3>2, AfterImagesAsked DEF AllOpen, MorphSteps
  <2>4. CASE Serve
    <3>1. pc = "serve" /\ pc' = "serve" /\ UNCHANGED out
      BY <1>3, <2>4 DEF Serve, Fail, Goto
    <3>2. out.cache = "open" <=> opt.cache # None
      BY <3>1 DEF AskedInv
    <3>. QED BY <1>1, <2>1, <3>1, <3>2, AfterImagesAsked DEF AllOpen, MorphSteps
  <2>. QED BY <2>2, <2>3, <2>4
<1>. QED BY <1>2, <1>3

LEMMA AskedNext ==
  ASSUME Inv, ArgsInv, LineInv, ParsedInv, OutInv, AskedInv, [Next]_vars
  PROVE  LineInv' /\ ParsedInv' /\ AskedInv'
<1>1. LineInv'
  <2>1. UNCHANGED argv
    BY DEF Next, LoadLibs, Parse, ParseFlag, ParseFuseOption, ParseCache, ParseIn,
         ParseInOpts, ParseMorphOpts, ParseMorph, ParseOffset, ParseSizeLimit,
         ParseOut, ParseInfo, ParseUnknown, ParseEnd, UnchangedParse, CheckOptions,
         Start, FindInputLib, InitLib, CreateHandle, OptionsParse, OpenImage, SizeImage,
         FindMorphingLib, CreateMorph, MorphOptions, Morph, Hash, Names, BuildHeader,
         InitCache, Serve, FreeResources, FreeMorphing, CloseImage, DestroyHandle,
         DeInit, UnloadInput, UnchangedLine, vars
  <2>. QED BY <2>1 DEF LineInv
<1>2. ParsedInv'
  <2>1. CASE LoadLibs
    <3>1. pc = "load" /\ UNCHANGED <<argv, args, opt>>
      BY <2>1 DEF LoadLibs, UnchangedLine
    <3>. QED BY <3>1 DEF ParsedInv, ParsedPlaces, ParsedImages, Place
  <2>2. CASE Parse
    BY <2>2, ParseParsed DEF Inv
  <2>3. CASE UNCHANGED vars
    <3>1. UNCHANGED <<pc, argv, args, opt>>
      BY <2>3 DEF vars
    <3>. QED BY <3>1 DEF ParsedInv, ParsedPlaces, ParsedImages, Place
  <2>4. CASE CheckOptions \/ Start \/ Serve \/ FreeResources
    <3>1. pc' \notin {"load", "parse"}
      BY <2>4 DEF CheckOptions, Start, FindInputLib, InitLib, CreateHandle, OptionsParse,
         OpenImage, SizeImage, FindMorphingLib, CreateMorph, MorphOptions, Morph, Hash,
         Names, BuildHeader, InitCache, Serve, FreeResources, FreeMorphing, CloseImage,
         DestroyHandle, DeInit, UnloadInput, At, Fail, Goto
    <3>. QED BY <3>1 DEF ParsedInv
  <2>. QED BY <2>1, <2>2, <2>3, <2>4 DEF Next
<1>3. AskedInv'
  <2>1. CASE FreeResources
    <3>1. pc' \in Closing
      BY <2>1 DEF FreeResources, FreeMorphing, CloseImage, DestroyHandle, DeInit,
                  UnloadInput, At, Goto, Closing
    <3>. QED BY <3>1 DEF AskedInv, Early, Opening, AllOpen, MorphSteps, Closing
  <2>2. CASE UNCHANGED vars
    <3>1. Size' = Size
      BY <2>2 DEF Size, vars
    <3>2. \A i : (AsTold(i)' <=> AsTold(i)) /\ (OfItsType(i)' <=> OfItsType(i))
      BY <2>2 DEF AsTold, OfItsType, vars
    <3>3. OfItsType(cur)' <=> OfItsType(cur)
      BY <2>2 DEF OfItsType, vars
    <3>. QED BY <2>2, <3>1, <3>2, <3>3 DEF AskedInv, vars
  <2>. QED BY <2>1, <2>2, BeforeStartAsked, CheckOptionsAsked, OpeningAsked, SizeImageAsked,
              MorphingAsked, OutputAsked DEF Next, Start
<1>. QED BY <1>1, <1>2, <1>3

-----------------------------------------------------------------------------
(* Theorems                                                                *)

LEMMA Invariance == Spec => []Inv
<1>1. Init => Inv
  BY InitInv
<1>2. Inv /\ [Next]_vars => Inv'
  BY NextInv
<1>. QED BY <1>1, <1>2, PTL DEF Spec

\* However many images a command line names and of whichever types, and
\* wherever the start stops, FindInputLib calls Init of a library at most once
\* and before any of its handles is created.
THEOREM InitialisedOnce == Spec => []InitOnce
<1>1. Inv => InitOnce
  BY DEF Inv, HandlesInv, InitOnce
<1>. QED BY <1>1, Invariance, PTL

\* Whatever step of the start fails, FreeResources calls only libraries that
\* are still mapped, and when it is through no handle, no library and no cache
\* file is left.  A library is called after its DeInit only if it opened
\* several images.
THEOREM EverythingGivenBack == Spec => []NothingLeft
<1>1. Inv => NothingLeft
  <2>. SUFFICES ASSUME Inv PROVE NothingLeft
    OBVIOUS
  <2>1. call.mapped /\ (call.late => SeveralOfOneLib)
    BY DEF Inv, CallInv
  <2>2. ASSUME pc = "freed"
        PROVE  /\ libs = {} /\ morph.handle = "null" /\ out.cache = "closed"
               /\ \A i \in 1..Len(img) : img[i].handle = "null"
    <3>1. Len(img) \in Nat
      BY LenProperties DEF Inv, Types
    <3>. QED BY <2>2, <3>1 DEF Inv, ClosingInv, NoMorph, NoOut, Closing
  <2>. QED BY <2>1, <2>2 DEF NothingLeft
<1>. QED BY <1>1, Invariance, PTL

LEMMA ArgsInvariance == Spec => []ArgsInv
<1>1. Init => ArgsInv
  <2>1. ASSUME Init PROVE argv \in Seq(Text)
    BY <2>1, InitInv DEF Inv, Types
  <2>. QED BY <2>1, LenProperties DEF Init, ArgsInv
<1>2. Inv /\ ArgsInv /\ [Next]_vars => ArgsInv'
  BY ArgsInvNext DEF Inv
<1>. QED BY <1>1, <1>2, Invariance, PTL DEF Spec

\* The variables have their types: in particular the cursor stays within the
\* images, and what is left to parse is always the end of the command line,
\* whatever the options in it and however many parameters they lack.
THEOREM Typing == Spec => []TypeOK
<1>1. Inv /\ ArgsInv => TypeOK
  <2>. SUFFICES ASSUME Inv, ArgsInv PROVE TypeOK
    OBVIOUS
  <2>1. IsSuffix(args, argv)
    BY SuffixOfLine DEF Inv
  <2>2. \A i \in 1..Len(img) :
          /\ img[i].handle \in {"null", "created", "open", "failed"}
          /\ img[i].lib \in InputLibs \cup {NoLib} /\ img[i].size \in Nat
    BY ImageTyped DEF Inv, ImageRecord
  <2>3. opt.offset \in Nat /\ opt.limit \in Nat
    BY DEF Inv, Types, OptionRecord
  <2>. QED BY <2>1, <2>2, <2>3 DEF TypeOK, Inv, Types, CursorInv, Early, Opening,
                                   AllOpen, MorphSteps, Closing
<1>. QED BY <1>1, Invariance, ArgsInvariance, PTL

\* Whatever the morphing library makes of the sizes of the images is a size.
MorphedSizeTyped == \A s \in Seq(Nat) : MorphedSize(s) \in Nat

LEMMA SizeTyped ==
  ASSUME MorphedSizeTyped, Types
  PROVE  Size \in Nat
<1>1. [i \in 1..Len(img) |-> img[i].size] \in Seq(Nat)
  <2>1. Len(img) \in Nat /\ \A i \in 1..Len(img) : img[i].size \in Nat
    BY ImageTyped, LenProperties DEF Types, ImageRecord
  <2>. QED BY <2>1
<1>. QED BY <1>1 DEF Size, MorphedSizeTyped

LEMMA OutInvariance == Spec => []OutInv
<1>1. Init => OutInv
  BY DEF Init, OutInv, NoOut
<1>2. OutInv /\ [Next]_vars => OutInv'
  BY OutInvNext
<1>. QED BY <1>1, <1>2, PTL DEF Spec

\* For an image of any size the geometry of the VHD footer describes the disk to
\* within a cylinder although its numbers are cut off to 16 and 8 bits, and if the
\* blocks of a VDI and their map can be counted in 32 bits (VdiCountable), the map
\* has an entry for each of them: whatever images were opened, offsets taken and
\* libraries chosen before.
THEOREM HeadersFit ==
  ASSUME MorphedSizeTyped
  PROVE  Spec => []HeaderFits
<1>1. Inv /\ OutInv => HeaderFits
  <2>. SUFFICES ASSUME Inv, OutInv, pc = "serve" PROVE HeaderFits
    BY DEF HeaderFits
  <2>1. Size \in Nat
    BY SizeTyped DEF Inv
  <2>2. ASSUME opt.out = "vdi", VdiCountable(Size)
        PROVE  VdiHeaderFits(Size, [blocks |-> out.header[1], offBlocks |-> out.header[2],
                                    offData |-> out.header[3], cbDisk |-> out.header[4]])
    <3>. DEFINE h == VdiHeader(Size)
    <3>1. VdiHeaderFits(Size, h)
      BY <2>1, <2>2, VdiFits
    <3>2. out.header = <<h.blocks, h.offBlocks, h.offData, h.cbDisk>>
      BY <2>2 DEF OutInv, Header
    <3>. HIDE DEF h
    <3>3. /\ out.header[1] = h.blocks /\ out.header[2] = h.offBlocks
          /\ out.header[3] = h.offData /\ out.header[4] = h.cbDisk
      BY <3>2
    <3>. QED BY <3>1, <3>3 DEF VdiHeaderFits
  <2>3. ASSUME opt.out = "vhd"
        PROVE  GeometryFits(Size, [c |-> out.header[1], h |-> out.header[2], s |-> out.header[3]])
    <3>. DEFINE g == VhdGeometry(Size)
    <3>1. GeometryFits(Size, g)
      BY <2>1, VhdFits
    <3>2. out.header = <<g.c, g.h, g.s>>
      BY <2>3 DEF OutInv, Header
    <3>. HIDE DEF g
    <3>3. out.header[1] = g.c /\ out.header[2] = g.h /\ out.header[3] = g.s
      BY <3>2
    <3>4. GeometryValid([c |-> g.c, h |-> g.h, s |-> g.s]) <=> GeometryValid(g)
      BY DEF GeometryValid
    <3>. QED BY <3>1, <3>3, <3>4 DEF GeometryFits
  <2>. QED BY <2>2, <2>3 DEF HeaderFits
<1>. QED BY <1>1, Invariance, OutInvariance, PTL

LEMMA AskedInit == Init => LineInv /\ ParsedInv /\ AskedInv
<1>. SUFFICES ASSUME Init PROVE LineInv /\ ParsedInv /\ AskedInv
  OBVIOUS
<1>1. LineInv /\ pc = "load" /\ args = argv /\ opt = NoOpt /\ out = NoOut
  BY DEF Init, LineInv
<1>2. argv \in Seq(Text) /\ Len(argv) \in Nat
  BY InitInv, LenProperties DEF Inv, Types
<1>3. Place = 1
  <2>1. Place = Len(argv) - Len(argv) + 1
    BY <1>1 DEF Place
  <2>. QED BY <1>2, <2>1
<1>4. ParsedPlaces({})
  <2>1. 1 \in Dashes(argv) => 1 \in OptionPlaces(argv)
    BY DEF OptionPlaces, ClosedPlaces
  <2>. QED BY <1>3, <2>1 DEF ParsedPlaces
<1>5. AsksFor(argv, {}, opt)
  BY <1>1 DEF AsksFor, Asked, NumberGiven, NoOpt
<1>6. ASSUME NEW files PROVE ImagesGiven(argv, {}, ParsedImages(files), files)
  <2>1. Ins(argv, {}) = {} /\ Cardinality({}) = 0
    BY FS_EmptySet DEF Ins
  <2>2. ParsedImages(files) = <<>>
    BY <1>1 DEF ParsedImages, NoOpt
  <2>. QED BY <2>1, <2>2 DEF ImagesGiven
<1>7. ParsedInv
  BY <1>4, <1>5, <1>6 DEF ParsedInv
<1>8. AskedInv
  BY <1>1 DEF AskedInv, NoOut, Opening, AllOpen, MorphSteps
<1>. QED BY <1>1, <1>7, <1>8

\* Whatever words a command line is made of, names of files that look like
\* options among them, and whatever steps could have failed: what is served is
\* what the options ask for, read from left to right by the rule that an option
\* stands first or where another one ends.  Every --in is an open image, the
\* last --offset and --sizelimit leave a part that lies inside each of them, and
\* the cache file is the last that was named, written only with --cache or
\* --owcache.
THEOREM ServedAsAsked ==
  ASSUME MorphedSizeTyped
  PROVE  Spec => []ServesWhatWasAsked
<1>1. Init => LineInv /\ ParsedInv /\ AskedInv
  BY AskedInit
<1>2. Inv /\ ArgsInv /\ OutInv /\ LineInv /\ ParsedInv /\ AskedInv /\ [Next]_vars
        => LineInv' /\ ParsedInv' /\ AskedInv'
  BY AskedNext
<1>3. Inv /\ AskedInv => ServesWhatWasAsked
  <2>. SUFFICES ASSUME Inv, AskedInv, pc = "serve" PROVE ServesWhatWasAsked
    BY DEF ServesWhatWasAsked
  <2>. DEFINE places == OptionPlaces(argv)
  <2>1. /\ AsksFor(argv, places, opt) /\ ImagesAsked(argv, places, opt.images)
        /\ Len(img) = Len(opt.images) /\ \A i \in 1..Len(img) : AsTold(i)
        /\ Size # 0 /\ morph.handle = "open"
        /\ out.cache = "open" <=> opt.cache # None
    BY DEF AskedInv, AllOpen, MorphSteps
  <2>2. opt.cache # None <=> Asked(argv, places, CacheOptions)
    BY <2>1 DEF AsksFor
  <2>3. \A i \in 1..Len(img) : img[i].handle = "open"
    BY DEF Inv, OpenedInv, AllOpen
  <2>4. Size \in Nat
    BY SizeTyped DEF Inv
  <2>5. Size > 0
    BY <2>1, <2>4
  <2>. QED BY <2>1, <2>2, <2>3, <2>5 DEF ServesWhatWasAsked, AsTold, OfItsType
<1>. QED BY <1>1, <1>2, <1>3, Invariance, ArgsInvariance, OutInvariance, PTL DEF Spec

=============================================================================
