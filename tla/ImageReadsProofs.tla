--------------------------- MODULE ImageReadsProofs ---------------------------
(***************************************************************************)
(* Proofs about ImageReads, for every set of images and options that can   *)
(* be mounted and every order of reads and failures: the types, the search *)
(* for a page of an AFF image, that what the images hold is given back     *)
(* once, and that what is read is the disk the images hold.                *)
(***************************************************************************)
EXTENDS MorphedDisk, SumProofs, SequenceTheorems, TLAPS

-----------------------------------------------------------------------------
(* Sequences and sums                                                      *)

\* The first elements of a sequence.
LEMMA Prefix ==
  ASSUME NEW T, NEW s \in Seq(T), NEW n \in 0..Len(s)
  PROVE  /\ SubSeq(s, 1, n) \in Seq(T) /\ Len(SubSeq(s, 1, n)) = n
         /\ DOMAIN SubSeq(s, 1, n) = 1..n
         /\ \A k \in 1..n : SubSeq(s, 1, n)[k] = s[k]
  OBVIOUS

LEMMA SumIsTotal == ASSUME NEW s PROVE SumOf(s) = Total(s, DOMAIN s)
  BY DEF SumOf, FoldSeq, FoldFunction, FoldFunctionOnSet, Total, MapThenSumSet,
         MapThenFoldSet

LEMMA SumType == ASSUME NEW s \in Seq(Nat) PROVE SumOf(s) \in Nat
<1>1. IsFiniteSet(1..Len(s)) /\ DOMAIN s = 1..Len(s) /\ s \in [1..Len(s) -> Nat]
  BY FS_Interval
<1>. QED BY <1>1, SumIsTotal, TotalType

LEMMA SumOfPrefix ==
  ASSUME NEW s \in Seq(Nat), NEW n \in 0..Len(s)
  PROVE  SumOf(SubSeq(s, 1, n)) = Total(s, 1..n)
<1>1. /\ DOMAIN SubSeq(s, 1, n) = 1..n
      /\ \A k \in 1..n : s[k] \in Nat /\ s[k] = SubSeq(s, 1, n)[k]
  BY Prefix
<1>2. IsFiniteSet(1..n)
  BY FS_Interval
<1>3. Total(s, 1..n) = Total(SubSeq(s, 1, n), 1..n)
  BY <1>1, <1>2, TotalSame
<1>. QED BY <1>1, <1>3, SumIsTotal

\* The sums of the first elements: where each of them begins.
LEMMA SumSteps ==
  ASSUME NEW s \in Seq(Nat)
  PROVE  /\ SumOf(SubSeq(s, 1, 0)) = 0
         /\ SumOf(SubSeq(s, 1, Len(s))) = SumOf(s)
         /\ \A n \in 0..Len(s) : SumOf(SubSeq(s, 1, n)) \in Nat
         /\ \A n \in 0..(Len(s) - 1) :
              SumOf(SubSeq(s, 1, n + 1)) = SumOf(SubSeq(s, 1, n)) + s[n + 1]
<1>1. SumOf(SubSeq(s, 1, 0)) = 0
  <2>1. 0 \in 0..Len(s) /\ 1..0 = {}
    OBVIOUS
  <2>2. SumOf(SubSeq(s, 1, 0)) = Total(s, 1..0)
    BY <2>1, SumOfPrefix
  <2>. QED BY <2>1, <2>2, TotalOfNothing
<1>2. SumOf(SubSeq(s, 1, Len(s))) = SumOf(s)
  BY SumOfPrefix, SumIsTotal
<1>3. \A n \in 0..Len(s) : SumOf(SubSeq(s, 1, n)) \in Nat
  BY Prefix, SumType
<1>4. ASSUME NEW n \in 0..(Len(s) - 1)
      PROVE  SumOf(SubSeq(s, 1, n + 1)) = SumOf(SubSeq(s, 1, n)) + s[n + 1]
  <2>1. /\ n \in 0..Len(s) /\ n + 1 \in 0..Len(s) /\ n + 1 \in 1..Len(s)
        /\ 1..n \in SUBSET (1..Len(s)) /\ n + 1 \in (1..Len(s)) \ (1..n)
        /\ 1..(n + 1) = (1..n) \cup {n + 1}
        /\ s \in [1..Len(s) -> Nat]
    OBVIOUS
  <2>2. IsFiniteSet(1..Len(s))
    BY FS_Interval
  <2>3. Total(s, (1..n) \cup {n + 1}) = s[n + 1] + Total(s, 1..n)
    <3>1. PICK S, r, x : S = 1..Len(s) /\ r = 1..n /\ x = n + 1
      OBVIOUS
    <3>2. IsFiniteSet(S) /\ s \in [S -> Nat] /\ r \in SUBSET S /\ x \in S \ r
      BY <2>1, <2>2, <3>1
    <3>3. Total(s, r \cup {x}) = s[x] + Total(s, r)
      BY <3>2, TotalWith
    <3>. QED BY <3>1, <3>3
  <2>4. /\ SumOf(SubSeq(s, 1, n)) = Total(s, 1..n)
        /\ SumOf(SubSeq(s, 1, n + 1)) = Total(s, (1..n) \cup {n + 1})
    BY <2>1, SumOfPrefix
  <2>5. Total(s, 1..n) \in Nat /\ s[n + 1] \in Nat
    BY <2>1, <2>2, TotalType
  <2>6. \A a, b \in Nat : a + b = b + a
    OBVIOUS
  <2>7. s[n + 1] + Total(s, 1..n) = Total(s, 1..n) + s[n + 1]
    BY <2>5, <2>6
  <2>. QED BY <2>3, <2>4, <2>7
<1>. QED BY <1>1, <1>2, <1>3, <1>4

\* The size of a raw image is the sum of the sizes of its pieces.
Lengths(pieces) == [k \in DOMAIN pieces |-> Len(pieces[k].bytes)]
RawUnfolds(pieces, g, S) ==
  g = [s \in SUBSET S |-> IF s = {} THEN 0
                          ELSE g[s \ {Pick(s)}] + Len(pieces[Pick(s)].bytes)]

LEMMA RawIsChoice ==
  ASSUME NEW f
  PROVE  RawSize(f) = (CHOOSE g : RawUnfolds(f.pieces, g, DOMAIN f.pieces))[DOMAIN f.pieces]
  BY DEF RawSize, FoldSeq, FoldFunction, FoldFunctionOnSet, MapThenFoldSet, Pick, RawUnfolds

LEMMA RawIsTotal ==
  ASSUME NEW f, IsFiniteSet(DOMAIN f.pieces),
         \A k \in DOMAIN f.pieces : Len(f.pieces[k].bytes) \in Nat
  PROVE  RawSize(f) = Total(Lengths(f.pieces), DOMAIN f.pieces)
<1>. DEFINE S == DOMAIN f.pieces
            w == Lengths(f.pieces)
            c == CHOOSE g : RawUnfolds(f.pieces, g, S)
            p == [s \in SUBSET S |-> Pick(s)]
<1>0. IsFiniteSet(S) /\ S \in SUBSET S /\ \A a, b \in Nat : a + b = b + a
  OBVIOUS
<1>1. w \in [S -> Nat] /\ \A k \in S : w[k] = Len(f.pieces[k].bytes)
  BY DEF Lengths
<1>2. \A s \in SUBSET S : s # {} => Pick(s) \in S /\ s \ {Pick(s)} \in SUBSET S
  BY PickIn
<1>3. PICK h : GivesTotals(w, h, S)
  <2>. HIDE DEF w
  <2>. QED BY <1>1, TotalIsUnfolding
<1>. HIDE DEF w
<1>4. RawUnfolds(f.pieces, h, S)
  <2>1. h \in [SUBSET S -> Nat] /\ Unfolds(w, h, S)
    BY <1>3 DEF GivesTotals
  <2>2. ASSUME NEW s \in SUBSET S
        PROVE  h[s] = IF s = {} THEN 0
                      ELSE h[s \ {Pick(s)}] + Len(f.pieces[Pick(s)].bytes)
    <3>1. h[s] = IF s = {} THEN 0 ELSE w[Pick(s)] + h[s \ {Pick(s)}]
      <4>. HIDE DEF S
      <4>1. Unfolds(w, h, S)
        BY <2>1
      <4>. QED BY <4>1, UnfoldsAt
    <3>2. CASE s # {}
      <4>1. PICK x \in S : x = Pick(s)
        BY <1>2, <3>2
      <4>2. w[x] \in Nat /\ h[s \ {x}] \in Nat /\ w[x] = Len(f.pieces[x].bytes)
        BY <1>1, <2>1
      <4>3. w[x] + h[s \ {x}] = h[s \ {x}] + Len(f.pieces[x].bytes)
        BY <1>0, <4>2
      <4>. QED BY <3>1, <3>2, <4>1, <4>3
    <3>. QED BY <3>1, <3>2
  <2>. HIDE DEF S
  <2>. QED BY <2>1, <2>2 DEF RawUnfolds
<1>5. RawUnfolds(f.pieces, c, S)
  BY <1>4
<1>6. RawSize(f) = c[S]
  BY RawIsChoice
<1>. HIDE DEF c
<1>7. ASSUME NEW s \in SUBSET S
      PROVE  c[s] = IF s = {} THEN 0
                    ELSE c[s \ {Pick(s)}] + Len(f.pieces[Pick(s)].bytes)
  <2>. HIDE DEF S
  <2>. QED BY <1>5 DEF RawUnfolds
<1>8. \A s \in SUBSET S : c[s] \in Nat
  <2>1. Picks(p, S)
    BY PickIn DEF Picks
  <2>2. c[{}] \in Nat
    <3>1. {} \in SUBSET S
      OBVIOUS
    <3>. HIDE DEF S
    <3>2. c[{}] = 0
      BY <1>7, <3>1
    <3>. QED BY <3>2
  <2>3. ASSUME NEW s \in SUBSET S, s # {}, c[s \ {p[s]}] \in Nat PROVE c[s] \in Nat
    <3>1. PICK x \in S : x = Pick(s)
      BY <1>2, <2>3
    <3>2. c[s] = c[s \ {x}] + Len(f.pieces[x].bytes) /\ c[s \ {x}] \in Nat
      BY <1>7, <2>3, <3>1
    <3>3. Len(f.pieces[x].bytes) \in Nat
      OBVIOUS
    <3>. QED BY <3>2, <3>3
  <2>. HIDE DEF p, S
  <2>4. PICK V : V = Nat
    OBVIOUS
  <2>5. c[{}] \in V /\ \A s \in SUBSET S : s # {} /\ c[s \ {p[s]}] \in V => c[s] \in V
    BY <2>2, <2>3, <2>4
  <2>6. \A s \in SUBSET S : c[s] \in V
    BY <1>0, <2>1, <2>5, FoldStays
  <2>. QED BY <2>4, <2>6
<1>9. Unfolds(w, c, S)
  <2>1. ASSUME NEW s \in SUBSET S
        PROVE  c[s] = IF s = {} THEN 0 ELSE w[Pick(s)] + c[s \ {Pick(s)}]
    <3>1. CASE s # {}
      <4>1. PICK x \in S : x = Pick(s)
        BY <1>2, <3>1
      <4>2. w[x] \in Nat /\ c[s \ {x}] \in Nat /\ w[x] = Len(f.pieces[x].bytes)
        BY <1>1, <1>8
      <4>3. w[x] + c[s \ {x}] = c[s \ {x}] + Len(f.pieces[x].bytes)
        BY <1>0, <4>2
      <4>. QED BY <1>7, <3>1, <4>1, <4>3
    <3>. QED BY <1>7, <3>1
  <2>2. c = [s \in SUBSET S |-> c[s]]
    <3>. HIDE DEF S
    <3>. QED BY <1>5 DEF RawUnfolds
  <2>. HIDE DEF S
  <2>. QED BY <2>1, <2>2 DEF Unfolds
<1>10. c[S] = h[S]
  <2>1. Unfolds(w, h, S)
    BY <1>3 DEF GivesTotals
  <2>. HIDE DEF S
  <2>. QED BY <1>0, <1>9, <2>1, UnfoldingUnique
<1>11. Total(w, S) = h[S]
  <2>. HIDE DEF S
  <2>. QED BY <1>3 DEF GivesTotals
<1>. QED BY <1>6, <1>10, <1>11 DEF w

LEMMA SequenceDomain ==
  ASSUME NEW s, IsSequence(s)
  PROVE  DOMAIN s = 1..Len(s) /\ Len(s) \in Nat /\ IsFiniteSet(DOMAIN s)
<1>1. DOMAIN s = 1..Len(s) /\ Len(s) \in Nat
  BY DEF IsSequence
<1>. QED BY <1>1, FS_Interval

LEMMA MinOfTwo ==
  ASSUME NEW a \in Int, NEW b \in Int
  PROVE  Min({a, b}) = IF a <= b THEN a ELSE b
  BY DEF Min

\* A part of a sequence, whatever it is a sequence of.
LEMMA CutProperties ==
  ASSUME NEW s, NEW ofs \in Int, NEW n \in Nat
  PROVE  /\ Len(Cut(s, ofs, n)) = n /\ DOMAIN Cut(s, ofs, n) = 1..n
         /\ \A k \in 1..n : Cut(s, ofs, n)[k] = s[ofs + k]
         /\ \E T : Cut(s, ofs, n) \in Seq(T)
<1>. DEFINE T == {s[i] : i \in (ofs + 1)..(ofs + n)}
            c == SubSeq(s, ofs + 1, ofs + n)
<1>1. \A i \in (ofs + 1)..(ofs + n) : s[i] \in T
  OBVIOUS
<1>2. /\ c \in Seq(T)
      /\ Len(c) = IF ofs + 1 <= ofs + n THEN (ofs + n) - (ofs + 1) + 1 ELSE 0
      /\ \A i \in 1..((ofs + n) - (ofs + 1) + 1) : c[i] = s[(ofs + 1) + i - 1]
  <2>. HIDE DEF T
  <2>. QED BY <1>1, SubSeqProperties
<1>. HIDE DEF c
<1>3. Len(c) = n /\ (ofs + n) - (ofs + 1) + 1 = n
  BY <1>2
<1>4. \A k \in 1..n : (ofs + 1) + k - 1 = ofs + k
  OBVIOUS
<1>5. DOMAIN c = 1..n
  BY <1>2, <1>3
<1>6. \E U : c \in Seq(U)
  BY <1>2
<1>. QED BY <1>2, <1>3, <1>4, <1>5, <1>6 DEF Cut, c

LEMMA RawSizes ==
  ASSUME NEW f, FileMakesSense("raw", f)
  PROVE  /\ RawSize(f) \in Nat
         /\ \A i \in DOMAIN f.pieces : PieceStart(f, i) \in Nat
<1>. DEFINE w == Lengths(f.pieces)
            S == DOMAIN f.pieces
<1>1. /\ S = 1..Len(f.pieces) /\ Len(f.pieces) \in Nat /\ IsFiniteSet(S)
      /\ \A k \in S : Len(f.pieces[k].bytes) \in Nat
  <2>1. IsSequence(f.pieces) /\ \A k \in S : Len(f.pieces[k].bytes) \in Nat
    BY DEF FileMakesSense
  <2>2. DOMAIN f.pieces = 1..Len(f.pieces) /\ Len(f.pieces) \in Nat /\ IsFiniteSet(DOMAIN f.pieces)
    BY <2>1, SequenceDomain
  <2>. QED BY <2>1, <2>2
<1>2. w \in [S -> Nat]
  BY <1>1 DEF Lengths
<1>3. RawSize(f) \in Nat
  <2>1. RawSize(f) = Total(w, S)
    BY <1>1, RawIsTotal
  <2>2. S \in SUBSET S
    OBVIOUS
  <2>. HIDE DEF w, S
  <2>. QED BY <1>1, <1>2, <2>1, <2>2, TotalType
<1>4. ASSUME NEW i \in S PROVE PieceStart(f, i) \in Nat
  <2>. DEFINE g == [pieces |-> SubSeq(f.pieces, 1, i - 1)]
              v == Lengths(g.pieces)
  <2>1. /\ DOMAIN g.pieces = 1..(i - 1)
        /\ \A k \in 1..(i - 1) : g.pieces[k] = f.pieces[k]
    <3>1. f.pieces = [k \in 1..Len(f.pieces) |-> f.pieces[k]]
      BY DEF FileMakesSense, IsSequence
    <3>2. PICK T : f.pieces \in Seq(T)
      <4>. DEFINE T == {f.pieces[k] : k \in 1..Len(f.pieces)}
      <4>1. f.pieces \in [1..Len(f.pieces) -> T]
        BY <3>1
      <4>2. f.pieces \in Seq(T)
          BY <1>1, <4>1
      <4>. HIDE DEF T
      <4>. QED BY <4>2
    <3>3. i - 1 \in 0..Len(f.pieces)
      BY <1>1
    <3>4. /\ DOMAIN SubSeq(f.pieces, 1, i - 1) = 1..(i - 1)
          /\ \A k \in 1..(i - 1) : SubSeq(f.pieces, 1, i - 1)[k] = f.pieces[k]
      BY <3>2, <3>3, Prefix
    <3>. QED BY <3>4
  <2>2. /\ IsFiniteSet(1..(i - 1)) /\ 1..(i - 1) \in SUBSET (1..(i - 1))
        /\ \A k \in 1..(i - 1) : k \in S
    <3>1. \A k \in 1..(i - 1) : k \in 1..Len(f.pieces)
      BY <1>1
    <3>2. i - 1 \in Int
      BY <1>1
    <3>3. IsFiniteSet(1..(i - 1))
      BY <3>2, FS_Interval
    <3>. QED BY <1>1, <3>1, <3>3
  <2>3. \A k \in 1..(i - 1) : Len(g.pieces[k].bytes) \in Nat
    BY <1>1, <2>1, <2>2
  <2>. HIDE DEF g
  <2>4. RawSize(g) = Total(v, 1..(i - 1))
    BY <2>1, <2>2, <2>3, RawIsTotal
  <2>5. v \in [1..(i - 1) -> Nat]
    BY <2>1, <2>3 DEF Lengths
  <2>6. Total(v, 1..(i - 1)) \in Nat
    <3>. HIDE DEF v
    <3>. QED BY <2>2, <2>5, TotalType
  <2>. QED BY <2>4, <2>6 DEF PieceStart, g
<1>. QED BY <1>3, <1>4

-----------------------------------------------------------------------------
(* How many chunks of each image a RAID uses                               *)

Fewer(n, m) == IF n = 0 \/ m < n THEN m ELSE n
ChunksUnfold(s, chunk, g, S) ==
  g = [r \in SUBSET S |-> IF r = {} THEN 0
                          ELSE Fewer(g[r \ {Max(r)}], s[Max(r)] \div chunk)]

LEMMA RaidIsChoice ==
  ASSUME NEW s, NEW chunk
  PROVE  RaidChunksPerImage(s, chunk) =
           (CHOOSE g : ChunksUnfold(s, chunk, g, DOMAIN s))[DOMAIN s]
  BY DEF RaidChunksPerImage, FoldLeft, MapThenFoldSet, ChunksUnfold, Fewer

\* A number, and if each of the images has a chunk, none has fewer, and one has
\* so many.
LEMMA RaidChunks ==
  ASSUME NEW s \in Seq(Nat), NEW chunk \in Positive
  PROVE  /\ RaidChunksPerImage(s, chunk) \in Nat
         /\ (\A k \in DOMAIN s : s[k] \div chunk # 0) =>
              /\ \A k \in DOMAIN s : RaidChunksPerImage(s, chunk) <= s[k] \div chunk
              /\ DOMAIN s # {} =>
                   \E k \in DOMAIN s : RaidChunksPerImage(s, chunk) = s[k] \div chunk
<1>. DEFINE S == DOMAIN s
            p == [r \in SUBSET S |-> Max(r)]
            e == [x \in S |-> [n \in Nat |-> Fewer(n, s[x] \div chunk)]]
            c == CHOOSE g : ChunksUnfold(s, chunk, g, S)
<1>1. /\ S = 1..Len(s) /\ IsFiniteSet(S) /\ S \in SUBSET S /\ {} \in SUBSET S
      /\ \A k \in S : s[k] \in Nat
  BY FS_Interval
<1>2. \A k \in S : s[k] \div chunk \in Nat
  BY <1>1 DEF Positive
<1>3. ASSUME NEW r \in SUBSET S, r # {}
      PROVE  Max(r) \in r /\ Max(r) \in S /\ r \ {Max(r)} \in SUBSET S
  <2>1. r \in SUBSET (0..Len(s)) /\ Len(s) \in Nat
    BY <1>1
  <2>. HIDE DEF S
  <2>2. Max(r) \in r
    BY <1>3, <2>1, Largest
  <2>. QED BY <2>2
<1>4. Picks(p, S)
  BY <1>3 DEF Picks
<1>5. e \in [S -> [Nat -> Nat]]
  BY <1>2 DEF Fewer
<1>6. PICK h : FoldsAll(p, e, 0, h, Nat, S)
  <2>1. 0 \in Nat
    OBVIOUS
  <2>. HIDE DEF p, e, S
  <2>. QED BY <1>1, <1>4, <1>5, <2>1, FoldExists
<1>7. ChunksUnfold(s, chunk, h, S)
  <2>1. ASSUME NEW r \in SUBSET S
        PROVE  h[r] = IF r = {} THEN 0
                      ELSE Fewer(h[r \ {Max(r)}], s[Max(r)] \div chunk)
    <3>1. CASE r = {}
      BY <1>6, <3>1 DEF FoldsAll
    <3>2. CASE r # {}
      <4>1. PICK x \in S : x = Max(r) /\ r \ {x} \in SUBSET S
        BY <1>3, <3>2
      <4>2. h[r] = e[x][h[r \ {x}]] /\ h[r \ {x}] \in Nat
        BY <1>6, <3>2, <4>1 DEF FoldsAll
      <4>3. e[x][h[r \ {x}]] = Fewer(h[r \ {x}], s[x] \div chunk)
        BY <4>2
      <4>. QED BY <3>2, <4>1, <4>2, <4>3
    <3>. QED BY <3>1, <3>2
  <2>2. h = [r \in SUBSET S |-> h[r]]
    <3>. HIDE DEF S, p, e
    <3>. QED BY <1>6 DEF FoldsAll
  <2>. HIDE DEF S
  <2>. QED BY <2>1, <2>2 DEF ChunksUnfold
<1>8. ChunksUnfold(s, chunk, c, S)
  BY <1>7
<1>9. RaidChunksPerImage(s, chunk) = c[S]
  BY RaidIsChoice
<1>. HIDE DEF c, e
<1>10. ASSUME NEW r \in SUBSET S
       PROVE  c[r] = IF r = {} THEN 0 ELSE Fewer(c[r \ {Max(r)}], s[Max(r)] \div chunk)
  <2>. HIDE DEF S
  <2>. QED BY <1>8 DEF ChunksUnfold
<1>. DEFINE All == \A k \in S : s[k] \div chunk # 0
            P == {r \in SUBSET S :
                    /\ c[r] \in Nat
                    /\ All => /\ r # {} => /\ c[r] # 0
                                           /\ \E k \in r : c[r] = s[k] \div chunk
                              /\ \A k \in r : c[r] <= s[k] \div chunk}
<1>11. {} \in P
  <2>1. c[{}] = 0
    <3>. HIDE DEF S
    <3>. QED BY <1>1, <1>10
  <2>. QED BY <1>1, <2>1
<1>12. ASSUME NEW r \in SUBSET S, r # {}, r \ {p[r]} \in P PROVE r \in P
  <2>1. PICK x \in S : x = Max(r) /\ x = p[r] /\ x \in r /\ r \ {x} \in SUBSET S
    BY <1>3, <1>12
  <2>2. PICK n \in Nat : n = c[r \ {x}]
    BY <1>12, <2>1
  <2>3. PICK m \in Nat : m = s[x] \div chunk
    BY <1>2
  <2>4. c[r] = Fewer(n, m)
    BY <1>10, <1>12, <2>1, <2>2, <2>3
  <2>5. All => /\ r \ {x} # {} => n # 0 /\ \E k \in r \ {x} : n = s[k] \div chunk
               /\ \A k \in r \ {x} : n <= s[k] \div chunk
    BY <1>12, <2>1, <2>2
  <2>6. All => m # 0
    BY <2>3
  <2>7. c[r] \in Nat
    BY <2>4 DEF Fewer
  <2>8. ASSUME All PROVE c[r] # 0 /\ \A k \in r : c[r] <= s[k] \div chunk
    <3>1. c[r] # 0 /\ c[r] <= m /\ (n # 0 => c[r] <= n)
      BY <2>4, <2>6, <2>8 DEF Fewer
    <3>2. ASSUME NEW k \in r PROVE c[r] <= s[k] \div chunk
      <4>1. CASE k = x
        BY <2>3, <3>1, <4>1
      <4>2. CASE k # x
        <5>0. k \in r \ {x} /\ k \in S /\ r \ {x} # {}
          BY <4>2
        <5>1. n # 0 /\ n <= s[k] \div chunk /\ s[k] \div chunk \in Nat
          <6>. HIDE DEF S, All
          <6>. QED BY <1>2, <2>5, <2>8, <5>0
        <5>2. c[r] <= n
          BY <3>1, <5>1
        <5>. HIDE DEF S, All, P
        <5>. QED BY <2>2, <2>7, <5>1, <5>2
      <4>. QED BY <4>1, <4>2
    <3>. QED BY <3>1, <3>2
  <2>9. ASSUME All PROVE \E k \in r : c[r] = s[k] \div chunk
    <3>1. CASE c[r] = m
      BY <2>1, <2>3, <3>1
    <3>2. CASE c[r] # m
      <4>1. c[r] = n /\ n # 0
        BY <2>4, <3>2 DEF Fewer
      <4>2. r \ {x} # {}
        <5>. SUFFICES ASSUME r \ {x} = {} PROVE FALSE
          OBVIOUS
        <5>1. n = c[{}]
          BY <2>2
        <5>2. c[{}] = 0
          <6>. HIDE DEF S
          <6>. QED BY <1>1, <1>10
        <5>. QED BY <4>1, <5>1, <5>2
      <4>. HIDE DEF All
      <4>. QED BY <2>5, <2>9, <4>1, <4>2
    <3>. QED BY <3>1, <3>2
  <2>. QED BY <2>7, <2>8, <2>9
<1>13. S \in P
  <2>. HIDE DEF P, S, p
  <2>1. \A r \in SUBSET S : r # {} /\ r \ {p[r]} \in P => r \in P
    BY <1>12
  <2>2. IsFiniteSet(S)
    BY <1>1
  <2>3. PICK Q : Q = P
    OBVIOUS
  <2>4. {} \in Q /\ \A r \in SUBSET S : r # {} /\ r \ {p[r]} \in Q => r \in Q
    BY <1>11, <2>1, <2>3
  <2>a. PICK q : q = p
    OBVIOUS
  <2>b. PICK R : R = S
    OBVIOUS
  <2>c. Picks(q, R)
    BY <1>4, <2>a, <2>b
  <2>d. IsFiniteSet(R)
    BY <2>2, <2>b
  <2>e. {} \in Q
    BY <2>4
  <2>f. \A r \in SUBSET R : r # {} /\ r \ {q[r]} \in Q => r \in Q
    BY <2>4, <2>a, <2>b
  <2>5. \A r \in SUBSET R : r \in Q
    BY <2>c, <2>d, <2>e, <2>f, SubsetInduction
  <2>. QED BY <1>1, <2>3, <2>5, <2>b
<1>. QED BY <1>9, <1>13

-----------------------------------------------------------------------------
(* One step of a read                                                      *)

Sequence(s) == \E S : s \in Seq(S)

LEMMA FunctionSequence ==
  ASSUME NEW n \in Nat, NEW s, DOMAIN s = 1..n, s = [k \in 1..n |-> s[k]]
  PROVE  Sequence(s) /\ Len(s) = n
<1>. DEFINE S == {s[k] : k \in 1..n}
<1>1. s \in [1..n -> S]
  OBVIOUS
<1>. HIDE DEF S
<1>2. s \in Seq(S) /\ Len(s) = n
  BY <1>1
<1>. QED BY <1>2 DEF Sequence

\* What a step answers is no more than what was asked for.
Answers(answer, count) ==
  answer.ok => Len(answer.data) \in 0..count /\ Sequence(answer.data)

LEMMA GotCut ==
  ASSUME NEW s, NEW ofs \in Int, NEW count \in Nat, NEW n \in 0..count, NEW io
  PROVE  Answers(Got(Cut(s, ofs, n), io), count)
<1>1. n \in Nat
  OBVIOUS
<1>2. Len(Cut(s, ofs, n)) = n /\ Sequence(Cut(s, ofs, n))
  BY <1>1, CutProperties DEF Sequence
<1>. QED BY <1>2 DEF Answers, Got

LEMMA RefusedAnswers == ASSUME NEW count PROVE Answers(Refused, count)
  BY DEF Answers, Refused

LEMMA ZerosSequence ==
  ASSUME NEW count \in Nat, NEW n \in 0..count
  PROVE  Len(Zeros(n)) = n /\ Sequence(Zeros(n))
<1>1. PICK s : s = Zeros(n)
  OBVIOUS
<1>2. DOMAIN s = 1..n /\ s = [k \in 1..n |-> s[k]] /\ n \in Nat
  BY <1>1 DEF Zeros
<1>3. Len(s) = n /\ Sequence(s)
  BY <1>2, FunctionSequence
<1>. QED BY <1>1, <1>3

LEMMA InUnitType ==
  ASSUME NEW size \in Positive, NEW seek \in Nat, NEW count \in Nat
  PROVE  /\ seek % size \in 0..(size - 1) /\ seek \div size \in Nat
         /\ seek = ((seek \div size) * size) + (seek % size)
         /\ InUnit(size, seek % size, count) \in 0..count
         /\ count # 0 => InUnit(size, seek % size, count) # 0
         /\ InUnit(size, seek % size, count) + (seek % size) <= size
<1>1. /\ seek % size \in 0..(size - 1) /\ seek \div size \in Nat
      /\ seek = ((seek \div size) * size) + (seek % size)
  BY DEF Positive
<1>2. PICK r \in 0..(size - 1) : r = seek % size
  BY <1>1
<1>3. InUnit(size, r, count) = IF count <= size - r THEN count ELSE size - r
  <2>1. size - r \in Int /\ count \in Int
    BY DEF Positive
  <2>. QED BY <2>1, MinOfTwo DEF InUnit
<1>4. size \in Nat /\ size # 0
  BY DEF Positive
<1>. QED BY <1>1, <1>2, <1>3, <1>4

LEMMA RawAnswers ==
  ASSUME NEW f, FileMakesSense("raw", f), NEW seek \in Nat, NEW count \in Nat
  PROVE  Answers(RawRead0(f, seek, count), count)
<1>. DEFINE here == {i \in DOMAIN f.pieces :
                       seek \in PieceStart(f, i)
                                ..(PieceStart(f, i) + Len(f.pieces[i].bytes) - 1)}
            i == CHOOSE j \in here : TRUE
            bytes == f.pieces[i].bytes
            ofs == seek - PieceStart(f, i)
            n == Min({count, Len(bytes) - ofs})
<1>1. RawRead0(f, seek, count) =
        IF here = {} \/ count = 0 THEN Refused ELSE Got(Cut(bytes, ofs, n), TRUE)
  BY DEF RawRead0, PieceStart
<1>2. CASE here = {} \/ count = 0
  BY <1>1, <1>2, RefusedAnswers
<1>3. CASE ~(here = {} \/ count = 0)
  <2>1. i \in here
    BY <1>3
  <2>2. PICK start \in Nat : start = PieceStart(f, i)
    BY <2>1, RawSizes
  <2>3. PICK len \in Nat : len = Len(bytes)
    BY <2>1 DEF FileMakesSense
  <2>4. seek \in start..(start + len - 1)
    BY <2>1, <2>2, <2>3
  <2>5. PICK o \in Int : o = ofs /\ o = seek - start /\ len - o \in Nat
    <3>1. ofs = seek - start
      BY <2>2
    <3>2. seek - start \in Int /\ len - (seek - start) \in Nat
      BY <2>4
    <3>. QED BY <3>1, <3>2
  <2>6. n \in 0..count
    <3>1. n = Min({count, len - o})
      BY <2>3, <2>5
    <3>2. Min({count, len - o}) = IF count <= len - o THEN count ELSE len - o
      BY <2>5, MinOfTwo
    <3>. QED BY <2>5, <3>1, <3>2
  <2>. HIDE DEF n, ofs, bytes
  <2>7. Answers(Got(Cut(bytes, o, n), TRUE), count)
    BY <2>6, GotCut
  <2>. QED BY <1>1, <1>3, <2>5, <2>7
<1>. QED BY <1>2, <1>3

LEMMA QcowAnswers ==
  ASSUME NEW f, FileMakesSense("qcow", f), NEW seek \in Nat, NEW count \in Nat
  PROVE  Answers(QcowRead0(f, seek, count), count)
<1>. DEFINE ofs == seek % f.clusterSize
            n == InUnit(f.clusterSize, ofs, count)
            answer == QcowRead0(f, seek, count)
<1>1. n \in 0..count /\ ofs \in Nat /\ ofs \in Int
  <2>1. f.clusterSize \in Positive
    BY DEF FileMakesSense
  <2>2. PICK size \in Positive : size = f.clusterSize
    BY <2>1
  <2>3. seek % size \in 0..(size - 1) /\ InUnit(size, seek % size, count) \in 0..count
    BY InUnitType
  <2>4. size \in Nat
    BY DEF Positive
  <2>. QED BY <2>2, <2>3, <2>4
<1>2. \/ answer = Refused
      \/ \E io : answer = Got(Zeros(n), io)
      \/ \E adr : answer = Got(Cut(f.packed[adr], ofs, n), TRUE)
      \/ \E adr : answer = Got(QcowFileRead(f.clusters[adr], ofs, n), TRUE)
  BY DEF QcowRead0
<1>. HIDE DEF n, ofs, answer
<1>3. \A adr : Answers(Got(Cut(f.packed[adr], ofs, n), TRUE), count)
  BY <1>1, GotCut
<1>4. \A io : Answers(Got(Zeros(n), io), count)
  <2>1. Len(Zeros(n)) = n /\ Sequence(Zeros(n))
    BY <1>1, ZerosSequence
  <2>. QED BY <1>1, <2>1 DEF Answers, Got
<1>5. \A adr : Answers(Got(QcowFileRead(f.clusters[adr], ofs, n), TRUE), count)
  <2>1. \A adr : /\ Len(QcowFileRead(f.clusters[adr], ofs, n)) = n
                 /\ Sequence(QcowFileRead(f.clusters[adr], ofs, n))
    <3>. SUFFICES ASSUME NEW adr
                  PROVE  /\ Len(QcowFileRead(f.clusters[adr], ofs, n)) = n
                         /\ Sequence(QcowFileRead(f.clusters[adr], ofs, n))
      OBVIOUS
    <3>1. PICK s : s = QcowFileRead(f.clusters[adr], ofs, n)
      OBVIOUS
    <3>2. DOMAIN s = 1..n /\ s = [k \in 1..n |-> s[k]] /\ n \in Nat
      BY <1>1, <3>1 DEF QcowFileRead
    <3>3. Len(s) = n /\ Sequence(s)
      BY <3>2, FunctionSequence
    <3>. QED BY <3>1, <3>3
  <2>. QED BY <1>1, <2>1 DEF Answers, Got
<1>6. Answers(Refused, count)
  BY RefusedAnswers
<1>7. Answers(answer, count)
  BY <1>2, <1>3, <1>4, <1>5, <1>6
<1>. QED BY <1>7 DEF answer

LEMMA VdiAnswers ==
  ASSUME NEW f, FileMakesSense("vdi", f), f.blockSize # 0,
         NEW seek \in Nat, NEW count \in Nat
  PROVE  Answers(VdiRead0(f, seek, count), count)
<1>. DEFINE ofs == seek % f.blockSize
            block == seek \div f.blockSize
            n == InUnit(f.blockSize, ofs, count)
            b == f.bmap[block + 1]
            adr == b * f.blockSize + ofs
            answer == VdiRead0(f, seek, count)
<1>1. /\ n \in 0..count /\ ofs \in Nat /\ block \in Nat /\ f.blockSize \in Nat
  <2>1. f.blockSize \in Positive
    BY DEF FileMakesSense, Positive
  <2>2. PICK size \in Positive : size = f.blockSize
    BY <2>1
  <2>3. /\ seek % size \in 0..(size - 1) /\ InUnit(size, seek % size, count) \in 0..count
        /\ seek \div size \in Nat
    BY InUnitType
  <2>4. size \in Nat
    BY DEF Positive
  <2>. QED BY <2>2, <2>3, <2>4
<1>2. CASE block >= Len(f.bmap)
  <2>1. answer = Refused
    BY <1>2 DEF VdiRead0
  <2>. HIDE DEF answer
  <2>2. Answers(answer, count)
    BY <2>1, RefusedAnswers
  <2>. QED BY <2>2 DEF answer
<1>3. CASE ~(block >= Len(f.bmap))
  <2>1. f.bmap[block + 1] \in Int
    BY <1>1, <1>3 DEF FileMakesSense, Discarded, Unallocated
  <2>2. adr \in Int
    BY <1>1, <2>1
  <2>3. \/ answer = Refused
        \/ answer = Got(Zeros(n), FALSE)
        \/ answer = Got(Cut(f.data, adr, n), TRUE)
    <3>1. answer = CASE b \in {Discarded, Unallocated} -> Got(Zeros(n), FALSE)
                     [] adr + n > Len(f.data) -> Refused
                     [] OTHER -> Got(Cut(f.data, adr, n), TRUE)
      BY <1>3 DEF VdiRead0
    <3>2. PICK p, q : /\ p <=> b \in {Discarded, Unallocated}
                      /\ q <=> adr + n > Len(f.data)
      OBVIOUS
    <3>3. PICK x, y, z : x = Got(Zeros(n), FALSE) /\ y = Refused /\ z = Got(Cut(f.data, adr, n), TRUE)
      OBVIOUS
    <3>4. answer = CASE p -> x [] q -> y [] OTHER -> z
      BY <3>1, <3>2, <3>3
    <3>. HIDE DEF n, ofs, answer, adr, block, b
    <3>5. answer \in {x, y, z}
      BY <3>4
    <3>. QED BY <3>3, <3>5
  <2>. HIDE DEF n, ofs, answer, adr, block
  <2>4. Answers(Got(Cut(f.data, adr, n), TRUE), count)
    BY <1>1, <2>2, GotCut
  <2>5. Answers(Got(Zeros(n), FALSE), count)
    <3>1. Len(Zeros(n)) = n /\ Sequence(Zeros(n))
      BY <1>1, ZerosSequence
    <3>. QED BY <1>1, <3>1 DEF Answers, Got
  <2>6. Answers(answer, count)
    BY <2>3, <2>4, <2>5, RefusedAnswers
  <2>. QED BY <2>6 DEF answer
<1>. QED BY <1>2, <1>3

LEMMA LibraryAnswers ==
  ASSUME NEW f, NEW seek \in Nat, NEW count \in Nat
  PROVE  Answers(LibraryRead(f, seek, count), count)
<1>1. seek \in Int /\ count \in 0..count
  OBVIOUS
<1>2. Answers(Got(Cut(f.bytes, seek, count), TRUE), count)
  BY <1>1, GotCut
<1>. QED BY <1>2, RefusedAnswers DEF LibraryRead

LEMMA ImagesCount ==
  ASSUME setup \in DOMAIN Setups PROVE Len(Images) \in Nat /\ DOMAIN Images = 1..Len(Images)
<1>1. IsSequence(Images)
  BY MountsMakeSense DEF MountMakesSense, Images, Setup
<1>. QED BY <1>1, SequenceDomain

\* Image i, which makes sense as an image of its format.
LEMMA ImageMakesSense ==
  ASSUME setup \in DOMAIN Setups, NEW i \in 0..(Len(Images) - 1)
  PROVE  /\ Len(Images) \in Nat /\ Format(i) \in Formats
         /\ FileMakesSense(Format(i), File(i)) /\ Size(i) \in Nat
         /\ i + 1 \in DOMAIN Images
<1>1. MountMakesSense(Setup)
  BY MountsMakeSense DEF Setup
<1>2. DOMAIN Images = 1..Len(Images) /\ Len(Images) \in Nat
  BY ImagesCount
<1>3. i + 1 \in DOMAIN Images
  BY <1>2
<1>4. Format(i) \in Formats /\ FileMakesSense(Format(i), File(i))
  BY <1>1, <1>3 DEF MountMakesSense, Format, File, Images
<1>5. Size(i) \in Nat
  <2>1. CASE Format(i) = "raw"
    <3>1. Size(i) = RawSize(File(i))
      BY <2>1 DEF Size, ImageSize, Format, File
    <3>2. FileMakesSense("raw", File(i))
      BY <1>4, <2>1
    <3>. QED BY <3>1, <3>2, RawSizes
  <2>2. CASE Format(i) = "aaff"
    <3>1. Size(i) = A!ImageSize(File(i))
      BY <2>2 DEF Size, ImageSize, Format, File
    <3>. QED BY <1>4, <2>2, <3>1 DEF FileMakesSense, Positive
  <2>3. CASE Format(i) \notin {"raw", "aaff"}
    <3>1. Size(i) = File(i).size
      BY <2>3 DEF Size, ImageSize, Format, File
    <3>. QED BY <1>4, <2>3, <3>1 DEF FileMakesSense, Formats, Looped, Positive
  <2>. QED BY <2>1, <2>2, <2>3
<1>. QED BY <1>2, <1>3, <1>4, <1>5

LEMMA ReadAnswers ==
  ASSUME setup \in DOMAIN Setups, NEW i \in 0..(Len(Images) - 1), Opens(i),
         NEW seek \in Nat, NEW count \in Nat
  PROVE  Answers(Read0(i, seek, count), count)
<1>1. FileMakesSense(Format(i), File(i))
  BY ImageMakesSense
<1>2. CASE Format(i) = "raw"
  <2>1. Read0(i, seek, count) = RawRead0(File(i), seek, count)
    BY <1>2 DEF Read0
  <2>2. FileMakesSense("raw", File(i))
    BY <1>1, <1>2
  <2>. QED BY <2>1, <2>2, RawAnswers
<1>3. CASE Format(i) = "qcow"
  <2>1. Read0(i, seek, count) = QcowRead0(File(i), seek, count)
    BY <1>3 DEF Read0
  <2>2. FileMakesSense("qcow", File(i))
    BY <1>1, <1>3
  <2>. QED BY <2>1, <2>2, QcowAnswers
<1>4. CASE Format(i) = "vdi"
  <2>1. Read0(i, seek, count) = VdiRead0(File(i), seek, count)
    BY <1>4 DEF Read0
  <2>2. FileMakesSense("vdi", File(i))
    BY <1>1, <1>4
  <2>3. Opens(i) = VdiOpens(File(i))
    BY <1>4 DEF Opens
  <2>4. File(i).blockSize # 0
    BY <2>3 DEF VdiOpens, VdiHeaderValid
  <2>. QED BY <2>1, <2>2, <2>4, VdiAnswers
<1>5. CASE Format(i) \notin {"raw", "qcow", "vdi"}
  <2>1. Read0(i, seek, count) = LibraryRead(File(i), seek, count)
    BY <1>5 DEF Read0
  <2>. QED BY <2>1, LibraryAnswers
<1>. QED BY <1>2, <1>3, <1>4, <1>5

-----------------------------------------------------------------------------
(* Division                                                                *)

LEMMA DivMod ==
  ASSUME NEW a \in Nat, NEW c \in Positive
  PROVE  /\ a \div c \in Nat /\ a % c \in 0..(c - 1) /\ c \in Nat
         /\ (a \div c) * c \in Nat
         /\ a = ((a \div c) * c) + (a % c)
  BY DEF Positive

\* What a uint32_t keeps of a difference.
LEMMA Remainder ==
  ASSUME NEW x \in Int, NEW w \in Positive
  PROVE  /\ x % w \in 0..(w - 1) /\ x % w \in Nat /\ w \in Nat
         /\ x \in 0..(w - 1) => x % w = x
  BY DEF Positive

LEMMA TimesOrder ==
  ASSUME NEW a \in Nat, NEW b \in Nat, NEW c \in Nat
  PROVE  /\ a * c \in Nat /\ b * c \in Nat
         /\ a <= b => a * c <= b * c
         /\ a < b => (a * c) + c <= b * c
<1>1. a * c \in Nat /\ b * c \in Nat
  OBVIOUS
<1>2. ASSUME a <= b PROVE a * c <= b * c
  <2>1. PICK d \in Nat : b = a + d
    <3>1. b - a \in Nat /\ b = a + (b - a)
      BY <1>2
    <3>. QED BY <3>1
  <2>2. b * c = (a * c) + (d * c) /\ d * c \in Nat
    BY <2>1
  <2>. QED BY <1>1, <2>2
<1>3. ASSUME a < b PROVE (a * c) + c <= b * c
  <2>1. PICK d \in Nat : b = a + 1 + d
    <3>1. b - a - 1 \in Nat /\ b = a + 1 + (b - a - 1)
      BY <1>3
    <3>. QED BY <3>1
  <2>2. b * c = (a * c) + c + (d * c) /\ d * c \in Nat
    BY <2>1
  <2>. QED BY <1>1, <2>2
<1>. QED BY <1>1, <1>2, <1>3

\* A quotient is known from what it leaves.
LEMMA Quotient ==
  ASSUME NEW a \in Nat, NEW b \in Nat, NEW c \in Positive
  PROVE  /\ a < b * c => a \div c < b
         /\ b * c <= a => b <= a \div c
<1>1. PICK q \in Nat, r \in 0..(c - 1) : q = a \div c /\ r = a % c /\ a = (q * c) + r
  BY DivMod
<1>2. c \in Nat /\ c # 0
  BY DEF Positive
<1>3. ASSUME a < b * c PROVE q < b
  <2>. SUFFICES ASSUME b <= q PROVE FALSE
    OBVIOUS
  <2>1. b * c <= q * c /\ b * c \in Nat /\ q * c \in Nat
    BY <1>2, TimesOrder
  <2>. QED BY <1>1, <1>3, <2>1
<1>4. ASSUME b * c <= a PROVE b <= q
  <2>. SUFFICES ASSUME q < b PROVE FALSE
    OBVIOUS
  <2>1. (q * c) + c <= b * c /\ b * c \in Nat /\ q * c \in Nat
    BY <1>2, TimesOrder
  <2>. QED BY <1>1, <1>2, <1>4, <2>1
<1>. QED BY <1>1, <1>3, <1>4

-----------------------------------------------------------------------------
(* The pages of an AFF image                                               *)

LEMMA SameMinMax == ASSUME NEW S PROVE A!Min(S) = Min(S) /\ A!Max(S) = Max(S)
  BY DEF A!Min, Min, A!Max, Max

LEMMA CeilDivType ==
  ASSUME NEW a \in Positive, NEW c \in Positive
  PROVE  /\ A!CeilDiv(a, c) \in Positive
         /\ (A!CeilDiv(a, c) - 1) * c \in Nat /\ (A!CeilDiv(a, c) - 1) * c < a
         /\ a <= A!CeilDiv(a, c) * c
<1>1. a \in Nat /\ c \in Nat /\ a # 0 /\ c # 0 /\ a + c - 1 \in Nat
  BY DEF Positive
<1>2. PICK q \in Nat, r \in 0..(c - 1) :
        q = (a + c - 1) \div c /\ a + c - 1 = (q * c) + r
  BY <1>1, DivMod
<1>3. q * c \in Nat
  BY <1>1
<1>4. q # 0
  <2>. SUFFICES ASSUME q = 0 PROVE FALSE
    OBVIOUS
  <2>1. q * c = 0
    BY <1>1
  <2>. QED BY <1>1, <1>2, <2>1
<1>5. (q - 1) * c = (q * c) - c /\ (q - 1) * c \in Nat
  BY <1>1, <1>4
<1>6. (q - 1) * c < a /\ a <= q * c
  BY <1>1, <1>2, <1>3, <1>5
<1>. QED BY <1>2, <1>4, <1>5, <1>6 DEF A!CeilDiv, Positive

LEMMA AaffPages ==
  ASSUME NEW f, FileMakesSense("aaff", f)
  PROVE  /\ A!TotalPages(f) \in Positive /\ A!PagesPerEntry(f) \in Positive
         /\ A!PagesPerEntry(f) <= A!TotalPages(f)
         /\ f.size \in Positive /\ f.pageSize \in Positive
         /\ Len(f.pages) \in 1..A!TotalPages(f)
<1>1. /\ f.size \in Positive /\ f.pageSize \in Positive /\ f.entries \in Positive
      /\ A!ImageSize(f) \in Positive /\ Len(f.pages) \in 1..A!TotalPages(f)
  BY DEF FileMakesSense
<1>2. PICK size \in Positive, pageSize \in Positive, entries \in Positive :
        size = A!ImageSize(f) /\ pageSize = f.pageSize /\ entries = f.entries
  BY <1>1
<1>3. A!CeilDiv(size, pageSize) \in Positive
  BY CeilDivType
<1>4. PICK t \in Positive : t = A!TotalPages(f) /\ t = A!CeilDiv(size, pageSize)
  BY <1>2, <1>3 DEF A!TotalPages
<1>5. PICK m \in Positive : m = Min({entries, t})
  <2>1. entries \in Int /\ t \in Int
    BY DEF Positive
  <2>2. Min({entries, t}) = IF entries <= t THEN entries ELSE t
    BY <2>1, MinOfTwo
  <2>. QED BY <2>2
<1>6. A!PagesPerEntry(f) = A!CeilDiv(t, m)
  BY <1>2, <1>4, <1>5, SameMinMax DEF A!PagesPerEntry
<1>7. PICK q \in Positive : q = A!CeilDiv(t, m) /\ (q - 1) * m < t
  BY CeilDivType
<1>8. q <= t
  <2>1. q - 1 \in Nat /\ m \in Nat /\ 1 <= m /\ 1 \in Nat /\ t \in Nat
    BY DEF Positive
  <2>2. PICK d \in Nat : d = q - 1
    BY <2>1
  <2>3. 1 * d <= m * d /\ m * d = d * m /\ 1 * d = d /\ m * d \in Nat
    BY <2>1, TimesOrder
  <2>4. d < t
    BY <1>7, <2>1, <2>2, <2>3
  <2>. QED BY <2>1, <2>2, <2>4 DEF Positive
<1>. QED BY <1>1, <1>4, <1>6, <1>7, <1>8

\* The seek array has an entry for page 0, and one for each page if its length
\* was not rounded down.
LEMMA PageEntry ==
  ASSUME NEW f, FileMakesSense("aaff", f), NEW page \in 0..(A!TotalPages(f) - 1)
  PROVE  /\ page \div A!PagesPerEntry(f) \in Nat
         /\ 0 \in A!SeekEntries(f)
         /\ \A e \in 0..(page \div A!PagesPerEntry(f)) :
              /\ A!SeeksCover(f) => e \in A!SeekEntries(f)
              /\ e * A!PagesPerEntry(f) \in 0..page
         /\ page % A!PagesPerEntry(f) = 0 =>
              page = (page \div A!PagesPerEntry(f)) * A!PagesPerEntry(f)
<1>1. PICK t \in Positive, c \in Positive :
        t = A!TotalPages(f) /\ c = A!PagesPerEntry(f) /\ c <= t
  BY AaffPages
<1>2. page \in Nat /\ t \in Nat /\ c \in Nat /\ page < t
  BY <1>1 DEF Positive
<1>3. PICK n \in Nat : n = t \div c /\ 1 <= n /\ (t % c = 0 => t = n * c)
  <2>1. t = ((t \div c) * c) + (t % c) /\ t \div c \in Nat /\ (t \div c) * c \in Nat
    BY <1>2, DivMod
  <2>2. t % c = 0 => t = (t \div c) * c
    BY <2>1
  <2>3. 1 <= t \div c
    <3>1. 1 * c <= t /\ 1 \in Nat
      BY <1>1, <1>2
    <3>. QED BY <1>2, <3>1, Quotient
  <2>. QED BY <2>1, <2>2, <2>3
<1>4. PICK q \in Nat, r \in 0..(c - 1) :
        q = page \div c /\ r = page % c /\ page = (q * c) + r
  BY <1>2, DivMod
<1>5. t % c = 0 => q < n
  BY <1>2, <1>3, <1>4, Quotient
<1>6. A!SeekEntries(f) = 0..(n - 1) /\ (A!SeeksCover(f) <=> t % c = 0)
  BY <1>1, <1>3 DEF A!SeekEntries, A!SeeksCover
<1>7. ASSUME NEW e \in 0..q
      PROVE  (A!SeeksCover(f) => e \in A!SeekEntries(f)) /\ e * c \in 0..page
  <2>1. e \in Nat /\ e <= q
    OBVIOUS
  <2>2. e * c <= q * c /\ e * c \in Nat /\ q * c \in Nat
    BY <1>2, <2>1, TimesOrder
  <2>3. e * c <= page
    BY <1>2, <1>4, <2>2
  <2>. QED BY <1>2, <1>5, <1>6, <2>1, <2>2, <2>3
<1>8. page % c = 0 => page = q * c
  BY <1>2, <1>4
<1>9. 0 \in A!SeekEntries(f)
  BY <1>3, <1>6
<1>. QED BY <1>1, <1>4, <1>7, <1>8, <1>9

\* A page that is in the file, which is one that the code counts.
LEMMA PageThere ==
  ASSUME NEW f, FileMakesSense("aaff", f), NEW page \in 0..(Len(f.pages) - 1)
  PROVE  /\ page \in 0..(A!TotalPages(f) - 1) /\ page \in Nat /\ Len(f.pages) \in Nat
         /\ page + 1 \in 0..Len(f.pages)
         /\ page * f.pageSize < f.size /\ Len(f.pages[page + 1]) = A!PageLen(f, page)
<1>1. A!TotalPages(f) \in Nat /\ Len(f.pages) \in 1..A!TotalPages(f)
  BY AaffPages DEF Positive
<1>2. page * f.pageSize < f.size /\ Len(f.pages[page + 1]) = A!PageLen(f, page)
  BY DEF FileMakesSense
<1>. QED BY <1>1, <1>2

LEMMA PageLenType ==
  ASSUME NEW f, FileMakesSense("aaff", f), NEW page \in 0..(Len(f.pages) - 1)
  PROVE  /\ A!PageLen(f, page) \in Positive
         /\ \A ofs \in 0..(f.pageSize - 1) :
              (page * f.pageSize) + ofs < f.size => ofs < A!PageLen(f, page)
<1>1. PICK c \in Positive, size \in Positive : c = f.pageSize /\ size = f.size
  BY AaffPages
<1>2. page \in Nat /\ c \in Nat /\ c # 0 /\ size \in Nat
  BY PageThere DEF Positive
<1>3. page * c \in Nat
  BY <1>2
<1>4. PICK p \in Nat : p = page * c /\ p < size
  BY <1>1, <1>3, PageThere
<1>5. A!PageLen(f, page) = Min({c, size - p})
  BY <1>1, <1>4, SameMinMax DEF A!PageLen
<1>6. Min({c, size - p}) = IF c <= size - p THEN c ELSE size - p
  BY <1>2, MinOfTwo
<1>7. Min({c, size - p}) \in Positive
  BY <1>2, <1>4, <1>6 DEF Positive
<1>8. ASSUME NEW ofs \in 0..(c - 1), p + ofs < size PROVE ofs < Min({c, size - p})
  BY <1>2, <1>6, <1>8
<1>. QED BY <1>1, <1>4, <1>5, <1>7, <1>8

\* A page is no longer than what a uint32_t can count.
LEMMA PageInWord ==
  ASSUME NEW f, FileMakesSense("aaff", f), NEW page \in 0..(Len(f.pages) - 1)
  PROVE  A!PageLen(f, page) < Word
<1>1. PICK c \in Positive, size \in Positive, w \in Nat :
        c = f.pageSize /\ size = f.size /\ w = Word /\ c < w
  BY ImageConstants DEF FileMakesSense, Positive
<1>2. PICK p \in Int : p = page * c
  <2>1. page \in Nat /\ c \in Nat
    BY PageThere DEF Positive
  <2>. QED BY <2>1
<1>3. A!PageLen(f, page) = Min({c, size - p})
  BY <1>1, <1>2, SameMinMax DEF A!PageLen
<1>4. c \in Int /\ size - p \in Int
  BY DEF Positive
<1>5. Min({c, size - p}) = IF c <= size - p THEN c ELSE size - p
  BY <1>4, MinOfTwo
<1>. QED BY <1>1, <1>3, <1>4, <1>5

-----------------------------------------------------------------------------
(* The handle of an AFF image                                              *)

\* Its page buffer holds the page it says, or part of a page; each entry of the
\* seek array that is set is where its page starts, and the first one is set.
HandleInv(f, a) ==
  /\ a \in [page : {A!NotSet} \cup 0..(Len(f.pages) - 1),
            buf : {A!Torn} \cup 0..(Len(f.pages) - 1),
            pos : {A!Lost} \cup 0..Len(f.pages),
            seeks : [A!SeekEntries(f) -> {A!NotSet} \cup 0..(Len(f.pages) - 1)]]
  /\ a.page # A!NotSet => a.buf \in {a.page, A!Torn}
  /\ a.seeks[0] = 0
  /\ \A e \in A!SeekEntries(f) : a.seeks[e] \in {A!NotSet, e * A!PagesPerEntry(f)}

\* Between two searches, and within one that looks for a page with some hops
\* left: they are as many as there are pages up to that one.
Behind(f, a) ==
  A!SeeksCover(f) => (a.page # A!NotSet => a.pos \in {a.page + 1, A!Lost})
Before(f, a, page, hops) ==
  A!SeeksCover(f) => (a.pos # A!Lost => a.pos + hops = page + 1)

LEMMA NoPage == A!NotSet = -1 /\ A!Lost = -2 /\ A!Torn = -3
  BY DEF A!NotSet, A!Lost, A!Torn

LEMMA FirstHandle ==
  ASSUME NEW f, FileMakesSense("aaff", f)
  PROVE  HandleInv(f, A!AaffHandle(f)) /\ Behind(f, A!AaffHandle(f))
<1>1. PICK t \in Positive, c \in Positive, l \in Nat :
        /\ t = A!TotalPages(f) /\ c = A!PagesPerEntry(f) /\ l = Len(f.pages)
        /\ l \in 1..t
  BY AaffPages
<1>2. 1 \in 0..l /\ 0 \in 0..(l - 1) /\ 0 \in 0..(t - 1) /\ 0 * c = 0
  BY <1>1 DEF Positive
<1>3. 0 \in A!SeekEntries(f)
  BY <1>1, <1>2, PageEntry
<1>5. PICK S : S = A!SeekEntries(f)
  OBVIOUS
<1>6. PICK a : /\ a = A!AaffHandle(f) /\ a.page = A!NotSet
               /\ a = [page |-> A!NotSet, buf |-> A!Torn, pos |-> 1,
                       seeks |-> [e \in S |-> IF e = 0 THEN 0 ELSE A!NotSet]]
  BY <1>5 DEF A!AaffHandle
<1>7. HandleInv(f, a)
  BY <1>1, <1>2, <1>3, <1>5, <1>6, NoPage DEF HandleInv
<1>. QED BY <1>6, <1>7 DEF Behind

\* Where a search starts, and how far it may go.
LEMMA SearchBegins ==
  ASSUME NEW f, FileMakesSense("aaff", f), NEW a, HandleInv(f, a), Behind(f, a),
         NEW page \in 0..(A!TotalPages(f) - 1), NEW behind \in A!BehindArray(f)
  PROVE  /\ HandleInv(f, A!SearchFrom(f, a, page, behind))
         /\ A!MaxHops(f, a, page, behind) \in Positive
         /\ Before(f, A!SearchFrom(f, a, page, behind), page, A!MaxHops(f, a, page, behind))
<1>1. PICK t \in Positive, c \in Positive, l \in Nat, S \in {A!SeekEntries(f)} :
        /\ t = A!TotalPages(f) /\ c = A!PagesPerEntry(f) /\ S = A!SeekEntries(f)
        /\ l = Len(f.pages) /\ l \in 1..t
  BY AaffPages
<1>2. t \in Nat /\ c \in Nat /\ page \in 0..(t - 1) /\ page \in Nat
  BY <1>1 DEF Positive
<1>3. CASE A!NextInFile(a, page)
  <2>1. A!SeeksCover(f) => a.pos \in {page, A!Lost}
    BY <1>3, <1>2 DEF A!NextInFile, Behind
  <2>2. A!SearchFrom(f, a, page, behind) = a /\ A!MaxHops(f, a, page, behind) = 1
    BY <1>3 DEF A!SearchFrom, A!MaxHops
  <2>. QED BY <2>1, <2>2 DEF Before, Positive
<1>4. CASE ~A!NextInFile(a, page)
  <2>1. PICK q \in Nat :
          /\ q = page \div c /\ 0 \in S
          /\ \A e \in 0..q : (A!SeeksCover(f) => e \in S) /\ e * c \in 0..page
    BY <1>1, PageEntry
  <2>. DEFINE T == {e \in 0..q : A!EntryIs(f, a, e, behind) # A!NotSet}
  <2>2. 0 \in T
    BY <1>1, <2>1, NoPage DEF HandleInv, A!EntryIs
  <2>3. Max(T) \in T
    <3>1. T \in SUBSET (0..q) /\ T # {}
      BY <2>2
    <3>. HIDE DEF T
    <3>. QED BY <3>1, Largest
  <2>4. PICK e \in 0..q : /\ e = A!SearchEntry(f, a, page, behind)
                          /\ A!EntryIs(f, a, e, behind) # A!NotSet
    BY <1>1, <2>1, <2>3, SameMinMax DEF A!SearchEntry
  <2>5. PICK p \in 0..page : p = e * c
    BY <2>1
  <2>6. PICK x \in {A!Lost} \cup 0..(l - 1) :
           x = A!EntryIs(f, a, e, behind) /\ (A!SeeksCover(f) => x = p)
    <3>1. CASE e \in S
      <4>1. A!EntryIs(f, a, e, behind) = a.seeks[e]
        BY <1>1, <3>1 DEF A!EntryIs
      <4>2. a.seeks[e] \in {A!NotSet, p} /\ a.seeks[e] \in {A!NotSet} \cup 0..(l - 1)
        BY <1>1, <2>5, <3>1 DEF HandleInv
      <4>. QED BY <2>4, <4>1, <4>2
    <3>2. CASE e \notin S
      <4>1. A!EntryIs(f, a, e, behind) = behind
        BY <1>1, <3>2 DEF A!EntryIs
      <4>2. behind \in {A!NotSet, A!Lost} \cup 0..(l - 1)
        BY <1>1 DEF A!BehindArray
      <4>. QED BY <2>1, <2>4, <3>2, <4>1, <4>2
    <3>. QED BY <3>1, <3>2
  <2>7. A!MaxHops(f, a, page, behind) = page - p + 1
    BY <1>1, <1>4, <2>4, <2>5 DEF A!MaxHops
  <2>8. A!SearchFrom(f, a, page, behind) = [a EXCEPT !.pos = x]
    BY <1>4, <2>4, <2>6 DEF A!SearchFrom
  <2>9. x \in {A!Lost} \cup 0..l
    BY <1>1
  <2>10. HandleInv(f, [a EXCEPT !.pos = x])
    BY <1>1, <2>9 DEF HandleInv
  <2>11. [a EXCEPT !.pos = x].pos = x
    BY DEF HandleInv
  <2>. QED BY <1>2, <2>6, <2>7, <2>8, <2>10, <2>11 DEF Before, Positive
<1>. QED BY <1>3, <1>4

\* A page is passed: it is the one, or the search is one page nearer to it.
LEMMA PagePassed ==
  ASSUME NEW f, FileMakesSense("aaff", f), NEW a, HandleInv(f, a), A!AtPage(f, a),
         NEW page \in 0..(A!TotalPages(f) - 1), NEW hops \in Positive,
         Before(f, a, page, hops)
  PROVE  /\ HandleInv(f, A!Passed(f, a, page))
         /\ a.pos = page => /\ A!Passed(f, a, page).page = page
                            /\ Behind(f, A!Passed(f, a, page))
         /\ a.pos # page => /\ A!SeeksCover(f) => hops # 1
                            /\ hops # 1 => hops - 1 \in Positive
                            /\ Before(f, A!Passed(f, a, page), page, hops - 1)
                            /\ hops = 1 => Behind(f, A!Passed(f, a, page))
<1>1. PICK t \in Positive, c \in Positive, l \in Nat, S \in {A!SeekEntries(f)}, p \in {a.pos} :
        /\ t = A!TotalPages(f) /\ c = A!PagesPerEntry(f) /\ S = A!SeekEntries(f)
        /\ l = Len(f.pages) /\ l \in 1..t /\ p = a.pos
  BY AaffPages
<1>2. /\ t \in Nat /\ c \in Nat /\ l \in Nat /\ page \in 0..(t - 1)
      /\ p \in 0..(l - 1) /\ p \in 0..(t - 1) /\ hops \in Nat
  BY <1>1 DEF Positive, A!AtPage
<1>3. A!SeeksCover(f) => p + hops = page + 1
  BY <1>1, <1>2, NoPage DEF Before
<1>4. PICK b : b = A!WithEntry(f, a)
  OBVIOUS
<1>5. HandleInv(f, b) /\ b.pos = p /\ b.page = a.page
  <2>1. CASE p % c = 0 /\ p \div c \in S
    <3>1. PICK q \in Nat :
             q = p \div c /\ q \in S /\ 0 \in S /\ p = q * c /\ q \in Int
      BY <1>1, <1>2, <2>1, PageEntry
    <3>2. b = [a EXCEPT !.seeks[q] = p]
      BY <1>1, <1>4, <2>1, <3>1 DEF A!WithEntry
    <3>3. q = 0 => p = 0
      BY <1>2, <3>1
    <3>. DEFINE Entry == {A!NotSet} \cup 0..(l - 1)
    <3>4. PICK s \in [S -> Entry] : s = a.seeks
      BY <1>1 DEF HandleInv
    <3>5. /\ s[0] = 0 /\ \A e \in S : s[e] \in {A!NotSet, e * c}
          /\ a \in [page : {A!NotSet} \cup 0..(l - 1), buf : {A!Torn} \cup 0..(l - 1),
                     pos : {A!Lost} \cup 0..l, seeks : [S -> Entry]]
          /\ a.page # A!NotSet => a.buf \in {a.page, A!Torn}
      BY <1>1, <3>4 DEF HandleInv
    <3>6. PICK r : r = [s EXCEPT ![q] = p]
      OBVIOUS
    <3>7. r \in [S -> Entry] /\ r[0] = 0 /\ \A e \in S : r[e] \in {A!NotSet, e * c}
      <4>1. p \in Entry
        BY <1>2
      <4>. HIDE DEF Entry
      <4>2. r \in [S -> Entry] /\ r[q] = p /\ \A e \in S : e # q => r[e] = s[e]
        BY <3>1, <3>4, <3>6, <4>1
      <4>3. r[0] = 0
        <5>1. CASE q = 0
          BY <3>3, <4>2, <5>1
        <5>2. CASE q # 0
          BY <3>1, <3>5, <4>2, <5>2
        <5>. QED BY <5>1, <5>2
      <4>4. ASSUME NEW e \in S PROVE r[e] \in {A!NotSet, e * c}
        <5>1. CASE e = q
          BY <3>1, <4>2, <5>1
        <5>2. CASE e # q
          BY <3>5, <4>2, <5>2
        <5>. QED BY <5>1, <5>2
      <4>. QED BY <4>2, <4>3, <4>4
    <3>8. b = [a EXCEPT !.seeks = r]
      BY <3>2, <3>4, <3>6
    <3>9. /\ b \in [page : {A!NotSet} \cup 0..(l - 1), buf : {A!Torn} \cup 0..(l - 1),
                     pos : {A!Lost} \cup 0..l, seeks : [S -> Entry]]
          /\ b.seeks = r /\ b.page = a.page /\ b.buf = a.buf /\ b.pos = a.pos
      BY <3>5, <3>7, <3>8
    <3>. QED BY <1>1, <3>5, <3>7, <3>9 DEF HandleInv
  <2>2. CASE ~(p % c = 0 /\ p \div c \in S)
    BY <1>1, <1>4, <2>2 DEF A!WithEntry
  <2>. QED BY <2>1, <2>2
<1>6. PICK d : d = [b EXCEPT !.pos = p + 1]
  OBVIOUS
<1>7. HandleInv(f, d) /\ d.pos = p + 1 /\ d.page = b.page
  BY <1>1, <1>2, <1>5, <1>6 DEF HandleInv
<1>8. A!Passed(f, a, page) = IF p = page THEN [d EXCEPT !.page = page, !.buf = page] ELSE d
  BY <1>1, <1>4, <1>6 DEF A!Passed
<1>9. CASE p = page
  <2>1. PICK g : g = [d EXCEPT !.page = page, !.buf = page]
    OBVIOUS
  <2>2. page \in {A!NotSet} \cup 0..(l - 1) /\ page \in {A!Torn} \cup 0..(l - 1)
    BY <1>2, <1>9
  <2>3. HandleInv(f, g) /\ g.pos = p + 1 /\ g.page = page
    BY <1>1, <1>7, <2>1, <2>2 DEF HandleInv
  <2>. QED BY <1>1, <1>8, <1>9, <2>1, <2>3 DEF Behind
<1>10. CASE p # page
  <2>1. /\ A!SeeksCover(f) => hops # 1 /\ p + 1 + (hops - 1) = page + 1
        /\ hops # 1 => hops - 1 \in Positive
    BY <1>2, <1>3, <1>10 DEF Positive
  <2>2. Before(f, d, page, hops - 1) /\ (hops = 1 => Behind(f, d))
    BY <1>7, <2>1 DEF Before, Behind
  <2>. QED BY <1>1, <1>7, <1>8, <1>10, <2>1, <2>2
<1>. QED BY <1>9, <1>10

LEMMA SearchBroken ==
  ASSUME NEW f, FileMakesSense("aaff", f), NEW a, HandleInv(f, a),
         NEW page \in 0..(A!TotalPages(f) - 1), NEW b \in A!Broken(f, a, page)
  PROVE  HandleInv(f, b) /\ Behind(f, b)
<1>1. PICK c : c = [a EXCEPT !.pos = A!Lost]
  OBVIOUS
<1>2. HandleInv(f, c) /\ c.pos = A!Lost
  BY <1>1 DEF HandleInv
<1>3. \/ b = c \/ b = [c EXCEPT !.buf = A!Torn]
      \/ b = [c EXCEPT !.page = page, !.buf = page] /\ page \in 0..(Len(f.pages) - 1)
  BY <1>1 DEF A!Broken, A!AtPage
<1>. QED BY <1>2, <1>3 DEF HandleInv, Behind

\* The page that is found, as far as it was read.
LEMMA BufferLength ==
  ASSUME NEW f, FileMakesSense("aaff", f), NEW a, HandleInv(f, a), a.page # A!NotSet
  PROVE  Len(A!PageBuffer(f, a)) = A!PageLen(f, a.page)
<1>1. a.page \in 0..(Len(f.pages) - 1)
  BY DEF HandleInv
<1>2. PICK n \in Nat : n = A!PageLen(f, a.page)
  BY <1>1, PageLenType DEF Positive
<1>3. CASE a.buf = A!Torn
  <2>1. A!PageBuffer(f, a) = [k \in 1..n |-> A!TornByte]
    BY <1>2, <1>3 DEF A!PageBuffer
  <2>2. Len([k \in 1..n |-> A!TornByte]) = n
    OBVIOUS
  <2>. QED BY <1>2, <2>1, <2>2
<1>4. CASE a.buf # A!Torn
  <2>1. a.buf = a.page
    BY <1>4 DEF HandleInv
  <2>2. A!PageBuffer(f, a) = f.pages[a.page + 1]
    BY <1>4, <2>1 DEF A!PageBuffer
  <2>. QED BY <1>1, <2>2, PageThere
<1>. QED BY <1>3, <1>4

-----------------------------------------------------------------------------
(* What is mounted, and where a read of it is                              *)

Reading == {"morphing", "input", "back", "page", "hop"}

\* The images that are open: each one's size leaves room for --offset.
MountInv ==
  /\ setup \in DOMAIN Setups
  /\ pc \in {"open", "failed", "ended", "idle"} \cup Reading
  /\ sizes \in Seq(Nat) /\ Len(sizes) <= Len(Images)
  /\ \A k \in 1..Len(sizes) : /\ Opens(k - 1)
                              /\ sizes[k] = PartSize(Setup, Images[k])
                              /\ sizes[k] + Setup.offset <= Size(k - 1)
  /\ morph.size \in Nat
  /\ Started => Len(sizes) = Len(Images) /\ Morphs /\ morph = Morphed

\* The read of the morphed image: what is left of it lies in the units from
\* a.unit on.
Place(a) ==
  /\ Setup.morph = "combine" => (a.unit < Len(sizes) => a.ofs <= sizes[a.unit + 1])
  /\ Setup.morph = "swab" => a.unit = 0
  /\ Setup.morph \in {"raid", "unallocated"} =>
       a.ofs < morph.unit /\ (a.unit * morph.unit) + a.ofs + a.left <= morph.size

IsAt(a, most) ==
  /\ a \in [unit : Nat, ofs : Nat, left : 0..most]
  /\ a.left # 0 => Place(a)

Mounted ==
  /\ setup \in DOMAIN Setups /\ sizes \in Seq(Nat) /\ Len(sizes) = Len(Images)
  /\ \A k \in 1..Len(sizes) : sizes[k] = PartSize(Setup, Images[k])
  /\ Morphs

LEMMA SetupMakesSense == ASSUME setup \in DOMAIN Setups PROVE MountMakesSense(Setup)
  BY MountsMakeSense DEF Setup

\* The units of a RAID and of the free blocks.
LEMMA Units ==
  ASSUME Mounted
  PROVE  /\ Setup.morph \in {"combine", "raid", "swab", "unallocated"}
         /\ Setup.morph = "raid" =>
              /\ Morphed.unit = Setup.chunk /\ Setup.chunk \in Positive
              /\ Morphed.size = RaidChunksPerImage(sizes, Setup.chunk) * Setup.chunk * Len(sizes)
              /\ RaidChunksPerImage(sizes, Setup.chunk) \in Nat
         /\ Setup.morph = "unallocated" =>
              /\ Len(sizes) = 1
              /\ Morphed.unit \in Positive /\ Morphed.map \in Seq(Nat)
              /\ Morphed.size = Morphed.unit * Len(Morphed.map)
         /\ Setup.morph \in {"combine", "swab"} => Morphed.size = SumOf(sizes)
<1>1. MountMakesSense(Setup)
  BY SetupMakesSense DEF Mounted
<1>2. Setup.morph \in {"combine", "raid", "swab", "unallocated"}
  BY <1>1 DEF MountMakesSense
<1>3. ASSUME Setup.morph = "raid"
      PROVE  /\ Morphed.unit = Setup.chunk /\ Setup.chunk \in Positive
             /\ Morphed.size = RaidChunksPerImage(sizes, Setup.chunk) * Setup.chunk * Len(sizes)
             /\ RaidChunksPerImage(sizes, Setup.chunk) \in Nat
  <2>1. Setup.chunk \in Positive
    BY <1>1, <1>3 DEF MountMakesSense
  <2>2. RaidChunksPerImage(sizes, Setup.chunk) \in Nat
    BY <2>1, RaidChunks DEF Mounted
  <2>3. Morphed = [size |-> RaidSize(sizes, Setup.chunk), map |-> <<>>, unit |-> Setup.chunk]
    BY <1>3 DEF Morphed, NoMorph
  <2>. QED BY <2>1, <2>2, <2>3 DEF RaidSize
<1>4. ASSUME Setup.morph = "unallocated"
      PROVE  /\ Len(sizes) = 1
             /\ Morphed.unit \in Positive /\ Morphed.map \in Seq(Nat)
             /\ Morphed.size = Morphed.unit * Len(Morphed.map)
  <2>1. Len(sizes) = 1 /\ UnallocatedMorphs(Images[1].fs, sizes[1], Setup.fs)
    BY <1>4 DEF Mounted, Morphs
  <2>2. Len(Setup.images) = 1 /\ sizes[1] = PartSize(Setup, Setup.images[1])
    BY <2>1 DEF Mounted, Images
  <2>3. FreeBlockSize(Images[1].fs) \in Positive /\ FreeBlockMap(Images[1].fs) \in Seq(Nat)
    BY <1>1, <1>4, <2>1, <2>2 DEF MountMakesSense, Images
  <2>4. Morphed = [size |-> FreeBlockSize(Images[1].fs) * Len(FreeBlockMap(Images[1].fs)),
                   map |-> FreeBlockMap(Images[1].fs), unit |-> FreeBlockSize(Images[1].fs)]
    BY <1>4 DEF Morphed
  <2>. QED BY <2>1, <2>3, <2>4
<1>5. ASSUME Setup.morph \in {"combine", "swab"} PROVE Morphed.size = SumOf(sizes)
  BY <1>5 DEF Morphed, NoMorph, CombineSize, SwabSize
<1>. QED BY <1>2, <1>3, <1>4, <1>5

LEMMA MorphedSize == ASSUME Mounted PROVE Morphed.size \in Nat
<1>1. CASE Setup.morph = "raid"
  <2>1. PICK n \in Nat, c \in Nat, m \in Nat :
          /\ n = RaidChunksPerImage(sizes, Setup.chunk) /\ c = Setup.chunk /\ m = Len(sizes)
    BY <1>1, Units DEF Positive, Mounted
  <2>2. n * c * m \in Nat
    <3>1. n * c \in Nat
      OBVIOUS
    <3>. QED BY <3>1
  <2>. QED BY <1>1, <2>1, <2>2, Units
<1>2. CASE Setup.morph = "unallocated"
  <2>1. PICK n \in Nat, m \in Nat : n = Morphed.unit /\ m = Len(Morphed.map)
    BY <1>2, Units DEF Positive
  <2>2. n * m \in Nat
    OBVIOUS
  <2>. QED BY <1>2, <2>1, <2>2, Units
<1>3. CASE Setup.morph \in {"combine", "swab"}
  BY <1>3, Units, SumType DEF Mounted
<1>. QED BY <1>1, <1>2, <1>3, Units

\* combine finds the image in which an offset lies.
LEMMA CombineFinds ==
  ASSUME NEW s \in Seq(Nat), NEW offset \in Nat, offset < SumOf(s), NEW n
  PROVE  LET a == CombineStart(s, offset, n)
         IN /\ a.unit \in 0..(Len(s) - 1) /\ a.ofs \in Nat /\ a.left = n
            /\ a.ofs < s[a.unit + 1]
            /\ offset = SumOf(SubSeq(s, 1, a.unit)) + a.ofs
<1>. DEFINE before(i) == SumOf(SubSeq(s, 1, i))
            T == {m \in 0..Len(s) : offset < before(m)}
            J == {j \in 0..(Len(s) - 1) : before(j) <= offset /\ offset < before(j + 1)}
            a == CombineStart(s, offset, n)
<1>1. /\ before(0) = 0 /\ before(Len(s)) = SumOf(s)
      /\ \A m \in 0..Len(s) : before(m) \in Nat
      /\ \A m \in 0..(Len(s) - 1) : before(m + 1) = before(m) + s[m + 1]
  BY SumSteps
<1>. HIDE DEF before
<1>2. PICK m \in T : \A k \in T : m <= k
  <2>1. Len(s) \in T
    BY <1>1
  <2>2. T \in SUBSET Nat /\ T # {}
    BY <2>1
  <2>. HIDE DEF T
  <2>. QED BY <2>2, Least
<1>3. m # 0
  BY <1>1
<1>4. PICK j \in 0..(Len(s) - 1) : j + 1 = m /\ j = m - 1 /\ j < m
  BY <1>3
<1>5. before(j) <= offset
  <2>1. j \in 0..Len(s) /\ j \notin T /\ before(j) \in Nat
    BY <1>1, <1>2, <1>4
  <2>. QED BY <2>1
<1>6. j \in J
  BY <1>2, <1>4, <1>5
<1>7. PICK i \in J : a = [unit |-> i, ofs |-> offset - before(i), left |-> n]
  <2>1. a = [unit |-> CHOOSE k \in 0..(Len(s) - 1) : before(k) <= offset /\ offset < before(k + 1),
             ofs |-> offset - before(CHOOSE k \in 0..(Len(s) - 1) :
                                       before(k) <= offset /\ offset < before(k + 1)),
             left |-> n]
    BY DEF CombineStart, before
  <2>2. (CHOOSE k \in 0..(Len(s) - 1) : before(k) <= offset /\ offset < before(k + 1)) \in J
    BY <1>6
  <2>. QED BY <2>1, <2>2
<1>8. i \in 0..(Len(s) - 1) /\ before(i) \in Nat /\ s[i + 1] \in Nat
      /\ before(i) <= offset /\ offset < before(i) + s[i + 1]
  <2>. HIDE DEF a, T
  <2>1. i \in 0..(Len(s) - 1) /\ i \in 0..Len(s) /\ i + 1 \in 1..Len(s)
        /\ before(i) <= offset /\ offset < before(i + 1)
    <3>1. i \in 0..(Len(s) - 1) /\ before(i) <= offset /\ offset < before(i + 1)
      OBVIOUS
    <3>2. Len(s) \in Nat
      OBVIOUS
    <3>. HIDE DEF J
    <3>. QED BY <3>1, <3>2
  <2>2. before(i) \in Nat /\ before(i + 1) = before(i) + s[i + 1]
    BY <1>1, <2>1
  <2>3. s[i + 1] \in Nat
    BY <2>1
  <2>. QED BY <2>1, <2>2, <2>3
<1>9. a.unit = i /\ a.ofs = offset - before(i) /\ a.left = n
  BY <1>7
<1>10. a.ofs \in Nat /\ a.ofs < s[i + 1] /\ offset = before(i) + a.ofs
  <2>. HIDE DEF a, T, J
  <2>1. /\ offset - before(i) \in Nat /\ offset - before(i) < s[i + 1]
        /\ offset = before(i) + (offset - before(i))
    <3>1. PICK b \in Nat, c \in Nat : b = before(i) /\ c = s[i + 1]
      BY <1>8
    <3>2. b <= offset /\ offset < b + c
      BY <1>8, <3>1
    <3>3. offset - b \in Nat /\ offset - b < c /\ offset = b + (offset - b)
      BY <3>2
    <3>. QED BY <3>1, <3>3
  <2>. QED BY <1>9, <2>1
<1>. QED BY <1>8, <1>9, <1>10 DEF before

\* A read of the morphed image begins.
LEMMA ReadBegins ==
  ASSUME Mounted, morph = Morphed,
         NEW offset \in Nat, offset < morph.size, NEW n \in Nat,
         offset + n <= morph.size, NEW most \in Nat, n <= most
  PROVE  /\ Setup.morph = "combine" => IsAt(CombineStart(sizes, offset, n), most)
         /\ Setup.morph = "swab" => IsAt(SwabStart(offset, n), most)
         /\ Setup.morph \in {"raid", "unallocated"} =>
              IsAt(UnitStart(morph.unit, offset, n), most)
<1>1. ASSUME Setup.morph = "combine" PROVE IsAt(CombineStart(sizes, offset, n), most)
  <2>1. PICK a : a = CombineStart(sizes, offset, n)
    OBVIOUS
  <2>2. /\ a.unit \in 0..(Len(sizes) - 1) /\ a.ofs \in Nat /\ a.left = n
        /\ a.ofs < sizes[a.unit + 1]
    <3>1. offset < SumOf(sizes) /\ sizes \in Seq(Nat)
      BY <1>1, Units DEF Mounted
    <3>. QED BY <2>1, <3>1, CombineFinds
  <2>3. sizes[a.unit + 1] \in Nat
    BY <2>2 DEF Mounted
  <2>4. \E u, o : a = [unit |-> u, ofs |-> o, left |-> n]
    BY <2>1 DEF CombineStart
  <2>. QED BY <1>1, <2>1, <2>2, <2>3, <2>4 DEF IsAt, Place
<1>2. ASSUME Setup.morph = "swab" PROVE IsAt(SwabStart(offset, n), most)
  BY <1>2 DEF IsAt, Place, SwabStart
<1>3. ASSUME Setup.morph \in {"raid", "unallocated"}
      PROVE  IsAt(UnitStart(morph.unit, offset, n), most)
  <2>1. PICK u \in Positive : u = morph.unit
    BY <1>3, Units
  <2>2. PICK q \in Nat, r \in 0..(u - 1) :
          q = offset \div u /\ r = offset % u /\ offset = (q * u) + r /\ q * u \in Nat
    BY DivMod
  <2>3. r \in Nat /\ r < u
    BY <2>2 DEF Positive
  <2>4. morph.size \in Nat
    BY MorphedSize
  <2>5. (q * u) + r + n <= morph.size
    BY <2>2
  <2>6. UnitStart(morph.unit, offset, n) = [unit |-> q, ofs |-> r, left |-> n]
    BY <2>1, <2>2 DEF UnitStart
  <2>. QED BY <1>3, <2>1, <2>3, <2>5, <2>6 DEF IsAt, Place
<1>. QED BY <1>1, <1>2, <1>3

\* A step reads to the end of the unit, or all that is left.
LEMMA StepLeaves ==
  ASSUME NEW a \in [unit : Nat, ofs : Nat, left : Nat], NEW u \in Nat, a.ofs <= u
  PROVE  /\ UpTo(u, a) \in 0..a.left
         /\ UpTo(u, a) # a.left => UpTo(u, a) = u - a.ofs
<1>1. PICK o \in Nat, n \in Nat : o = a.ofs /\ n = a.left /\ o <= u
  OBVIOUS
<1>2. Min({n, u - o}) = IF n <= u - o THEN n ELSE u - o
  <2>1. n \in Int /\ u - o \in Int
    OBVIOUS
  <2>. QED BY <2>1, MinOfTwo
<1>. QED BY <1>1, <1>2 DEF UpTo

After(a, count) == [unit |-> a.unit + 1, ofs |-> 0, left |-> a.left - count]

\* The next one begins where this one ends.
LEMMA UnitsFollow ==
  ASSUME NEW a \in [unit : Nat, ofs : Nat, left : Nat], NEW u \in Nat, NEW size \in Nat,
         a.ofs < u, (a.unit * u) + a.ofs + a.left <= size,
         a.left - UpTo(u, a) # 0
  PROVE  ((a.unit + 1) * u) + 0 + (a.left - UpTo(u, a)) <= size
<1>1. PICK q \in Nat, o \in Nat, n \in Nat :
        q = a.unit /\ o = a.ofs /\ n = a.left /\ o < u /\ (q * u) + o + n <= size
  OBVIOUS
<1>2. PICK d \in 0..n : d = UpTo(u, a)
  BY <1>1, StepLeaves
<1>3. d # n
  BY <1>1, <1>2
<1>4. d = u - o
  BY <1>1, <1>2, <1>3, StepLeaves
<1>5. (q + 1) * u = (q * u) + u /\ q * u \in Nat
  OBVIOUS
<1>6. ((q + 1) * u) + 0 + (n - d) <= size
  BY <1>1, <1>4, <1>5
<1>. QED BY <1>1, <1>2, <1>6

StepType(step, a) ==
  /\ step.image \in Nat /\ step.offset \in Nat /\ step.count \in Nat
  /\ step.count = 0 => step.offset >= sizes[step.image + 1]
  /\ Setup.morph # "swab" =>
       /\ step.count \in 0..a.left
       /\ a.left - step.count # 0 => Place(After(a, step.count))

LEMMA CombineStepType ==
  ASSUME Mounted, Setup.morph = "combine",
         NEW a \in [unit : Nat, ofs : Nat, left : Nat], Place(a), a.unit < Len(sizes),
         a.left # 0
  PROVE  StepType(CombineStep(sizes, a), a)
<1>1. PICK u \in Nat : u = sizes[a.unit + 1] /\ a.ofs <= u
  <2>1. a.unit + 1 \in 1..Len(sizes) /\ sizes[a.unit + 1] \in Nat
    BY DEF Mounted
  <2>. QED BY <2>1 DEF Place
<1>2. PICK d \in 0..a.left : d = UpTo(u, a)
  BY <1>1, StepLeaves
<1>3. CombineStep(sizes, a) = [image |-> a.unit, offset |-> a.ofs, count |-> d]
  BY <1>1, <1>2 DEF CombineStep, Step
<1>4. Place(After(a, d))
  <2>1. a.unit + 1 < Len(sizes) => sizes[a.unit + 1 + 1] \in Nat
    BY DEF Mounted
  <2>. QED BY <2>1 DEF Place, After
<1>5. a.unit \in Nat /\ a.ofs \in Nat /\ d \in Nat
  OBVIOUS
<1>6. d = 0 => a.ofs >= sizes[a.unit + 1]
  <2>1. d # a.left => d = u - a.ofs
    BY <1>1, <1>2, StepLeaves
  <2>. QED BY <1>1, <1>5, <2>1
<1>. QED BY <1>2, <1>3, <1>4, <1>5, <1>6 DEF StepType

LEMMA RaidStepType ==
  ASSUME Mounted, Setup.morph = "raid", morph = Morphed,
         NEW a \in [unit : Nat, ofs : Nat, left : Nat], Place(a), a.left # 0
  PROVE  StepType(RaidStep(sizes, morph.unit, a), a)
<1>1. PICK u \in Positive, p \in Nat, m \in Nat :
        /\ u = morph.unit /\ m = Len(sizes) /\ morph.size = p * u * m
  BY Units DEF Mounted
<1>2. PICK q \in Nat, o \in Nat, n \in Nat, size \in Nat :
        /\ q = a.unit /\ o = a.ofs /\ n = a.left /\ size = morph.size
        /\ o < u /\ (q * u) + o + n <= size
  BY <1>1, MorphedSize DEF Place
<1>3. u \in Nat
  BY DEF Positive
<1>4. m # 0
  <2>. SUFFICES ASSUME m = 0 PROVE FALSE
    OBVIOUS
  <2>1. size = 0
    <3>1. p * u \in Nat /\ (p * u) * 0 = 0
      BY <1>3
    <3>. QED BY <1>1, <1>2, <3>1
  <2>2. q * u \in Nat
    BY <1>3
  <2>. QED BY <1>2, <2>1, <2>2
<1>5. q % m \in Nat /\ ((q \div m) * u) + o \in Nat
  <2>1. m \in Positive
    BY <1>4 DEF Positive
  <2>2. q % m \in 0..(m - 1) /\ q \div m \in Nat
    BY <2>1, DivMod
  <2>3. (q \div m) * u \in Nat
    <3>1. PICK x \in Nat : x = q \div m
      BY <2>2
    <3>2. x * u \in Nat
      BY <1>3
    <3>. QED BY <3>1, <3>2
  <2>. QED BY <2>2, <2>3
<1>6. PICK d \in 0..n : d = UpTo(u, a)
  BY <1>2, <1>3, StepLeaves
<1>7. RaidStep(sizes, morph.unit, a) =
        [image |-> q % m, offset |-> ((q \div m) * u) + o, count |-> d]
  BY <1>1, <1>2, <1>6 DEF RaidStep, Step
<1>8. n - d # 0 => Place(After(a, d))
  <2>. SUFFICES ASSUME n - d # 0 PROVE Place(After(a, d))
    OBVIOUS
  <2>1. ((q + 1) * u) + 0 + (n - d) <= size
    BY <1>2, <1>3, <1>6, UnitsFollow
  <2>2. 0 < u
    BY <1>3 DEF Positive
  <2>. QED BY <1>1, <1>2, <2>1, <2>2 DEF Place, After
<1>9. d \in Nat /\ d # 0
  <2>1. d # n => d = u - o
    BY <1>2, <1>3, <1>6, StepLeaves
  <2>. QED BY <1>2, <1>3, <2>1
<1>. QED BY <1>2, <1>5, <1>6, <1>7, <1>8, <1>9 DEF StepType

LEMMA UnallocatedStepType ==
  ASSUME Mounted, Setup.morph = "unallocated", morph = Morphed,
         NEW a \in [unit : Nat, ofs : Nat, left : Nat], Place(a), a.left # 0
  PROVE  StepType(UnallocatedStep(morph.map, morph.unit, a), a)
<1>1. PICK u \in Positive, m \in Nat :
        /\ u = morph.unit /\ m = Len(morph.map) /\ morph.size = u * m
        /\ morph.map \in Seq(Nat)
  BY Units
<1>2. PICK q \in Nat, o \in Nat, n \in Nat, size \in Nat :
        /\ q = a.unit /\ o = a.ofs /\ n = a.left /\ size = morph.size
        /\ o < u /\ (q * u) + o + n <= size
  BY <1>1, MorphedSize DEF Place
<1>3. u \in Nat
  BY DEF Positive
<1>4. q < m
  <2>. SUFFICES ASSUME m <= q PROVE FALSE
    OBVIOUS
  <2>1. m * u <= q * u /\ m * u \in Nat /\ q * u \in Nat
    BY <1>3, TimesOrder
  <2>2. m * u = u * m
    BY <1>3
  <2>. QED BY <1>1, <1>2, <2>1, <2>2
<1>5. PICK e \in Nat : e = morph.map[q + 1]
  BY <1>1, <1>4
<1>6. PICK d \in 0..n : d = UpTo(u, a)
  BY <1>2, <1>3, StepLeaves
<1>7. UnallocatedStep(morph.map, morph.unit, a) =
        [image |-> 0, offset |-> e + o + o, count |-> d]
  BY <1>1, <1>2, <1>5, <1>6 DEF UnallocatedStep, Step
<1>8. n - d # 0 => Place(After(a, d))
  <2>. SUFFICES ASSUME n - d # 0 PROVE Place(After(a, d))
    OBVIOUS
  <2>1. ((q + 1) * u) + 0 + (n - d) <= size
    BY <1>2, <1>3, <1>6, UnitsFollow
  <2>2. 0 < u
    BY <1>3 DEF Positive
  <2>. QED BY <1>1, <1>2, <2>1, <2>2 DEF Place, After
<1>9. d \in Nat /\ d # 0 /\ e + o + o \in Nat
  <2>1. d # n => d = u - o
    BY <1>2, <1>3, <1>6, StepLeaves
  <2>. QED BY <1>2, <1>3, <2>1
<1>. QED BY <1>2, <1>6, <1>7, <1>8, <1>9 DEF StepType

LEMMA MorphStepType ==
  ASSUME Mounted, morph = Morphed, NEW most \in Nat, IsAt(at, most), MorphLeft
  PROVE  StepType(MorphStep, at) /\ at.left # 0
<1>1. at \in [unit : Nat, ofs : Nat, left : Nat] /\ (at.left # 0 => Place(at))
  BY DEF IsAt
<1>2. at.left # 0 /\ Place(at)
  BY <1>1 DEF MorphLeft
<1>3. CASE Setup.morph = "combine"
  <2>1. MorphStep = CombineStep(sizes, at) /\ at.unit < Len(sizes)
    BY <1>3 DEF MorphStep, MorphLeft
  <2>. QED BY <1>1, <1>2, <1>3, <2>1, CombineStepType
<1>4. CASE Setup.morph = "raid"
  <2>1. MorphStep = RaidStep(sizes, morph.unit, at)
    BY <1>4 DEF MorphStep
  <2>. QED BY <1>1, <1>2, <1>4, <2>1, RaidStepType
<1>5. CASE Setup.morph = "unallocated"
  <2>1. MorphStep = UnallocatedStep(morph.map, morph.unit, at)
    BY <1>5 DEF MorphStep
  <2>. QED BY <1>1, <1>2, <1>5, <2>1, UnallocatedStepType
<1>6. CASE Setup.morph = "swab"
  <2>1. MorphStep = SwabStep(at)
    BY <1>6 DEF MorphStep
  <2>2. PICK o \in Nat, n \in Nat : o = at.ofs /\ n = at.left
    BY <1>1
  <2>3. o % 2 \in 0..1 /\ o - (o % 2) \in Nat /\ n + (o % 2) \in Nat
    OBVIOUS
  <2>4. n # 0 /\ n + (o % 2) # 0
    BY <1>2, <2>2, <2>3
  <2>. QED BY <1>6, <2>1, <2>2, <2>3, <2>4 DEF StepType, SwabStep, Step
<1>. QED BY <1>3, <1>4, <1>5, <1>6, Units

-----------------------------------------------------------------------------
(* Types and searches: the inductive invariant                             *)

RequestInv ==
  /\ req \in [offset : Nat, count : Nat]
  /\ IsAt(at, req.count)
  /\ pc = "open" => at.left = 0
  /\ pc \in Reading \ {"morphing"} => MorphLeft /\ in.asked = MorphStep.count

\* The read of an image lies in the image.
InputInv ==
  /\ in \in [image : Nat, seek : Nat, left : Nat, asked : Nat, got : Nat, page : Nat, hops : Nat]
  /\ in.left <= in.got /\ in.got <= in.asked
  /\ pc \in {"input", "page", "hop"} =>
       /\ in.image \in 0..(Len(sizes) - 1)
       /\ in.seek + in.left <= Size(in.image)
       /\ Format(in.image) = "aaff" <=> pc # "input"

AaffInv ==
  /\ DOMAIN aaff = {j \in 0..(Len(Images) - 1) : Format(j) = "aaff"}
  /\ \A i \in DOMAIN aaff :
       /\ HandleInv(File(i), aaff[i])
       /\ pc # "hop" \/ i # in.image => Behind(File(i), aaff[i])
       /\ pc = "hop" /\ i = in.image => Before(File(i), aaff[i], in.page, in.hops)

\* The first page of a read is the one in which it begins.  Something of it is
\* copied, unless its size was misread.
FirstPage == in.seek \div File(in.image).pageSize
PageInv ==
  pc \in {"page", "hop"} =>
    /\ SizesRead(Setup) /\ in.left = in.got => in.left # 0 /\ in.page = FirstPage
    /\ SizesRead(Setup) /\ in.left # in.got => in.page > FirstPage
    /\ pc = "hop" => in.hops # 0 /\ in.page < A!TotalPages(File(in.image))

EndInv ==
  /\ ret \in {"none", "ok", "error"} /\ met \in BOOLEAN
  /\ bad \subseteq 0..(Len(Images) - 1)

ReadsInv == MountInv /\ RequestInv /\ InputInv /\ AaffInv /\ PageInv /\ EndInv

LEMMA SameImages ==
  ASSUME setup' = setup
  PROVE  /\ Setup' = Setup /\ Images' = Images
         /\ \A i : /\ File(i)' = File(i) /\ Format(i)' = Format(i)
                   /\ Size(i)' = Size(i) /\ (Opens(i)' <=> Opens(i))
  BY DEF Setup, Images, File, Format, Size, Opens

LEMMA SameMorphing ==
  ASSUME UNCHANGED <<setup, sizes, morph>>
  PROVE  /\ \A a, most : IsAt(a, most)' <=> IsAt(a, most)
         /\ Morphs' <=> Morphs
         /\ Morphed' = Morphed
         /\ at' = at => (MorphLeft' <=> MorphLeft) /\ MorphStep' = MorphStep
  BY DEF IsAt, Place, Morphs, Morphed, MorphLeft, MorphStep, Setup, Images

LEMMA StartedMounted ==
  ASSUME MountInv, Started PROVE Mounted /\ morph = Morphed
  BY DEF MountInv, Mounted

\* A step of a read does not change what is mounted.
LEMMA MountKept ==
  ASSUME MountInv, UNCHANGED <<setup, sizes, morph>>, Started \/ pc' = pc,
         pc' \in {"idle", "ended", pc} \cup Reading
  PROVE  MountInv'
<1>1. /\ Setup' = Setup /\ Images' = Images
      /\ \A i : Size(i)' = Size(i) /\ (Opens(i)' <=> Opens(i))
  BY SameImages
<1>2. (Morphs' <=> Morphs) /\ Morphed' = Morphed
  BY SameMorphing
<1>3. Started' => Started
  BY DEF Started, Reading
<1>. QED BY <1>1, <1>2, <1>3 DEF MountInv

LEMMA AaffKept ==
  ASSUME AaffInv, UNCHANGED <<setup, aaff>>, pc # "hop", pc' # "hop"
  PROVE  AaffInv'
<1>1. Images' = Images /\ \A i : File(i)' = File(i) /\ Format(i)' = Format(i)
  BY SameImages
<1>2. \A i \in DOMAIN aaff : HandleInv(File(i), aaff[i]) /\ Behind(File(i), aaff[i])
  BY DEF AaffInv
<1>3. \A i \in DOMAIN aaff : HandleInv(File(i)', aaff[i]) /\ Behind(File(i)', aaff[i])
  BY <1>1, <1>2
<1>4. \A i \in DOMAIN aaff' : HandleInv(File(i), aaff[i])' /\ Behind(File(i), aaff[i])'
  BY <1>3 DEF HandleInv, Behind
<1>. QED BY <1>1, <1>4 DEF AaffInv

-----------------------------------------------------------------------------
(* The start                                                               *)

LEMMA InitReads == ASSUME Init PROVE ReadsInv
<1>1. /\ setup \in DOMAIN Setups /\ pc = "open" /\ sizes = <<>> /\ morph = NoMorph
      /\ req = NoReq /\ at = NoAt /\ in = NoIn /\ ret = "none" /\ met = FALSE /\ bad = {}
      /\ aaff = [i \in {j \in 0..(Len(Images) - 1) : Format(j) = "aaff"} |->
                   A!AaffHandle(File(i))]
  BY DEF Init
<1>2. Len(Images) \in Nat
  BY <1>1, ImagesCount
<1>3. MountInv
  <2>1. sizes \in Seq(Nat) /\ Len(sizes) = 0 /\ morph.size = 0
    BY <1>1 DEF NoMorph
  <2>. QED BY <1>1, <1>2, <2>1 DEF MountInv, Started, Reading
<1>4. RequestInv
  BY <1>1 DEF RequestInv, IsAt, NoReq, NoAt, Reading
<1>5. InputInv
  BY <1>1 DEF InputInv, NoIn
<1>6. AaffInv
  <2>1. ASSUME NEW i \in DOMAIN aaff
        PROVE  HandleInv(File(i), aaff[i]) /\ Behind(File(i), aaff[i])
    <3>1. i \in 0..(Len(Images) - 1) /\ Format(i) = "aaff" /\ aaff[i] = A!AaffHandle(File(i))
      BY <1>1
    <3>2. FileMakesSense("aaff", File(i))
      BY <1>1, <3>1, ImageMakesSense
    <3>. QED BY <3>1, <3>2, FirstHandle
  <2>. QED BY <1>1, <2>1 DEF AaffInv
<1>7. PageInv /\ EndInv
  BY <1>1 DEF PageInv, EndInv
<1>. QED BY <1>3, <1>4, <1>5, <1>6, <1>7 DEF ReadsInv

\* At rest nothing is known of the read of an image, but its types.
LEMMA AtRestKept ==
  ASSUME ReadsInv, UNCHANGED <<setup, in, aaff, bad, met>>, pc # "hop",
         pc' \in {"open", "failed", "idle", "ended", "morphing"}
  PROVE  InputInv' /\ AaffInv' /\ PageInv' /\ bad' \subseteq 0..(Len(Images') - 1)
<1>1. InputInv'
  BY DEF ReadsInv, InputInv
<1>2. AaffInv'
  BY AaffKept DEF ReadsInv
<1>3. PageInv'
  BY DEF PageInv
<1>4. bad' \subseteq 0..(Len(Images') - 1)
  BY SameImages DEF ReadsInv, EndInv
<1>. QED BY <1>1, <1>2, <1>3, <1>4

LEMMA OpenImageReads == ASSUME ReadsInv, OpenImage PROVE ReadsInv'
<1>. DEFINE n == Len(sizes)
            part == PartSize(Setup, Images[n + 1])
<1>1. /\ pc = "open" /\ n < Len(Images) /\ pc' \in {"open", "failed"}
      /\ UNCHANGED <<setup, morph, req, at, in, out, ret, met, bad, aaff>>
      /\ \/ sizes' = sizes /\ pc' = "failed"
         \/ sizes' = Append(sizes, part) /\ Opens(n) /\ FitsOptions(Size(n))
  BY DEF OpenImage, Unread
<1>2. /\ Setup' = Setup /\ Images' = Images
      /\ \A i : Size(i)' = Size(i) /\ (Opens(i)' <=> Opens(i))
  BY <1>1, SameImages
<1>3. n \in Nat /\ sizes \in Seq(Nat) /\ setup \in DOMAIN Setups
  BY DEF ReadsInv, MountInv
<1>4. MountInv'
  <2>1. CASE sizes' = sizes /\ pc' = "failed"
    <3>1. ~Started'
      BY <2>1 DEF Started
    <3>. QED BY <1>1, <1>2, <2>1, <3>1 DEF ReadsInv, MountInv
  <2>2. CASE sizes' = Append(sizes, part) /\ Opens(n) /\ FitsOptions(Size(n))
    <3>1. part \in Nat /\ part + Setup.offset <= Size(n)
      <4>1. Size(n) \in Nat
        <5>1. n \in 0..(Len(Images) - 1)
          BY <1>1, <1>3, ImagesCount
        <5>. QED BY <1>3, <5>1, ImageMakesSense
      <4>2. Setup.offset \in Nat /\ Setup.limit \in Nat
        BY <1>3, SetupMakesSense DEF MountMakesSense
      <4>3. Setup.offset <= Size(n) /\ (Setup.limit # 0 => Setup.limit <= Size(n) - Setup.offset)
        BY <2>2 DEF FitsOptions
      <4>4. part = IF Setup.limit # 0 THEN Setup.limit ELSE Size(n) - Setup.offset
        BY DEF PartSize, Size
      <4>. HIDE DEF part, n
      <4>. QED BY <4>1, <4>2, <4>3, <4>4
    <3>2. /\ sizes' \in Seq(Nat) /\ Len(sizes') = n + 1 /\ sizes'[n + 1] = part
          /\ \A k \in 1..n : sizes'[k] = sizes[k]
      <4>. HIDE DEF part
      <4>. QED BY <1>3, <2>2, <3>1
    <3>3. Len(sizes') <= Len(Images')
      BY <1>1, <1>2, <1>3, <3>2, ImagesCount
    <3>4. ASSUME NEW k \in 1..(n + 1)
          PROVE  /\ Opens(k - 1)
                 /\ sizes'[k] = PartSize(Setup, Images[k])
                 /\ sizes'[k] + Setup.offset <= Size(k - 1)
      <4>1. CASE k \in 1..n
        BY <3>2, <4>1 DEF ReadsInv, MountInv
      <4>2. CASE k = n + 1
        <5>1. k - 1 = n
          BY <1>3, <4>2
        <5>. QED BY <2>2, <3>1, <3>2, <4>2, <5>1
      <4>. QED BY <1>3, <4>1, <4>2
    <3>5. ~Started'
      BY <1>1 DEF Started
    <3>6. \A k \in 1..Len(sizes') : /\ Opens(k - 1)'
                                    /\ sizes'[k] = PartSize(Setup', Images'[k])
                                    /\ sizes'[k] + Setup'.offset <= Size(k - 1)'
      <4>. HIDE DEF n, part
      <4>. QED BY <1>2, <3>2, <3>4
    <3>7. morph' = morph /\ morph.size \in Nat
      BY <1>1 DEF ReadsInv, MountInv
    <3>. QED BY <1>1, <1>3, <3>2, <3>3, <3>5, <3>6, <3>7 DEF MountInv
  <2>. QED BY <1>1, <2>1, <2>2
<1>5. RequestInv'
  BY <1>1 DEF ReadsInv, RequestInv, IsAt, Reading
<1>6. InputInv' /\ AaffInv' /\ PageInv' /\ bad' \subseteq 0..(Len(Images') - 1)
  BY <1>1, AtRestKept
<1>7. EndInv'
  BY <1>1, <1>6 DEF ReadsInv, EndInv
<1>. QED BY <1>4, <1>5, <1>6, <1>7 DEF ReadsInv

LEMMA FailedReads ==
  ASSUME ReadsInv, pc = "open", pc' = "failed", met' \in BOOLEAN,
         UNCHANGED <<setup, sizes, morph, req, at, in, ret, bad, aaff>>
  PROVE  ReadsInv'
<1>1. MountInv'
  <2>1. ~Started'
    BY DEF Started
  <2>2. /\ Setup' = Setup /\ Images' = Images
        /\ \A i : Size(i)' = Size(i) /\ (Opens(i)' <=> Opens(i))
    BY SameImages
  <2>. QED BY <2>1, <2>2 DEF ReadsInv, MountInv
<1>2. RequestInv'
  BY DEF ReadsInv, RequestInv, IsAt, Reading
<1>3. InputInv'
  BY DEF ReadsInv, InputInv
<1>4. AaffInv'
  BY AaffKept DEF ReadsInv
<1>5. PageInv'
  BY DEF PageInv
<1>6. EndInv'
  BY SameImages DEF ReadsInv, EndInv
<1>. QED BY <1>1, <1>2, <1>3, <1>4, <1>5, <1>6 DEF ReadsInv

LEMMA MorphReads == ASSUME ReadsInv, Morph PROVE ReadsInv'
<1>1. CASE ~Morphs
  BY <1>1, FailedReads DEF Morph, Unread, ReadsInv, EndInv
<1>2. CASE Morphs
  <2>1. /\ pc = "open" /\ pc' = "idle" /\ Len(sizes) = Len(Images) /\ morph' = Morphed
        /\ UNCHANGED <<setup, sizes, req, at, in, out, ret, met, bad, aaff>>
    BY <1>2 DEF Morph, Unread
  <2>2. Mounted
    BY <1>2, <2>1 DEF ReadsInv, MountInv, Mounted
  <2>3. Morphed.size \in Nat
    BY <2>2, MorphedSize
  <2>4. MountInv'
    <3>1. /\ Setup' = Setup /\ Images' = Images
          /\ \A i : Size(i)' = Size(i) /\ (Opens(i)' <=> Opens(i))
      BY <2>1, SameImages
    <3>2. (Morphs' <=> Morphs) /\ Morphed' = Morphed
      BY <2>1 DEF Morphs, Morphed, Setup, Images
    <3>. QED BY <1>2, <2>1, <2>3, <3>1, <3>2 DEF ReadsInv, MountInv
  <2>5. RequestInv'
    BY <2>1 DEF ReadsInv, RequestInv, IsAt, Reading
  <2>6. InputInv' /\ AaffInv' /\ PageInv' /\ bad' \subseteq 0..(Len(Images') - 1)
    BY <2>1, AtRestKept
  <2>7. EndInv'
    BY <2>1, <2>6 DEF ReadsInv, EndInv
  <2>. QED BY <2>4, <2>5, <2>6, <2>7 DEF ReadsInv
<1>. QED BY <1>1, <1>2

LEMMA EndReads == ASSUME ReadsInv, End PROVE ReadsInv'
<1>1. /\ pc \in {"failed", "idle"} /\ pc' = "ended" /\ req' = NoReq /\ at' = NoAt /\ in' = NoIn
      /\ ret' = "none" /\ UNCHANGED <<setup, sizes, morph, met, bad, aaff>>
  BY DEF End
<1>2. MountInv'
  <2>1. ~Started'
    BY <1>1 DEF Started
  <2>2. /\ Setup' = Setup /\ Images' = Images
        /\ \A i : Size(i)' = Size(i) /\ (Opens(i)' <=> Opens(i))
    BY <1>1, SameImages
  <2>. QED BY <1>1, <2>1, <2>2 DEF ReadsInv, MountInv
<1>3. RequestInv'
  BY <1>1 DEF RequestInv, IsAt, NoReq, NoAt, Reading
<1>4. InputInv'
  BY <1>1 DEF InputInv, NoIn
<1>5. AaffInv'
  BY <1>1, AaffKept DEF ReadsInv
<1>6. PageInv'
  BY <1>1 DEF PageInv
<1>7. EndInv'
  BY <1>1, SameImages DEF ReadsInv, EndInv
<1>. QED BY <1>2, <1>3, <1>4, <1>5, <1>6, <1>7 DEF ReadsInv

-----------------------------------------------------------------------------
(* A read of the morphed image                                             *)

LEMMA RequestReads ==
  ASSUME ReadsInv, NEW offset \in Nat, NEW count \in Nat, Request(offset, count)
  PROVE  ReadsInv'
<1>1. /\ pc = "idle" /\ pc' \in {"idle", "morphing"}
      /\ req' = [offset |-> offset, count |-> count]
      /\ met' = FALSE /\ in' = NoIn /\ ret' \in {"none", "ok"}
      /\ UNCHANGED <<setup, sizes, morph, bad, aaff>>
  BY DEF Request, Static, Finish
<1>2. Mounted /\ morph = Morphed /\ morph.size \in Nat
  <2>1. Started
    BY <1>1 DEF Started
  <2>. QED BY <2>1, StartedMounted DEF ReadsInv, MountInv
<1>3. IsAt(at', count)
  <2>1. CASE offset >= morph.size
    <3>1. at' = NoAt
      BY <2>1 DEF Request
    <3>. QED BY <3>1 DEF IsAt, NoAt
  <2>2. CASE ~(offset >= morph.size)
    <3>1. PICK size \in Nat : size = morph.size /\ offset < size
      BY <1>2, <2>2
    <3>2. PICK n \in Nat : n = Min({count, size - offset}) /\ n <= count /\ offset + n <= size
      <4>1. Min({count, size - offset}) = IF count <= size - offset THEN count ELSE size - offset
        <5>1. count \in Int /\ size - offset \in Int
          OBVIOUS
        <5>. QED BY <5>1, MinOfTwo
      <4>. QED BY <3>1, <4>1
    <3>3. at' = CASE Setup.morph = "combine" -> CombineStart(sizes, offset, n)
                  [] Setup.morph = "swab" -> SwabStart(offset, n)
                  [] OTHER -> UnitStart(morph.unit, offset, n)
      BY <2>2, <3>1, <3>2 DEF Request
    <3>4. /\ Setup.morph = "combine" => at' = CombineStart(sizes, offset, n)
          /\ Setup.morph = "swab" => at' = SwabStart(offset, n)
          /\ Setup.morph \in {"raid", "unallocated"} => at' = UnitStart(morph.unit, offset, n)
      BY <3>3
    <3>5. /\ Setup.morph = "combine" => IsAt(CombineStart(sizes, offset, n), count)
          /\ Setup.morph = "swab" => IsAt(SwabStart(offset, n), count)
          /\ Setup.morph \in {"raid", "unallocated"} =>
               IsAt(UnitStart(morph.unit, offset, n), count)
      BY <1>2, <3>1, <3>2, ReadBegins
    <3>6. Setup.morph \in {"combine", "raid", "swab", "unallocated"}
      BY <1>2, Units
    <3>. QED BY <3>4, <3>5, <3>6
  <2>. QED BY <2>1, <2>2
<1>4. MountInv'
  BY <1>1, MountKept DEF ReadsInv, Started, Reading
<1>5. RequestInv'
  <2>1. PICK a : a = at'
    OBVIOUS
  <2>2. IsAt(a, count)'
    BY <1>1, <1>3, <2>1, SameMorphing
  <2>3. req'.count = count /\ req' \in [offset : Nat, count : Nat]
    BY <1>1
  <2>4. IsAt(at, req.count)'
    BY <2>1, <2>2, <2>3 DEF IsAt, Place
  <2>. QED BY <1>1, <2>3, <2>4 DEF RequestInv, Reading
<1>6. InputInv'
  BY <1>1 DEF InputInv, NoIn
<1>7. AaffInv'
  BY <1>1, AaffKept DEF ReadsInv
<1>8. PageInv'
  BY <1>1 DEF PageInv
<1>9. EndInv'
  BY <1>1, SameImages DEF ReadsInv, EndInv
<1>. QED BY <1>4, <1>5, <1>6, <1>7, <1>8, <1>9 DEF ReadsInv

LEMMA RequestsReads == ASSUME ReadsInv, Requests PROVE ReadsInv'
<1>1. morph.size \in Nat
  BY DEF ReadsInv, MountInv
<1>2. PICK offset \in 0..morph.size, count \in 1..(morph.size + 1) : Request(offset, count)
  BY DEF Requests
<1>3. offset \in Nat /\ count \in Nat
  BY <1>1
<1>. QED BY <1>2, <1>3, RequestReads

\* A read ends, whatever of the read of an image there was; the AFF image that
\* was read may have been changed.
LEMMA ReadEnds ==
  ASSUME ReadsInv, pc \in Reading, pc' = "idle", ret' \in {"ok", "error"}, met' \in BOOLEAN,
         UNCHANGED <<setup, sizes, morph, req, at, in>>,
         AaffInv', bad' \subseteq 0..(Len(Images) - 1)
  PROVE  ReadsInv'
<1>1. Started
  BY DEF Started, Reading
<1>2. MountInv'
  BY <1>1, MountKept DEF ReadsInv
<1>3. RequestInv'
  <2>1. IsAt(at, req.count)'
    <3>1. PICK a, n : a = at /\ n = req.count
      OBVIOUS
    <3>2. IsAt(a, n)'
      BY <3>1, SameMorphing DEF ReadsInv, RequestInv
    <3>. QED BY <3>1, <3>2 DEF IsAt, Place
  <2>. QED BY <2>1 DEF ReadsInv, RequestInv, Reading
<1>4. InputInv'
  BY DEF ReadsInv, InputInv
<1>5. PageInv'
  BY DEF PageInv
<1>6. EndInv'
  BY SameImages DEF ReadsInv, EndInv
<1>. QED BY <1>2, <1>3, <1>4, <1>5, <1>6 DEF ReadsInv

\* The read goes on, with the same part of the morphed image.
LEMMA RequestKept ==
  ASSUME ReadsInv, pc' \in Reading, UNCHANGED <<setup, sizes, morph, req, at>>,
         pc' = "morphing" \/ (MorphLeft /\ in'.asked = MorphStep.count)
  PROVE  RequestInv'
<1>1. IsAt(at, req.count)'
  <2>1. PICK a, n : a = at /\ n = req.count
    OBVIOUS
  <2>2. IsAt(a, n)'
    BY <2>1, SameMorphing DEF ReadsInv, RequestInv
  <2>. QED BY <2>1, <2>2 DEF IsAt, Place
<1>2. (MorphLeft' <=> MorphLeft) /\ MorphStep' = MorphStep
  BY SameMorphing
<1>. QED BY <1>1, <1>2 DEF ReadsInv, RequestInv, Reading

LEMMA MorphDoneReads == ASSUME ReadsInv, MorphDone PROVE ReadsInv'
<1>1. /\ pc = "morphing" /\ pc' = "idle" /\ ret' \in {"ok", "error"}
      /\ UNCHANGED <<setup, sizes, morph, req, at, in, out, met, bad, aaff>>
  BY DEF MorphDone, Finish, Static
<1>2. AaffInv'
  BY <1>1, AaffKept DEF ReadsInv
<1>. QED BY <1>1, <1>2, ReadEnds DEF ReadsInv, EndInv, Reading

LEMMA MorphCallReads == ASSUME ReadsInv, MorphCall PROVE ReadsInv'
<1>1. /\ pc = "morphing" /\ MorphLeft
      /\ UNCHANGED <<setup, sizes, morph, req, at, out, met, bad, aaff>>
  BY DEF MorphCall, Static
<1>2. Started
  BY <1>1 DEF Started
<1>3. Mounted /\ morph = Morphed
  BY <1>2, StartedMounted DEF ReadsInv
<1>4. StepType(MorphStep, at)
  <2>1. PICK most \in Nat : IsAt(at, most)
    BY DEF ReadsInv, RequestInv
  <2>. QED BY <1>1, <1>3, <2>1, MorphStepType
<1>5. PICK step : step = MorphStep
  OBVIOUS
<1>6. PICK image \in Nat, offset \in Nat, count \in Nat :
        image = step.image /\ offset = step.offset /\ count = step.count
  BY <1>4, <1>5 DEF StepType
<1>7. count = 0 => offset >= sizes[image + 1]
  BY <1>4, <1>5, <1>6 DEF StepType
<1>8. sizes \in Seq(Nat) /\ Len(sizes) = Len(Images) /\ setup \in DOMAIN Setups
  BY <1>3 DEF Mounted
<1>. DEFINE n == Min({count, sizes[image + 1] - offset})
            seek == offset + Setup.offset
            first == IF Format(image) = "aaff" THEN seek \div File(image).pageSize ELSE 0
<1>9. \/ /\ image >= Len(sizes) /\ Finish("error") /\ in' = in
      \/ /\ image < Len(sizes) /\ offset >= sizes[image + 1]
         /\ in' = [NoIn EXCEPT !.asked = count] /\ pc' = "back" /\ ret' = ret
      \/ /\ image < Len(sizes) /\ offset < sizes[image + 1]
         /\ in' = [image |-> image, seek |-> seek, left |-> n, asked |-> count, got |-> n,
                   hops |-> 0, page |-> first]
         /\ pc' = IF Format(image) = "aaff" THEN "page" ELSE "input"
         /\ ret' = ret
  <2>1. CASE image >= Len(sizes)
    <3>1. ~(image < Len(sizes))
      BY <1>8, <2>1
    <3>. QED BY <1>5, <1>6, <2>1, <3>1 DEF MorphCall
  <2>2. CASE ~(image >= Len(sizes))
    <3>0. image < Len(sizes) /\ sizes[image + 1] \in Nat
      BY <1>8, <2>2
    <3>1. CASE offset >= sizes[image + 1]
      BY <1>5, <1>6, <2>2, <3>0, <3>1 DEF MorphCall
    <3>2. CASE ~(offset >= sizes[image + 1])
      BY <1>5, <1>6, <2>2, <3>0, <3>2 DEF MorphCall
    <3>. QED BY <3>1, <3>2
  <2>. QED BY <2>1, <2>2
<1>10. CASE image >= Len(sizes) /\ Finish("error") /\ in' = in
  <2>1. AaffInv'
    BY <1>1, <1>10, AaffKept DEF ReadsInv, Finish
  <2>. QED BY <1>1, <1>10, <2>1, ReadEnds DEF ReadsInv, EndInv, Reading, Finish
<1>11. CASE /\ image < Len(sizes) /\ offset >= sizes[image + 1]
            /\ in' = [NoIn EXCEPT !.asked = count] /\ pc' = "back" /\ ret' = ret
  <2>1. MountInv'
    BY <1>1, <1>2, <1>11, MountKept DEF ReadsInv, Reading
  <2>2. RequestInv'
    <3>1. in'.asked = count
      BY <1>11 DEF NoIn
    <3>. QED BY <1>1, <1>5, <1>6, <1>11, <3>1, RequestKept DEF Reading
  <2>3. InputInv'
    BY <1>11 DEF InputInv, NoIn
  <2>4. AaffInv'
    BY <1>1, <1>11, AaffKept DEF ReadsInv
  <2>5. PageInv'
    BY <1>11 DEF PageInv
  <2>6. EndInv'
    BY <1>1, <1>11, SameImages DEF ReadsInv, EndInv
  <2>. QED BY <2>1, <2>2, <2>3, <2>4, <2>5, <2>6 DEF ReadsInv
<1>12. CASE /\ image < Len(sizes) /\ offset < sizes[image + 1]
            /\ in' = [image |-> image, seek |-> seek, left |-> n, asked |-> count, got |-> n,
                      hops |-> 0, page |-> first]
            /\ pc' = IF Format(image) = "aaff" THEN "page" ELSE "input"
            /\ ret' = ret
  <2>1. pc' \in {"page", "input"} /\ (Format(image) = "aaff" <=> pc' # "input")
    BY <1>12
  <2>2. PICK size \in Nat : size = sizes[image + 1] /\ offset < size
    BY <1>8, <1>12
  <2>3. /\ n \in Nat /\ n <= count /\ offset + n <= size /\ n # 0
    <3>1. Min({count, size - offset}) = IF count <= size - offset THEN count ELSE size - offset
      <4>1. count \in Int /\ size - offset \in Int
        OBVIOUS
      <4>. QED BY <4>1, MinOfTwo
    <3>2. count # 0
      BY <1>7, <2>2
    <3>. QED BY <2>2, <3>1, <3>2
  <2>4. image \in 0..(Len(sizes) - 1) /\ image \in 0..(Len(Images) - 1) /\ image + 1 \in 1..Len(sizes)
    BY <1>8, <1>12
  <2>5. PICK skip \in Nat : skip = Setup.offset
    BY <1>8, SetupMakesSense DEF MountMakesSense
  <2>6. size + skip <= Size(image) /\ Size(image) \in Nat
    <3>1. image + 1 - 1 = image
      OBVIOUS
    <3>. QED BY <1>8, <2>2, <2>4, <2>5, <3>1, ImageMakesSense DEF ReadsInv, MountInv
  <2>7. seek \in Nat /\ seek + n <= Size(image)
    BY <2>2, <2>3, <2>5, <2>6
  <2>8. first \in Nat
    <3>1. CASE Format(image) = "aaff"
      <4>1. FileMakesSense("aaff", File(image))
        BY <1>8, <2>4, <3>1, ImageMakesSense
      <4>2. PICK c \in Positive : c = File(image).pageSize
        BY <4>1 DEF FileMakesSense
      <4>3. PICK s \in Nat : s = seek
        BY <2>7
      <4>4. s \div c \in Nat
        BY DivMod
      <4>. QED BY <3>1, <4>2, <4>3, <4>4
    <3>. QED BY <3>1
  <2>. HIDE DEF n, seek, first
  <2>9. /\ in' \in [image : Nat, seek : Nat, left : Nat, asked : Nat, got : Nat,
                    page : Nat, hops : Nat]
        /\ in'.image = image /\ in'.seek = seek /\ in'.left = n /\ in'.asked = count
        /\ in'.got = n /\ in'.page = first
    BY <1>12, <2>3, <2>7, <2>8
  <2>10. /\ Setup' = Setup /\ \A i : /\ File(i)' = File(i) /\ Format(i)' = Format(i)
                                     /\ Size(i)' = Size(i)
    BY <1>1, SameImages
  <2>11. File(in.image)' = File(image) /\ Format(in.image)' = Format(image)
         /\ Size(in.image)' = Size(image)
    BY <1>1, <2>9 DEF File, Format, Size, ImageSize, Images, Setup
  <2>12. MountInv'
    BY <1>1, <1>2, <2>1, MountKept DEF ReadsInv, Reading
  <2>13. RequestInv'
    BY <1>1, <1>5, <1>6, <2>1, <2>9, RequestKept DEF Reading
  <2>14. InputInv'
    BY <1>1, <2>1, <2>3, <2>4, <2>7, <2>9, <2>11 DEF InputInv
  <2>15. AaffInv'
    BY <1>1, <2>1, AaffKept DEF ReadsInv
  <2>16. PageInv'
    <3>1. pc' = "page" => in'.page = (in'.seek \div File(in.image)'.pageSize)
      BY <2>1, <2>9, <2>11 DEF first
    <3>2. in'.left = in'.got /\ in'.left # 0
      BY <2>3, <2>9
    <3>. QED BY <2>1, <3>1, <3>2 DEF PageInv, FirstPage
  <2>17. EndInv'
    BY <1>1, <1>12, SameImages DEF ReadsInv, EndInv
  <2>. QED BY <2>12, <2>13, <2>14, <2>15, <2>16, <2>17 DEF ReadsInv
<1>. QED BY <1>9, <1>10, <1>11, <1>12

LEMMA MorphBackReads == ASSUME ReadsInv, MorphBack PROVE ReadsInv'
<1>1. pc = "back" /\ UNCHANGED <<setup, sizes, morph, req, in, met, bad, aaff>>
  BY DEF MorphBack, Static
<1>2. Started
  BY <1>1 DEF Started
<1>3. Mounted /\ morph = Morphed
  BY <1>2, StartedMounted DEF ReadsInv
<1>4. MorphLeft /\ in.asked = MorphStep.count
  BY <1>1 DEF ReadsInv, RequestInv, Reading
<1>5. PICK most \in Nat : most = req.count /\ IsAt(at, most)
  BY DEF ReadsInv, RequestInv
<1>6. StepType(MorphStep, at) /\ at.left # 0
  BY <1>3, <1>4, <1>5, MorphStepType
<1>7. CASE in.got # in.asked
  <2>1. Finish("error") /\ UNCHANGED <<at, out>>
    BY <1>7 DEF MorphBack
  <2>2. AaffInv'
    BY <1>1, <2>1, AaffKept DEF ReadsInv, Finish
  <2>. QED BY <1>1, <2>1, <2>2, ReadEnds DEF ReadsInv, EndInv, Reading, Finish
<1>8. CASE in.got = in.asked
  <2>1. /\ pc' = "morphing" /\ ret' = ret
        /\ Setup.morph = "swab" => at' = [at EXCEPT !.left = 0]
        /\ Setup.morph # "swab" => at' = After(at, in.asked)
    BY <1>8 DEF MorphBack, After
  <2>2. IsAt(at', most)
    <3>1. PICK a \in [unit : Nat, ofs : Nat, left : 0..most] : a = at
      BY <1>5 DEF IsAt
    <3>2. CASE Setup.morph = "swab"
      <4>1. at' = [a EXCEPT !.left = 0]
        BY <2>1, <3>1, <3>2
      <4>2. at' \in [unit : Nat, ofs : Nat, left : 0..most] /\ at'.left = 0
        BY <4>1
      <4>. QED BY <4>2 DEF IsAt
    <3>3. CASE Setup.morph # "swab"
      <4>1. PICK d \in 0..a.left : d = in.asked /\ (a.left - d # 0 => Place(After(a, d)))
        BY <1>4, <1>6, <3>1, <3>3 DEF StepType
      <4>2. at' = After(a, d)
        BY <2>1, <3>1, <3>3, <4>1
      <4>3. at' \in [unit : Nat, ofs : Nat, left : 0..most] /\ at'.left = a.left - d
        BY <4>2 DEF After
      <4>. QED BY <4>1, <4>2, <4>3 DEF IsAt
    <3>. QED BY <3>2, <3>3
  <2>3. IsAt(at, req.count)'
    <3>1. PICK a : a = at'
      OBVIOUS
    <3>2. IsAt(a, most)'
      BY <1>1, <2>2, <3>1, SameMorphing
    <3>. QED BY <1>1, <1>5, <3>1, <3>2 DEF IsAt, Place
  <2>4. MountInv'
    BY <1>1, <1>2, <2>1, MountKept DEF ReadsInv, Reading
  <2>5. RequestInv'
    BY <1>1, <2>1, <2>3 DEF ReadsInv, RequestInv, Reading
  <2>6. InputInv'
    BY <1>1, <2>1 DEF ReadsInv, InputInv
  <2>7. AaffInv'
    BY <1>1, <2>1, AaffKept DEF ReadsInv
  <2>8. PageInv'
    BY <2>1 DEF PageInv
  <2>9. EndInv'
    BY <1>1, <2>1, SameImages DEF ReadsInv, EndInv
  <2>. QED BY <2>4, <2>5, <2>6, <2>7, <2>8, <2>9 DEF ReadsInv
<1>. QED BY <1>7, <1>8

-----------------------------------------------------------------------------
(* A read of an image                                                      *)

\* What a step has read is less to read from further on.
LEMMA WhatIsLeft ==
  ASSUME NEW left \in Nat, NEW n \in 0..left, NEW seek \in Nat
  PROVE  left - n <= left /\ seek + n + (left - n) = seek + left
OBVIOUS

LEMMA InputStepReads == ASSUME ReadsInv, InputStep PROVE ReadsInv'
<1>1. pc = "input" /\ UNCHANGED <<setup, sizes, morph, req, at, aaff>>
  BY DEF InputStep, Static
<1>2. Started
  BY <1>1 DEF Started
<1>3. Mounted
  BY <1>2, StartedMounted DEF ReadsInv
<1>4. PICK i \in 0..(Len(sizes) - 1) : i = in.image
  BY <1>1 DEF ReadsInv, InputInv
<1>5. i \in 0..(Len(Images) - 1) /\ setup \in DOMAIN Setups /\ i + 1 \in 1..Len(sizes)
  BY <1>3, <1>4 DEF Mounted
<1>6. PICK answer : answer = Read0(i, in.seek, in.left)
  OBVIOUS
<1>7. PICK fault \in Faults :
        \/ /\ Finish("error") /\ met' = (met \/ fault)
           /\ bad' = IF fault /\ Format(i) = "qcow" THEN bad \cup {i} ELSE bad
           /\ UNCHANGED <<in, out>>
        \/ /\ answer.ok /\ out' = out \o answer.data
           /\ in' = [in EXCEPT !.seek = @ + Len(answer.data), !.left = @ - Len(answer.data)]
           /\ pc' = IF in.left = Len(answer.data) THEN "back" ELSE "input"
           /\ UNCHANGED <<ret, met, bad>>
  BY <1>4, <1>6 DEF InputStep
<1>8. CASE /\ Finish("error") /\ met' = (met \/ fault)
           /\ bad' = IF fault /\ Format(i) = "qcow" THEN bad \cup {i} ELSE bad
           /\ UNCHANGED <<in, out>>
  <2>1. AaffInv'
    BY <1>1, <1>8, AaffKept DEF ReadsInv, Finish
  <2>2. fault \in BOOLEAN /\ met' \in BOOLEAN
    <3>1. fault \in BOOLEAN /\ met \in BOOLEAN
      BY ImageConstants DEF ReadsInv, EndInv
    <3>. QED BY <1>8, <3>1
  <2>3. bad' \subseteq 0..(Len(Images) - 1)
    BY <1>5, <1>8 DEF ReadsInv, EndInv
  <2>. QED BY <1>1, <1>8, <2>1, <2>2, <2>3, ReadEnds DEF Reading, Finish
<1>9. CASE /\ answer.ok /\ out' = out \o answer.data
           /\ in' = [in EXCEPT !.seek = @ + Len(answer.data), !.left = @ - Len(answer.data)]
           /\ pc' = IF in.left = Len(answer.data) THEN "back" ELSE "input"
           /\ UNCHANGED <<ret, met, bad>>
  <2>1. PICK left \in Nat, seek \in Nat, got \in Nat :
          left = in.left /\ seek = in.seek /\ got = in.got /\ left <= got
    BY DEF ReadsInv, InputInv
  <2>2. Opens(i)
    <3>1. i + 1 - 1 = i
      OBVIOUS
    <3>. QED BY <1>5, <3>1 DEF ReadsInv, MountInv
  <2>3. PICK n \in 0..left : n = Len(answer.data)
    <3>1. Answers(Read0(i, seek, left), left)
      BY <1>5, <2>2, ReadAnswers
    <3>. QED BY <1>6, <1>9, <2>1, <3>1 DEF Answers
  <2>4. PICK size \in Int : size = Size(i) /\ seek + left <= size
    <3>1. Size(i) \in Nat
      BY <1>5, ImageMakesSense
    <3>. QED BY <1>1, <1>4, <2>1, <3>1 DEF ReadsInv, InputInv
  <2>5. in' = [in EXCEPT !.seek = seek + n, !.left = left - n]
    BY <1>9, <2>1, <2>3
  <2>6. /\ in' \in [image : Nat, seek : Nat, left : Nat, asked : Nat, got : Nat,
                    page : Nat, hops : Nat]
        /\ in'.image = in.image /\ in'.seek = seek + n /\ in'.left = left - n
        /\ in'.got = in.got /\ in'.asked = in.asked
    <3>1. seek + n \in Nat /\ left - n \in Nat
      OBVIOUS
    <3>. QED BY <2>5, <3>1 DEF ReadsInv, InputInv
  <2>7. pc' \in {"back", "input"}
    BY <1>9
  <2>8. MountInv'
    BY <1>1, <1>2, <2>7, MountKept DEF ReadsInv, Reading
  <2>9. RequestInv'
    <3>1. MorphLeft /\ in'.asked = MorphStep.count
      BY <1>1, <2>6 DEF ReadsInv, RequestInv, Reading
    <3>. QED BY <1>1, <2>7, <3>1, RequestKept DEF Reading
  <2>10. InputInv'
    <3>1. Format(in.image)' = Format(i) /\ Size(in.image)' = size
      BY <1>1, <1>4, <2>4, <2>6 DEF Format, Size, ImageSize, Images, Setup
    <3>2. Format(i) # "aaff"
      BY <1>1, <1>4 DEF ReadsInv, InputInv
    <3>3. left - n <= got /\ seek + n + (left - n) <= size
      <4>1. left - n <= left /\ seek + n + (left - n) = seek + left
        BY WhatIsLeft
      <4>2. left - n <= got
        <5>1. left - n \in Nat /\ left <= got
          BY <2>1
        <5>. QED BY <4>1, <5>1
      <4>. QED BY <2>4, <4>1, <4>2
    <3>4. in'.got <= in'.asked
      BY <2>6 DEF ReadsInv, InputInv
    <3>. QED BY <1>1, <1>4, <2>1, <2>6, <2>7, <3>1, <3>2, <3>3, <3>4 DEF InputInv
  <2>11. AaffInv'
    BY <1>1, <2>7, AaffKept DEF ReadsInv
  <2>12. PageInv'
    BY <2>7 DEF PageInv
  <2>13. EndInv'
    BY <1>1, <1>9, SameImages DEF ReadsInv, EndInv
  <2>. QED BY <2>8, <2>9, <2>10, <2>11, <2>12, <2>13 DEF ReadsInv
<1>. QED BY <1>7, <1>8, <1>9

-----------------------------------------------------------------------------
(* A read of an AFF image                                                  *)

\* The size of an image is the one that is stated, if it is not misread.
LEMMA SizeRead ==
  ASSUME SizesRead(Setup), setup \in DOMAIN Setups, NEW i \in 0..(Len(Images) - 1),
         Format(i) = "aaff"
  PROVE  Size(i) = File(i).size
<1>1. PICK k \in DOMAIN Images : k = i + 1
  <2>1. IsSequence(Images) /\ Len(Images) \in Nat
    BY SetupMakesSense, ImagesCount DEF MountMakesSense, Images
  <2>2. i + 1 \in 1..Len(Images) /\ DOMAIN Images = 1..Len(Images)
    BY <2>1, SequenceDomain
  <2>. QED BY <2>2
<1>2. A!SignedBytes(Images[k].file.size) = {}
  BY <1>1 DEF SizesRead, Format, Images
<1>3. A!ImageSize(Images[k].file) = Images[k].file.size
  BY <1>2 DEF A!ImageSize, A!AaffU64
<1>. QED BY <1>1, <1>3 DEF Size, ImageSize, Format, File

\* What is known of the image that is read, and of its handle.
LEMMA AaffRead ==
  ASSUME ReadsInv, pc \in {"page", "hop"}
  PROVE  /\ in.image \in DOMAIN aaff /\ FileMakesSense("aaff", File(in.image))
         /\ SizesRead(Setup) => Size(in.image) = File(in.image).size
         /\ Size(in.image) \in Nat
         /\ HandleInv(File(in.image), aaff[in.image])
         /\ pc = "page" => Behind(File(in.image), aaff[in.image])
         /\ pc = "hop" => Before(File(in.image), aaff[in.image], in.page, in.hops)
         /\ in.page \in Nat /\ in.hops \in Nat /\ Started
<1>1. Started
  BY DEF Started
<1>2. in.image \in 0..(Len(Images) - 1) /\ Format(in.image) = "aaff" /\ setup \in DOMAIN Setups
  <2>1. Mounted
    BY <1>1, StartedMounted DEF ReadsInv
  <2>2. in.image \in 0..(Len(sizes) - 1) /\ Format(in.image) = "aaff"
    BY DEF ReadsInv, InputInv
  <2>. QED BY <2>1, <2>2 DEF Mounted
<1>3. FileMakesSense("aaff", File(in.image))
  BY <1>2, ImageMakesSense
<1>4. /\ SizesRead(Setup) => Size(in.image) = File(in.image).size
      /\ Size(in.image) \in Nat
  BY <1>2, SizeRead, ImageMakesSense
<1>5. in.image \in DOMAIN aaff
  BY <1>2 DEF ReadsInv, AaffInv
<1>6. /\ HandleInv(File(in.image), aaff[in.image])
      /\ pc = "page" => Behind(File(in.image), aaff[in.image])
      /\ pc = "hop" => Before(File(in.image), aaff[in.image], in.page, in.hops)
  BY <1>5 DEF ReadsInv, AaffInv
<1>7. in.page \in Nat /\ in.hops \in Nat
  BY DEF ReadsInv, InputInv
<1>. QED BY <1>1, <1>3, <1>4, <1>5, <1>6, <1>7

\* A step changes the handle of the image that is read, in this way.
LEMMA OneHandle ==
  ASSUME ReadsInv, pc \in {"page", "hop"}, setup' = setup,
         NEW a, aaff' = [aaff EXCEPT ![in.image] = a], HandleInv(File(in.image), a),
         in'.image = in.image,
         \/ pc' # "hop" /\ Behind(File(in.image), a)
         \/ pc' = "hop" /\ Before(File(in.image), a, in'.page, in'.hops)
  PROVE  AaffInv'
<1>1. PICK i \in DOMAIN aaff : i = in.image
  BY AaffRead
<1>2. Images' = Images /\ \A j : File(j)' = File(j) /\ Format(j)' = Format(j)
  BY SameImages
<1>3. /\ DOMAIN aaff' = DOMAIN aaff /\ aaff'[i] = a
      /\ \A j \in DOMAIN aaff : j # i => aaff'[j] = aaff[j]
  BY <1>1
<1>4. \A j \in DOMAIN aaff : /\ HandleInv(File(j), aaff[j])
                             /\ j # i => Behind(File(j), aaff[j])
  BY <1>1 DEF ReadsInv, AaffInv
<1>5. \A j \in DOMAIN aaff : HandleInv(File(j), aaff'[j])
  <2>1. HandleInv(File(i), aaff'[i])
    BY <1>1, <1>3
  <2>2. ASSUME NEW j \in DOMAIN aaff, j # i PROVE HandleInv(File(j), aaff'[j])
    <3>1. aaff'[j] = aaff[j]
      BY <1>3, <2>2
    <3>. QED BY <1>4, <3>1
  <2>. QED BY <2>1, <2>2
<1>6. \A j \in DOMAIN aaff' : HandleInv(File(j), aaff[j])'
  BY <1>2, <1>3, <1>5 DEF HandleInv
<1>7. DOMAIN aaff' = {j \in 0..(Len(Images') - 1) : Format(j)' = "aaff"}
  BY <1>2, <1>3 DEF ReadsInv, AaffInv
<1>8. \A j \in DOMAIN aaff' :
        /\ pc' # "hop" \/ j # in'.image => Behind(File(j), aaff[j])'
        /\ pc' = "hop" /\ j = in'.image => Before(File(j), aaff[j], in.page, in.hops)'
  BY <1>1, <1>2, <1>3, <1>4 DEF Behind, Before
<1>. QED BY <1>6, <1>7, <1>8 DEF AaffInv

\* No handle changes.
LEMMA SameHandle ==
  ASSUME ReadsInv, pc = "page", setup' = setup, aaff' = aaff, pc' # "hop"
  PROVE  AaffInv'
  BY AaffKept DEF ReadsInv

\* A page is copied: part of the first one, all of the others.
LEMMA PageCopied ==
  ASSUME ReadsInv, pc \in {"page", "hop"}, NEW a, HandleInv(File(in.image), a),
         a.page = in.page, CopyPage(a), AaffInv',
         UNCHANGED <<setup, sizes, morph, req, at, met, bad, ret>>
  PROVE  ReadsInv'
<1>. DEFINE f == File(in.image)
            ofs == IF in.page = FirstPage THEN in.seek % f.pageSize ELSE 0
            n == Min({(Len(A!PageBuffer(f, a)) - ofs) % Word, in.left})
<1>1. /\ pc' = "page"
      /\ in' = [in EXCEPT !.left = in.left - n, !.page = in.page + 1, !.hops = 0]
  BY DEF CopyPage, FirstPage
<1>2. FileMakesSense("aaff", f) /\ Started /\ (SizesRead(Setup) => Size(in.image) = f.size)
  BY AaffRead
<1>3. PICK page \in Nat, left \in Nat, got \in Nat, seek \in Nat :
        /\ page = in.page /\ left = in.left /\ got = in.got /\ seek = in.seek
        /\ left <= got
  BY DEF ReadsInv, InputInv
<1>4. page \in 0..(Len(f.pages) - 1)
  BY <1>3, NoPage DEF HandleInv
<1>5. PICK len \in Positive : len = A!PageLen(f, page) /\ len = Len(A!PageBuffer(f, a))
  <2>1. A!PageLen(f, page) \in Positive
    BY <1>2, <1>4, PageLenType
  <2>2. a.page # A!NotSet
    BY <1>3, NoPage
  <2>. QED BY <1>2, <1>3, <2>1, <2>2, BufferLength
<1>6. PICK o \in Nat, first \in Nat :
         /\ o = ofs /\ first = FirstPage
         /\ SizesRead(Setup) /\ left = got => left # 0 /\ o < len /\ page = first
         /\ SizesRead(Setup) /\ left # got => o = 0 /\ page > first
  <2>1. PICK first \in Nat, s \in Nat : /\ first = FirstPage /\ s = seek % f.pageSize
    <3>1. f.pageSize \in Positive
      BY <1>2 DEF FileMakesSense
    <3>2. seek \div f.pageSize \in Nat /\ seek % f.pageSize \in 0..(f.pageSize - 1)
          /\ f.pageSize \in Nat
      BY <3>1, DivMod
    <3>. QED BY <1>3, <3>2 DEF FirstPage
  <2>2. ofs = (IF page = first THEN s ELSE 0)
    BY <1>3, <2>1
  <2>3. ASSUME SizesRead(Setup), left # got PROVE ofs = 0 /\ page > first
    <3>1. page > first
      BY <1>3, <2>1, <2>3 DEF ReadsInv, PageInv
    <3>. QED BY <2>2, <3>1
  <2>4. ASSUME SizesRead(Setup), left = got PROVE left # 0 /\ ofs \in Nat /\ ofs < len /\ page = first
    <3>1. left # 0 /\ page = first
      BY <1>3, <2>1, <2>4 DEF ReadsInv, PageInv
    <3>2. PICK c \in Positive, size \in Nat : c = f.pageSize /\ size = f.size
      BY <1>2 DEF FileMakesSense, Positive
    <3>10. page = seek \div c
      BY <1>3, <2>1, <3>1, <3>2 DEF FirstPage
    <3>3. PICK r \in 0..(c - 1) : r = seek % c /\ seek = (page * c) + r /\ page * c \in Nat
      BY <3>10, DivMod
    <3>4. c \in Nat
      BY DEF Positive
    <3>5. seek + left <= size
      <4>1. in.seek + in.left <= Size(in.image)
        BY DEF ReadsInv, InputInv
      <4>. QED BY <1>2, <1>3, <2>4, <3>2, <4>1
    <3>6. (page * c) + r < size
      BY <3>1, <3>3, <3>5
    <3>7. r < len
      BY <1>2, <1>4, <1>5, <3>2, <3>6, PageLenType
    <3>8. ofs = r
      BY <2>1, <2>2, <3>1, <3>2, <3>3
    <3>9. r \in Nat
      BY <3>4
    <3>. HIDE DEF ofs
    <3>. QED BY <3>1, <3>7, <3>8, <3>9
  <2>5. ofs \in Nat
    BY <2>1, <2>2
  <2>. HIDE DEF ofs
  <2>. QED BY <2>1, <2>3, <2>4, <2>5
<1>7. PICK m \in 0..left : m = n /\ (SizesRead(Setup) => left - m < got)
  <2>1. len \in Nat /\ len # 0 /\ len - o \in Int
    BY DEF Positive
  <2>2. PICK x \in Nat : x = (len - o) % Word /\ (SizesRead(Setup) => x # 0)
    <3>1. PICK w \in Nat : w = Word /\ w # 0 /\ len < w
      BY <1>2, <1>4, <1>5, ImageConstants, PageInWord DEF Positive
    <3>2. o < len => len - o \in 0..(w - 1) /\ len - o # 0
      BY <2>1, <3>1
    <3>3. SizesRead(Setup) => o < len
      BY <1>6, <2>1
    <3>4. (len - o) % w \in Nat /\ (len - o \in 0..(w - 1) => (len - o) % w = len - o)
      BY <2>1, <3>1, Remainder DEF Positive
    <3>. QED BY <3>1, <3>2, <3>3, <3>4
  <2>3. n = Min({x, left})
    BY <1>3, <1>5, <1>6, <2>2
  <2>4. Min({x, left}) = IF x <= left THEN x ELSE left
    BY MinOfTwo
  <2>5. n \in 0..left
    BY <2>3, <2>4
  <2>6. ASSUME SizesRead(Setup) PROVE left - n < got
    <3>1. x # 0 /\ (left = got => left # 0)
      BY <1>6, <2>2, <2>6
    <3>. HIDE DEF n
    <3>. QED BY <1>3, <2>3, <2>4, <3>1
  <2>. QED BY <2>5, <2>6
<1>. HIDE DEF n, ofs
<1>8. left - m \in Nat /\ left - m <= got
  BY <1>3, <1>7
<1>9. /\ in' \in [image : Nat, seek : Nat, left : Nat, asked : Nat, got : Nat,
                  page : Nat, hops : Nat]
      /\ in'.image = in.image /\ in'.seek = in.seek /\ in'.left = left - m
      /\ in'.got = in.got /\ in'.asked = in.asked
  <2>1. in' = [in EXCEPT !.left = left - m, !.page = page + 1, !.hops = 0]
    BY <1>1, <1>3, <1>7
  <2>2. PICK l \in Nat, p \in Nat : l = left - m /\ p = page + 1
    BY <1>8
  <2>3. in' = [in EXCEPT !.left = l, !.page = p, !.hops = 0]
    BY <2>1, <2>2
  <2>. QED BY <2>2, <2>3 DEF ReadsInv, InputInv
<1>10. /\ Format(in.image)' = Format(in.image) /\ Size(in.image)' = Size(in.image)
       /\ Images' = Images
  BY <1>9 DEF Format, Size, ImageSize, Images, Setup
<1>11. MountInv'
  BY <1>1, <1>2, MountKept DEF ReadsInv, Reading
<1>12. RequestInv'
  <2>1. MorphLeft /\ in'.asked = MorphStep.count
    BY <1>9 DEF ReadsInv, RequestInv, Reading
  <2>. QED BY <1>1, <2>1, RequestKept DEF Reading
<1>13. InputInv'
  <2>1. in.seek + in'.left <= Size(in.image)
    <3>1. PICK size \in Nat : size = Size(in.image)
      BY AaffRead
    <3>2. seek + left <= size
      BY <1>3, <3>1 DEF ReadsInv, InputInv
    <3>. QED BY <1>3, <1>9, <3>1, <3>2
  <2>2. in'.left <= in'.got /\ in'.got <= in'.asked
    <3>1. in'.left <= in'.got
      BY <1>3, <1>8, <1>9
    <3>2. in'.got <= in'.asked
      BY <1>9 DEF ReadsInv, InputInv
    <3>. QED BY <3>1, <3>2
  <2>3. in.image \in 0..(Len(sizes) - 1) /\ Format(in.image) = "aaff"
    BY DEF ReadsInv, InputInv
  <2>. QED BY <1>1, <1>9, <1>10, <2>1, <2>2, <2>3 DEF InputInv
<1>14. PageInv'
  <2>1. SizesRead(Setup) => in'.left # in'.got /\ in'.page > first
    <3>1. SizesRead(Setup) => page + 1 > first
      BY <1>6
    <3>2. in'.page = page + 1
      BY <1>1, <1>3 DEF ReadsInv, InputInv
    <3>. QED BY <1>3, <1>7, <1>9, <3>1, <3>2
  <2>2. FirstPage' = FirstPage /\ (SizesRead(Setup)' <=> SizesRead(Setup))
    BY <1>9 DEF FirstPage, File, Images, Setup, SizesRead
  <2>. QED BY <1>1, <1>6, <2>1, <2>2 DEF PageInv
<1>15. EndInv'
  BY <1>10 DEF ReadsInv, EndInv
<1>. QED BY <1>11, <1>12, <1>13, <1>14, <1>15 DEF ReadsInv

\* The search begins or goes on.
LEMMA SearchGoes ==
  ASSUME ReadsInv, pc \in {"page", "hop"}, pc' = "hop",
         NEW hops \in Positive, in' = [in EXCEPT !.hops = hops],
         in.page < A!TotalPages(File(in.image)), AaffInv',
         UNCHANGED <<setup, sizes, morph, req, at, met, bad, ret>>
  PROVE  ReadsInv'
<1>1. /\ in' \in [image : Nat, seek : Nat, left : Nat, asked : Nat, got : Nat,
                  page : Nat, hops : Nat]
      /\ in'.image = in.image /\ in'.seek = in.seek /\ in'.left = in.left
      /\ in'.got = in.got /\ in'.asked = in.asked /\ in'.page = in.page
      /\ in'.hops = hops /\ hops # 0
  BY DEF ReadsInv, InputInv, Positive
<1>2. /\ Format(in.image)' = Format(in.image) /\ Size(in.image)' = Size(in.image)
      /\ File(in.image)' = File(in.image) /\ Images' = Images
  BY <1>1 DEF Format, Size, ImageSize, File, Images, Setup
<1>3. MountInv'
  BY AaffRead, MountKept DEF ReadsInv, Reading
<1>4. RequestInv'
  <2>1. MorphLeft /\ in'.asked = MorphStep.count
    BY <1>1 DEF ReadsInv, RequestInv, Reading
  <2>. QED BY <2>1, RequestKept DEF Reading
<1>5. InputInv'
  BY <1>1, <1>2 DEF ReadsInv, InputInv
<1>6. PageInv'
  <2>1. FirstPage' = FirstPage /\ (SizesRead(Setup)' <=> SizesRead(Setup))
    BY <1>1, <1>2 DEF FirstPage, SizesRead, Setup
  <2>. QED BY <1>1, <1>2, <2>1 DEF ReadsInv, PageInv
<1>7. EndInv'
  BY <1>2 DEF ReadsInv, EndInv
<1>. QED BY <1>3, <1>4, <1>5, <1>6, <1>7 DEF ReadsInv

LEMMA AaffPageReads == ASSUME ReadsInv, AaffPage PROVE ReadsInv'
<1>1. pc = "page" /\ UNCHANGED <<setup, sizes, morph, req, at, met, bad>>
  BY DEF AaffPage, Static
<1>2. PICK f, a : f = File(in.image) /\ a = aaff[in.image]
  OBVIOUS
<1>3. FileMakesSense("aaff", f) /\ HandleInv(f, a) /\ Behind(f, a) /\ in.page \in Nat
  BY <1>1, <1>2, AaffRead
<1>4. PICK t \in Positive : t = A!TotalPages(f)
  BY <1>3, AaffPages
<1>5. t \in Nat
  BY DEF Positive
<1>6. CASE in.page >= t
  <2>1. Finish("error") /\ UNCHANGED <<in, out, aaff>>
    <3>1. ~(in.page < t)
      BY <1>3, <1>5, <1>6
    <3>. QED BY <1>2, <1>4, <1>6, <3>1 DEF AaffPage
  <2>2. AaffInv'
    BY <1>1, <2>1, SameHandle DEF Finish
  <2>. QED BY <1>1, <2>1, <2>2, ReadEnds DEF ReadsInv, EndInv, Reading, Finish
<1>7. CASE in.page < t /\ A!InBuffer(a, in.page)
  <2>1. CopyPage(a) /\ UNCHANGED <<ret, aaff>>
    <3>1. ~(in.page >= t)
      BY <1>3, <1>5, <1>7
    <3>. QED BY <1>2, <1>4, <1>7, <3>1 DEF AaffPage
  <2>2. pc' = "page"
    BY <2>1 DEF CopyPage
  <2>3. AaffInv'
    BY <1>1, <2>1, <2>2, SameHandle
  <2>4. a.page = in.page
    BY <1>7 DEF A!InBuffer
  <2>. QED BY <1>1, <1>2, <1>3, <2>1, <2>3, <2>4, PageCopied
<1>8. CASE in.page < t /\ ~A!InBuffer(a, in.page)
  <2>1. PICK behind \in A!BehindArray(f) :
        /\ aaff' = [aaff EXCEPT ![in.image] = A!SearchFrom(f, a, in.page, behind)]
        /\ in' = [in EXCEPT !.hops = A!MaxHops(f, a, in.page, behind)]
        /\ pc' = "hop" /\ UNCHANGED <<out, ret>>
    <3>1. ~(in.page >= t)
      BY <1>3, <1>5, <1>8
    <3>. QED BY <1>2, <1>4, <1>8, <3>1 DEF AaffPage
  <2>2. PICK page \in 0..(A!TotalPages(f) - 1) : page = in.page
    BY <1>3, <1>4, <1>5, <1>8
  <2>3. PICK b, hops : /\ b = A!SearchFrom(f, a, page, behind)
                       /\ hops = A!MaxHops(f, a, page, behind)
    OBVIOUS
  <2>4. HandleInv(f, b) /\ hops \in Positive /\ Before(f, b, page, hops)
    BY <1>3, <2>3, SearchBegins
  <2>5. in'.image = in.image /\ in'.page = page /\ in'.hops = hops
    BY <2>1, <2>2, <2>3 DEF ReadsInv, InputInv
  <2>6. AaffInv'
    <3>1. aaff' = [aaff EXCEPT ![in.image] = b]
      BY <2>1, <2>2, <2>3
    <3>2. Before(File(in.image), b, in'.page, in'.hops)
      BY <1>2, <2>4, <2>5
    <3>3. HandleInv(File(in.image), b)
      BY <1>2, <2>4
    <3>. QED BY <1>1, <2>1, <2>5, <3>1, <3>2, <3>3, OneHandle
  <2>. QED BY <1>1, <1>2, <1>4, <1>8, <2>1, <2>2, <2>3, <2>4, <2>6, SearchGoes
<1>. QED BY <1>3, <1>5, <1>6, <1>7, <1>8

\* The page is found before there are no hops left, if the seek array is as
\* long as what is looked up in it.
LEMMA HopsSuffice ==
  ASSUME ReadsInv, pc = "hop", A!AtPage(File(in.image), aaff[in.image])
  PROVE  /\ in.page \in 0..(A!TotalPages(File(in.image)) - 1)
         /\ in.hops \in Positive
         /\ A!SeeksCover(File(in.image)) /\ aaff[in.image].pos # in.page => in.hops # 1
<1>1. PICK f, a : f = File(in.image) /\ a = aaff[in.image]
  OBVIOUS
<1>2. /\ FileMakesSense("aaff", f) /\ HandleInv(f, a) /\ Before(f, a, in.page, in.hops)
      /\ in.page \in Nat /\ in.hops \in Nat /\ A!AtPage(f, a)
  BY <1>1, AaffRead
<1>3. PICK t \in Positive : t = A!TotalPages(f)
  BY <1>2, AaffPages
<1>4. in.hops # 0 /\ in.page < t
  BY <1>1, <1>3 DEF ReadsInv, PageInv
<1>5. in.hops \in Positive /\ in.page \in 0..(t - 1)
  BY <1>2, <1>4 DEF Positive
<1>6. A!SeeksCover(f) /\ a.pos # in.page => in.hops # 1
  BY <1>2, <1>3, <1>5, PagePassed
<1>. QED BY <1>1, <1>3, <1>5, <1>6

LEMMA AaffHopReads == ASSUME ReadsInv, AaffHop PROVE ReadsInv'
<1>1. /\ pc = "hop" /\ A!AtPage(File(in.image), aaff[in.image])
      /\ UNCHANGED <<setup, sizes, morph, req, at, met, bad>>
  BY DEF AaffHop, Static
<1>2. PICK f, a : f = File(in.image) /\ a = aaff[in.image]
  OBVIOUS
<1>3. PICK page \in 0..(A!TotalPages(f) - 1), hops \in Positive :
        page = in.page /\ hops = in.hops
  BY <1>1, <1>2, HopsSuffice
<1>4. /\ FileMakesSense("aaff", f) /\ HandleInv(f, a) /\ Before(f, a, page, hops)
      /\ A!AtPage(f, a)
  BY <1>1, <1>2, <1>3, AaffRead
<1>5. PICK b : b = A!Passed(f, a, page)
  OBVIOUS
<1>6. /\ HandleInv(f, b)
      /\ a.pos = page => b.page = page /\ Behind(f, b)
      /\ a.pos # page => Before(f, b, page, hops - 1)
      /\ a.pos # page /\ hops # 1 => hops - 1 \in Positive
      /\ a.pos # page /\ hops = 1 => Behind(f, b)
  BY <1>4, <1>5, PagePassed
<1>7. aaff' = [aaff EXCEPT ![in.image] = b]
  BY <1>2, <1>3, <1>5 DEF AaffHop
<1>8. HandleInv(File(in.image), b)
  BY <1>2, <1>6
<1>9. CASE a.pos = page
  <2>1. CopyPage(b) /\ ret' = ret
    BY <1>2, <1>3, <1>5, <1>9 DEF AaffHop
  <2>2. pc' = "page" /\ in'.image = in.image
    BY <2>1 DEF CopyPage, ReadsInv, InputInv
  <2>3. Behind(File(in.image), b)
    BY <1>2, <1>6, <1>9
  <2>4. AaffInv'
    BY <1>1, <1>7, <1>8, <2>2, <2>3, OneHandle
  <2>. QED BY <1>1, <1>3, <1>6, <1>8, <1>9, <2>1, <2>4, PageCopied
<1>11. CASE a.pos # page /\ hops = 1
  <2>1. Finish("error") /\ UNCHANGED <<in, out>>
    BY <1>2, <1>3, <1>5, <1>11 DEF AaffHop
  <2>2. Behind(File(in.image), b) /\ in'.image = in.image
    BY <1>2, <1>6, <1>11, <2>1
  <2>3. AaffInv'
    BY <1>1, <1>7, <1>8, <2>1, <2>2, OneHandle DEF Finish
  <2>. QED BY <1>1, <2>1, <2>3, ReadEnds DEF ReadsInv, EndInv, Reading, Finish
<1>10. CASE a.pos # page /\ hops # 1
  <2>1. in' = [in EXCEPT !.hops = hops - 1] /\ UNCHANGED <<pc, out, ret>>
    BY <1>2, <1>3, <1>5, <1>10 DEF AaffHop
  <2>2. in'.image = in.image /\ in'.page = page /\ in'.hops = hops - 1
    BY <1>3, <2>1 DEF ReadsInv, InputInv
  <2>3. Before(File(in.image), b, in'.page, in'.hops)
    BY <1>2, <1>6, <1>10, <2>2
  <2>4. AaffInv'
    BY <1>1, <1>7, <1>8, <2>1, <2>2, <2>3, OneHandle
  <2>5. in.page < A!TotalPages(File(in.image))
    BY <1>1 DEF ReadsInv, PageInv
  <2>. QED BY <1>1, <1>6, <1>10, <2>1, <2>4, <2>5, SearchGoes
<1>. QED BY <1>9, <1>10, <1>11

LEMMA AaffLostReads == ASSUME ReadsInv, AaffLost PROVE ReadsInv'
<1>1. /\ pc = "hop" /\ pc' = "idle" /\ ret' = "error"
      /\ UNCHANGED <<setup, sizes, morph, req, at, in, out, bad>>
  BY DEF AaffLost, Finish, Static
<1>2. PICK f, a : f = File(in.image) /\ a = aaff[in.image]
  OBVIOUS
<1>3. FileMakesSense("aaff", f) /\ HandleInv(f, a) /\ in.page \in Nat
  BY <1>1, <1>2, AaffRead
<1>4. PICK t \in Positive : t = A!TotalPages(f) /\ t \in Nat
  BY <1>3, AaffPages DEF Positive
<1>5. PICK page \in 0..(A!TotalPages(f) - 1) : page = in.page
  BY <1>1, <1>2, <1>3, <1>4 DEF ReadsInv, PageInv
<1>6. PICK b \in A!Broken(f, a, page) : aaff' = [aaff EXCEPT ![in.image] = b]
  BY <1>2, <1>5 DEF AaffLost
<1>7. HandleInv(f, b) /\ Behind(File(in.image), b)
  BY <1>2, <1>3, SearchBroken
<1>8. met' \in BOOLEAN
  <2>1. PICK fault \in Faults : met' = (met \/ fault)
    BY DEF AaffLost
  <2>2. fault \in BOOLEAN /\ met \in BOOLEAN
    BY ImageConstants DEF ReadsInv, EndInv
  <2>. QED BY <2>1, <2>2
<1>9. AaffInv'
  <2>1. HandleInv(File(in.image), b) /\ in'.image = in.image
    BY <1>1, <1>2, <1>7
  <2>. QED BY <1>1, <1>6, <1>7, <2>1, OneHandle
<1>. QED BY <1>1, <1>8, <1>9, ReadEnds DEF ReadsInv, EndInv, Reading

-----------------------------------------------------------------------------
(* The theorems                                                            *)

LEMMA SameReads == ASSUME ReadsInv, UNCHANGED vars PROVE ReadsInv'
<1>1. UNCHANGED <<setup, pc, sizes, morph, req, at, in, out, ret, met, bad, aaff>>
  BY DEF vars
<1>2. MountInv'
  BY <1>1, MountKept DEF ReadsInv
<1>3. RequestInv'
  <2>1. IsAt(at, req.count)'
    <3>1. PICK a, n : a = at /\ n = req.count
      OBVIOUS
    <3>2. IsAt(a, n)'
      BY <1>1, <3>1, SameMorphing DEF ReadsInv, RequestInv
    <3>. QED BY <1>1, <3>1, <3>2 DEF IsAt, Place
  <2>2. (MorphLeft' <=> MorphLeft) /\ MorphStep' = MorphStep
    BY <1>1, SameMorphing
  <2>. QED BY <1>1, <2>1, <2>2 DEF ReadsInv, RequestInv, Reading
<1>4. Images' = Images /\ \A i : /\ File(i)' = File(i) /\ Format(i)' = Format(i)
                                 /\ Size(i)' = Size(i)
  BY <1>1, SameImages
<1>5. File(in.image)' = File(in.image) /\ Format(in.image)' = Format(in.image)
      /\ Size(in.image)' = Size(in.image)
  BY <1>1 DEF File, Format, Size, ImageSize, Images, Setup
<1>6. InputInv'
  BY <1>1, <1>5 DEF ReadsInv, InputInv
<1>7. AaffInv'
  <2>1. \A i \in DOMAIN aaff : HandleInv(File(i)', aaff'[i])
    BY <1>1, <1>4 DEF ReadsInv, AaffInv
  <2>2. \A i \in DOMAIN aaff' : HandleInv(File(i), aaff[i])'
    BY <1>1, <2>1 DEF HandleInv
  <2>. QED BY <1>1, <1>4, <2>2 DEF ReadsInv, AaffInv, Behind, Before
<1>8. PageInv'
  <2>1. FirstPage' = FirstPage /\ (SizesRead(Setup)' <=> SizesRead(Setup))
    BY <1>1, <1>5 DEF FirstPage, SizesRead, Setup
  <2>. QED BY <1>1, <1>5, <2>1 DEF ReadsInv, PageInv
<1>9. EndInv'
  BY <1>1, <1>4 DEF ReadsInv, EndInv
<1>. QED BY <1>2, <1>3, <1>6, <1>7, <1>8, <1>9 DEF ReadsInv

LEMMA NextReads == ASSUME ReadsInv, [Next]_vars PROVE ReadsInv'
<1>1. CASE OpenFault \/ MorphFault
  BY <1>1, FailedReads DEF OpenFault, MorphFault
<1>. QED BY <1>1, OpenImageReads, MorphReads, EndReads, RequestsReads, MorphDoneReads,
            MorphCallReads, MorphBackReads, InputStepReads, AaffPageReads, AaffHopReads,
            AaffLostReads, SameReads DEF Next, Steps

LEMMA ReadsInvariant == Spec => []ReadsInv
<1>1. Init => ReadsInv
  BY InitReads
<1>2. ReadsInv /\ [Next]_vars => ReadsInv'
  BY NextReads
<1>. QED BY <1>1, <1>2, PTL DEF Spec

\* The variables have their types, whatever is mounted and read: no size, offset
\* or count goes below 0, what is left of a read is part of what was asked for,
\* and what a handle says of the file is about pages that are there.
THEOREM Typing == Spec => []TypeOK
<1>1. ReadsInv => TypeOK
  <2>. SUFFICES ASSUME ReadsInv PROVE TypeOK
    OBVIOUS
  <2>1. /\ setup \in DOMAIN Setups
        /\ pc \in {"open", "failed", "ended", "idle", "morphing", "input", "back", "page", "hop"}
        /\ Len(sizes) <= Len(Images) /\ \A k \in DOMAIN sizes : sizes[k] \in Nat
        /\ morph.size \in Nat
    BY DEF ReadsInv, MountInv, Reading
  <2>2. at.left \in 0..req.count /\ at.unit \in Nat /\ at.ofs \in Nat
    BY DEF ReadsInv, RequestInv, IsAt
  <2>3. in.left \in 0..in.got /\ in.got <= in.asked
    BY DEF ReadsInv, InputInv
  <2>4. /\ ret \in {"none", "ok", "error"} /\ met \in BOOLEAN
        /\ bad \subseteq 0..(Len(Images) - 1)
    BY DEF ReadsInv, EndInv
  <2>5. ASSUME NEW i \in DOMAIN aaff
        PROVE  /\ aaff[i].page \in {A!NotSet} \cup 0..(Len(File(i).pages) - 1)
               /\ aaff[i].buf \in {A!Torn} \cup 0..(Len(File(i).pages) - 1)
               /\ aaff[i].pos \in {A!Lost} \cup 0..Len(File(i).pages)
    <3>1. HandleInv(File(i), aaff[i])
      BY DEF ReadsInv, AaffInv
    <3>. QED BY <3>1 DEF HandleInv
  <2>. QED BY <2>1, <2>2, <2>3, <2>4, <2>5 DEF TypeOK
<1>. QED BY <1>1, ReadsInvariant, PTL

\* The seek array of an AFF image is right about every page it knows, however
\* long it is and whatever lies behind it.  If it is as long as what the code
\* looks up in it, the file is positioned between two searches behind the page
\* that was read last or is known to be nowhere, whichever searches failed.
THEOREM SearchesRight == Spec => []SearchesStartRight
<1>1. ReadsInv => SearchesStartRight
  <2>. SUFFICES ASSUME ReadsInv, NEW i \in DOMAIN aaff
                PROVE  LET a == aaff[i] IN
                       /\ \A e \in DOMAIN a.seeks :
                            a.seeks[e] \in {A!NotSet, e * A!PagesPerEntry(File(i))}
                       /\ pc # "hop" /\ a.page # A!NotSet /\ A!SeeksCover(File(i)) =>
                            a.pos \in {a.page + 1, A!Lost}
    BY DEF SearchesStartRight
  <2>1. HandleInv(File(i), aaff[i]) /\ (pc # "hop" => Behind(File(i), aaff[i]))
    BY DEF ReadsInv, AaffInv
  <2>2. DOMAIN aaff[i].seeks = A!SeekEntries(File(i))
    BY <2>1 DEF HandleInv
  <2>. QED BY <2>1, <2>2 DEF HandleInv, Behind
<1>. QED BY <1>1, ReadsInvariant, PTL

\* A segment that is not the wanted page's is never the last one that may be
\* looked at.
HopsLeft ==
  pc = "hop" /\ A!SeeksCover(File(in.image)) /\ A!AtPage(File(in.image), aaff[in.image])
    /\ aaff[in.image].pos # in.page => in.hops # 1

\* A search for a page of an AFF image whose seek array is as long as what is
\* looked up in it does not run out of hops: the limit that AaffReadPage sets is
\* the number of segments from where it starts up to the page's, so the error
\* behind its loop is never the answer.
THEOREM HopsAreEnough == Spec => []HopsLeft
<1>1. ReadsInv => HopsLeft
  BY HopsSuffice DEF HopsLeft
<1>. QED BY <1>1, ReadsInvariant, PTL

-----------------------------------------------------------------------------
(* What the handles hold                                                   *)

Ends == {"opened", "missing", "refused", "unreadable"}

LEMMA HeldParts ==
  ASSUME NEW parts, NEW p \in Parts
  PROVE  Held(parts)[p] \in {"held", "null"} /\ Gone[p] = "gone"
  BY DEF Held, Gone

\* A handle that Open leaves has nothing that is freed already, unless a piece
\* of a raw image is missing or an AFF image is encrypted.
LEMMA OpenLeavesParts ==
  ASSUME NEW format \in Formats, NEW end \in Ends, NEW h \in OpenLeaves(format, end)
  PROVE  /\ h \in [Parts -> {"held", "null", "gone"}]
         /\ \/ \A p \in Parts : h[p] # "gone"
            \/ format \in {"raw", "aff"} /\ end # "opened"
<1>. DEFINE Typed == h \in [Parts -> {"held", "null", "gone"}]
            Fresh == \A p \in Parts : h[p] # "gone"
<1>1. ASSUME NEW parts, h = Held(parts) PROVE Typed /\ Fresh
  BY <1>1 DEF Held
<1>2. CASE h = Gone
  <2>1. format \in {"raw", "aff"} /\ end # "opened"
    <3>1. ASSUME NEW parts PROVE Held(parts) # Gone
      <4>1. "file" \in Parts
        BY DEF Parts
      <4>2. Held(parts)["file"] # Gone["file"]
        BY <4>1, HeldParts
      <4>. QED BY <4>2
    <3>. QED BY <1>2, <3>1
         DEF OpenLeaves, RawOpenLeaves, QcowOpenLeaves, VdiOpenLeaves, AaffOpenLeaves,
             AffOpenLeaves, EwfOpenLeaves, Aff4OpenLeaves, Formats, Looped, Whole, Ends
  <2>. QED BY <1>2, <2>1 DEF Gone
<1>3. h = Gone \/ \E parts : h = Held(parts)
  BY DEF OpenLeaves, RawOpenLeaves, QcowOpenLeaves, VdiOpenLeaves, AaffOpenLeaves,
         AffOpenLeaves, EwfOpenLeaves, Aff4OpenLeaves, Formats, Looped, Whole, Ends
<1>. QED BY <1>1, <1>2, <1>3

\* Closing and destroying a handle, part by part.
LEMMA FreedPart ==
  ASSUME NEW h, NEW parts, NEW clears, NEW p \in Parts
  PROVE  /\ p \in parts /\ h[p] # "null" =>
              Freed(h, parts, clears)[p] = IF clears THEN "null" ELSE "gone"
         /\ ~(p \in parts /\ h[p] # "null") => Freed(h, parts, clears)[p] = h[p]
  BY DEF Freed

\* Of what an image holds, only the name and the FILE of a VDI image stay.
LEMMA NothingLeft ==
  ASSUME NEW format \in Formats, NEW h \in [Parts -> {"held", "null", "gone"}],
         NEW p \in Parts, GivenBack(format, h)[p] = "held"
  PROVE  format = "vdi" /\ p # "table"
<1>1. GivenBack(format, h)[p] \in {"null", Closed(format, h)[p]}
  BY FreedPart DEF GivenBack
<1>2. Closed(format, h)[p] = "held"
  BY <1>1
<1>3. p \notin CloseFrees(format)
  <2>. SUFFICES ASSUME p \in CloseFrees(format) PROVE FALSE
    OBVIOUS
  <2>1. Closed(format, h)[p] \in {"null", "gone"}
    BY FreedPart DEF Closed
  <2>. QED BY <1>2, <2>1
<1>. QED BY <1>3 DEF CloseFrees

\* A handle with nothing that is freed already is not freed twice: what Close
\* does not clear, DestroyHandle does not free.
LEMMA NothingTwice ==
  ASSUME NEW format \in Formats, NEW h, \A p \in Parts : h[p] # "gone"
  PROVE  ~GivenBackTwice(format, h)
<1>1. CloseFrees(format) \subseteq Parts /\ DestroyFrees(format) \subseteq Parts
  BY DEF CloseFrees, DestroyFrees, Parts
<1>2. ~FreesTwice(h, CloseFrees(format))
  BY <1>1 DEF FreesTwice
<1>3. ~FreesTwice(Closed(format, h), DestroyFrees(format))
  <2>1. CASE CloseClears(format)
    <3>1. ASSUME NEW p \in Parts PROVE Closed(format, h)[p] # "gone"
      <4>1. Closed(format, h)[p] \in {h[p], "null"}
        BY <2>1 DEF Closed, Freed
      <4>. QED BY <4>1
    <3>. QED BY <1>1, <3>1 DEF FreesTwice
  <2>2. CASE ~CloseClears(format)
    <3>1. format # "vdi" /\ format # "aaff"
      BY <2>2 DEF CloseClears
    <3>2. DestroyFrees(format) = {}
      BY <3>1 DEF DestroyFrees
    <3>. QED BY <3>2 DEF FreesTwice
  <2>. QED BY <2>1, <2>2
<1>. QED BY <1>2, <1>3 DEF GivenBackTwice

-----------------------------------------------------------------------------
(* From the start to the end                                               *)

\* What Open may leave of image k; that of an image that counts was complete.
LeftBy(k, h) ==
  \E end \in Ends : /\ h \in OpenLeaves(Format(k - 1), end)
                    /\ k <= Len(sizes) => end = "opened"

Leaves == [Parts -> {"held", "null", "gone"}]

HandlesInv ==
  /\ setup \in DOMAIN Setups
  /\ Sequence(sizes) /\ handles \in Seq(Leaves)
  /\ Len(sizes) <= Len(handles) /\ Len(handles) <= Len(sizes) + 1
  /\ Len(handles) <= Len(Images)
  /\ pc = "open" => Len(handles) = Len(sizes)
  /\ pc # "ended" => twice = {} /\ \A k \in 1..Len(handles) : LeftBy(k, handles[k])
  /\ GivenBackOnce

LEMMA Appended ==
  ASSUME NEW s, Sequence(s), NEW e
  PROVE  /\ Sequence(Append(s, e)) /\ Len(s) \in Nat
         /\ Len(Append(s, e)) = Len(s) + 1
<1>1. PICK S : s \in Seq(S)
  BY DEF Sequence
<1>2. s \in Seq(S \cup {e})
  BY <1>1
<1>. QED BY <1>2 DEF Sequence

LEMMA ImagesFormats ==
  ASSUME setup \in DOMAIN Setups
  PROVE  /\ Len(Images) \in Nat
         /\ \A k \in 1..Len(Images) : Format(k - 1) \in Formats
<1>1. Len(Images) \in Nat
  BY ImagesCount
<1>2. \A k \in 1..Len(Images) : k - 1 \in 0..(Len(Images) - 1)
  BY <1>1
<1>. QED BY <1>1, <1>2, ImageMakesSense

\* Another handle: Open ended in one of its ways.
LEMMA OneMoreHandle ==
  ASSUME HandlesInv, pc = "open", Len(sizes) < Len(Images), setup' = setup,
         NEW end \in Ends, NEW h \in OpenLeaves(Format(Len(sizes)), end),
         handles' = Append(handles, h), twice' = twice, Sequence(sizes'),
         \/ sizes' = sizes /\ pc' = "failed"
         \/ Len(sizes') = Len(sizes) + 1 /\ end = "opened" /\ pc' = "open"
  PROVE  HandlesInv'
<1>. DEFINE n == Len(sizes)
<1>1. n \in Nat /\ Len(handles) = n /\ n < Len(Images) /\ Len(Images) \in Nat
  BY Appended, ImagesFormats DEF HandlesInv
<1>2. Format(n) \in Formats
  <2>1. n + 1 \in 1..Len(Images) /\ (n + 1) - 1 = n
    BY <1>1
  <2>. QED BY <2>1, ImagesFormats DEF HandlesInv
<1>3. h \in Leaves
  BY <1>2, OpenLeavesParts DEF Leaves
<1>4. /\ handles' \in Seq(Leaves) /\ Len(handles') = n + 1
      /\ handles'[n + 1] = h /\ \A k \in 1..n : handles'[k] = handles[k]
  BY <1>1, <1>3 DEF HandlesInv
<1>5. Images' = Images /\ \A k : Format(k)' = Format(k)
  BY DEF Images, Setup, Format
<1>6. \A k \in 1..n : LeftBy(k, handles[k])
  BY <1>1 DEF HandlesInv
<1>7. ASSUME NEW k \in 1..(n + 1) PROVE LeftBy(k, handles[k])'
  <2>1. CASE k \in 1..n
    <3>1. PICK e \in Ends : /\ handles[k] \in OpenLeaves(Format(k - 1), e)
                            /\ k <= n => e = "opened"
      BY <1>6, <2>1 DEF LeftBy
    <3>2. handles'[k] \in OpenLeaves(Format(k - 1), e) /\ e = "opened"
      BY <1>4, <2>1, <3>1
    <3>3. handles'[k] \in OpenLeaves(Format(k - 1)', e)
      BY <1>5, <3>2
    <3>. QED BY <3>2, <3>3 DEF LeftBy
  <2>2. CASE k = n + 1
    <3>1. k - 1 = n /\ handles'[k] = h
      BY <1>1, <1>4, <2>2
    <3>2. k <= Len(sizes') => end = "opened"
      BY <1>1, <2>2
    <3>. QED BY <1>5, <3>1, <3>2 DEF LeftBy
  <2>. QED BY <1>1, <2>1, <2>2
<1>8. pc # "ended" /\ twice = {}
  BY DEF HandlesInv
<1>9. Len(sizes') \in {n, n + 1}
  OBVIOUS
<1>. HIDE DEF n
<1>10. /\ Len(sizes') <= Len(handles') /\ Len(handles') <= Len(sizes') + 1
       /\ Len(handles') <= Len(Images')
       /\ pc' = "open" => Len(handles') = Len(sizes')
  BY <1>1, <1>4, <1>5, <1>9 DEF n
<1>. QED BY <1>4, <1>7, <1>8, <1>10 DEF HandlesInv, GivenBackOnce

\* The steps of the start and of the reads leave the handles alone.
LEMMA SameHandles ==
  ASSUME HandlesInv, UNCHANGED <<setup, sizes, handles, twice>>,
         pc # "ended", pc' # "ended", pc' = "open" => pc = "open"
  PROVE  HandlesInv'
<1>1. Images' = Images /\ \A k : Format(k)' = Format(k)
  BY DEF Images, Setup, Format
<1>2. \A k : LeftBy(k, handles[k]) => LeftBy(k, handles[k])'
  BY <1>1 DEF LeftBy
<1>. QED BY <1>1, <1>2 DEF HandlesInv, GivenBackOnce

LEMMA EndHandles == ASSUME HandlesInv, End PROVE HandlesInv'
<1>1. /\ pc' = "ended" /\ pc # "ended" /\ UNCHANGED <<setup, sizes>>
      /\ handles' = [k \in DOMAIN handles |-> GivenBack(Format(k - 1), handles[k])]
      /\ twice' = {i \in 0..(Len(handles) - 1) : GivenBackTwice(Format(i), handles[i + 1])}
  BY DEF End
<1>2. Images' = Images /\ \A k : Format(k)' = Format(k)
  BY <1>1 DEF Images, Setup, Format
<1>3. DOMAIN handles = 1..Len(handles) /\ Len(handles) \in Nat
      /\ Len(sizes) \in Nat /\ Len(Images) \in Nat
  BY Appended, ImagesFormats DEF HandlesInv
<1>4. ASSUME NEW k \in 1..Len(handles)
      PROVE  /\ Format(k - 1) \in Formats /\ handles[k] \in Leaves
             /\ LeftBy(k, handles[k])
  BY <1>1, <1>3, ImagesFormats DEF HandlesInv
<1>5. ASSUME NEW k \in 1..Len(handles)
      PROVE  GivenBack(Format(k - 1), handles[k]) \in Leaves
  <2>. DEFINE c == Closed(Format(k - 1), handles[k])
  <2>1. c \in Leaves
    BY <1>4 DEF Closed, Freed, Leaves
  <2>. HIDE DEF c
  <2>2. Freed(c, DestroyFrees(Format(k - 1)), TRUE) \in Leaves
    BY <2>1 DEF Freed, Leaves
  <2>. QED BY <2>2 DEF GivenBack, c
<1>6. handles' \in Seq(Leaves) /\ Len(handles') = Len(handles)
  BY <1>1, <1>3, <1>5
<1>7. \A k \in 1..Len(handles) : \A p \in Parts :
        handles'[k][p] = "held" => Format(k - 1) = "vdi" /\ p # "table"
  BY <1>1, <1>3, <1>4, NothingLeft DEF Leaves
<1>8. ASSUME NEW i \in twice' PROVE i = Len(sizes) /\ Format(i) \in {"raw", "aff"}
  <2>1. PICK k \in 1..Len(handles) : k = i + 1 /\ i = k - 1
    BY <1>1, <1>3
  <2>2. GivenBackTwice(Format(k - 1), handles[k])
    BY <1>1, <2>1
  <2>3. PICK end \in Ends : /\ handles[k] \in OpenLeaves(Format(k - 1), end)
                            /\ k <= Len(sizes) => end = "opened"
    BY <1>4 DEF LeftBy
  <2>4. Format(k - 1) \in {"raw", "aff"} /\ end # "opened"
    <3>1. Format(k - 1) \in Formats
      BY <1>4
    <3>2. ~\A p \in Parts : handles[k][p] # "gone"
      BY <2>2, <3>1, NothingTwice
    <3>3. handles[k] \in OpenLeaves(Format(k - 1), end)
      BY <2>3
    <3>4. PICK f \in Formats : f = Format(k - 1) /\ handles[k] \in OpenLeaves(f, end)
      BY <3>1, <3>3
    <3>5. f \in {"raw", "aff"} /\ end # "opened"
      BY <3>2, <3>4, OpenLeavesParts
    <3>. QED BY <3>4, <3>5
  <2>5. ~(k <= Len(sizes)) /\ k <= Len(sizes) + 1
    <3>1. Len(handles) <= Len(sizes) + 1
      BY DEF HandlesInv
    <3>2. ~(k <= Len(sizes))
      BY <2>3, <2>4
    <3>. QED BY <1>3, <3>1, <3>2
  <2>. QED BY <1>3, <2>1, <2>4, <2>5
<1>9. GivenBackOnce'
  BY <1>1, <1>2, <1>3, <1>6, <1>7, <1>8 DEF GivenBackOnce
<1>. QED BY <1>1, <1>2, <1>6, <1>9 DEF HandlesInv

LEMMA NextHandles == ASSUME HandlesInv, [Next]_vars PROVE HandlesInv'
<1>1. CASE OpenImage
  <2>. DEFINE i == Len(sizes)
              end == CASE Opens(i) -> "opened"
                       [] ~Opens(i) /\ Format(i) = "raw" -> "missing"
                       [] OTHER -> "refused"
              more == Append(sizes, PartSize(Setup, Images[i + 1]))
  <2>1. PICK h \in OpenLeaves(Format(i), end) : handles' = Append(handles, h)
    BY <1>1 DEF OpenImage
  <2>2. \/ sizes' = sizes /\ pc' = "failed"
        \/ sizes' = more /\ Opens(i) /\ pc' = "open"
    BY <1>1 DEF OpenImage
  <2>3. end \in Ends /\ (Opens(i) => end = "opened")
    BY DEF Ends
  <2>4. Sequence(sizes) /\ Sequence(more) /\ Len(more) = Len(sizes) + 1
    BY Appended DEF HandlesInv
  <2>5. pc = "open" /\ Len(sizes) < Len(Images) /\ setup' = setup /\ twice' = twice
    BY <1>1 DEF OpenImage, Unread
  <2>. HIDE DEF end, more
  <2>. QED BY <2>1, <2>2, <2>3, <2>4, <2>5, OneMoreHandle
<1>2. CASE OpenFault
  <2>1. PICK end \in {"missing", "unreadable"} :
          \E h \in OpenLeaves(Format(Len(sizes)), end) : handles' = Append(handles, h)
    BY <1>2 DEF OpenFault
  <2>2. /\ pc = "open" /\ Len(sizes) < Len(Images) /\ pc' = "failed"
        /\ UNCHANGED <<setup, sizes, twice>> /\ end \in Ends
    BY <1>2 DEF OpenFault, Ends
  <2>3. Sequence(sizes)
    BY DEF HandlesInv
  <2>. QED BY <2>1, <2>2, <2>3, OneMoreHandle
<1>3. CASE End
  BY <1>3, EndHandles
<1>4. CASE Morph \/ MorphFault
  BY <1>4, SameHandles DEF Morph, MorphFault, Unread
<1>5. CASE MorphDone \/ MorphCall \/ MorphBack
  BY <1>5, SameHandles DEF MorphDone, MorphCall, MorphBack, Static, Finish
<1>6. CASE InputStep
  BY <1>6, SameHandles DEF InputStep, Static, Finish
<1>7. CASE AaffPage \/ AaffHop \/ AaffLost
  BY <1>7, SameHandles DEF AaffPage, AaffHop, AaffLost, CopyPage, Static, Finish
<1>8. CASE Requests
  BY <1>8, SameHandles DEF Requests, Request, Static, Finish
<1>9. CASE UNCHANGED vars
  <2>1. /\ UNCHANGED <<setup, pc, sizes, handles, twice>>
    BY <1>9 DEF vars
  <2>2. Images' = Images /\ \A k : Format(k)' = Format(k)
    BY <2>1 DEF Images, Setup, Format
  <2>3. \A k : LeftBy(k, handles[k]) => LeftBy(k, handles[k])'
    BY <2>1, <2>2 DEF LeftBy
  <2>. QED BY <2>1, <2>2, <2>3 DEF HandlesInv, GivenBackOnce
<1>. QED BY <1>1, <1>2, <1>3, <1>4, <1>5, <1>6, <1>7, <1>8, <1>9 DEF Next, Steps

\* At the end of xmount nothing that the input images held is left, but for the
\* name and the FILE of a VDI image, and nothing was freed twice, but of an
\* image whose Open failed in two of the libraries: whatever images are given,
\* wherever opening them fails, whatever is read and however reads fail.
THEOREM HandlesGivenBack == Spec => []GivenBackOnce
<1>1. Init => HandlesInv
  <2>. SUFFICES ASSUME Init PROVE HandlesInv
    OBVIOUS
  <2>1. handles = <<>> /\ sizes = <<>> /\ twice = {} /\ pc = "open" /\ setup \in DOMAIN Setups
    BY DEF Init
  <2>2. <<>> \in Seq(Leaves) /\ Len(<<>>) = 0 /\ Sequence(<<>>)
    BY DEF Sequence
  <2>. QED BY <2>1, <2>2, ImagesFormats DEF HandlesInv, GivenBackOnce
<1>2. HandlesInv /\ [Next]_vars => HandlesInv'
  BY NextHandles
<1>3. HandlesInv => GivenBackOnce
  BY DEF HandlesInv
<1>. QED BY <1>1, <1>2, <1>3, PTL DEF Spec

-----------------------------------------------------------------------------
(* What a step of a read delivers: bytes of the image                      *)

\* Places in the same unit have the same quotient.
LEMMA SameUnit ==
  ASSUME NEW q \in Nat, NEW c \in Positive, NEW r \in 0..(c - 1)
  PROVE  /\ (q * c) + r \in Nat
         /\ ((q * c) + r) \div c = q /\ ((q * c) + r) % c = r
<1>1. c \in Nat /\ c # 0 /\ q * c \in Nat
  BY TimesOrder DEF Positive
<1>2. PICK m \in Nat : m = q * c
  BY <1>1
<1>3. m + r \in Nat /\ m <= m + r /\ m + r < m + c
  BY <1>1
<1>4. (q + 1) * c = m + c
  BY <1>1, <1>2
<1>5. (m + r) \div c = q
  <2>1. q + 1 \in Nat
    OBVIOUS
  <2>2. (m + r) \div c < q + 1
    <3>1. m + r < (q + 1) * c
      BY <1>3, <1>4
    <3>. QED BY <1>3, <2>1, <3>1, Quotient
  <2>3. q <= (m + r) \div c
    <3>1. q * c <= m + r
      BY <1>2, <1>3
    <3>. QED BY <1>3, <3>1, Quotient
  <2>4. (m + r) \div c \in Nat
    BY <1>3, DivMod
  <2>. QED BY <2>2, <2>3, <2>4
<1>6. (m + r) % c = r
  <2>1. PICK x \in 0..(c - 1) : x = (m + r) % c
    BY <1>3, DivMod
  <2>2. m + r = (((m + r) \div c) * c) + x
    BY <1>3, <2>1, DivMod
  <2>3. m + r = m + x
    BY <1>2, <1>5, <2>2
  <2>. QED BY <2>1, <2>3, <1>1
<1>. QED BY <1>2, <1>3, <1>5, <1>6

\* All that is wanted of a cluster or block lies in it.
LEMMA InUnitKeeps ==
  ASSUME NEW size \in Positive, NEW seek \in Nat, NEW count \in Nat,
         NEW k \in 1..InUnit(size, seek % size, count)
  PROVE  /\ seek + k - 1 \in Nat /\ k \in 1..count
         /\ (seek + k - 1) \div size = seek \div size
         /\ (seek + k - 1) % size = (seek % size) + k - 1
<1>1. PICK q \in Nat, r \in 0..(size - 1), n \in 0..count :
        /\ q = seek \div size /\ r = seek % size /\ n = InUnit(size, seek % size, count)
        /\ seek = (q * size) + r /\ n + r <= size
  BY InUnitType
<1>2. size \in Nat /\ q * size \in Nat /\ k \in 1..n
  BY <1>1, TimesOrder DEF Positive
<1>3. r + k - 1 \in 0..(size - 1) /\ k \in 1..count
  BY <1>1, <1>2
<1>4. seek + k - 1 = (q * size) + (r + k - 1)
  <2>1. PICK m \in Nat : m = q * size
    BY <1>2
  <2>. QED BY <1>1, <1>2, <2>1
<1>5. /\ (q * size) + (r + k - 1) \in Nat
      /\ ((q * size) + (r + k - 1)) \div size = q
      /\ ((q * size) + (r + k - 1)) % size = r + k - 1
  BY <1>3, SameUnit
<1>. QED BY <1>1, <1>3, <1>4, <1>5

\* The sums of the first elements grow.
LEMMA SumGrows ==
  ASSUME NEW s \in Seq(Nat), NEW i \in 0..Len(s), NEW j \in i..Len(s)
  PROVE  SumOf(SubSeq(s, 1, i)) <= SumOf(SubSeq(s, 1, j))
<1>. DEFINE before(m) == SumOf(SubSeq(s, 1, m))
            T == {m \in i..Len(s) : before(m) < before(i)}
<1>1. /\ \A m \in 0..Len(s) : before(m) \in Nat
      /\ \A m \in 0..(Len(s) - 1) : before(m + 1) = before(m) + s[m + 1] /\ s[m + 1] \in Nat
  BY SumSteps
<1>. HIDE DEF before
<1>2. T = {}
  <2>. SUFFICES ASSUME T # {} PROVE FALSE
    OBVIOUS
  <2>1. T \in SUBSET Nat /\ T # {}
    OBVIOUS
  <2>2. PICK m \in T : \A k \in T : m <= k
    <3>. HIDE DEF T
    <3>. QED BY <2>1, Least
  <2>3. m # i
    BY <1>1
  <2>4. PICK l \in i..(Len(s) - 1) : l + 1 = m /\ l < m
    BY <2>3
  <2>5. l \notin T
    BY <2>2, <2>4
  <2>6. PICK x \in Nat, y \in Nat, z \in Nat, d \in Nat :
          x = before(i) /\ y = before(l) /\ z = before(m) /\ d = s[l + 1]
    <3>1. i \in 0..Len(s) /\ l \in 0..Len(s) /\ m \in 0..Len(s) /\ l \in 0..(Len(s) - 1)
      BY <2>4
    <3>2. before(i) \in Nat /\ before(l) \in Nat /\ before(m) \in Nat /\ s[l + 1] \in Nat
      BY <1>1, <3>1
    <3>. QED BY <3>2
  <2>7. z = y + d /\ x <= y /\ z < x
    <3>1. z = y + d
      BY <1>1, <2>4, <2>6
    <3>2. x <= y
      <4>1. l \in i..Len(s)
        BY <2>4
      <4>2. ~(before(l) < before(i))
        BY <2>5, <4>1
      <4>. HIDE DEF before
      <4>3. ~(y < x)
        BY <2>6, <4>2
      <4>. QED BY <4>3
    <3>3. z < x
      BY <2>6
    <3>. QED BY <3>1, <3>2, <3>3
  <2>. QED BY <2>7
<1>3. j \notin T
  BY <1>2
<1>4. before(i) \in Nat /\ before(j) \in Nat
  BY <1>1
<1>. QED BY <1>3, <1>4 DEF before

\* An offset lies in one of the elements, and in one only.
LEMMA SumPlace ==
  ASSUME NEW s \in Seq(Nat), NEW offset \in Nat
  PROVE  /\ offset < SumOf(s) =>
              \E i \in 0..(Len(s) - 1) : /\ SumOf(SubSeq(s, 1, i)) <= offset
                                         /\ offset < SumOf(SubSeq(s, 1, i)) + s[i + 1]
         /\ \A i, j \in 0..(Len(s) - 1) :
              /\ SumOf(SubSeq(s, 1, i)) <= offset /\ offset < SumOf(SubSeq(s, 1, i)) + s[i + 1]
              /\ SumOf(SubSeq(s, 1, j)) <= offset /\ offset < SumOf(SubSeq(s, 1, j)) + s[j + 1]
              => i = j
<1>. DEFINE before(m) == SumOf(SubSeq(s, 1, m))
<1>1. /\ \A m \in 0..Len(s) : before(m) \in Nat
      /\ \A m \in 0..(Len(s) - 1) : before(m + 1) = before(m) + s[m + 1] /\ s[m + 1] \in Nat
  BY SumSteps
<1>2. ASSUME offset < SumOf(s)
      PROVE  \E i \in 0..(Len(s) - 1) : before(i) <= offset /\ offset < before(i) + s[i + 1]
  <2>1. PICK a : a = CombineStart(s, offset, 0)
    OBVIOUS
  <2>2. /\ a.unit \in 0..(Len(s) - 1) /\ a.ofs \in Nat /\ a.ofs < s[a.unit + 1]
        /\ offset = before(a.unit) + a.ofs
    BY <1>2, <2>1, CombineFinds
  <2>3. PICK i \in 0..(Len(s) - 1), o \in Nat : i = a.unit /\ o = a.ofs
    BY <2>2
  <2>4. before(i) \in Nat /\ s[i + 1] \in Nat /\ o < s[i + 1] /\ offset = before(i) + o
    BY <1>1, <2>2, <2>3
  <2>. HIDE DEF before
  <2>5. PICK b \in Nat, e \in Nat : b = before(i) /\ e = s[i + 1]
    BY <2>4
  <2>6. b <= offset /\ offset < b + e
    BY <2>4, <2>5
  <2>. QED BY <2>5, <2>6
<1>3. ASSUME NEW i \in 0..(Len(s) - 1), NEW j \in 0..(Len(s) - 1), i < j,
             offset < before(i) + s[i + 1], before(j) <= offset
      PROVE  FALSE
  <2>1. i + 1 \in 0..Len(s) /\ j \in (i + 1)..Len(s) /\ j \in 0..Len(s)
    BY <1>3
  <2>2. before(i + 1) <= before(j)
    BY <2>1, SumGrows
  <2>3. PICK x \in Nat, y \in Nat : x = before(i + 1) /\ y = before(j)
    BY <1>1, <2>1
  <2>4. before(i + 1) = before(i) + s[i + 1]
    BY <1>1
  <2>. HIDE DEF before
  <2>5. offset < x /\ x <= y /\ y <= offset
    BY <1>3, <2>2, <2>3, <2>4
  <2>. QED BY <2>5
<1>. HIDE DEF before
<1>4. ASSUME NEW i \in 0..(Len(s) - 1), NEW j \in 0..(Len(s) - 1),
             before(i) <= offset, offset < before(i) + s[i + 1],
             before(j) <= offset, offset < before(j) + s[j + 1]
      PROVE  i = j
  <2>1. ~(i < j) /\ ~(j < i)
    BY <1>3, <1>4
  <2>. QED BY <2>1
<1>. QED BY <1>2, <1>4 DEF before

\* Where the pieces of a raw image begin.
LEMMA PieceStarts ==
  ASSUME NEW f, FileMakesSense("raw", f)
  PROVE  LET s == Lengths(f.pieces)
         IN /\ s \in Seq(Nat) /\ DOMAIN f.pieces = 1..Len(s)
            /\ RawSize(f) = SumOf(s)
            /\ \A j \in 1..Len(s) : /\ Len(f.pieces[j].bytes) = s[j]
                                    /\ PieceStart(f, j) = SumOf(SubSeq(s, 1, j - 1))
<1>. DEFINE w == Lengths(f.pieces)
            S == DOMAIN f.pieces
<1>1. /\ S = 1..Len(f.pieces) /\ Len(f.pieces) \in Nat /\ IsFiniteSet(S)
      /\ \A k \in S : Len(f.pieces[k].bytes) \in Nat
  <2>1. IsSequence(f.pieces) /\ \A k \in S : Len(f.pieces[k].bytes) \in Nat
    BY DEF FileMakesSense
  <2>2. DOMAIN f.pieces = 1..Len(f.pieces) /\ Len(f.pieces) \in Nat /\ IsFiniteSet(DOMAIN f.pieces)
    BY <2>1, SequenceDomain
  <2>. QED BY <2>1, <2>2
<1>2. w \in [1..Len(f.pieces) -> Nat] /\ w \in Seq(Nat) /\ Len(w) = Len(f.pieces)
  BY <1>1 DEF Lengths
<1>3. RawSize(f) = SumOf(w)
  BY <1>1, <1>2, RawIsTotal, SumIsTotal
<1>4. ASSUME NEW i \in S PROVE PieceStart(f, i) = SumOf(SubSeq(w, 1, i - 1))
  <2>. DEFINE g == [pieces |-> SubSeq(f.pieces, 1, i - 1)]
              v == Lengths(g.pieces)
  <2>1. /\ DOMAIN g.pieces = 1..(i - 1)
        /\ \A k \in 1..(i - 1) : g.pieces[k] = f.pieces[k]
    <3>1. f.pieces = [k \in 1..Len(f.pieces) |-> f.pieces[k]]
      BY DEF FileMakesSense, IsSequence
    <3>2. PICK T : f.pieces \in Seq(T)
      <4>. DEFINE T == {f.pieces[k] : k \in 1..Len(f.pieces)}
      <4>1. f.pieces \in [1..Len(f.pieces) -> T]
        BY <3>1
      <4>2. f.pieces \in Seq(T)
          BY <1>1, <4>1
      <4>. HIDE DEF T
      <4>. QED BY <4>2
    <3>3. i - 1 \in 0..Len(f.pieces)
      BY <1>1
    <3>4. /\ DOMAIN SubSeq(f.pieces, 1, i - 1) = 1..(i - 1)
          /\ \A k \in 1..(i - 1) : SubSeq(f.pieces, 1, i - 1)[k] = f.pieces[k]
      BY <3>2, <3>3, Prefix
    <3>. QED BY <3>4
  <2>2. IsFiniteSet(1..(i - 1)) /\ \A k \in 1..(i - 1) : k \in S
    <3>1. i - 1 \in Int /\ \A k \in 1..(i - 1) : k \in 1..Len(f.pieces)
      BY <1>1
    <3>2. IsFiniteSet(1..(i - 1))
      BY <3>1, FS_Interval
    <3>. QED BY <1>1, <3>1, <3>2
  <2>3. \A k \in 1..(i - 1) : Len(g.pieces[k].bytes) \in Nat
    BY <1>1, <2>1, <2>2
  <2>. HIDE DEF g
  <2>4. RawSize(g) = Total(v, 1..(i - 1))
    BY <2>1, <2>2, <2>3, RawIsTotal
  <2>5. Total(v, 1..(i - 1)) = Total(w, 1..(i - 1))
    <3>1. \A k \in 1..(i - 1) : v[k] \in Nat /\ v[k] = w[k]
      BY <2>1, <2>2, <2>3 DEF Lengths
    <3>. HIDE DEF v, w
    <3>. QED BY <2>2, <3>1, TotalSame
  <2>6. SumOf(SubSeq(w, 1, i - 1)) = Total(w, 1..(i - 1))
    <3>1. i - 1 \in 0..Len(w)
      BY <1>1, <1>2
    <3>. HIDE DEF w
    <3>. QED BY <1>2, <3>1, SumOfPrefix
  <2>. QED BY <2>4, <2>5, <2>6 DEF PieceStart, g
<1>5. \A j \in S : Len(f.pieces[j].bytes) = w[j]
  BY DEF Lengths
<1>. QED BY <1>1, <1>2, <1>3, <1>4, <1>5

LEMMA PieceFound ==
  ASSUME NEW f, FileMakesSense("raw", f), NEW p \in Nat
  PROVE  /\ p < RawSize(f) => \E j \in DOMAIN f.pieces : InPiece(f, j, p)
         /\ \A i, j \in DOMAIN f.pieces : InPiece(f, i, p) /\ InPiece(f, j, p) => i = j
<1>1. PICK s : /\ s \in Seq(Nat) /\ DOMAIN f.pieces = 1..Len(s)
               /\ RawSize(f) = SumOf(s)
               /\ \A j \in 1..Len(s) : /\ Len(f.pieces[j].bytes) = s[j]
                                       /\ PieceStart(f, j) = SumOf(SubSeq(s, 1, j - 1))
  BY PieceStarts
<1>. DEFINE before(m) == SumOf(SubSeq(s, 1, m))
<1>2. ASSUME NEW i \in 0..(Len(s) - 1)
      PROVE  InPiece(f, i + 1, p) <=> before(i) <= p /\ p < before(i) + s[i + 1]
  <2>1. i + 1 \in 1..Len(s) /\ (i + 1) - 1 = i
    BY <1>1
  <2>2. PICK b \in Nat, n \in Nat : b = before(i) /\ n = s[i + 1]
    <3>1. before(i) \in Nat
      BY <1>1, SumSteps
    <3>2. s[i + 1] \in Nat
      BY <1>1, <2>1
    <3>. QED BY <3>1, <3>2
  <2>3. PieceStart(f, i + 1) = b /\ Len(f.pieces[i + 1].bytes) = n
    BY <1>1, <2>1, <2>2
  <2>4. p \in b..(b + n - 1) <=> b <= p /\ p < b + n
    OBVIOUS
  <2>. HIDE DEF before
  <2>. QED BY <2>2, <2>3, <2>4 DEF InPiece
<1>3. ASSUME p < RawSize(f) PROVE \E j \in DOMAIN f.pieces : InPiece(f, j, p)
  <2>1. PICK i \in 0..(Len(s) - 1) : before(i) <= p /\ p < before(i) + s[i + 1]
    BY <1>1, <1>3, SumPlace
  <2>2. InPiece(f, i + 1, p)
    BY <1>2, <2>1
  <2>3. i + 1 \in DOMAIN f.pieces
    BY <1>1
  <2>. QED BY <2>2, <2>3
<1>4. ASSUME NEW i \in DOMAIN f.pieces, NEW j \in DOMAIN f.pieces,
             InPiece(f, i, p), InPiece(f, j, p)
      PROVE  i = j
  <2>1. PICK a \in 0..(Len(s) - 1), b \in 0..(Len(s) - 1) : i = a + 1 /\ j = b + 1
    <3>1. i - 1 \in 0..(Len(s) - 1) /\ i = (i - 1) + 1
      BY <1>1
    <3>2. j - 1 \in 0..(Len(s) - 1) /\ j = (j - 1) + 1
      BY <1>1
    <3>. QED BY <3>1, <3>2
  <2>2. /\ before(a) <= p /\ p < before(a) + s[a + 1]
        /\ before(b) <= p /\ p < before(b) + s[b + 1]
    BY <1>2, <1>4, <2>1
  <2>3. a = b
    BY <1>1, <2>2, SumPlace
  <2>. QED BY <2>1, <2>3
<1>. QED BY <1>3, <1>4

\* A byte is that of the piece in which it lies.
LEMMA RawByteIs ==
  ASSUME NEW f, FileMakesSense("raw", f), NEW p \in Nat,
         NEW j \in DOMAIN f.pieces, InPiece(f, j, p)
  PROVE  RawByte(f, p) = f.pieces[j].bytes[p - PieceStart(f, j) + 1]
<1>. DEFINE i == CHOOSE k \in DOMAIN f.pieces : InPiece(f, k, p)
<1>1. i \in DOMAIN f.pieces /\ InPiece(f, i, p)
  OBVIOUS
<1>2. RawByte(f, p) = f.pieces[i].bytes[p - PieceStart(f, i) + 1]
  BY DEF RawByte
<1>. HIDE DEF i
<1>3. i = j
  BY <1>1, PieceFound
<1>. QED BY <1>2, <1>3

LEMMA RawDelivers ==
  ASSUME NEW f, FileMakesSense("raw", f), NEW seek \in Nat, NEW count \in Nat
  PROVE  LET a == RawRead0(f, seek, count)
         IN /\ a.ok => \A k \in 1..Len(a.data) : a.data[k] = RawByte(f, seek + k - 1)
            /\ count # 0 /\ seek < RawSize(f) => a.ok
<1>. DEFINE here == {i \in DOMAIN f.pieces :
                       seek \in PieceStart(f, i)
                                ..(PieceStart(f, i) + Len(f.pieces[i].bytes) - 1)}
            i == CHOOSE j \in here : TRUE
            bytes == f.pieces[i].bytes
            ofs == seek - PieceStart(f, i)
            n == Min({count, Len(bytes) - ofs})
            a == RawRead0(f, seek, count)
<1>1. a = IF here = {} \/ count = 0 THEN Refused ELSE Got(Cut(bytes, ofs, n), TRUE)
  BY DEF RawRead0, PieceStart
<1>2. ASSUME count # 0, seek < RawSize(f) PROVE a.ok
  <2>1. PICK j \in DOMAIN f.pieces : InPiece(f, j, seek)
    BY <1>2, PieceFound
  <2>2. j \in here
    BY <2>1 DEF InPiece
  <2>3. a = Got(Cut(bytes, ofs, n), TRUE)
    BY <1>1, <1>2, <2>2
  <2>. HIDE DEF a
  <2>. QED BY <2>3 DEF Got
<1>3. ASSUME a.ok, NEW k \in 1..Len(a.data) PROVE a.data[k] = RawByte(f, seek + k - 1)
  <2>1. ~(here = {} \/ count = 0)
    <3>. SUFFICES ASSUME here = {} \/ count = 0 PROVE FALSE
      OBVIOUS
    <3>1. a = Refused
      BY <1>1
    <3>. HIDE DEF a, here
    <3>. QED BY <1>3, <3>1 DEF Refused
  <2>2. i \in here
    BY <2>1
  <2>3. PICK start \in Nat : start = PieceStart(f, i)
    BY <2>2, RawSizes
  <2>4. PICK len \in Nat : len = Len(bytes)
    BY <2>2 DEF FileMakesSense
  <2>5. seek \in start..(start + len - 1)
    BY <2>2, <2>3, <2>4
  <2>6. PICK o \in Nat : o = ofs /\ o = seek - start /\ len - o \in Nat
    <3>1. ofs = seek - start
      BY <2>3
    <3>2. seek - start \in Nat /\ len - (seek - start) \in Nat
      BY <2>5
    <3>. QED BY <3>1, <3>2
  <2>7. n \in 0..count /\ n <= len - o
    <3>1. n = Min({count, len - o})
      BY <2>4, <2>6
    <3>2. PICK l \in Nat : l = len - o
      BY <2>6
    <3>3. Min({count, l}) = IF count <= l THEN count ELSE l
      BY MinOfTwo
    <3>4. PICK c \in Nat : c = Min({count, l}) /\ c <= count /\ c <= l
      BY <3>3
    <3>5. n = c
      BY <3>1, <3>2, <3>4
    <3>. HIDE DEF n
    <3>6. c \in 0..count
      BY <3>4
    <3>. QED BY <3>2, <3>4, <3>5, <3>6
  <2>8. a = Got(Cut(bytes, o, n), TRUE)
    BY <1>1, <2>1, <2>6
  <2>9. i \in DOMAIN f.pieces
    BY <2>2
  <2>. HIDE DEF n, ofs, a, i, here
  <2>10. a.data = Cut(bytes, o, n)
    BY <2>8 DEF Got
  <2>11. Len(Cut(bytes, o, n)) = n /\ \A m \in 1..n : Cut(bytes, o, n)[m] = bytes[o + m]
    <3>1. PICK c \in Nat : c = n
      BY <2>7
    <3>2. o \in Int
      OBVIOUS
    <3>3. PICK s : s = bytes
      OBVIOUS
    <3>4. Len(Cut(s, o, c)) = c /\ \A m \in 1..c : Cut(s, o, c)[m] = s[o + m]
      BY <3>2, CutProperties
    <3>. HIDE DEF bytes
    <3>. QED BY <3>1, <3>3, <3>4
  <2>12. k \in 1..n /\ a.data[k] = bytes[o + k]
    BY <1>3, <2>10, <2>11
  <2>13. seek + k - 1 \in start..(start + len - 1) /\ seek + k - 1 - start + 1 = o + k
    BY <2>5, <2>6, <2>7, <2>12
  <2>14. InPiece(f, i, seek + k - 1)
    BY <2>3, <2>4, <2>13 DEF InPiece
  <2>15. seek + k - 1 \in Nat
    BY <2>13
  <2>16. RawByte(f, seek + k - 1) = bytes[seek + k - 1 - start + 1]
    BY <2>3, <2>9, <2>14, <2>15, RawByteIs
  <2>. QED BY <2>12, <2>13, <2>16
<1>. QED BY <1>2, <1>3

LEMMA LibraryDelivers ==
  ASSUME NEW f, NEW seek \in Nat, NEW count \in Nat, Len(f.bytes) \in Nat
  PROVE  LET a == LibraryRead(f, seek, count)
         IN /\ a.ok => /\ seek + count <= Len(f.bytes)
                       /\ \A k \in 1..Len(a.data) : a.data[k] = f.bytes[seek + k - 1 + 1]
            /\ ~a.ok => ~(seek + count <= Len(f.bytes))
<1>. DEFINE a == LibraryRead(f, seek, count)
<1>1. CASE seek + count > Len(f.bytes)
  <2>1. a = Refused
    BY <1>1 DEF LibraryRead
  <2>2. ~a.ok
    BY <2>1 DEF Refused
  <2>. QED BY <1>1, <2>2
<1>2. CASE ~(seek + count > Len(f.bytes))
  <2>1. a = Got(Cut(f.bytes, seek, count), TRUE)
    BY <1>2 DEF LibraryRead
  <2>. HIDE DEF a
  <2>2. a.ok /\ a.data = Cut(f.bytes, seek, count)
    BY <2>1 DEF Got
  <2>3. /\ Len(Cut(f.bytes, seek, count)) = count
        /\ \A m \in 1..count : Cut(f.bytes, seek, count)[m] = f.bytes[seek + m]
    BY CutProperties
  <2>4. \A k \in 1..count : seek + k - 1 + 1 = seek + k
    OBVIOUS
  <2>5. seek + count <= Len(f.bytes)
    BY <1>2
  <2>6. \A k \in 1..Len(a.data) : a.data[k] = f.bytes[seek + k - 1 + 1]
    BY <2>2, <2>3, <2>4
  <2>7. a.ok
    BY <2>2
  <2>. QED BY <2>5, <2>6, <2>7 DEF a
<1>. QED BY <1>1, <1>2

LEMMA QcowDelivers ==
  ASSUME NEW f, FileMakesSense("qcow", f), NEW seek \in Nat, NEW count \in Nat
  PROVE  LET a == QcowRead0(f, seek, count)
             inTable(p) == (p \div f.clusterSize) \div f.l2Size < Len(f.l1)
         IN /\ a.ok => \A k \in 1..Len(a.data) :
                         inTable(seek + k - 1) /\ a.data[k] = QcowByte(f, seek + k - 1)
            /\ inTable(seek) => a.ok
<1>. DEFINE ofs == seek % f.clusterSize
            c == seek \div f.clusterSize
            n == InUnit(f.clusterSize, ofs, count)
            entry == QcowEntry(f, f.l1[(c \div f.l2Size) + 1], c % f.l2Size)
            unused == ~entry.packed /\ (entry.zero \/ entry.at = 0)
            packed == f.packed[entry.at]
            stored == f.clusters[entry.at]
            a == QcowRead0(f, seek, count)
            inTable(p) == (p \div f.clusterSize) \div f.l2Size < Len(f.l1)
<1>1. f.clusterSize \in Positive /\ f.clusterSize \in Nat /\ f.l2Size \in Positive
  BY DEF FileMakesSense, Positive
<1>2. n \in 0..count /\ ofs \in Nat
  <2>1. PICK size \in Positive : size = f.clusterSize
    BY <1>1
  <2>2. seek % size \in 0..(size - 1) /\ InUnit(size, seek % size, count) \in 0..count
    BY InUnitType
  <2>3. size \in Nat
    BY DEF Positive
  <2>. QED BY <2>1, <2>2, <2>3
<1>3. ASSUME NEW k \in 1..n
      PROVE  /\ (seek + k - 1) \div f.clusterSize = c
             /\ (seek + k - 1) % f.clusterSize = ofs + k - 1
  <2>1. PICK size \in Positive : size = f.clusterSize
    BY <1>1
  <2>2. k \in 1..InUnit(size, seek % size, count)
    BY <2>1
  <2>3. /\ (seek + k - 1) \div size = seek \div size
        /\ (seek + k - 1) % size = (seek % size) + k - 1
    BY <2>2, InUnitKeeps
  <2>. QED BY <2>1, <2>3
<1>4. PICK p \in BOOLEAN, u \in BOOLEAN : (p <=> entry.packed) /\ (u <=> unused)
  OBVIOUS
<1>5. ASSUME NEW k \in 1..n
      PROVE  /\ p => QcowByte(f, seek + k - 1) = packed[ofs + k - 1 + 1]
             /\ u => QcowByte(f, seek + k - 1) = Zero
             /\ ~p /\ ~u => QcowByte(f, seek + k - 1) =
                              IF ofs + k - 1 < Len(stored) THEN stored[ofs + k - 1 + 1] ELSE Zero
  <2>. DEFINE o == ofs + k - 1
              has == ~entry.packed /\ ~entry.zero /\ entry.at # 0 /\ o < Len(stored)
  <2>1. QcowCluster(f, seek + k - 1) = entry
    BY <1>3 DEF QcowCluster
  <2>2. QcowByte(f, seek + k - 1) =
          CASE entry.packed -> packed[o + 1]
            [] has -> stored[o + 1]
            [] OTHER -> Zero
    BY <1>3, <2>1 DEF QcowByte
  <2>3. PICK h \in BOOLEAN : h <=> has
    OBVIOUS
  <2>4. p => ~h /\ ~u
    BY <1>4, <2>3
  <2>5. u => ~h
    BY <1>4, <2>3
  <2>6. ~p /\ ~u => (h <=> o < Len(stored))
    BY <1>4, <2>3
  <2>7. PICK x, y : x = packed[o + 1] /\ y = stored[o + 1]
    OBVIOUS
  <2>8. QcowByte(f, seek + k - 1) = CASE p -> x [] h -> y [] OTHER -> Zero
    BY <1>4, <2>2, <2>3, <2>7
  <2>. HIDE DEF entry, unused, packed, stored, ofs, c, n, has
  <2>9. PICK b \in BOOLEAN : b <=> o < Len(stored)
    OBVIOUS
  <2>10. /\ p => QcowByte(f, seek + k - 1) = x
         /\ u => QcowByte(f, seek + k - 1) = Zero
         /\ ~p /\ ~u => QcowByte(f, seek + k - 1) = IF b THEN y ELSE Zero
    <3>. HIDE DEF o
    <3>. QED BY <2>4, <2>5, <2>6, <2>8, <2>9
  <2>. QED BY <2>7, <2>9, <2>10
<1>8. /\ inTable(seek) => ~(c \div f.l2Size >= Len(f.l1))
      /\ ~inTable(seek) => c \div f.l2Size >= Len(f.l1)
  <2>1. c \in Nat
    <3>1. PICK size \in Positive : size = f.clusterSize
      BY <1>1
    <3>2. seek \div size \in Nat
      BY DivMod
    <3>. QED BY <3>1, <3>2
  <2>2. inTable(seek) <=> c \div f.l2Size < Len(f.l1)
    OBVIOUS
  <2>. HIDE DEF c, inTable
  <2>3. PICK t \in Nat : t = c \div f.l2Size
    <3>1. PICK size \in Positive : size = f.l2Size
      BY <1>1
    <3>2. c \div size \in Nat
      BY <2>1, DivMod
    <3>. QED BY <3>1, <3>2
  <2>4. PICK len : len = Len(f.l1)
    OBVIOUS
  <2>. QED BY <2>2, <2>3, <2>4
<1>6. CASE ~inTable(seek)
  <2>1. (c \div f.l2Size) >= Len(f.l1) => a = Refused
    BY DEF QcowRead0
  <2>. QED BY <1>6, <1>8, <2>1 DEF Refused
<1>7. CASE inTable(seek)
  <2>1. ~(c \div f.l2Size >= Len(f.l1))
    BY <1>7, <1>8
  <2>2. PICK x, y, z : /\ x = Got(Zeros(n), f.l1[(c \div f.l2Size) + 1] # 0)
                       /\ y = Got(Cut(packed, ofs, n), TRUE)
                       /\ z = Got(QcowFileRead(stored, ofs, n), TRUE)
    OBVIOUS
  <2>3. a = CASE unused -> x [] entry.packed -> y [] OTHER -> z
    BY <2>1, <2>2 DEF QcowRead0
  <2>4. ASSUME NEW k \in 1..n PROVE inTable(seek + k - 1)
    BY <1>3, <1>7
  <2>5. p => ~u
    BY <1>4
  <2>. HIDE DEF a, unused, entry, packed, stored, ofs, n, c, inTable
  <2>6. a = CASE u -> x [] p -> y [] OTHER -> z
    BY <1>4, <2>3
  <2>7. CASE u
    <3>1. a = x
      BY <2>5, <2>6, <2>7
    <3>2. a.ok /\ a.data = Zeros(n)
      BY <2>2, <3>1 DEF Got
    <3>3. Len(Zeros(n)) = n /\ \A k \in 1..n : Zeros(n)[k] = Zero
      BY <1>2 DEF Zeros
    <3>. QED BY <1>5, <2>4, <2>7, <3>2, <3>3 DEF a, inTable
  <2>8. CASE p
    <3>1. a = y
      BY <2>5, <2>6, <2>8
    <3>2. a.ok /\ a.data = Cut(packed, ofs, n)
      BY <2>2, <3>1 DEF Got
    <3>3. /\ Len(Cut(packed, ofs, n)) = n
          /\ \A k \in 1..n : Cut(packed, ofs, n)[k] = packed[ofs + k]
      <4>1. ofs \in Int /\ n \in Nat
        BY <1>2
      <4>. QED BY <4>1, CutProperties
    <3>4. \A k \in 1..n : ofs + k - 1 + 1 = ofs + k
      BY <1>2
    <3>. QED BY <1>5, <2>4, <2>8, <3>2, <3>3, <3>4 DEF a, inTable
  <2>9. CASE ~p /\ ~u
    <3>1. a = z
      BY <2>6, <2>9
    <3>2. a.ok /\ a.data = QcowFileRead(stored, ofs, n)
      BY <2>2, <3>1 DEF Got
    <3>3. /\ Len(QcowFileRead(stored, ofs, n)) = n
          /\ \A k \in 1..n : QcowFileRead(stored, ofs, n)[k] =
               IF ofs + k <= Len(stored) THEN stored[ofs + k] ELSE Zero
      BY <1>2 DEF QcowFileRead
    <3>4. \A k \in 1..n : /\ ofs + k - 1 + 1 = ofs + k
                          /\ ofs + k - 1 < Len(stored) <=> ofs + k <= Len(stored)
      BY <1>2
    <3>. QED BY <1>5, <2>4, <2>9, <3>2, <3>3, <3>4 DEF a, inTable
  <2>. QED BY <2>7, <2>8, <2>9
<1>. QED BY <1>6, <1>7

LEMMA VdiDelivers ==
  ASSUME NEW f, FileMakesSense("vdi", f), f.blockSize # 0, NEW seek \in Nat, NEW count \in Nat,
         count # 0
  PROVE  LET a == VdiRead0(f, seek, count)
             inMap(p) == p \div f.blockSize < Len(f.bmap)
             there(p) == VdiBlock(f, p) \in {Discarded, Unallocated} \/ VdiPlace(f, p) < Len(f.data)
             n == InUnit(f.blockSize, seek % f.blockSize, count)
         IN /\ a.ok => \A k \in 1..Len(a.data) :
                         /\ inMap(seek + k - 1) /\ there(seek + k - 1)
                         /\ a.data[k] = VdiByte(f, seek + k - 1)
            /\ inMap(seek) /\ there(seek + n - 1) => a.ok
<1>. DEFINE ofs == seek % f.blockSize
            block == seek \div f.blockSize
            n == InUnit(f.blockSize, ofs, count)
            b == f.bmap[block + 1]
            adr == (b * f.blockSize) + ofs
            a == VdiRead0(f, seek, count)
            inMap(p) == p \div f.blockSize < Len(f.bmap)
            hole(p) == VdiBlock(f, p) \in {Discarded, Unallocated}
<1>1. PICK size \in Positive : size = f.blockSize /\ size \in Nat
  BY DEF FileMakesSense, Positive
<1>2. n \in 1..count /\ ofs \in Nat /\ block \in Nat
  <2>1. /\ seek % size \in 0..(size - 1) /\ InUnit(size, seek % size, count) \in 0..count
        /\ InUnit(size, seek % size, count) # 0
    BY InUnitType
  <2>2. seek \div size \in Nat
    BY DivMod
  <2>. QED BY <1>1, <2>1, <2>2
<1>3. ASSUME NEW k \in 1..n
      PROVE  /\ (seek + k - 1) \div f.blockSize = block
             /\ (seek + k - 1) % f.blockSize = ofs + k - 1
  <2>1. k \in 1..InUnit(size, seek % size, count)
    BY <1>1
  <2>2. /\ (seek + k - 1) \div size = seek \div size
        /\ (seek + k - 1) % size = (seek % size) + k - 1
    BY <2>1, InUnitKeeps
  <2>. QED BY <1>1, <2>2
<1>4. ASSUME NEW k \in 1..n
      PROVE  /\ inMap(seek + k - 1) <=> block < Len(f.bmap)
             /\ VdiBlock(f, seek + k - 1) = b
             /\ VdiPlace(f, seek + k - 1) = (b * f.blockSize) + (ofs + k - 1)
  BY <1>3 DEF VdiBlock, VdiPlace
<1>5. inMap(seek) <=> block < Len(f.bmap)
  OBVIOUS
<1>6. CASE block >= Len(f.bmap)
  <2>1. a = Refused
    BY <1>6 DEF VdiRead0
  <2>2. ~(block < Len(f.bmap))
    <3>1. Len(f.bmap) \in Nat
      BY DEF FileMakesSense
    <3>2. PICK l \in Nat, m \in Nat : l = block /\ m = Len(f.bmap)
      BY <1>2, <3>1
    <3>. QED BY <1>6, <3>2
  <2>. QED BY <1>5, <2>1, <2>2 DEF Refused
<1>7. CASE ~(block >= Len(f.bmap))
  <2>1. Len(f.bmap) \in Nat /\ f.bmap \in Seq(Nat \cup {Discarded, Unallocated})
    BY DEF FileMakesSense
  <2>2. b \in Nat \cup {Discarded, Unallocated} /\ block < Len(f.bmap)
    <3>1. PICK l \in Nat, m \in Nat : l = block /\ m = Len(f.bmap)
      BY <1>2, <2>1
    <3>2. l < m /\ l + 1 \in 1..m
      BY <1>7, <3>1
    <3>3. f.bmap[l + 1] \in Nat \cup {Discarded, Unallocated}
      BY <2>1, <3>1, <3>2
    <3>. QED BY <3>1, <3>2, <3>3
  <2>3. PICK u \in BOOLEAN, v \in BOOLEAN :
          (u <=> b \in {Discarded, Unallocated}) /\ (v <=> adr + n > Len(f.data))
    OBVIOUS
  <2>4. PICK x, z : x = Got(Zeros(n), FALSE) /\ z = Got(Cut(f.data, adr, n), TRUE)
    OBVIOUS
  <2>5. a = CASE u -> x [] v -> Refused [] OTHER -> z
    <3>1. a = CASE b \in {Discarded, Unallocated} -> Got(Zeros(n), FALSE)
                [] adr + n > Len(f.data) -> Refused
                [] OTHER -> Got(Cut(f.data, adr, n), TRUE)
      BY <1>7 DEF VdiRead0
    <3>. QED BY <2>3, <2>4, <3>1
  <2>6. \A k \in 1..n : inMap(seek + k - 1) /\ VdiBlock(f, seek + k - 1) = b
    BY <1>4, <2>2
  <2>7. CASE u
    <3>1. ~v
      <4>1. PICK o \in Nat, e \in Nat, l \in Nat :
              o = ofs /\ e = n /\ l = Len(f.data) /\ o + e <= size
        <5>1. InUnit(size, seek % size, count) + (seek % size) <= size
          BY InUnitType
        <5>2. PICK o \in Nat, e \in Nat : o = ofs /\ e = n
          BY <1>2
        <5>3. e + o <= size
          BY <1>1, <5>1, <5>2
        <5>4. o + e <= size /\ Len(f.data) \in Nat
          BY <1>1, <5>3 DEF FileMakesSense
        <5>. QED BY <5>2, <5>4
      <4>2. b \in {-1, -2}
        BY <2>3, <2>7 DEF Discarded, Unallocated
      <4>. HIDE DEF b, ofs, n
      <4>3. PICK j \in Int : j = b * f.blockSize /\ j <= -size
        BY <1>1, <4>2
      <4>4. adr = j + o
        BY <4>1, <4>3
      <4>. HIDE DEF adr
      <4>5. ~(adr + n > Len(f.data))
        <5>1. PICK g \in Int : g = j + o + e /\ ~(g > l)
          <6>1. j + o + e \in Int /\ ~(j + o + e > l)
            BY <1>1, <4>1, <4>3
          <6>. QED BY <6>1
        <5>2. adr + n = g /\ Len(f.data) = l
          BY <4>1, <4>4, <5>1
        <5>. QED BY <5>1, <5>2
      <4>. QED BY <2>3, <4>5
    <3>6. a = x
      <4>. HIDE DEF a, inMap, n, b, adr
      <4>. QED BY <2>5, <2>7, <3>1
    <3>. HIDE DEF a, n, b, inMap
    <3>2. a.ok /\ a.data = Zeros(n)
      BY <2>4, <3>6 DEF Got
    <3>3. Len(Zeros(n)) = n /\ \A k \in 1..n : Zeros(n)[k] = Zero
      BY <1>2 DEF Zeros
    <3>4. \A k \in 1..n : hole(seek + k - 1) /\ VdiByte(f, seek + k - 1) = Zero
      BY <2>3, <2>6, <2>7 DEF VdiByte
    <3>. QED BY <2>6, <3>2, <3>3, <3>4 DEF a, inMap
  <2>8. CASE ~u
    <3>1. b \in Nat
      BY <2>2, <2>3, <2>8
    <3>2. PICK m \in Nat : m = b * f.blockSize /\ adr = m + ofs
      <4>. HIDE DEF b
      <4>1. PICK y \in Nat : y = b
        BY <3>1
      <4>2. y * size \in Nat
        BY <1>1, TimesOrder
      <4>. QED BY <1>1, <4>1, <4>2
    <3>7. adr = m + ofs
      BY <3>2
    <3>3. \A k \in 1..n : VdiPlace(f, seek + k - 1) = m + (ofs + k - 1) /\ ~hole(seek + k - 1)
      BY <1>4, <2>3, <2>6, <2>8, <3>2
    <3>4. \A k \in 1..n : VdiByte(f, seek + k - 1) = f.data[m + (ofs + k - 1) + 1]
      BY <3>3 DEF VdiByte
    <3>5. CASE v
      <4>1. a = Refused
        <5>. HIDE DEF a
        <5>. QED BY <2>5, <2>8, <3>5
      <4>2. ~(VdiPlace(f, seek + n - 1) < Len(f.data)) /\ ~hole(seek + n - 1)
        <5>1. n \in 1..n
          BY <1>2
        <5>2. adr + n > Len(f.data)
          BY <2>3, <3>5
        <5>3. VdiPlace(f, seek + n - 1) = m + (ofs + n - 1) /\ ~hole(seek + n - 1)
          BY <3>3, <5>1
        <5>. HIDE DEF adr, n, ofs
        <5>7. Len(f.data) \in Nat
          BY DEF FileMakesSense
        <5>4. PICK l \in Nat, o \in Nat, e \in Nat :
                l = Len(f.data) /\ o = ofs /\ e = n /\ e # 0
          BY <1>2, <5>7
        <5>5. m + o + e > l
          BY <3>7, <5>2, <5>4
        <5>6. ~(m + (o + e - 1) < l)
          BY <5>4, <5>5
        <5>. QED BY <5>3, <5>4, <5>6
      <4>. QED BY <4>1, <4>2 DEF Refused
    <3>6. CASE ~v
      <4>1. a = z
        <5>. HIDE DEF a
        <5>. QED BY <2>5, <2>8, <3>6
      <4>2. a.ok /\ a.data = Cut(f.data, adr, n)
        <5>. HIDE DEF a
        <5>. QED BY <2>4, <4>1 DEF Got
      <4>3. /\ Len(Cut(f.data, adr, n)) = n
            /\ \A k \in 1..n : Cut(f.data, adr, n)[k] = f.data[adr + k]
        <5>1. adr \in Int /\ n \in Nat
          BY <1>2, <3>2
        <5>. HIDE DEF adr, n
        <5>. QED BY <5>1, CutProperties
      <4>4. ASSUME NEW k \in 1..n
            PROVE  m + (ofs + k - 1) + 1 = adr + k /\ m + (ofs + k - 1) < Len(f.data)
        <5>1. ~(adr + n > Len(f.data))
          BY <2>3, <3>6
        <5>. HIDE DEF adr, n, ofs, a
        <5>6. Len(f.data) \in Nat /\ k \in Nat
          BY <1>2 DEF FileMakesSense
        <5>2. PICK l \in Nat, o \in Nat, e \in Nat, j \in Nat :
                l = Len(f.data) /\ o = ofs /\ e = n /\ j = k
          BY <1>2, <5>6
        <5>3. ~(m + o + e > l) /\ j \in 1..e
          BY <3>7, <5>1, <5>2
        <5>4. m + (o + j - 1) + 1 = m + o + j /\ m + (o + j - 1) < l
          BY <5>3
        <5>. QED BY <3>7, <5>2, <5>4
      <4>5. \A k \in 1..n : VdiPlace(f, seek + k - 1) < Len(f.data)
        BY <3>3, <4>4
      <4>6. \A k \in 1..n : a.data[k] = VdiByte(f, seek + k - 1)
        BY <3>4, <4>2, <4>3, <4>4
      <4>. HIDE DEF a, n, inMap, hole
      <4>. QED BY <2>6, <4>2, <4>3, <4>5, <4>6 DEF a, inMap
    <3>. QED BY <3>5, <3>6
  <2>. QED BY <2>7, <2>8
<1>. QED BY <1>6, <1>7

\* What one step of a read returns are the bytes of the image, and they are
\* there; and it returns some if all that is wanted is there.
LEMMA ReadDelivers ==
  ASSUME setup \in DOMAIN Setups, NEW i \in 0..(Len(Images) - 1), Opens(i),
         Format(i) # "aaff",
         NEW seek \in Nat, NEW count \in Nat, count # 0, seek + count <= Size(i)
  PROVE  LET a == Read0(i, seek, count)
             image == Images[i + 1]
         IN /\ a.ok => \A k \in 1..Len(a.data) :
                         /\ Readable(image, seek + k - 1)
                         /\ a.data[k] = Byte(image, seek + k - 1)
            /\ (\A k \in 1..count : Readable(image, seek + k - 1)) => a.ok
<1>. DEFINE a == Read0(i, seek, count)
            image == Images[i + 1]
            f == image.file
            Delivers == a.ok => \A k \in 1..Len(a.data) :
                                  /\ Readable(image, seek + k - 1)
                                  /\ a.data[k] = Byte(image, seek + k - 1)
            Complete == (\A k \in 1..count : Readable(image, seek + k - 1)) => a.ok
<1>1. /\ image.format \in Formats /\ FileMakesSense(image.format, f)
      /\ image.format = Format(i) /\ f = File(i)
  BY ImageMakesSense DEF Format, File
<1>2. PICK size \in Nat : size = ImageSize(image) /\ seek + count <= size
  <2>1. Size(i) = ImageSize(image) /\ Size(i) \in Nat
    BY ImageMakesSense DEF Size
  <2>. QED BY <2>1
<1>11. Length(image) = ImageSize(image)
  BY <1>1 DEF Length, ImageSize
<1>3. a.ok => Len(a.data) \in 0..count
  BY ReadAnswers DEF Answers
<1>4. \A k \in 1..count : seek + k - 1 \in Nat /\ seek + k - 1 \in 0..(Length(image) - 1)
  BY <1>2, <1>11
<1>5. a.ok => \A k \in 1..Len(a.data) : k \in 1..count
  BY <1>3
<1>. HIDE DEF a, image
<1>6. seek + 1 - 1 = seek /\ 1 \in 1..count
  OBVIOUS
<1>7. CASE Format(i) = "raw"
  <2>1. a = RawRead0(f, seek, count)
    BY <1>1, <1>7 DEF Read0, a
  <2>2. FileMakesSense("raw", f)
    BY <1>1, <1>7
  <2>3. /\ a.ok => \A k \in 1..Len(a.data) : a.data[k] = RawByte(f, seek + k - 1)
        /\ count # 0 /\ seek < RawSize(f) => a.ok
    BY <2>1, <2>2, RawDelivers
  <2>4. image.format = "raw" /\ ImageSize(image) = RawSize(f)
    BY <1>1, <1>7 DEF ImageSize
  <2>5. seek < RawSize(f)
    <3>1. size = RawSize(f) /\ seek < size
      BY <1>2, <2>4
    <3>. QED BY <3>1
  <2>6. \A k \in 1..count : Readable(image, seek + k - 1)
    BY <1>4, <2>4 DEF Readable, Whole
  <2>7. \A p : Byte(image, p) = RawByte(f, p)
    BY <2>4 DEF Byte, Whole
  <2>. QED BY <1>5, <2>3, <2>5, <2>6, <2>7 DEF image, a
<1>8. CASE Format(i) = "qcow"
  <2>1. a = QcowRead0(f, seek, count)
    BY <1>1, <1>8 DEF Read0, a
  <2>2. FileMakesSense("qcow", f)
    BY <1>1, <1>8
  <2>. DEFINE inTable(p) == (p \div f.clusterSize) \div f.l2Size < Len(f.l1)
  <2>3. /\ a.ok => \A k \in 1..Len(a.data) :
                     inTable(seek + k - 1) /\ a.data[k] = QcowByte(f, seek + k - 1)
        /\ inTable(seek) => a.ok
    BY <2>1, <2>2, QcowDelivers
  <2>4. image.format = "qcow"
    BY <1>1, <1>8
  <2>6. \A k \in 1..count : Readable(image, seek + k - 1) <=> inTable(seek + k - 1)
    BY <1>4, <2>4 DEF Readable, Whole
  <2>7. \A p : Byte(image, p) = QcowByte(f, p)
    BY <2>4 DEF Byte, Whole
  <2>. HIDE DEF inTable
  <2>8. Delivers
    BY <1>5, <2>3, <2>6, <2>7
  <2>9. Complete
    <3>1. ASSUME \A k \in 1..count : Readable(image, seek + k - 1) PROVE inTable(seek)
      <4>1. inTable(seek + 1 - 1)
        BY <1>6, <2>6, <3>1
      <4>. QED BY <1>6, <4>1
    <3>. QED BY <2>3, <3>1
  <2>. QED BY <2>8, <2>9 DEF image, a
<1>9. CASE Format(i) = "vdi"
  <2>1. a = VdiRead0(f, seek, count)
    BY <1>1, <1>9 DEF Read0, a
  <2>2. FileMakesSense("vdi", f) /\ f.blockSize # 0
    <3>1. Opens(i) = VdiOpens(File(i))
      BY <1>9 DEF Opens
    <3>2. FileMakesSense("vdi", f)
      BY <1>1, <1>9
    <3>3. f.blockSize # 0
      BY <1>1, <3>1 DEF VdiOpens, VdiHeaderValid
    <3>. QED BY <3>2, <3>3
  <2>. DEFINE inMap(p) == p \div f.blockSize < Len(f.bmap)
              there(p) == VdiBlock(f, p) \in {Discarded, Unallocated} \/ VdiPlace(f, p) < Len(f.data)
              n == InUnit(f.blockSize, seek % f.blockSize, count)
  <2>3. /\ a.ok => \A k \in 1..Len(a.data) :
                     /\ inMap(seek + k - 1) /\ there(seek + k - 1)
                     /\ a.data[k] = VdiByte(f, seek + k - 1)
        /\ inMap(seek) /\ there(seek + n - 1) => a.ok
    BY <2>1, <2>2, VdiDelivers
  <2>4. image.format = "vdi"
    BY <1>1, <1>9
  <2>5. n \in 1..count
    <3>1. PICK unit \in Positive : unit = f.blockSize
      BY <2>2 DEF FileMakesSense, Positive
    <3>2. /\ InUnit(unit, seek % unit, count) \in 0..count
          /\ InUnit(unit, seek % unit, count) # 0
      BY InUnitType
    <3>. QED BY <3>1, <3>2
  <2>6. \A k \in 1..count : Readable(image, seek + k - 1) <=>
                              inMap(seek + k - 1) /\ there(seek + k - 1)
    BY <1>4, <2>4 DEF Readable, Whole
  <2>7. \A p : Byte(image, p) = VdiByte(f, p)
    BY <2>4 DEF Byte, Whole
  <2>. HIDE DEF inMap, there, n
  <2>8. Delivers
    BY <1>5, <2>3, <2>6, <2>7
  <2>9. Complete
    <3>1. ASSUME \A k \in 1..count : Readable(image, seek + k - 1)
          PROVE  inMap(seek) /\ there(seek + n - 1)
      <4>1. inMap(seek + 1 - 1)
        BY <1>6, <2>6, <3>1
      <4>2. there(seek + n - 1)
        BY <2>5, <2>6, <3>1
      <4>. QED BY <1>6, <4>1, <4>2
    <3>. QED BY <2>3, <3>1
  <2>. QED BY <2>8, <2>9 DEF image, a
<1>10. CASE Format(i) \in Whole
  <2>1. a = LibraryRead(f, seek, count)
    BY <1>1, <1>10 DEF Read0, a, Whole
  <2>2. Len(f.bytes) \in Nat
    BY <1>1, <1>10 DEF FileMakesSense
  <2>3. /\ a.ok => /\ seek + count <= Len(f.bytes)
                   /\ \A k \in 1..Len(a.data) : a.data[k] = f.bytes[seek + k - 1 + 1]
        /\ ~a.ok => ~(seek + count <= Len(f.bytes))
    BY <2>1, <2>2, LibraryDelivers
  <2>4. image.format \in Whole
    BY <1>1, <1>10
  <2>5. \A k \in 1..count : Readable(image, seek + k - 1) <=> seek + k - 1 < Len(f.bytes)
    BY <1>4, <2>4 DEF Readable, Whole
  <2>6. \A p : Byte(image, p) = f.bytes[p + 1]
    BY <2>4 DEF Byte, Whole
  <2>7. PICK len \in Nat : len = Len(f.bytes)
    BY <2>2
  <2>8. Delivers
    <3>1. seek + count <= len => \A k \in 1..count : seek + k - 1 < len
      OBVIOUS
    <3>. QED BY <1>5, <2>3, <2>5, <2>6, <2>7, <3>1
  <2>9. Complete
    <3>1. seek + count - 1 < len => seek + count <= len
      OBVIOUS
    <3>2. count \in 1..count
      OBVIOUS
    <3>. QED BY <2>3, <2>5, <2>7, <3>1, <3>2
  <2>. QED BY <2>8, <2>9 DEF image, a
<1>. QED BY <1>1, <1>7, <1>8, <1>9, <1>10 DEF Formats, Looped

-----------------------------------------------------------------------------
(* The start, and the size of the disk                                     *)

\* A mount that is what it says it is, and has nothing that the code takes
\* wrong.
Ready == Described(Setup) /\ TakenRight(Setup)

LEMMA MountDescribed == ASSUME Ready PROVE Described(Setup)
  BY DEF Ready

LEMMA SetupKept ==
  ASSUME setup' = setup
  PROVE  /\ Setup' = Setup /\ (Ready' <=> Ready)
         /\ SizesRead(Setup)' <=> SizesRead(Setup)
         /\ BlocksTold(Setup)' <=> BlocksTold(Setup)
         /\ TakenRight(Setup)' <=> TakenRight(Setup)
  BY DEF Setup, Ready

\* How long an image is.
LEMMA LengthIs ==
  ASSUME SizesRead(Setup), setup \in DOMAIN Setups, NEW i \in 0..(Len(Images) - 1)
  PROVE  Length(Images[i + 1]) = Size(i) /\ ImageSize(Images[i + 1]) = Size(i)
<1>1. ImageSize(Images[i + 1]) = Size(i)
  BY DEF Size
<1>2. CASE Format(i) = "aaff"
  <2>1. Size(i) = File(i).size
    BY <1>2, SizeRead
  <2>. QED BY <1>1, <1>2, <2>1 DEF Length, Format, File
<1>3. CASE Format(i) # "aaff"
  BY <1>1, <1>3 DEF Length, ImageSize, Format
<1>. QED BY <1>1, <1>2, <1>3

\* Open accepts the images that can be opened.
LEMMA OpensWhatCan ==
  ASSUME setup \in DOMAIN Setups, NEW i \in 0..(Len(Images) - 1)
  PROVE  Opens(i) <=> CanOpen(Images[i + 1])
<1>1. Format(i) \in Formats /\ FileMakesSense(Format(i), File(i))
  BY ImageMakesSense
<1>2. CASE Format(i) = "ewf"
  <2>1. PICK size \in Nat, len \in Nat : size = File(i).size /\ len = Len(File(i).bytes)
    BY <1>1, <1>2 DEF FileMakesSense, Whole
  <2>2. (size = 0 \/ len >= size) <=> \A p \in 0..(size - 1) : p < len
    <3>1. ASSUME \A p \in 0..(size - 1) : p < len, size # 0 PROVE len >= size
      <4>1. size - 1 \in 0..(size - 1)
        BY <3>1
      <4>. QED BY <3>1, <4>1
    <3>. QED BY <3>1
  <2>3. Opens(i) <=> File(i).signed /\ (size = 0 \/ len >= size)
    BY <1>2, <2>1 DEF Opens, EwfOpens
  <2>4. CanOpen(Images[i + 1]) <=> File(i).signed /\ \A p \in 0..(size - 1) : p < len
    BY <1>2, <2>1 DEF CanOpen, Format, File
  <2>. QED BY <2>2, <2>3, <2>4
<1>3. CASE Format(i) # "ewf"
  BY <1>1, <1>3 DEF Opens, CanOpen, Format, File, Formats, Looped, Whole
<1>. QED BY <1>2, <1>3

\* ... and the options are those that fit.
LEMMA OptionsFit ==
  ASSUME SizesRead(Setup), setup \in DOMAIN Setups, NEW i \in 0..(Len(Images) - 1)
  PROVE  FitsOptions(Size(i)) <=> Setup.offset + Setup.limit <= Length(Images[i + 1])
<1>1. PICK size \in Nat, offset \in Nat, limit \in Nat :
        size = Size(i) /\ offset = Setup.offset /\ limit = Setup.limit
  BY ImageMakesSense, SetupMakesSense DEF MountMakesSense
<1>2. Size(i) = Length(Images[i + 1])
  BY LengthIs
<1>3. FitsOptions(size) <=> offset <= size /\ (limit # 0 => limit <= size - offset)
  BY <1>1 DEF FitsOptions
<1>. QED BY <1>1, <1>2, <1>3

\* What remains when nothing goes round.
LEMMA NoOverflow ==
  ASSUME NEW x \in 0..(Word - 1)
  PROVE  x % Word = x /\ x % Wide = x /\ x \in Nat
<1>1. PICK w \in Nat, v \in Nat : w = Word /\ v = Wide /\ w <= v /\ w # 0
  BY ImageConstants DEF Positive
<1>. QED BY <1>1

\* The clusters of a FAT and those that are free.
LEMMA FatIsTold ==
  ASSUME NEW fs, NEW size, fs.kind = "fat", FsMakesSense(fs), FatTold(fs),
         FatFieldsValid(fs, size)
  PROVE  /\ FatDataSector(fs) = FatStart(fs)
         /\ FatClusters(fs) = FatCount(fs) /\ FatMapClusters(fs) = FatCount(fs)
         /\ FatBlockMap(fs) = FatPlaces(fs)
<1>1. /\ fs.reserved \in Nat /\ fs.fatCount \in Nat /\ FatSectors(fs) \in Nat
      /\ fs.bytesPerSector \in Positive /\ fs.sectorsPerCluster \in Positive
      /\ fs.rootEntries \in Nat /\ SectorsOf(fs) \in 0..(Word - 1)
  BY DEF FsMakesSense, FatFieldsValid, Positive
<1>2. RootSectors(fs) \in Nat
  <2>1. PICK r \in Nat, d \in Nat, b \in Positive :
          r = fs.rootEntries /\ d = DirEntrySize /\ b = fs.bytesPerSector
    BY <1>1, ImageConstants
  <2>2. r * d \in Nat
    OBVIOUS
  <2>3. PICK n \in Nat : n = r * d + b - 1
    BY <2>2 DEF Positive
  <2>4. n \div b \in Nat
    BY DivMod
  <2>. QED BY <2>1, <2>3, <2>4 DEF RootSectors
<1>3. PICK x \in Nat : x = fs.fatCount * FatSectors(fs) /\ x % Word = x
  <2>1. fs.fatCount * FatSectors(fs) \in Nat
    BY <1>1
  <2>2. fs.fatCount * FatSectors(fs) < Word
    BY DEF FatTold
  <2>3. fs.fatCount * FatSectors(fs) \in 0..(Word - 1)
    <3>1. Word \in Nat
      BY ImageConstants DEF Positive
    <3>. QED BY <2>1, <2>2, <3>1
  <2>. QED BY <2>1, <2>3, NoOverflow
<1>4. FatDataSector(fs) = FatStart(fs)
  BY <1>3 DEF FatDataSector, FatStart
<1>5. PICK d \in 0..(Word - 1) : d = SectorsOf(fs) - FatStart(fs)
  <2>1. PICK e \in Nat, s \in 0..(Word - 1) : e = FatStart(fs) /\ s = SectorsOf(fs)
    <3>1. FatStart(fs) \in Nat
      BY <1>1, <1>2, <1>3 DEF FatStart
    <3>. QED BY <1>1, <3>1
  <2>2. FatDataSector(fs) <= SectorsOf(fs)
    BY DEF FatTold
  <2>3. e <= s
    BY <1>4, <2>1, <2>2
  <2>4. s - e \in 0..(Word - 1)
    <3>1. PICK w \in Nat : w = Word
      BY ImageConstants DEF Positive
    <3>. QED BY <2>1, <2>3, <3>1
  <2>. QED BY <2>1, <2>4
<1>6. FatClusters(fs) = FatCount(fs) /\ FatMapClusters(fs) = FatCount(fs)
  <2>1. SectorsOf(fs) - FatDataSector(fs) = d /\ d % Word = d /\ d % Wide = d
    BY <1>4, <1>5, NoOverflow
  <2>. QED BY <1>4, <2>1 DEF FatClusters, FatMapClusters, FatCount
<1>7. FatFreeClusters(fs) = {c \in 2..(FatCount(fs) + 1) : fs.fat[c + 1] \in {0, fs.bad}}
  <2>1. \A c \in FatFreeClusters(fs) : fs.fat[c + 1] \in {0, fs.bad}
    BY DEF FatTold
  <2>2. \A entry \in {0, fs.bad} : FatFree(fs, entry)
    <3>1. 0 % Fat16Mask = 0
      BY ImageConstants DEF Positive
    <3>. QED BY <3>1 DEF FatFree
  <2>. QED BY <1>6, <2>1, <2>2 DEF FatFreeClusters
<1>. QED BY <1>4, <1>6, <1>7 DEF FatBlockMap, FatPlaces

\* The allocation file of an HFS, and the places of the free blocks.
LEMMA HfsIsTold ==
  ASSUME NEW fs, HfsTold(fs)
  PROVE  HfsAllocPlaces(fs) = HfsAllocStarts(fs) /\ HfsBlockMap(fs) = HfsPlaces(fs)
<1>1. HfsAllocPlaces(fs) = HfsAllocStarts(fs)
  <2>1. \A k \in DOMAIN HfsAllocBlocks(fs) :
          HfsPlace(fs, HfsAllocBlocks(fs)[k]) = HfsAllocBlocks(fs)[k] * fs.blockSize
    BY NoOverflow DEF HfsTold, HfsPlace
  <2>. QED BY <2>1 DEF HfsAllocPlaces, HfsAllocStarts
<1>2. PICK free : free = HfsFreeBlocks(fs, HfsBits(fs, HfsAllocPlaces(fs)))
  OBVIOUS
<1>3. \A k \in DOMAIN free : HfsPlace(fs, free[k]) = free[k] * fs.blockSize
  <2>1. \A k \in DOMAIN free : free[k] * fs.blockSize \in 0..(Word - 1)
    BY <1>2 DEF HfsTold
  <2>. QED BY <2>1, NoOverflow DEF HfsPlace
<1>. QED BY <1>1, <1>2, <1>3 DEF HfsBlockMap, HfsPlaces

LEMMA BlocksAreTold ==
  ASSUME NEW fs, NEW size, NEW wanted, FsMakesSense(fs),
         IF fs.kind = "hfs" THEN HfsTold(fs) ELSE FatTold(fs)
  PROVE  UnallocatedMorphs(fs, size, wanted) <=>
           \/ wanted # "fat" /\ fs.kind = "hfs" /\ HfsTells(fs, size)
           \/ wanted # "hfs" /\ fs.kind = "fat" /\ FatTells(fs, size)
<1>1. CASE fs.kind = "hfs"
  <2>1. HfsTells(fs, size) <=> HfsHeaderValid(fs, size) /\ HfsAllocFileReadable(fs, size)
    <3>1. HfsAllocPlaces(fs) = HfsAllocStarts(fs)
      BY <1>1, HfsIsTold
    <3>. QED BY <3>1 DEF HfsTells, HfsAllocFileReadable
  <2>2. UnallocatedMorphs(fs, size, wanted) <=>
          wanted # "fat" /\ HfsHeaderValid(fs, size) /\ HfsAllocFileReadable(fs, size)
    BY <1>1 DEF UnallocatedMorphs, FsOf
  <2>. QED BY <1>1, <2>1, <2>2
<1>2. CASE fs.kind = "fat"
  <2>1. FatTells(fs, size) <=> FatHeaderValid(fs, size) /\ FatReadable(fs, size)
    <3>1. FatFieldsValid(fs, size) => FatClusters(fs) = FatCount(fs)
      BY <1>2, FatIsTold
    <3>. QED BY <3>1 DEF FatTells, FatHeaderValid
  <2>2. UnallocatedMorphs(fs, size, wanted) <=>
          wanted # "hfs" /\ FatHeaderValid(fs, size) /\ FatReadable(fs, size)
    BY <1>2 DEF UnallocatedMorphs, FsOf
  <2>. QED BY <1>2, <2>1, <2>2
<1>3. CASE fs.kind \notin {"hfs", "fat"}
  BY <1>3 DEF UnallocatedMorphs, FsOf
<1>. QED BY <1>1, <1>2, <1>3

\* The free blocks are where the code takes them to be.
LEMMA PlacesAreTold ==
  ASSUME Mounted, BlocksTold(Setup), Setup.morph = "unallocated"
  PROVE  FreeBlockMap(Setup.images[1].fs) = FreePlaces(Setup.images[1].fs)
<1>1. PICK fs : fs = Setup.images[1].fs
  OBVIOUS
<1>2. Len(sizes) = 1 /\ UnallocatedMorphs(fs, sizes[1], Setup.fs)
  BY <1>1 DEF Mounted, Morphs, Images
<1>3. IF fs.kind = "hfs" THEN HfsTold(fs) ELSE FatTold(fs)
  BY <1>1, <1>2 DEF BlocksTold, Mounted, Images
<1>4. FsMakesSense(fs)
  BY <1>1, SetupMakesSense DEF MountMakesSense, Mounted
<1>5. CASE fs.kind = "hfs"
  BY <1>1, <1>3, <1>5, HfsIsTold DEF FreeBlockMap, FreePlaces
<1>6. CASE fs.kind # "hfs"
  <2>1. fs.kind = "fat" /\ FatFieldsValid(fs, sizes[1])
    BY <1>2, <1>6 DEF UnallocatedMorphs, FsOf, FatHeaderValid
  <2>2. FatBlockMap(fs) = FatPlaces(fs)
    BY <1>3, <1>4, <1>6, <2>1, FatIsTold
  <2>. QED BY <1>1, <1>6, <2>2 DEF FreeBlockMap, FreePlaces
<1>. QED BY <1>5, <1>6

\* When all images are open and the morphing library has accepted them, the
\* mount is one that can be served; and the other way round.
LEMMA MountedServable ==
  ASSUME setup \in DOMAIN Setups, sizes \in Seq(Nat), Len(sizes) = Len(Images),
         SizesRead(Setup), BlocksTold(Setup),
         \A k \in 1..Len(sizes) : /\ Opens(k - 1) /\ FitsOptions(Size(k - 1))
                                  /\ sizes[k] = PartSize(Setup, Images[k])
  PROVE  Morphs <=> Servable(Setup)
<1>1. DOMAIN Images = 1..Len(Images) /\ Len(Images) \in Nat
  BY ImagesCount
<1>2. \A k \in DOMAIN Setup.images :
        CanOpen(Setup.images[k]) /\ Setup.offset + Setup.limit <= Length(Setup.images[k])
  <2>. SUFFICES ASSUME NEW k \in DOMAIN Images
                PROVE  CanOpen(Images[k]) /\ Setup.offset + Setup.limit <= Length(Images[k])
    BY DEF Images
  <2>1. k - 1 \in 0..(Len(Images) - 1) /\ (k - 1) + 1 = k /\ k \in 1..Len(sizes)
    BY <1>1
  <2>2. Opens(k - 1) /\ FitsOptions(Size(k - 1))
    BY <2>1
  <2>3. Opens(k - 1) <=> CanOpen(Images[k - 1 + 1])
    BY <2>1, OpensWhatCan
  <2>4. FitsOptions(Size(k - 1)) <=> Setup.offset + Setup.limit <= Length(Images[k - 1 + 1])
    BY <2>1, OptionsFit
  <2>. QED BY <2>1, <2>2, <2>3, <2>4
<1>3. Len(Setup.images) = Len(sizes)
  BY DEF Images
<1>4. Len(sizes) = 1 => sizes[1] = PartSize(Setup, Setup.images[1]) /\ Images[1] = Setup.images[1]
  BY DEF Images
<1>5. Morphs <=> (Setup.morph = "unallocated" =>
                    /\ Len(Setup.images) = 1
                    /\ UnallocatedMorphs(Setup.images[1].fs, PartSize(Setup, Setup.images[1]),
                                         Setup.fs))
  BY <1>3, <1>4 DEF Morphs
<1>6. ASSUME Setup.morph = "unallocated", Len(Setup.images) = 1
      PROVE  UnallocatedMorphs(Setup.images[1].fs, PartSize(Setup, Setup.images[1]), Setup.fs)
               <=> BlocksTell(Setup)
  <2>1. FsMakesSense(Setup.images[1].fs)
    BY <1>6, SetupMakesSense DEF MountMakesSense
  <2>2. Remaining(Setup)[1] = PartSize(Setup, Setup.images[1])
    <3>1. 1 \in DOMAIN Setup.images /\ 0 \in 0..(Len(Images) - 1)
      BY <1>1, <1>6 DEF Images
    <3>2. Length(Images[0 + 1]) = ImageSize(Images[0 + 1])
      BY <3>1, LengthIs
    <3>3. Length(Setup.images[1]) = ImageSize(Setup.images[1])
      BY <3>2 DEF Images
    <3>. QED BY <3>1, <3>3 DEF Remaining, PartSize
  <2>3. IF Setup.images[1].fs.kind = "hfs"
        THEN HfsTold(Setup.images[1].fs) ELSE FatTold(Setup.images[1].fs)
    BY <1>6 DEF BlocksTold
  <2>4. PICK fs, size, wanted :
          /\ fs = Setup.images[1].fs /\ size = PartSize(Setup, Setup.images[1])
          /\ wanted = Setup.fs
    OBVIOUS
  <2>5. UnallocatedMorphs(fs, size, wanted) <=>
          \/ wanted # "fat" /\ fs.kind = "hfs" /\ HfsTells(fs, size)
          \/ wanted # "hfs" /\ fs.kind = "fat" /\ FatTells(fs, size)
    BY <2>1, <2>3, <2>4, BlocksAreTold
  <2>. QED BY <2>2, <2>4, <2>5 DEF BlocksTell
<1>. QED BY <1>2, <1>5, <1>6 DEF Servable

LEMMA FitBoth ==
  ASSUME MountInv, NEW k \in 1..Len(sizes)
  PROVE  FitsOptions(Size(k - 1))
<1>1. Len(Images) \in Nat /\ k - 1 \in 0..(Len(Images) - 1)
  <2>1. Len(Images) \in Nat
    BY ImagesCount DEF MountInv
  <2>2. Len(sizes) \in Nat /\ Len(sizes) <= Len(Images)
    BY DEF MountInv
  <2>. QED BY <2>1, <2>2
<1>2. PICK size \in Nat, offset \in Nat, limit \in Nat :
        size = Size(k - 1) /\ offset = Setup.offset /\ limit = Setup.limit
  BY <1>1, ImageMakesSense, SetupMakesSense DEF MountMakesSense, MountInv
<1>3. PICK part \in Nat : part = sizes[k] /\ part + offset <= size
  <2>1. sizes[k] \in Nat /\ sizes[k] + Setup.offset <= Size(k - 1)
    BY DEF MountInv
  <2>. QED BY <1>2, <2>1
<1>4. limit # 0 => part = limit
  BY <1>2, <1>3 DEF MountInv, PartSize
<1>5. offset <= size /\ (limit # 0 => limit <= size - offset)
  BY <1>3, <1>4
<1>. QED BY <1>2, <1>5 DEF FitsOptions

LEMMA StartedServable ==
  ASSUME ReadsInv, Started, SizesRead(Setup), BlocksTold(Setup)
  PROVE  Mounted /\ Servable(Setup)
<1>1. Mounted /\ MountInv
  BY StartedMounted DEF ReadsInv
<1>2. \A k \in 1..Len(sizes) : Opens(k - 1) /\ FitsOptions(Size(k - 1))
  BY <1>1, FitBoth DEF MountInv
<1>3. Morphs <=> Servable(Setup)
  BY <1>1, <1>2, MountedServable DEF Mounted
<1>. QED BY <1>1, <1>3 DEF Mounted

\* What is left of the images is what the morphing library sees.
LEMMA SizesRemain == ASSUME Mounted, SizesRead(Setup) PROVE Remaining(Setup) = sizes
<1>1. DOMAIN Images = 1..Len(sizes)
  BY ImagesCount DEF Mounted
<1>2. sizes = [k \in 1..Len(sizes) |-> sizes[k]]
  BY DEF Mounted
<1>3. \A k \in 1..Len(sizes) : sizes[k] = PartSize(Setup, Images[k])
  BY DEF Mounted
<1>4. \A k \in 1..Len(sizes) : Length(Images[k]) = ImageSize(Images[k])
  <2>. SUFFICES ASSUME NEW k \in 1..Len(sizes) PROVE Length(Images[k]) = ImageSize(Images[k])
    OBVIOUS
  <2>1. k - 1 \in 0..(Len(Images) - 1) /\ (k - 1) + 1 = k
    BY ImagesCount DEF Mounted
  <2>. QED BY <2>1, LengthIs DEF Mounted
<1>. QED BY <1>1, <1>2, <1>3, <1>4 DEF Remaining, Images, PartSize

\* A mount that fails cannot be served, or a file could not be read.
FailInv ==
  pc = "failed" /\ SizesRead(Setup) /\ BlocksTold(Setup) => met \/ ~Servable(Setup)

LEMMA OpenImageFails == ASSUME ReadsInv, FailInv, OpenImage PROVE FailInv'
<1>1. setup' = setup /\ Setup' = Setup
  BY DEF OpenImage, Setup
<1>. SUFFICES ASSUME pc' = "failed", SizesRead(Setup), BlocksTold(Setup)
              PROVE  ~Servable(Setup)'
  BY <1>1, SetupKept DEF FailInv
<1>2. pc = "open" /\ Len(sizes) < Len(Images)
      /\ ~(Opens(Len(sizes)) /\ FitsOptions(Size(Len(sizes))))
  BY DEF OpenImage
<1>3. setup \in DOMAIN Setups /\ Len(sizes) \in Nat
  BY DEF ReadsInv, MountInv
<1>4. DOMAIN Images = 1..Len(Images) /\ Len(Images) \in Nat
  BY <1>3, ImagesCount
<1>5. PICK i \in 0..(Len(Images) - 1) : i = Len(sizes) /\ i + 1 \in DOMAIN Images
  BY <1>2, <1>3, <1>4
<1>6. ~(CanOpen(Images[i + 1]) /\ Setup.offset + Setup.limit <= Length(Images[i + 1]))
  BY <1>2, <1>3, <1>5, OpensWhatCan, OptionsFit
<1>7. ~Servable(Setup)
  BY <1>5, <1>6 DEF Servable, Images
<1>. QED BY <1>1, <1>7

LEMMA MorphFails == ASSUME ReadsInv, FailInv, Morph PROVE FailInv'
<1>1. setup' = setup /\ Setup' = Setup
  BY DEF Morph, Setup
<1>. SUFFICES ASSUME pc' = "failed", SizesRead(Setup), BlocksTold(Setup)
              PROVE  ~Servable(Setup)'
  BY <1>1, SetupKept DEF FailInv
<1>2. Len(sizes) = Len(Images) /\ ~Morphs
  BY DEF Morph
<1>3. /\ setup \in DOMAIN Setups /\ sizes \in Seq(Nat) /\ MountInv
      /\ \A k \in 1..Len(sizes) : Opens(k - 1) /\ sizes[k] = PartSize(Setup, Images[k])
  BY DEF ReadsInv, MountInv
<1>4. \A k \in 1..Len(sizes) : FitsOptions(Size(k - 1))
  BY <1>3, FitBoth
<1>5. ~Servable(Setup)
  BY <1>2, <1>3, <1>4, MountedServable
<1>. QED BY <1>1, <1>5

LEMMA NextFails == ASSUME ReadsInv, FailInv, [Next]_vars PROVE FailInv'
<1>1. CASE OpenImage
  BY <1>1, OpenImageFails
<1>2. CASE Morph
  BY <1>2, MorphFails
<1>3. CASE OpenFault \/ MorphFault
  BY <1>3 DEF OpenFault, MorphFault, FailInv
<1>4. CASE End \/ Requests
  BY <1>4 DEF End, Requests, Request, Finish, FailInv
<1>5. CASE MorphDone \/ MorphCall \/ MorphBack
  BY <1>5 DEF MorphDone, MorphCall, MorphBack, Finish, FailInv
<1>6. CASE InputStep
  BY <1>6 DEF InputStep, Finish, FailInv
<1>7. CASE AaffPage \/ AaffHop \/ AaffLost
  BY <1>7 DEF AaffPage, AaffHop, AaffLost, CopyPage, Finish, FailInv
<1>8. CASE UNCHANGED vars
  BY <1>8, SetupKept DEF vars, FailInv
<1>. QED BY <1>1, <1>2, <1>3, <1>4, <1>5, <1>6, <1>7, <1>8 DEF Next, Steps

\* xmount starts with every mount that it can serve and with no other one,
\* whatever the images, their formats and the options are: each image is of
\* its format and all there that Open looks at, the options leave a part of
\* it, and a file system that is asked for can be read.  But for an AFF image
\* whose size is misread and a file system whose free blocks are.
THEOREM StartsWithWhatCanBeServed ==
  ASSUME MountsDescribed PROVE Spec => []StartsIfItCan
<1>1. Init => FailInv
  BY DEF Init, FailInv
<1>2. ReadsInv /\ FailInv /\ [Next]_vars => FailInv'
  BY NextFails
<1>3. ReadsInv /\ FailInv => StartsIfItCan
  <2>. SUFFICES ASSUME ReadsInv, FailInv, SizesRead(Setup), BlocksTold(Setup)
                PROVE  /\ pc = "failed" => met \/ ~Setup.good
                       /\ Started => Setup.good
    BY DEF StartsIfItCan
  <2>1. Setup.good <=> Servable(Setup)
    BY DEF ReadsInv, MountInv, MountsDescribed, Described, Setup
  <2>2. Started => Servable(Setup)
    BY StartedServable
  <2>. QED BY <2>1, <2>2 DEF StartsIfItCan, FailInv
<1>. QED BY <1>1, <1>2, <1>3, ReadsInvariant, PTL DEF Spec

-----------------------------------------------------------------------------
\* A RAID is as long as the chunks of the smallest image, of all of them.
LEMMA RaidIsDealt ==
  ASSUME Ready, Mounted, Servable(Setup), Setup.morph = "raid"
  PROVE  LET n == RaidChunksPerImage(sizes, Setup.chunk)
         IN /\ n \in Positive /\ Setup.chunk \in Positive /\ Len(sizes) \in Positive
            /\ \A j \in 1..Len(sizes) : n <= sizes[j] \div Setup.chunk
            /\ Len(Setup.disk) = n * Setup.chunk * Len(sizes)
            /\ \A u \in 0..(n * Len(sizes) - 1) : \A o \in 0..(Setup.chunk - 1) :
                 Shows(Setup, (u * Setup.chunk) + o, u % Len(sizes),
                       ((u \div Len(sizes)) * Setup.chunk) + o)
<1>1. Dealt(Setup)
  BY MountDescribed DEF Mounted, Described, IsTheDisk
<1>2. sizes \in Seq(Nat) /\ DOMAIN sizes = 1..Len(sizes) /\ Len(sizes) \in Nat
  BY DEF Mounted
<1>3. Setup.chunk \in Positive
  BY Units
<1>. DEFINE Holds(chunks) ==
              /\ \A j \in DOMAIN sizes : chunks <= sizes[j] \div Setup.chunk
              /\ Len(Setup.disk) = chunks * Setup.chunk * Len(sizes)
              /\ \A u \in 0..(chunks * Len(sizes) - 1) : \A o \in 0..(Setup.chunk - 1) :
                   Shows(Setup, (u * Setup.chunk) + o, u % Len(sizes),
                         ((u \div Len(sizes)) * Setup.chunk) + o)
<1>4. PICK k \in DOMAIN sizes : Holds(sizes[k] \div Setup.chunk)
  BY <1>1, SizesRemain DEF Dealt, Ready, TakenRight
<1>. HIDE DEF Holds
<1>5. PICK chunks \in Nat : chunks = sizes[k] \div Setup.chunk /\ Holds(chunks)
  <2>1. sizes[k] \in Nat
    BY <1>2
  <2>2. sizes[k] \div Setup.chunk \in Nat
    BY <1>3, <2>1, DivMod
  <2>. QED BY <1>4, <2>2
<1>6. /\ chunks # 0 /\ \A j \in DOMAIN sizes : chunks <= sizes[j] \div Setup.chunk
  <2>1. sizes[k] = PartSize(Setup, Setup.images[k]) /\ k \in DOMAIN Setup.images
    BY <1>2, ImagesCount DEF Mounted, Images
  <2>2. Setup.chunk <= sizes[k]
    BY <2>1 DEF Ready, TakenRight, ChunksEverywhere
  <2>3. PICK size \in Nat, chunk \in Positive : size = sizes[k] /\ chunk = Setup.chunk
    BY <1>2, <1>3
  <2>4. 1 * chunk <= size /\ 1 \in Nat
    BY <2>2, <2>3 DEF Positive
  <2>5. 1 <= size \div chunk
    BY <2>4, Quotient
  <2>6. 1 <= chunks
    BY <1>5, <2>3, <2>5
  <2>. QED BY <1>5, <2>6 DEF Holds
<1>7. \A j \in DOMAIN sizes : sizes[j] \div Setup.chunk # 0
  <2>. SUFFICES ASSUME NEW j \in DOMAIN sizes, sizes[j] \div Setup.chunk = 0 PROVE FALSE
    OBVIOUS
  <2>1. chunks <= 0
    BY <1>6
  <2>. QED BY <1>6, <2>1
<1>8. PICK n \in Nat : n = RaidChunksPerImage(sizes, Setup.chunk)
  BY <1>2, <1>3, RaidChunks
<1>9. n <= chunks
  BY <1>2, <1>3, <1>5, <1>7, <1>8, RaidChunks
<1>10. chunks <= n
  <2>1. PICK j \in DOMAIN sizes : n = sizes[j] \div Setup.chunk
    BY <1>2, <1>3, <1>7, <1>8, RaidChunks
  <2>. QED BY <1>6, <2>1
<1>11. n = chunks
  BY <1>9, <1>10
<1>12. n \in Positive /\ Len(sizes) \in Positive
  BY <1>2, <1>6, <1>11 DEF Positive
<1>. QED BY <1>2, <1>3, <1>5, <1>8, <1>11, <1>12 DEF Holds

LEMMA SizeIsTheDisk ==
  ASSUME Ready, Mounted, Servable(Setup), morph = Morphed
  PROVE  morph.size = Len(Setup.disk)
<1>1. Described(Setup) /\ IsTheDisk(Setup)
  BY MountDescribed DEF Mounted, Described
<1>2. CASE Setup.morph = "combine"
  BY <1>1, <1>2, Units, SizesRemain DEF IsTheDisk, Joined, Ready, TakenRight
<1>3. CASE Setup.morph = "swab"
  BY <1>1, <1>3, Units, SizesRemain DEF IsTheDisk, Swapped, Ready, TakenRight
<1>4. CASE Setup.morph = "raid"
  BY <1>4, Units, RaidIsDealt
<1>5. CASE Setup.morph = "unallocated"
  <2>1. morph.unit = FreeBlockSize(Images[1].fs) /\ morph.map = FreeBlockMap(Images[1].fs)
    BY <1>5 DEF Morphed
  <2>2. morph.size = morph.unit * Len(morph.map)
    BY <1>5, Units
  <2>3. Len(Setup.disk) = FreeBlockSize(Images[1].fs) * Len(FreeBlockMap(Images[1].fs))
    <3>1. FreeBlockMap(Images[1].fs) = FreePlaces(Images[1].fs)
      BY <1>5, PlacesAreTold DEF Ready, TakenRight, Images
    <3>. QED BY <1>1, <1>5, <3>1 DEF IsTheDisk, FreeBlocks, Images
  <2>. QED BY <2>1, <2>2, <2>3
<1>. QED BY <1>2, <1>3, <1>4, <1>5, Units

\* The size that the morphing library computes is that of the disk, for images
\* of any sizes, cut by any options, unless the mount has something that the
\* code takes wrong: the size of an AFF image, a RAID image without a chunk, or
\* the free blocks of a file system.
THEOREM SizeIsThatOfTheImages ==
  ASSUME MountsDescribed PROVE Spec => []SizeIsTheImages
<1>1. ReadsInv => SizeIsTheImages
  <2>. SUFFICES ASSUME ReadsInv, Started, TakenRight(Setup)
                PROVE  morph.size = Len(Setup.disk)
    BY DEF SizeIsTheImages
  <2>1. Mounted /\ Servable(Setup) /\ morph = Morphed
    BY StartedServable, StartedMounted DEF ReadsInv, TakenRight
  <2>2. Ready
    BY <2>1 DEF MountsDescribed, Setup, Mounted, Ready
  <2>. QED BY <2>1, <2>2, SizeIsTheDisk
<1>. QED BY <1>1, ReadsInvariant, PTL

-----------------------------------------------------------------------------
(* What the morphing library asks of the images                            *)

\* The loop is at a place of the disk.
OnTheWay(a, place) ==
  /\ Setup.morph = "combine" =>
       a.unit < Len(sizes) /\ SumOf(SubSeq(sizes, 1, a.unit)) + a.ofs = place
  /\ Setup.morph \in {"raid", "unallocated"} => (a.unit * morph.unit) + a.ofs = place
  /\ Setup.morph = "unallocated" => a.ofs = 0
  /\ Setup.morph = "swab" => a.ofs = place

\* A step asks for bytes that an image has, and for those that are at that
\* place of the disk; the bytes for swab are there in another order.
StepRight(step, place) ==
  /\ step.image \in 0..(Len(sizes) - 1)
  /\ Setup.whole => step.offset + step.count <= sizes[step.image + 1]
  /\ Setup.morph # "swab" =>
       \A k \in 1..step.count :
         step.offset + k <= sizes[step.image + 1] =>
           Shows(Setup, place + k - 1, step.image, step.offset + k - 1)
  /\ Setup.morph = "swab" => step.image = 0 /\ step.offset = place /\ step.count = at.left

LEMMA BeginsOnTheWay ==
  ASSUME Mounted, morph = Morphed, NEW offset \in Nat, offset < morph.size, NEW n \in Nat,
         Setup.morph = "unallocated" => offset % morph.unit = 0
  PROVE  /\ Setup.morph = "combine" => OnTheWay(CombineStart(sizes, offset, n), offset)
         /\ Setup.morph = "swab" => OnTheWay(SwabStart(offset, n), offset)
         /\ Setup.morph \in {"raid", "unallocated"} =>
              OnTheWay(UnitStart(morph.unit, offset, n), offset)
<1>1. ASSUME Setup.morph = "combine"
      PROVE  OnTheWay(CombineStart(sizes, offset, n), offset)
  <2>1. PICK a : a = CombineStart(sizes, offset, n)
    OBVIOUS
  <2>2. sizes \in Seq(Nat) /\ morph.size = SumOf(sizes)
    BY <1>1, Units DEF Mounted
  <2>3. /\ a.unit \in 0..(Len(sizes) - 1)
        /\ offset = SumOf(SubSeq(sizes, 1, a.unit)) + a.ofs
    BY <2>1, <2>2, CombineFinds
  <2>4. a.unit < Len(sizes)
    BY <2>2, <2>3
  <2>. QED BY <1>1, <2>1, <2>3, <2>4 DEF OnTheWay
<1>2. ASSUME Setup.morph = "swab" PROVE OnTheWay(SwabStart(offset, n), offset)
  BY <1>2 DEF OnTheWay, SwabStart
<1>3. ASSUME Setup.morph \in {"raid", "unallocated"}
      PROVE  OnTheWay(UnitStart(morph.unit, offset, n), offset)
  <2>1. PICK u \in Positive : u = morph.unit
    BY <1>3, Units
  <2>2. offset = ((offset \div u) * u) + (offset % u)
    BY DivMod
  <2>. QED BY <1>3, <2>1, <2>2 DEF OnTheWay, UnitStart
<1>. QED BY <1>1, <1>2, <1>3

LEMMA CombineStepRight ==
  ASSUME Ready, Mounted, Servable(Setup), morph = Morphed, Setup.morph = "combine",
         NEW a \in [unit : Nat, ofs : Nat, left : Nat], a.left # 0, Place(a),
         NEW place \in Nat, OnTheWay(a, place), place + a.left <= morph.size
  PROVE  /\ StepRight(CombineStep(sizes, a), place)
         /\ LET left == a.left - CombineStep(sizes, a).count
                b == [unit |-> a.unit + 1, ofs |-> 0, left |-> left]
            IN left # 0 => OnTheWay(b, place + CombineStep(sizes, a).count)
<1>1. PICK i \in Nat, o \in Nat, n \in Nat : i = a.unit /\ o = a.ofs /\ n = a.left
  OBVIOUS
<1>2. sizes \in Seq(Nat) /\ i \in 0..(Len(sizes) - 1) /\ i + 1 \in 1..Len(sizes)
  BY <1>1 DEF Mounted, OnTheWay
<1>3. PICK u \in Nat : u = sizes[i + 1] /\ o <= u
  BY <1>1, <1>2 DEF Place
<1>4. PICK b \in Nat : b = SumOf(SubSeq(sizes, 1, i)) /\ b + o = place
  <2>1. SumOf(SubSeq(sizes, 1, i)) \in Nat
    BY <1>2, SumSteps
  <2>. QED BY <1>1, <2>1 DEF OnTheWay
<1>5. PICK d \in 0..n : d = UpTo(u, a)
  BY <1>1, <1>3, StepLeaves
<1>6. d # n => d = u - o
  BY <1>1, <1>3, <1>5, StepLeaves
<1>7. CombineStep(sizes, a) = [image |-> i, offset |-> o, count |-> d]
  BY <1>1, <1>3, <1>5 DEF CombineStep, Step
<1>8. o + d <= u
  <2>1. UpTo(u, a) = Min({n, u - o})
    BY <1>1 DEF UpTo
  <2>2. Min({n, u - o}) = IF n <= u - o THEN n ELSE u - o
    BY <1>3, MinOfTwo
  <2>. QED BY <1>3, <1>5, <2>1, <2>2
<1>9. ASSUME NEW k \in 1..d PROVE Shows(Setup, place + k - 1, i, o + k - 1)
  <2>1. Joined(Setup)
    BY MountDescribed DEF Mounted, Described, IsTheDisk
  <2>2. \A j \in 0..(Len(sizes) - 1) : \A p \in 0..(sizes[j + 1] - 1) :
          Shows(Setup, SumOf(SubSeq(sizes, 1, j)) + p, j, p)
    BY <2>1, SizesRemain DEF Joined, Ready, TakenRight
  <2>3. PICK p \in 0..(u - 1) : p = o + k - 1 /\ b + p = place + k - 1
    <3>1. o + k - 1 \in 0..(u - 1) /\ b + (o + k - 1) = place + k - 1
      BY <1>4, <1>8
    <3>. QED BY <3>1
  <2>4. Shows(Setup, b + p, i, p)
    BY <1>2, <1>3, <1>4, <2>2
  <2>. QED BY <2>3, <2>4
<1>10. StepRight(CombineStep(sizes, a), place)
  <2>1. PICK step : step = CombineStep(sizes, a)
    OBVIOUS
  <2>2. step.image = i /\ step.offset = o /\ step.count = d
    BY <1>7, <2>1
  <2>3. StepRight(step, place)
    BY <1>2, <1>3, <1>8, <1>9, <2>2 DEF StepRight
  <2>. QED BY <2>1, <2>3
<1>11. ASSUME n - d # 0
       PROVE  OnTheWay([unit |-> i + 1, ofs |-> 0, left |-> n - d], place + d)
  <2>1. d = u - o
    BY <1>6, <1>11
  <2>2. SumOf(SubSeq(sizes, 1, i + 1)) = b + u
    BY <1>2, <1>3, <1>4, SumSteps
  <2>3. i + 1 < Len(sizes)
    <3>0. SUFFICES ASSUME i + 1 = Len(sizes) PROVE FALSE
      BY <1>2
    <3>1. SumOf(sizes) = b + u
      <4>1. SumOf(SubSeq(sizes, 1, Len(sizes))) = b + u
        BY <2>2, <3>0
      <4>. QED BY <1>2, <4>1, SumSteps
    <3>2. morph.size = SumOf(sizes)
      BY Units
    <3>3. place + n <= b + u
      BY <1>1, <3>1, <3>2
    <3>4. b + o + n <= b + u /\ d < n
      BY <1>4, <1>11, <3>3
    <3>. QED BY <1>3, <2>1, <3>4
  <2>4. b + u + 0 = place + d
    BY <1>3, <1>4, <2>1
  <2>. QED BY <2>2, <2>3, <2>4 DEF OnTheWay
<1>. QED BY <1>1, <1>7, <1>10, <1>11

\* The units of raid and unallocated.
LEMMA NextUnit ==
  ASSUME Setup.morph \in {"raid", "unallocated"}, NEW u \in Nat, u = morph.unit,
         NEW a \in [unit : Nat, ofs : Nat, left : Nat], a.ofs <= u,
         NEW place \in Nat, (a.unit * u) + a.ofs = place, a.left - UpTo(u, a) # 0
  PROVE  OnTheWay([unit |-> a.unit + 1, ofs |-> 0, left |-> a.left - UpTo(u, a)],
                  place + UpTo(u, a))
<1>1. PICK q \in Nat, o \in Nat, n \in Nat : q = a.unit /\ o = a.ofs /\ n = a.left
  OBVIOUS
<1>2. PICK d \in 0..n : d = UpTo(u, a) /\ (d # n => d = u - o)
  BY <1>1, StepLeaves
<1>3. d = u - o
  BY <1>1, <1>2
<1>4. (q + 1) * u = (q * u) + u /\ q * u \in Nat
  OBVIOUS
<1>5. PICK m \in Nat : m = q * u /\ (q + 1) * u = m + u
  BY <1>4
<1>6. ((q + 1) * u) + 0 = place + d
  BY <1>1, <1>3, <1>5
<1>. QED BY <1>1, <1>2, <1>6 DEF OnTheWay

LEMMA RaidStepRight ==
  ASSUME Ready, Mounted, Servable(Setup), morph = Morphed, Setup.morph = "raid",
         NEW a \in [unit : Nat, ofs : Nat, left : Nat], a.left # 0, Place(a),
         NEW place \in Nat, OnTheWay(a, place), place + a.left <= morph.size
  PROVE  /\ StepRight(RaidStep(sizes, morph.unit, a), place)
         /\ LET left == a.left - RaidStep(sizes, morph.unit, a).count
                b == [unit |-> a.unit + 1, ofs |-> 0, left |-> left]
            IN left # 0 => OnTheWay(b, place + RaidStep(sizes, morph.unit, a).count)
<1>1. PICK q \in Nat, o \in Nat, n \in Nat : q = a.unit /\ o = a.ofs /\ n = a.left
  OBVIOUS
<1>2. PICK u \in Positive, c \in Positive, m \in Positive :
        /\ u = Setup.chunk /\ c = RaidChunksPerImage(sizes, Setup.chunk) /\ m = Len(sizes)
  BY RaidIsDealt
<1>3. /\ \A j \in 1..m : c <= sizes[j] \div u
      /\ \A v \in 0..(c * m - 1) : \A p \in 0..(u - 1) :
           Shows(Setup, (v * u) + p, v % m, ((v \div m) * u) + p)
  BY <1>2, RaidIsDealt
<1>4. morph.unit = u /\ morph.size = c * u * m
  BY <1>2, Units
<1>5. u \in Nat /\ c \in Nat /\ m \in Nat /\ u # 0 /\ m # 0
  BY DEF Positive
<1>6. o < u /\ (q * u) + o = place /\ q * u \in Nat
  <2>1. o < u
    BY <1>1, <1>4 DEF Place
  <2>2. (q * u) + o = place
    BY <1>1, <1>4 DEF OnTheWay
  <2>. QED BY <1>5, <2>1, <2>2, TimesOrder
<1>7. PICK x \in Nat : x = c * m
  BY <1>5, TimesOrder
<1>8. q < x
  <2>. SUFFICES ASSUME x <= q PROVE FALSE
    BY <1>5
  <2>1. x * u <= q * u /\ x * u \in Nat
    BY <1>5, TimesOrder
  <2>2. x * u = c * u * m
    BY <1>5, <1>7
  <2>3. (q * u) + o + n <= x * u
    BY <1>1, <1>4, <1>6, <2>2
  <2>4. PICK y \in Nat, z \in Nat : y = q * u /\ z = x * u
    BY <1>6, <2>1
  <2>. QED BY <1>1, <2>1, <2>3, <2>4
<1>9. PICK i \in 0..(m - 1), r \in Nat : i = q % m /\ r = q \div m /\ r < c
  <2>1. q % m \in 0..(m - 1) /\ q \div m \in Nat
    BY DivMod
  <2>2. q \div m < c
    BY <1>5, <1>7, <1>8, Quotient
  <2>. QED BY <2>1, <2>2
<1>10. PICK d \in 0..n : d = UpTo(u, a) /\ d <= u - o
  <2>1. UpTo(u, a) \in 0..n
    BY <1>1, <1>5, <1>6, StepLeaves
  <2>2. UpTo(u, a) = Min({n, u - o})
    BY <1>1 DEF UpTo
  <2>3. Min({n, u - o}) = IF n <= u - o THEN n ELSE u - o
    BY <1>5, MinOfTwo
  <2>. QED BY <1>5, <2>1, <2>2, <2>3
<1>11. PICK w \in Nat : w = r * u
  BY <1>5, TimesOrder
<1>12. RaidStep(sizes, morph.unit, a) = [image |-> i, offset |-> w + o, count |-> d]
  BY <1>1, <1>2, <1>4, <1>9, <1>10, <1>11 DEF RaidStep, Step
<1>13. w + o + d <= sizes[i + 1]
  <2>1. PICK s \in Nat : s = sizes[i + 1]
    <3>1. i + 1 \in 1..Len(sizes) /\ sizes \in Seq(Nat)
      BY <1>2, <1>5 DEF Mounted
    <3>. QED BY <3>1
  <2>2. c <= s \div u
    <3>1. i + 1 \in 1..m
      BY <1>5
    <3>. QED BY <1>3, <2>1, <3>1
  <2>3. PICK e \in Nat, g \in Nat : e = s \div u /\ g = e * u /\ g <= s
    <3>1. /\ s \div u \in Nat /\ (s \div u) * u \in Nat /\ s % u \in 0..(u - 1)
          /\ s = ((s \div u) * u) + (s % u)
      BY DivMod
    <3>2. PICK e \in Nat, g \in Nat, h \in Nat : e = s \div u /\ g = (s \div u) * u /\ h = s % u
      BY <1>5, <3>1
    <3>3. g = e * u /\ s = g + h
      BY <3>1, <3>2
    <3>. QED BY <3>2, <3>3
  <2>4. r < e
    BY <1>5, <1>9, <2>2, <2>3
  <2>5. w + u <= g
    BY <1>5, <1>11, <2>3, <2>4, TimesOrder
  <2>. QED BY <1>5, <1>10, <2>1, <2>3, <2>5
<1>14. ASSUME NEW k \in 1..d PROVE Shows(Setup, place + k - 1, i, w + o + k - 1)
  <2>1. PICK p \in 0..(u - 1) : p = o + k - 1
    <3>1. o + k - 1 \in 0..(u - 1)
      BY <1>5, <1>10
    <3>. QED BY <3>1
  <2>2. q \in 0..(c * m - 1)
    BY <1>7, <1>8
  <2>3. Shows(Setup, (q * u) + p, q % m, ((q \div m) * u) + p)
    BY <1>3, <2>1, <2>2
  <2>4. PICK y \in Nat : y = q * u
    BY <1>6
  <2>5. (q * u) + p = place + k - 1 /\ ((q \div m) * u) + p = w + o + k - 1 /\ q % m = i
    <3>1. y + p = place + k - 1 /\ w + p = w + o + k - 1
      BY <1>6, <2>1, <2>4
    <3>. QED BY <1>9, <1>11, <2>4, <3>1
  <2>. QED BY <2>3, <2>5
<1>15. StepRight(RaidStep(sizes, morph.unit, a), place)
  <2>1. PICK step : step = RaidStep(sizes, morph.unit, a)
    OBVIOUS
  <2>2. step.image = i /\ step.offset = w + o /\ step.count = d
    BY <1>12, <2>1
  <2>3. StepRight(step, place)
    BY <1>2, <1>13, <1>14, <2>2 DEF StepRight
  <2>. QED BY <2>1, <2>3
<1>16. ASSUME n - d # 0
       PROVE  OnTheWay([unit |-> a.unit + 1, ofs |-> 0, left |-> a.left - UpTo(u, a)],
                       place + UpTo(u, a))
  <2>1. a.ofs <= u /\ (a.unit * u) + a.ofs = place /\ a.left - UpTo(u, a) # 0
    BY <1>1, <1>5, <1>6, <1>10, <1>16
  <2>. QED BY <1>4, <1>5, <2>1, NextUnit
<1>. QED BY <1>1, <1>10, <1>12, <1>15, <1>16

LEMMA UnallocatedStepRight ==
  ASSUME Ready, Mounted, Servable(Setup), morph = Morphed,
         Setup.morph = "unallocated",
         NEW a \in [unit : Nat, ofs : Nat, left : Nat], a.left # 0, Place(a),
         NEW place \in Nat, OnTheWay(a, place), place + a.left <= morph.size
  PROVE  /\ StepRight(UnallocatedStep(morph.map, morph.unit, a), place)
         /\ LET left == a.left - UnallocatedStep(morph.map, morph.unit, a).count
                b == [unit |-> a.unit + 1, ofs |-> 0, left |-> left]
            IN left # 0 =>
                 OnTheWay(b, place + UnallocatedStep(morph.map, morph.unit, a).count)
<1>1. PICK q \in Nat, n \in Nat : q = a.unit /\ n = a.left /\ a.ofs = 0
  BY DEF OnTheWay
<1>2. PICK u \in Positive, m \in Nat :
        u = morph.unit /\ m = Len(morph.map) /\ morph.size = u * m /\ morph.map \in Seq(Nat)
  BY Units
<1>3. u \in Nat /\ u # 0
  BY DEF Positive
<1>4. q * u = place /\ q * u \in Nat
  <2>1. (q * u) + 0 = place
    BY <1>1, <1>2 DEF OnTheWay
  <2>2. q * u \in Nat
    BY <1>3, TimesOrder
  <2>. QED BY <2>1, <2>2
<1>5. q < m
  <2>. SUFFICES ASSUME m <= q PROVE FALSE
    OBVIOUS
  <2>1. m * u <= q * u /\ m * u \in Nat /\ m * u = u * m
    BY <1>3, TimesOrder
  <2>2. PICK y \in Nat, z \in Nat : y = q * u /\ z = m * u
    BY <1>4, <2>1
  <2>3. y + n <= z
    BY <1>1, <1>2, <1>4, <2>1, <2>2
  <2>. QED BY <1>1, <2>1, <2>2, <2>3
<1>6. PICK e \in Nat : e = morph.map[q + 1]
  BY <1>2, <1>5
<1>7. PICK d \in 0..n : d = UpTo(u, a) /\ d <= u
  <2>1. UpTo(u, a) \in 0..n
    BY <1>1, <1>3, StepLeaves
  <2>2. UpTo(u, a) = Min({n, u - 0})
    BY <1>1 DEF UpTo
  <2>3. Min({n, u - 0}) = IF n <= u - 0 THEN n ELSE u - 0
    BY <1>3, MinOfTwo
  <2>. QED BY <1>3, <2>1, <2>2, <2>3
<1>8. UnallocatedStep(morph.map, morph.unit, a) = [image |-> 0, offset |-> e, count |-> d]
  BY <1>1, <1>2, <1>6, <1>7 DEF UnallocatedStep, Step
<1>9. PICK s \in Nat : s = sizes[1] /\ Len(sizes) = 1
  <2>1. Len(sizes) = 1
    BY Units
  <2>2. 1 \in 1..Len(sizes)
    BY <2>1
  <2>3. \A k \in 1..Len(sizes) : sizes[k] \in Nat
    BY DEF Mounted
  <2>. QED BY <2>1, <2>2, <2>3
<1>10. morph.unit = FreeBlockSize(Setup.images[1].fs) /\ morph.map = FreePlaces(Setup.images[1].fs)
  BY PlacesAreTold DEF Morphed, Images, Ready, TakenRight
<1>11. Remaining(Setup)[1] = s
  BY <1>9, SizesRemain DEF Ready, TakenRight
<1>12. Setup.whole => e + d <= s
  <2>. SUFFICES ASSUME Setup.whole PROVE e + d <= s
    OBVIOUS
  <2>1. IsComplete(Setup)
    BY MountDescribed DEF Mounted, Described
  <2>2. q + 1 \in DOMAIN morph.map
    BY <1>2, <1>5
  <2>3. morph.map[q + 1] + morph.unit <= s
    BY <1>10, <1>11, <2>1, <2>2 DEF IsComplete
  <2>4. e + u <= s
    BY <1>2, <1>6, <2>3
  <2>. QED BY <1>3, <1>7, <2>4
<1>13. ASSUME NEW k \in 1..d, e + k <= s PROVE Shows(Setup, place + k - 1, 0, e + k - 1)
  <2>1. FreeBlocks(Setup)
    BY MountDescribed DEF Mounted, Described, IsTheDisk
  <2>2. \A v \in 0..(m - 1) : \A o \in 0..(u - 1) :
          morph.map[v + 1] + o < s => Shows(Setup, (v * u) + o, 0, morph.map[v + 1] + o)
    BY <1>2, <1>10, <1>11, <2>1 DEF FreeBlocks
  <2>3. PICK o \in 0..(u - 1) : o = k - 1
    <3>1. k - 1 \in 0..(u - 1)
      BY <1>3, <1>7
    <3>. QED BY <3>1
  <2>4. q \in 0..(m - 1) /\ e + o < s
    BY <1>5, <1>13, <2>3
  <2>5. Shows(Setup, (q * u) + o, 0, e + o)
    BY <1>6, <2>2, <2>4
  <2>6. (q * u) + o = place + k - 1 /\ e + o = e + k - 1
    BY <1>4, <2>3
  <2>. QED BY <2>5, <2>6
<1>14. StepRight(UnallocatedStep(morph.map, morph.unit, a), place)
  <2>1. PICK step : step = UnallocatedStep(morph.map, morph.unit, a)
    OBVIOUS
  <2>2. step.image = 0 /\ step.offset = e /\ step.count = d
    BY <1>8, <2>1
  <2>3. StepRight(step, place)
    BY <1>9, <1>12, <1>13, <2>2 DEF StepRight
  <2>. QED BY <2>1, <2>3
<1>15. ASSUME n - d # 0
       PROVE  OnTheWay([unit |-> a.unit + 1, ofs |-> 0, left |-> a.left - UpTo(u, a)],
                       place + UpTo(u, a))
  <2>1. a.ofs <= u /\ (a.unit * u) + a.ofs = place /\ a.left - UpTo(u, a) # 0
    BY <1>1, <1>3, <1>4, <1>7, <1>15
  <2>. QED BY <1>2, <1>3, <2>1, NextUnit
<1>. QED BY <1>1, <1>7, <1>8, <1>14, <1>15

LEMMA SwabStepRight ==
  ASSUME Ready, Mounted, Servable(Setup), morph = Morphed, Setup.morph = "swab",
         at \in [unit : Nat, ofs : Nat, left : Nat], at.left # 0,
         NEW place \in Nat, place % 2 = 0, OnTheWay(at, place), place + at.left <= morph.size
  PROVE  StepRight(SwabStep(at), place)
<1>1. PICK n \in Nat : n = at.left /\ at.ofs = place
  BY DEF OnTheWay
<1>2. PICK step : step = SwabStep(at)
  OBVIOUS
<1>3. step.image = 0 /\ step.offset = place /\ step.count = n
  BY <1>1, <1>2 DEF SwabStep, Step
<1>4. sizes \in Seq(Nat) /\ morph.size = SumOf(sizes)
  BY Units DEF Mounted
<1>5. Len(sizes) # 0
  <2>0. SUFFICES ASSUME Len(sizes) = 0 PROVE FALSE
    OBVIOUS
  <2>1. SumOf(SubSeq(sizes, 1, Len(sizes))) = 0
    <3>1. SumOf(SubSeq(sizes, 1, 0)) = 0
      BY <1>4, SumSteps
    <3>. QED BY <2>0, <3>1
  <2>2. SumOf(sizes) = 0
    BY <1>4, <2>1, SumSteps
  <2>. QED BY <1>1, <1>4, <2>2
<1>6. Setup.whole => place + n <= sizes[1]
  <2>. SUFFICES ASSUME Setup.whole PROVE place + n <= sizes[1]
    OBVIOUS
  <2>1. Len(Setup.images) = 1
    BY MountDescribed DEF Mounted, Described, IsComplete
  <2>2. Len(sizes) = 1
    BY <2>1 DEF Mounted, Images
  <2>3. SumOf(sizes) = sizes[1]
    <3>1. PICK k \in 0..(Len(sizes) - 1) : k = 0 /\ k + 1 = 1
      BY <2>2
    <3>2. SumOf(SubSeq(sizes, 1, k + 1)) = SumOf(SubSeq(sizes, 1, k)) + sizes[k + 1]
      BY <1>4, SumSteps
    <3>3. SumOf(SubSeq(sizes, 1, 0)) = 0 /\ SumOf(SubSeq(sizes, 1, Len(sizes))) = SumOf(sizes)
      BY <1>4, SumSteps
    <3>4. sizes[1] \in Nat
      <4>1. 1 \in 1..Len(sizes)
        BY <2>2
      <4>. QED BY <1>4, <4>1
    <3>5. SumOf(SubSeq(sizes, 1, 1)) = 0 + sizes[1]
      BY <3>1, <3>2, <3>3
    <3>6. SumOf(SubSeq(sizes, 1, 1)) = SumOf(sizes)
      BY <2>2, <3>3
    <3>. QED BY <3>4, <3>5, <3>6
  <2>. QED BY <1>1, <1>4, <2>3
<1>7. 0 \in 0..(Len(sizes) - 1)
  BY <1>4, <1>5
<1>8. StepRight(step, place)
  BY <1>1, <1>3, <1>6, <1>7 DEF StepRight
<1>. QED BY <1>2, <1>8

-----------------------------------------------------------------------------
(* What was read so far                                                    *)

\* How much of the disk the read is about, and how much of that was read in
\* the turns of the morphing library's loop that are over.
Asking == Min({req.count, morph.size - req.offset})
Done == Asking - at.left

\* Where the next byte of the image comes from, and what byte k of out has to
\* be until swab swaps them.
Cursor == IF Format(in.image) = "aaff" THEN in.seek + (in.got - in.left) ELSE in.seek
Wanted(k) == IF Setup.morph = "swab" THEN Byte(Images[1], Setup.offset + req.offset + k - 1)
             ELSE Setup.disk[req.offset + k]
There(k) == Setup.morph = "swab" => Readable(Images[1], Setup.offset + req.offset + k - 1)

Called == {"input", "back", "page", "hop"}

PlaceInv ==
  pc \in Reading =>
    /\ req.offset < morph.size /\ at.left <= Asking
    /\ Setup.morph = "swab" =>
         req.offset % 2 = 0 /\ Asking % 2 = 0 /\ (at.left # 0 => at.left = Asking)
    /\ at.left # 0 => OnTheWay(at, req.offset + Done)

Comes(image, cursor, from, n) ==
  \A k \in 1..n : Readable(Images[image + 1], cursor + k - 1) =>
                    Wanted(from + k) = Byte(Images[image + 1], cursor + k - 1)

ComesInv ==
  pc \in {"input", "page", "hop"} =>
    /\ Comes(in.image, Cursor, Len(out), in.left)
    /\ Setup.morph = "swab" => in.image = 0 /\ Cursor = Setup.offset + req.offset + Len(out)
    /\ pc = "input" => in.left # 0
    /\ pc # "input" => in.seek + in.got <= Size(in.image)
    /\ pc # "input" /\ in.left # in.got /\ in.left # 0 =>
         Cursor = in.page * File(in.image).pageSize

CopiedInv ==
  /\ Sequence(out)
  /\ pc = "morphing" => Len(out) = Done
  /\ pc \in Called => Len(out) = Done + (in.got - in.left)
  /\ pc = "back" => in.left = 0
  /\ pc \in {"morphing", "input", "back"} =>
       IF Setup.morph = "swab" /\ at.left = 0
       THEN \A k \in 1..Len(out) : out[k] = Setup.disk[req.offset + k]
       ELSE \A k \in 1..Len(out) : out[k] = Wanted(k) /\ There(k)
  /\ pc \in {"page", "hop"} => \A k \in 1..Len(out) : out[k] \in {Wanted(k), A!TornByte}
  /\ pc \in Called /\ Setup.morph = "swab" /\ in.got # 0 => req.offset + in.got <= sizes[1]

RestInv ==
  /\ pc = "idle" /\ ret = "ok" => out = Asked
  /\ pc \notin Reading => CopiedIsTheImage
  /\ pc = "open" => ret = "none" /\ out = <<>>

CompleteInv ==
  /\ pc \in Called /\ Setup.whole => in.got = in.asked
  /\ FailuresHaveACause

DeliverInv == PlaceInv /\ ComesInv /\ CopiedInv /\ RestInv /\ CompleteInv

LEMMA SameRead ==
  ASSUME UNCHANGED <<setup, sizes, morph, req>>
  PROVE  /\ Setup' = Setup /\ Images' = Images /\ Asking' = Asking /\ Asked' = Asked
         /\ \A k : Wanted(k)' = Wanted(k)
         /\ \A k : There(k)' <=> There(k)
         /\ \A a, place : OnTheWay(a, place)' <=> OnTheWay(a, place)
         /\ \A image, cursor, from, n :
              Comes(image, cursor, from, n)' <=> Comes(image, cursor, from, n)
         /\ \A i : File(i)' = File(i) /\ Format(i)' = Format(i)
<1>1. Setup' = Setup /\ Images' = Images
  BY DEF Setup, Images
<1>2. Asking' = Asking /\ Asked' = Asked
  BY <1>1 DEF Asking, Asked
<1>3. \A k : Wanted(k)' = Wanted(k) /\ (There(k)' <=> There(k))
  BY <1>1 DEF Wanted, There
<1>4. \A a, place : OnTheWay(a, place)' <=> OnTheWay(a, place)
  BY <1>1 DEF OnTheWay
<1>5. \A image, cursor, from, n :
        Comes(image, cursor, from, n)' <=> Comes(image, cursor, from, n)
  BY <1>1, <1>3 DEF Comes
<1>6. \A i : File(i)' = File(i) /\ Format(i)' = Format(i)
  BY <1>1 DEF File, Format
<1>. QED BY <1>1, <1>2, <1>3, <1>4, <1>5, <1>6

LEMMA DiskSequence ==
  ASSUME Ready, setup \in DOMAIN Setups
  PROVE  Sequence(Setup.disk)
<1>1. IsSequence(Setup.disk)
  BY MountDescribed DEF Described
<1>2. Len(Setup.disk) \in Nat /\ DOMAIN Setup.disk = 1..Len(Setup.disk)
      /\ Setup.disk = [k \in 1..Len(Setup.disk) |-> Setup.disk[k]]
  BY <1>1, SequenceDomain DEF IsSequence
<1>. QED BY <1>2, FunctionSequence

\* What the read is about.
LEMMA AskedIs ==
  ASSUME Ready, ReadsInv, Started, req.offset < morph.size
  PROVE  /\ Asking \in Nat /\ req.offset + Asking <= morph.size /\ Asking <= req.count
         /\ morph.size = Len(Setup.disk) /\ req.offset \in Nat
         /\ Sequence(Asked) /\ Len(Asked) = Asking
         /\ \A k \in 1..Asking : Asked[k] = Setup.disk[req.offset + k]
<1>1. Mounted /\ Servable(Setup) /\ morph = Morphed
  BY StartedServable, StartedMounted DEF ReadsInv, Ready, TakenRight
<1>2. PICK offset \in Nat, count \in Nat, size \in Nat :
        offset = req.offset /\ count = req.count /\ size = morph.size /\ offset < size
  BY <1>1, MorphedSize DEF ReadsInv, RequestInv
<1>3. size = Len(Setup.disk)
  BY <1>1, <1>2, SizeIsTheDisk
<1>4. Asking = IF count <= size - offset THEN count ELSE size - offset
  BY <1>2, MinOfTwo DEF Asking
<1>5. PICK n \in Nat : n = Asking /\ n <= count /\ offset + n <= size
  BY <1>2, <1>4
<1>6. Min({offset + count, size}) = IF offset + count <= size THEN offset + count ELSE size
  BY MinOfTwo
<1>7. Min({offset + count, size}) = offset + n
  BY <1>2, <1>4, <1>5, <1>6
<1>8. Asked = Cut(Setup.disk, offset, n)
  BY <1>2, <1>3, <1>7 DEF Asked, Cut
<1>9. /\ Len(Cut(Setup.disk, offset, n)) = n /\ Sequence(Cut(Setup.disk, offset, n))
      /\ \A k \in 1..n : Cut(Setup.disk, offset, n)[k] = Setup.disk[offset + k]
  <2>1. offset \in Int
    OBVIOUS
  <2>. QED BY <2>1, CutProperties DEF Sequence
<1>. QED BY <1>2, <1>3, <1>5, <1>8, <1>9

LEMMA AskedLength ==
  ASSUME Ready, setup \in DOMAIN Setups, NEW o \in Nat, NEW n \in Nat
  PROVE  LET s == SubSeq(Setup.disk, o + 1, Min({o + n, Len(Setup.disk)}))
         IN /\ 0 <= Len(s)
            /\ o >= Len(Setup.disk) => s = <<>>
<1>1. PICK S : Setup.disk \in Seq(S)
  BY DiskSequence DEF Sequence
<1>2. PICK l \in Nat : l = Len(Setup.disk)
  BY <1>1
<1>3. Min({o + n, l}) = IF o + n <= l THEN o + n ELSE l
  BY MinOfTwo
<1>4. PICK e \in Nat : e = Min({o + n, l}) /\ (o >= l => e <= o)
  BY <1>3
<1>5. SubSeq(Setup.disk, o + 1, e) \in Seq(S)
  <2>1. e <= l
    BY <1>3, <1>4
  <2>. QED BY <1>1, <1>2, <2>1
<1>6. o >= l => SubSeq(Setup.disk, o + 1, e) = <<>>
  BY <1>1, <1>4
<1>7. Len(SubSeq(Setup.disk, o + 1, e)) \in Nat
  BY <1>5
<1>8. Min({o + n, Len(Setup.disk)}) = e
  BY <1>2, <1>4
<1>9. PICK s : s = SubSeq(Setup.disk, o + 1, e)
  OBVIOUS
<1>10. Len(s) \in Nat /\ (o >= l => s = <<>>)
  BY <1>6, <1>7, <1>9
<1>11. 0 <= Len(s)
  BY <1>10
<1>. QED BY <1>2, <1>8, <1>9, <1>10, <1>11

LEMMA SameSequence ==
  ASSUME NEW s, NEW t, Sequence(s), Sequence(t), Len(s) = Len(t),
         \A k \in 1..Len(s) : s[k] = t[k]
  PROVE  s = t
<1>1. PICK S, T : s \in Seq(S) /\ t \in Seq(T)
  BY DEF Sequence
<1>2. PICK n \in Nat : n = Len(s) /\ n = Len(t)
  BY <1>1
<1>3. s = [k \in 1..n |-> s[k]] /\ t = [k \in 1..n |-> t[k]]
  BY <1>1, <1>2
<1>. QED BY <1>2, <1>3

\* In the middle of a read, nothing else was copied.
LEMMA CopiedSoFar ==
  ASSUME Ready, ReadsInv, DeliverInv, pc \in Reading
  PROVE  CopiedIsTheImage
<1>. SUFFICES ASSUME Setup.morph # "swab"
              PROVE  /\ Len(out) <= Len(Asked)
                     /\ \A k \in DOMAIN out : out[k] \in {Asked[k], A!TornByte}
  BY DEF CopiedIsTheImage
<1>1. Started /\ req.offset < morph.size
  BY DEF Started, Reading, DeliverInv, PlaceInv
<1>2. PICK n \in Nat, l \in Nat : n = Asking /\ l = at.left /\ l <= n
  <2>1. Asking \in Nat /\ at.left \in Nat /\ at.left <= Asking
    BY <1>1, AskedIs DEF ReadsInv, RequestInv, IsAt, DeliverInv, PlaceInv
  <2>. QED BY <2>1
<1>3. Len(out) <= n
  <2>1. CASE pc = "morphing"
    BY <1>2, <2>1 DEF DeliverInv, CopiedInv, Done
  <2>2. CASE pc # "morphing"
    <3>1. Len(out) = n - l + (in.got - in.left)
      BY <1>2, <2>2 DEF DeliverInv, CopiedInv, Reading, Called, Done
    <3>2. PICK g \in Nat, r \in Nat, c \in Nat :
            g = in.got /\ r = in.left /\ c = in.asked /\ r <= g /\ g <= c
      BY DEF ReadsInv, InputInv
    <3>3. MorphLeft /\ in.asked = MorphStep.count
      BY <2>2 DEF ReadsInv, RequestInv
    <3>4. StepType(MorphStep, at)
      <4>1. Mounted /\ morph = Morphed /\ IsAt(at, req.count) /\ req.count \in Nat
        BY <1>1, StartedMounted DEF ReadsInv, RequestInv
      <4>. QED BY <3>3, <4>1, MorphStepType
    <3>5. c <= l
      BY <1>2, <3>2, <3>3, <3>4 DEF StepType
    <3>6. Len(out) = n - l + (g - r)
      BY <3>1, <3>2
    <3>7. r <= g /\ g <= l
      BY <3>2, <3>5
    <3>8. n - l + (g - r) <= n
      BY <3>7
    <3>. QED BY <3>6, <3>8
  <2>. QED BY <2>1, <2>2
<1>4. PICK m \in Nat : m = Len(out) /\ m <= n /\ DOMAIN out = 1..m
  <2>1. PICK S : out \in Seq(S)
    BY DEF DeliverInv, CopiedInv, Sequence
  <2>. QED BY <1>3, <2>1
<1>5. \A k \in 1..m : out[k] \in {Wanted(k), A!TornByte}
  BY <1>4 DEF DeliverInv, CopiedInv, Reading
<1>6. \A k \in 1..m : Wanted(k) = Asked[k]
  <2>1. \A k \in 1..m : k \in 1..n
    BY <1>4
  <2>2. \A k \in 1..n : Asked[k] = Setup.disk[req.offset + k]
    BY <1>1, <1>2, AskedIs
  <2>. QED BY <2>1, <2>2 DEF Wanted
<1>7. Len(Asked) = n
  BY <1>1, <1>2, AskedIs
<1>. QED BY <1>4, <1>5, <1>6, <1>7

\* A read that fails leaves what it has copied.
LEMMA ReadFails ==
  ASSUME Ready, ReadsInv, DeliverInv, pc \in Reading,
         pc' = "idle", ret' = "error", UNCHANGED <<setup, sizes, morph, req, out>>,
         FailuresHaveACause'
  PROVE  DeliverInv'
<1>1. CopiedIsTheImage'
  <2>1. CopiedIsTheImage
    BY CopiedSoFar
  <2>. QED BY <2>1, SameRead DEF CopiedIsTheImage
<1>2. Sequence(out)'
  BY DEF DeliverInv, CopiedInv, Sequence
<1>. QED BY <1>1, <1>2 DEF DeliverInv, PlaceInv, ComesInv, CopiedInv, RestInv, CompleteInv,
                           Reading, Called

\* The step of the morphing library that comes next.
LEMMA MorphStepRight ==
  ASSUME Ready, ReadsInv, PlaceInv, pc \in Reading, MorphLeft
  PROVE  /\ StepType(MorphStep, at) /\ StepRight(MorphStep, req.offset + Done)
         /\ Setup.morph # "swab" /\ at.left - MorphStep.count # 0 =>
              OnTheWay(After(at, MorphStep.count), req.offset + Done + MorphStep.count)
         /\ at \in [unit : Nat, ofs : Nat, left : Nat] /\ at.left # 0
         /\ Done \in Nat /\ Asking = Done + at.left
<1>1. Started
  BY DEF Started, Reading
<1>2. Mounted /\ Servable(Setup) /\ morph = Morphed
  BY <1>1, StartedServable, StartedMounted DEF ReadsInv, Ready, TakenRight
<1>3. StepType(MorphStep, at) /\ at.left # 0
  <2>1. PICK most \in Nat : IsAt(at, most)
    BY DEF ReadsInv, RequestInv
  <2>. QED BY <1>2, <2>1, MorphStepType
<1>4. at \in [unit : Nat, ofs : Nat, left : Nat] /\ Place(at)
  BY <1>3 DEF ReadsInv, RequestInv, IsAt
<1>5. /\ Asking \in Nat /\ req.offset + Asking <= morph.size /\ req.offset \in Nat
      /\ morph.size \in Nat
  BY <1>1, AskedIs DEF PlaceInv, ReadsInv, MountInv
<1>6. PICK n \in Nat, l \in Nat, o \in Nat :
        n = Asking /\ l = at.left /\ o = req.offset /\ l <= n
  BY <1>4, <1>5 DEF PlaceInv
<1>7. Done = n - l /\ Done \in Nat /\ n = (n - l) + l
  BY <1>6 DEF Done
<1>8. PICK place \in Nat : place = req.offset + Done /\ place + at.left <= morph.size
  <2>1. o + (n - l) \in Nat /\ o + (n - l) + l = o + n
    BY <1>6
  <2>. QED BY <1>5, <1>6, <1>7, <2>1
<1>9. OnTheWay(at, place)
  BY <1>3, <1>8 DEF PlaceInv
<1>10. /\ StepRight(MorphStep, place)
       /\ Setup.morph # "swab" /\ at.left - MorphStep.count # 0 =>
            OnTheWay(After(at, MorphStep.count), place + MorphStep.count)
  <2>1. CASE Setup.morph = "combine"
    <3>1. MorphStep = CombineStep(sizes, at)
      BY <2>1 DEF MorphStep
    <3>. QED BY <1>2, <1>3, <1>4, <1>8, <1>9, <2>1, <3>1, CombineStepRight DEF After
  <2>2. CASE Setup.morph = "raid"
    <3>1. MorphStep = RaidStep(sizes, morph.unit, at)
      BY <2>2 DEF MorphStep
    <3>. QED BY <1>2, <1>3, <1>4, <1>8, <1>9, <2>2, <3>1, RaidStepRight DEF After
  <2>3. CASE Setup.morph = "unallocated"
    <3>1. MorphStep = UnallocatedStep(morph.map, morph.unit, at)
      BY <2>3 DEF MorphStep
    <3>. QED BY <1>2, <1>3, <1>4, <1>8, <1>9, <2>3, <3>1, UnallocatedStepRight DEF After
  <2>4. CASE Setup.morph = "swab"
    <3>1. MorphStep = SwabStep(at)
      BY <2>4 DEF MorphStep
    <3>2. place % 2 = 0
      <4>1. at.left = Asking /\ req.offset % 2 = 0
        BY <1>3, <2>4 DEF PlaceInv
      <4>2. place = o
        BY <1>6, <1>7, <1>8, <4>1
      <4>. QED BY <1>6, <4>1, <4>2
    <3>. QED BY <1>2, <1>3, <1>4, <1>8, <1>9, <2>4, <3>1, <3>2, SwabStepRight
  <2>. QED BY <1>2, <2>1, <2>2, <2>3, <2>4, Units
<1>. QED BY <1>3, <1>4, <1>6, <1>7, <1>8, <1>10

-----------------------------------------------------------------------------
(* The start and the end                                                   *)

LEMMA EmptySequence == Sequence(<<>>) /\ Len(<<>>) = 0 /\ DOMAIN <<>> = 1..0
  BY DEF Sequence

LEMMA NothingCopied ==
  ASSUME Ready, setup \in DOMAIN Setups, UNCHANGED setup,
         req' \in [offset : Nat, count : Nat], out' = <<>>
  PROVE  /\ CopiedIsTheImage' /\ Sequence(out)'
         /\ req'.offset >= Len(Setup.disk) => out' = Asked'
<1>1. PICK o \in Nat, n \in Nat : o = req'.offset /\ n = req'.count
  OBVIOUS
<1>2. Setup' = Setup
  BY DEF Setup
<1>3. PICK s : s = Asked'
  OBVIOUS
<1>4. s = SubSeq(Setup.disk, o + 1, Min({o + n, Len(Setup.disk)}))
  BY <1>1, <1>2, <1>3 DEF Asked
<1>5. 0 <= Len(s) /\ (o >= Len(Setup.disk) => s = <<>>)
  BY <1>4, AskedLength
<1>6. Sequence(out') /\ Len(out') = 0 /\ DOMAIN out' = {}
  BY EmptySequence
<1>7. CopiedIsTheImage'
  BY <1>3, <1>5, <1>6 DEF CopiedIsTheImage
<1>8. Sequence(out)'
  BY <1>6 DEF Sequence
<1>. QED BY <1>1, <1>3, <1>5, <1>7, <1>8

LEMMA InitDelivers == ASSUME Ready, Init PROVE DeliverInv
<1>1. /\ setup \in DOMAIN Setups /\ pc = "open" /\ out = <<>> /\ ret = "none" /\ req = NoReq
  BY DEF Init
<1>2. Sequence(out) /\ Len(out) = 0 /\ DOMAIN out = {}
  BY <1>1, EmptySequence
<1>3. CopiedIsTheImage
  <2>1. Asked = SubSeq(Setup.disk, 0 + 1, Min({0 + 0, Len(Setup.disk)}))
    BY <1>1 DEF Asked, NoReq
  <2>2. 0 <= Len(SubSeq(Setup.disk, 0 + 1, Min({0 + 0, Len(Setup.disk)})))
    BY <1>1, AskedLength
  <2>. QED BY <1>2, <2>1, <2>2 DEF CopiedIsTheImage
<1>. QED BY <1>1, <1>2, <1>3 DEF DeliverInv, PlaceInv, ComesInv, CopiedInv, RestInv, CompleteInv,
                                 Reading, Called, FailuresHaveACause

\* Outside of reads nothing has been copied.
LEMMA EmptyDelivers ==
  ASSUME Ready, setup \in DOMAIN Setups, UNCHANGED setup,
         req' \in [offset : Nat, count : Nat], out' = <<>>,
         pc' \in {"open", "failed", "idle", "ended"}, ret' = "none"
  PROVE  DeliverInv'
<1>1. CopiedIsTheImage' /\ Sequence(out)'
  BY NothingCopied
<1>. QED BY <1>1 DEF DeliverInv, PlaceInv, ComesInv, CopiedInv, RestInv, CompleteInv,
                     Reading, Called, FailuresHaveACause

LEMMA StartDelivers ==
  ASSUME Ready, ReadsInv, DeliverInv, OpenImage \/ OpenFault \/ Morph \/ MorphFault
  PROVE  DeliverInv'
<1>1. /\ pc = "open" /\ UNCHANGED <<setup, req, out, ret>>
      /\ pc' \in {"open", "failed", "idle"}
  BY DEF OpenImage, OpenFault, Morph, MorphFault, Unread
<1>2. ret = "none" /\ out = <<>> /\ setup \in DOMAIN Setups /\ req \in [offset : Nat, count : Nat]
  BY <1>1 DEF DeliverInv, RestInv, ReadsInv, MountInv, RequestInv
<1>. QED BY <1>1, <1>2, EmptyDelivers

LEMMA EndDelivers == ASSUME Ready, ReadsInv, End PROVE DeliverInv'
<1>1. /\ pc' = "ended" /\ req' = NoReq /\ out' = <<>> /\ ret' = "none" /\ UNCHANGED setup
  BY DEF End
<1>2. setup \in DOMAIN Setups /\ NoReq \in [offset : Nat, count : Nat]
  BY DEF ReadsInv, MountInv, NoReq
<1>. QED BY <1>1, <1>2, EmptyDelivers

-----------------------------------------------------------------------------
(* The turns of the morphing library's loop                                *)

\* Requests that do not fit the units are only asked where they do no harm:
\* joining images and dealing them out again, xmount may be asked for anything.
RequestsFit ==
  AnyRequest => \A s \in DOMAIN Setups : Setups[s].morph \in {"combine", "raid"}

LEMMA RequestDelivers ==
  ASSUME Ready, RequestsFit, ReadsInv, NEW offset \in Nat, NEW count \in Nat,
         Request(offset, count)
  PROVE  DeliverInv'
<1>1. /\ pc = "idle" /\ Askable(offset, count) /\ req' = [offset |-> offset, count |-> count]
      /\ out' = <<>> /\ UNCHANGED <<setup, sizes, morph>>
  BY DEF Request, Static
<1>2. Started
  BY <1>1 DEF Started
<1>3. /\ Mounted /\ Servable(Setup) /\ morph = Morphed /\ setup \in DOMAIN Setups
      /\ morph.size = Len(Setup.disk)
  <2>1. Mounted /\ Servable(Setup) /\ morph = Morphed
    BY <1>2, StartedServable, StartedMounted DEF ReadsInv, Ready, TakenRight
  <2>. QED BY <2>1, SizeIsTheDisk DEF Mounted
<1>4. req' \in [offset : Nat, count : Nat] /\ req'.offset = offset /\ req'.count = count
  BY <1>1
<1>5. CopiedIsTheImage' /\ Sequence(out)' /\ (offset >= Len(Setup.disk) => out' = Asked')
  BY <1>1, <1>3, <1>4, NothingCopied
<1>6. PICK size \in Nat : size = morph.size
  BY DEF ReadsInv, MountInv
<1>7. CASE offset >= size
  <2>1. pc' = "idle" /\ ret' = "ok"
    BY <1>6, <1>7 DEF Request, Finish
  <2>. QED BY <1>3, <1>5, <1>6, <1>7, <2>1
       DEF DeliverInv, PlaceInv, ComesInv, CopiedInv, RestInv, CompleteInv, Reading, Called,
           FailuresHaveACause
<1>8. CASE offset < size
  <2>1. PICK n \in Nat : /\ n = Min({count, size - offset}) /\ offset + n <= size
                         /\ n = count \/ n = size - offset
    <3>1. Min({count, size - offset}) = IF count <= size - offset THEN count ELSE size - offset
      <4>1. count \in Int /\ size - offset \in Int
        OBVIOUS
      <4>. QED BY <4>1, MinOfTwo
    <3>. QED BY <1>8, <3>1
  <2>2. /\ pc' = "morphing"
        /\ at' = CASE Setup.morph = "combine" -> CombineStart(sizes, offset, n)
                   [] Setup.morph = "swab" -> SwabStart(offset, n)
                   [] OTHER -> UnitStart(morph.unit, offset, n)
    <3>1. ~(offset >= size)
      BY <1>8
    <3>. QED BY <1>6, <2>1, <3>1 DEF Request
  <2>3. Setup.morph \in {"combine", "raid", "swab", "unallocated"}
    BY <1>3, Units
  <2>4. at'.left = n
    BY <2>2, <2>3 DEF CombineStart, SwabStart, UnitStart
  <2>5. Asking' = n
    <3>1. morph'.size = size
      BY <1>1, <1>6
    <3>. QED BY <1>4, <2>1, <3>1 DEF Asking
  <2>6. Done' = 0 /\ req'.offset + Done' = offset
    <3>1. Done' = n - n
      BY <2>4, <2>5 DEF Done
    <3>. QED BY <1>4, <3>1
  <2>7. OnTheWay(at', offset)
    <3>1. Setup.morph = "unallocated" => offset % morph.unit = 0
      BY <1>1, <1>3 DEF Askable, RequestsFit, Setup
    <3>. QED BY <1>3, <1>6, <1>8, <2>2, <2>3, <3>1, BeginsOnTheWay
  <2>8. OnTheWay(at, req.offset + Done)'
    <3>1. PICK a, place : a = at' /\ place = offset
      OBVIOUS
    <3>2. OnTheWay(a, place)'
      BY <1>1, <2>7, <3>1 DEF OnTheWay, Setup
    <3>. QED BY <2>6, <3>1, <3>2 DEF OnTheWay
  <2>9. Setup.morph = "swab" => offset % 2 = 0 /\ n % 2 = 0
    <3>. SUFFICES ASSUME Setup.morph = "swab" PROVE offset % 2 = 0 /\ n % 2 = 0
      OBVIOUS
    <3>1. offset % 2 = 0 /\ count % 2 = 0
      BY <1>1, <1>3 DEF Askable, RequestsFit, Setup
    <3>2. size % 2 = 0
      BY <1>3, <1>6, MountDescribed DEF Described, IsTheDisk, Swapped
    <3>. QED BY <1>8, <2>1, <3>1, <3>2
  <2>10. Setup' = Setup
    BY <1>1 DEF Setup
  <2>11. PlaceInv'
    <3>1. req'.offset < morph'.size
      BY <1>1, <1>4, <1>6, <1>8
    <3>2. at'.left <= Asking' /\ at'.left = Asking'
      BY <2>4, <2>5
    <3>. QED BY <1>4, <2>2, <2>5, <2>8, <2>9, <2>10, <3>1, <3>2 DEF PlaceInv
  <2>12. Len(out') = 0 /\ 1..0 = {}
    BY <1>1, EmptySequence
  <2>13. CopiedInv'
    BY <1>5, <2>2, <2>6, <2>12 DEF CopiedInv, Called
  <2>. QED BY <2>2, <2>11, <2>13 DEF DeliverInv, ComesInv, RestInv, CompleteInv, Reading, Called,
                                     FailuresHaveACause
<1>. QED BY <1>6, <1>7, <1>8

LEMMA MorphDoneDelivers ==
  ASSUME Ready, ReadsInv, DeliverInv, MorphDone PROVE DeliverInv'
<1>1. /\ pc = "morphing" /\ ~MorphLeft /\ pc' = "idle"
      /\ ret' = IF at.left = 0 THEN "ok" ELSE "error"
      /\ UNCHANGED <<setup, sizes, morph, req, out>>
  BY DEF MorphDone, Finish, Static
<1>2. Started /\ pc \in Reading /\ req.offset < morph.size
  BY <1>1 DEF Started, Reading, DeliverInv, PlaceInv
<1>3. at.left = 0
  BY <1>1, <1>2 DEF MorphLeft, DeliverInv, PlaceInv, OnTheWay
<1>4. PICK n \in Nat : n = Asking /\ Len(Asked) = n /\ Sequence(Asked)
                       /\ \A k \in 1..n : Asked[k] = Setup.disk[req.offset + k]
  BY <1>2, AskedIs
<1>5. Len(out) = n
  BY <1>1, <1>3, <1>4 DEF DeliverInv, CopiedInv, Done
<1>6. Sequence(out)
  BY DEF DeliverInv, CopiedInv
<1>7. \A k \in 1..Len(out) : out[k] = Setup.disk[req.offset + k]
  BY <1>1, <1>3 DEF DeliverInv, CopiedInv, Wanted
<1>8. out = Asked
  BY <1>4, <1>5, <1>6, <1>7, SameSequence
<1>9. out' = Asked'
  BY <1>1, <1>8, SameRead
<1>10. CopiedIsTheImage'
  <2>1. CopiedIsTheImage
    BY <1>2, CopiedSoFar
  <2>. QED BY <1>1, <2>1, SameRead DEF CopiedIsTheImage
<1>11. Sequence(out)'
  BY <1>1, <1>6 DEF Sequence
<1>. QED BY <1>1, <1>3, <1>9, <1>10, <1>11
     DEF DeliverInv, PlaceInv, ComesInv, CopiedInv, RestInv, CompleteInv, Reading, Called,
         FailuresHaveACause

\* What a turn asks of the image, if there is something to be had there.
LEMMA MorphCallDelivers ==
  ASSUME Ready, ReadsInv, DeliverInv, MorphCall PROVE DeliverInv'
<1>1. /\ pc = "morphing" /\ MorphLeft /\ pc \in Reading
      /\ UNCHANGED <<setup, sizes, morph, req, at, out, met, bad, aaff>>
  BY DEF MorphCall, Static, Reading
<1>2. PICK step, place : step = MorphStep /\ place = req.offset + Done
  OBVIOUS
<1>3. /\ StepType(step, at) /\ StepRight(step, place) /\ at.left # 0
      /\ Done \in Nat /\ Asking = Done + at.left
  BY <1>1, <1>2, MorphStepRight DEF DeliverInv
<1>4. PICK image \in 0..(Len(sizes) - 1), offset \in Nat, count \in Nat :
        image = step.image /\ offset = step.offset /\ count = step.count
  BY <1>3 DEF StepType, StepRight
<1>5. PICK size \in Nat : size = sizes[image + 1] /\ image < Len(sizes)
                          /\ (count = 0 => offset >= size)
  <2>1. sizes \in Seq(Nat) /\ image + 1 \in 1..Len(sizes) /\ image < Len(sizes)
    BY DEF ReadsInv, MountInv
  <2>. QED BY <1>3, <1>4, <2>1 DEF StepType
<1>6. /\ Started /\ setup \in DOMAIN Setups /\ req.offset < morph.size
      /\ Len(sizes) = Len(Images) /\ sizes \in Seq(Nat)
  BY <1>1 DEF Started, ReadsInv, MountInv, DeliverInv, PlaceInv
<1>7. Setup.whole => offset + count <= size
  BY <1>3, <1>4, <1>5 DEF StepRight
<1>8. PICK done \in Nat, o \in Nat : done = Done /\ o = req.offset /\ place = o + done
  BY <1>2, <1>3, <1>6, AskedIs
<1>9. /\ Sequence(out) /\ Len(out) = done
      /\ \A k \in 1..Len(out) : out[k] = Wanted(k) /\ There(k)
  BY <1>1, <1>3, <1>8 DEF DeliverInv, CopiedInv
<1>10. /\ Setup' = Setup /\ Asking' = Asking /\ Done' = Done /\ Sequence(out)'
       /\ \A k : Wanted(k)' = Wanted(k) /\ (There(k)' <=> There(k))
  <2>1. Asking' = Asking /\ Setup' = Setup
    BY <1>1, SameRead
  <2>2. Done' = Done
    BY <1>1, <2>1 DEF Done
  <2>3. Sequence(out)'
    BY <1>1, <1>9 DEF Sequence
  <2>. QED BY <1>1, <2>1, <2>2, <2>3, SameRead
<1>11. ASSUME pc' \in Called PROVE PlaceInv'
  <2>1. OnTheWay(at, req.offset + Done)'
    <3>1. OnTheWay(at, place)
      BY <1>1, <1>2, <1>3 DEF DeliverInv, PlaceInv
    <3>2. PICK a : a = at
      OBVIOUS
    <3>3. OnTheWay(a, place)'
      BY <1>1, <3>1, <3>2, SameRead
    <3>. QED BY <1>1, <1>2, <1>10, <3>2, <3>3 DEF OnTheWay
  <2>. QED BY <1>1, <1>10, <2>1 DEF DeliverInv, PlaceInv
<1>12. ASSUME pc' \in Called PROVE RestInv' /\ FailuresHaveACause'
  BY <1>12 DEF RestInv, FailuresHaveACause, Called, Reading
<1>13. CASE offset >= size
  <2>1. in' = [NoIn EXCEPT !.asked = count] /\ pc' = "back"
    <3>1. ~(image >= Len(sizes))
      BY <1>5, <1>6
    <3>. QED BY <1>2, <1>4, <1>5, <1>13, <3>1 DEF MorphCall
  <2>2. in'.asked = count /\ in'.left = 0 /\ in'.got = 0
    BY <2>1 DEF NoIn
  <2>3. Len(out') = Done' + (in'.got - in'.left)
    <3>1. done + (0 - 0) = done
      OBVIOUS
    <3>. QED BY <1>1, <1>8, <1>9, <1>10, <2>2, <3>1
  <2>4. CopiedInv'
    BY <1>1, <1>3, <1>9, <1>10, <2>1, <2>2, <2>3 DEF CopiedInv, Called
  <2>5. Setup.whole => in'.got = in'.asked
    BY <1>7, <1>13, <2>2
  <2>6. pc' \in Called
    BY <2>1 DEF Called
  <2>. QED BY <1>10, <1>11, <1>12, <2>1, <2>4, <2>5, <2>6 DEF DeliverInv, ComesInv, CompleteInv
<1>14. CASE offset < size
  <2>1. PICK n \in Nat : /\ n = Min({count, size - offset}) /\ offset + n <= size /\ n <= count
                         /\ n = count \/ offset + n = size
    <3>1. Min({count, size - offset}) = IF count <= size - offset THEN count ELSE size - offset
      <4>1. count \in Int /\ size - offset \in Int
        OBVIOUS
      <4>. QED BY <4>1, MinOfTwo
    <3>. QED BY <1>14, <3>1
  <2>2. n # 0
    BY <1>5, <1>14, <2>1
  <2>3. PICK skip \in Nat, seek \in Nat : skip = Setup.offset /\ seek = offset + skip
    <3>1. Setup.offset \in Nat
      BY <1>6, SetupMakesSense DEF MountMakesSense
    <3>. QED BY <3>1
  <2>a. seek = offset + skip /\ place = o + done
    BY <1>8, <2>3
  <2>b. offset + n <= size
    BY <2>1
  <2>4. PICK first : first = IF Format(image) = "aaff" THEN seek \div File(image).pageSize ELSE 0
    OBVIOUS
  <2>5. /\ in' = [image |-> image, seek |-> seek, left |-> n, asked |-> count, got |-> n,
                  hops |-> 0, page |-> first]
        /\ pc' = IF Format(image) = "aaff" THEN "page" ELSE "input"
    <3>1. ~(image >= Len(sizes)) /\ ~(offset >= size)
      BY <1>5, <1>6, <1>14
    <3>. QED BY <1>2, <1>4, <1>5, <2>1, <2>3, <2>4, <3>1 DEF MorphCall
  <2>6. /\ in'.image = image /\ in'.seek = seek /\ in'.left = n /\ in'.got = n
        /\ in'.asked = count
    BY <2>5
  <2>7. pc' \in {"page", "input"} /\ pc' \in Called
    BY <2>5 DEF Called
  <2>8. n - n = 0 /\ done + 0 = done /\ seek + 0 = seek
    OBVIOUS
  <2>9. Cursor' = seek
    BY <2>6, <2>8 DEF Cursor
  <2>10. Comes(image, seek, Len(out), n)
    <3>. SUFFICES ASSUME NEW k \in 1..n, Readable(Images[image + 1], seek + k - 1)
                  PROVE  Wanted(Len(out) + k) = Byte(Images[image + 1], seek + k - 1)
      BY DEF Comes
    <3>1. CASE Setup.morph = "swab"
      <4>1. image = 0 /\ offset = place /\ done = 0
        <5>1. image = 0 /\ offset = place
          BY <1>3, <1>4, <3>1 DEF StepRight
        <5>2. at.left = Asking
          BY <1>1, <1>3, <3>1 DEF DeliverInv, PlaceInv
        <5>3. at.left \in Nat
          BY DEF ReadsInv, RequestInv, IsAt
        <5>. QED BY <1>3, <1>8, <5>1, <5>2, <5>3
      <4>2. seek + k - 1 = skip + o + (0 + k) - 1
        BY <1>8, <2>3, <4>1
      <4>3. Wanted(0 + k) = Byte(Images[1], Setup.offset + req.offset + (0 + k) - 1)
        BY <3>1 DEF Wanted
      <4>. QED BY <1>8, <1>9, <2>3, <4>1, <4>2, <4>3
    <3>2. CASE Setup.morph # "swab"
      <4>1. k \in 1..count /\ offset + k <= size
        BY <2>1
      <4>2. Shows(Setup, place + k - 1, image, offset + k - 1)
        BY <1>3, <1>4, <1>5, <3>2, <4>1 DEF StepRight
      <4>3. /\ skip + (offset + k - 1) = seek + k - 1
            /\ place + k - 1 + 1 = o + (done + k)
        BY <2>a
      <4>4. Setup.disk[o + (done + k)] = Byte(Images[image + 1], seek + k - 1)
        BY <2>3, <4>2, <4>3 DEF Shows, Images
      <4>. QED BY <1>8, <1>9, <3>2, <4>4 DEF Wanted
    <3>. QED BY <3>1, <3>2
  <2>11. Comes(in.image, Cursor, Len(out), in.left)'
    <3>1. PICK l : l = Len(out)
      OBVIOUS
    <3>2. Comes(image, seek, l, n)'
      BY <1>1, <2>10, <3>1, SameRead
    <3>. QED BY <1>1, <2>6, <2>9, <3>1, <3>2 DEF Comes
  <2>12. Setup.morph = "swab" => /\ image = 0 /\ seek = skip + o + Len(out)
                                 /\ o + n <= sizes[1]
    <3>. SUFFICES ASSUME Setup.morph = "swab"
                  PROVE  image = 0 /\ seek = skip + o + Len(out) /\ o + n <= sizes[1]
      OBVIOUS
    <3>1. image = 0 /\ offset = place
      BY <1>3, <1>4 DEF StepRight
    <3>2. size = sizes[1]
      BY <1>5, <3>1
    <3>3. seek = skip + o + done /\ o + n <= size
      <4>1. seek = skip + o + done /\ offset = o + done
        BY <2>a, <3>1
      <4>. QED BY <2>b, <4>1
    <3>. QED BY <1>9, <3>1, <3>2, <3>3
  <2>13. seek + n <= Size(image)
    <3>1. image + 1 \in 1..Len(sizes) /\ image + 1 - 1 = image
      BY <1>6
    <3>2. size + skip <= Size(image)
      BY <1>5, <2>3, <3>1 DEF ReadsInv, MountInv
    <3>3. PICK t \in Nat : t = Size(image)
      BY <1>6, ImageMakesSense
    <3>4. size + skip <= t
      BY <3>2, <3>3
    <3>5. seek + n <= t
      BY <2>a, <2>b, <3>4
    <3>. QED BY <3>3, <3>5
  <2>14. Size(in.image)' = Size(image)
    BY <1>1, <2>6 DEF Size, ImageSize, Images, Setup
  <2>15. ComesInv'
    <3>1. Setup'.morph = "swab" =>
            in'.image = 0 /\ Cursor' = Setup'.offset + req'.offset + Len(out')
      BY <1>1, <1>8, <1>10, <2>3, <2>6, <2>9, <2>12
    <3>2. in'.left = in'.got /\ in'.left # 0 /\ in'.seek + in'.got <= Size(in.image)'
      BY <2>2, <2>6, <2>13, <2>14
    <3>. QED BY <2>11, <3>1, <3>2 DEF ComesInv
  <2>16. Len(out') = Done' + (in'.got - in'.left)
    BY <1>1, <1>8, <1>9, <1>10, <2>6, <2>8
  <2>17. CopiedInv'
    <3>1. Setup'.morph = "swab" => req'.offset + in'.got <= sizes'[1]
      BY <1>1, <1>8, <1>10, <2>6, <2>12
    <3>. QED BY <1>1, <1>3, <1>9, <1>10, <2>7, <2>16, <3>1 DEF CopiedInv
  <2>18. Setup.whole => in'.got = in'.asked
    <3>1. Setup.whole => n = count
      BY <1>7, <2>1
    <3>. QED BY <2>6, <3>1
  <2>. QED BY <1>10, <1>11, <1>12, <2>7, <2>15, <2>17, <2>18 DEF DeliverInv, CompleteInv
<1>. QED BY <1>5, <1>13, <1>14

\* The pairs of bytes are swapped into the order of the disk.
LEMMA PairsSwapped ==
  ASSUME Ready, setup \in DOMAIN Setups, Servable(Setup), Setup.morph = "swab",
         Remaining(Setup) = sizes, sizes[1] \in Nat, Setup.offset \in Nat,
         req.offset \in Nat, req.offset % 2 = 0, NEW n \in Nat, n % 2 = 0,
         req.offset + n <= Len(Setup.disk), req.offset + n <= sizes[1],
         Sequence(out), Len(out) = n, \A k \in 1..n : out[k] = Wanted(k) /\ There(k),
         NEW behind
  PROVE  LET s == SwabBytes(out, n, behind)
         IN /\ Sequence(s) /\ Len(s) = n
            /\ \A k \in 1..n : s[k] = Setup.disk[req.offset + k]
<1>1. PICK s : s = SwabBytes(out, n, behind)
  OBVIOUS
<1>2. /\ DOMAIN s = 1..n
      /\ \A k \in 1..n : s[k] = IF k % 2 = 0 THEN out[k - 1]
                                ELSE IF k = n THEN behind ELSE out[k + 1]
      /\ s = [k \in 1..n |-> s[k]]
  BY <1>1 DEF SwabBytes
<1>3. Sequence(s) /\ Len(s) = n
  BY <1>2, FunctionSequence
<1>4. PICK o \in Nat, skip \in Nat, l \in Nat, part \in Nat :
        /\ o = req.offset /\ skip = Setup.offset /\ l = Len(Setup.disk) /\ part = sizes[1]
        /\ o % 2 = 0 /\ o + n <= l /\ o + n <= part
  <2>1. Len(Setup.disk) \in Nat
    BY DiskSequence DEF Sequence
  <2>. QED BY <2>1
<1>a. o % 2 = 0 /\ o + n <= l /\ o + n <= part
  BY <1>4
<1>5. \A p \in 0..(l - 1) :
        p < part => Shows(Setup, IF p % 2 = 0 THEN p + 1 ELSE p - 1, 0, p)
  BY <1>4, MountDescribed DEF Described, IsTheDisk, Swapped
<1>6. ASSUME NEW k \in 1..n, NEW j \in 1..n, NEW p \in Nat, p = o + j - 1,
             (IF p % 2 = 0 THEN p + 1 ELSE p - 1) + 1 = o + k
      PROVE  out[j] = Setup.disk[o + k]
  <2>1. p \in 0..(l - 1) /\ p < part
    <3>1. p = o + j - 1
      BY <1>6
    <3>. QED BY <1>a, <3>1
  <2>2. Shows(Setup, IF p % 2 = 0 THEN p + 1 ELSE p - 1, 0, p)
    BY <1>5, <2>1
  <2>3. skip + p = skip + o + j - 1 /\ 0 + 1 = 1
    BY <1>6
  <2>4. Readable(Images[1], skip + p)
    BY <1>4, <2>3 DEF There
  <2>5. Setup.disk[o + k] = Byte(Images[1], skip + p)
    BY <1>4, <1>6, <2>2, <2>3, <2>4 DEF Shows, Images
  <2>6. out[j] = Byte(Images[1], skip + p)
    BY <1>4, <2>3 DEF Wanted
  <2>. QED BY <2>5, <2>6
<1>7. ASSUME NEW k \in 1..n PROVE s[k] = Setup.disk[o + k]
  <2>1. CASE k % 2 = 0
    <3>1. PICK j \in 1..n, p \in Nat : j = k - 1 /\ p = o + j - 1
      <4>1. k - 1 \in 1..n /\ o + (k - 1) - 1 \in Nat
        BY <2>1
      <4>. QED BY <4>1
    <3>2. p % 2 = 0 /\ p + 1 + 1 = o + k
      BY <1>a, <2>1, <3>1
    <3>3. out[j] = Setup.disk[o + k]
      BY <1>6, <3>1, <3>2
    <3>. QED BY <1>2, <2>1, <3>1, <3>3
  <2>2. CASE k % 2 # 0
    <3>1. k # n
      BY <2>2
    <3>2. PICK j \in 1..n, p \in Nat : j = k + 1 /\ p = o + j - 1
      <4>1. k + 1 \in 1..n /\ o + (k + 1) - 1 \in Nat
        BY <3>1
      <4>. QED BY <4>1
    <3>3. p % 2 # 0 /\ p - 1 + 1 = o + k
      BY <1>a, <2>2, <3>2
    <3>4. out[j] = Setup.disk[o + k]
      BY <1>6, <3>2, <3>3
    <3>. QED BY <1>2, <2>2, <3>1, <3>2, <3>4
  <2>. QED BY <2>1, <2>2
<1>. QED BY <1>1, <1>3, <1>4, <1>7

LEMMA MorphBackDelivers ==
  ASSUME Ready, ReadsInv, DeliverInv, MorphBack PROVE DeliverInv'
<1>1. /\ pc = "back" /\ pc \in Reading /\ pc \in Called
      /\ UNCHANGED <<setup, sizes, morph, req, in, met, bad, aaff>>
  BY DEF MorphBack, Static, Reading, Called
<1>2. MorphLeft /\ in.asked = MorphStep.count
  BY <1>1 DEF ReadsInv, RequestInv, Reading
<1>3. PICK step, place : step = MorphStep /\ place = req.offset + Done
  OBVIOUS
<1>4. /\ StepType(step, at) /\ StepRight(step, place) /\ at.left # 0
      /\ Done \in Nat /\ Asking = Done + at.left
      /\ at \in [unit : Nat, ofs : Nat, left : Nat]
      /\ Setup.morph # "swab" /\ at.left - step.count # 0 =>
           OnTheWay(After(at, step.count), place + step.count)
  BY <1>1, <1>2, <1>3, MorphStepRight DEF DeliverInv
<1>5. PICK done \in Nat, l \in Nat, c \in Nat, g \in Nat :
        done = Done /\ l = at.left /\ c = in.asked /\ c = step.count /\ g = in.got
  BY <1>2, <1>3, <1>4 DEF StepType, ReadsInv, InputInv
<1>6. /\ Started /\ setup \in DOMAIN Setups /\ req.offset < morph.size
      /\ Len(sizes) = Len(Images) /\ sizes \in Seq(Nat)
  BY <1>1 DEF Started, ReadsInv, MountInv, DeliverInv, PlaceInv
<1>7. Sequence(out) /\ Len(out) = done + g
  <2>1. in.left = 0 /\ Len(out) = Done + (in.got - in.left)
    BY <1>1 DEF DeliverInv, CopiedInv
  <2>2. Len(out) = done + (g - 0)
    BY <1>5, <2>1
  <2>. QED BY <2>2 DEF DeliverInv, CopiedInv
<1>8. \A k \in 1..Len(out) : out[k] = Wanted(k) /\ There(k)
  BY <1>1, <1>4 DEF DeliverInv, CopiedInv
<1>9. /\ Setup' = Setup /\ Asking' = Asking
      /\ \A k : Wanted(k)' = Wanted(k) /\ (There(k)' <=> There(k))
  BY <1>1, SameRead
<1>10. CASE in.got # in.asked
  <2>1. pc' = "idle" /\ ret' = "error" /\ UNCHANGED <<at, out>>
    BY <1>10 DEF MorphBack, Finish
  <2>2. ~Setup.whole
    BY <1>1, <1>10 DEF DeliverInv, CompleteInv
  <2>3. FailuresHaveACause'
    BY <1>9, <2>2 DEF FailuresHaveACause
  <2>. QED BY <1>1, <2>1, <2>3, ReadFails
<1>11. CASE in.got = in.asked /\ Setup.morph # "swab"
  <2>1. pc' = "morphing" /\ out' = out /\ at' = After(at, c)
    BY <1>5, <1>11 DEF MorphBack, After
  <2>2. c <= l /\ g = c
    <3>1. step.count \in 0..at.left
      BY <1>4, <1>11 DEF StepType
    <3>2. c \in 0..l
      BY <1>5, <3>1
    <3>3. c <= l
      BY <3>2
    <3>4. g = c
      BY <1>5, <1>11
    <3>. QED BY <3>3, <3>4
  <2>3. at'.left = l - c /\ Done' = done + c
    <3>1. at'.left = l - c
      BY <1>5, <2>1 DEF After
    <3>2. Asking' = done + l
      BY <1>4, <1>5, <1>9
    <3>3. done + l - (l - c) = done + c
      OBVIOUS
    <3>. QED BY <3>1, <3>2, <3>3 DEF Done
  <2>4. PlaceInv'
    <3>1. at'.left <= Asking'
      BY <1>4, <1>5, <1>9, <2>2, <2>3
    <3>2. at'.left # 0 => OnTheWay(at, req.offset + Done)'
      <4>. SUFFICES ASSUME at'.left # 0 PROVE OnTheWay(at, req.offset + Done)'
        OBVIOUS
      <4>1. at.left - step.count # 0
        BY <1>5, <2>3
      <4>2. OnTheWay(After(at, c), place + c)
        BY <1>4, <1>5, <1>11, <4>1
      <4>3. PICK o \in Nat : o = req.offset /\ place = o + done
        BY <1>3, <1>5, <1>6, AskedIs
      <4>4. req'.offset + Done' = place + c
        BY <1>1, <2>3, <4>3
      <4>5. PICK a, p : a = at' /\ p = place + c
        OBVIOUS
      <4>6. OnTheWay(a, p)
        BY <2>1, <4>2, <4>5
      <4>7. OnTheWay(a, p)'
        BY <1>1, <4>6, SameRead
      <4>. QED BY <4>4, <4>5, <4>7 DEF OnTheWay
    <3>. QED BY <1>1, <1>6, <1>9, <1>11, <3>1, <3>2 DEF PlaceInv
  <2>5. Sequence(out)'
    BY <1>7, <2>1 DEF Sequence
  <2>6. Len(out') = Done'
    BY <1>7, <2>1, <2>2, <2>3
  <2>7. CopiedInv'
    BY <1>8, <1>9, <1>11, <2>1, <2>5, <2>6 DEF CopiedInv, Called
  <2>. QED BY <2>1, <2>4, <2>7 DEF DeliverInv, ComesInv, RestInv, CompleteInv, Reading, Called,
                                   FailuresHaveACause
<1>12. CASE in.got = in.asked /\ Setup.morph = "swab"
  <2>1. PICK behind : out' = SwabBytes(out, at.left, behind)
    BY <1>12 DEF MorphBack
  <2>2. pc' = "morphing" /\ at' = [at EXCEPT !.left = 0]
    BY <1>12 DEF MorphBack
  <2>3. c = l /\ g = l /\ done = 0 /\ l = Asking /\ l # 0
    <3>1. c = l
      BY <1>4, <1>5, <1>12 DEF StepRight
    <3>2. l = Asking
      BY <1>1, <1>4, <1>5, <1>12 DEF DeliverInv, PlaceInv
    <3>3. Asking = done + l
      BY <1>4, <1>5
    <3>4. l # 0 /\ g = c
      BY <1>4, <1>5, <1>12
    <3>5. l = done + l
      BY <3>2, <3>3
    <3>6. done = 0
      BY <3>5
    <3>. QED BY <3>1, <3>2, <3>4, <3>6
  <2>4. at'.left = 0 /\ Done' = l
    <3>1. at'.left = 0
      BY <1>4, <2>2
    <3>2. Done' = l - 0
      BY <1>9, <2>3, <3>1 DEF Done
    <3>. QED BY <3>1, <3>2
  <2>5. PlaceInv'
    <3>1. at'.left <= Asking'
      BY <1>9, <2>3, <2>4
    <3>. QED BY <1>1, <1>9, <2>4, <3>1 DEF DeliverInv, PlaceInv
  <2>6. /\ Sequence(out') /\ Len(out') = l
        /\ \A k \in 1..l : out'[k] = Setup.disk[req.offset + k]
    <3>1. Len(out) = l /\ out' = SwabBytes(out, l, behind)
      BY <1>5, <1>7, <2>1, <2>3
    <3>2. Mounted /\ Servable(Setup) /\ Remaining(Setup) = sizes
      <4>1. Mounted /\ Servable(Setup) /\ SizesRead(Setup)
        BY <1>6, StartedServable DEF Ready, TakenRight
      <4>. QED BY <4>1, SizesRemain
    <3>3. /\ req.offset \in Nat /\ req.offset % 2 = 0 /\ l % 2 = 0
          /\ req.offset + l <= Len(Setup.disk)
      BY <1>1, <1>6, <1>12, <2>3, AskedIs DEF DeliverInv, PlaceInv
    <3>4. req.offset + l <= sizes[1]
      BY <1>1, <1>5, <1>12, <2>3 DEF DeliverInv, CopiedInv
    <3>5. sizes[1] \in Nat
      <4>1. step.image \in 0..(Len(sizes) - 1)
        BY <1>4 DEF StepRight
      <4>2. 1 \in 1..Len(sizes)
        BY <1>6, <4>1
      <4>. QED BY <1>6, <4>2
    <3>6. Setup.offset \in Nat
      BY <1>6, SetupMakesSense DEF MountMakesSense
    <3>7. \A k \in 1..l : out[k] = Wanted(k) /\ There(k)
      BY <1>8, <3>1
    <3>. QED BY <1>6, <1>7, <1>12, <3>1, <3>2, <3>3, <3>4, <3>5, <3>6, <3>7, PairsSwapped
  <2>7. Sequence(out)'
    BY <2>6 DEF Sequence
  <2>8. CopiedInv'
    BY <1>1, <1>9, <1>12, <2>2, <2>4, <2>6, <2>7 DEF CopiedInv, Called
  <2>. QED BY <2>2, <2>5, <2>8 DEF DeliverInv, ComesInv, RestInv, CompleteInv, Reading, Called,
                                   FailuresHaveACause
<1>. QED BY <1>10, <1>11, <1>12

-----------------------------------------------------------------------------
(* What a read of an image copies                                          *)

LEMMA Concatenated ==
  ASSUME NEW s, NEW t, Sequence(s), Sequence(t)
  PROVE  /\ Sequence(s \o t) /\ Len(s) \in Nat /\ Len(t) \in Nat
         /\ Len(s \o t) = Len(s) + Len(t)
         /\ \A k \in 1..Len(s) : (s \o t)[k] = s[k]
         /\ \A k \in 1..Len(t) : (s \o t)[Len(s) + k] = t[k]
<1>1. PICK S, T : s \in Seq(S) /\ t \in Seq(T)
  BY DEF Sequence
<1>2. PICK U : U = S \cup T
  OBVIOUS
<1>3. s \in Seq(U) /\ t \in Seq(U)
  BY <1>1, <1>2
<1>4. PICK r : r = s \o t
  OBVIOUS
<1>5. /\ r \in Seq(U) /\ Len(r) = Len(s) + Len(t)
      /\ \A k \in 1..Len(s) : r[k] = s[k]
      /\ \A k \in 1..Len(t) : r[Len(s) + k] = t[k]
  BY <1>3, <1>4
<1>6. Sequence(r)
  BY <1>5 DEF Sequence
<1>. QED BY <1>1, <1>4, <1>5, <1>6

\* An image has nothing to go on with but what it came with.
LEMMA ComesOn ==
  ASSUME NEW image, NEW cursor \in Nat, NEW from \in Nat, NEW left \in Nat, NEW n \in 0..left,
         Comes(image, cursor, from, left)
  PROVE  Comes(image, cursor + n, from + n, left - n)
<1>. SUFFICES ASSUME NEW k \in 1..(left - n), Readable(Images[image + 1], cursor + n + k - 1)
              PROVE  Wanted(from + n + k) = Byte(Images[image + 1], cursor + n + k - 1)
  BY DEF Comes
<1>1. PICK j \in 1..left : j = n + k
  <2>1. n + k \in 1..left
    OBVIOUS
  <2>. QED BY <2>1
<1>2. cursor + j - 1 = cursor + n + k - 1 /\ from + j = from + n + k
  BY <1>1
<1>. QED BY <1>2 DEF Comes

LEMMA GoesOn ==
  ASSUME Ready, ReadsInv, DeliverInv, pc \in {"input", "page", "hop"}, pc' \in Called,
         UNCHANGED <<setup, sizes, morph, req, at>>,
         NEW data, Sequence(data), out' = out \o data, Len(data) <= in.left, Cursor \in Nat,
         in'.image = in.image, in'.got = in.got, in'.asked = in.asked,
         in'.left = in.left - Len(data), Cursor' = Cursor + Len(data)
  PROVE  /\ PlaceInv' /\ RestInv' /\ CompleteInv' /\ Sequence(out)'
         /\ Len(out') = Done' + (in'.got - in'.left)
         /\ Comes(in.image, Cursor, Len(out), in.left)'
         /\ Setup'.morph = "swab" =>
              /\ in'.image = 0 /\ Cursor' = Setup'.offset + req'.offset + Len(out')
              /\ in'.got # 0 => req'.offset + in'.got <= sizes'[1]
<1>1. /\ Setup' = Setup /\ Asking' = Asking /\ Done' = Done
      /\ \A image, cursor, from, n :
           Comes(image, cursor, from, n)' <=> Comes(image, cursor, from, n)
      /\ \A a, place : OnTheWay(a, place)' <=> OnTheWay(a, place)
  <2>1. Setup' = Setup /\ Asking' = Asking
    BY SameRead
  <2>2. Done' = Done
    BY <2>1 DEF Done
  <2>. QED BY <2>1, <2>2, SameRead
<1>2. pc \in Reading /\ pc \in Called
  BY DEF Reading, Called
<1>3. Sequence(out)
  BY DEF DeliverInv, CopiedInv
<1>4. PICK n \in Nat, m \in Nat, left \in Nat, got \in Nat, cursor \in Nat :
        /\ n = Len(data) /\ m = Len(out) /\ left = in.left /\ got = in.got /\ cursor = Cursor
        /\ n <= left /\ left <= got
  BY <1>3, Concatenated DEF ReadsInv, InputInv
<1>5. Len(out') = m + n /\ Sequence(out') /\ Sequence(out)'
  <2>1. Sequence(out') /\ Len(out') = m + n
    BY <1>3, <1>4, Concatenated
  <2>. QED BY <2>1 DEF Sequence
<1>6. PlaceInv'
  <2>1. at.left # 0 => OnTheWay(at, req.offset + Done)
    BY <1>2 DEF DeliverInv, PlaceInv
  <2>2. PICK a, place : a = at /\ place = req.offset + Done
    OBVIOUS
  <2>3. at.left # 0 => OnTheWay(a, place)'
    BY <1>1, <2>1, <2>2
  <2>4. at.left # 0 => OnTheWay(at, req.offset + Done)'
    BY <1>1, <2>2, <2>3 DEF OnTheWay
  <2>. QED BY <1>1, <1>2, <2>4 DEF DeliverInv, PlaceInv
<1>7. RestInv' /\ CompleteInv'
  <2>1. pc' \in Reading /\ pc' # "idle" /\ pc' # "open"
    BY DEF Called, Reading
  <2>2. Setup.whole => in'.got = in'.asked
    BY <1>2 DEF DeliverInv, CompleteInv
  <2>. QED BY <1>1, <2>1, <2>2 DEF RestInv, CompleteInv, FailuresHaveACause
<1>8. Len(out') = Done' + (in'.got - in'.left)
  <2>1. m = Done + (got - left) /\ Done = Asking - at.left
    BY <1>2, <1>4 DEF DeliverInv, CopiedInv, Done
  <2>2. Asking \in Int /\ at.left \in Int
    <3>1. Started /\ req.offset < morph.size
      BY <1>2 DEF Started, DeliverInv, PlaceInv
    <3>. QED BY <3>1, AskedIs DEF ReadsInv, RequestInv, IsAt
  <2>3. PICK d \in Int : d = Done
    BY <2>1, <2>2
  <2>4. m + n = d + (got - (left - n))
    BY <2>1, <2>3
  <2>. QED BY <1>1, <1>4, <1>5, <2>3, <2>4
<1>9. Comes(in.image, Cursor, Len(out), in.left)'
  <2>1. PICK image : image = in.image
    OBVIOUS
  <2>2. Comes(image, cursor, m, left)
    BY <1>4, <2>1 DEF DeliverInv, ComesInv
  <2>3. Comes(image, cursor + n, m + n, left - n)
    <3>1. n \in 0..left
      BY <1>4
    <3>. QED BY <2>2, <3>1, ComesOn
  <2>4. Comes(image, cursor + n, m + n, left - n)'
    BY <1>1, <2>3
  <2>5. in'.image = image /\ Cursor' = cursor + n /\ Len(out') = m + n /\ in'.left = left - n
    BY <1>4, <1>5, <2>1
  <2>. QED BY <2>4, <2>5 DEF Comes
<1>10. ASSUME Setup.morph = "swab"
       PROVE  /\ in'.image = 0 /\ Cursor' = Setup'.offset + req'.offset + Len(out')
              /\ in'.got # 0 => req'.offset + in'.got <= sizes'[1]
  <2>1. in.image = 0 /\ Cursor = Setup.offset + req.offset + Len(out)
    BY <1>10 DEF DeliverInv, ComesInv
  <2>2. PICK skip \in Nat, o \in Nat : skip = Setup.offset /\ o = req.offset
    BY SetupMakesSense DEF MountMakesSense, ReadsInv, MountInv, RequestInv
  <2>3. cursor + n = skip + o + (m + n)
    <3>1. cursor = skip + o + m
      BY <1>4, <2>1, <2>2
    <3>. QED BY <3>1
  <2>4. in.got # 0 => req.offset + in.got <= sizes[1]
    BY <1>2, <1>10 DEF DeliverInv, CopiedInv
  <2>. QED BY <1>1, <1>4, <1>5, <2>1, <2>2, <2>3, <2>4
<1>. QED BY <1>1, <1>5, <1>6, <1>7, <1>8, <1>9, <1>10

LEMMA InputStepDelivers ==
  ASSUME Ready, ReadsInv, DeliverInv, InputStep PROVE DeliverInv'
<1>1. /\ pc = "input" /\ pc \in Reading
      /\ UNCHANGED <<setup, sizes, morph, req, at, aaff, handles, twice>>
  BY DEF InputStep, Static, Reading
<1>2. Started /\ at.left # 0
  <2>1. Started
    BY <1>1 DEF Started
  <2>2. MorphLeft
    BY <1>1 DEF ReadsInv, RequestInv, Reading
  <2>. QED BY <1>1, <2>1, <2>2, MorphStepRight DEF DeliverInv
<1>3. Mounted /\ Servable(Setup)
  BY <1>2, StartedServable DEF Ready, TakenRight
<1>4. PICK i \in 0..(Len(sizes) - 1) : i = in.image
  BY <1>1 DEF ReadsInv, InputInv
<1>5. i \in 0..(Len(Images) - 1) /\ setup \in DOMAIN Setups /\ i + 1 \in 1..Len(sizes)
  BY <1>3, <1>4 DEF Mounted
<1>6. PICK left \in Nat, seek \in Nat, size \in Nat :
        left = in.left /\ seek = in.seek /\ size = Size(i) /\ seek + left <= size /\ left # 0
  <2>1. Size(i) \in Nat
    BY <1>5, ImageMakesSense
  <2>2. in.left \in Nat /\ in.seek \in Nat /\ in.seek + in.left <= Size(in.image)
    BY <1>1 DEF ReadsInv, InputInv
  <2>. QED BY <1>1, <1>4, <2>1, <2>2 DEF DeliverInv, ComesInv
<1>7. Format(i) # "aaff" /\ Opens(i)
  <2>1. i + 1 - 1 = i
    OBVIOUS
  <2>2. Opens(i)
    BY <1>5, <2>1 DEF ReadsInv, MountInv
  <2>. QED BY <1>1, <1>4, <2>2 DEF ReadsInv, InputInv
<1>8. PICK answer, image : answer = Read0(i, seek, left) /\ image = Images[i + 1]
  OBVIOUS
<1>9. /\ answer.ok => \A k \in 1..Len(answer.data) :
                        /\ Readable(image, seek + k - 1)
                        /\ answer.data[k] = Byte(image, seek + k - 1)
      /\ (\A k \in 1..left : Readable(image, seek + k - 1)) => answer.ok
  <2>1. left # 0 /\ seek + left <= Size(i)
    BY <1>6
  <2>2. LET a == Read0(i, seek, left)
            im == Images[i + 1]
        IN /\ a.ok => \A k \in 1..Len(a.data) :
                        /\ Readable(im, seek + k - 1)
                        /\ a.data[k] = Byte(im, seek + k - 1)
           /\ (\A k \in 1..left : Readable(im, seek + k - 1)) => a.ok
    BY <1>5, <1>7, <2>1, ReadDelivers
  <2>. QED BY <1>8, <2>2
<1>10. answer.ok => Len(answer.data) \in 0..left /\ Sequence(answer.data)
  BY <1>5, <1>7, <1>8, ReadAnswers DEF Answers
<1>11. Cursor = seek
  BY <1>4, <1>6, <1>7 DEF Cursor
<1>12. PICK fault \in Faults :
        \/ /\ pc' = "idle" /\ ret' = "error" /\ met' = (met \/ fault)
           /\ bad' = IF fault /\ Format(i) = "qcow" THEN bad \cup {i} ELSE bad
           /\ out' = out
           /\ \/ ~answer.ok \/ fault \/ (answer.io /\ i \in bad)
              \/ (Format(i) \in Looped /\ in.seek + in.left > Size(i))
        \/ /\ answer.ok /\ out' = out \o answer.data
           /\ in' = [in EXCEPT !.seek = @ + Len(answer.data), !.left = @ - Len(answer.data)]
           /\ pc' = IF in.left = Len(answer.data) THEN "back" ELSE "input"
  BY <1>4, <1>6, <1>8 DEF InputStep, Finish
<1>13. CASE /\ pc' = "idle" /\ ret' = "error" /\ met' = (met \/ fault)
            /\ bad' = IF fault /\ Format(i) = "qcow" THEN bad \cup {i} ELSE bad
            /\ out' = out
            /\ \/ ~answer.ok \/ fault \/ (answer.io /\ i \in bad)
               \/ (Format(i) \in Looped /\ in.seek + in.left > Size(i))
  <2>1. ~(in.seek + in.left > Size(i))
    <3>1. ~(seek + left > size)
      BY <1>6
    <3>. QED BY <1>6, <3>1
  <2>2. CASE ~answer.ok
    <3>1. ~Setup.whole
      <4>. SUFFICES ASSUME Setup.whole PROVE FALSE
        OBVIOUS
      <4>1. IsComplete(Setup)
        BY <1>3, <1>5, MountDescribed DEF Described
      <4>2. i + 1 \in DOMAIN Setup.images /\ image = Setup.images[i + 1]
            /\ Length(image) = size
        <5>1. DOMAIN Images = 1..Len(Images) /\ Len(Images) = Len(sizes)
          BY <1>3, <1>5, ImagesCount DEF Mounted
        <5>2. SizesRead(Setup)
          BY DEF Ready, TakenRight
        <5>3. Length(Images[i + 1]) = Size(i)
          BY <1>5, <5>2, LengthIs
        <5>. QED BY <1>5, <1>6, <1>8, <5>1, <5>3 DEF Images
      <4>3. \A p \in 0..(size - 1) : Readable(image, p)
        BY <4>1, <4>2 DEF IsComplete
      <4>4. \A k \in 1..left : seek + k - 1 \in 0..(size - 1)
        <5>1. seek + left <= size
          BY <1>6
        <5>. QED BY <5>1
      <4>. QED BY <1>9, <2>2, <4>3, <4>4
    <3>2. Setup' = Setup
      BY <1>1, SameRead
    <3>3. FailuresHaveACause'
      BY <3>1, <3>2 DEF FailuresHaveACause
    <3>. QED BY <1>1, <1>13, <3>3, ReadFails
  <2>3. CASE fault \/ i \in bad
    <3>1. met' \/ bad' # {}
      BY <1>13, <2>3
    <3>2. FailuresHaveACause'
      BY <3>1 DEF FailuresHaveACause
    <3>. QED BY <1>1, <1>13, <3>2, ReadFails
  <2>. QED BY <1>13, <2>1, <2>2, <2>3
<1>14. CASE /\ answer.ok /\ out' = out \o answer.data
            /\ in' = [in EXCEPT !.seek = @ + Len(answer.data), !.left = @ - Len(answer.data)]
            /\ pc' = IF in.left = Len(answer.data) THEN "back" ELSE "input"
  <2>1. PICK n \in Nat : n = Len(answer.data) /\ n <= left
    <3>1. Len(answer.data) \in 0..left
      BY <1>10, <1>14
    <3>2. Len(answer.data) \in Nat /\ Len(answer.data) <= left
      BY <3>1
    <3>. QED BY <3>2
  <2>2. /\ in'.image = in.image /\ in'.got = in.got /\ in'.asked = in.asked
        /\ in'.left = left - n /\ in'.seek = seek + n
    BY <1>6, <1>14, <2>1 DEF ReadsInv, InputInv
  <2>3. Cursor' = seek + n
    <3>1. Format(in.image)' # "aaff"
      BY <1>1, <1>4, <1>7, <2>2 DEF Format, Images, Setup
    <3>. QED BY <2>2, <3>1 DEF Cursor
  <2>4. pc' \in Called /\ pc' \in {"input", "back"}
    BY <1>14 DEF Called
  <2>5. /\ PlaceInv' /\ RestInv' /\ CompleteInv' /\ Sequence(out)'
        /\ Len(out') = Done' + (in'.got - in'.left)
        /\ Comes(in.image, Cursor, Len(out), in.left)'
        /\ Setup'.morph = "swab" =>
             /\ in'.image = 0 /\ Cursor' = Setup'.offset + req'.offset + Len(out')
             /\ in'.got # 0 => req'.offset + in'.got <= sizes'[1]
    BY <1>1, <1>6, <1>10, <1>11, <1>14, <2>1, <2>2, <2>3, <2>4, GoesOn
  <2>6. PICK m \in Nat : /\ m = Len(out) /\ Len(out') = m + n
                         /\ \A k \in 1..m : out'[k] = out[k]
                         /\ \A k \in 1..n : out'[m + k] = answer.data[k]
    <3>1. Sequence(out)
      BY DEF DeliverInv, CopiedInv
    <3>2. PICK t, r : t = answer.data /\ r = out'
      OBVIOUS
    <3>3. Sequence(t) /\ r = out \o t /\ n = Len(t)
      BY <1>10, <1>14, <2>1, <3>2
    <3>4. /\ Len(out) \in Nat /\ Len(r) = Len(out) + n
          /\ \A k \in 1..Len(out) : r[k] = out[k]
          /\ \A k \in 1..n : r[Len(out) + k] = t[k]
      BY <3>1, <3>3, Concatenated
    <3>. QED BY <3>2, <3>4
  <2>7. \A k \in 1..m : out[k] = Wanted(k) /\ There(k)
    BY <1>1, <1>2, <2>6 DEF DeliverInv, CopiedInv
  <2>8. ASSUME NEW k \in 1..n PROVE out'[m + k] = Wanted(m + k) /\ There(m + k)
    <3>1. Readable(image, seek + k - 1) /\ answer.data[k] = Byte(image, seek + k - 1)
      BY <1>9, <1>14, <2>1
    <3>2. Comes(i, seek, m, left)
      BY <1>1, <1>4, <1>6, <1>11, <2>6 DEF DeliverInv, ComesInv
    <3>3. k \in 1..left
      BY <2>1
    <3>4. Wanted(m + k) = Byte(image, seek + k - 1)
      BY <1>8, <3>1, <3>2, <3>3 DEF Comes
    <3>5. There(m + k)
      <4>. SUFFICES ASSUME Setup.morph = "swab"
                    PROVE  Readable(Images[1], Setup.offset + req.offset + (m + k) - 1)
        BY DEF There
      <4>1. i = 0 /\ seek = Setup.offset + req.offset + m
        BY <1>1, <1>4, <1>11, <2>6 DEF DeliverInv, ComesInv
      <4>2. PICK skip \in Nat, o \in Nat : skip = Setup.offset /\ o = req.offset
        BY <1>5, SetupMakesSense DEF MountMakesSense, ReadsInv, RequestInv
      <4>3. seek = skip + o + m
        BY <4>1, <4>2
      <4>4. skip + o + (m + k) - 1 = seek + k - 1 /\ 0 + 1 = 1
        BY <4>3
      <4>. QED BY <1>8, <3>1, <4>1, <4>2, <4>4
    <3>. QED BY <2>6, <3>1, <3>4, <3>5
  <2>9. \A k \in 1..Len(out') : out'[k] = Wanted(k) /\ There(k)
    <3>. SUFFICES ASSUME NEW k \in 1..(m + n) PROVE out'[k] = Wanted(k) /\ There(k)
      BY <2>6
    <3>1. CASE k \in 1..m
      BY <2>6, <2>7, <3>1
    <3>2. CASE k \notin 1..m
      <4>1. k - m \in 1..n /\ m + (k - m) = k
        BY <3>2
      <4>2. PICK j \in 1..n : m + j = k
        BY <4>1
      <4>. QED BY <2>8, <4>2
    <3>. QED BY <3>1, <3>2
  <2>10. CopiedInv'
    <3>1. /\ Setup' = Setup
          /\ \A k : Wanted(k)' = Wanted(k) /\ (There(k)' <=> There(k))
      BY <1>1, SameRead
    <3>2. pc' = "back" => in'.left = 0
      BY <1>6, <1>14, <2>1, <2>2
    <3>3. \A k \in 1..Len(out') : out'[k] = Wanted(k)' /\ There(k)'
      BY <2>9, <3>1
    <3>. QED BY <1>1, <1>2, <2>4, <2>5, <3>2, <3>3 DEF CopiedInv
  <2>11. ComesInv'
    <3>1. pc' = "input" => in'.left # 0
      <4>1. left # n => left - n # 0
        OBVIOUS
      <4>. QED BY <1>6, <1>14, <2>1, <2>2, <4>1
    <3>. QED BY <2>4, <2>5, <3>1 DEF ComesInv
  <2>. QED BY <2>5, <2>10, <2>11 DEF DeliverInv
<1>. QED BY <1>12, <1>13, <1>14

-----------------------------------------------------------------------------
(* A read of an AFF image                                                  *)

LEMMA PageEnds ==
  ASSUME NEW f, FileMakesSense("aaff", f), NEW page \in 0..(Len(f.pages) - 1)
  PROVE  /\ (page * f.pageSize) + A!PageLen(f, page) <= f.size
         /\ A!PageLen(f, page) <= f.pageSize
         /\ A!PageLen(f, page) = f.pageSize \/ (page * f.pageSize) + A!PageLen(f, page) = f.size
<1>1. PICK c \in Positive, size \in Positive : c = f.pageSize /\ size = f.size
  BY AaffPages
<1>2. page \in Nat /\ c \in Nat /\ c # 0 /\ size \in Nat
  BY PageThere DEF Positive
<1>3. page * c \in Nat
  BY <1>2
<1>4. PICK p \in Nat : p = page * c /\ p < size
  BY <1>1, <1>3, PageThere
<1>5. A!PageLen(f, page) = Min({c, size - p})
  BY <1>1, <1>4, SameMinMax DEF A!PageLen
<1>6. Min({c, size - p}) = IF c <= size - p THEN c ELSE size - p
  BY <1>2, MinOfTwo
<1>7. PICK len \in Int : len = Min({c, size - p}) /\ p + len <= size /\ len <= c
                         /\ (len = c \/ p + len = size)
  BY <1>2, <1>4, <1>6
<1>. QED BY <1>1, <1>4, <1>5, <1>7

\* The page buffer holds bytes of the image or of a page that was read in part.
LEMMA PageBytes ==
  ASSUME NEW f, FileMakesSense("aaff", f), NEW a, HandleInv(f, a), a.page # A!NotSet,
         NEW j \in Nat, j < A!PageLen(f, a.page)
  PROVE  A!PageBuffer(f, a)[j + 1] \in {A!TornByte, AaffByte(f, (a.page * f.pageSize) + j)}
<1>1. PICK page \in 0..(Len(f.pages) - 1) : page = a.page
  BY DEF HandleInv
<1>2. PICK c \in Positive, len \in Positive :
        c = f.pageSize /\ len = A!PageLen(f, page) /\ len <= c
  BY <1>1, PageEnds, PageLenType DEF FileMakesSense
<1>3. page \in Nat /\ c \in Nat /\ len \in Nat
  BY DEF Positive
<1>4. j + 1 \in 1..len /\ j \in 0..(c - 1)
  BY <1>1, <1>2, <1>3
<1>5. CASE a.buf = A!Torn
  BY <1>1, <1>2, <1>4, <1>5 DEF A!PageBuffer
<1>6. CASE a.buf # A!Torn
  <2>1. a.buf = page
    BY <1>1, <1>6 DEF HandleInv
  <2>2. A!PageBuffer(f, a)[j + 1] = f.pages[page + 1][j + 1]
    BY <1>6, <2>1 DEF A!PageBuffer
  <2>3. /\ ((page * c) + j) \div c = page /\ ((page * c) + j) % c = j
    BY <1>3, <1>4, SameUnit
  <2>4. AaffByte(f, (page * c) + j) = f.pages[page + 1][j + 1]
    BY <1>2, <2>3 DEF AaffByte
  <2>. QED BY <1>1, <1>2, <2>2, <2>4
<1>. QED BY <1>5, <1>6

\* The part of a page that is copied is what comes next of the image.
LEMMA PageDelivers ==
  ASSUME Ready, ReadsInv, DeliverInv, pc \in {"page", "hop"},
         NEW a, HandleInv(File(in.image), a), a.page = in.page, CopyPage(a),
         UNCHANGED <<setup, sizes, morph, req, at>>
  PROVE  DeliverInv'
<1>1. PICK i, f : i = in.image /\ f = File(in.image)
  OBVIOUS
<1>2. /\ FileMakesSense("aaff", f) /\ Started /\ Size(i) = f.size /\ HandleInv(f, a)
      /\ Format(i) = "aaff" /\ pc \in Called /\ pc \in Reading /\ SizesRead(Setup)
  BY <1>1, AaffRead DEF ReadsInv, InputInv, Called, Reading, Ready, TakenRight
<1>3. PICK page \in Nat, left \in Nat, got \in Nat, seek \in Nat, size \in Nat, c \in Nat :
        /\ page = in.page /\ left = in.left /\ got = in.got /\ seek = in.seek
        /\ size = f.size /\ c = f.pageSize
  BY <1>2 DEF ReadsInv, InputInv, FileMakesSense, Positive
<1>4. /\ left <= got /\ seek + got <= size /\ c \in Positive
      /\ left = got => left # 0 /\ page = seek \div c
      /\ left # got => page # seek \div c
      /\ left # got /\ left # 0 => Cursor = page * c
  <2>1. c \in Positive
    BY <1>2, <1>3 DEF FileMakesSense
  <2>2. /\ left = got => left # 0 /\ page = seek \div c
        /\ left # got => page # seek \div c
    <3>1. PICK first \in Nat : first = FirstPage /\ first = seek \div c
      BY <1>1, <1>3, <2>1, DivMod DEF FirstPage
    <3>2. /\ left = got => left # 0 /\ page = first
          /\ left # got => page > first
      BY <1>2, <1>3, <3>1 DEF ReadsInv, PageInv
    <3>. QED BY <3>1, <3>2
  <2>. QED BY <1>1, <1>2, <1>3, <2>1, <2>2 DEF DeliverInv, ComesInv, ReadsInv, InputInv
<1>5. page \in 0..(Len(f.pages) - 1) /\ a.page = page /\ a.page # A!NotSet
  BY <1>2, <1>3, NoPage DEF HandleInv
<1>6. PICK len \in Nat, start \in Nat :
        /\ len = A!PageLen(f, page) /\ len = Len(A!PageBuffer(f, a)) /\ len # 0
        /\ start = page * c
  <2>1. A!PageLen(f, page) \in Nat /\ A!PageLen(f, page) # 0
    BY <1>2, <1>5, PageLenType DEF Positive
  <2>2. A!PageLen(f, page) = Len(A!PageBuffer(f, a))
    BY <1>2, <1>5, BufferLength
  <2>3. page * c \in Nat
    BY TimesOrder
  <2>. QED BY <2>1, <2>2, <2>3
<1>7. start + len <= size /\ len <= c /\ (len = c \/ start + len = size)
  BY <1>2, <1>3, <1>5, <1>6, PageEnds
<1>8. PICK o : o = IF in.page = in.seek \div f.pageSize THEN in.seek % f.pageSize ELSE 0
  OBVIOUS
<1>9. o \in Nat /\ o < len /\ (left = got => seek = start + o) /\ (left # got => o = 0)
  <2>1. CASE left # got
    BY <1>3, <1>4, <1>6, <1>8, <2>1
  <2>2. CASE left = got
    <3>1. PICK r \in 0..(c - 1) : r = seek % c /\ seek = ((seek \div c) * c) + r
      BY <1>4, DivMod
    <3>2. o = r /\ seek = start + r
      BY <1>3, <1>4, <1>6, <1>8, <2>2, <3>1
    <3>3. (page * c) + r < size
      <4>1. start + r < size
        BY <1>4, <2>2, <3>2
      <4>. QED BY <1>6, <4>1
    <3>4. r < len
      BY <1>2, <1>3, <1>5, <1>6, <3>3, PageLenType
    <3>. QED BY <2>2, <3>2, <3>4
  <2>. QED BY <2>1, <2>2
<1>10. PICK n \in Nat : /\ n = Min({(len - o) % Word, left}) /\ n <= left /\ o + n <= len
                        /\ (n = left \/ o + n = len)
  <2>0. (len - o) % Word = len - o
    <3>1. PICK w \in Nat : w = Word /\ len < w
      BY <1>2, <1>5, <1>6, ImageConstants, PageInWord DEF Positive
    <3>2. len - o \in 0..(w - 1)
      BY <1>9, <3>1
    <3>. QED BY <3>1, <3>2, NoOverflow
  <2>1. Min({len - o, left}) = IF len - o <= left THEN len - o ELSE left
    <3>1. len - o \in Int /\ left \in Int
      BY <1>9
    <3>. QED BY <3>1, MinOfTwo
  <2>. QED BY <1>9, <2>0, <2>1
<1>11. PICK buffer, data : buffer = A!PageBuffer(f, a) /\ data = A!FromBuffer(buffer, o, n)
  OBVIOUS
<1>12. /\ out' = out \o data /\ pc' = "page"
       /\ in' = [in EXCEPT !.left = left - n, !.page = page + 1, !.hops = 0]
  BY <1>1, <1>3, <1>6, <1>8, <1>10, <1>11 DEF CopyPage
<1>13. /\ in'.image = in.image /\ in'.seek = in.seek /\ in'.left = left - n
       /\ in'.got = in.got /\ in'.asked = in.asked /\ in'.page = page + 1
  BY <1>12 DEF ReadsInv, InputInv
<1>14. Sequence(data) /\ Len(data) = n /\ \A k \in 1..n : data[k] = buffer[o + k]
  <2>1. data = [k \in 1..n |-> IF o + k <= len THEN buffer[o + k] ELSE A!TornByte]
    BY <1>6, <1>11 DEF A!FromBuffer
  <2>2. \A k \in 1..n : o + k <= len
    BY <1>9, <1>10
  <2>3. Len(data) = n /\ DOMAIN data = 1..n /\ data = [k \in 1..n |-> data[k]]
    BY <2>1
  <2>. QED BY <2>1, <2>2, <2>3, FunctionSequence
<1>15. PICK cursor \in Nat : cursor = Cursor /\ cursor = seek + (got - left)
  <2>1. seek + (got - left) \in Nat
    BY <1>4
  <2>. QED BY <1>1, <1>2, <1>3, <2>1 DEF Cursor
<1>16. left # 0 => cursor = start + o
  <2>1. CASE left = got
    <3>1. seek = start + o
      BY <1>9, <2>1
    <3>. QED BY <1>15, <2>1, <3>1
  <2>2. CASE left # got
    <3>1. left # 0 => cursor = start
      BY <1>4, <1>6, <1>15, <2>2
    <3>. QED BY <1>9, <2>2, <3>1
  <2>. QED BY <2>1, <2>2
<1>17. /\ Format(in.image)' = "aaff" /\ Size(in.image)' = size
       /\ File(in.image)' = f
  BY <1>1, <1>2, <1>3, <1>13 DEF Format, File, Size, ImageSize, Images, Setup
<1>18. Cursor' = cursor + n
  <2>1. seek + (got - (left - n)) = seek + (got - left) + n
    OBVIOUS
  <2>2. Cursor' = seek + (got - (left - n))
    BY <1>3, <1>13, <1>17 DEF Cursor
  <2>. QED BY <1>15, <2>1, <2>2
<1>19. /\ PlaceInv' /\ RestInv' /\ CompleteInv' /\ Sequence(out)'
       /\ Len(out') = Done' + (in'.got - in'.left)
       /\ Comes(in.image, Cursor, Len(out), in.left)'
       /\ Setup'.morph = "swab" =>
            /\ in'.image = 0 /\ Cursor' = Setup'.offset + req'.offset + Len(out')
            /\ in'.got # 0 => req'.offset + in'.got <= sizes'[1]
  <2>1. pc' \in Called
    BY <1>12 DEF Called
  <2>. QED BY <1>3, <1>10, <1>12, <1>13, <1>14, <1>15, <1>18, <2>1, GoesOn
<1>20. PICK m \in Nat : /\ m = Len(out) /\ Len(out') = m + n
                        /\ \A k \in 1..m : out'[k] = out[k]
                        /\ \A k \in 1..n : out'[m + k] = data[k]
  <2>1. Sequence(out)
    BY DEF DeliverInv, CopiedInv
  <2>2. PICK t, r : t = data /\ r = out'
    OBVIOUS
  <2>3. Sequence(t) /\ r = out \o t /\ n = Len(t)
    BY <1>12, <1>14, <2>2
  <2>4. /\ Len(out) \in Nat /\ Len(r) = Len(out) + n
        /\ \A k \in 1..Len(out) : r[k] = out[k]
        /\ \A k \in 1..n : r[Len(out) + k] = t[k]
    BY <2>1, <2>3, Concatenated
  <2>. QED BY <2>2, <2>4
<1>21. \A k \in 1..m : out[k] \in {Wanted(k), A!TornByte}
  BY <1>20, <1>2 DEF DeliverInv, CopiedInv
<1>22. ASSUME NEW k \in 1..n PROVE out'[m + k] \in {Wanted(m + k), A!TornByte}
  <2>1. PICK j \in Nat, p \in Nat : j = o + k - 1 /\ p = start + j
    <3>1. o + k - 1 \in Nat /\ start + (o + k - 1) \in Nat
      BY <1>9
    <3>. QED BY <3>1
  <2>2. j < len /\ o + k = j + 1
    BY <1>9, <1>10, <2>1
  <2>3. buffer[j + 1] \in {A!TornByte, AaffByte(f, p)}
    <3>1. buffer[j + 1] \in {A!TornByte, AaffByte(f, (a.page * f.pageSize) + j)}
      BY <1>2, <1>5, <1>6, <1>11, <2>2, PageBytes
    <3>. QED BY <1>3, <1>5, <1>6, <2>1, <3>1
  <2>4. left # 0 /\ k \in 1..left
    BY <1>10
  <2>5. cursor + k - 1 = p
    <3>1. cursor = start + o /\ o \in Nat
      BY <1>9, <1>16, <2>4
    <3>2. j = o + k - 1 /\ p = start + j
      BY <2>1
    <3>. QED BY <3>1, <3>2
  <2>6. Comes(i, cursor, m, left)
    BY <1>1, <1>2, <1>3, <1>15, <1>20 DEF DeliverInv, ComesInv
  <2>7. PICK image : image = Images[i + 1]
    OBVIOUS
  <2>8. image.format = "aaff" /\ image.file = f
    BY <1>1, <1>2, <2>7 DEF Format, File
  <2>9. Readable(image, p)
    <3>1. p \in 0..(size - 1)
      BY <1>7, <2>1, <2>2
    <3>2. p \div c = page
      <4>1. j \in 0..(c - 1) /\ (page * c) + j = p
        BY <1>6, <1>7, <2>1, <2>2
      <4>. QED BY <1>4, <4>1, SameUnit
    <3>3. p \div c < Len(f.pages)
      <4>1. page < Len(f.pages)
        BY <1>2, <1>5, PageThere
      <4>. QED BY <3>2, <4>1
    <3>. QED BY <1>3, <2>8, <3>1, <3>3 DEF Readable, Length, Whole
  <2>10. Byte(image, p) = AaffByte(f, p)
    BY <2>8 DEF Byte, Whole
  <2>11. Wanted(m + k) = AaffByte(f, p)
    BY <2>4, <2>5, <2>6, <2>7, <2>9, <2>10 DEF Comes
  <2>. QED BY <1>14, <1>20, <2>2, <2>3, <2>11
<1>23. \A k \in 1..Len(out') : out'[k] \in {Wanted(k), A!TornByte}
  <2>. SUFFICES ASSUME NEW k \in 1..(m + n) PROVE out'[k] \in {Wanted(k), A!TornByte}
    BY <1>20
  <2>1. CASE k \in 1..m
    BY <1>20, <1>21, <2>1
  <2>2. CASE k \notin 1..m
    <3>1. k - m \in 1..n /\ m + (k - m) = k
      BY <2>2
    <3>2. PICK j \in 1..n : m + j = k
      BY <3>1
    <3>. QED BY <1>22, <3>2
  <2>. QED BY <2>1, <2>2
<1>24. CopiedInv'
  <2>1. \A k : Wanted(k)' = Wanted(k)
    BY SameRead
  <2>2. \A k \in 1..Len(out') : out'[k] \in {Wanted(k)', A!TornByte}
    BY <1>23, <2>1
  <2>. QED BY <1>12, <1>19, <2>2 DEF CopiedInv
<1>25. ComesInv'
  <2>1. in'.seek + in'.got <= Size(in.image)'
    BY <1>3, <1>4, <1>13, <1>17
  <2>2. in'.left # 0 => Cursor' = in'.page * File(in.image)'.pageSize
    <3>. SUFFICES ASSUME left - n # 0 PROVE cursor + n = (page + 1) * c
      BY <1>3, <1>13, <1>17, <1>18
    <3>0. o \in Nat
      BY <1>9
    <3>1. o + n = len /\ left # 0 /\ n < left
      BY <1>10
    <3>2. cursor = start + o
      BY <1>16, <3>1
    <3>3. cursor + left <= size
      <4>1. left <= got /\ seek + got <= size /\ cursor = seek + (got - left)
        BY <1>4, <1>15
      <4>. QED BY <4>1
    <3>4. len = c
      <4>1. start + len < size
        BY <3>0, <3>1, <3>2, <3>3
      <4>2. start + len # size
        BY <4>1
      <4>. QED BY <1>7, <4>2
    <3>6. cursor + n = start + c
      BY <3>0, <3>1, <3>2, <3>4
    <3>5. (page + 1) * c = (page * c) + c
      OBVIOUS
    <3>. QED BY <1>6, <3>5, <3>6
  <2>. QED BY <1>12, <1>19, <2>1, <2>2 DEF ComesInv
<1>. QED BY <1>19, <1>24, <1>25 DEF DeliverInv

\* Hops that are counted change nothing else.
LEMMA SearchDelivers ==
  ASSUME Ready, ReadsInv, DeliverInv, pc \in {"page", "hop"}, pc' = "hop",
         NEW hops, in' = [in EXCEPT !.hops = hops],
         UNCHANGED <<setup, sizes, morph, req, at, out>>
  PROVE  DeliverInv'
<1>1. /\ in'.image = in.image /\ in'.seek = in.seek /\ in'.left = in.left
      /\ in'.got = in.got /\ in'.asked = in.asked /\ in'.page = in.page
  BY DEF ReadsInv, InputInv
<1>2. pc \in Reading /\ pc \in Called /\ pc' \in Reading /\ pc' \in Called
  BY DEF Reading, Called
<1>3. /\ Setup' = Setup /\ Asking' = Asking /\ Done' = Done
      /\ \A k : Wanted(k)' = Wanted(k)
      /\ \A image, cursor, from, n :
           Comes(image, cursor, from, n)' <=> Comes(image, cursor, from, n)
      /\ \A a, place : OnTheWay(a, place)' <=> OnTheWay(a, place)
  <2>1. Setup' = Setup /\ Asking' = Asking
    BY SameRead
  <2>2. Done' = Done
    BY <2>1 DEF Done
  <2>. QED BY <2>1, <2>2, SameRead
<1>4. /\ Format(in.image)' = Format(in.image) /\ Size(in.image)' = Size(in.image)
      /\ File(in.image)' = File(in.image)
  BY <1>1 DEF Format, File, Size, ImageSize, Images, Setup
<1>5. Cursor' = Cursor
  BY <1>1, <1>4 DEF Cursor
<1>6. PlaceInv'
  <2>1. PICK a, place : a = at /\ place = req.offset + Done
    OBVIOUS
  <2>2. at.left # 0 => OnTheWay(a, place)'
    BY <1>2, <1>3, <2>1 DEF DeliverInv, PlaceInv
  <2>3. at.left # 0 => OnTheWay(at, req.offset + Done)'
    BY <1>3, <2>1, <2>2 DEF OnTheWay
  <2>. QED BY <1>2, <1>3, <2>3 DEF DeliverInv, PlaceInv
<1>7. ComesInv'
  <2>1. PICK image, cursor, from, n :
          image = in.image /\ cursor = Cursor /\ from = Len(out) /\ n = in.left
    OBVIOUS
  <2>2. Comes(image, cursor, from, n)'
    BY <1>3, <2>1 DEF DeliverInv, ComesInv
  <2>3. Comes(in.image, Cursor, Len(out), in.left)'
    BY <1>1, <1>5, <2>1, <2>2 DEF Comes
  <2>4. Setup.morph = "swab" => in.image = 0 /\ Cursor = Setup.offset + req.offset + Len(out)
    BY DEF DeliverInv, ComesInv
  <2>5. /\ in.seek + in.got <= Size(in.image)
        /\ in.left # in.got /\ in.left # 0 => Cursor = in.page * File(in.image).pageSize
    BY DEF DeliverInv, ComesInv
  <2>. QED BY <1>1, <1>3, <1>4, <1>5, <2>3, <2>4, <2>5 DEF ComesInv
<1>8. CopiedInv'
  <2>1. Sequence(out)'
    BY DEF DeliverInv, CopiedInv, Sequence
  <2>2. \A k \in 1..Len(out') : out'[k] \in {Wanted(k)', A!TornByte}
    BY <1>3 DEF DeliverInv, CopiedInv
  <2>3. Len(out') = Done' + (in'.got - in'.left)
    BY <1>1, <1>2, <1>3 DEF DeliverInv, CopiedInv
  <2>4. Setup'.morph = "swab" /\ in'.got # 0 => req'.offset + in'.got <= sizes'[1]
    BY <1>1, <1>2, <1>3 DEF DeliverInv, CopiedInv
  <2>. QED BY <2>1, <2>2, <2>3, <2>4 DEF CopiedInv
<1>9. RestInv' /\ CompleteInv'
  <2>1. Setup.whole => in.got = in.asked
    BY <1>2 DEF DeliverInv, CompleteInv
  <2>. QED BY <1>1, <1>2, <1>3, <2>1 DEF RestInv, CompleteInv, FailuresHaveACause
<1>. QED BY <1>6, <1>7, <1>8, <1>9 DEF DeliverInv

\* A read of an AFF image may fail, whatever the cause.
LEMMA AaffFails ==
  ASSUME Ready, ReadsInv, DeliverInv, pc \in {"page", "hop"}, Finish("error"),
         DOMAIN aaff' = DOMAIN aaff, UNCHANGED <<setup, sizes, morph, req, out>>
  PROVE  DeliverInv'
<1>1. DOMAIN aaff' # {}
  BY AaffRead
<1>2. FailuresHaveACause'
  BY <1>1 DEF FailuresHaveACause
<1>. QED BY <1>2, ReadFails DEF Finish, Reading

LEMMA AaffPageDelivers ==
  ASSUME Ready, ReadsInv, DeliverInv, AaffPage PROVE DeliverInv'
<1>1. pc = "page" /\ UNCHANGED <<setup, sizes, morph, req, at>>
  BY DEF AaffPage, Static
<1>2. PICK f, a : f = File(in.image) /\ a = aaff[in.image]
  OBVIOUS
<1>3. HandleInv(f, a)
  BY <1>1, <1>2, AaffRead
<1>4. PICK p, q : p = (in.page >= A!TotalPages(f)) /\ q = (in.page < A!TotalPages(f))
  OBVIOUS
<1>5. \/ Finish("error") /\ UNCHANGED <<in, out, aaff>>
      \/ A!InBuffer(a, in.page) /\ CopyPage(a)
      \/ /\ \E hops : in' = [in EXCEPT !.hops = hops]
         /\ pc' = "hop" /\ out' = out
  BY <1>2 DEF AaffPage
<1>6. CASE Finish("error") /\ UNCHANGED <<in, out, aaff>>
  BY <1>1, <1>6, AaffFails
<1>7. CASE A!InBuffer(a, in.page) /\ CopyPage(a)
  BY <1>1, <1>2, <1>3, <1>7, PageDelivers DEF A!InBuffer
<1>8. CASE /\ \E hops : in' = [in EXCEPT !.hops = hops]
           /\ pc' = "hop" /\ out' = out
  BY <1>1, <1>8, SearchDelivers
<1>. QED BY <1>5, <1>6, <1>7, <1>8

LEMMA AaffHopDelivers ==
  ASSUME Ready, ReadsInv, DeliverInv, AaffHop PROVE DeliverInv'
<1>1. /\ pc = "hop" /\ A!AtPage(File(in.image), aaff[in.image])
      /\ UNCHANGED <<setup, sizes, morph, req, at>>
  BY DEF AaffHop, Static
<1>2. PICK f, a : f = File(in.image) /\ a = aaff[in.image]
  OBVIOUS
<1>3. PICK page \in 0..(A!TotalPages(f) - 1), hops \in Positive :
        page = in.page /\ hops = in.hops
  BY <1>1, <1>2, HopsSuffice
<1>4. /\ FileMakesSense("aaff", f) /\ HandleInv(f, a) /\ Before(f, a, page, hops)
      /\ A!AtPage(f, a)
  BY <1>1, <1>2, <1>3, AaffRead
<1>5. PICK b : b = A!Passed(f, a, page)
  OBVIOUS
<1>6. HandleInv(f, b) /\ (a.pos = page => b.page = page)
  BY <1>4, <1>5, PagePassed
<1>7. CASE a.pos = page
  <2>1. CopyPage(b)
    BY <1>2, <1>3, <1>5, <1>7 DEF AaffHop
  <2>2. HandleInv(File(in.image), b) /\ b.page = in.page
    BY <1>2, <1>3, <1>6, <1>7
  <2>. QED BY <1>1, <2>1, <2>2, PageDelivers
<1>8. CASE a.pos # page /\ hops # 1
  <2>1. in' = [in EXCEPT !.hops = hops - 1] /\ UNCHANGED <<pc, out>>
    BY <1>2, <1>3, <1>5, <1>8 DEF AaffHop
  <2>. QED BY <1>1, <2>1, SearchDelivers
<1>9. CASE a.pos # page /\ hops = 1
  <2>1. Finish("error") /\ out' = out
    BY <1>2, <1>3, <1>5, <1>9 DEF AaffHop
  <2>2. DOMAIN aaff' = DOMAIN aaff
    <3>1. PICK b0 : aaff' = [aaff EXCEPT ![in.image] = b0]
      BY DEF AaffHop
    <3>. QED BY <3>1
  <2>. QED BY <1>1, <2>1, <2>2, AaffFails
<1>. QED BY <1>7, <1>8, <1>9

LEMMA AaffLostDelivers ==
  ASSUME Ready, ReadsInv, DeliverInv, AaffLost PROVE DeliverInv'
<1>1. pc = "hop" /\ Finish("error") /\ UNCHANGED <<setup, sizes, morph, req, out>>
  BY DEF AaffLost, Static
<1>2. DOMAIN aaff' = DOMAIN aaff
  <2>1. PICK a : aaff' = [aaff EXCEPT ![in.image] = a]
    BY DEF AaffLost
  <2>. QED BY <2>1
<1>. QED BY <1>1, <1>2, AaffFails

-----------------------------------------------------------------------------
(* The theorems about what is read                                         *)

LEMMA RequestsDeliver ==
  ASSUME Ready, RequestsFit, ReadsInv, Requests PROVE DeliverInv'
<1>1. morph.size \in Nat
  BY DEF ReadsInv, MountInv
<1>2. PICK offset \in 0..morph.size, count \in 1..(morph.size + 1) : Request(offset, count)
  BY DEF Requests
<1>3. offset \in Nat /\ count \in Nat
  BY <1>1
<1>. QED BY <1>2, <1>3, RequestDelivers

LEMMA SameDelivers == ASSUME DeliverInv, UNCHANGED vars PROVE DeliverInv'
<1>1. UNCHANGED <<setup, pc, sizes, morph, req, at, in, out, ret, met, bad, aaff>>
  BY DEF vars
<1>2. /\ Setup' = Setup /\ Images' = Images /\ Asking' = Asking /\ Done' = Done
      /\ Asked' = Asked /\ Cursor' = Cursor
  BY <1>1 DEF Setup, Images, Asking, Done, Asked, Cursor, Format
<1>3. PlaceInv'
  BY <1>1, <1>2 DEF DeliverInv, PlaceInv, OnTheWay
<1>4. ComesInv'
  <2>1. Size(in.image)' = Size(in.image) /\ File(in.image)' = File(in.image)
    BY <1>1, <1>2 DEF Size, ImageSize, File
  <2>. QED BY <1>1, <1>2, <2>1 DEF DeliverInv, ComesInv, Comes, Wanted
<1>5. CopiedInv'
  BY <1>1, <1>2 DEF DeliverInv, CopiedInv, Sequence, Wanted, There
<1>6. RestInv' /\ CompleteInv'
  BY <1>1, <1>2 DEF DeliverInv, RestInv, CompleteInv, CopiedIsTheImage, FailuresHaveACause
<1>. QED BY <1>3, <1>4, <1>5, <1>6 DEF DeliverInv

LEMMA NextDelivers ==
  ASSUME Ready, RequestsFit, ReadsInv, DeliverInv, [Next]_vars PROVE DeliverInv'
  BY StartDelivers, EndDelivers, RequestsDeliver, MorphDoneDelivers, MorphCallDelivers,
     MorphBackDelivers, InputStepDelivers, AaffPageDelivers, AaffHopDelivers,
     AaffLostDelivers, SameDelivers DEF Next, Steps

LEMMA IsReady ==
  ASSUME MountsDescribed, ReadsInv, TakenRight(Setup) PROVE Ready
  BY DEF MountsDescribed, Setup, ReadsInv, MountInv, Ready

LEMMA NextKeepsSetup == ASSUME [Next]_vars PROVE setup' = setup
  BY DEF Next, Steps, vars, OpenImage, OpenFault, Morph, MorphFault, End, Requests, Request,
         MorphDone, MorphCall, MorphBack, InputStep, AaffPage, AaffHop, AaffLost, Static

LEMMA DeliverInvariant == ASSUME RequestsFit PROVE Spec => [](Ready => DeliverInv)
<1>1. Init => (Ready => DeliverInv)
  BY InitDelivers
<1>2. ReadsInv /\ (Ready => DeliverInv) /\ [Next]_vars => (Ready => DeliverInv)'
  BY NextDelivers, NextKeepsSetup, SetupKept
<1>. QED BY <1>1, <1>2, ReadsInvariant, PTL DEF Spec

\* A read that succeeds delivers the disk the images hold, byte for byte: the
\* images joined, dealt out again from the members of a RAID, with each pair of
\* bytes swapped, or the free blocks of the file system; however the images are
\* cut into files, blocks, clusters or pages, wherever the read begins and ends,
\* with --offset and --sizelimit, and whichever reads failed before.
THEOREM ReadsDeliver ==
  ASSUME MountsDescribed, RequestsFit PROVE Spec => []ReadsDeliverImage
<1>1. DeliverInv => ReadsDeliverImage
  BY DEF DeliverInv, RestInv, ReadsDeliverImage
<1>2. ReadsInv /\ (Ready => DeliverInv) => ReadsDeliverImage
  BY <1>1, IsReady DEF ReadsDeliverImage
<1>. QED BY <1>2, ReadsInvariant, DeliverInvariant, PTL

\* Nor does a read that goes on or fails copy anything else, or more.
THEOREM NothingElseCopied ==
  ASSUME MountsDescribed, RequestsFit PROVE Spec => []CopiedIsTheImage
<1>1. ReadsInv /\ Ready /\ DeliverInv => CopiedIsTheImage
  BY CopiedSoFar DEF DeliverInv, RestInv
<1>2. ReadsInv /\ (Ready => DeliverInv) => CopiedIsTheImage
  BY <1>1, IsReady DEF CopiedIsTheImage
<1>. QED BY <1>2, ReadsInvariant, DeliverInvariant, PTL

\* A read fails only if a file could not be read, or is cut off, or the image is
\* an AFF image: no loop runs past the end of an image, no unit is lost between
\* two images, and no image gives less than what was asked of it.
THEOREM FailuresExplained ==
  ASSUME MountsDescribed, RequestsFit PROVE Spec => []FailuresHaveACause
<1>1. DeliverInv => FailuresHaveACause
  BY DEF DeliverInv, CompleteInv
<1>2. ReadsInv /\ (Ready => DeliverInv) => FailuresHaveACause
  BY <1>1, IsReady DEF FailuresHaveACause
<1>. QED BY <1>2, ReadsInvariant, DeliverInvariant, PTL
=============================================================================
