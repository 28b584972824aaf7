------------------------------ MODULE SumProofs ------------------------------
(***************************************************************************)
(* Sums and other folds over finite sets, as the community modules define  *)
(* them: by a function on the subsets that takes away one element after    *)
(* the other.  That such a function exists, and that it does not matter    *)
(* for a sum which element goes first, is shown by taking a smallest       *)
(* counterexample.                                                         *)
(***************************************************************************)
EXTENDS Integers, FiniteSets, FiniteSetsExt, FiniteSetTheorems,
        WellFoundedInduction, TLAPS

\* A set of numbers has a smallest one.
LEMMA Least ==
  ASSUME NEW T \in SUBSET Nat, T # {}
  PROVE  \E n \in T : \A m \in T : n <= m
<1>1. PICK n \in T : \A m \in T : ~(<<m, n>> \in OpToRel(<, Nat))
  BY WFMin, NatLessThanWellFounded
<1>2. \A m \in T : ~(m < n)
  BY <1>1 DEF OpToRel
<1>. QED BY <1>2

-----------------------------------------------------------------------------
(* Functions on the subsets of a finite set                                *)

\* p takes an element of each subset of S that is not empty.
Picks(p, S) == \A s \in SUBSET S : s # {} => p[s] \in s

\* One element less.
LEMMA WithoutOne ==
  ASSUME NEW S, IsFiniteSet(S), NEW s \in SUBSET S, NEW x \in s
  PROVE  /\ x \in S /\ s \ {x} \in SUBSET S
         /\ IsFiniteSet(s) /\ Cardinality(s) \in Nat
         /\ IsFiniteSet(s \ {x}) /\ Cardinality(s \ {x}) \in Nat
         /\ Cardinality(s \ {x}) = Cardinality(s) - 1
<1>1. IsFiniteSet(s) /\ Cardinality(s) \in Nat
  BY FS_Subset, FS_CardinalityType
<1>2. IsFiniteSet(s \ {x}) /\ Cardinality(s \ {x}) = Cardinality(s) - 1
  BY <1>1, FS_RemoveElement
<1>3. Cardinality(s \ {x}) \in Nat
  BY <1>2, FS_CardinalityType
<1>. QED BY <1>1, <1>2, <1>3

\* The function of the subsets of at most n elements: b for the empty one, and
\* e of the element taken away and the value without it.
Small(S, n) == {s \in SUBSET S : Cardinality(s) <= n}
FoldsTo(p, e, b, g, V, S, n) ==
  /\ g \in [Small(S, n) -> V]
  /\ \A s \in Small(S, n) :
       g[s] = IF s = {} THEN b ELSE e[p[s]][g[s \ {p[s]}]]

LEMMA SmallExists ==
  ASSUME NEW S, IsFiniteSet(S), NEW p, Picks(p, S),
         NEW V, NEW b \in V, NEW e \in [S -> [V -> V]], NEW n \in Nat
  PROVE  \E g : FoldsTo(p, e, b, g, V, S, n)
<1>. DEFINE T == {m \in Nat : ~\E g : FoldsTo(p, e, b, g, V, S, m)}
<1>. SUFFICES ASSUME T # {} PROVE FALSE
  OBVIOUS
<1>1. PICK m \in T : \A k \in T : m <= k
  <2>1. T \in SUBSET Nat
    OBVIOUS
  <2>. HIDE DEF T
  <2>. QED BY <2>1, Least
<1>2. m \in Nat /\ ~\E g : FoldsTo(p, e, b, g, V, S, m)
  OBVIOUS
<1>3. CASE m = 0
  <2>. DEFINE g == [s \in Small(S, 0) |-> b]
  <2>1. ASSUME NEW s \in Small(S, 0) PROVE s = {}
    <3>1. s \in SUBSET S /\ Cardinality(s) <= 0
      BY <2>1 DEF Small
    <3>2. IsFiniteSet(s) /\ Cardinality(s) \in Nat
      BY <3>1, FS_Subset, FS_CardinalityType
    <3>3. Cardinality(s) = 0
      BY <3>1, <3>2
    <3>. QED BY <3>2, <3>3, FS_EmptySet
  <2>2. FoldsTo(p, e, b, g, V, S, 0)
    BY <2>1 DEF FoldsTo
  <2>. QED BY <1>2, <1>3, <2>2
<1>4. CASE m # 0
  <2>1. m - 1 \in Nat /\ ~(m <= m - 1)
    BY <1>2, <1>4
  <2>2. m - 1 \notin T
    BY <1>1, <2>1
  <2>3. PICK g : FoldsTo(p, e, b, g, V, S, m - 1)
    BY <2>1, <2>2
  <2>. DEFINE h == [s \in Small(S, m) |->
                      IF s = {} THEN b ELSE e[p[s]][g[s \ {p[s]}]]]
  <2>4. ASSUME NEW s \in Small(S, m), s # {}
        PROVE  /\ p[s] \in S
               /\ s \ {p[s]} \in Small(S, m - 1) /\ s \ {p[s]} \in Small(S, m)
    <3>1. s \in SUBSET S /\ Cardinality(s) <= m
      BY DEF Small
    <3>2. p[s] \in s
      BY <2>4, <3>1 DEF Picks
    <3>3. /\ p[s] \in S /\ s \ {p[s]} \in SUBSET S
          /\ Cardinality(s \ {p[s]}) = Cardinality(s) - 1 /\ Cardinality(s) \in Nat
      <4>1. PICK x \in s : x = p[s]
        BY <3>2
      <4>2. /\ x \in S /\ s \ {x} \in SUBSET S
            /\ Cardinality(s \ {x}) = Cardinality(s) - 1 /\ Cardinality(s) \in Nat
        BY <3>1, WithoutOne
      <4>. QED BY <4>1, <4>2
    <3>4. Cardinality(s) - 1 <= m - 1 /\ Cardinality(s) - 1 <= m
      BY <1>2, <3>1, <3>3
    <3>. QED BY <3>3, <3>4 DEF Small
  <2>5. \A s \in Small(S, m - 1) : s \in Small(S, m)
    BY <1>2, FS_Subset, FS_CardinalityType DEF Small
  <2>6. \A s \in Small(S, m) : h[s] \in V
    BY <2>3, <2>4 DEF FoldsTo
  <2>7. \A s \in Small(S, m - 1) : h[s] = g[s]
    BY <2>3, <2>5 DEF FoldsTo
  <2>8. FoldsTo(p, e, b, h, V, S, m)
    <3>1. h \in [Small(S, m) -> V]
      BY <2>6
    <3>2. ASSUME NEW s \in Small(S, m)
          PROVE  h[s] = IF s = {} THEN b ELSE e[p[s]][h[s \ {p[s]}]]
      BY <2>4, <2>7
    <3>. HIDE DEF h
    <3>. QED BY <3>1, <3>2 DEF FoldsTo
  <2>. HIDE DEF h
  <2>. QED BY <1>2, <2>8
<1>. QED BY <1>3, <1>4

\* The function of all subsets.
FoldsAll(p, e, b, g, V, S) ==
  /\ g \in [SUBSET S -> V]
  /\ \A s \in SUBSET S : g[s] = IF s = {} THEN b ELSE e[p[s]][g[s \ {p[s]}]]

LEMMA FoldExists ==
  ASSUME NEW S, IsFiniteSet(S), NEW p, Picks(p, S),
         NEW V, NEW b \in V, NEW e \in [S -> [V -> V]]
  PROVE  \E g : FoldsAll(p, e, b, g, V, S)
<1>1. Cardinality(S) \in Nat
  BY FS_CardinalityType
<1>2. PICK g : FoldsTo(p, e, b, g, V, S, Cardinality(S))
  BY <1>1, SmallExists
<1>3. Small(S, Cardinality(S)) = SUBSET S
  BY FS_Subset DEF Small
<1>. QED BY <1>2, <1>3 DEF FoldsTo, FoldsAll

\* What holds of the empty subset, and of each other one if it holds of it
\* without one of its elements, holds of all.
LEMMA SubsetInduction ==
  ASSUME NEW S, IsFiniteSet(S), NEW p, Picks(p, S), NEW P,
         {} \in P, \A s \in SUBSET S : s # {} /\ s \ {p[s]} \in P => s \in P
  PROVE  \A s \in SUBSET S : s \in P
<1>. DEFINE T == {m \in Nat : \E s \in SUBSET S : Cardinality(s) = m /\ s \notin P}
<1>1. T = {}
  <2>. SUFFICES ASSUME T # {} PROVE FALSE
    OBVIOUS
  <2>1. PICK m \in T : \A k \in T : m <= k
    <3>1. T \in SUBSET Nat
      OBVIOUS
    <3>. HIDE DEF T
    <3>. QED BY <3>1, Least
  <2>2. PICK s \in SUBSET S : Cardinality(s) = m /\ s \notin P
    BY <2>1
  <2>3. s # {} /\ p[s] \in s
    BY <2>2 DEF Picks
  <2>4. /\ s \ {p[s]} \in SUBSET S /\ m - 1 \in Nat /\ ~(m <= m - 1)
        /\ Cardinality(s \ {p[s]}) = m - 1
    <3>1. /\ s \ {p[s]} \in SUBSET S
          /\ Cardinality(s) \in Nat /\ Cardinality(s \ {p[s]}) \in Nat
          /\ Cardinality(s \ {p[s]}) = Cardinality(s) - 1
      <4>1. PICK x \in s : x = p[s]
        BY <2>3
      <4>2. /\ s \ {x} \in SUBSET S
            /\ Cardinality(s) \in Nat /\ Cardinality(s \ {x}) \in Nat
            /\ Cardinality(s \ {x}) = Cardinality(s) - 1
        <5>. HIDE DEF T
        <5>. QED BY WithoutOne
      <4>. QED BY <4>1, <4>2
    <3>2. \A c \in Nat, d \in Nat : d = c - 1 => d \in Nat /\ ~(c <= d)
      OBVIOUS
    <3>. HIDE DEF T
    <3>. QED BY <2>2, <3>1, <3>2
  <2>5. m - 1 \notin T
    BY <2>1, <2>4
  <2>6. s \ {p[s]} \in P
    BY <2>4, <2>5
  <2>. QED BY <2>2, <2>3, <2>6
<1>2. \A s \in SUBSET S : Cardinality(s) \in Nat
  BY FS_Subset, FS_CardinalityType
<1>. QED BY <1>1, <1>2

-----------------------------------------------------------------------------
(* Sums                                                                    *)

\* The sum of the weights of the elements of S.
Total(w, S) == MapThenSumSet(LAMBDA x : w[x], S)

\* The element that is taken away, and the equation of the function.
Pick(s) == CHOOSE x \in s : TRUE
Unfolds(w, g, S) ==
  g = [s \in SUBSET S |-> IF s = {} THEN 0 ELSE w[Pick(s)] + g[s \ {Pick(s)}]]

LEMMA TotalIsChoice ==
  ASSUME NEW w, NEW S
  PROVE  Total(w, S) = (CHOOSE g : Unfolds(w, g, S))[S]
  BY DEF Total, MapThenSumSet, MapThenFoldSet, Unfolds, Pick

LEMMA PickIn == ASSUME NEW s, s # {} PROVE Pick(s) \in s
  BY DEF Pick

LEMMA UnfoldingExists ==
  ASSUME NEW S, IsFiniteSet(S), NEW w \in [S -> Nat]
  PROVE  \E g \in [SUBSET S -> Nat] : Unfolds(w, g, S)
<1>. DEFINE p == [s \in SUBSET S |-> Pick(s)]
            e == [x \in S |-> [n \in Nat |-> w[x] + n]]
<1>1. Picks(p, S)
  BY PickIn DEF Picks
<1>2. e \in [S -> [Nat -> Nat]]
  OBVIOUS
<1>3. PICK g : FoldsAll(p, e, 0, g, Nat, S)
  <2>. HIDE DEF p, e
  <2>1. 0 \in Nat
    OBVIOUS
  <2>. QED BY <1>1, <1>2, <2>1, FoldExists
<1>4. ASSUME NEW s \in SUBSET S
      PROVE  g[s] = IF s = {} THEN 0 ELSE w[Pick(s)] + g[s \ {Pick(s)}]
  <2>1. CASE s = {}
    BY <1>3, <2>1 DEF FoldsAll
  <2>2. CASE s # {}
    <3>1. p[s] = Pick(s) /\ Pick(s) \in S /\ s \ {Pick(s)} \in SUBSET S
      BY <2>2, PickIn
    <3>2. g[s] = e[Pick(s)][g[s \ {Pick(s)}]] /\ g[s \ {Pick(s)}] \in Nat
      BY <1>3, <2>2, <3>1 DEF FoldsAll
    <3>. QED BY <2>2, <3>1, <3>2
  <2>. QED BY <2>1, <2>2
<1>5. Unfolds(w, g, S)
  <2>1. DOMAIN g = SUBSET S
    BY <1>3 DEF FoldsAll
  <2>. QED BY <1>3, <1>4 DEF Unfolds, FoldsAll
<1>. QED BY <1>3, <1>5 DEF FoldsAll

LEMMA UnfoldsAt ==
  ASSUME NEW w, NEW g, NEW S, Unfolds(w, g, S), NEW s \in SUBSET S
  PROVE  g[s] = IF s = {} THEN 0 ELSE w[Pick(s)] + g[s \ {Pick(s)}]
  BY DEF Unfolds

LEMMA UnfoldingUnique ==
  ASSUME NEW S, IsFiniteSet(S), NEW R \in SUBSET S, NEW w, NEW g, NEW h,
         Unfolds(w, g, S), Unfolds(w, h, R)
  PROVE  \A s \in SUBSET R : g[s] = h[s]
<1>. DEFINE T == {m \in Nat : \E s \in SUBSET R : Cardinality(s) = m /\ g[s] # h[s]}
<1>1. T = {}
  <2>. SUFFICES ASSUME T # {} PROVE FALSE
    OBVIOUS
  <2>1. PICK m \in T : \A k \in T : m <= k
    <3>1. T \in SUBSET Nat
      OBVIOUS
    <3>. HIDE DEF T
    <3>. QED BY <3>1, Least
  <2>2. PICK s \in SUBSET R : Cardinality(s) = m /\ g[s] # h[s]
    BY <2>1
  <2>3. s \in SUBSET S
    BY <2>2
  <2>4. s # {}
    BY <2>2, <2>3, UnfoldsAt
  <2>5. /\ s \ {Pick(s)} \in SUBSET R /\ m - 1 \in Nat /\ ~(m <= m - 1)
        /\ Cardinality(s \ {Pick(s)}) = m - 1
    <3>0. PICK x \in s : x = Pick(s)
      BY <2>4, PickIn
    <3>1. /\ Cardinality(s) \in Nat /\ Cardinality(s \ {x}) \in Nat
          /\ Cardinality(s \ {x}) = Cardinality(s) - 1
      <4>1. x \in s
        OBVIOUS
      <4>. QED BY <2>3, <4>1, WithoutOne
    <3>2. Cardinality(s \ {Pick(s)}) = m - 1 /\ m \in Nat /\ m - 1 \in Nat
      BY <2>2, <3>0, <3>1
    <3>3. s \ {Pick(s)} \in SUBSET R /\ ~(m <= m - 1)
      BY <2>2, <3>2
    <3>. QED BY <3>2, <3>3
  <2>6. m - 1 \notin T
    BY <2>1, <2>5
  <2>7. g[s \ {Pick(s)}] = h[s \ {Pick(s)}]
    BY <2>5, <2>6
  <2>8. g[s] = w[Pick(s)] + g[s \ {Pick(s)}]
    BY <2>3, <2>4, UnfoldsAt
  <2>9. h[s] = w[Pick(s)] + h[s \ {Pick(s)}]
    BY <2>2, <2>4, UnfoldsAt
  <2>. QED BY <2>2, <2>7, <2>8, <2>9
<1>2. \A s \in SUBSET R : Cardinality(s) \in Nat
  <2>. SUFFICES ASSUME NEW s \in SUBSET R PROVE Cardinality(s) \in Nat
    OBVIOUS
  <2>1. s \in SUBSET S
    OBVIOUS
  <2>. QED BY <2>1, FS_Subset, FS_CardinalityType
<1>. QED BY <1>1, <1>2

\* The sum of a subset is the value of the function there.
GivesTotals(w, g, S) ==
  /\ g \in [SUBSET S -> Nat] /\ Unfolds(w, g, S)
  /\ \A r \in SUBSET S : Total(w, r) = g[r]

LEMMA TotalIsUnfolding ==
  ASSUME NEW S, IsFiniteSet(S), NEW w \in [S -> Nat]
  PROVE  \E g : GivesTotals(w, g, S)
<1>1. PICK g \in [SUBSET S -> Nat] : Unfolds(w, g, S)
  BY UnfoldingExists
<1>2. ASSUME NEW s \in SUBSET S PROVE Total(w, s) = g[s]
  <2>. DEFINE f == CHOOSE f : Unfolds(w, f, s)
  <2>1. \E h : Unfolds(w, h, s)
    <3>. DEFINE h == [r \in SUBSET s |-> g[r]]
    <3>1. \A r \in SUBSET s : r # {} => r \ {Pick(r)} \in SUBSET s
      OBVIOUS
    <3>2. \A r \in SUBSET s :
            h[r] = IF r = {} THEN 0 ELSE w[Pick(r)] + h[r \ {Pick(r)}]
      BY <1>1, <3>1, UnfoldsAt
    <3>3. h = [r \in SUBSET s |-> h[r]]
      OBVIOUS
    <3>. HIDE DEF h
    <3>. QED BY <3>2, <3>3 DEF Unfolds
  <2>2. Unfolds(w, f, s)
    BY <2>1
  <2>3. Total(w, s) = f[s]
    BY TotalIsChoice
  <2>. HIDE DEF f
  <2>. QED BY <1>1, <2>2, <2>3, UnfoldingUnique
<1>. QED BY <1>1, <1>2 DEF GivesTotals

\* The sum is a number, that of nothing is 0, and one element may be taken away.
LEMMA TotalType ==
  ASSUME NEW S, IsFiniteSet(S), NEW w \in [S -> Nat], NEW s \in SUBSET S
  PROVE  Total(w, s) \in Nat
<1>1. PICK g : GivesTotals(w, g, S)
  BY TotalIsUnfolding
<1>2. Total(w, s) = g[s] /\ g[s] \in Nat
  BY <1>1 DEF GivesTotals
<1>. QED BY <1>2

LEMMA TotalOfNothing == ASSUME NEW w PROVE Total(w, {}) = 0
<1>1. IsFiniteSet({})
  BY FS_EmptySet
<1>2. PICK g : Unfolds(w, g, {}) /\ Total(w, {}) = g[{}]
  <2>. DEFINE g == [s \in SUBSET {} |-> 0]
  <2>1. Unfolds(w, g, {})
    BY DEF Unfolds
  <2>. QED BY <2>1, TotalIsChoice
<1>. QED BY <1>2, UnfoldsAt

LEMMA TotalWithoutPick ==
  ASSUME NEW S, IsFiniteSet(S), NEW w \in [S -> Nat], NEW s \in SUBSET S, s # {}
  PROVE  Total(w, s) = w[Pick(s)] + Total(w, s \ {Pick(s)})
<1>1. PICK g : GivesTotals(w, g, S)
  BY TotalIsUnfolding
<1>2. s \ {Pick(s)} \in SUBSET S
  OBVIOUS
<1>3. g[s] = IF s = {} THEN 0 ELSE w[Pick(s)] + g[s \ {Pick(s)}]
  BY <1>1, UnfoldsAt DEF GivesTotals
<1>4. Total(w, s) = g[s] /\ Total(w, s \ {Pick(s)}) = g[s \ {Pick(s)}]
  BY <1>1, <1>2 DEF GivesTotals
<1>. QED BY <1>3, <1>4

LEMMA TotalWithout ==
  ASSUME NEW S, IsFiniteSet(S), NEW w \in [S -> Nat], NEW s \in SUBSET S, NEW x \in s
  PROVE  Total(w, s) = w[x] + Total(w, s \ {x})
<1>. DEFINE T == {m \in Nat : \E r \in SUBSET S : \E y \in r :
                    Cardinality(r) = m /\ Total(w, r) # w[y] + Total(w, r \ {y})}
<1>1. T = {}
  <2>. SUFFICES ASSUME T # {} PROVE FALSE
    OBVIOUS
  <2>1. PICK m \in T : \A k \in T : m <= k
    <3>1. T \in SUBSET Nat
      OBVIOUS
    <3>. HIDE DEF T
    <3>. QED BY <3>1, Least
  <2>2. PICK r \in SUBSET S, y \in S :
          /\ y \in r /\ Cardinality(r) = m
          /\ Total(w, r) # w[y] + Total(w, r \ {y})
    BY <2>1
  <2>3. PICK p : p = Pick(r)
    OBVIOUS
  <2>4. Total(w, r) = w[p] + Total(w, r \ {p})
    BY <2>2, <2>3, TotalWithoutPick
  <2>5. p # y /\ p \in r /\ p \in S /\ y \in S
    BY <2>2, <2>3, <2>4, PickIn
  <2>6. /\ r \ {p} \in SUBSET S /\ r \ {y} \in SUBSET S /\ r \ {p, y} \in SUBSET S
        /\ y \in r \ {p} /\ p \in r \ {y}
        /\ (r \ {p}) \ {y} = r \ {p, y} /\ (r \ {y}) \ {p} = r \ {p, y}
    BY <2>2, <2>5
  <2>7. /\ m - 1 \in Nat /\ ~(m <= m - 1)
        /\ Cardinality(r \ {p}) = m - 1 /\ Cardinality(r \ {y}) = m - 1
    <3>1. IsFiniteSet(r) /\ Cardinality(r) \in Nat
      BY FS_Subset, FS_CardinalityType
    <3>2. /\ Cardinality(r \ {p}) = m - 1 /\ Cardinality(r \ {y}) = m - 1
          /\ IsFiniteSet(r \ {p})
      BY <2>2, <2>5, <3>1, FS_RemoveElement
    <3>3. Cardinality(r \ {p}) \in Nat
      BY <3>2, FS_CardinalityType
    <3>. QED BY <2>2, <3>1, <3>2, <3>3
  <2>8. m - 1 \notin T
    BY <2>1, <2>7
  <2>9. /\ Total(w, r \ {p}) = w[y] + Total(w, r \ {p, y})
        /\ Total(w, r \ {y}) = w[p] + Total(w, r \ {p, y})
    <3>1. \A q \in SUBSET S, z \in S :
            z \in q /\ Cardinality(q) = m - 1 => Total(w, q) = w[z] + Total(w, q \ {z})
      BY <2>7, <2>8
    <3>. HIDE DEF T
    <3>2. Total(w, r \ {p}) = w[y] + Total(w, (r \ {p}) \ {y})
      BY <2>5, <2>6, <2>7, <3>1
    <3>3. Total(w, r \ {y}) = w[p] + Total(w, (r \ {y}) \ {p})
      BY <2>5, <2>6, <2>7, <3>1
    <3>. QED BY <2>6, <3>2, <3>3
  <2>10. w[p] \in Nat /\ w[y] \in Nat /\ Total(w, r \ {p, y}) \in Nat
    BY <2>5, <2>6, TotalType
  <2>. QED BY <2>2, <2>4, <2>9, <2>10
<1>2. Cardinality(s) \in Nat
  BY FS_Subset, FS_CardinalityType
<1>. QED BY <1>1, <1>2

\* One element more.
LEMMA TotalWith ==
  ASSUME NEW S, IsFiniteSet(S), NEW w \in [S -> Nat], NEW s \in SUBSET S,
         NEW x \in S \ s
  PROVE  Total(w, s \cup {x}) = w[x] + Total(w, s)
<1>1. s \cup {x} \in SUBSET S /\ (s \cup {x}) \ {x} = s
  OBVIOUS
<1>. QED BY <1>1, TotalWithout

\* Only the weights of the elements matter.
LEMMA TotalSame ==
  ASSUME NEW w, NEW v, NEW s, IsFiniteSet(s),
         \A x \in s : w[x] \in Nat /\ w[x] = v[x]
  PROVE  Total(w, s) = Total(v, s)
<1>. DEFINE u == [x \in s |-> w[x]]
<1>1. PICK g \in [SUBSET s -> Nat] : Unfolds(u, g, s)
  <2>1. u \in [s -> Nat]
    OBVIOUS
  <2>. HIDE DEF u
  <2>. QED BY <2>1, UnfoldingExists
<1>2. ASSUME NEW r \in SUBSET s
      PROVE  /\ g[r] = IF r = {} THEN 0 ELSE w[Pick(r)] + g[r \ {Pick(r)}]
             /\ g[r] = IF r = {} THEN 0 ELSE v[Pick(r)] + g[r \ {Pick(r)}]
  <2>1. g[r] = IF r = {} THEN 0 ELSE u[Pick(r)] + g[r \ {Pick(r)}]
    <3>. HIDE DEF u
    <3>. QED BY <1>1, UnfoldsAt
  <2>2. r # {} => Pick(r) \in s
    BY PickIn
  <2>. QED BY <2>1, <2>2
<1>3. Unfolds(w, g, s) /\ Unfolds(v, g, s)
  BY <1>2 DEF Unfolds
<1>4. ASSUME NEW x, Unfolds(x, g, s) PROVE Total(x, s) = g[s]
  <2>. DEFINE f == CHOOSE f : Unfolds(x, f, s)
  <2>1. Unfolds(x, f, s)
    BY <1>4
  <2>2. Total(x, s) = f[s]
    BY TotalIsChoice
  <2>. HIDE DEF f
  <2>. QED BY <1>4, <2>1, <2>2, UnfoldingUnique
<1>. QED BY <1>3, <1>4

-----------------------------------------------------------------------------
(* Other folds                                                             *)

\* What is made of the elements of S, one after the other, stays in V.
LEMMA FoldStays ==
  ASSUME NEW S, IsFiniteSet(S), NEW p, Picks(p, S), NEW V, NEW g, g[{}] \in V,
         \A s \in SUBSET S : s # {} /\ g[s \ {p[s]}] \in V => g[s] \in V
  PROVE  \A s \in SUBSET S : g[s] \in V
<1>. DEFINE P == {s \in SUBSET S : g[s] \in V}
<1>1. {} \in P /\ \A s \in SUBSET S : s # {} /\ s \ {p[s]} \in P => s \in P
  OBVIOUS
<1>2. \A s \in SUBSET S : s \in P
  <2>. HIDE DEF P
  <2>. QED BY <1>1, SubsetInduction
<1>. QED BY <1>2

\* The largest of some numbers is one of them.
LEMMA Largest ==
  ASSUME NEW n \in Nat, NEW T \in SUBSET (0..n), T # {}
  PROVE  Max(T) \in T /\ \A m \in T : m <= Max(T)
<1>. DEFINE U == {k \in 0..n : n - k \in T}
<1>1. U \in SUBSET Nat /\ U # {}
  <2>1. PICK t \in T : TRUE
    OBVIOUS
  <2>2. n - t \in 0..n /\ n - (n - t) = t
    OBVIOUS
  <2>. QED BY <2>2
<1>2. PICK k \in U : \A m \in U : k <= m
  <2>. HIDE DEF U
  <2>. QED BY <1>1, Least
<1>3. ASSUME NEW m \in T PROVE m <= n - k
  <2>1. n - m \in 0..n /\ n - (n - m) = m
    OBVIOUS
  <2>2. k <= n - m
    BY <1>2, <2>1
  <2>. QED BY <2>2
<1>4. n - k \in T /\ \A m \in T : n - k >= m
  BY <1>3
<1>. QED BY <1>4 DEF Max
=============================================================================
