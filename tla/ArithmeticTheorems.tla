------------------------- MODULE ArithmeticTheorems -------------------------
(***************************************************************************)
(* Theorems about the numbers of the models: least elements, the sums of   *)
(* Sums, counting modulo a word, and the rounding of RtaAlign.             *)
(*                                                                         *)
(* A sum is a fold of the library, which is a function that is chosen by   *)
(* its recursion.  The lemmas show that the recursion has a solution and   *)
(* only one, and from it, by induction over the subsets of the set that is *)
(* added up, that the order of the elements does not matter.               *)
(***************************************************************************)
EXTENDS Sums, RtaAlign, FiniteSetTheorems, WellFoundedInduction, TLAPS

-----------------------------------------------------------------------------
(* Numbers and subsets, for proofs by induction.                           *)

\* A set of natural numbers that is not empty has a least element, since the
\* order of the natural numbers is well founded.
LEMMA LeastNatural ==
    ASSUME NEW T \in SUBSET Nat, T # {}
    PROVE  \E k \in T : \A j \in T : k <= j
<1> DEFINE Less == {p \in Nat \X Nat : p[1] < p[2]}
<1>1. Less = OpToRel(<, Nat)
  BY DEF OpToRel
<1>2. IsWellFoundedOn(Less, Nat)
  BY <1>1, NatLessThanWellFounded, Zenon
<1>3. \A j, k \in Nat : j < k => <<j, k>> \in Less
  OBVIOUS
<1> HIDE DEF Less
<1>4. PICK k \in T : \A j \in T : <<j, k>> \notin Less
  BY WFMin, <1>2
<1>5. ASSUME NEW j \in T
      PROVE  k <= j
  <2>1. j \in Nat /\ k \in Nat
    OBVIOUS
  <2>2. ~(j < k)
    BY <1>3, <1>4, <2>1, Zenon
  <2> QED
    BY <2>1, <2>2, SMT
<1> QED
  BY <1>5

\* Of a set of subsets of a finite set, one that contains no other of them.
LEMMA SmallestSubset ==
    ASSUME NEW S, IsFiniteSet(S), NEW T \in SUBSET SUBSET S, T # {}
    PROVE  \E s \in T : \A r \in T : r \subseteq s => r = s
<1> DEFINE Cards == {Cardinality(s) : s \in T}
<1>1. \A s \in T : IsFiniteSet(s) /\ Cardinality(s) \in Nat
  BY FS_Subset, FS_CardinalityType
<1>2. Cards \in SUBSET Nat /\ Cards # {}
  BY <1>1
<1>3. PICK k \in Cards : \A j \in Cards : k <= j
  BY <1>2, LeastNatural
<1>4. PICK s \in T : k = Cardinality(s)
  BY <1>3
<1>5. ASSUME NEW r \in T, r \subseteq s
      PROVE  r = s
  <2>1. Cardinality(r) <= Cardinality(s) /\ (Cardinality(s) = Cardinality(r) => s = r)
    BY <1>1, <1>5, FS_Subset
  <2>2. Cardinality(s) <= Cardinality(r)
    BY <1>3, <1>4
  <2> QED
    BY <2>1, <2>2, <1>1
<1> QED
  BY <1>4, <1>5

\* A set of natural numbers that is not empty has a least element.
LEMMA MinIsLeast ==
    ASSUME NEW S \in SUBSET Nat, S # {}
    PROVE  Min(S) \in S /\ \A x \in S : Min(S) <= x
<1>1. PICK x \in S : \A y \in S : x <= y
  BY LeastNatural
<1> QED
  BY <1>1, Zenon DEF Min

\* A finite set of integers that is not empty has a greatest element.
LEMMA MaxIsGreatest ==
    ASSUME NEW S, IsFiniteSet(S), S # {}, \A x \in S : x \in Int
    PROVE  Max(S) \in S /\ \A x \in S : Max(S) >= x
<1> DEFINE Has(R) == \E x \in R : \A y \in R : x >= y
           T == {R \in SUBSET S : R # {} /\ ~Has(R)}
<1>1. T = {}
  <2>1. SUFFICES ASSUME T # {} PROVE FALSE
    OBVIOUS
  <2>2. PICK R \in T : \A r \in T : r \subseteq R => r = R
    <3>1. T \in SUBSET SUBSET S /\ T # {}
      BY <2>1
    <3> HIDE DEF T, Has
    <3> QED
      BY <3>1, SmallestSubset
  <2>3. PICK x \in R : x \in Int
    OBVIOUS
  <2>4. CASE R \ {x} = {}
    BY <2>3, <2>4
  <2>5. CASE R \ {x} # {}
    <3>1. Has(R \ {x})
      <4>1. R \ {x} \in SUBSET S /\ R \ {x} \subseteq R /\ R \ {x} # R
        BY <2>3
      <4>2. R \ {x} \notin T
        BY <2>2, <4>1, Zenon
      <4> HIDE DEF Has
      <4> QED
        BY <2>5, <4>1, <4>2
    <3>2. PICK y \in R \ {x} : \A z \in R \ {x} : y >= z
      BY <3>1
    <3>3. x >= y \/ y >= x
      BY <2>3, <3>2
    <3> QED
      BY <2>3, <3>2, <3>3
  <2> QED
    BY <2>4, <2>5
<1>2. Has(S)
  BY <1>1
<1> QED
  BY <1>2 DEF Max

-----------------------------------------------------------------------------
(* Sums.                                                                   *)

\* The element of s that the fold takes next.
Picked(s) == CHOOSE x \in s : TRUE

\* What the fold does with s, given what it makes of the smaller sets.
FoldStep(f, s, g) == IF s = {} THEN 0 ELSE f[Picked(s)] + g[s \ {Picked(s)}]

\* g is the function that the fold defines by recursion on the subsets of S.
IsFold(f, S, g) == g = [s \in SUBSET S |-> FoldStep(f, s, g)]

\* The fold of the library is a function chosen by its recursion.
LEMMA SumIsChosen ==
    ASSUME NEW f, NEW S
    PROVE  SumOver(f, S) = (CHOOSE g : IsFold(f, S, g))[S]
<1>1. (CHOOSE g : IsFold(f, S, g))
        = (CHOOSE g : g = [s \in SUBSET S |->
              IF s = {} THEN 0
              ELSE f[CHOOSE x \in s : TRUE] + g[s \ {CHOOSE x \in s : TRUE}]])
  BY Zenon DEF IsFold, FoldStep, Picked
<1>2. SumOver(f, S)
        = (CHOOSE g : g = [s \in SUBSET S |->
              IF s = {} THEN 0
              ELSE f[CHOOSE x \in s : TRUE] + g[s \ {CHOOSE x \in s : TRUE}]])[S]
  BY Zenon DEF SumOver, MapThenSumSet, MapThenFoldSet
<1> QED
  BY <1>1, <1>2

\* What is picked is an element.
LEMMA PickedIn ==
    ASSUME NEW S, S # {}
    PROVE  Picked(S) \in S
  BY DEF Picked

\* The recursion of the fold defines a function.
LEMMA FoldExists ==
    ASSUME NEW f, NEW S, IsFiniteSet(S)
    PROVE  \E g : IsFold(f, S, g)
<1> DEFINE Upto(n, g) == \A s \in SUBSET S : Cardinality(s) <= n => g[s] = FoldStep(f, s, g)
           T == {n \in Nat : ~ \E g : Upto(n, g)}
<1>1. \A s \in SUBSET S : IsFiniteSet(s) /\ Cardinality(s) \in Nat
                            /\ (Cardinality(s) = 0 => s = {})
                            /\ Cardinality(s) <= Cardinality(S)
                            /\ \A x \in s : Cardinality(s \ {x}) = Cardinality(s) - 1
  BY FS_Subset, FS_CardinalityType, FS_EmptySet, FS_RemoveElement
<1>2. T = {}
  <2>1. SUFFICES ASSUME T # {} PROVE FALSE
    OBVIOUS
  <2>2. PICK n \in T : \A j \in T : n <= j
    BY <2>1, LeastNatural
  <2>3. CASE n = 0
    <3>1. Upto(0, [s \in SUBSET S |-> 0])
      BY <1>1 DEF FoldStep
    <3> QED
      BY <3>1, <2>2, <2>3
  <2>4. CASE n # 0
    <3>1. n - 1 \in Nat /\ n - 1 \notin T
      BY <2>2, <2>4
    <3>2. PICK g : Upto(n - 1, g)
      BY <3>1
    <3> DEFINE h == [s \in SUBSET S |-> FoldStep(f, s, g)]
    <3>3. ASSUME NEW s \in SUBSET S, Cardinality(s) <= n
          PROVE  h[s] = FoldStep(f, s, h)
      <4>1. CASE s = {}
        BY <4>1 DEF FoldStep
      <4>2. CASE s # {}
        <5> DEFINE r == s \ {Picked(s)}
        <5>1. Picked(s) \in s
          BY <4>2, PickedIn
        <5>2. r \in SUBSET S /\ Cardinality(r) <= n - 1
          BY <5>1, <1>1, <3>3, <2>2
        <5>3. g[r] = h[r]
          BY <5>2, <3>2
        <5> QED
          BY <4>2, <5>3 DEF FoldStep
      <4> QED
        BY <4>1, <4>2
    <3>4. Upto(n, h)
      BY <3>3
    <3> QED
      BY <3>4, <2>2
  <2> QED
    BY <2>3, <2>4
<1>3. Cardinality(S) \in Nat /\ Cardinality(S) \notin T
  BY <1>1, <1>2
<1>4. PICK g : Upto(Cardinality(S), g)
  BY <1>3
<1> DEFINE h == [s \in SUBSET S |-> g[s]]
<1>5. \A s \in SUBSET S : g[s] = FoldStep(f, s, g)
  BY <1>4, <1>1
<1>6. \A s \in SUBSET S : FoldStep(f, s, g) = FoldStep(f, s, h)
  BY PickedIn DEF FoldStep
<1>7. IsFold(f, S, h)
  BY <1>5, <1>6 DEF IsFold
<1> QED
  BY <1>7

\* It is the same function of a subset, whatever the set it is defined for.
LEMMA FoldUnique ==
    ASSUME NEW f, NEW S, IsFiniteSet(S), NEW R \in SUBSET S,
           NEW g, NEW h, IsFold(f, S, g), IsFold(f, R, h)
    PROVE  \A s \in SUBSET R : g[s] = h[s]
<1> DEFINE T == {s \in SUBSET R : g[s] # h[s]}
<1>1. SUFFICES ASSUME T # {} PROVE FALSE
  OBVIOUS
<1> HIDE DEF T
<1>2. PICK s \in T : \A r \in T : r \subseteq s => r = s
  <2>1. IsFiniteSet(R) /\ T \in SUBSET SUBSET R
    BY FS_Subset DEF T
  <2> QED
    BY <2>1, <1>1, SmallestSubset
<1> USE DEF T
<1>3. g[s] = FoldStep(f, s, g) /\ h[s] = FoldStep(f, s, h)
  BY Zenon DEF IsFold
<1>4. s # {}
  BY <1>3 DEF FoldStep
<1>5. Picked(s) \in s
  BY <1>4, PickedIn
<1>6. g[s \ {Picked(s)}] = h[s \ {Picked(s)}]
  BY <1>2, <1>5
<1> QED
  BY <1>3, <1>6 DEF FoldStep

\* The recursion, at the whole set: the element picked, and the sum of the rest.
LEMMA SumStep ==
    ASSUME NEW f, NEW S, IsFiniteSet(S)
    PROVE  SumOver(f, S)
             = IF S = {} THEN 0 ELSE f[Picked(S)] + SumOver(f, S \ {Picked(S)})
<1>1. PICK g : IsFold(f, S, g) /\ SumOver(f, S) = g[S]
  BY FoldExists, SumIsChosen, Zenon
<1>2. g[S] = FoldStep(f, S, g)
  BY <1>1, Zenon DEF IsFold
<1>3. CASE S # {}
  <2> DEFINE R == S \ {Picked(S)}
  <2>1. R \in SUBSET S /\ IsFiniteSet(R)
    BY FS_RemoveElement
  <2> HIDE DEF R
  <2>2. PICK h : IsFold(f, R, h) /\ SumOver(f, R) = h[R]
    BY <2>1, FoldExists, SumIsChosen, Zenon
  <2>3. g[R] = h[R]
    BY <2>1, <2>2, <1>1, FoldUnique
  <2> QED
    BY <1>1, <1>2, <1>3, <2>2, <2>3 DEF FoldStep, R
<1> QED
  BY <1>1, <1>2, <1>3 DEF FoldStep

\* One element is added to what the others make, whichever it is.
LEMMA SumRemove ==
    ASSUME NEW S, IsFiniteSet(S), NEW f, \A y \in S : f[y] \in Int
    PROVE  /\ SumOver(f, S) \in Int
           /\ \A x \in S : SumOver(f, S) = f[x] + SumOver(f, S \ {x})
<1> DEFINE Law(R) == /\ SumOver(f, R) \in Int
                     /\ \A x \in R : SumOver(f, R) = f[x] + SumOver(f, R \ {x})
           T == {R \in SUBSET S : ~Law(R)}
<1>1. SUFFICES T = {}
  OBVIOUS
<1>2. SUFFICES ASSUME T # {} PROVE FALSE
  OBVIOUS
<1>3. PICK R \in T : \A r \in T : r \subseteq R => r = R
  <2> HIDE DEF T
  <2>1. T \in SUBSET SUBSET S
    BY DEF T
  <2> QED
    BY <2>1, <1>2, SmallestSubset
<1>4. R \in SUBSET S /\ IsFiniteSet(R) /\ ~Law(R)
  BY FS_Subset
<1>5. \A r \in SUBSET R : r # R => Law(r)
  BY <1>3
<1> HIDE DEF T
<1>6. SumOver(f, R) = IF R = {} THEN 0 ELSE f[Picked(R)] + SumOver(f, R \ {Picked(R)})
  BY <1>4, SumStep
<1>7. CASE R = {}
  BY <1>4, <1>6, <1>7
<1>8. CASE R # {}
  <2> DEFINE p == Picked(R)
             Rp == R \ {p}
  <2>1. p \in R /\ f[p] \in Int
    BY <1>8, <1>4, PickedIn
  <2> HIDE DEF p
  <2>2. Law(Rp)
    BY <2>1, <1>5
  <2>3. SumOver(f, R) = f[p] + SumOver(f, Rp)
    BY <1>6, <1>8 DEF p
  <2>4. SumOver(f, R) \in Int
    BY <2>1, <2>2, <2>3
  <2>5. ASSUME NEW x \in R, x # p
        PROVE  SumOver(f, R) = f[x] + SumOver(f, R \ {x})
    <3> DEFINE Rx == R \ {x}
               Rpx == Rp \ {x}
    <3>1. Law(Rx) /\ x \in Rp /\ p \in Rx /\ Rx \ {p} = Rpx
      BY <2>1, <2>5, <1>5
    <3>2. Law(Rpx)
      BY <2>1, <2>5, <1>5
    <3>3. SumOver(f, Rp) = f[x] + SumOver(f, Rpx)
      BY <2>2, <3>1
    <3>4. SumOver(f, Rx) = f[p] + SumOver(f, Rpx)
      BY <3>1
    <3>5. f[x] \in Int /\ SumOver(f, Rpx) \in Int
      BY <1>4, <3>2
    <3> HIDE DEF Rx, Rpx, Rp
    <3>6. SumOver(f, R) = f[x] + SumOver(f, Rx)
      BY <2>1, <2>3, <3>3, <3>4, <3>5
    <3> QED
      BY <3>6 DEF Rx
  <2>6. Law(R)
    BY <2>3, <2>4, <2>5
  <2> QED
    BY <2>6, <1>4
<1> QED
  BY <1>7, <1>8

\* The sum of nothing.
LEMMA SumEmpty ==
    ASSUME NEW f
    PROVE  SumOver(f, {}) = 0
  BY SumStep, FS_EmptySet

\* The sum depends only on the values that are added.
LEMMA SumSame ==
    ASSUME NEW S, IsFiniteSet(S), NEW f, NEW g, \A y \in S : f[y] = g[y]
    PROVE  SumOver(f, S) = SumOver(g, S)
<1> DEFINE T == {R \in SUBSET S : SumOver(f, R) # SumOver(g, R)}
<1>1. SUFFICES ASSUME T # {} PROVE FALSE
  OBVIOUS
<1>2. PICK R \in T : \A r \in T : r \subseteq R => r = R
  <2> HIDE DEF T
  <2>1. T \in SUBSET SUBSET S
    BY DEF T
  <2> QED
    BY <2>1, <1>1, SmallestSubset
<1>3. R \in SUBSET S /\ IsFiniteSet(R) /\ SumOver(f, R) # SumOver(g, R)
  BY FS_Subset
<1>4. \A r \in SUBSET R : r # R => SumOver(f, r) = SumOver(g, r)
  BY <1>2
<1> HIDE DEF T
<1>5. SumOver(f, R) = IF R = {} THEN 0 ELSE f[Picked(R)] + SumOver(f, R \ {Picked(R)})
  BY <1>3, SumStep
<1>6. SumOver(g, R) = IF R = {} THEN 0 ELSE g[Picked(R)] + SumOver(g, R \ {Picked(R)})
  BY <1>3, SumStep
<1>7. R # {}
  BY <1>3, <1>5, <1>6
<1>8. Picked(R) \in R
  BY <1>7, PickedIn
<1>9. SumOver(f, R \ {Picked(R)}) = SumOver(g, R \ {Picked(R)})
  BY <1>8, <1>4
<1> QED
  BY <1>3, <1>5, <1>6, <1>7, <1>8, <1>9

\* A sum over one element more.
LEMMA SumAdd ==
    ASSUME NEW S, IsFiniteSet(S), NEW x, x \notin S,
           NEW f, \A y \in S \cup {x} : f[y] \in Int
    PROVE  /\ SumOver(f, S) \in Int
           /\ SumOver(f, S \cup {x}) = f[x] + SumOver(f, S)
<1>1. IsFiniteSet(S \cup {x}) /\ (S \cup {x}) \ {x} = S
  BY FS_AddElement
<1> QED
  BY <1>1, SumRemove

\* A sum of natural numbers is one, and not less than that of some of them.
LEMMA SumBounds ==
    ASSUME NEW S, IsFiniteSet(S), NEW f, \A y \in S : f[y] \in Nat, NEW R \in SUBSET S
    PROVE  SumOver(f, R) \in Nat /\ SumOver(f, R) <= SumOver(f, S)
<1>1. ASSUME NEW P \in SUBSET S
      PROVE  SumOver(f, P) \in Int /\ SumOver(f, P) <= SumOver(f, S)
  <2> DEFINE T == {Q \in SUBSET S : P \subseteq Q /\ ~(SumOver(f, P) <= SumOver(f, Q))}
  <2>1. \A Q \in SUBSET S :
           /\ IsFiniteSet(Q) /\ SumOver(f, Q) \in Int
           /\ \A x \in Q : SumOver(f, Q) = f[x] + SumOver(f, Q \ {x})
    <3> TAKE Q \in SUBSET S
    <3>1. IsFiniteSet(Q) /\ \A y \in Q : f[y] \in Int
      BY FS_Subset
    <3> QED
      BY <3>1, SumRemove
  <2>2. T = {}
    <3>1. SUFFICES ASSUME T # {} PROVE FALSE
      OBVIOUS
    <3>2. PICK Q \in T : \A r \in T : r \subseteq Q => r = Q
      <4> HIDE DEF T
      <4>1. T \in SUBSET SUBSET S
        BY DEF T
      <4> QED
        BY <4>1, <3>1, SmallestSubset
    <3>3. Q \in SUBSET S /\ P \subseteq Q /\ ~(SumOver(f, P) <= SumOver(f, Q))
      OBVIOUS
    <3>4. Q # P
      BY <2>1, <3>3
    <3>5. PICK x \in Q : x \notin P
      BY <3>3, <3>4
    <3>6. SumOver(f, P) <= SumOver(f, Q \ {x})
      BY <3>2, <3>3, <3>5
    <3>7. SumOver(f, Q) = f[x] + SumOver(f, Q \ {x}) /\ f[x] \in Nat
      BY <2>1, <3>3, <3>5
    <3>8. SumOver(f, P) \in Int /\ SumOver(f, Q \ {x}) \in Int
      BY <2>1, <3>3
    <3> QED
      BY <3>3, <3>6, <3>7, <3>8
  <2> QED
    BY <2>1, <2>2
<1>2. SumOver(f, {}) <= SumOver(f, R)
  <2>1. IsFiniteSet(R) /\ \A y \in R : f[y] \in Nat
    BY FS_Subset
  <2> DEFINE T == {Q \in SUBSET R : ~(0 <= SumOver(f, Q))}
  <2>2. T = {}
    <3>1. SUFFICES ASSUME T # {} PROVE FALSE
      OBVIOUS
    <3>2. PICK Q \in T : \A r \in T : r \subseteq Q => r = Q
      <4> HIDE DEF T
      <4>1. T \in SUBSET SUBSET R
        BY DEF T
      <4> QED
        BY <2>1, <4>1, <3>1, SmallestSubset
    <3>3. Q # {}
      BY SumEmpty
    <3>4. PICK x \in Q : TRUE
      BY <3>3
    <3>5. IsFiniteSet(Q) /\ \A y \in Q : f[y] \in Int
      BY <2>1, FS_Subset
    <3>6. SumOver(f, Q) = f[x] + SumOver(f, Q \ {x}) /\ SumOver(f, Q) \in Int
      BY <3>4, <3>5, SumRemove
    <3>7. 0 <= SumOver(f, Q \ {x}) /\ SumOver(f, Q \ {x}) \in Int
      BY <1>1, <3>2, <3>4
    <3> QED
      BY <2>1, <3>2, <3>4, <3>6, <3>7
  <2> QED
    BY <2>2, SumEmpty
<1> QED
  BY <1>1, <1>2, SumEmpty

-----------------------------------------------------------------------------
(* Counting modulo a word.                                                 *)

\* Remainders are unique.
LEMMA Remainder ==
    ASSUME NEW w \in Nat \ {0}, NEW k \in Int, NEW r \in 0 .. w - 1
    PROVE  (w * k + r) % w = r
  BY Z3

\* Division leaves a remainder.
LEMMA Division ==
    ASSUME NEW w \in Nat \ {0}, NEW x \in Int
    PROVE  /\ x % w \in 0 .. w - 1
           /\ \E k \in Int : x = w * k + (x % w)
<1>1. x = w * (x \div w) + (x % w) /\ x \div w \in Int
  BY Z3
<1>2. x % w \in 0 .. w - 1
  BY Z3
<1> QED
  BY <1>1, <1>2, Zenon

\* Counting modulo w, a remainder is as good as the number.
LEMMA AddToRemainder ==
    ASSUME NEW w \in Nat \ {0}, NEW x \in Int, NEW t \in Int
    PROVE  ((x % w) + t) % w = (x + t) % w
<1>1. PICK k \in Int : x = w * k + (x % w)
  BY Division
<1>2. PICK m : m = x % w
  OBVIOUS
<1>3. m \in Int
  BY <1>2, Division
<1>4. PICK y \in Int : y = m + t
  BY <1>3
<1>5. PICK j \in Int : y = w * j + (y % w)
  BY Division
<1>6. PICK r \in 0 .. w - 1 : r = y % w
  BY Division
<1>7. PICK a \in Int, b \in Int, c \in Int : a = w * k /\ b = w * j /\ c = w * (k + j)
  OBVIOUS
<1>8. c = a + b
  BY <1>7
<1>9. x = a + m
  BY <1>1, <1>2, <1>7
<1>10. y = b + r
  BY <1>5, <1>6, <1>7
<1>11. x + t = c + r
  BY <1>3, <1>4, <1>8, <1>9, <1>10
<1>12. (w * (k + j) + r) % w = r
  BY Remainder
<1> QED
  BY <1>2, <1>4, <1>6, <1>7, <1>11, <1>12

-----------------------------------------------------------------------------
(* The room that a socket address takes.                                   *)

\* "It rounds up sa_len to a multiple of rtaAlignTo, with a minimum of
\* rtaAlignTo" (bsdroute_bsd.go:154): the least multiple that is not less, for
\* every length byte whose multiple fits in eight bits.
THEOREM RtaAlignRoundsUp ==
    ASSUME NEW a \in {4, 8}, NEW n \in 0 .. 256 - a
    PROVE  /\ RtaAlign(a, n) \in a .. 255
           /\ RtaAlign(a, n) % a = 0
           /\ n <= RtaAlign(a, n)
           /\ \A k \in a .. 255 : k % a = 0 /\ n <= k => RtaAlign(a, n) <= k
<1>1. CASE a = 4
  BY <1>1, Z3 DEF RtaAlign
<1>2. CASE a = 8
  BY <1>2, Z3 DEF RtaAlign
<1> QED
  BY <1>1, <1>2

\* So it is the room the kernel gives the address (bsdroute_bsd.go:156),
\* and a parser that advances by it stays in step with the kernel.
THEOREM RtaAlignIsPadded ==
    ASSUME NEW a \in {4, 8}, NEW n \in 0 .. 256 - a
    PROVE  RtaAlign(a, n) = Padded(a, n)
<1>1. CASE a = 4
  BY <1>1, Z3 DEF RtaAlign, Padded
<1>2. CASE a = 8
  BY <1>2, Z3 DEF RtaAlign, Padded
<1> QED
  BY <1>1, <1>2

\* The bound is exact: of a greater length byte the sum wraps around and the
\* result is 0, so that ParseAddrs would not advance (bsdroute_bsd.go:145-149).
THEOREM RtaAlignWraps ==
    ASSUME NEW a \in {4, 8}, NEW n \in 257 - a .. 255
    PROVE  RtaAlign(a, n) = 0
<1>1. CASE a = 4
  BY <1>1, Z3 DEF RtaAlign
<1>2. CASE a = 8
  BY <1>2, Z3 DEF RtaAlign
<1> QED
  BY <1>1, <1>2
=============================================================================
