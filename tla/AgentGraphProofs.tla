-------------------------- MODULE AgentGraphProofs --------------------------
(***************************************************************************)
(* Proofs about Retrieval and AgentGraph, for any passages, results of the *)
(* searches, replies of the LLM and limits.                                *)
(***************************************************************************)
EXTENDS AgentGraph, FiniteSetTheorems, FunctionTheorems, NaturalsInduction,
        SequenceTheorems, WellFoundedInduction, TLAPS

-----------------------------------------------------------------------------
(* Ordering a set.                                                         *)

\* The place of x: how many elements of S come before it.
Before(S, R, x) == {y \in S : <<y, x>> \in R}

StrictOrder(S, R) ==
  /\ \A x \in S : <<x, x>> \notin R
  /\ \A x, y \in S : x # y => <<x, y>> \in R \/ <<y, x>> \in R
  /\ \A x, y, z \in S : <<x, y>> \in R /\ <<y, z>> \in R => <<x, z>> \in R

LEMMA PlaceType ==
  ASSUME NEW S, IsFiniteSet(S), NEW R, StrictOrder(S, R), NEW x \in S
  PROVE  /\ IsFiniteSet(Before(S, R, x)) /\ Cardinality(Before(S, R, x)) \in Nat
         /\ Cardinality(Before(S, R, x)) < Cardinality(S)
<1> DEFINE n == Cardinality(S)
<1>1. n \in Nat
  BY FS_CardinalityType
<1>2. Before(S, R, x) \in SUBSET S /\ x \in S \ Before(S, R, x)
  BY DEF Before, StrictOrder
<1>3. IsFiniteSet(Before(S, R, x)) /\ Cardinality(Before(S, R, x)) <= n
      /\ (Cardinality(Before(S, R, x)) = n => Before(S, R, x) = S)
  BY <1>2, FS_Subset
<1>4. Cardinality(Before(S, R, x)) \in Nat
  BY <1>3, FS_CardinalityType
<1> QED
  BY <1>1, <1>2, <1>3, <1>4

\* What comes before x comes before everything that x comes before.
LEMMA PlaceGrows ==
  ASSUME NEW S, IsFiniteSet(S), NEW R, StrictOrder(S, R),
         NEW x \in S, NEW y \in S, <<x, y>> \in R
  PROVE  Cardinality(Before(S, R, x)) < Cardinality(Before(S, R, y))
<1>1. Before(S, R, x) \cup {x} \in SUBSET Before(S, R, y)
  BY DEF Before, StrictOrder
<1>2. x \notin Before(S, R, x)
  BY DEF Before, StrictOrder
<1>3. /\ IsFiniteSet(Before(S, R, x) \cup {x})
      /\ Cardinality(Before(S, R, x) \cup {x}) = Cardinality(Before(S, R, x)) + 1
  BY PlaceType, <1>2, FS_AddElement
<1>4. Cardinality(Before(S, R, x) \cup {x}) <= Cardinality(Before(S, R, y))
  BY PlaceType, <1>1, FS_Subset
<1> QED
  BY PlaceType, <1>3, <1>4

\* Places are different numbers from zero on.
LEMMA Places ==
  ASSUME NEW S, IsFiniteSet(S), NEW R, StrictOrder(S, R)
  PROVE  [x \in S |-> Cardinality(Before(S, R, x))] \in
           Bijection(S, 0 .. Cardinality(S) - 1)
<1> DEFINE n == Cardinality(S)
           f == [x \in S |-> Cardinality(Before(S, R, x))]
<1>1. n \in Nat
  BY FS_CardinalityType
<1>2. \A x \in S : /\ IsFiniteSet(Before(S, R, x)) /\ Cardinality(Before(S, R, x)) \in Nat
                   /\ Cardinality(Before(S, R, x)) < n
  BY PlaceType
<1>3. \A x, y \in S :
        <<x, y>> \in R => Cardinality(Before(S, R, x)) < Cardinality(Before(S, R, y))
  BY PlaceGrows
<1> HIDE DEF n
<1>4. f \in [S -> 0 .. n - 1]
  BY <1>1, <1>2
<1>5. \A x, y \in S : f[x] = f[y] => x = y
  <2> SUFFICES ASSUME NEW x \in S, NEW y \in S, x # y
               PROVE  f[x] # f[y]
    OBVIOUS
  <2>1. f[x] = Cardinality(Before(S, R, x)) /\ f[y] = Cardinality(Before(S, R, y))
    OBVIOUS
  <2>2. <<x, y>> \in R \/ <<y, x>> \in R
    BY DEF StrictOrder
  <2> HIDE DEF f
  <2> QED
    BY <1>2, <1>3, <2>1, <2>2
<1> HIDE DEF f
<1>6. f \in Injection(S, 0 .. n - 1)
  <2>1. DOMAIN f = S
    BY <1>4
  <2>2. IsInjective(f)
    BY <1>5, <2>1 DEF IsInjective
  <2> QED
    BY <1>4, <2>2 DEF Injection
<1>7. IsFiniteSet(0 .. n - 1) /\ Cardinality(0 .. n - 1) = n
  BY <1>1, FS_Interval
<1>8. f \in Surjection(S, 0 .. n - 1)
  BY <1>6, <1>7, FS_Injection DEF n
<1> QED
  BY <1>6, <1>8 DEF Bijection, n, f

\* Sorted lists every element of S once, in the order of R.
LEMMA SortedLists ==
  ASSUME NEW S, IsFiniteSet(S), NEW R, StrictOrder(S, R)
  PROVE  /\ Sorted(S, R) \in Seq(S)
         /\ Len(Sorted(S, R)) = Cardinality(S)
         /\ DOMAIN Sorted(S, R) = 1 .. Cardinality(S)
         /\ ToSet(Sorted(S, R)) = S
         /\ IsInjective(Sorted(S, R))
         /\ \A i, j \in DOMAIN Sorted(S, R) :
              i < j => <<Sorted(S, R)[i], Sorted(S, R)[j]>> \in R
<1> DEFINE n == Cardinality(S)
           f == [x \in S |-> Cardinality(Before(S, R, x))]
           s == Sorted(S, R)
<1>1. n \in Nat
  BY FS_CardinalityType
<1>2. f \in Bijection(S, 0 .. n - 1)
  BY Places
<1>3. /\ f \in [S -> 0 .. n - 1]
      /\ \A x, y \in S : f[x] = f[y] => x = y
      /\ \A k \in 0 .. n - 1 : \E x \in S : f[x] = k
  BY <1>2 DEF Bijection, Injection, IsInjective, Surjection
<1>4. \A x \in S : f[x] = Cardinality({y \in S : <<y, x>> \in R})
  BY DEF Before
<1>5. \A x, y \in S : <<x, y>> \in R => f[x] < f[y]
  BY PlaceGrows, <1>2
<1> HIDE DEF f
<1>6. \A k \in 1 .. n : s[k] \in S /\ f[s[k]] = k - 1
  <2> TAKE k \in 1 .. n
  <2>1. k - 1 \in 0 .. n - 1
    BY <1>1
  <2>2. \E x \in S : Cardinality({y \in S : <<y, x>> \in R}) = k - 1
    BY <1>3, <1>4, <2>1
  <2>3. s[k] = CHOOSE x \in S : Cardinality({y \in S : <<y, x>> \in R}) = k - 1
    BY DEF Sorted
  <2>4. s[k] \in S /\ Cardinality({y \in S : <<y, s[k]>> \in R}) = k - 1
    BY <2>2, <2>3
  <2> QED
    BY <1>4, <2>4
<1>7. DOMAIN s = 1 .. n /\ s \in Seq(S) /\ Len(s) = n
  <2>1. DOMAIN s = 1 .. n
    BY DEF Sorted
  <2>2. \A k \in 1 .. n :
          (CHOOSE x \in S : Cardinality({y \in S : <<y, x>> \in R}) = k - 1) \in S
    BY <1>6 DEF Sorted
  <2>3. s \in [1 .. n -> S]
    BY <2>2, Zenon DEF Sorted
  <2> QED
    BY <1>1, <2>3
<1> HIDE DEF n, s
<1>8. ASSUME NEW x \in S
      PROVE  \E k \in 1 .. n : s[k] = x
  <2>1. f[x] \in 0 .. n - 1
    BY <1>3
  <2>2. PICK k \in 1 .. n : k = f[x] + 1
    BY <1>1, <2>1
  <2>3. s[k] \in S /\ f[s[k]] = f[x]
    BY <1>1, <1>6, <2>1, <2>2
  <2> QED
    BY <1>3, <2>3
<1>9. ToSet(s) = S
  BY <1>6, <1>7, <1>8 DEF ToSet
<1>10. IsInjective(s)
  <2>1. \A i, j \in 1 .. n : s[i] = s[j] => i = j
    BY <1>1, <1>6
  <2> QED
    BY <1>7, <2>1 DEF IsInjective
<1>11. ASSUME NEW i \in DOMAIN s, NEW j \in DOMAIN s, i < j
       PROVE  <<s[i], s[j]>> \in R
  <2>1. s[i] \in S /\ s[j] \in S /\ f[s[i]] < f[s[j]]
    BY <1>1, <1>6, <1>7, <1>11
  <2>2. s[i] # s[j] /\ ~(f[s[j]] < f[s[i]])
    BY <1>1, <1>3, <2>1
  <2> QED
    BY <1>5, <2>1, <2>2 DEF StrictOrder
<1> QED
  BY <1>7, <1>9, <1>10, <1>11 DEF n, s
-----------------------------------------------------------------------------
(* Sums and products.                                                      *)

\* Induction over the natural numbers, for a set instead of a predicate.
LEMMA InductionSet ==
  ASSUME NEW T, 0 \in T, \A n \in Nat : n \in T => n + 1 \in T
  PROVE  Nat \subseteq T
<1> SUFFICES ASSUME Nat \ T # {} PROVE FALSE
  OBVIOUS
<1>1. PICK x \in Nat \ T : \A y \in Nat \ T : ~ (<<y, x>> \in OpToRel(<, Nat))
  BY WFMin, NatLessThanWellFounded
<1>2. x # 0 /\ x - 1 \in Nat /\ x - 1 < x /\ (x - 1) + 1 = x
  OBVIOUS
<1>3. x - 1 \notin Nat \ T
  BY <1>1, <1>2 DEF OpToRel
<1> QED
  BY <1>2, <1>3

Pick(s) == CHOOSE x \in s : TRUE

FoldsTo(S, base, step, g) ==
  \A s \in SUBSET S :
    g[s] = IF s = {} THEN base ELSE step[<<s, g[s \ {Pick(s)}]>>]

\* What MapThenFoldSet defines by recursion over the subsets of a set exists; step
\* folds one element.
LEMMA FoldExists ==
  ASSUME NEW S, IsFiniteSet(S), NEW base \in Nat, NEW step \in [(SUBSET S) \X Nat -> Nat]
  PROVE  \E g \in [SUBSET S -> Nat] : FoldsTo(S, base, step, g)
<1> DEFINE Upto(n) == {s \in SUBSET S : Cardinality(s) <= n}
           Folds(g, n) == \A s \in Upto(n) :
             g[s] = IF s = {} THEN base ELSE step[<<s, g[s \ {Pick(s)}]>>]
           T == {n \in Nat : \E g \in [Upto(n) -> Nat] : Folds(g, n)}
<1>1. \A s \in SUBSET S : /\ IsFiniteSet(s) /\ Cardinality(s) \in Nat
                          /\ Cardinality(s) <= Cardinality(S)
  BY FS_Subset, FS_CardinalityType
<1>2. \A s \in SUBSET S : s # {} =>
        /\ s \ {Pick(s)} \in SUBSET S
        /\ Cardinality(s \ {Pick(s)}) = Cardinality(s) - 1
  <2> TAKE s \in SUBSET S
  <2> HAVE s # {}
  <2>1. Pick(s) \in s
    BY DEF Pick
  <2> QED
    BY <1>1, <2>1, FS_RemoveElement
<1>3. 0 \in T
  <2> DEFINE g == [s \in Upto(0) |-> base]
  <2>1. \A s \in Upto(0) : s = {}
    BY <1>1, FS_EmptySet
  <2>2. g \in [Upto(0) -> Nat] /\ Folds(g, 0)
    BY <2>1
  <2> QED
    BY <2>2
<1>4. ASSUME NEW n \in Nat, n \in T
      PROVE  n + 1 \in T
  <2>1. PICK g \in [Upto(n) -> Nat] : Folds(g, n)
    BY <1>4
  <2> DEFINE h == [s \in Upto(n + 1) |->
                     IF s = {} THEN base ELSE step[<<s, g[s \ {Pick(s)}]>>]]
  <2>2. \A s \in Upto(n + 1) : s # {} => s \ {Pick(s)} \in Upto(n)
    BY <1>1, <1>2
  <2>3. h \in [Upto(n + 1) -> Nat]
    BY <2>2
  <2>4. \A s \in Upto(n) : s \in Upto(n + 1)
    BY <1>1
  <2> HIDE DEF Upto
  <2>5. \A s \in Upto(n + 1) :
          h[s] = IF s = {} THEN base ELSE step[<<s, g[s \ {Pick(s)}]>>]
    OBVIOUS
  <2> HIDE DEF h
  <2>6. \A s \in Upto(n) : h[s] = g[s]
    BY <2>1, <2>4, <2>5
  <2>7. \A s \in Upto(n + 1) : s # {} => h[s \ {Pick(s)}] = g[s \ {Pick(s)}]
    BY <2>2, <2>6
  <2>8. Folds(h, n + 1)
    BY <2>5, <2>7
  <2>9. n + 1 \in Nat
    OBVIOUS
  <2> QED
    BY <2>3, <2>8, <2>9
<1> HIDE DEF T
<1>5. Cardinality(S) \in T
  BY <1>3, <1>4, InductionSet, FS_CardinalityType
<1>6. PICK g \in [Upto(Cardinality(S)) -> Nat] : Folds(g, Cardinality(S))
  BY <1>5 DEF T
<1>7. Upto(Cardinality(S)) = SUBSET S
  BY <1>1
<1> QED
  BY <1>6, <1>7 DEF FoldsTo
\* Induction over the subsets of a finite set, in the order a fold takes them.
LEMMA SubsetInduction ==
  ASSUME NEW S, IsFiniteSet(S), NEW Good, {} \in Good,
         \A s \in SUBSET S : s # {} /\ s \ {Pick(s)} \in Good => s \in Good
  PROVE  S \in Good
<1> DEFINE T == {n \in Nat : \A s \in SUBSET S : Cardinality(s) = n => s \in Good}
<1>1. \A s \in SUBSET S : IsFiniteSet(s) /\ Cardinality(s) \in Nat
  BY FS_Subset, FS_CardinalityType
<1>2. 0 \in T
  BY <1>1, FS_EmptySet
<1>3. ASSUME NEW n \in Nat, n \in T
      PROVE  n + 1 \in T
  <2> SUFFICES ASSUME NEW s \in SUBSET S, Cardinality(s) = n + 1
               PROVE  s \in Good
    OBVIOUS
  <2>1. s # {}
    BY FS_EmptySet
  <2>2. Pick(s) \in s
    BY <2>1 DEF Pick
  <2>3. s \ {Pick(s)} \in SUBSET S /\ Cardinality(s \ {Pick(s)}) = Cardinality(s) - 1
    BY <1>1, <2>2, FS_RemoveElement
  <2>4. Cardinality(s \ {Pick(s)}) = n
    BY <2>3
  <2> QED
    BY <1>3, <2>1, <2>3, <2>4
<1> HIDE DEF T
<1>4. Cardinality(S) \in T
  BY <1>2, <1>3, InductionSet, FS_CardinalityType
<1> QED
  BY <1>4 DEF T

\* The equations of a sum.
LEMMA SumFolds ==
  ASSUME NEW S, IsFiniteSet(S), NEW f \in [S -> Nat]
  PROVE  \E i : /\ SumFunction(f) = i[S] /\ i[{}] = 0
                /\ \A s \in SUBSET S : s # {} => i[s] = f[Pick(s)] + i[s \ {Pick(s)}]
<1> DEFINE step == [o \in (SUBSET S) \X Nat |->
                      IF o[1] = {} THEN 0 ELSE f[Pick(o[1])] + o[2]]
           Folds(g) == g = [s \in SUBSET S |->
                              IF s = {} THEN 0 ELSE f[Pick(s)] + g[s \ {Pick(s)}]]
<1>1. \A s \in SUBSET S : s # {} => Pick(s) \in S /\ s \ {Pick(s)} \in SUBSET S
  BY DEF Pick
<1>2. step \in [(SUBSET S) \X Nat -> Nat]
  BY <1>1
<1>3. \E g \in [SUBSET S -> Nat] : FoldsTo(S, 0, step, g)
  <2> HIDE DEF step
  <2>1. 0 \in Nat
    OBVIOUS
  <2> QED
    BY <1>2, <2>1, FoldExists
<1>4. PICK g \in [SUBSET S -> Nat] : FoldsTo(S, 0, step, g)
  BY <1>3
<1>5. \A s \in SUBSET S : g[s] = IF s = {} THEN 0 ELSE f[Pick(s)] + g[s \ {Pick(s)}]
  BY <1>1, <1>4 DEF FoldsTo
<1>6. Folds(g)
  <2> HIDE DEF step
  <2> QED
    BY <1>5
<1> DEFINE i == CHOOSE h : Folds(h)
<1>7. Folds(i)
  <2> HIDE DEF Folds
  <2> QED
    BY <1>6
<1>8. SumFunction(f) = i[S]
  BY DEF SumFunction, SumFunctionOnSet, FoldFunctionOnSet, MapThenFoldSet, Pick
<1> HIDE DEF i
<1>9. i[{}] = 0 /\ \A s \in SUBSET S : s # {} => i[s] = f[Pick(s)] + i[s \ {Pick(s)}]
  BY <1>7
<1> QED
  BY <1>8, <1>9

\* A sum of natural numbers is one, and at least the sum of two of them.
LEMMA SumBounds ==
  ASSUME NEW S, IsFiniteSet(S), NEW f \in [S -> Nat]
  PROVE  /\ SumFunction(f) \in Nat
         /\ \A x, y \in S : x # y => SumFunction(f) >= f[x] + f[y]
         /\ \A x : S = {x} => SumFunction(f) = f[x]
<1>1. PICK i : /\ SumFunction(f) = i[S] /\ i[{}] = 0
               /\ \A s \in SUBSET S : s # {} => i[s] = f[Pick(s)] + i[s \ {Pick(s)}]
  BY ZenonT(60), SumFolds
<1> DEFINE Good == {s \in SUBSET S :
                      /\ i[s] \in Nat
                      /\ \A x \in s : i[s] >= f[x]
                      /\ \A x, y \in s : x # y => i[s] >= f[x] + f[y]}
<1>2. {} \in Good
  BY <1>1
<1>3. ASSUME NEW s \in SUBSET S, s # {}, s \ {Pick(s)} \in Good
      PROVE  s \in Good
  <2> DEFINE p == Pick(s)
             r == s \ {p}
  <2>1. p \in s /\ p \in S /\ f[p] \in Nat /\ i[s] = f[p] + i[r]
    BY <1>1, <1>3 DEF Pick
  <2>2. /\ i[r] \in Nat /\ \A x \in r : i[r] >= f[x]
        /\ \A x, y \in r : x # y => i[r] >= f[x] + f[y]
    BY <1>3
  <2>3. \A x \in s : f[x] \in Nat /\ (x = p \/ x \in r)
    OBVIOUS
  <2> HIDE DEF p, r
  <2>4. i[s] \in Nat /\ \A x \in s : i[s] >= f[x]
    BY <2>1, <2>2, <2>3
  <2>5. ASSUME NEW x \in s, NEW y \in s, x # y
        PROVE  i[s] >= f[x] + f[y]
    BY <2>1, <2>2, <2>3, <2>5
  <2> QED
    BY <2>4, <2>5
<1> HIDE DEF Good
<1>4. S \in Good
  BY <1>2, <1>3, SubsetInduction
<1>5. ASSUME NEW x, S = {x}
      PROVE  i[S] = f[x]
  <2>1. Pick(S) = x /\ S \ {Pick(S)} = {}
    BY <1>5 DEF Pick
  <2>2. i[S] = f[x] + 0 /\ f[x] \in Nat
    BY <1>1, <1>5, <2>1
  <2> QED
    BY <2>2
<1> QED
  BY <1>1, <1>4, <1>5 DEF Good

\* The equations of a product.
LEMMA ProductFolds ==
  ASSUME NEW S \in SUBSET Nat, IsFiniteSet(S)
  PROVE  \E i : /\ ProductSet(S) = i[S] /\ i[{}] = 1
                /\ \A s \in SUBSET S : s # {} => i[s] = Pick(s) * i[s \ {Pick(s)}]
<1> DEFINE step == [o \in (SUBSET S) \X Nat |->
                      IF o[1] = {} THEN 1 ELSE Pick(o[1]) * o[2]]
           Folds(g) == g = [s \in SUBSET S |->
                              IF s = {} THEN 1 ELSE Pick(s) * g[s \ {Pick(s)}]]
<1>1. \A s \in SUBSET S : s # {} => Pick(s) \in Nat /\ s \ {Pick(s)} \in SUBSET S
  BY DEF Pick
<1>0. \A a, b \in Nat : a * b \in Nat
  OBVIOUS
<1>2. step \in [(SUBSET S) \X Nat -> Nat]
  BY <1>0, <1>1
<1>3. \E g \in [SUBSET S -> Nat] : FoldsTo(S, 1, step, g)
  <2> HIDE DEF step
  <2>1. 1 \in Nat
    OBVIOUS
  <2> QED
    BY <1>2, <2>1, FoldExists
<1>4. PICK g \in [SUBSET S -> Nat] : FoldsTo(S, 1, step, g)
  BY <1>3
<1>5. \A s \in SUBSET S : g[s] = IF s = {} THEN 1 ELSE Pick(s) * g[s \ {Pick(s)}]
  BY <1>1, <1>4 DEF FoldsTo
<1>6. Folds(g)
  <2> HIDE DEF step
  <2> QED
    BY <1>5
<1> DEFINE i == CHOOSE h : Folds(h)
<1>7. Folds(i)
  <2> HIDE DEF Folds
  <2> QED
    BY <1>6
<1>8. ProductSet(S) = i[S]
  BY DEF ProductSet, FoldSet, MapThenFoldSet, Pick
<1> HIDE DEF i
<1>9. i[{}] = 1 /\ \A s \in SUBSET S : s # {} => i[s] = Pick(s) * i[s \ {Pick(s)}]
  BY <1>7
<1> QED
  BY <1>8, <1>9

\* A product is a positive multiple of each of its positive factors.
LEMMA ProductDivides ==
  ASSUME NEW S \in SUBSET (Nat \ {0}), IsFiniteSet(S)
  PROVE  /\ ProductSet(S) \in Nat \ {0}
         /\ \A x \in S : \E m \in Nat \ {0} : ProductSet(S) = x * m
<1>1. PICK i : /\ ProductSet(S) = i[S] /\ i[{}] = 1
               /\ \A s \in SUBSET S : s # {} => i[s] = Pick(s) * i[s \ {Pick(s)}]
  <2>1. S \in SUBSET Nat
    OBVIOUS
  <2> QED
    BY <2>1, ProductFolds
<1> DEFINE Good == {s \in SUBSET S :
                      /\ i[s] \in Nat \ {0}
                      /\ \A x \in s : \E m \in Nat \ {0} : i[s] = x * m}
<1>2. {} \in Good
  BY <1>1
<1>3. \A a, b \in Nat \ {0} : a * b \in Nat \ {0}
  OBVIOUS
<1>4. \A a, b, c \in Nat : a * (b * c) = b * (a * c)
  OBVIOUS
<1>5. ASSUME NEW s \in SUBSET S, s # {}, s \ {Pick(s)} \in Good
      PROVE  s \in Good
  <2> DEFINE p == Pick(s)
             r == s \ {p}
  <2>1. p \in s /\ p \in Nat \ {0} /\ i[s] = p * i[r]
    BY <1>1, <1>5 DEF Pick
  <2>2. i[r] \in Nat \ {0} /\ \A x \in r : \E m \in Nat \ {0} : i[r] = x * m
    BY <1>5
  <2>3. \A x \in s : x \in Nat \ {0} /\ (x = p \/ x \in r)
    OBVIOUS
  <2> HIDE DEF p, r
  <2>4. i[s] \in Nat \ {0}
    BY <1>3, <2>1, <2>2
  <2>5. ASSUME NEW x \in s
        PROVE  \E m \in Nat \ {0} : i[s] = x * m
    <3>1. CASE x = p
      BY <2>1, <2>2, <3>1
    <3>2. CASE x \in r
      <4>1. PICK m \in Nat \ {0} : i[r] = x * m
        BY <2>2, <3>2
      <4>2. p * m \in Nat \ {0}
        BY <1>3, <2>1
      <4>3. i[s] = p * (x * m)
        BY <2>1, <4>1
      <4>4. x \in Nat /\ p \in Nat /\ m \in Nat
        BY <2>1, <2>3
      <4>5. p * (x * m) = x * (p * m)
        BY <1>4, <4>4
      <4> QED
        BY <4>2, <4>3, <4>5
    <3> QED
      BY <2>3, <3>1, <3>2
  <2> QED
    BY <2>4, <2>5
<1> HIDE DEF Good
<1>6. S \in Good
  BY <1>2, <1>5, SubsetInduction
<1> QED
  BY <1>1, <1>6 DEF Good

-----------------------------------------------------------------------------
(* The fusion.                                                             *)

LEMMA Limits ==
  /\ IsFiniteSet(Passage)
  /\ SearchTopK \in Nat \ {0} /\ RrfK \in Nat \ {0}
  /\ RerankTopN \in Nat \ {0} /\ FinalTopK \in Nat \ {0}
BY RetrievalAssumption

LEMMA MinIsLeast ==
  ASSUME NEW S \in SUBSET Nat, S # {}
  PROVE  Min(S) \in S /\ \A x \in S : Min(S) <= x
<1>1. PICK m \in S : \A y \in S : ~ (<<y, m>> \in OpToRel(<, Nat))
  BY WFMin, NatLessThanWellFounded
<1>2. ASSUME NEW y \in S, y < m
      PROVE  FALSE
  <2>1. <<y, m>> \in OpToRel(<, Nat)
    BY <1>2 DEF OpToRel
  <2> QED
    BY <1>1, <2>1
<1>3. m \in S /\ \A y \in S : m <= y
  BY <1>2
<1> QED
  BY <1>3 DEF Min

LEMMA MinOfTwo ==
  ASSUME NEW a \in Nat, NEW b \in Nat
  PROVE  Min({a, b}) = IF a <= b THEN a ELSE b
<1>1. Min({a, b}) \in {a, b} /\ Min({a, b}) <= a /\ Min({a, b}) <= b
  BY MinIsLeast
<1> QED
  BY <1>1

LEMMA ResultType ==
  ASSUME NEW s \in VectorResults
  PROVE  s \in Seq(Passage) /\ Len(s) <= SearchTopK /\ DOMAIN s = 1 .. Len(s)
<1>1. PICK n \in 0 .. SearchTopK : s \in [1 .. n -> Passage]
  BY Limits DEF VectorResults
<1>2. n \in Nat /\ n <= SearchTopK
  BY <1>1, Limits
<1> QED
  BY <1>1, <1>2

LEMMA FoundType ==
  ASSUME NEW lists \in Seq(VectorResults)
  PROVE  /\ Found(lists) \in SUBSET Passage
         /\ IsFiniteSet(Found(lists)) /\ Cardinality(Found(lists)) \in Nat
<1>1. \A i \in DOMAIN lists : ToSet(lists[i]) \subseteq Passage
  BY ResultType DEF ToSet
<1>2. Found(lists) \in SUBSET Passage
  BY <1>1 DEF Found
<1> QED
  BY <1>2, Limits, FS_Subset, FS_CardinalityType

LEMMA RanksType ==
  ASSUME NEW lists \in Seq(VectorResults), NEW p
  PROVE  /\ IsFiniteSet(Ranks(lists, p))
         /\ \A o \in Ranks(lists, p) :
              /\ o[1] \in 1 .. Len(lists) /\ o[2] \in 1 .. SearchTopK
              /\ lists[o[1]][o[2]] = p
<1>1. IsFiniteSet(DOMAIN lists) /\ IsFiniteSet(1 .. SearchTopK)
  BY Limits, FS_Interval
<1>2. IsFiniteSet((DOMAIN lists) \X (1 .. SearchTopK))
  BY <1>1, FS_Product
<1>3. Ranks(lists, p) \in SUBSET ((DOMAIN lists) \X (1 .. SearchTopK))
  BY DEF Ranks
<1> QED
  BY <1>2, <1>3, FS_Subset DEF Ranks

\* Every share of a score is a whole number.
LEMMA ScoreUnitDivides ==
  /\ ScoreUnit \in Nat \ {0}
  /\ \A k \in 1 .. SearchTopK : \E m \in Nat \ {0} :
       ScoreUnit = (RrfK + k) * m /\ ScoreUnit \div (RrfK + k) = m
<1> DEFINE S == RrfK + 1 .. RrfK + SearchTopK
<1>1. S \in SUBSET (Nat \ {0}) /\ IsFiniteSet(S)
  BY Limits, FS_Interval
<1>2. \A k \in 1 .. SearchTopK : RrfK + k \in S
  BY Limits
<1>3. ScoreUnit = ProductSet(S)
  BY DEF ScoreUnit
<1> HIDE DEF S
<1>4. /\ ScoreUnit \in Nat \ {0}
      /\ \A x \in S : \E m \in Nat \ {0} : ScoreUnit = x * m
  BY <1>1, <1>3, ProductDivides
<1>5. \A x, m \in Nat \ {0} : (x * m) \div x = m
  OBVIOUS
<1> QED
  BY <1>1, <1>2, <1>4, <1>5

LEMMA ScoreType ==
  ASSUME NEW lists \in Seq(VectorResults), NEW p
  PROVE  Score(lists, p) \in Nat
<1> DEFINE R == Ranks(lists, p)
           f == [o \in R |-> ScoreUnit \div (RrfK + o[2])]
<1>1. ScoreUnit \in Nat
  BY ScoreUnitDivides
<1>2. \A o \in R : RrfK + o[2] \in Nat \ {0}
  BY RanksType, Limits
<1>3. \A n \in Nat \ {0} : ScoreUnit \div n \in Nat
  BY <1>1
<1>4. f \in [R -> Nat]
  BY <1>2, <1>3
<1>5. IsFiniteSet(R)
  BY RanksType
<1> HIDE DEF R
<1>6. SumFunction(f) \in Nat
  BY <1>4, <1>5, SumBounds
<1> QED
  BY <1>6 DEF Score, R

\* The ranks of two lists, numbered one list after the other.
LEMMA Numbered ==
  ASSUME NEW k \in Nat, NEW a \in 1 .. 2, NEW b \in 1 .. 2,
         NEW i \in 1 .. k, NEW j \in 1 .. k, a * k + i = b * k + j
  PROVE  a = b /\ i = j
<1>1. (a = 1 \/ a = 2) /\ (b = 1 \/ b = 2) /\ i \in Nat /\ j \in Nat
  OBVIOUS
<1>2. 1 * k = k /\ 2 * k = k + k
  OBVIOUS
<1>3. CASE a = 1 /\ b = 1
  BY <1>2, <1>3
<1>4. CASE a = 1 /\ b = 2
  BY <1>2, <1>4
<1>5. CASE a = 2 /\ b = 1
  BY <1>2, <1>5
<1>6. CASE a = 2 /\ b = 2
  BY <1>2, <1>6
<1> QED
  BY <1>1, <1>3, <1>4, <1>5, <1>6

\* The fused list holds every passage found once, for one list or two.
LEMMA Fused ==
  ASSUME NEW lists \in Seq(VectorResults), Len(lists) <= 2
  PROVE  /\ RrfFuse(lists) \in Seq(Passage)
         /\ Len(RrfFuse(lists)) = Cardinality(Found(lists))
         /\ ToSet(RrfFuse(lists)) = Found(lists)
         /\ IsInjective(RrfFuse(lists))
         /\ \A i, j \in DOMAIN RrfFuse(lists) :
              i < j => Score(lists, RrfFuse(lists)[i]) >= Score(lists, RrfFuse(lists)[j])
<1> DEFINE F == Found(lists)
           places(p) == {o[1] * SearchTopK + o[2] : o \in Ranks(lists, p)}
           first(p) == Min(places(p))
           score(p) == Score(lists, p)
           before(p, q) == \/ score(p) > score(q)
                           \/ score(p) = score(q) /\ first(p) < first(q)
           R == {o \in F \X F : before(o[1], o[2])}
<1>1. /\ F \in SUBSET Passage /\ IsFiniteSet(F)
  BY FoundType
<1>2. \A p : score(p) \in Nat
  BY ScoreType
<1>3. ASSUME NEW p \in F
      PROVE  /\ first(p) \in Nat
             /\ \E o \in Ranks(lists, p) : first(p) = o[1] * SearchTopK + o[2]
  <2>1. places(p) \in SUBSET Nat
    BY RanksType, Limits
  <2>2. PICK i \in DOMAIN lists : p \in ToSet(lists[i])
    BY DEF Found
  <2>3. PICK k \in DOMAIN lists[i] : lists[i][k] = p
    BY <2>2 DEF ToSet
  <2>4. lists[i] \in VectorResults
    BY <2>2
  <2>5. k \in 1 .. SearchTopK /\ k <= Len(lists[i])
    BY <2>3, <2>4, ResultType, Limits
  <2>6. <<i, k>> \in Ranks(lists, p)
    BY <2>3, <2>5 DEF Ranks
  <2>7. places(p) # {}
    BY <2>6
  <2>8. first(p) \in places(p)
    BY <2>1, <2>7, MinIsLeast
  <2> QED
    BY <2>1, <2>8
<1>4. ASSUME NEW p \in F, NEW q \in F, first(p) = first(q)
      PROVE  p = q
  <2>1. PICK o \in Ranks(lists, p) : first(p) = o[1] * SearchTopK + o[2]
    BY <1>3
  <2>2. PICK u \in Ranks(lists, q) : first(q) = u[1] * SearchTopK + u[2]
    BY <1>3
  <2>3. /\ o[1] \in 1 .. 2 /\ o[2] \in 1 .. SearchTopK /\ lists[o[1]][o[2]] = p
        /\ u[1] \in 1 .. 2 /\ u[2] \in 1 .. SearchTopK /\ lists[u[1]][u[2]] = q
    BY RanksType
  <2>4. o[1] * SearchTopK + o[2] = u[1] * SearchTopK + u[2]
    BY <1>4, <2>1, <2>2
  <2>5. o[1] = u[1] /\ o[2] = u[2]
    BY SMTT(60), <2>3, <2>4, Limits, Numbered
  <2> QED
    BY <2>3, <2>5
<1>5. StrictOrder(F, R)
  <2> HIDE DEF first, score
  <2>1. \A p, q \in F : <<p, q>> \in R <=> before(p, q)
    OBVIOUS
  <2> HIDE DEF R, F
  <2>2. \A p \in F : ~before(p, p)
    BY <1>2, <1>3
  <2>3. \A p, q \in F : p # q => before(p, q) \/ before(q, p)
    BY <1>2, <1>3, <1>4
  <2>4. \A p, q, r \in F : before(p, q) /\ before(q, r) => before(p, r)
    BY <1>2, <1>3
  <2> QED
    BY <2>1, <2>2, <2>3, <2>4 DEF StrictOrder
<1>6. RrfFuse(lists) = Sorted(F, R)
  BY DEF RrfFuse
<1> HIDE DEF F, first, score
<1>7. \A p, q \in F : <<p, q>> \in R => score(p) >= score(q)
  BY <1>2
<1> HIDE DEF R
<1>8. /\ Sorted(F, R) \in Seq(F) /\ Len(Sorted(F, R)) = Cardinality(F)
      /\ ToSet(Sorted(F, R)) = F /\ IsInjective(Sorted(F, R))
      /\ \A i, j \in DOMAIN Sorted(F, R) :
           i < j => <<Sorted(F, R)[i], Sorted(F, R)[j]>> \in R
  BY <1>1, <1>5, SortedLists
<1> DEFINE s == Sorted(F, R)
<1> HIDE DEF s
<1>9. s \in Seq(Passage) /\ \A i \in DOMAIN s : s[i] \in F
  BY <1>1, <1>8 DEF s
<1>10. \A i, j \in DOMAIN s : i < j => score(s[i]) >= score(s[j])
  BY <1>7, <1>8, <1>9 DEF s
<1> QED
  BY <1>6, <1>8, <1>9, <1>10 DEF s, score, F

LEMMA FirstNKeeps ==
  ASSUME NEW P, NEW s \in Seq(P), NEW n \in Nat
  PROVE  /\ FirstN(s, n) \in Seq(P)
         /\ Len(FirstN(s, n)) = IF n <= Len(s) THEN n ELSE Len(s)
         /\ \A i \in 1 .. Len(FirstN(s, n)) : FirstN(s, n)[i] = s[i]
         /\ ToSet(FirstN(s, n)) \subseteq ToSet(s)
         /\ Len(s) <= n => FirstN(s, n) = s
<1> DEFINE m == IF n <= Len(s) THEN n ELSE Len(s)
           t == FirstN(s, n)
<1>1. m \in Nat /\ m <= Len(s) /\ Min({n, Len(s)}) = m
  BY MinOfTwo
<1>2. t = SubSeq(s, 1, m)
  BY <1>1 DEF FirstN
<1> HIDE DEF m, t
<1>3. t \in Seq(P) /\ Len(t) = m /\ \A i \in 1 .. m : t[i] = s[i]
  BY <1>1, <1>2
<1>4. ToSet(t) \subseteq ToSet(s)
  <2>1. DOMAIN t = 1 .. m /\ DOMAIN s = 1 .. Len(s)
    BY <1>3
  <2>2. \A i \in 1 .. m : i \in 1 .. Len(s)
    BY <1>1
  <2> QED
    BY <1>3, <2>1, <2>2 DEF ToSet
<1>5. Len(s) <= n => t = s
  BY <1>1, <1>2 DEF m
<1> QED
  BY <1>3, <1>4, <1>5 DEF m, t

-----------------------------------------------------------------------------
(* The reranking.                                                          *)

LEMMA InOrderLists ==
  ASSUME NEW V \in SUBSET Nat, IsFiniteSet(V)
  PROVE  /\ InOrder(V) \in Seq(V) /\ Len(InOrder(V)) = Cardinality(V)
         /\ ToSet(InOrder(V)) = V
<1> DEFINE R == {o \in V \X V : o[1] < o[2]}
<1>1. \A x, y \in V : <<x, y>> \in R <=> x < y
  OBVIOUS
<1> HIDE DEF R
<1>2. StrictOrder(V, R)
  BY <1>1 DEF StrictOrder
<1>3. InOrder(V) = Sorted(V, R)
  BY DEF InOrder, R
<1> QED
  BY <1>2, <1>3, SortedLists

\* Whatever the LLM replies, the reranked list holds the passages it was given.
LEMMA RerankedKeeps ==
  ASSUME NEW chunks \in Seq(Passage), NEW indices \in Seq(Nat)
  PROVE  /\ Reranked(chunks, indices) \in Seq(Passage)
         /\ ToSet(Reranked(chunks, indices)) = ToSet(chunks)
         /\ Len(Reranked(chunks, indices)) >= Len(chunks)
<1> DEFINE D == DOMAIN chunks
           valid == {k \in DOMAIN indices : indices[k] \in D}
           named == {indices[k] : k \in valid}
           unnamed == D \ named
           v == InOrder(valid)
           first == [n \in 1 .. Cardinality(valid) |-> indices[v[n]]]
           order == first \o InOrder(unnamed)
           r == [i \in DOMAIN order |-> chunks[order[i]]]
<1>1. D = 1 .. Len(chunks) /\ D \in SUBSET Nat /\ IsFiniteSet(D) /\ Cardinality(D) = Len(chunks)
  <2>1. Len(chunks) \in Nat /\ D = 1 .. Len(chunks)
    OBVIOUS
  <2> HIDE DEF D
  <2>2. PICK n \in Nat : n = Len(chunks)
    BY <2>1
  <2>3. IsFiniteSet(1 .. n) /\ Cardinality(1 .. n) = n
    BY FS_Interval
  <2> QED
    BY <2>1, <2>2, <2>3
<1>2. DOMAIN indices \in SUBSET Nat /\ IsFiniteSet(DOMAIN indices)
  BY FS_Interval
<1>3. /\ valid \in SUBSET Nat /\ IsFiniteSet(valid) /\ Cardinality(valid) \in Nat
  BY <1>2, FS_Subset, FS_CardinalityType
<1>4. /\ named \in SUBSET D /\ IsFiniteSet(named) /\ Cardinality(named) \in Nat
      /\ Cardinality(named) <= Cardinality(valid)
  <2> DEFINE f == [k \in valid |-> indices[k]]
  <2>1. f \in Surjection(valid, named)
    BY DEF Surjection
  <2>2. named \in SUBSET D
    OBVIOUS
  <2> HIDE DEF f, named, valid
  <2> QED
    BY <1>3, <2>1, <2>2, FS_Surjection, FS_CardinalityType
<1>5. /\ unnamed \in SUBSET Nat /\ IsFiniteSet(unnamed) /\ Cardinality(unnamed) \in Nat
      /\ Cardinality(unnamed) = Len(chunks) - Cardinality(named)
  <2>1. /\ unnamed = D \ named /\ D \cap named = named
    BY <1>4
  <2> HIDE DEF D, named, unnamed
  <2>2. /\ IsFiniteSet(D \ named)
        /\ Cardinality(D \ named) = Cardinality(D) - Cardinality(D \cap named)
    BY <1>1, FS_Difference
  <2>3. unnamed \in SUBSET Nat
    BY <1>1, <2>1
  <2> QED
    BY <1>1, <2>1, <2>2, <2>3, FS_CardinalityType
<1>6. Reranked(chunks, indices) = r
  BY DEF Reranked
<1>7. /\ v \in Seq(valid) /\ Len(v) = Cardinality(valid) /\ ToSet(v) = valid
      /\ InOrder(unnamed) \in Seq(unnamed) /\ Len(InOrder(unnamed)) = Cardinality(unnamed)
      /\ ToSet(InOrder(unnamed)) = unnamed
  BY <1>3, <1>5, InOrderLists
<1> DEFINE u == InOrder(unnamed)
<1>8. DOMAIN v = 1 .. Cardinality(valid) /\ DOMAIN u = 1 .. Cardinality(unnamed)
  BY <1>7
<1>9. \A n \in 1 .. Cardinality(valid) : v[n] \in valid /\ indices[v[n]] \in named
  BY <1>7, <1>8 DEF ToSet
<1>10. \A n \in 1 .. Cardinality(unnamed) : u[n] \in unnamed
  BY <1>7, <1>8 DEF ToSet
<1>11. \A k \in valid : \E n \in 1 .. Cardinality(valid) : v[n] = k
  BY <1>7, <1>8 DEF ToSet
<1>12. \A k \in unnamed : \E n \in 1 .. Cardinality(unnamed) : u[n] = k
  BY <1>7, <1>8 DEF ToSet
<1>13. D = named \cup unnamed
  BY <1>4
<1>14. \A k \in named : \E n \in 1 .. Cardinality(valid) : indices[v[n]] = k
  BY SMTT(60), <1>11
<1> DEFINE a == Cardinality(valid)
           b == Cardinality(unnamed)
<1>15. /\ first \in Seq(D) /\ Len(first) = a /\ u \in Seq(D) /\ Len(u) = b
       /\ a \in Nat /\ b \in Nat
       /\ \A n \in 1 .. a : first[n] = indices[v[n]]
  <2>1. first \in [1 .. a -> D] /\ \A n \in 1 .. a : first[n] = indices[v[n]]
    BY <1>9, <1>13
  <2>2. a \in Nat /\ b \in Nat
    BY <1>3, <1>5
  <2>3. u \in Seq(unnamed) /\ Len(u) = b
    BY <1>7
  <2>4. unnamed \subseteq D
    OBVIOUS
  <2> HIDE DEF D, first, u, a, b, unnamed
  <2>5. first \in Seq(D) /\ Len(first) = a
    BY <2>1, <2>2
  <2>6. u \in Seq(D)
    BY <2>3, <2>4
  <2> QED
    BY <2>1, <2>2, <2>3, <2>5, <2>6
<1> HIDE DEF u, first, v, a, b, unnamed, valid, named
<1>16. /\ order \in Seq(D) /\ Len(order) = a + b /\ DOMAIN order = 1 .. a + b
       /\ \A n \in 1 .. a : order[n] = first[n]
       /\ \A n \in 1 .. b : order[a + n] = u[n]
  <2>1. order = first \o u
    BY DEF u
  <2> HIDE DEF D, order
  <2>2. /\ first \o u \in Seq(D) /\ Len(first \o u) = a + b
        /\ \A n \in 1 .. a + b :
             (first \o u)[n] = IF n <= a THEN first[n] ELSE u[n - a]
    BY <1>15, ConcatProperties
  <2>3. DOMAIN order = 1 .. a + b
    BY <2>1, <2>2
  <2>4. \A n \in 1 .. a : order[n] = first[n]
    BY <1>15, <2>1, <2>2
  <2>5. ASSUME NEW n \in 1 .. b
        PROVE  order[a + n] = u[n]
    <3>1. a + n \in 1 .. a + b /\ ~(a + n <= a) /\ (a + n) - a = n
      BY <1>15
    <3> QED
      BY <2>1, <2>2, <3>1
  <2> QED
    BY <2>1, <2>2, <2>3, <2>4, <2>5
<1>17. \A n \in 1 .. a + b : order[n] \in D
  BY <1>16
<1>18. \A k \in D : \E n \in 1 .. a + b : order[n] = k
  <2> TAKE k \in D
  <2>1. CASE k \in named
    <3>1. PICK n \in 1 .. a : first[n] = k
      BY <1>14, <1>15, <2>1 DEF a
    <3>2. n \in 1 .. a + b /\ order[n] = k
      BY <1>15, <1>16, <3>1
    <3> QED
      BY <3>2
  <2>2. CASE k \in unnamed
    <3>1. PICK n \in 1 .. b : u[n] = k
      BY <1>12, <2>2 DEF b
    <3>2. a + n \in 1 .. a + b /\ order[a + n] = k
      BY SMTT(60), <1>15, <1>16, <3>1
    <3> QED
      BY <3>2
  <2> QED
    BY <1>13, <2>1, <2>2
<1> HIDE DEF order
<1>19. DOMAIN r = 1 .. a + b /\ r \in Seq(Passage) /\ Len(r) = a + b
  <2>1. r \in [1 .. a + b -> Passage]
    BY <1>16, <1>17
  <2>2. a + b \in Nat
    BY <1>15
  <2> QED
    BY <2>1, <2>2
<1>20. ToSet(r) = ToSet(chunks)
  <2>1. \A i \in 1 .. a + b : r[i] = chunks[order[i]]
    BY <1>16
  <2>2. ToSet(chunks) = {chunks[k] : k \in D}
    BY DEF ToSet
  <2> HIDE DEF r, D
  <2>3. ToSet(r) = {chunks[order[i]] : i \in 1 .. a + b}
    BY <1>19, <2>1 DEF ToSet
  <2> QED
    BY <1>17, <1>18, <2>2, <2>3
<1>21. a + b >= Len(chunks)
  BY <1>4, <1>5, <1>15 DEF a, b
<1> QED
  BY <1>6, <1>19, <1>20, <1>21
-----------------------------------------------------------------------------
(* The graph.                                                              *)

SearchType == [seen : {"absent", "pending_review", "rejected"}, lists : Seq(VectorResults),
            candidates : Seq(Passage), copy : Entry, own : BOOLEAN]

\* The nodes between query_rewrite and the end of generate.
Hashed == {"retrieval", "search", "llm_rerank", "create", "enqueue", "entity_extraction",
           "rerank", "generate", "save_answer", "write_answer"}

\* The nodes that come after the entry was created, if it was.
Created == {"enqueue", "entity_extraction", "rerank", "generate", "save_answer",
            "write_answer"}

\* What the retriever holds: the fused list, cut.
CandidatesInv ==
  At("llm_rerank") =>
    /\ Len(search.lists) <= 2
    /\ search.candidates = FirstN(RrfFuse(search.lists), RerankTopN)

\* The list the rerank node works on has the passages of the retrieval.
PromptInv ==
  /\ At("stream_cached") => state.cacheHit
  /\ node \notin {"stream_cached", "cache_write"} => ~state.cacheHit
  /\ node \in {"rerank", "generate"} =>
       state.reranked = <<>> \/ ToSet(state.reranked) = ToSet(state.chunks)
  /\ At("rerank") => ToSet(state.reranked) = ToSet(state.chunks)
  /\ node \notin {"rerank", "generate", "save_answer", "write_answer", "cache_write"} =>
       state.reranked = <<>>
  /\ PromptSound

\* The passages of a job that created the entry are in it until they are replaced,
\* and in the copy to which the answer is added.
EntryInv ==
  /\ node \in Hashed => state.hash \in Hash
  /\ search.own => node \in Created \cup {"cache_write"}
  /\ search.own /\ node \in Created \ {"write_answer"} =>
       entry[state.hash].chunks = state.chunks
  /\ At("write_answer") =>
       /\ search.copy.status = "approved"
       /\ search.own => search.copy.chunks = state.chunks

GraphInv == TypeOK /\ search \in SearchType /\ CandidatesInv /\ PromptInv /\ EntryInv

-----------------------------------------------------------------------------
(* Types.                                                                  *)

LEMMA ChunksType ==
  /\ <<>> \in Chunks
  /\ \A s \in Chunks : s \in Seq(Passage)
  /\ \A s \in Seq(Passage) : Len(s) <= FinalTopK => s \in Chunks
<1>1. <<>> \in Seq(Passage) /\ Len(<<>>) = 0
  OBVIOUS
<1>2. ASSUME NEW s \in Chunks
      PROVE  s \in Seq(Passage)
  <2>1. PICK n \in 0 .. FinalTopK : s \in [1 .. n -> Passage]
    BY DEF Chunks
  <2>2. n \in Nat
    BY <2>1, Limits
  <2> QED
    BY <2>1, <2>2
<1>3. ASSUME NEW s \in Seq(Passage), Len(s) <= FinalTopK
      PROVE  s \in Chunks
  <2>1. s \in [1 .. Len(s) -> Passage] /\ Len(s) \in 0 .. FinalTopK
    BY <1>3, Limits
  <2> QED
    BY <2>1 DEF Chunks
<1>4. <<>> \in Chunks
  <2>1. 0 <= FinalTopK
    BY Limits
  <2> QED
    BY <1>1, <1>3, <2>1
<1> QED
  BY <1>2, <1>3, <1>4

LEMMA NoEntryType ==
  /\ NoAnswer \in Answer
  /\ NoEntry \in Entry /\ NoEntry.status = "absent" /\ NoEntry.answer = NoAnswer
BY ChunksType DEF NoEntry, Entry, NoAnswer, Answer

LEMMA InitialType ==
  ASSUME NEW k \in TopK \cup {0}
  PROVE  /\ InitialState(k) \in AgentState
         /\ InitialState(k).reranked = <<>> /\ InitialState(k).answer = NoAnswer
         /\ ~InitialState(k).cacheHit /\ ~InitialState(k).chunkCacheHit
         /\ InitialState(k).chunks = <<>>
<1>1. <<>> \in Seq(Passage)
  OBVIOUS
<1> QED
  BY <1>1, ChunksType, NoEntryType DEF InitialState, AgentState

LEMMA NoSearchType == NoSearch \in SearchType /\ ~NoSearch.own
<1>1. <<>> \in Seq(Passage) /\ <<>> \in Seq(VectorResults)
  OBVIOUS
<1> QED
  BY <1>1, NoEntryType DEF NoSearch, SearchType

\* Whatever the searches find and whichever of them fails, what the retriever holds
\* is typed.
LEMMA ResultsType ==
  ASSUME NEW r \in SearchResults
  PROVE  /\ r.lists \in Seq(VectorResults) /\ Len(r.lists) <= 2
         /\ r.candidates = FirstN(RrfFuse(r.lists), RerankTopN)
         /\ r.candidates \in Seq(Passage)
<1>1. PICK l \in SearchLists :
        r = [lists |-> l, candidates |-> FirstN(RrfFuse(l), RerankTopN)]
  BY DEF SearchResults
<1>2. PICK bm25 \in Bm25Results, vector \in VectorResults, failed \in {{}, {1}, {2}} :
        l = RankedLists(<<bm25, vector>>, failed)
  <2>1. PICK o \in (Bm25Results \X VectorResults) \X SearchFailures :
          l = RankedLists(o[1], o[2])
    BY <1>1 DEF SearchLists
  <2>2. PICK bm25 \in Bm25Results, vector \in VectorResults : o[1] = <<bm25, vector>>
    BY <2>1
  <2>3. o[2] \in SearchFailures /\ SearchFailures \subseteq {{}, {1}, {2}}
    BY <2>1 DEF SearchFailures
  <2>4. l = RankedLists(<<bm25, vector>>, o[2])
    BY <2>1, <2>2, Zenon
  <2>5. o[2] \in {{}, {1}, {2}}
    BY <2>3
  <2> QED
    BY <2>4, <2>5
<1>3. bm25 \in VectorResults
  BY DEF Bm25Results
<1>4. l = <<bm25, vector>> \/ l = <<bm25>> \/ l = <<vector>>
  BY <1>2 DEF RankedLists
<1>5. l \in Seq(VectorResults) /\ Len(l) <= 2
  <2>1. CASE l = <<bm25, vector>>
    BY <1>3, <2>1
  <2>2. CASE l = <<bm25>>
    BY <1>3, <2>2
  <2>3. CASE l = <<vector>>
    BY <2>3
  <2> QED
    BY <1>4, <2>1, <2>2, <2>3
<1>6. FirstN(RrfFuse(l), RerankTopN) \in Seq(Passage)
  BY <1>5, Fused, FirstNKeeps, Limits
<1> QED
  BY <1>1, <1>5, <1>6

\* What the retriever returns is typed, and short enough.
LEMMA LLMRerankType ==
  ASSUME NEW chunks \in Seq(Passage), NEW indices \in Seq(Nat), NEW n \in Nat
  PROVE  /\ LLMRerank(chunks, indices, n) \in Seq(Passage)
         /\ ToSet(LLMRerank(chunks, indices, n)) \subseteq ToSet(chunks)
         /\ Len(LLMRerank(chunks, indices, n)) <= n
         /\ Len(LLMRerank(chunks, indices, n)) < n =>
              ToSet(LLMRerank(chunks, indices, n)) = ToSet(chunks)
         /\ Len(chunks) <= n => Len(LLMRerank(chunks, indices, n)) >= Len(chunks)
         /\ n <= Len(chunks) => Len(LLMRerank(chunks, indices, n)) >= n
<1> DEFINE r == Reranked(chunks, indices)
           s == IF Len(chunks) < 2 THEN chunks ELSE r
<1>1. r \in Seq(Passage) /\ ToSet(r) = ToSet(chunks) /\ Len(r) >= Len(chunks)
  BY RerankedKeeps
<1>2. s \in Seq(Passage) /\ ToSet(s) = ToSet(chunks) /\ Len(s) >= Len(chunks)
  BY <1>1
<1>3. LLMRerank(chunks, indices, n) = FirstN(s, n)
  BY DEF LLMRerank
<1> HIDE DEF s
<1>4. /\ FirstN(s, n) \in Seq(Passage)
      /\ Len(FirstN(s, n)) = IF n <= Len(s) THEN n ELSE Len(s)
      /\ ToSet(FirstN(s, n)) \subseteq ToSet(s)
      /\ Len(s) <= n => FirstN(s, n) = s
  BY <1>2, FirstNKeeps
<1>5. Len(s) \in Nat /\ Len(chunks) \in Nat
  BY <1>2
<1> QED
  BY <1>2, <1>3, <1>4, <1>5

LEMMA RepliesType ==
  ASSUME NEW chunks \in Seq(Passage), NEW indices \in Replies(chunks)
  PROVE  indices \in Seq(Nat)
<1>1. PICK n \in 0 .. MaxReply : indices \in [1 .. n -> 0 .. Len(chunks)]
  BY DEF Replies
<1>2. n \in Nat /\ 0 .. Len(chunks) \subseteq Nat
  BY <1>1, GraphAssumption
<1> QED
  BY <1>1, <1>2
-----------------------------------------------------------------------------
(* The steps.                                                              *)

LEMMA GraphInitInv == Init => GraphInv
<1> SUFFICES ASSUME Init PROVE GraphInv
  OBVIOUS
<1>1. /\ node = "idle" /\ search = NoSearch /\ entry = [h \in Hash |-> NoEntry]
      /\ state \in AgentState /\ ~state.cacheHit /\ ~state.chunkCacheHit
      /\ state.reranked = <<>>
  BY InitialType DEF Init
<1>2. \A h \in Hash : entry[h] = NoEntry /\ entry[h].answer = NoAnswer
  BY <1>1, NoEntryType
<1>3. search \in SearchType /\ ~search.own
  BY <1>1, NoSearchType
<1>4. TypeOK
  BY <1>1, <1>2, <1>3, NoEntryType DEF TypeOK, Node, SearchType
<1> QED
  BY <1>1, <1>3, <1>4
  DEF GraphInv, CandidatesInv, PromptInv, EntryInv, PromptSound, At, Hashed, Created

\* What the invariant says of what a step leaves alone.
LEMMA StateFields ==
  ASSUME GraphInv
  PROVE  /\ node \in Node /\ state \in AgentState /\ search \in SearchType
         /\ entry \in [Hash -> Entry]
         /\ state.chunks \in Seq(Passage) /\ state.chunks \in Chunks
         /\ state.reranked \in Seq(Passage) /\ state.answer \in Answer
         /\ search.candidates \in Seq(Passage) /\ search.copy \in Entry
         /\ \A h \in Hash : entry[h].answer # NoAnswer => entry[h].status = "approved"
BY ChunksType DEF GraphInv, TypeOK, AgentState, SearchType

LEMMA AskedType ==
  ASSUME GraphInv
  PROVE  /\ state.topK \in Nat /\ Min({state.topK, FinalTopK}) \in Nat
         /\ Min({state.topK, FinalTopK}) <= FinalTopK
<1>1. state.topK \in TopK \cup {0}
  BY StateFields DEF AgentState
<1>2. TopK \cup {0} \subseteq Nat
  BY GraphAssumption
<1>3. state.topK \in Nat /\ FinalTopK \in Nat
  BY <1>1, <1>2, Limits
<1> QED
  BY <1>3, MinOfTwo

LEMMA EndJobInv ==
  ASSUME GraphInv, NEW label \in {"done", "failed"}, EndJob(label)
  PROVE  GraphInv'
<1>1. /\ node' = label /\ search' = NoSearch /\ entry' = entry
      /\ state' \in AgentState /\ ~state'.cacheHit /\ ~state'.chunkCacheHit
      /\ state'.reranked = <<>>
  BY InitialType DEF EndJob
<1>2. search' \in SearchType /\ ~search'.own
  BY <1>1, NoSearchType
<1>3. TypeOK'
  BY <1>1, <1>2 DEF GraphInv, TypeOK, Node, SearchType
<1> QED
  BY <1>1, <1>2, <1>3
  DEF GraphInv, CandidatesInv, PromptInv, EntryInv, PromptSound, At, Hashed, Created

LEMMA StartJobInv ==
  ASSUME GraphInv, StartJob
  PROVE  GraphInv'
<1>1. /\ node' = "cache_lookup" /\ search' = NoSearch /\ entry' = entry
      /\ state' \in AgentState /\ ~state'.cacheHit /\ ~state'.chunkCacheHit
      /\ state'.reranked = <<>>
  BY InitialType DEF StartJob
<1>2. search' \in SearchType /\ ~search'.own
  BY <1>1, NoSearchType
<1>3. TypeOK'
  BY <1>1, <1>2 DEF GraphInv, TypeOK, Node, SearchType
<1> QED
  BY <1>1, <1>2, <1>3
  DEF GraphInv, CandidatesInv, PromptInv, EntryInv, PromptSound, At, Hashed, Created

\* The nodes before the retrieval.
LEMMA LookupInv ==
  ASSUME GraphInv, CacheLookup
  PROVE  GraphInv'
<1>1. node = "cache_lookup" /\ search' = search /\ entry' = entry
  BY DEF CacheLookup, At
<1>2. /\ state' \in AgentState /\ state'.chunkCacheHit = state.chunkCacheHit
      /\ state'.reranked = state.reranked
  <2>1. CASE state' = state
    BY <2>1, StateFields
  <2>2. CASE state' = [state EXCEPT !.embedded = TRUE]
    BY <2>2, StateFields DEF AgentState
  <2>3. CASE \E h \in Hash :
               state' = [state EXCEPT !.embedded = TRUE, !.cacheHit = TRUE, !.hash = h,
                                      !.answer = entry[h].answer]
    <3>1. PICK h \in Hash :
            state' = [state EXCEPT !.embedded = TRUE, !.cacheHit = TRUE, !.hash = h,
                                   !.answer = entry[h].answer]
      BY <2>3
    <3>2. entry[h].answer \in Answer
      BY StateFields DEF Entry
    <3> QED
      BY <3>1, <3>2, StateFields DEF AgentState
  <2> QED
    BY <2>1, <2>2, <2>3 DEF CacheLookup
<1>3. \/ node' = "stream_cached" /\ state'.cacheHit
      \/ node' \in {"retrieve_memory", "query_rewrite"} /\ ~state'.cacheHit
  BY DEF CacheLookup, AfterLookup
<1>4. TypeOK'
  BY <1>1, <1>2, <1>3 DEF GraphInv, TypeOK, Node
<1> QED
  BY <1>1, <1>2, <1>3, <1>4
  DEF GraphInv, CandidatesInv, PromptInv, EntryInv, PromptSound, At, Hashed, Created

LEMMA QuietInv ==
  ASSUME GraphInv, StreamCached \/ RetrieveMemory \/ Enqueue \/ SaveFails
  PROVE  GraphInv'
<1>1. /\ state' = state /\ search' = search /\ entry' = entry
      /\ \/ node = "stream_cached" /\ node' = "cache_write"
         \/ node = "retrieve_memory" /\ node' = "query_rewrite"
         \/ node = "enqueue" /\ node' = "entity_extraction"
         \/ node \in {"save_answer", "write_answer"} /\ node' = "cache_write"
  BY DEF StreamCached, RetrieveMemory, Enqueue, SaveFails, At, AfterRetrieval
<1>2. TypeOK'
  BY <1>1 DEF GraphInv, TypeOK, Node
<1> QED
  BY <1>1, <1>2
  DEF GraphInv, CandidatesInv, PromptInv, EntryInv, PromptSound, At, Hashed, Created

LEMMA RewriteInv ==
  ASSUME GraphInv, QueryRewrite
  PROVE  GraphInv'
<1>1. PICK h \in Hash : state' = [state EXCEPT !.hash = h]
  BY DEF QueryRewrite
<1>2. node = "query_rewrite" /\ node' = "retrieval" /\ search' = search /\ entry' = entry
  BY DEF QueryRewrite, At
<1>3. /\ state' \in AgentState /\ state'.hash = h
      /\ state'.cacheHit = state.cacheHit /\ state'.chunkCacheHit = state.chunkCacheHit
      /\ state'.reranked = state.reranked
  BY <1>1, StateFields DEF AgentState
<1>4. TypeOK'
  BY <1>2, <1>3 DEF GraphInv, TypeOK, Node
<1> QED
  BY <1>2, <1>3, <1>4
  DEF GraphInv, CandidatesInv, PromptInv, EntryInv, PromptSound, At, Hashed, Created
\* An approved entry goes to generate, any other to the search.
LEMMA LookupEntryInv ==
  ASSUME GraphInv, LookupEntry
  PROVE  GraphInv'
<1>1. node = "retrieval" /\ entry' = entry /\ state.hash \in Hash
  BY DEF LookupEntry, At, GraphInv, EntryInv, Hashed
<1>2. entry[state.hash] \in Entry
  BY <1>1, StateFields
<1>3. CASE entry[state.hash].status = "approved"
  <2>1. /\ state' = [state EXCEPT !.chunks = entry[state.hash].chunks, !.chunkCacheHit = TRUE]
        /\ node' = "generate" /\ search' = search
    BY <1>3 DEF LookupEntry, AfterRetrieval
  <2>2. entry[state.hash].chunks \in Chunks
    BY <1>2 DEF Entry
  <2>3. /\ state' \in AgentState /\ state'.chunkCacheHit /\ state'.hash = state.hash
        /\ state'.cacheHit = state.cacheHit /\ state'.reranked = state.reranked
    BY <2>1, <2>2, StateFields DEF AgentState
  <2>4. TypeOK'
    BY <1>1, <2>1, <2>3 DEF GraphInv, TypeOK, Node
  <2> QED
    BY <1>1, <2>1, <2>3, <2>4
    DEF GraphInv, CandidatesInv, PromptInv, EntryInv, PromptSound, At, Hashed, Created
<1>4. CASE entry[state.hash].status # "approved"
  <2>1. /\ search' = [search EXCEPT !.seen = entry[state.hash].status]
        /\ node' = "search" /\ state' = state
    BY <1>4 DEF LookupEntry
  <2>2. entry[state.hash].status \in {"absent", "pending_review", "rejected"}
    BY <1>2, <1>4 DEF Entry
  <2>3. search' \in SearchType /\ search'.own = search.own
    BY <2>1, <2>2, StateFields DEF SearchType
  <2>4. TypeOK'
    BY <1>1, <2>1, <2>3 DEF GraphInv, TypeOK, Node, SearchType
  <2> QED
    BY <1>1, <2>1, <2>2, <2>3, <2>4
    DEF GraphInv, CandidatesInv, PromptInv, EntryInv, PromptSound, At, Hashed, Created
<1> QED
  BY <1>3, <1>4

LEMMA SearchInv ==
  ASSUME GraphInv, Search
  PROVE  GraphInv'
<1>1. PICK r \in SearchResults :
        search' = [search EXCEPT !.lists = r.lists, !.candidates = r.candidates]
  BY DEF Search
<1>2. node = "search" /\ node' = "llm_rerank" /\ state' = state /\ entry' = entry
  BY DEF Search, At
<1>3. /\ r.lists \in Seq(VectorResults) /\ Len(r.lists) <= 2
      /\ r.candidates = FirstN(RrfFuse(r.lists), RerankTopN)
      /\ r.candidates \in Seq(Passage)
  BY ResultsType
<1>4. /\ search' \in SearchType /\ search'.own = search.own /\ search'.copy = search.copy
      /\ search'.lists = r.lists /\ search'.candidates = r.candidates
  BY <1>1, <1>3, StateFields DEF SearchType
<1>5. TypeOK'
  BY <1>2, <1>4 DEF GraphInv, TypeOK, Node, SearchType
<1>6. CandidatesInv'
  BY <1>3, <1>4 DEF CandidatesInv
<1> QED
  BY <1>2, <1>4, <1>5, <1>6
  DEF GraphInv, PromptInv, EntryInv, PromptSound, At, Hashed, Created

LEMMA RerankCandidatesInv ==
  ASSUME GraphInv, RerankCandidates
  PROVE  GraphInv'
<1> DEFINE n == Min({state.topK, FinalTopK})
<1>1. PICK indices \in Replies(search.candidates) :
        state' = [state EXCEPT !.chunks = LLMRerank(search.candidates, indices, n)]
  BY DEF RerankCandidates
<1> DEFINE c == LLMRerank(search.candidates, indices, n)
<1>2. /\ node = "llm_rerank" /\ entry' = entry
      /\ node' = IF search.seen = "absent" THEN "create" ELSE "entity_extraction"
      /\ search' = [search EXCEPT !.lists = <<>>, !.candidates = <<>>]
  BY DEF RerankCandidates, At, AfterRetrieval
<1>3. FinalTopK \in Nat
  BY Limits
<1>4. n \in Nat /\ n <= FinalTopK
  BY AskedType
<1>5. indices \in Seq(Nat)
  BY <1>1, StateFields, RepliesType
<1>6. c \in Seq(Passage) /\ Len(c) <= n
  BY <1>4, <1>5, StateFields, LLMRerankType
<1>7. c \in Chunks
  <2> HIDE DEF c, n
  <2>1. Len(c) \in Nat
    BY <1>6
  <2> QED
    BY <1>3, <1>4, <1>6, <2>1, ChunksType
<1> HIDE DEF c, n
<1>8. /\ state' \in AgentState /\ state'.hash = state.hash
      /\ state'.cacheHit = state.cacheHit /\ state'.chunkCacheHit = state.chunkCacheHit
      /\ state'.reranked = state.reranked
  BY <1>1, <1>7, StateFields DEF AgentState, c
<1>9. search' \in SearchType /\ search'.own = search.own /\ search'.copy = search.copy
  <2>1. <<>> \in Seq(VectorResults) /\ <<>> \in Seq(Passage)
    OBVIOUS
  <2> QED
    BY <1>2, <2>1, StateFields DEF SearchType
<1>10. TypeOK'
  BY <1>2, <1>8, <1>9 DEF GraphInv, TypeOK, Node, SearchType
<1> QED
  BY <1>2, <1>8, <1>9, <1>10
  DEF GraphInv, CandidatesInv, PromptInv, EntryInv, PromptSound, At, Hashed, Created

LEMMA CreateInv ==
  ASSUME GraphInv, Create
  PROVE  GraphInv'
<1>1. PICK s \in DecideStatus(state.chunks) :
        entry' = [entry EXCEPT ![state.hash] =
                    [status |-> s, chunks |-> state.chunks, answer |-> NoAnswer]]
  BY DEF Create
<1>2. /\ node = "create" /\ node' = "enqueue" /\ state' = state
      /\ search' = [search EXCEPT !.own = TRUE]
  BY DEF Create, At
<1>3. state.hash \in Hash /\ search' \in SearchType
  BY <1>2, StateFields DEF GraphInv, EntryInv, Hashed, At, SearchType
<1> DEFINE e == [status |-> s, chunks |-> state.chunks, answer |-> NoAnswer]
<1>4. s \in {"approved", "pending_review"}
  BY <1>1 DEF DecideStatus
<1>5. e \in Entry /\ e.answer = NoAnswer /\ e.chunks = state.chunks
  BY <1>4, StateFields, NoEntryType DEF Entry
<1> HIDE DEF e
<1>6. entry' = [entry EXCEPT ![state.hash] = e]
  BY <1>1 DEF e
<1>7. /\ entry' \in [Hash -> Entry] /\ entry'[state.hash] = e
      /\ \A h \in Hash : h # state.hash => entry'[h] = entry[h]
  BY <1>3, <1>5, <1>6, StateFields
<1>8. TypeOK'
  BY <1>2, <1>3, <1>5, <1>7, StateFields DEF GraphInv, TypeOK, Node, SearchType
<1>9. EntryInv'
  BY <1>2, <1>3, <1>5, <1>7 DEF EntryInv, Hashed, Created, At
<1> QED
  BY <1>2, <1>3, <1>8, <1>9 DEF GraphInv, CandidatesInv, PromptInv, PromptSound, At

LEMMA EntityExtractionInv ==
  ASSUME GraphInv, EntityExtraction
  PROVE  GraphInv'
<1>1. /\ node = "entity_extraction" /\ node' = "rerank" /\ search' = search
      /\ entry' = entry /\ state' = [state EXCEPT !.reranked = state.chunks]
  BY DEF EntityExtraction, At
<1>2. /\ state' \in AgentState /\ state'.hash = state.hash /\ state'.chunks = state.chunks
      /\ state'.cacheHit = state.cacheHit /\ state'.chunkCacheHit = state.chunkCacheHit
      /\ state'.reranked = state.chunks
  BY <1>1, StateFields DEF AgentState
<1>3. TypeOK'
  BY <1>1, <1>2 DEF GraphInv, TypeOK, Node
<1> QED
  BY <1>1, <1>2, <1>3
  DEF GraphInv, CandidatesInv, PromptInv, EntryInv, PromptSound, At, Hashed, Created

LEMMA RerankInv ==
  ASSUME GraphInv, Rerank
  PROVE  GraphInv'
<1>1. PICK indices \in Replies(state.reranked) :
        state' = [state EXCEPT !.reranked = Reranked(state.reranked, indices)]
  BY DEF Rerank
<1> DEFINE r == Reranked(state.reranked, indices)
<1>2. node = "rerank" /\ node' = "generate" /\ search' = search /\ entry' = entry
  BY DEF Rerank, At
<1>3. indices \in Seq(Nat)
  BY <1>1, StateFields, RepliesType
<1>4. r \in Seq(Passage) /\ ToSet(r) = ToSet(state.reranked)
  BY <1>3, StateFields, RerankedKeeps
<1> HIDE DEF r
<1>5. /\ state' \in AgentState /\ state'.hash = state.hash /\ state'.chunks = state.chunks
      /\ state'.cacheHit = state.cacheHit /\ state'.chunkCacheHit = state.chunkCacheHit
      /\ state'.reranked = r
  BY <1>1, <1>4, StateFields DEF AgentState, r
<1>6. TypeOK'
  BY <1>2, <1>5 DEF GraphInv, TypeOK, Node
<1> QED
  BY <1>2, <1>4, <1>5, <1>6
  DEF GraphInv, CandidatesInv, PromptInv, EntryInv, PromptSound, At, Hashed, Created

\* What a longer cut keeps includes what a shorter one does.
LEMMA FirstNGrows ==
  ASSUME NEW P, NEW s \in Seq(P), NEW m \in Nat, NEW n \in Nat, m <= n
  PROVE  ToSet(FirstN(s, m)) \subseteq ToSet(FirstN(s, n))
<1> DEFINE a == FirstN(s, m)
           b == FirstN(s, n)
<1>1. /\ a \in Seq(P) /\ Len(a) = IF m <= Len(s) THEN m ELSE Len(s)
      /\ \A i \in 1 .. Len(a) : a[i] = s[i]
  BY FirstNKeeps
<1>2. /\ b \in Seq(P) /\ Len(b) = IF n <= Len(s) THEN n ELSE Len(s)
      /\ \A i \in 1 .. Len(b) : b[i] = s[i]
  BY FirstNKeeps
<1> HIDE DEF a, b
<1>3. /\ DOMAIN a = 1 .. Len(a) /\ DOMAIN b = 1 .. Len(b)
      /\ \A i \in 1 .. Len(a) : i \in 1 .. Len(b) /\ a[i] = b[i]
  BY <1>1, <1>2
<1>4. ToSet(a) \subseteq ToSet(b)
  BY <1>3 DEF ToSet
<1> QED
  BY <1>4 DEF a, b

\* The passages of the prompt are those of the retrieval, cut where there are too
\* many.
LEMMA GenerateInv ==
  ASSUME GraphInv, Generate
  PROVE  GraphInv'
<1> DEFINE context == EffectiveChunks(state.chunks, state.reranked)
<1>1. PICK text \in BOOLEAN, n \in Fitting(context) :
        state' = [state EXCEPT !.answer = [text |-> text, from |-> ToSet(FirstN(context, n))]]
  BY DEF Generate
<1> DEFINE from == ToSet(FirstN(context, n))
<1>2. /\ node = "generate" /\ search' = search /\ entry' = entry
      /\ node' = IF state.embedded /\ state.hash # None /\ ~state.chunkCacheHit
                   THEN "save_answer" ELSE "cache_write"
  BY DEF Generate, At
<1>3. ToSet(context) = ToSet(state.chunks) /\ context \in Seq(Passage)
  BY <1>2, StateFields DEF GraphInv, PromptInv, EffectiveChunks
<1> HIDE DEF context
<1>4. /\ n \in Nat /\ ContextRoom \in Nat /\ Len(context) \in Nat
      /\ n = Len(context) \/ (ContextRoom <= n /\ Len(context) > ContextRoom)
  BY <1>1, <1>3, GraphAssumption DEF Fitting
<1>5. from \subseteq ToSet(context) /\ (n = Len(context) => from = ToSet(context))
  BY <1>3, <1>4, FirstNKeeps
<1>6. ToSet(FirstN(context, ContextRoom)) \subseteq from \/ from = ToSet(context)
  BY <1>3, <1>4, <1>5, FirstNGrows
<1> HIDE DEF from
<1>7. from \in SUBSET Passage
  <2>1. \A i \in DOMAIN context : context[i] \in Passage
    BY <1>3
  <2> QED
    BY <1>5, <2>1 DEF ToSet
<1>8. [text |-> text, from |-> from] \in Answer
  BY <1>7 DEF Answer
<1>9. /\ state' \in AgentState /\ state'.hash = state.hash /\ state'.chunks = state.chunks
      /\ state'.cacheHit = state.cacheHit /\ state'.chunkCacheHit = state.chunkCacheHit
      /\ state'.reranked = state.reranked /\ state'.answer.from = from
  BY <1>1, <1>8, StateFields DEF AgentState, from
<1>10. TypeOK'
  BY <1>2, <1>9 DEF GraphInv, TypeOK, Node
<1>11. EffectiveChunks(state.chunks, state.reranked)' = context
  BY <1>9 DEF context, EffectiveChunks
<1>12. PromptSound'
  BY <1>3, <1>4, <1>5, <1>6, <1>9, <1>11 DEF PromptSound
<1>13. CandidatesInv' /\ EntryInv'
  BY <1>2, <1>9 DEF GraphInv, CandidatesInv, EntryInv, Hashed, Created, At
<1> QED
  BY <1>2, <1>9, <1>10, <1>12, <1>13 DEF GraphInv, PromptInv, At

LEMMA SaveAnswerInv ==
  ASSUME GraphInv, SaveAnswer
  PROVE  GraphInv'
<1>1. node = "save_answer" /\ state' = state /\ entry' = entry /\ state.hash \in Hash
  BY DEF SaveAnswer, At, GraphInv, EntryInv, Hashed
<1>2. CASE node' = "cache_write" /\ search' = search
  <2>1. TypeOK'
    BY <1>1, <1>2 DEF GraphInv, TypeOK, Node
  <2> QED
    BY <1>1, <1>2, <2>1
    DEF GraphInv, CandidatesInv, PromptInv, EntryInv, PromptSound, At, Hashed, Created
<1>3. CASE /\ entry[state.hash].status = "approved" /\ node' = "write_answer"
           /\ search' = [search EXCEPT !.copy = entry[state.hash]]
  <2>1. entry[state.hash] \in Entry
    BY <1>1, StateFields
  <2>2. /\ search' \in SearchType /\ search'.own = search.own
        /\ search'.copy = entry[state.hash]
    BY <1>3, <2>1, StateFields DEF SearchType
  <2>3. search.own => entry[state.hash].chunks = state.chunks
    BY <1>1 DEF GraphInv, EntryInv, Created
  <2>4. TypeOK'
    BY <1>1, <1>3, <2>2 DEF GraphInv, TypeOK, Node, SearchType
  <2> QED
    BY <1>1, <1>3, <2>2, <2>3, <2>4
    DEF GraphInv, CandidatesInv, PromptInv, EntryInv, PromptSound, At, Hashed, Created
<1> QED
  BY <1>2, <1>3 DEF SaveAnswer, Savable

LEMMA WriteAnswerInv ==
  ASSUME GraphInv, WriteAnswer
  PROVE  GraphInv'
<1>1. /\ node = "write_answer" /\ node' = "cache_write" /\ state' = state
      /\ search' = search /\ state.hash \in Hash
      /\ entry' = [entry EXCEPT ![state.hash] = [search.copy EXCEPT !.answer = state.answer]]
  BY DEF WriteAnswer, At, GraphInv, EntryInv, Hashed
<1> DEFINE e == [search.copy EXCEPT !.answer = state.answer]
<1>2. e \in Entry /\ e.status = search.copy.status
  BY StateFields DEF Entry
<1>3. search.copy.status = "approved"
  BY <1>1 DEF GraphInv, EntryInv, At
<1> HIDE DEF e
<1>4. entry' = [entry EXCEPT ![state.hash] = e]
  BY <1>1 DEF e
<1>5. /\ entry' \in [Hash -> Entry] /\ entry'[state.hash] = e
      /\ \A h \in Hash : h # state.hash => entry'[h] = entry[h]
  BY <1>1, <1>2, <1>4, StateFields
<1>6. TypeOK'
  BY <1>1, <1>2, <1>3, <1>5, StateFields DEF GraphInv, TypeOK, Node
<1> QED
  BY <1>1, <1>6
  DEF GraphInv, CandidatesInv, PromptInv, EntryInv, PromptSound, At, Hashed, Created

LEMMA ReviewInv ==
  ASSUME GraphInv, NEW h \in Hash, Review(h)
  PROVE  GraphInv'
<1>1. PICK verdict \in {"approved", "rejected"} :
        entry' = [entry EXCEPT ![h].status = verdict]
  BY DEF Review
<1>2. /\ entry[h].status = "pending_review" /\ node' = node /\ state' = state
      /\ search' = search
  BY DEF Review
<1> DEFINE e == [entry[h] EXCEPT !.status = verdict]
<1>3. /\ e \in Entry /\ e.status = verdict /\ e.chunks = entry[h].chunks
      /\ e.answer = entry[h].answer
  BY StateFields DEF Entry
<1>4. entry' = [entry EXCEPT ![h] = e]
  BY <1>1
<1> HIDE DEF e
<1>5. /\ entry' \in [Hash -> Entry] /\ entry'[h] = e
      /\ \A g \in Hash : g # h => entry'[g] = entry[g]
  BY <1>3, <1>4, StateFields
<1>6. entry[h].answer = NoAnswer
  BY <1>2, StateFields
<1>7. TypeOK'
  BY <1>2, <1>3, <1>5, <1>6, StateFields DEF GraphInv, TypeOK
<1>8. EntryInv'
  BY <1>2, <1>3, <1>5 DEF GraphInv, EntryInv, Hashed, Created, At
<1> QED
  BY <1>2, <1>7, <1>8 DEF GraphInv, CandidatesInv, PromptInv, PromptSound, At

\* Whatever typed entry another actor stores: what the job has of its own is in the
\* entry as long as its passages stand.
LEMMA BecomesInv ==
  ASSUME GraphInv, NEW h \in Hash, NEW e \in Entry, Becomes(h, e),
         e.answer # NoAnswer => e.status = "approved"
  PROVE  GraphInv'
<1> DEFINE kept == h # state.hash \/ At("write_answer") \/ e.chunks = entry[h].chunks
<1>1. /\ entry' = [entry EXCEPT ![h] = e] /\ node' = node /\ state' = state
      /\ search' = [search EXCEPT !.own = search.own /\ kept]
  BY DEF Becomes
<1>2. /\ entry' \in [Hash -> Entry] /\ entry'[h] = e
      /\ \A g \in Hash : g # h => entry'[g] = entry[g]
  BY <1>1, StateFields
<1>3. kept \in BOOLEAN /\ search.own \in BOOLEAN
  BY StateFields DEF SearchType
<1>4. /\ search' \in SearchType /\ (search'.own <=> search.own /\ kept)
      /\ search'.copy = search.copy /\ search'.lists = search.lists
      /\ search'.candidates = search.candidates
  <2> HIDE DEF kept
  <2> QED
    BY <1>1, <1>3, StateFields DEF SearchType
<1>5. TypeOK'
  BY <1>1, <1>2, <1>4, StateFields DEF GraphInv, TypeOK, SearchType
<1>6. EntryInv'
  BY <1>1, <1>2, <1>4 DEF GraphInv, EntryInv, Hashed, Created, At
<1> QED
  BY <1>1, <1>4, <1>5, <1>6 DEF GraphInv, CandidatesInv, PromptInv, PromptSound, At

LEMMA AnsweredType ==
  ASSUME NEW e \in Entry
  PROVE  /\ Answered(e) \in Entry /\ Answered(e).status = "approved"
<1>1. e.chunks \in Seq(Passage)
  BY ChunksType DEF Entry
<1>2. \A i \in DOMAIN e.chunks : e.chunks[i] \in Passage
  BY <1>1
<1>3. [text |-> TRUE, from |-> ToSet(e.chunks)] \in Answer
  BY <1>2 DEF Answer, ToSet
<1> QED
  BY <1>3 DEF Answered, Entry

LEMMA OtherEntriesType ==
  ASSUME NEW e \in OtherEntries
  PROVE  e \in Entry /\ (e.answer # NoAnswer => e.status = "approved")
<1> DEFINE undecided == [status : {"pending_review", "approved", "rejected"},
                         chunks : OtherChunks, answer : {NoAnswer}]
<1>1. \A u \in undecided : u \in Entry /\ u.answer = NoAnswer
  BY NoEntryType DEF OtherChunks, Entry
<1>2. e \in undecided \/ \E u \in undecided : e = Answered(u)
  BY DEF OtherEntries
<1> HIDE DEF undecided
<1> QED
  BY <1>1, <1>2, AnsweredType

LEMMA MeanwhileInv ==
  ASSUME GraphInv, NEW h \in Hash, Meanwhile(h)
  PROVE  GraphInv'
<1>1. CASE Expire(h)
  BY <1>1, BecomesInv, NoEntryType DEF Expire
<1>2. CASE OtherStores(h)
  BY <1>2, BecomesInv, OtherEntriesType DEF OtherStores
<1>3. CASE OtherSaves(h)
  <2>1. entry[h] \in Entry
    BY StateFields
  <2> QED
    BY <1>3, <2>1, BecomesInv, AnsweredType DEF OtherSaves
<1> QED
  BY <1>1, <1>2, <1>3, ReviewInv DEF Meanwhile

LEMMA JobStepInv ==
  ASSUME GraphInv, JobStep
  PROVE  GraphInv'
<1>1. CASE CacheWrite \/ NodeRaises
  <2>1. EndJob("done") \/ EndJob("failed")
    BY <1>1 DEF CacheWrite, NodeRaises
  <2> QED
    BY <2>1, EndJobInv
<1>2. CASE StreamCached \/ RetrieveMemory \/ Enqueue \/ SaveFails
  BY <1>2, QuietInv
<1> QED
  BY <1>1, <1>2, LookupInv, RewriteInv, LookupEntryInv, SearchInv, RerankCandidatesInv,
     CreateInv, EntityExtractionInv, RerankInv, GenerateInv, SaveAnswerInv, WriteAnswerInv
  DEF JobStep

LEMMA GraphStutters ==
  ASSUME GraphInv, UNCHANGED vars
  PROVE  GraphInv'
BY DEF vars, GraphInv, TypeOK, CandidatesInv, PromptInv, EntryInv, PromptSound, At,
       Hashed, Created

LEMMA GraphInvHolds == Spec => []GraphInv
<1>1. GraphInv /\ [Next]_vars => GraphInv'
  <2> SUFFICES ASSUME GraphInv, [Next]_vars PROVE GraphInv'
    OBVIOUS
  <2>1. CASE StartJob
    BY <2>1, StartJobInv
  <2>2. CASE JobStep
    BY <2>2, JobStepInv
  <2>3. CASE \E h \in Hash : Meanwhile(h)
    BY <2>3, MeanwhileInv
  <2>4. CASE UNCHANGED vars
    BY <2>4, GraphStutters
  <2> QED
    BY <2>1, <2>2, <2>3, <2>4 DEF Next
<1> QED
  BY <1>1, GraphInitInv, PTL DEF Spec

-----------------------------------------------------------------------------
(* The theorems.                                                           *)

\* A list without repetition has as many elements as places.
LEMMA DistinctCount ==
  ASSUME NEW P, NEW s \in Seq(P), IsInjective(s)
  PROVE  Cardinality(ToSet(s)) = Len(s)
<1>1. PICK n \in Nat : n = Len(s) /\ DOMAIN s = 1 .. n
  OBVIOUS
<1>2. s \in [1 .. n -> ToSet(s)]
  BY <1>1 DEF ToSet
<1>3. s \in Bijection(1 .. n, ToSet(s))
  BY <1>1, <1>2 DEF Bijection, Injection, Surjection, ToSet
<1>4. ExistsBijection(1 .. n, ToSet(s))
  BY <1>3 DEF ExistsBijection
<1> QED
  BY <1>1, <1>4, FS_CountingElements

\* The candidates are the first of the fused list.
LEMMA CandidateFacts ==
  ASSUME NEW lists \in Seq(VectorResults), Len(lists) <= 2,
         NEW cand, cand = FirstN(RrfFuse(lists), RerankTopN)
  PROVE  /\ cand \in Seq(Passage) /\ IsInjective(cand) /\ ToSet(cand) \subseteq Found(lists)
         /\ Len(cand) = Min({RerankTopN, Cardinality(Found(lists))})
         /\ Cardinality(ToSet(cand)) = Len(cand)
<1> DEFINE s == RrfFuse(lists)
<1>1. /\ s \in Seq(Passage) /\ Len(s) = Cardinality(Found(lists))
      /\ ToSet(s) = Found(lists) /\ IsInjective(s)
  BY Fused
<1> HIDE DEF s
<1>2. cand = FirstN(s, RerankTopN)
  BY DEF s
<1>3. /\ cand \in Seq(Passage)
      /\ Len(cand) = IF RerankTopN <= Len(s) THEN RerankTopN ELSE Len(s)
      /\ \A i \in 1 .. Len(cand) : cand[i] = s[i]
      /\ ToSet(cand) \subseteq ToSet(s)
  BY <1>1, <1>2, Limits, FirstNKeeps
<1>4. Len(s) \in Nat /\ Len(cand) \in Nat /\ Len(cand) <= Len(s)
  BY <1>1, <1>3, Limits
<1>5. DOMAIN cand = 1 .. Len(cand) /\ DOMAIN s = 1 .. Len(s)
  BY <1>1, <1>3
<1>6. IsInjective(cand)
  BY <1>1, <1>3, <1>4, <1>5 DEF IsInjective
<1>7. Min({RerankTopN, Len(s)}) = IF RerankTopN <= Len(s) THEN RerankTopN ELSE Len(s)
  BY <1>4, Limits, MinOfTwo
<1>8. Cardinality(ToSet(cand)) = Len(cand)
  BY <1>3, <1>6, DistinctCount
<1> QED
  BY <1>1, <1>3, <1>6, <1>7, <1>8

\* Every variable keeps its type, and an answer is kept only with an approved entry,
\* for any passages, limits and failures (nodes.py, state.py, cache/schemas.py).
THEOREM GraphTyping == Spec => []TypeOK
<1>1. GraphInv => TypeOK
  BY DEF GraphInv
<1> QED
  BY <1>1, GraphInvHolds, PTL

\* The prompt is made of passages of the retrieval or of the cached entry, and of all
\* of them but the last, in the order of the LLM, where there are more than are certain
\* to fit, for any passages, limits, failures and replies of the LLM (nodes.py
\* 151-191, 224-234; graph.py 59-60).
THEOREM PromptKept == Spec => []PromptSound
<1>1. GraphInv => PromptSound
  BY DEF GraphInv, PromptInv
<1> QED
  BY <1>1, GraphInvHolds, PTL

\* A job that created the entry saves an answer with it made from its passages, all of
\* them unless the context was cut, as long as no other worker replaces those passages,
\* however reviews, expiries and the answers of others fall in between
\* (service.py 59-90, 136-153; nodes.py 224-234, 267-269).
THEOREM AnswerFits == Spec => AnswerFitsEntry
<1>1. ASSUME GraphInv, WriteAnswer, search.own
      PROVE  LET shown == ToSet(entry'[state.hash].chunks) IN
             /\ state.answer.from \subseteq shown
             /\ \/ state.answer.from = shown
                \/ Len(EffectiveChunks(state.chunks, state.reranked)) > ContextRoom
  <2>1. /\ node = "write_answer"
        /\ entry' = [entry EXCEPT ![state.hash] =
                       [search.copy EXCEPT !.answer = state.answer]]
    BY <1>1 DEF WriteAnswer, At
  <2>2. state.hash \in Hash /\ search.copy.chunks = state.chunks /\ ~state.cacheHit
    BY <1>1, <2>1 DEF GraphInv, EntryInv, PromptInv, Hashed, At
  <2>3. /\ state.answer.from \subseteq ToSet(state.chunks)
        /\ \/ state.answer.from = ToSet(state.chunks)
           \/ Len(EffectiveChunks(state.chunks, state.reranked)) > ContextRoom
    BY <1>1, <2>1, <2>2 DEF GraphInv, PromptInv, PromptSound
  <2>4. entry'[state.hash].chunks = search.copy.chunks
    BY <1>1, <2>1, <2>2, StateFields DEF Entry
  <2> QED
    BY <2>2, <2>3, <2>4
<1>2. GraphInv /\ [Next]_vars =>
        [WriteAnswer /\ search.own =>
           LET shown == ToSet(entry'[state.hash].chunks) IN
           /\ state.answer.from \subseteq shown
           /\ \/ state.answer.from = shown
              \/ Len(EffectiveChunks(state.chunks, state.reranked)) > ContextRoom]_vars
  BY <1>1
<1> QED
  BY <1>2, GraphInvHolds, PTL DEF Spec, AnswerFitsEntry

\* The retriever returns found passages only, no more than were asked for, and leaves
\* no candidate out while there is room, for any results, limits and replies of the
\* LLM (reranker.py 55-77, hybrid.py 58-75).
THEOREM SearchGivesAll == Spec => SearchComplete
<1>1. ASSUME GraphInv, RerankCandidates
      PROVE  LET found == Found(search.lists)
                 candidates == Min({RerankTopN, Cardinality(found)})
                 n == Min({state.topK, FinalTopK})
                 result == state'.chunks
             IN /\ ToSet(result) \subseteq found
                /\ Len(result) \in Min({n, candidates}) .. n
                /\ Len(result) < n => Cardinality(ToSet(result)) = candidates
  <2> DEFINE n == Min({state.topK, FinalTopK})
             cand == search.candidates
             m == Min({RerankTopN, Cardinality(Found(search.lists))})
  <2>1. PICK indices \in Replies(cand) :
          state' = [state EXCEPT !.chunks = LLMRerank(cand, indices, n)]
    BY <1>1 DEF RerankCandidates
  <2>2. node = "llm_rerank" /\ search.lists \in Seq(VectorResults)
    BY <1>1 DEF RerankCandidates, At, GraphInv, SearchType
  <2>3. Len(search.lists) <= 2 /\ cand = FirstN(RrfFuse(search.lists), RerankTopN)
    BY <1>1, <2>2 DEF GraphInv, CandidatesInv, At
  <2>4. /\ cand \in Seq(Passage) /\ ToSet(cand) \subseteq Found(search.lists)
        /\ Len(cand) = m /\ Cardinality(ToSet(cand)) = m
    BY <2>2, <2>3, CandidateFacts
  <2>5. n \in Nat
    BY <1>1, AskedType
  <2>6. indices \in Seq(Nat)
    BY <2>1, <2>4, RepliesType
  <2> DEFINE r == LLMRerank(cand, indices, n)
  <2>7. state'.chunks = r
    BY <1>1, <2>1, StateFields DEF AgentState
  <2> HIDE DEF n, cand
  <2>8. /\ r \in Seq(Passage) /\ ToSet(r) \subseteq ToSet(cand) /\ Len(r) <= n
        /\ Len(r) < n => ToSet(r) = ToSet(cand)
        /\ Len(cand) <= n => Len(r) >= Len(cand)
        /\ n <= Len(cand) => Len(r) >= n
    BY <2>4, <2>5, <2>6, LLMRerankType
  <2> HIDE DEF r, m
  <2>9. Len(r) \in Nat /\ m \in Nat
    BY <2>4, <2>8
  <2>10. Min({n, m}) = IF n <= m THEN n ELSE m
    BY <2>5, <2>9, MinOfTwo
  <2>11. Len(r) \in Min({n, m}) .. n
    BY <2>4, <2>5, <2>8, <2>9, <2>10
  <2>12. Len(r) < n => Cardinality(ToSet(r)) = m
    BY <2>4, <2>8
  <2>13. ToSet(r) \subseteq Found(search.lists)
    BY <2>4, <2>8
  <2> QED
    BY <2>7, <2>11, <2>12, <2>13 DEF n, m
<1>2. GraphInv /\ [Next]_vars =>
        [RerankCandidates =>
           LET found == Found(search.lists)
               candidates == Min({RerankTopN, Cardinality(found)})
               n == Min({state.topK, FinalTopK})
               result == state'.chunks
           IN /\ ToSet(result) \subseteq found
              /\ Len(result) \in Min({n, candidates}) .. n
              /\ Len(result) < n => Cardinality(ToSet(result)) = candidates]_vars
  BY <1>1
<1> QED
  BY <1>2, GraphInvHolds, PTL DEF Spec, SearchComplete

-----------------------------------------------------------------------------
(* The order of the fusion.                                                *)

Share(o) == ScoreUnit \div (RrfK + o[2])

\* An earlier place gives more, and no place gives twice as much as another.
LEMMA Shares ==
  ASSUME NEW lists \in Seq(VectorResults), NEW p, NEW q,
         NEW o \in Ranks(lists, p), NEW u \in Ranks(lists, q)
  PROVE  /\ Share(o) \in Nat /\ Share(u) \in Nat
         /\ o[2] < u[2] => Share(o) > Share(u)
         /\ Share(u) < 2 * Share(o)
<1>1. o[2] \in 1 .. SearchTopK /\ u[2] \in 1 .. SearchTopK
  BY RanksType
<1>2. PICK m \in Nat \ {0} :
        ScoreUnit = (RrfK + o[2]) * m /\ ScoreUnit \div (RrfK + o[2]) = m
  BY <1>1, ScoreUnitDivides
<1>3. PICK k \in Nat \ {0} :
        ScoreUnit = (RrfK + u[2]) * k /\ ScoreUnit \div (RrfK + u[2]) = k
  BY <1>1, ScoreUnitDivides
<1>4. Share(o) = m /\ Share(u) = k
  BY <1>2, <1>3 DEF Share
<1>5. PICK d \in Nat \ {0}, e \in Nat \ {0} :
        d = RrfK + o[2] /\ e = RrfK + u[2]
  BY <1>1, Limits
<1>6. d * m = e * k
  BY <1>2, <1>3, <1>5
<1>7. o[2] < u[2] => d < e
  BY <1>1, <1>5, Limits
<1>8. d < 2 * e
  BY <1>1, <1>5, Limits, RetrievalAssumption
<1>9. d < e => m > k
  <2> SUFFICES ASSUME d < e, m <= k PROVE FALSE
    OBVIOUS
  <2>1. d * m <= d * k /\ d * k < e * k
    OBVIOUS
  <2> QED
    BY <1>6, <2>1
<1>10. k < 2 * m
  <2> SUFFICES ASSUME 2 * m <= k PROVE FALSE
    OBVIOUS
  <2>1. d * m < (2 * e) * m
    BY <1>8
  <2>2. (2 * e) * m = e * (2 * m) /\ e * (2 * m) <= e * k
    OBVIOUS
  <2> QED
    BY <1>6, <2>1, <2>2
<1> QED
  BY <1>4, <1>7, <1>9, <1>10

LEMMA ScoreBounds ==
  ASSUME NEW lists \in Seq(VectorResults), NEW p
  PROVE  /\ \A o, u \in Ranks(lists, p) : o # u => Score(lists, p) >= Share(o) + Share(u)
         /\ \A o : Ranks(lists, p) = {o} => Score(lists, p) = Share(o)
<1> DEFINE R == Ranks(lists, p)
           f == [o \in R |-> Share(o)]
<1>1. \A o \in R : Share(o) \in Nat
  BY Shares
<1>2. IsFiniteSet(R) /\ f \in [R -> Nat]
  BY <1>1, RanksType
<1>3. Score(lists, p) = SumFunction(f)
  BY DEF Score, Share
<1>4. \A o \in R : f[o] = Share(o)
  OBVIOUS
<1> HIDE DEF f, R
<1>5. /\ \A x, y \in R : x # y => SumFunction(f) >= f[x] + f[y]
      /\ \A x : R = {x} => SumFunction(f) = f[x]
  BY <1>2, SumBounds
<1> QED
  BY <1>3, <1>4, <1>5 DEF R

\* What the searches agree on shows in the scores.
LEMMA OutranksScores ==
  ASSUME NEW lists \in Seq(VectorResults), NEW p, NEW q, Outranks(lists, p, q)
  PROVE  Score(lists, p) > Score(lists, q)
<1> DEFINE P == Ranks(lists, p)
           Q == Ranks(lists, q)
<1>1. IsFiniteSet(P) /\ IsFiniteSet(Q)
  BY RanksType
<1>2. Score(lists, p) \in Nat /\ Score(lists, q) \in Nat
  BY ScoreType
<1>3. CASE Cardinality(P) > 1 /\ Cardinality(Q) = 1
  <2>1. PICK v : Q = {v}
    BY <1>1, <1>3, FS_Singleton
  <2>2. P # {} /\ \A x : P # {x}
    BY <1>1, <1>3, FS_Singleton, FS_EmptySet
  <2>3. PICK o \in P, u \in P : o # u
    <3>1. PICK o \in P : TRUE
      BY <2>2
    <3>2. P # {o}
      BY <2>2
    <3>3. \E u \in P : u # o
      BY <3>1, <3>2
    <3> QED
      BY <3>1, <3>3
  <2>4. /\ Share(o) \in Nat /\ Share(u) \in Nat /\ Share(v) \in Nat
        /\ Share(v) < 2 * Share(o) /\ Share(v) < 2 * Share(u)
    BY <2>1, <2>3, Shares
  <2>5. Score(lists, p) >= Share(o) + Share(u) /\ Score(lists, q) = Share(v)
    BY <2>1, <2>3, ScoreBounds
  <2> QED
    BY <1>2, <2>4, <2>5
<1>4. CASE \E a \in P, b \in Q : P = {a} /\ Q = {b} /\ a[1] = b[1] /\ a[2] < b[2]
  <2>1. PICK a \in P, b \in Q : P = {a} /\ Q = {b} /\ a[2] < b[2]
    BY <1>4
  <2>2. Share(a) > Share(b)
    BY <2>1, Shares
  <2>3. Score(lists, p) = Share(a) /\ Score(lists, q) = Share(b)
    BY <2>1, ScoreBounds
  <2> QED
    BY <2>2, <2>3
<1> QED
  BY <1>3, <1>4 DEF Outranks

LEMMA MinOfOne ==
  ASSUME NEW i \in Nat
  PROVE  Min({i}) = i
<1>1. {i} \in SUBSET Nat /\ {i} # {}
  OBVIOUS
<1>2. Min({i}) \in {i}
  BY <1>1, MinIsLeast
<1> QED
  BY <1>2

\* The fusion keeps what the searches agree on, for any results, passages and limits
\* under RetrievalAssumption, also when one of the searches failed (rrf.py 20-30,
\* hybrid.py 39-67).
THEOREM FusionKeepsRanks == Spec => []FusionSound
<1>1. ASSUME GraphInv, At("llm_rerank")
      PROVE  LET cand == search.candidates found == Found(search.lists) IN
             /\ IsInjective(cand) /\ ToSet(cand) \subseteq found
             /\ Len(cand) = Min({RerankTopN, Cardinality(found)})
             /\ \A p, q \in found :
                  Outranks(search.lists, p, q) /\ Contains(cand, q) => Precedes(cand, p, q)
  <2> DEFINE lists == search.lists
             cand == search.candidates
             s == RrfFuse(lists)
  <2>1. lists \in Seq(VectorResults) /\ Len(lists) <= 2 /\ cand = FirstN(s, RerankTopN)
    BY <1>1 DEF GraphInv, CandidatesInv, SearchType
  <2>2. /\ cand \in Seq(Passage) /\ IsInjective(cand) /\ ToSet(cand) \subseteq Found(lists)
        /\ Len(cand) = Min({RerankTopN, Cardinality(Found(lists))})
    BY <2>1, CandidateFacts
  <2>3. /\ s \in Seq(Passage) /\ ToSet(s) = Found(lists)
        /\ \A i, j \in DOMAIN s : i < j => Score(lists, s[i]) >= Score(lists, s[j])
    BY <2>1, Fused
  <2>4. ASSUME NEW p \in Found(lists), NEW q \in Found(lists),
               Outranks(lists, p, q), Contains(cand, q)
        PROVE  Precedes(cand, p, q)
    <3> HIDE DEF lists, cand, s
    <3>1. Score(lists, p) > Score(lists, q)
      BY <2>1, <2>4, OutranksScores
    <3>2. Score(lists, p) \in Nat /\ Score(lists, q) \in Nat
      BY <2>1, ScoreType
    <3>3. PICK j \in 1 .. Len(cand) : cand[j] = q
      BY <2>4 DEF Contains
    <3>4. PICK i \in DOMAIN s : s[i] = p
      BY <2>3 DEF ToSet
    <3>5. /\ Len(cand) <= Len(s) /\ \A k \in 1 .. Len(cand) : cand[k] = s[k]
      <4>1. /\ Len(cand) = IF RerankTopN <= Len(s) THEN RerankTopN ELSE Len(s)
            /\ \A k \in 1 .. Len(cand) : cand[k] = s[k]
        BY <2>1, <2>3, Limits, FirstNKeeps
      <4>2. Len(s) \in Nat
        BY <2>3
      <4> QED
        BY <4>1, <4>2, Limits
    <3>6. DOMAIN s = 1 .. Len(s) /\ Len(s) \in Nat /\ Len(cand) \in Nat
      BY <2>2, <2>3
    <3>7. j \in DOMAIN s /\ s[j] = q
      BY <3>3, <3>5, <3>6
    <3>8. i < j
      <4>1. i \in Nat /\ j \in Nat
        BY <3>4, <3>6, <3>7
      <4>2. i # j
        BY <3>1, <3>2, <3>4, <3>7
      <4>3. ~(j < i)
        BY <2>3, <3>1, <3>2, <3>4, <3>7
      <4> QED
        BY <4>1, <4>2, <4>3
    <3>9. i \in 1 .. Len(cand) /\ cand[i] = p
      BY <3>3, <3>4, <3>5, <3>6, <3>8
    <3>10. /\ \A k \in 1 .. Len(cand) : cand[k] = p <=> k = i
           /\ \A k \in 1 .. Len(cand) : cand[k] = q <=> k = j
      <4>1. DOMAIN cand = 1 .. Len(cand)
        BY <2>2
      <4>2. \A a, b \in DOMAIN cand : cand[a] = cand[b] => a = b
        BY <2>2 DEF IsInjective
      <4> QED
        BY <3>3, <3>9, <4>1, <4>2
    <3>11. SelectInSeq(cand, LAMBDA y : y = p) = i
      <4>1. {k \in 1 .. Len(cand) : cand[k] = p} = {i} /\ Min({i}) = i
        BY <3>9, <3>10, MinOfOne
      <4> QED
        BY <4>1 DEF SelectInSeq
    <3>12. SelectInSeq(cand, LAMBDA y : y = q) = j
      <4>1. {k \in 1 .. Len(cand) : cand[k] = q} = {j} /\ Min({j}) = j
        BY <3>3, <3>10, MinOfOne
      <4> QED
        BY <4>1 DEF SelectInSeq
    <3>13. i # 0
      BY <3>9
    <3> QED
      BY <3>8, <3>11, <3>12, <3>13 DEF Precedes
  <2> QED
    BY <2>2, <2>4
<1>2. GraphInv => FusionSound
  BY <1>1 DEF FusionSound
<1> QED
  BY <1>2, GraphInvHolds, PTL

=============================================================================
