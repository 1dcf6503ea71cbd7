----------------------------- MODULE Induction -----------------------------
(***************************************************************************)
(* Induction in the form the provers can use, by a least counterexample,   *)
(* and what it yields for the sum of a function over a finite set, which   *)
(* the community modules define by recursion.                              *)
(***************************************************************************)
EXTENDS Integers, Functions, FiniteSetTheorems, WellFoundedInduction, TLAPS

Below == {p \in Nat \X Nat : p[1] < p[2]}

LEMMA BelowWellFounded == IsWellFoundedOn(Below, Nat)
<1>1. OpToRel(<, Nat) = Below
  BY Z3 DEF OpToRel, Below
<1>. QED
  BY <1>1, NatLessThanWellFounded, Zenon

(* A nonempty set of numbers has a least element. *)
LEMMA LeastNumber ==
  ASSUME NEW T \in SUBSET Nat, T # {}
  PROVE  \E x \in T : \A y \in T : x <= y
<1>1. PICK x \in T : \A y \in T : ~(<<y, x>> \in Below)
  BY BelowWellFounded, WFMin
<1>2. \A y \in T : <<y, x>> \in Nat \X Nat
  OBVIOUS
<1>3. \A y \in T : ~(y < x)
  BY <1>1, <1>2 DEF Below
<1>. QED
  BY <1>3

(* A nonempty set of subsets of a finite set has one of least cardinality. *)
LEMMA LeastSubset ==
  ASSUME NEW S, IsFiniteSet(S), NEW T \in SUBSET SUBSET S, T # {}
  PROVE  \E s \in T : \A r \in T : Cardinality(s) <= Cardinality(r)
<1>. DEFINE sizes == {Cardinality(s) : s \in T}
<1>1. \A s \in T : Cardinality(s) \in Nat
  BY FS_Subset, FS_CardinalityType
<1>2. sizes \in SUBSET Nat /\ sizes # {}
  BY <1>1
<1>3. PICK n \in sizes : \A m \in sizes : n <= m
  <2>. HIDE DEF sizes
  <2>. QED
    BY <1>2, LeastNumber
<1>. QED
  BY <1>3

-----------------------------------------------------------------------------
(* The sum of a function.  The element SumFunction adds first is any. *)
Pick(s) == CHOOSE x \in s : TRUE

(* g sums f over every set of D. *)
Unfolds(g, f, D) ==
  g = [s \in D |-> IF s = {} THEN 0 ELSE f[Pick(s)] + g[s \ {Pick(s)}]]

Sums(f, S) == CHOOSE g : Unfolds(g, f, SUBSET S)

LEMMA SumIsSums ==
  ASSUME NEW f PROVE SumFunction(f) = Sums(f, DOMAIN f)[DOMAIN f]
BY DEF SumFunction, SumFunctionOnSet, FoldFunctionOnSet, MapThenFoldSet, Sums,
   Unfolds, Pick

(* The subsets of S with at most n elements. *)
UpTo(S, n) == {s \in SUBSET S : Cardinality(s) <= n}

LEMMA PickLeaves ==
  ASSUME NEW S, IsFiniteSet(S), NEW s \in SUBSET S, s # {}
  PROVE  /\ Pick(s) \in s
         /\ s \ {Pick(s)} \in SUBSET S
         /\ Cardinality(s) \in Nat \ {0}
         /\ Cardinality(s \ {Pick(s)}) = Cardinality(s) - 1
<1>1. Pick(s) \in s
  BY DEF Pick
<1>2. IsFiniteSet(s)
  BY FS_Subset
<1>. QED
  BY <1>1, <1>2, FS_EmptySet, FS_RemoveElement, FS_CardinalityType

LEMMA UnfoldsUpTo ==
  ASSUME NEW S, IsFiniteSet(S), NEW f, NEW n \in Nat
  PROVE  \E g : Unfolds(g, f, UpTo(S, n))
<1>. DEFINE bad == {k \in Nat : ~ \E g : Unfolds(g, f, UpTo(S, k))}
<1>. SUFFICES ASSUME bad # {} PROVE FALSE
  OBVIOUS
<1>1. PICK k \in bad : \A j \in bad : k <= j
  <2>1. bad \in SUBSET Nat
    OBVIOUS
  <2>. HIDE DEF bad
  <2>. QED
    BY <2>1, LeastNumber
<1>2. \A s \in SUBSET S : Cardinality(s) \in Nat
  BY FS_Subset, FS_CardinalityType
<1>3. k # 0
  <2>1. \A s \in UpTo(S, 0) : s = {}
    BY <1>2, FS_Subset, FS_EmptySet DEF UpTo
  <2>. DEFINE g == [s \in UpTo(S, 0) |-> 0]
  <2>2. Unfolds(g, f, UpTo(S, 0))
    BY <2>1 DEF Unfolds
  <2>. QED
    BY <2>2
<1>4. k - 1 \in Nat /\ k - 1 \notin bad
  BY <1>1, <1>3
<1>5. PICK g : Unfolds(g, f, UpTo(S, k - 1))
  BY <1>4
<1>. DEFINE h == [s \in UpTo(S, k) |->
                    IF s = {} THEN 0 ELSE f[Pick(s)] + g[s \ {Pick(s)}]]
<1>6. ASSUME NEW s \in UpTo(S, k - 1) PROVE h[s] = g[s]
  <2>1. s \in UpTo(S, k)
    BY <1>2 DEF UpTo
  <2>. QED
    BY <1>5, <2>1 DEF Unfolds
<1>7. ASSUME NEW s \in UpTo(S, k), s # {}
      PROVE  s \ {Pick(s)} \in UpTo(S, k - 1)
  BY <1>7, PickLeaves DEF UpTo
<1>8. Unfolds(h, f, UpTo(S, k))
  BY <1>6, <1>7 DEF Unfolds
<1>. QED
  BY <1>8

(* The recursion defines a function on all subsets of a finite set. *)
LEMMA SumsUnfold ==
  ASSUME NEW S, IsFiniteSet(S), NEW f
  PROVE  Unfolds(Sums(f, S), f, SUBSET S)
<1>1. PICK n \in Nat : n = Cardinality(S)
  BY FS_CardinalityType
<1>2. UpTo(S, n) = SUBSET S
  BY <1>1, FS_Subset DEF UpTo
<1>3. \E g : Unfolds(g, f, UpTo(S, n))
  BY UnfoldsUpTo
<1>. QED
  BY <1>2, <1>3 DEF Sums

LEMMA SumsOfSubset ==
  ASSUME NEW S, IsFiniteSet(S), NEW f, NEW s \in SUBSET S
  PROVE  Sums(f, S)[s] = IF s = {} THEN 0
                         ELSE f[Pick(s)] + Sums(f, S)[s \ {Pick(s)}]
<1>. DEFINE g == Sums(f, S)
<1>1. Unfolds(g, f, SUBSET S)
  BY SumsUnfold
<1>. HIDE DEF g
<1>2. g = [r \in SUBSET S |-> IF r = {} THEN 0 ELSE f[Pick(r)] + g[r \ {Pick(r)}]]
  BY <1>1 DEF Unfolds
<1>3. g[s] = IF s = {} THEN 0 ELSE f[Pick(s)] + g[s \ {Pick(s)}]
  BY <1>2, Zenon
<1>. QED
  BY <1>3 DEF g

LEMMA SumsType ==
  ASSUME NEW S, IsFiniteSet(S), NEW f \in [S -> Int], NEW s \in SUBSET S
  PROVE  Sums(f, S)[s] \in Int
<1>. DEFINE bad == {r \in SUBSET S : Sums(f, S)[r] \notin Int}
<1>. SUFFICES ASSUME bad # {} PROVE FALSE
  OBVIOUS
<1>1. PICK r \in bad : \A q \in bad : Cardinality(r) <= Cardinality(q)
  <2>1. bad \in SUBSET SUBSET S
    OBVIOUS
  <2>. HIDE DEF bad
  <2>. QED
    BY <2>1, LeastSubset
<1>2. Sums(f, S)[r] = IF r = {} THEN 0
                      ELSE f[Pick(r)] + Sums(f, S)[r \ {Pick(r)}]
  BY SumsOfSubset
<1>3. r # {}
  BY <1>2
<1>4. /\ r \ {Pick(r)} \notin bad /\ Pick(r) \in S
      /\ r \ {Pick(r)} \in SUBSET S
  BY <1>1, <1>3, PickLeaves
<1>5. Sums(f, S)[r \ {Pick(r)}] \in Int /\ f[Pick(r)] \in Int
  BY <1>4
<1>. QED
  BY <1>2, <1>3, <1>5

(* Any element may be the one added first. *)
LEMMA SumsRemove ==
  ASSUME NEW S, IsFiniteSet(S), NEW f \in [S -> Int], NEW s \in SUBSET S, NEW x \in s
  PROVE  Sums(f, S)[s] = f[x] + Sums(f, S)[s \ {x}]
<1>. DEFINE g == Sums(f, S)
            bad == {r \in SUBSET S : \E y \in r : g[r] # f[y] + g[r \ {y}]}
<1>. SUFFICES ASSUME bad # {} PROVE FALSE
  OBVIOUS
<1>0. \A r \in SUBSET S : g[r] \in Int
  BY SumsType
<1>1. PICK r \in bad : \A q \in bad : Cardinality(r) <= Cardinality(q)
  <2>1. bad \in SUBSET SUBSET S
    OBVIOUS
  <2>. HIDE DEF bad
  <2>. QED
    BY <2>1, LeastSubset
<1>2. PICK y \in r : g[r] # f[y] + g[r \ {y}]
  BY <1>1
<1>3. \A q \in SUBSET S :
        g[q] = IF q = {} THEN 0 ELSE f[Pick(q)] + g[q \ {Pick(q)}]
  BY SumsOfSubset
<1>. DEFINE p == Pick(r)
<1>4. /\ p \in r /\ r \ {p} \in SUBSET S /\ Cardinality(r) \in Nat
      /\ Cardinality(r \ {p}) = Cardinality(r) - 1
  BY PickLeaves
<1>5. IsFiniteSet(r) /\ Cardinality(r \ {y}) = Cardinality(r) - 1
  BY <1>4, FS_Subset, FS_RemoveElement
<1>. HIDE DEF p, g
<1>6. g[r] = f[p] + g[r \ {p}]
  BY <1>3 DEF p
<1>7. y # p
  BY <1>2, <1>6
<1>8. r \ {p} \notin bad /\ r \ {y} \notin bad /\ r \ {y} \in SUBSET S
  BY <1>1, <1>4, <1>5
<1>9. g[r \ {p}] = f[y] + g[(r \ {p}) \ {y}]
  BY <1>4, <1>7, <1>8
<1>10. g[r \ {y}] = f[p] + g[(r \ {y}) \ {p}]
  BY <1>4, <1>7, <1>8
<1>11. (r \ {p}) \ {y} = (r \ {y}) \ {p} /\ (r \ {y}) \ {p} \in SUBSET S
  OBVIOUS
<1>12. PICK z \in Int : z = g[(r \ {y}) \ {p}] /\ z = g[(r \ {p}) \ {y}]
  BY <1>0, <1>11
<1>13. f[p] \in Int /\ f[y] \in Int
  BY <1>4
<1>14. g[r] = f[p] + (f[y] + z) /\ g[r \ {y}] = f[p] + z
  BY <1>6, <1>9, <1>10, <1>12
<1>15. g[r] = f[y] + g[r \ {y}]
  BY <1>12, <1>13, <1>14
<1>. QED
  BY <1>2, <1>15

LEMMA SumsAgree ==
  ASSUME NEW S, IsFiniteSet(S), NEW f, NEW h, NEW s \in SUBSET S,
         \A x \in s : h[x] = f[x]
  PROVE  Sums(h, S)[s] = Sums(f, S)[s]
<1>. DEFINE bad == {r \in SUBSET s : Sums(h, S)[r] # Sums(f, S)[r]}
<1>. SUFFICES ASSUME bad # {} PROVE FALSE
  OBVIOUS
<1>1. PICK r \in bad : \A q \in bad : Cardinality(r) <= Cardinality(q)
  <2>1. bad \in SUBSET SUBSET s /\ IsFiniteSet(s)
    BY FS_Subset
  <2>. HIDE DEF bad
  <2>. QED
    BY <2>1, LeastSubset
<1>2. /\ Sums(f, S)[r] = IF r = {} THEN 0
                         ELSE f[Pick(r)] + Sums(f, S)[r \ {Pick(r)}]
      /\ Sums(h, S)[r] = IF r = {} THEN 0
                         ELSE h[Pick(r)] + Sums(h, S)[r \ {Pick(r)}]
      /\ r \in SUBSET S
  <2>1. r \in SUBSET S
    OBVIOUS
  <2>. QED
    BY <2>1, SumsOfSubset
<1>3. r \ {Pick(r)} \notin bad /\ Pick(r) \in s /\ r \ {Pick(r)} \in SUBSET s
  BY <1>1, <1>2, PickLeaves
<1>4. Sums(h, S)[r \ {Pick(r)}] = Sums(f, S)[r \ {Pick(r)}]
      /\ h[Pick(r)] = f[Pick(r)]
  BY <1>3
<1>. QED
  BY <1>2, <1>4

-----------------------------------------------------------------------------
LEMMA SumType ==
  ASSUME NEW S, IsFiniteSet(S), NEW f \in [S -> Int]
  PROVE  SumFunction(f) \in Int
<1>1. DOMAIN f = S /\ S \in SUBSET S
  OBVIOUS
<1>. QED
  BY <1>1, SumIsSums, SumsType

LEMMA SumZero ==
  ASSUME NEW S, IsFiniteSet(S), NEW f \in [S -> {0}]
  PROVE  SumFunction(f) = 0
<1>. DEFINE bad == {r \in SUBSET S : Sums(f, S)[r] # 0}
<1>. SUFFICES ASSUME bad # {} PROVE FALSE
  <2>1. DOMAIN f = S /\ S \in SUBSET S
    OBVIOUS
  <2>. QED
    BY <2>1, SumIsSums
<1>1. PICK r \in bad : \A q \in bad : Cardinality(r) <= Cardinality(q)
  <2>1. bad \in SUBSET SUBSET S
    OBVIOUS
  <2>. HIDE DEF bad
  <2>. QED
    BY <2>1, LeastSubset
<1>2. Sums(f, S)[r] = IF r = {} THEN 0
                      ELSE f[Pick(r)] + Sums(f, S)[r \ {Pick(r)}]
  BY SumsOfSubset
<1>3. r # {}
  BY <1>2
<1>4. r \ {Pick(r)} \notin bad /\ Pick(r) \in S /\ r \ {Pick(r)} \in SUBSET S
  BY <1>1, <1>3, PickLeaves
<1>5. Sums(f, S)[r \ {Pick(r)}] = 0 /\ f[Pick(r)] = 0
  BY <1>4
<1>. QED
  BY <1>2, <1>5

(* A function that changes at one point changes its sum by as much. *)
LEMMA SumMoves ==
  ASSUME NEW S, IsFiniteSet(S), NEW f \in [S -> Int], NEW h \in [S -> Int],
         NEW x \in S, \A y \in S \ {x} : h[y] = f[y]
  PROVE  SumFunction(h) = SumFunction(f) + h[x] - f[x]
<1>. DEFINE rest == S \ {x}
<1>1. DOMAIN f = S /\ DOMAIN h = S /\ S \in SUBSET S /\ rest \in SUBSET S
  OBVIOUS
<1>2. SumFunction(f) = f[x] + Sums(f, S)[rest]
  <2>1. SumFunction(f) = Sums(f, S)[S]
    BY <1>1, SumIsSums
  <2>2. Sums(f, S)[S] = f[x] + Sums(f, S)[S \ {x}]
    BY <1>1, SumsRemove
  <2>. QED
    BY <2>1, <2>2
<1>3. SumFunction(h) = h[x] + Sums(h, S)[rest]
  <2>1. SumFunction(h) = Sums(h, S)[S]
    BY <1>1, SumIsSums
  <2>2. Sums(h, S)[S] = h[x] + Sums(h, S)[S \ {x}]
    BY <1>1, SumsRemove
  <2>. QED
    BY <2>1, <2>2
<1>4. Sums(h, S)[rest] = Sums(f, S)[rest]
  BY <1>1, SumsAgree
<1>5. Sums(f, S)[rest] \in Int /\ h[x] \in Int /\ f[x] \in Int
  BY <1>1, SumsType
<1>. HIDE DEF rest
<1>. QED
  BY <1>2, <1>3, <1>4, <1>5

(* More terms, and none of them smaller, have no smaller sum. *)
LEMMA SumGrows ==
  ASSUME NEW T, IsFiniteSet(T), NEW S \in SUBSET T,
         NEW f \in [S -> Nat], NEW h \in [T -> Nat], \A x \in S : f[x] <= h[x]
  PROVE  SumFunction(f) <= SumFunction(h)
<1>. DEFINE low(r) == Sums(f, S)[r \cap S]
            high(r) == Sums(h, T)[r]
            bad == {r \in SUBSET T : ~(low(r) <= high(r))}
<1>0. IsFiniteSet(S) /\ f \in [S -> Int] /\ h \in [T -> Int]
  BY FS_Subset
<1>. SUFFICES ASSUME bad # {} PROVE FALSE
  <2>1. DOMAIN f = S /\ DOMAIN h = T /\ T \cap S = S /\ T \in SUBSET T
    OBVIOUS
  <2>2. SumFunction(f) = low(T) /\ SumFunction(h) = high(T)
    BY <2>1, SumIsSums
  <2>. QED
    BY <2>1, <2>2
<1>1. PICK r \in bad : \A q \in bad : Cardinality(r) <= Cardinality(q)
  <2>1. bad \in SUBSET SUBSET T
    OBVIOUS
  <2>. HIDE DEF bad
  <2>. QED
    BY <2>1, LeastSubset
<1>2. r # {}
  <2>1. Sums(f, S)[{}] = 0 /\ Sums(h, T)[{}] = 0
    BY <1>0, SumsOfSubset
  <2>2. ~(low(r) <= high(r)) /\ {} \cap S = {}
    OBVIOUS
  <2>3. r = {} => low(r) = 0 /\ high(r) = 0
    BY <2>1, <2>2
  <2>. HIDE DEF low, high, bad
  <2>. QED
    BY <2>2, <2>3
<1>. DEFINE p == Pick(r)
            rest == r \ {p}
<1>3. rest \notin bad /\ p \in r /\ rest \in SUBSET T /\ r \in SUBSET T
  <2>1. r \in SUBSET T
    OBVIOUS
  <2>2. /\ p \in r /\ rest \in SUBSET T /\ Cardinality(r) \in Nat
        /\ Cardinality(rest) = Cardinality(r) - 1
    BY <1>2, <2>1, PickLeaves
  <2>. HIDE DEF bad, rest, p
  <2>. QED
    BY <1>1, <2>1, <2>2
<1>4. low(rest) <= high(rest)
  BY <1>3
<1>5. high(r) = h[p] + high(rest)
  <2>1. r \in SUBSET T /\ p \in r
    BY <1>3
  <2>. HIDE DEF p
  <2>. QED
    BY <1>0, <2>1, SumsRemove
<1>6. low(rest) \in Int /\ high(rest) \in Int /\ h[p] \in Nat
  <2>1. rest \cap S \in SUBSET S
    OBVIOUS
  <2>. HIDE DEF rest
  <2>. QED
    BY <1>0, <1>3, <2>1, SumsType
<1>7. CASE p \in S
  <2>1. r \cap S \in SUBSET S /\ p \in r \cap S
        /\ (r \cap S) \ {p} = rest \cap S
    BY <1>3, <1>7
  <2>2. Sums(f, S)[r \cap S] = f[p] + Sums(f, S)[(r \cap S) \ {p}]
    <3>. HIDE DEF p, rest
    <3>. QED
      BY <1>0, <2>1, SumsRemove
  <2>3. low(r) = f[p] + low(rest)
    BY <2>1, <2>2
  <2>4. f[p] \in Nat /\ f[p] <= h[p]
    BY <1>7
  <2>5. low(r) <= high(r)
    <3>. HIDE DEF low, high, rest, p
    <3>. QED
      BY <1>4, <1>5, <1>6, <2>3, <2>4
  <2>. QED
    BY <2>5
<1>8. CASE p \notin S
  <2>1. r \cap S = rest \cap S
    BY <1>8
  <2>2. low(r) = low(rest)
    BY <2>1
  <2>3. low(r) <= high(r)
    <3>. HIDE DEF low, high, rest, p
    <3>. QED
      BY <1>4, <1>5, <1>6, <2>2
  <2>. QED
    BY <2>3
<1>. QED
  BY <1>7, <1>8
=============================================================================
