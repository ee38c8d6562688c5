----------------------------- MODULE DataLemmas -----------------------------
(***************************************************************************)
(* Facts about data that the proofs of several components need: the least  *)
(* number of a set, functions defined by recursion over the subsets of a   *)
(* finite set, sums, and how many elements come first in an order.         *)
(*                                                                         *)
(* Each induction is a least counterexample: the set of the numbers at     *)
(* which a statement fails would have a first element.                     *)
(***************************************************************************)
EXTENDS Integers, FiniteSets, FiniteSetTheorems, TLAPS

Least(S) == CHOOSE n \in S : \A m \in S : n <= m

\* A set of naturals has a first element.
LEMMA LeastNatural ==
    ASSUME NEW S \in SUBSET Nat, S # {}
    PROVE  Least(S) \in S /\ \A m \in S : Least(S) <= m
<1> DEFINE Less == {ss \in Nat \X Nat : ss[1] < ss[2]}
<1>1. OpToRel(<, Nat) = Less
  BY Zenon DEF OpToRel
<1>2. IsWellFoundedOn(Less, Nat)
  BY <1>1, NatLessThanWellFounded, Zenon
<1> HIDE DEF Less
<1>3. PICK n \in S : \A m \in S : <<m, n>> \notin Less
  BY <1>2, WFMin
<1>4. \A m \in S : n <= m
  <2> TAKE m \in S
  <2>1. <<m, n>> \notin Less
    BY <1>3
  <2> QED
    BY <2>1 DEF Less
<1> QED
  BY <1>4 DEF Least

\* Of some subsets of a finite set one is among the smallest.
LEMMA SmallestSubset ==
    ASSUME NEW S, IsFiniteSet(S), NEW B \in SUBSET SUBSET S, B # {}
    PROVE  \E T \in B : \A U \in B : Cardinality(T) <= Cardinality(U)
<1> DEFINE Sizes == {Cardinality(T) : T \in B}
<1>1. Sizes \in SUBSET Nat /\ Sizes # {}
  BY FS_Subset, FS_CardinalityType
<1>2. PICK n \in Sizes : \A m \in Sizes : n <= m
  BY <1>1, LeastNatural
<1> QED
  BY <1>2

\* The subsets of a finite set, and what is left when one element is taken out.
LEMMA RestIsSmaller ==
    ASSUME NEW S, IsFiniteSet(S), NEW s \in SUBSET S, NEW x \in s
    PROVE  /\ s \ {x} \in SUBSET S
           /\ Cardinality(s) \in Nat /\ Cardinality(s \ {x}) \in Nat
           /\ Cardinality(s \ {x}) < Cardinality(s)
<1>1. IsFiniteSet(s)
  BY FS_Subset
<1>2. Cardinality(s) \in Nat /\ IsFiniteSet(s \ {x}) /\ Cardinality(s \ {x}) = Cardinality(s) - 1
  BY <1>1, FS_CardinalityType, FS_RemoveElement
<1>3. Cardinality(s \ {x}) \in Nat
  BY <1>2, FS_CardinalityType
<1> QED
  BY <1>2, <1>3

\* A finite set of integers has a greatest one.
LEMMA GreatestOfFinite ==
    ASSUME NEW S \in SUBSET Int, IsFiniteSet(S), S # {}
    PROVE  \E m \in S : \A x \in S : x <= m
<1> DEFINE Tops(T) == {m \in T : \A x \in T : x <= m}
           Bad == {T \in SUBSET S : T # {} /\ Tops(T) = {}}
<1>1. Bad = {}
  <2> SUFFICES ASSUME Bad # {} PROVE FALSE
    OBVIOUS
  <2>1. PICK T \in Bad : \A U \in Bad : Cardinality(T) <= Cardinality(U)
    BY SmallestSubset
  <2>2. PICK x \in T : T \in SUBSET S
    OBVIOUS
  <2>3. T \ {x} \in SUBSET S /\ T \ {x} \notin Bad
    <3> HIDE DEF Bad
    <3>1. /\ T \ {x} \in SUBSET S
          /\ Cardinality(T) \in Nat /\ Cardinality(T \ {x}) \in Nat
          /\ Cardinality(T \ {x}) < Cardinality(T)
      BY <2>2, RestIsSmaller
    <3> QED
      BY <2>1, <3>1
  <2>4. T \ {x} # {} /\ x \in Int
    BY <2>2
  <2>5. PICK m \in T \ {x} : \A y \in T \ {x} : y <= m
    BY <2>3, <2>4
  <2>6. m \in Tops(T) \/ x \in Tops(T)
    BY <2>2, <2>5
  <2> QED
    BY <2>1, <2>6
<1> QED
  BY <1>1

-----------------------------------------------------------------------------
(***************************************************************************)
(* Recursion over the numbers up to a bound.                               *)
(***************************************************************************)

\* Induction: a set with 0, and with each number the next, has them all.
LEMMA UpFromZero ==
    ASSUME NEW n \in Nat, NEW G, 0 \in G,
           \A k \in 1 .. n : k - 1 \in G => k \in G
    PROVE  \A k \in 0 .. n : k \in G
<1> DEFINE Bad == {k \in 0 .. n : k \notin G}
<1>1. Bad = {}
  <2> SUFFICES ASSUME Bad # {} PROVE FALSE
    OBVIOUS
  <2>1. PICK k \in Bad : \A m \in Bad : k <= m
    <3>1. Bad \in SUBSET Nat
      OBVIOUS
    <3> HIDE DEF Bad
    <3> QED
      BY <3>1, LeastNatural
  <2>2. k \in 1 .. n /\ k \notin G
    OBVIOUS
  <2>3. k - 1 \in 0 .. n /\ ~(k <= k - 1)
    BY <2>2
  <2>4. k - 1 \in G
    BY <2>1, <2>3
  <2> QED
    BY <2>2, <2>4
<1> QED
  BY <1>1

CountsUp(g, n, base, step) ==
    g = [k \in 0 .. n |-> IF k = 0 THEN base ELSE step[<<k, g[k - 1]>>]]

\* Such a recursion has a solution.
LEMMA CountExists ==
    ASSUME NEW n \in Nat, NEW Y, NEW base \in Y, NEW step \in [(1 .. n) \X Y -> Y]
    PROVE  \E g \in [0 .. n -> Y] : CountsUp(g, n, base, step)
<1> DEFINE Solves(g, m) == \A k \in 0 .. m : g[k] = IF k = 0 THEN base ELSE step[<<k, g[k - 1]>>]
           G == {m \in 0 .. n : \E g \in [0 .. m -> Y] : Solves(g, m)}
<1>1. 0 \in G
  <2> DEFINE g == [k \in 0 .. 0 |-> base]
  <2>1. g \in [0 .. 0 -> Y] /\ Solves(g, 0)
    OBVIOUS
  <2> HIDE DEF g, Solves
  <2> QED
    BY <2>1
<1>2. ASSUME NEW m \in 1 .. n, m - 1 \in G PROVE m \in G
  <2>1. PICK g \in [0 .. m - 1 -> Y] : Solves(g, m - 1)
    BY <1>2
  <2> DEFINE h == [k \in 0 .. m |-> IF k < m THEN g[k] ELSE step[<<m, g[m - 1]>>]]
  <2>2. step[<<m, g[m - 1]>>] \in Y
    <3>1. <<m, g[m - 1]>> \in (1 .. n) \X Y
      OBVIOUS
    <3> QED
      BY <3>1
  <2>3. h \in [0 .. m -> Y]
    BY <2>2
  <2>4. \A k \in 0 .. m - 1 : h[k] = g[k]
    OBVIOUS
  <2>5. h[m] = step[<<m, g[m - 1]>>]
    OBVIOUS
  <2> HIDE DEF h
  <2>6. Solves(h, m)
    <3> SUFFICES ASSUME NEW k \in 0 .. m
                 PROVE  h[k] = IF k = 0 THEN base ELSE step[<<k, h[k - 1]>>]
      OBVIOUS
    <3>1. k # 0 => h[k - 1] = g[k - 1]
      BY <2>4
    <3>2. CASE k < m
      <4>1. k \in 0 .. m - 1
        BY <3>2
      <4>2. g[k] = IF k = 0 THEN base ELSE step[<<k, g[k - 1]>>]
        BY <2>1, <4>1
      <4> QED
        BY <2>4, <3>1, <4>1, <4>2
    <3>3. CASE k = m
      BY <2>5, <3>1, <3>3
    <3> QED
      BY <3>2, <3>3
  <2> HIDE DEF Solves
  <2> QED
    BY <2>3, <2>6
<1> HIDE DEF G
<1>3. n \in G
  BY <1>1, <1>2, UpFromZero
<1>4. PICK g \in [0 .. n -> Y] : Solves(g, n)
  BY <1>3 DEF G
<1>5. g = [k \in 0 .. n |-> IF k = 0 THEN base ELSE step[<<k, g[k - 1]>>]]
  BY <1>4
<1> QED
  BY <1>5 DEF CountsUp

-----------------------------------------------------------------------------
(***************************************************************************)
(* Recursion over the subsets of a finite set, as the library's folds use  *)
(* it: an element is picked, and the rest folded first.                    *)
(***************************************************************************)

Folds(g, S, base, step, pick) ==
    g = [s \in SUBSET S |-> IF s = {} THEN base ELSE step[<<pick[s], g[s \ {pick[s]}]>>]]

\* The recursion has a solution, and its values are where each step leads.
LEMMA FoldExists ==
    ASSUME NEW S, IsFiniteSet(S),
           NEW Y, NEW base \in Y, NEW step \in [S \X Y -> Y],
           NEW pick, \A s \in SUBSET S : s # {} => pick[s] \in s
    PROVE  \E g \in [SUBSET S -> Y] : Folds(g, S, base, step, pick)
<1> DEFINE Upto(n) == {s \in SUBSET S : Cardinality(s) <= n}
           Solves(g, n) == \A s \in Upto(n) : g[s] = IF s = {} THEN base
                                                     ELSE step[<<pick[s], g[s \ {pick[s]}]>>]
           Bad == {n \in Nat : ~ \E g \in [Upto(n) -> Y] : Solves(g, n)}
<1>1. \A s \in SUBSET S : IsFiniteSet(s) /\ Cardinality(s) \in Nat /\ Cardinality(s) <= Cardinality(S)
  BY FS_Subset, FS_CardinalityType
<1>2. \A s \in SUBSET S : s # {} => /\ pick[s] \in s /\ pick[s] \in S
                                    /\ s \ {pick[s]} \in SUBSET S
                                    /\ Cardinality(s \ {pick[s]}) = Cardinality(s) - 1
  BY <1>1, FS_RemoveElement
<1>3. \A s \in SUBSET S : Cardinality(s) = 0 <=> s = {}
  BY <1>1, FS_EmptySet
<1>4. Bad = {}
  <2> SUFFICES ASSUME Bad # {}
               PROVE  FALSE
    OBVIOUS
  <2>1. PICK n \in Bad : \A m \in Bad : n <= m
    BY LeastNatural
  <2>2. CASE n = 0
    <3> DEFINE g == [s \in Upto(0) |-> base]
    <3>1. \A s \in Upto(0) : s = {}
      BY <1>1, <1>3
    <3>2. g \in [Upto(0) -> Y] /\ Solves(g, 0)
      BY <3>1
    <3> QED
      BY <2>1, <2>2, <3>2
  <2>3. CASE n # 0
    <3>1. n \in Nat /\ n - 1 \in Nat /\ n - 1 \notin Bad
      <4>1. n \in Nat
        OBVIOUS
      <4> HIDE DEF Bad
      <4> QED
        BY <2>1, <2>3, <4>1
    <3>2. PICK g \in [Upto(n - 1) -> Y] : Solves(g, n - 1)
      BY <3>1
    <3> DEFINE h == [s \in Upto(n) |->
                       IF Cardinality(s) <= n - 1 THEN g[s]
                       ELSE step[<<pick[s], g[s \ {pick[s]}]>>]]
    <3>3. \A s \in Upto(n) : s # {} => s \ {pick[s]} \in Upto(n - 1) /\ s \ {pick[s]} \in Upto(n)
      BY <1>1, <1>2, <3>1
    <3>4. \A s \in Upto(n) : Cardinality(s) <= n - 1 => s \in Upto(n - 1)
      OBVIOUS
    <3>5. \A s \in Upto(n) : Cardinality(s) > n - 1 => s # {}
      BY <1>1, <1>3, <3>1
    <3>6. \A s \in Upto(n) : s # {} => <<pick[s], g[s \ {pick[s]}]>> \in S \X Y
      BY <1>2, <3>3
    <3>7. h \in [Upto(n) -> Y]
      <4> SUFFICES ASSUME NEW s \in Upto(n)
                   PROVE  (IF Cardinality(s) <= n - 1 THEN g[s]
                           ELSE step[<<pick[s], g[s \ {pick[s]}]>>]) \in Y
        OBVIOUS
      <4>1. CASE Cardinality(s) <= n - 1
        BY <4>1, <3>4
      <4>2. CASE ~(Cardinality(s) <= n - 1)
        BY <4>2, <3>1, <3>5, <3>6, <1>1
      <4> QED
        BY <4>1, <4>2
    <3>8. Solves(h, n)
      <4> SUFFICES ASSUME NEW s \in Upto(n)
                   PROVE  h[s] = IF s = {} THEN base ELSE step[<<pick[s], h[s \ {pick[s]}]>>]
        OBVIOUS
      <4>1. s # {} => h[s \ {pick[s]}] = g[s \ {pick[s]}]
        BY <3>3
      <4>2. CASE Cardinality(s) <= n - 1
        BY <4>1, <4>2, <3>2, <3>4
      <4>3. CASE ~(Cardinality(s) <= n - 1)
        BY <4>1, <4>3, <3>1, <3>5, <1>1
      <4> QED
        BY <4>2, <4>3
    <3> QED
      BY <2>1, <3>7, <3>8
  <2> QED
    BY <2>2, <2>3
<1>5. Cardinality(S) \in Nat
  BY <1>1
<1>6. PICK g \in [Upto(Cardinality(S)) -> Y] : Solves(g, Cardinality(S))
  BY <1>4, <1>5
<1>7. Upto(Cardinality(S)) = SUBSET S
  BY <1>1
<1>8. g \in [SUBSET S -> Y] /\ Solves(g, Cardinality(S))
  BY <1>6, <1>7
<1>9. g = [s \in SUBSET S |-> IF s = {} THEN base ELSE step[<<pick[s], g[s \ {pick[s]}]>>]]
  <2>1. \A s \in SUBSET S :
          g[s] = IF s = {} THEN base ELSE step[<<pick[s], g[s \ {pick[s]}]>>]
    BY <1>7, <1>8
  <2> QED
    BY <1>8, <2>1
<1> QED
  BY <1>8, <1>9 DEF Folds

-----------------------------------------------------------------------------
(***************************************************************************)
(* Sums over a finite set.  MapThenSumSet(f, S) is the value at S of the   *)
(* function that solves this recursion.                                    *)
(***************************************************************************)

AnyOf(s) == CHOOSE x \in s : TRUE

Sums(F, f, S) == F = [s \in SUBSET S |-> IF s = {} THEN 0 ELSE f[AnyOf(s)] + F[s \ {AnyOf(s)}]]

LEMMA SumExists ==
    ASSUME NEW S, IsFiniteSet(S), NEW f \in [S -> Int]
    PROVE  \E F \in [SUBSET S -> Int] : Sums(F, f, S)
<1> DEFINE step == [p \in S \X Int |-> f[p[1]] + p[2]]
           pick == [s \in SUBSET S |-> AnyOf(s)]
<1>1. \A s \in SUBSET S : s # {} => pick[s] \in s
  BY DEF AnyOf
<1>2. step \in [S \X Int -> Int]
  OBVIOUS
<1>3. \A x \in S, n \in Int : step[<<x, n>>] = f[x] + n
  OBVIOUS
<1> HIDE DEF step
<1>4. PICK F \in [SUBSET S -> Int] : Folds(F, S, 0, step, pick)
  <2> HIDE DEF pick
  <2>1. 0 \in Int
    OBVIOUS
  <2> QED
    BY <1>1, <1>2, <2>1, FoldExists, Zenon
<1>5. \A s \in SUBSET S :
        F[s] = IF s = {} THEN 0 ELSE f[AnyOf(s)] + F[s \ {AnyOf(s)}]
  <2> SUFFICES ASSUME NEW s \in SUBSET S, s # {}
               PROVE  step[<<AnyOf(s), F[s \ {AnyOf(s)}]>>] = f[AnyOf(s)] + F[s \ {AnyOf(s)}]
    BY <1>4 DEF Folds
  <2>1. AnyOf(s) \in S /\ s \ {AnyOf(s)} \in SUBSET S
    BY DEF AnyOf
  <2> QED
    BY <1>3, <2>1
<1>6. F = [s \in SUBSET S |-> IF s = {} THEN 0 ELSE f[AnyOf(s)] + F[s \ {AnyOf(s)}]]
  BY <1>5
<1> QED
  BY <1>6 DEF Sums

LEMMA SumIsInt ==
    ASSUME NEW S, IsFiniteSet(S), NEW f \in [S -> Int], NEW F, Sums(F, f, S)
    PROVE  F \in [SUBSET S -> Int]
<1> DEFINE Bad == {s \in SUBSET S : F[s] \notin Int}
<1>1. \A s \in SUBSET S : F[s] = IF s = {} THEN 0 ELSE f[AnyOf(s)] + F[s \ {AnyOf(s)}]
  BY DEF Sums
<1>2. Bad = {}
  <2> SUFFICES ASSUME Bad # {}
               PROVE  FALSE
    OBVIOUS
  <2>1. PICK s \in Bad : \A u \in Bad : Cardinality(s) <= Cardinality(u)
    BY SmallestSubset
  <2>2. s \in SUBSET S /\ F[s] \notin Int
    OBVIOUS
  <2>3. s # {} /\ AnyOf(s) \in s
    <3>1. F[{}] = 0
      BY <1>1, {} \in SUBSET S, Zenon
    <3>2. 0 \in Int
      OBVIOUS
    <3>3. s # {}
      BY <2>2, <3>1, <3>2
    <3> QED
      BY <3>3 DEF AnyOf
  <2>4. s \ {AnyOf(s)} \in SUBSET S /\ s \ {AnyOf(s)} \notin Bad
    <3> HIDE DEF Bad
    <3> QED
      BY <2>1, <2>2, <2>3, RestIsSmaller
  <2>5. F[s \ {AnyOf(s)}] \in Int
    BY <2>4
  <2>6. F[s] = f[AnyOf(s)] + F[s \ {AnyOf(s)}] /\ f[AnyOf(s)] \in Int
    BY <1>1, <2>2, <2>3
  <2> QED
    BY <2>2, <2>5, <2>6
<1> QED
  BY <1>2 DEF Sums

\* What holds of each term holds of the sums.
LEMMA SumMonotone ==
    ASSUME NEW S, IsFiniteSet(S), NEW f \in [S -> Int], NEW g \in [S -> Int],
           \A x \in S : f[x] <= g[x],
           NEW F, Sums(F, f, S), NEW G, Sums(G, g, S)
    PROVE  F[S] \in Int /\ G[S] \in Int /\ F[S] <= G[S]
<1> DEFINE Bad == {s \in SUBSET S : ~(F[s] <= G[s])}
<1>1. /\ \A s \in SUBSET S : F[s] = IF s = {} THEN 0 ELSE f[AnyOf(s)] + F[s \ {AnyOf(s)}]
      /\ \A s \in SUBSET S : G[s] = IF s = {} THEN 0 ELSE g[AnyOf(s)] + G[s \ {AnyOf(s)}]
  BY DEF Sums
<1>2. F \in [SUBSET S -> Int] /\ G \in [SUBSET S -> Int]
  BY SumIsInt
<1>3. Bad = {}
  <2> SUFFICES ASSUME Bad # {}
               PROVE  FALSE
    OBVIOUS
  <2>1. PICK s \in Bad : \A u \in Bad : Cardinality(s) <= Cardinality(u)
    BY SmallestSubset
  <2>2. s \in SUBSET S /\ ~(F[s] <= G[s])
    OBVIOUS
  <2>3. s # {} /\ AnyOf(s) \in s
    BY <1>1, <2>2 DEF AnyOf
  <2>4. s \ {AnyOf(s)} \in SUBSET S /\ s \ {AnyOf(s)} \notin Bad
    <3> HIDE DEF Bad
    <3> QED
      BY <2>1, <2>2, <2>3, RestIsSmaller
  <2>5. F[s \ {AnyOf(s)}] <= G[s \ {AnyOf(s)}]
    BY <2>4
  <2>6. /\ F[s \ {AnyOf(s)}] \in Int /\ G[s \ {AnyOf(s)}] \in Int
        /\ f[AnyOf(s)] \in Int /\ g[AnyOf(s)] \in Int /\ f[AnyOf(s)] <= g[AnyOf(s)]
        /\ F[s] = f[AnyOf(s)] + F[s \ {AnyOf(s)}] /\ G[s] = g[AnyOf(s)] + G[s \ {AnyOf(s)}]
    BY <1>1, <1>2, <2>2, <2>3, <2>4
  <2> QED
    BY <2>2, <2>5, <2>6
<1> QED
  BY <1>2, <1>3

-----------------------------------------------------------------------------
(***************************************************************************)
(* The elements of a finite set that come first in a total order.          *)
(***************************************************************************)

Ahead(D, R, i) == {j \in D : <<j, i>> \in R}
FirstFew(D, R, n) == {i \in D : Cardinality(Ahead(D, R, i)) < n}

TotallyOrders(R, D) ==
    /\ \A i \in D : <<i, i>> \notin R
    /\ \A i, j \in D : i = j \/ <<i, j>> \in R \/ <<j, i>> \in R
    /\ \A i, j, k \in D : <<i, j>> \in R /\ <<j, k>> \in R => <<i, k>> \in R

\* Who is behind has more ahead of it.
LEMMA AheadGrows ==
    ASSUME NEW D, IsFiniteSet(D), NEW R, TotallyOrders(R, D)
    PROVE  /\ \A i \in D : /\ IsFiniteSet(Ahead(D, R, i))
                           /\ Cardinality(Ahead(D, R, i)) \in Nat
           /\ \A i, j \in D : <<i, j>> \in R =>
                Cardinality(Ahead(D, R, i)) < Cardinality(Ahead(D, R, j))
<1>1. \A i \in D : IsFiniteSet(Ahead(D, R, i)) /\ Cardinality(Ahead(D, R, i)) \in Nat
  BY FS_Subset, FS_CardinalityType DEF Ahead
<1>2. ASSUME NEW i \in D, NEW j \in D, <<i, j>> \in R
      PROVE  Cardinality(Ahead(D, R, i)) < Cardinality(Ahead(D, R, j))
  <2>1. Ahead(D, R, i) \in SUBSET Ahead(D, R, j) /\ i \in Ahead(D, R, j) \ Ahead(D, R, i)
    BY <1>2 DEF Ahead, TotallyOrders
  <2>2. /\ Cardinality(Ahead(D, R, i)) <= Cardinality(Ahead(D, R, j))
        /\ Cardinality(Ahead(D, R, i)) # Cardinality(Ahead(D, R, j))
    BY <1>1, <2>1, FS_Subset
  <2> QED
    BY <1>1, <2>2
<1> QED
  BY <1>1, <1>2

\* If n do not exhaust the set, the first n are n, all of them ahead of the others.
LEMMA FirstFewCount ==
    ASSUME NEW D, IsFiniteSet(D), NEW R, TotallyOrders(R, D), NEW n \in Nat,
           NEW i \in D, i \notin FirstFew(D, R, n)
    PROVE  /\ \A j \in FirstFew(D, R, n) : <<j, i>> \in R
           /\ Cardinality(FirstFew(D, R, n)) = n
<1> DEFINE rank(j) == Cardinality(Ahead(D, R, j))
<1>1. /\ \A j \in D : rank(j) \in Nat
      /\ \A j, k \in D : <<j, k>> \in R => rank(j) < rank(k)
  BY AheadGrows
<1>2. ASSUME NEW m \in Nat, NEW j \in FirstFew(D, R, m), NEW k \in D \ FirstFew(D, R, m)
      PROVE  <<j, k>> \in R
  <2>1. j \in D /\ rank(j) < m /\ ~(rank(k) < m)
    BY <1>2 DEF FirstFew
  <2>2. j # k /\ <<k, j>> \notin R
    BY <1>1, <2>1
  <2> QED
    BY <2>1, <2>2 DEF TotallyOrders
<1> DEFINE Bad == {m \in Nat : D \ FirstFew(D, R, m) # {} /\ Cardinality(FirstFew(D, R, m)) # m}
<1>3. Bad = {}
  <2> SUFFICES ASSUME Bad # {}
               PROVE  FALSE
    OBVIOUS
  <2>1. PICK m \in Bad : \A p \in Bad : m <= p
    BY LeastNatural
  <2>2. m \in Nat /\ D \ FirstFew(D, R, m) # {} /\ Cardinality(FirstFew(D, R, m)) # m
    OBVIOUS
  <2>3. m # 0
    <3>1. FirstFew(D, R, 0) = {}
      BY <1>1 DEF FirstFew
    <3> QED
      BY <2>2, <3>1, FS_EmptySet
  <2> DEFINE p == m - 1
  <2>4. p \in Nat /\ p + 1 = m /\ p \notin Bad
    <3> HIDE DEF Bad
    <3> QED
      BY <2>1, <2>2, <2>3
  <2> HIDE DEF p
  <2> DEFINE Left == D \ FirstFew(D, R, p)
  <2>5. FirstFew(D, R, p) \subseteq FirstFew(D, R, m)
    BY <1>1, <2>4 DEF FirstFew
  <2>6. Left # {}
    BY <2>2, <2>5
  <2>7. Cardinality(FirstFew(D, R, p)) = p
    BY <2>4, <2>6
  <2>8. PICK k \in Left : \A j \in Left : rank(k) <= rank(j)
    <3> DEFINE Ranks == {rank(j) : j \in Left}
    <3>1. Ranks \in SUBSET Nat /\ Ranks # {}
      BY <1>1, <2>6
    <3>2. PICK r \in Ranks : \A q \in Ranks : r <= q
      BY <3>1, LeastNatural
    <3> QED
      BY <3>2
  <2>9. k \in D /\ k \notin FirstFew(D, R, p)
    OBVIOUS
  <2>10. Ahead(D, R, k) = FirstFew(D, R, p)
    <3>1. FirstFew(D, R, p) \subseteq Ahead(D, R, k)
      BY <1>2, <2>4 DEF Ahead, FirstFew
    <3>2. ASSUME NEW j \in Ahead(D, R, k)
          PROVE  j \in FirstFew(D, R, p)
      <4>1. j \in D /\ rank(j) < rank(k)
        BY <1>1, <2>9, <3>2 DEF Ahead
      <4> QED
        BY <1>1, <2>8, <2>9, <4>1
    <3> QED
      BY <3>1, <3>2
  <2>11. FirstFew(D, R, m) = FirstFew(D, R, p) \cup {k}
    <3>1. k \in FirstFew(D, R, m)
      <4>1. Cardinality(Ahead(D, R, k)) = p
        BY <2>7, <2>10
      <4> QED
        BY <2>4, <2>9, <4>1 DEF FirstFew
    <3>2. ASSUME NEW j \in FirstFew(D, R, m), j \notin FirstFew(D, R, p)
          PROVE  j = k
      <4>1. j \in Left /\ rank(j) < m
        BY <3>2 DEF FirstFew
      <4>2. <<j, k>> \notin R
        BY <1>1, <2>8, <2>9, <4>1
      <4>3. <<k, j>> \notin R
        BY <1>1, <2>4, <2>7, <2>9, <2>10, <4>1
      <4> QED
        BY <2>9, <4>1, <4>2, <4>3 DEF TotallyOrders
    <3> QED
      BY <2>5, <3>1, <3>2
  <2>12. IsFiniteSet(FirstFew(D, R, p))
    BY FS_Subset DEF FirstFew
  <2>13. Cardinality(FirstFew(D, R, m)) = p + 1
    <3>1. Cardinality(FirstFew(D, R, p) \cup {k}) = Cardinality(FirstFew(D, R, p)) + 1
      BY <2>9, <2>12, FS_AddElement
    <3> QED
      BY <2>7, <2>11, <3>1
  <2> QED
    BY <2>2, <2>4, <2>13
<1> QED
  BY <1>2, <1>3

=============================================================================
