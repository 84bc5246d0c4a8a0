--------------------------- MODULE Amounts_proofs ---------------------------
(***************************************************************************)
(* What the proofs about the analysis need of sums over finite sets.       *)
(*                                                                         *)
(* Total is a fold of the library, a recursive function that picks the     *)
(* elements of the set one by one.  That there is such a function, and     *)
(* that the order does not matter, takes inductions over the subsets of    *)
(* the set; they are done with sets for predicates (SubsetInduction), from *)
(* the fact that a set of naturals has a smallest element.                 *)
(***************************************************************************)
EXTENDS Amounts, FiniteSets, FiniteSetTheorems, WellFoundedInduction, TLAPS

\* A set of natural numbers has a smallest element.
LEMMA SmallestOf ==
    ASSUME NEW T \in SUBSET Nat, T # {}
    PROVE  \E n \in T : \A m \in T : n <= m
<1> DEFINE R == OpToRel(<, Nat)
<1>1. IsWellFoundedOn(R, Nat)
  BY NatLessThanWellFounded
<1>2. \A x, y \in Nat : x < y => <<x, y>> \in R
  BY DEF OpToRel
<1> HIDE DEF R
<1>3. PICK n \in T : \A m \in T : <<m, n>> \notin R
  BY <1>1, WFMin
<1>4. ASSUME NEW m \in T
      PROVE  n <= m
  <2>1. m \in Nat /\ n \in Nat /\ ~(m < n)
    BY <1>2, <1>3
  <2>2. QED
    BY <2>1
<1>5. QED
  BY <1>4

\* The bounds of a finite range of them.
LEMMA BoundsOf ==
    ASSUME NEW n \in Nat, NEW T \in SUBSET (0..n), T # {}
    PROVE  /\ Least(T) \in T /\ \A t \in T : Least(T) <= t
           /\ Largest(T) \in T /\ \A t \in T : t <= Largest(T)
<1> DEFINE V == {n - t : t \in T}
<1>1. \A t \in 0..n : n - t \in Nat
  OBVIOUS
<1>2. V \in SUBSET Nat /\ V # {}
  BY <1>1
<1>3. PICK v \in V : \A w \in V : v <= w
  BY <1>2, SmallestOf
<1>4. PICK m \in T : v = n - m
  BY <1>3
<1>5. ASSUME NEW t \in T
      PROVE  m >= t
  <2>1. n - m <= n - t
    BY <1>3, <1>4
  <2>2. m \in Int /\ t \in Int
    OBVIOUS
  <2>3. QED
    BY <2>1, <2>2
<1>6. \E l \in T : \A t \in T : l <= t
  BY SmallestOf
<1>7. Largest(T) \in T /\ \A t \in T : Largest(T) >= t
  BY <1>5 DEF Largest
<1>8. Least(T) \in T /\ \A t \in T : Least(T) <= t
  BY <1>6 DEF Least
<1>9. \A t \in T : t \in Int
  OBVIOUS
<1>10. QED
  BY <1>7, <1>8, <1>9

\* Some of the first n numbers have a largest.
LEMMA LargestOf ==
    ASSUME NEW n \in Nat, NEW T \in SUBSET (1..n), T # {}
    PROVE  \E m \in T : \A t \in T : t <= m
<1>1. T \in SUBSET (0..n)
  OBVIOUS
<1>2. QED
  BY <1>1, BoundsOf

\* Induction over the natural numbers.
LEMMA NatSetInduction ==
    ASSUME NEW Good, 0 \in Good, \A n \in Nat : n \in Good => n + 1 \in Good
    PROVE  Nat \subseteq Good
<1>1. SUFFICES ASSUME Nat \ Good # {} PROVE FALSE
  OBVIOUS
<1>2. PICK n \in Nat \ Good : \A m \in Nat \ Good : n <= m
  BY <1>1, SmallestOf
<1>3. n # 0 /\ n - 1 \in Nat
  BY <1>2
<1>4. n - 1 \in Good
  BY <1>2, <1>3
<1>5. QED
  BY <1>2, <1>3, <1>4

\* Induction over the subsets of a finite set.
LEMMA SubsetInduction ==
    ASSUME NEW S, IsFiniteSet(S), NEW Good,
           \A s \in SUBSET S : (\A x \in s : s \ {x} \in Good) => s \in Good
    PROVE  SUBSET S \subseteq Good
<1> DEFINE Small(n) == {s \in SUBSET S : Cardinality(s) <= n}
           Fine == {n \in Nat : Small(n) \subseteq Good}
<1>1. \A s \in SUBSET S : IsFiniteSet(s) /\ Cardinality(s) \in Nat
  BY FS_Subset, FS_CardinalityType
<1>2. 0 \in Fine
  <2>1. \A s \in Small(0) : s = {}
    BY <1>1, FS_EmptySet
  <2>2. QED
    BY <2>1
<1>3. ASSUME NEW n \in Nat, n \in Fine
      PROVE  n + 1 \in Fine
  <2>1. ASSUME NEW s \in Small(n + 1), NEW x \in s
        PROVE  s \ {x} \in Good
    <3>1. IsFiniteSet(s) /\ Cardinality(s) \in Nat /\ Cardinality(s) <= n + 1
      BY <1>1
    <3>2. Cardinality(s \ {x}) = Cardinality(s) - 1
      BY <3>1, FS_RemoveElement
    <3>3. s \ {x} \in Small(n)
      BY <3>1, <3>2
    <3>4. QED
      BY <1>3, <3>3
  <2>2. QED
    BY <2>1
<1> HIDE DEF Fine
<1>4. Nat \subseteq Fine
  BY <1>2, <1>3, NatSetInduction
<1>5. Cardinality(S) \in Fine /\ \A s \in SUBSET S : Cardinality(s) <= Cardinality(S)
  BY <1>1, <1>4, FS_Subset
<1>6. QED
  BY <1>5 DEF Fine

-----------------------------------------------------------------------------
(***************************************************************************)
(* The recursive function behind a sum                                     *)
(***************************************************************************)

Pick(s) == CHOOSE x \in s : TRUE

\* One application of its equation.
Body(f, g, s) == IF s = {} THEN 0 ELSE f[Pick(s)] + g[s \ {Pick(s)}]

IsSums(f, D, g) == g = [s \in D |-> Body(f, g, s)]
Sums(f, D) == CHOOSE g : IsSums(f, D, g)

\* Every term is an integer, or a natural number.
Ints(f, S) == \A x \in S : f[x] \in Int
Nats(f, S) == \A x \in S : f[x] \in Nat

LEMMA TotalIsSums ==
    ASSUME NEW f, NEW S
    PROVE  Total(f, S) = Sums(f, SUBSET S)[S]
BY DEF Total, SumFunctionOnSet, FoldFunctionOnSet, MapThenFoldSet,
       Sums, IsSums, Body, Pick

LEMMA PickIn ==
    ASSUME NEW s, s # {}
    PROVE  Pick(s) \in s
BY DEF Pick

\* There is such a function: it can be defined for ever larger subsets.
LEMMA SumsExist ==
    ASSUME NEW f, NEW S, IsFiniteSet(S)
    PROVE  IsSums(f, SUBSET S, Sums(f, SUBSET S))
<1> DEFINE Upto(n) == {s \in SUBSET S : Cardinality(s) < n}
           Fine == {n \in Nat : \E g : g = [s \in Upto(n) |-> Body(f, g, s)]}
<1>1. \A s \in SUBSET S : IsFiniteSet(s) /\ Cardinality(s) \in Nat
  BY FS_Subset, FS_CardinalityType
<1>2. 0 \in Fine
  <2>1. Upto(0) = {}
    BY <1>1
  <2> DEFINE g == [s \in Upto(0) |-> 0]
  <2>2. g = [s \in Upto(0) |-> Body(f, g, s)]
    BY <2>1
  <2>3. QED
    BY <2>2
<1>3. ASSUME NEW n \in Nat, n \in Fine
      PROVE  n + 1 \in Fine
  <2>1. PICK g : g = [s \in Upto(n) |-> Body(f, g, s)]
    BY <1>3
  <2> DEFINE h == [s \in Upto(n + 1) |-> Body(f, g, s)]
  <2>2. \A s \in Upto(n) : s \in Upto(n + 1) /\ h[s] = g[s]
    BY <1>1, <2>1
  <2>3. ASSUME NEW s \in Upto(n + 1)
        PROVE  h[s] = Body(f, h, s)
    <3>1. CASE s = {}
      BY <3>1 DEF Body
    <3>2. CASE s # {}
      <4> DEFINE r == s \ {Pick(s)}
      <4>1. /\ IsFiniteSet(s) /\ Pick(s) \in s
            /\ Cardinality(s) \in Nat /\ Cardinality(s) < n + 1
        BY <1>1, <3>2, PickIn
      <4>2. Cardinality(r) = Cardinality(s) - 1
        BY <4>1, FS_RemoveElement
      <4>3. r \in Upto(n)
        BY <4>1, <4>2
      <4>4. h[r] = g[r]
        BY <2>2, <4>3
      <4> HIDE DEF r
      <4>5. h[s] = Body(f, g, s)
        OBVIOUS
      <4> HIDE DEF h
      <4>6. QED
        BY <3>2, <4>4, <4>5 DEF Body, r
    <3>3. QED
      BY <3>1, <3>2
  <2>4. h = [s \in Upto(n + 1) |-> h[s]]
    OBVIOUS
  <2> HIDE DEF h, Upto
  <2>5. h = [s \in Upto(n + 1) |-> Body(f, h, s)]
    BY <2>3, <2>4
  <2>6. \E k : k = [s \in Upto(n + 1) |-> Body(f, k, s)]
    BY <2>5
  <2>7. QED
    BY <2>6
<1> HIDE DEF Fine
<1>4. Nat \subseteq Fine
  BY <1>2, <1>3, NatSetInduction
<1>5. Cardinality(S) + 1 \in Nat
  BY <1>1
<1>6. \E g : g = [s \in Upto(Cardinality(S) + 1) |-> Body(f, g, s)]
  BY <1>4, <1>5 DEF Fine
<1>7. Upto(Cardinality(S) + 1) = SUBSET S
  <2>1. \A s \in SUBSET S : Cardinality(s) <= Cardinality(S)
    BY FS_Subset
  <2>2. \A s \in SUBSET S : Cardinality(s) < Cardinality(S) + 1
    BY <1>1, <2>1
  <2>3. QED
    BY <2>2
<1>8. \E g : g = [s \in SUBSET S |-> Body(f, g, s)]
  BY <1>6, <1>7
<1>9. QED
  BY <1>8 DEF Sums, IsSums

\* It does not depend on the set it is defined on, nor on values outside.
LEMMA SumsAgree ==
    ASSUME NEW f, NEW g, NEW S, IsFiniteSet(S), NEW R \in SUBSET S,
           \A x \in R : f[x] = g[x]
    PROVE  \A s \in SUBSET R : Sums(f, SUBSET S)[s] = Sums(g, SUBSET R)[s]
<1>1. IsFiniteSet(R)
  BY FS_Subset
<1>2. IsSums(f, SUBSET S, Sums(f, SUBSET S)) /\ IsSums(g, SUBSET R, Sums(g, SUBSET R))
  BY <1>1, SumsExist
<1> DEFINE F == Sums(f, SUBSET S)
           G == Sums(g, SUBSET R)
           Good == {s \in SUBSET R : F[s] = G[s]}
<1> HIDE DEF F, G
<1>4. ASSUME NEW s \in SUBSET R, \A x \in s : s \ {x} \in Good
      PROVE  s \in Good
  <2>1. F[s] = Body(f, F, s) /\ G[s] = Body(g, G, s)
    <3>1. F = [r \in SUBSET S |-> Body(f, F, r)]
      BY <1>2 DEF F, IsSums
    <3>2. G = [r \in SUBSET R |-> Body(g, G, r)]
      BY <1>2 DEF G, IsSums
    <3>3. QED
      BY <3>1, <3>2
  <2>2. CASE s = {}
    BY <2>1, <2>2 DEF Body
  <2>3. CASE s # {}
    <3>1. Pick(s) \in s
      BY <2>3, PickIn
    <3>2. f[Pick(s)] = g[Pick(s)] /\ F[s \ {Pick(s)}] = G[s \ {Pick(s)}]
      BY <1>4, <3>1
    <3>3. QED
      BY <2>1, <2>3, <3>2 DEF Body
  <2>4. QED
    BY <2>2, <2>3
<1> HIDE DEF Good
<1>5. SUBSET R \subseteq Good
  BY <1>1, <1>4, SubsetInduction
<1>6. QED
  BY <1>5 DEF Good, F, G

-----------------------------------------------------------------------------
(***************************************************************************)
(* Sums                                                                    *)
(***************************************************************************)

LEMMA TotalOfNone ==
    ASSUME NEW f
    PROVE  Total(f, {}) = 0
<1>1. IsSums(f, SUBSET {}, Sums(f, SUBSET {}))
  BY SumsExist, FS_EmptySet
<1>2. Sums(f, SUBSET {})[{}] = Body(f, Sums(f, SUBSET {}), {})
  BY <1>1 DEF IsSums
<1>3. QED
  BY <1>2, TotalIsSums DEF Body

LEMMA TotalSame ==
    ASSUME NEW f, NEW g, NEW S, IsFiniteSet(S), \A x \in S : f[x] = g[x]
    PROVE  Total(f, S) = Total(g, S)
<1>1. S \in SUBSET S
  OBVIOUS
<1>2. Sums(f, SUBSET S)[S] = Sums(g, SUBSET S)[S]
  BY <1>1, SumsAgree
<1>3. QED
  BY <1>2, TotalIsSums

LEMMA TotalPick ==
    ASSUME NEW f, NEW S, IsFiniteSet(S), S # {}
    PROVE  Total(f, S) = f[Pick(S)] + Total(f, S \ {Pick(S)})
<1> DEFINE F == Sums(f, SUBSET S)
           R == S \ {Pick(S)}
<1>1. IsSums(f, SUBSET S, F)
  BY SumsExist
<1>2. F[R] = Sums(f, SUBSET R)[R]
  BY SumsAgree
<1> HIDE DEF F
<1>3. F[S] = f[Pick(S)] + F[R]
  BY <1>1 DEF Body, IsSums
<1>4. QED
  BY <1>2, <1>3, TotalIsSums DEF F

LEMMA TotalType ==
    ASSUME NEW f, NEW S, IsFiniteSet(S)
    PROVE  /\ Ints(f, S) => Total(f, S) \in Int
           /\ Nats(f, S) => Total(f, S) \in Nat
<1> DEFINE Good == {s \in SUBSET S : /\ Ints(f, s) => Total(f, s) \in Int
                                     /\ Nats(f, s) => Total(f, s) \in Nat}
<1>1. ASSUME NEW s \in SUBSET S, \A x \in s : s \ {x} \in Good
      PROVE  s \in Good
  <2>1. CASE s = {}
    BY <2>1, TotalOfNone
  <2>2. CASE s # {}
    <3>1. IsFiniteSet(s) /\ Pick(s) \in s /\ s \ {Pick(s)} \in Good
      BY <1>1, <2>2, PickIn, FS_Subset
    <3>2. Total(f, s) = f[Pick(s)] + Total(f, s \ {Pick(s)})
      BY <2>2, <3>1, TotalPick
    <3>3. /\ Ints(f, s) => Ints(f, s \ {Pick(s)}) /\ f[Pick(s)] \in Int
          /\ Nats(f, s) => Nats(f, s \ {Pick(s)}) /\ f[Pick(s)] \in Nat
      BY <3>1 DEF Ints, Nats
    <3>4. QED
      BY <3>1, <3>2, <3>3
  <2>3. QED
    BY <2>1, <2>2
<1> HIDE DEF Good
<1>2. S \in Good
  BY <1>1, SubsetInduction
<1>3. QED
  BY <1>2 DEF Good

\* What holds of the terms of a set holds of those of its subsets.
LEMMA TermsOfSubset ==
    ASSUME NEW f, NEW S, NEW R \in SUBSET S
    PROVE  /\ Ints(f, S) => Ints(f, R)
           /\ Nats(f, S) => Nats(f, R) /\ Ints(f, R)
BY DEF Ints, Nats

\* Any element may be taken out first.
LEMMA TotalTake ==
    ASSUME NEW f, NEW S, IsFiniteSet(S), Ints(f, S), NEW y \in S
    PROVE  /\ Total(f, S) = f[y] + Total(f, S \ {y})
           /\ Total(f, S \ {y}) \in Int /\ f[y] \in Int
<1> DEFINE Good == {s \in SUBSET S : \A z \in s : Total(f, s) = f[z] + Total(f, s \ {z})}
<1>1. \A s \in SUBSET S : IsFiniteSet(s) /\ Total(f, s) \in Int
  BY FS_Subset, TotalType, TermsOfSubset
<1>2. ASSUME NEW s \in SUBSET S, \A x \in s : s \ {x} \in Good, NEW z \in s
      PROVE  Total(f, s) = f[z] + Total(f, s \ {z})
  <2> DEFINE x == Pick(s)
             r == (s \ {x}) \ {z}
  <2>1. x \in s
    BY PickIn
  <2>2. Total(f, s) = f[x] + Total(f, s \ {x})
    BY <1>1, TotalPick
  <2> HIDE DEF x
  <2>3. CASE z = x
    BY <2>2, <2>3
  <2>4. CASE z # x
    <3>1. r = (s \ {z}) \ {x} /\ z \in s \ {x} /\ x \in s \ {z} /\ r \in SUBSET S
      BY <2>1, <2>4
    <3>2. Total(f, s \ {x}) = f[z] + Total(f, r)
      BY <1>2, <2>1, <3>1
    <3>3. Total(f, s \ {z}) = f[x] + Total(f, r)
      BY <1>2, <3>1
    <3>4. f[x] \in Int /\ f[z] \in Int /\ Total(f, r) \in Int
      BY <1>1, <2>1, <3>1 DEF Ints
    <3>5. QED
      BY <2>2, <3>2, <3>3, <3>4
  <2>5. QED
    BY <2>3, <2>4
<1>3. \A s \in SUBSET S : (\A x \in s : s \ {x} \in Good) => s \in Good
  BY <1>2
<1> HIDE DEF Good
<1>4. S \in Good
  BY <1>3, SubsetInduction
<1>5. Total(f, S) = f[y] + Total(f, S \ {y})
  BY <1>4 DEF Good
<1>6. QED
  BY <1>1, <1>5 DEF Ints

\* The sum over two sets apart is the sum of their sums.
LEMMA TotalUnion ==
    ASSUME NEW f, NEW S, NEW T, IsFiniteSet(S), IsFiniteSet(T), S \cap T = {},
           Ints(f, S \union T)
    PROVE  Total(f, S \union T) = Total(f, S) + Total(f, T)
<1> DEFINE Good == {s \in SUBSET S : Total(f, s \union T) = Total(f, s) + Total(f, T)}
<1>1. \A s \in SUBSET S : /\ IsFiniteSet(s) /\ IsFiniteSet(s \union T)
                          /\ Ints(f, s) /\ Ints(f, s \union T)
  <2>1. \A s \in SUBSET S : IsFiniteSet(s) /\ IsFiniteSet(s \union T)
    BY FS_Subset, FS_Union
  <2>2. QED
    BY <2>1 DEF Ints
<1>2. Total(f, T) \in Int
  <2>1. Ints(f, T)
    BY DEF Ints
  <2>2. QED
    BY <2>1, TotalType
<1>3. ASSUME NEW s \in SUBSET S, \A x \in s : s \ {x} \in Good
      PROVE  s \in Good
  <2>1. CASE s = {}
    BY <1>2, <2>1, TotalOfNone
  <2>2. CASE s # {}
    <3>1. PICK x \in s : TRUE
      BY <2>2
    <3> DEFINE U == s \union T
               r == s \ {x}
    <3>2. x \in U /\ U \ {x} = r \union T /\ IsFiniteSet(U) /\ Ints(f, U)
      BY <1>1, <3>1
    <3>3. Total(f, r \union T) = Total(f, r) + Total(f, T)
      BY <1>3
    <3>4. /\ Total(f, s) = f[x] + Total(f, r)
          /\ Total(f, r) \in Int /\ f[x] \in Int
      BY <1>1, TotalTake
    <3> HIDE DEF U, r
    <3>5. Total(f, U) = f[x] + Total(f, U \ {x})
      BY <3>2, TotalTake
    <3>6. Total(f, U) = f[x] + (Total(f, r) + Total(f, T))
      BY <3>2, <3>3, <3>5, Zenon
    <3>7. Total(f, U) = Total(f, s) + Total(f, T)
      BY <1>2, <3>4, <3>6
    <3>8. QED
      BY <3>7 DEF U
  <2>3. QED
    BY <2>1, <2>2
<1> HIDE DEF Good
<1>4. S \in Good
  BY <1>3, SubsetInduction
<1>5. QED
  BY <1>4 DEF Good

\* More terms, none of them negative, make no less.
LEMMA TotalMonotone ==
    ASSUME NEW f, NEW S, IsFiniteSet(S), NEW R \in SUBSET S, Nats(f, S)
    PROVE  /\ Total(f, R) \in Nat /\ Total(f, S) \in Nat /\ Total(f, S \ R) \in Nat
           /\ Total(f, S) = Total(f, R) + Total(f, S \ R)
           /\ Total(f, R) <= Total(f, S)
<1> DEFINE Q == S \ R
<1>1. IsFiniteSet(R) /\ IsFiniteSet(Q) /\ S = R \union Q /\ R \cap Q = {} /\ Q \in SUBSET S
  BY FS_Subset, FS_Difference
<1> HIDE DEF Q
<1>2. Ints(f, R \union Q) /\ Nats(f, R) /\ Nats(f, Q)
  BY <1>1, TermsOfSubset
<1>3. Total(f, R) \in Nat /\ Total(f, S) \in Nat /\ Total(f, Q) \in Nat
  BY <1>1, <1>2, TotalType
<1>4. Total(f, R \union Q) = Total(f, R) + Total(f, Q)
  BY <1>1, <1>2, TotalUnion
<1>5. Total(f, S) = Total(f, R) + Total(f, Q)
  BY <1>1, <1>4
<1>6. Total(f, R) <= Total(f, S)
  BY <1>3, <1>5
<1>7. QED
  BY <1>3, <1>5, <1>6 DEF Q

\* Only terms that are not zero count.
LEMMA TotalZero ==
    ASSUME NEW f, NEW S, IsFiniteSet(S), Nats(f, S)
    PROVE  Total(f, S) = 0 <=> \A x \in S : f[x] = 0
<1> DEFINE Good == {s \in SUBSET S : (\A x \in s : f[x] = 0) => Total(f, s) = 0}
<1>1. ASSUME NEW s \in SUBSET S, \A x \in s : s \ {x} \in Good
      PROVE  s \in Good
  <2>1. CASE s = {}
    BY <2>1, TotalOfNone
  <2>2. CASE s # {}
    <3>1. Pick(s) \in s /\ IsFiniteSet(s)
      BY <2>2, PickIn, FS_Subset
    <3>2. Total(f, s) = f[Pick(s)] + Total(f, s \ {Pick(s)})
      BY <2>2, <3>1, TotalPick
    <3>3. QED
      BY <1>1, <3>1, <3>2
  <2>3. QED
    BY <2>1, <2>2
<1> HIDE DEF Good
<1>2. S \in Good
  BY <1>1, SubsetInduction
<1>3. ASSUME Total(f, S) = 0, NEW x \in S
      PROVE  f[x] = 0
  <2>1. Ints(f, S) /\ Nats(f, S \ {x}) /\ IsFiniteSet(S \ {x})
    BY TermsOfSubset, FS_Difference
  <2>2. Total(f, S) = f[x] + Total(f, S \ {x})
    BY <2>1, TotalTake
  <2>3. f[x] \in Nat /\ Total(f, S \ {x}) \in Nat
    BY <2>1, TotalType DEF Nats
  <2>4. QED
    BY <1>3, <2>2, <2>3
<1>4. QED
  BY <1>2, <1>3 DEF Good

\* One term changes the sum by as much as it changes itself.
LEMMA TotalUpdate ==
    ASSUME NEW f, NEW g, NEW S, IsFiniteSet(S), Ints(f, S), NEW y \in S, g[y] \in Int,
           \A x \in S \ {y} : g[x] = f[x]
    PROVE  Total(g, S) = Total(f, S) + (g[y] - f[y])
<1>1. Ints(g, S)
  BY DEF Ints
<1>2. Total(f, S) = f[y] + Total(f, S \ {y}) /\ Total(f, S \ {y}) \in Int /\ f[y] \in Int
  BY TotalTake
<1>3. Total(g, S) = g[y] + Total(g, S \ {y})
  BY <1>1, TotalTake
<1>4. IsFiniteSet(S \ {y})
  BY FS_Difference
<1>5. Total(f, S \ {y}) = Total(g, S \ {y})
  BY <1>4, TotalSame
<1>6. QED
  BY <1>2, <1>3, <1>5

\* A sum of sums.
LEMMA TotalPlus ==
    ASSUME NEW f, NEW g, NEW h, NEW S, IsFiniteSet(S), Ints(g, S), Ints(h, S),
           \A x \in S : f[x] = g[x] + h[x]
    PROVE  Total(f, S) = Total(g, S) + Total(h, S)
<1> DEFINE Good == {s \in SUBSET S : Total(f, s) = Total(g, s) + Total(h, s)}
<1>1. \A s \in SUBSET S : /\ IsFiniteSet(s) /\ Total(g, s) \in Int /\ Total(h, s) \in Int
                          /\ Total(f, s) \in Int
  <2>1. Ints(f, S)
    BY DEF Ints
  <2>2. QED
    BY <2>1, FS_Subset, TotalType, TermsOfSubset
<1>2. ASSUME NEW s \in SUBSET S, \A x \in s : s \ {x} \in Good
      PROVE  Total(f, s) = Total(g, s) + Total(h, s)
  <2>1. CASE s = {}
    BY <2>1, TotalOfNone
  <2>2. CASE s # {}
    <3> DEFINE x == Pick(s)
               r == s \ {x}
    <3>1. x \in s /\ r \in SUBSET S
      BY <2>2, PickIn
    <3>2. /\ Total(f, s) = f[x] + Total(f, r) /\ Total(g, s) = g[x] + Total(g, r)
          /\ Total(h, s) = h[x] + Total(h, r)
      BY <1>1, <2>2, TotalPick
    <3>3. Total(f, r) = Total(g, r) + Total(h, r)
      BY <1>2, <3>1
    <3>4. g[x] \in Int /\ h[x] \in Int /\ f[x] = g[x] + h[x]
      BY <3>1 DEF Ints
    <3>5. Total(g, r) \in Int /\ Total(h, r) \in Int
      BY <1>1, <3>1
    <3> HIDE DEF x, r
    <3>6. QED
      BY <3>2, <3>3, <3>4, <3>5
  <2>3. QED
    BY <2>1, <2>2
<1>3. \A s \in SUBSET S : (\A x \in s : s \ {x} \in Good) => s \in Good
  BY <1>2
<1> HIDE DEF Good
<1>4. S \in Good
  BY <1>3, SubsetInduction
<1>5. QED
  BY <1>4 DEF Good

\* A multiple of a sum, and sums of terms that are nowhere larger.
LEMMA TotalScaled ==
    ASSUME NEW f, NEW g, NEW S, IsFiniteSet(S), Ints(f, S), NEW c \in Int,
           \A x \in S : g[x] = c * f[x]
    PROVE  Total(g, S) = c * Total(f, S)
<1> DEFINE Good == {s \in SUBSET S : Total(g, s) = c * Total(f, s)}
<1>1. \A s \in SUBSET S : IsFiniteSet(s) /\ Total(f, s) \in Int
  BY FS_Subset, TotalType, TermsOfSubset
<1>2. ASSUME NEW s \in SUBSET S, \A x \in s : s \ {x} \in Good
      PROVE  Total(g, s) = c * Total(f, s)
  <2>1. CASE s = {}
    BY <2>1, TotalOfNone
  <2>2. CASE s # {}
    <3> DEFINE x == Pick(s)
               r == s \ {x}
    <3>1. x \in s /\ r \in SUBSET S
      BY <2>2, PickIn
    <3>2. Total(f, s) = f[x] + Total(f, r) /\ Total(g, s) = g[x] + Total(g, r)
      BY <1>1, <2>2, TotalPick
    <3>3. Total(g, r) = c * Total(f, r)
      BY <1>2, <3>1
    <3>4. f[x] \in Int /\ g[x] = c * f[x] /\ Total(f, r) \in Int
      BY <1>1, <3>1 DEF Ints
    <3> HIDE DEF x, r
    <3>5. \A a, b \in Int : c * (a + b) = c * a + c * b
      OBVIOUS
    <3>6. QED
      BY <3>2, <3>3, <3>4, <3>5
  <2>3. QED
    BY <2>1, <2>2
<1>3. \A s \in SUBSET S : (\A x \in s : s \ {x} \in Good) => s \in Good
  BY <1>2
<1> HIDE DEF Good
<1>4. S \in Good
  BY <1>3, SubsetInduction
<1>5. QED
  BY <1>4 DEF Good

LEMMA TotalAtMost ==
    ASSUME NEW f, NEW g, NEW S, IsFiniteSet(S), Ints(f, S), Ints(g, S),
           \A x \in S : f[x] <= g[x]
    PROVE  Total(f, S) <= Total(g, S)
<1> DEFINE h == [x \in S |-> g[x] - f[x]]
<1>1. Nats(h, S) /\ \A x \in S : g[x] = f[x] + h[x]
  <2>1. \A x \in S : f[x] \in Int /\ g[x] \in Int
    BY DEF Ints
  <2>2. \A x \in S : h[x] \in Nat /\ g[x] = f[x] + h[x]
    BY <2>1
  <2> HIDE DEF h
  <2>3. QED
    BY <2>2 DEF Nats
<1> HIDE DEF h
<1>2. Ints(h, S)
  BY <1>1, TermsOfSubset
<1>3. Total(g, S) = Total(f, S) + Total(h, S)
  BY <1>1, <1>2, TotalPlus
<1>4. Total(h, S) \in Nat /\ Total(f, S) \in Int
  BY <1>1, TotalType
<1>5. QED
  BY <1>3, <1>4

\* A sum taken part by part, p[x] being the part of x.
LEMMA TotalByPart ==
    ASSUME NEW f, NEW S, IsFiniteSet(S), Ints(f, S), NEW p, NEW B, IsFiniteSet(B),
           \A x \in S : p[x] \in B
    PROVE  Total(f, S) = Total([b \in B |-> Total(f, {x \in S : p[x] = b})], B)
<1> DEFINE part(s, b) == {x \in s : p[x] = b}
           parts(s) == [b \in B |-> Total(f, part(s, b))]
           Good == {s \in SUBSET S : Total(f, s) = Total(parts(s), B)}
<1>1. \A s \in SUBSET S : IsFiniteSet(s) /\ Ints(f, s) /\ Total(f, s) \in Int
  BY FS_Subset, TotalType, TermsOfSubset
<1>2. \A s \in SUBSET S : Ints(parts(s), B)
  <2>1. \A s \in SUBSET S, b \in B : part(s, b) \in SUBSET S
    OBVIOUS
  <2>2. \A s \in SUBSET S, b \in B : parts(s)[b] \in Int
    BY <1>1, <2>1
  <2>3. QED
    BY <2>2 DEF Ints
<1>3. ASSUME NEW s \in SUBSET S, \A x \in s : s \ {x} \in Good
      PROVE  Total(f, s) = Total(parts(s), B)
  <2>1. CASE s = {}
    <3>1. \A b \in B : part(s, b) = {}
      BY <2>1
    <3>2. \A b \in B : parts(s)[b] = 0
      BY <3>1, TotalOfNone
    <3>3. Nats(parts(s), B)
      BY <3>2 DEF Nats
    <3>4. Total(parts(s), B) = 0
      BY <3>2, <3>3, TotalZero
    <3>5. QED
      BY <2>1, <3>4, TotalOfNone
  <2>2. CASE s # {}
    <3>1. PICK x \in s : TRUE
      BY <2>2
    <3> DEFINE r == s \ {x}
               c == p[x]
    <3>2. r \in SUBSET S /\ c \in B /\ Total(f, r) = Total(parts(r), B)
      BY <1>3, <3>1
    <3>3. /\ Total(f, s) = f[x] + Total(f, r) /\ Total(f, r) \in Int /\ f[x] \in Int
      <4>1. IsFiniteSet(s) /\ Ints(f, s)
        BY <1>1
      <4>2. QED
        BY <4>1, TotalTake
    <3>4. part(s, c) \in SUBSET S /\ x \in part(s, c) /\ part(s, c) \ {x} = part(r, c)
      OBVIOUS
    <3>5. Total(f, part(s, c)) = f[x] + Total(f, part(r, c))
      <4> HIDE DEF part, c, r
      <4>1. IsFiniteSet(part(s, c)) /\ Ints(f, part(s, c))
        BY <1>1, <3>4
      <4>2. Total(f, part(s, c)) = f[x] + Total(f, part(s, c) \ {x})
        BY <3>4, <4>1, TotalTake
      <4>3. QED
        BY <3>4, <4>2
    <3>6. \A b \in B \ {c} : part(s, b) = part(r, b)
      OBVIOUS
    <3>7. /\ parts(s)[c] = f[x] + parts(r)[c] /\ parts(s)[c] \in Int /\ parts(r)[c] \in Int
          /\ \A b \in B \ {c} : parts(s)[b] = parts(r)[b]
      <4>1. parts(s)[c] \in Int /\ parts(r)[c] \in Int
        BY <1>2, <3>2 DEF Ints
      <4> HIDE DEF part, c, r
      <4>2. QED
        BY <3>2, <3>5, <3>6, <4>1
    <3> HIDE DEF parts, r, c
    <3>8. Total(parts(s), B) = Total(parts(r), B) + (parts(s)[c] - parts(r)[c])
      BY <1>2, <3>2, <3>7, TotalUpdate
    <3>9. Total(parts(r), B) \in Int
      BY <1>2, <3>2, TotalType
    <3>10. QED
      BY <3>2, <3>3, <3>7, <3>8, <3>9
  <2>3. QED
    BY <2>1, <2>2
<1>4. \A s \in SUBSET S : (\A x \in s : s \ {x} \in Good) => s \in Good
  BY <1>3
<1>5. S \in Good
  <2> HIDE DEF Good
  <2>1. QED
    BY <1>4, SubsetInduction
<1> HIDE DEF parts
<1>6. Total(f, S) = Total(parts(S), B)
  BY <1>5
<1>7. QED
  BY <1>6 DEF parts
=============================================================================
