------------------------ MODULE StockMetrics_proofs ------------------------
(***************************************************************************)
(* Proofs about the replay and the calculators after it, for any ledger,   *)
(* period, order of events and question.                                   *)
(*                                                                         *)
(* The replay.  BookInv relates the slices of each bucket to its balance:  *)
(* they cover it as long as nothing is counted and no outbound is undone,  *)
(* and match it as long as nothing is undone and it never fell below zero. *)
(* Whether an event of that kind touches a bucket is a matter of the       *)
(* dataset alone, so the premises do not change while it is replayed.  The *)
(* heart is DrainTakes: what _drain takes of the slices, each after those  *)
(* ahead of it, is what was asked for, or all they hold.                   *)
(*                                                                         *)
(* DatesInv ties the dates of a bucket to the events replayed: a slice was *)
(* filled by arrivals of its lot and day, the sums of all history hold     *)
(* what these brought less what was undone, and the last outbound is that  *)
(* of an event not undone, or of none.  An age is a mean of days weighted  *)
(* by such sums, and StandingWeights says when no weight is negative.      *)
(* CostInv says of the moving average that it respects every bound of the  *)
(* costs received so far, in products, since it is a fraction: a bound of  *)
(* more costs is a bound of fewer, and a weighted mean respects the bounds *)
(* of both its parts.                                                      *)
(*                                                                         *)
(* QtyInv says that a balance is that of the events taken so far, and the  *)
(* opening that of those before the period. A count discards what came     *)
(* before it, so the last step is compared with the reference event by     *)
(* event, and a reversal with what its base did. How often an event        *)
(* stands is defined by recursion against the order of insertion, and the  *)
(* balance by the signs of the chains: StandingIs shows that the           *)
(* recursion defines something, and StandingSums that both sum up to the   *)
(* same. The projection sums over the lots of a bucket, event by event in  *)
(* the same order, and each prefix agrees with the same reference          *)
(* (StepAgrees); RebuiltAgrees is the whole ledger, and AdapterInv says    *)
(* what of the ledger the adapter hands over.                              *)
(*                                                                         *)
(* The calculators.  A class is a statement about running amounts, and     *)
(* WithinFills says of them: ranked by amount, the SKUs whose running      *)
(* amount keeps within a limit are those ahead of the first that does not, *)
(* and they fill the limit but for one amount.  LeftOutIsNamed is not a    *)
(* property of one step: a warning is given by one calculator and the null *)
(* it stands for by another, so FiguresInv says what has been concluded at *)
(* each stage and WarnedInv who has been named.                            *)
(***************************************************************************)
EXTENDS StockMetrics, Analytics, Amounts_proofs, SequenceTheorems

(***************************************************************************)
(* Slices                                                                  *)
(***************************************************************************)

\* Taking n from the members of F, each after those ahead of it, takes n of
\* what they hold, or all of it.
Before(F, ahead, x) == F \cap ahead[x]
Initial(F, ahead, s) == s \in SUBSET F /\ \A x \in s : Before(F, ahead, x) \subseteq s
InTurn(F, ahead) ==
    \A s : Initial(F, ahead, s) /\ s # {} =>
        \E x \in s : Before(F, ahead, x) = s \ {x} /\ Initial(F, ahead, s \ {x})

LEMMA TakingInTurn ==
    ASSUME NEW F, IsFiniteSet(F), NEW q, Nats(q, F), NEW ahead, InTurn(F, ahead),
           NEW n \in Nat, NEW t,
           \A x \in F : t[x] = Smaller(q[x], Positive(n - Total(q, Before(F, ahead, x))))
    PROVE  Total(t, F) = Smaller(n, Total(q, F)) /\ Nats(t, F)
<1>1. \A s \in SUBSET F : IsFiniteSet(s) /\ Total(q, s) \in Nat
  BY FS_Subset, TotalMonotone
<1>2. ASSUME NEW x \in F
      PROVE  q[x] \in Nat /\ t[x] \in Nat
  <2>1. q[x] \in Nat
    BY DEF Nats
  <2>2. Total(q, Before(F, ahead, x)) \in Nat
    BY <1>1 DEF Before
  <2>3. QED
    BY <2>1, <2>2 DEF Smaller, Positive
<1>3. Nats(t, F)
  BY <1>2 DEF Nats
<1> DEFINE Good == {s \in SUBSET F : Initial(F, ahead, s) => Total(t, s) = Smaller(n, Total(q, s))}
<1>4. ASSUME NEW s \in SUBSET F, \A x \in s : s \ {x} \in Good, Initial(F, ahead, s)
      PROVE  Total(t, s) = Smaller(n, Total(q, s))
  <2>1. CASE s = {}
    BY <2>1, TotalOfNone DEF Smaller
  <2>2. CASE s # {}
    <3>1. PICK x \in s : Before(F, ahead, x) = s \ {x} /\ Initial(F, ahead, s \ {x})
      BY <1>4, <2>2 DEF InTurn
    <3> DEFINE r == s \ {x}
    <3>2. Total(t, r) = Smaller(n, Total(q, r))
      BY <1>4, <3>1
    <3>3. Ints(q, s) /\ Ints(t, s) /\ IsFiniteSet(s)
      BY <1>1, <1>2 DEF Ints
    <3>4. Total(q, s) = q[x] + Total(q, r) /\ Total(t, s) = t[x] + Total(t, r)
      BY <3>3, TotalTake
    <3>5. t[x] = Smaller(q[x], Positive(n - Total(q, r)))
      BY <3>1
    <3>6. q[x] \in Nat /\ Total(q, r) \in Nat
      BY <1>1, <1>2
    <3> HIDE DEF r
    <3>7. QED
      BY <3>2, <3>4, <3>5, <3>6 DEF Smaller, Positive
  <2>3. QED
    BY <2>1, <2>2
<1>5. \A s \in SUBSET F : (\A x \in s : s \ {x} \in Good) => s \in Good
  BY <1>4
<1> HIDE DEF Good
<1>6. F \in Good
  BY <1>5, SubsetInduction
<1>7. Initial(F, ahead, F)
  BY DEF Initial, Before
<1>8. QED
  BY <1>3, <1>6, <1>7 DEF Good

\* The oldest first, or the newest first.
Older(n) == [i \in 1..n |-> 1..i - 1]
Newer(n) == [i \in 1..n |-> i + 1..n]

LEMMA OlderInTurn ==
    ASSUME NEW n \in Nat, NEW F \in SUBSET (1..n)
    PROVE  InTurn(F, Older(n))
<1> SUFFICES ASSUME NEW s, Initial(F, Older(n), s), s # {}
             PROVE  \E x \in s : /\ Before(F, Older(n), x) = s \ {x}
                                 /\ Initial(F, Older(n), s \ {x})
  BY DEF InTurn
<1>1. s \in SUBSET F /\ \A x \in 1..n : Before(F, Older(n), x) = {y \in F : y < x}
  <2>1. \A x \in 1..n : Older(n)[x] = 1..x - 1
    BY DEF Older
  <2>2. \A x \in 1..n, y \in F : y \in 1..x - 1 <=> y < x
    OBVIOUS
  <2>3. \A x \in 1..n : Before(F, Older(n), x) = {y \in F : y < x}
    BY <2>1, <2>2 DEF Before
  <2>4. QED
    BY <2>3 DEF Initial
<1>2. PICK x \in s : \A y \in s : y <= x
  BY <1>1, LargestOf
<1>3. \A z \in s, y \in F : y < z => y \in s
  BY <1>1 DEF Initial
<1>4. \A y \in s : y \in Int
  BY <1>1
<1>5. {y \in F : y < x} = s \ {x}
  <2>1. \A y \in F : y \in Int
    OBVIOUS
  <2>2. \A y \in F : y < x <=> y \in s /\ y # x
    BY <1>2, <1>3, <1>4, <2>1
  <2>3. QED
    BY <1>1, <2>2
<1>6. \A z \in s \ {x}, y \in F : y < z => y \in s \ {x}
  <2> SUFFICES ASSUME NEW z \in s \ {x}, NEW y \in F, y < z PROVE y \in s \ {x}
    OBVIOUS
  <2>1. y \in s /\ z <= x /\ y \in Int /\ z \in Int /\ x \in Int
    BY <1>2, <1>3, <1>4
  <2>2. y # x
    BY <2>1
  <2>3. QED
    BY <2>1, <2>2
<1>7. QED
  BY <1>1, <1>5, <1>6 DEF Initial

LEMMA NewerInTurn ==
    ASSUME NEW n \in Nat, NEW F \in SUBSET (1..n)
    PROVE  InTurn(F, Newer(n))
<1> SUFFICES ASSUME NEW s, Initial(F, Newer(n), s), s # {}
             PROVE  \E x \in s : /\ Before(F, Newer(n), x) = s \ {x}
                                 /\ Initial(F, Newer(n), s \ {x})
  BY DEF InTurn
<1>1. s \in SUBSET F /\ \A x \in 1..n : Before(F, Newer(n), x) = {y \in F : x < y}
  <2>1. \A x \in 1..n : Newer(n)[x] = x + 1..n
    BY DEF Newer
  <2>2. \A x \in 1..n, y \in F : y \in x + 1..n <=> x < y
    OBVIOUS
  <2>3. \A x \in 1..n : Before(F, Newer(n), x) = {y \in F : x < y}
    BY <2>1, <2>2 DEF Before
  <2>4. QED
    BY <2>3 DEF Initial
<1>2. PICK x \in s : \A y \in s : x <= y
  <2>1. s \in SUBSET Nat
    BY <1>1
  <2>2. QED
    BY <2>1, SmallestOf
<1>3. \A z \in s, y \in F : z < y => y \in s
  BY <1>1 DEF Initial
<1>4. \A y \in s : y \in Int
  BY <1>1
<1>5. {y \in F : x < y} = s \ {x}
  <2>1. \A y \in F : y \in Int
    OBVIOUS
  <2>2. \A y \in F : x < y <=> y \in s /\ y # x
    BY <1>2, <1>3, <1>4, <2>1
  <2>3. QED
    BY <1>1, <2>2
<1>6. \A z \in s \ {x}, y \in F : z < y => y \in s \ {x}
  <2> SUFFICES ASSUME NEW z \in s \ {x}, NEW y \in F, z < y PROVE y \in s \ {x}
    OBVIOUS
  <2>1. y \in s /\ x <= z /\ y \in Int /\ z \in Int /\ x \in Int
    BY <1>2, <1>3, <1>4
  <2>2. y # x
    BY <2>1
  <2>3. QED
    BY <2>1, <2>2
<1>7. QED
  BY <1>1, <1>5, <1>6 DEF Initial

-----------------------------------------------------------------------------
SliceRow == [lot : Lots \union {None}, day : Days, qty : Nat]

LEMMA SlicesTyped ==
    ASSUME NEW slices \in Seq(SliceRow)
    PROVE  /\ Len(slices) \in Nat /\ DOMAIN slices = 1..Len(slices)
           /\ IsFiniteSet(DOMAIN slices)
           /\ \A i \in DOMAIN slices : slices[i] \in SliceRow /\ slices[i].qty \in Nat
           /\ Nats([i \in DOMAIN slices |-> slices[i].qty], DOMAIN slices)
           /\ \A S \in SUBSET DOMAIN slices : IsFiniteSet(S) /\ Held(slices, S) \in Nat
<1>1. /\ Len(slices) \in Nat /\ DOMAIN slices = 1..Len(slices)
      /\ \A i \in DOMAIN slices : slices[i] \in SliceRow
  OBVIOUS
<1>2. IsFiniteSet(DOMAIN slices)
  BY <1>1, FS_Interval
<1>3. \A i \in DOMAIN slices : slices[i].qty \in Nat
  BY <1>1 DEF SliceRow
<1> DEFINE q == [i \in DOMAIN slices |-> slices[i].qty]
<1>4. Nats(q, DOMAIN slices)
  BY <1>3 DEF Nats
<1> HIDE DEF q
<1>5. \A S \in SUBSET DOMAIN slices : IsFiniteSet(S) /\ Total(q, S) \in Nat
  BY <1>2, <1>4, FS_Subset, TotalMonotone
<1>6. QED
  BY <1>1, <1>2, <1>3, <1>4, <1>5 DEF Held, q

\* d is what a drain leaves that was to take n from the slices of `from`.
Drained(d, slices, from, n) ==
    /\ d \in Seq(SliceRow) /\ DOMAIN d = DOMAIN slices
    /\ \A i \in DOMAIN slices : /\ d[i].lot = slices[i].lot /\ d[i].day = slices[i].day
                                /\ d[i].qty <= slices[i].qty
    /\ \A S \in SUBSET DOMAIN slices :
          from \subseteq S => Held(d, S) = Held(slices, S) - Smaller(n, Held(slices, from))

LEMMA DrainTakes ==
    ASSUME NEW slices \in Seq(SliceRow), NEW from \in SUBSET DOMAIN slices,
           NEW ahead, InTurn(from, ahead), NEW n \in Nat
    PROVE  Drained(Drain(slices, from, ahead, n), slices, from, n)
<1> DEFINE D == DOMAIN slices
           d == Drain(slices, from, ahead, n)
           q == [i \in D |-> slices[i].qty]
           t == [i \in D |-> IF i \in from
                             THEN Smaller(q[i], Positive(n - Total(q, Before(from, ahead, i))))
                             ELSE 0]
           r == [i \in D |-> d[i].qty]
<1>1. /\ IsFiniteSet(D) /\ Nats(q, D) /\ D = 1..Len(slices) /\ Len(slices) \in Nat
      /\ \A i \in D : slices[i] \in SliceRow /\ slices[i].qty \in Nat /\ q[i] = slices[i].qty
  BY SlicesTyped
<1>2. \A S \in SUBSET D : /\ IsFiniteSet(S) /\ Total(q, S) \in Nat /\ Nats(q, S)
                          /\ Total(q, S) = Held(slices, S)
  BY <1>1, FS_Subset, TotalMonotone, TermsOfSubset DEF Held
<1>3. \A i \in from : t[i] = Smaller(q[i], Positive(n - Total(q, Before(from, ahead, i))))
  OBVIOUS
<1>4. d = [i \in D |-> IF i \in from THEN [slices[i] EXCEPT !.qty = @ - t[i]] ELSE slices[i]]
  BY DEF Drain, Before
<1> HIDE DEF t, d, q
<1>5. Total(t, from) = Smaller(n, Total(q, from)) /\ Nats(t, from)
  <2>1. IsFiniteSet(from) /\ Nats(q, from)
    BY <1>2
  <2>2. QED
    BY <1>3, <2>1, TakingInTurn
<1>6. ASSUME NEW i \in D
      PROVE  /\ t[i] \in Nat /\ t[i] <= slices[i].qty
             /\ d[i] \in SliceRow /\ d[i].qty = slices[i].qty - t[i]
             /\ d[i].lot = slices[i].lot /\ d[i].day = slices[i].day
  <2>1. CASE i \in from
    <3>1. Before(from, ahead, i) \in SUBSET D
      BY DEF Before
    <3>2. Total(q, Before(from, ahead, i)) \in Nat
      BY <1>2, <3>1
    <3>3. t[i] \in Nat /\ t[i] <= slices[i].qty
      BY <1>1, <1>3, <2>1, <3>2 DEF Smaller, Positive
    <3>4. d[i] = [slices[i] EXCEPT !.qty = @ - t[i]] /\ slices[i] \in SliceRow
      BY <1>1, <1>4, <2>1
    <3>5. slices[i].qty - t[i] \in Nat
      BY <1>1, <3>3
    <3>6. QED
      BY <3>3, <3>4, <3>5 DEF SliceRow
  <2>2. CASE i \notin from
    <3>1. t[i] = 0 /\ d[i] = slices[i]
      BY <1>4, <2>2 DEF t
    <3>2. QED
      BY <1>1, <3>1
  <2>3. QED
    BY <2>1, <2>2
<1>7. d \in Seq(SliceRow) /\ DOMAIN d = D
  <2>1. d \in [1..Len(slices) -> SliceRow]
    BY <1>1, <1>4, <1>6
  <2>2. QED
    BY <1>1, <2>1
<1>8. ASSUME NEW S \in SUBSET D, from \subseteq S
      PROVE  Held(d, S) = Held(slices, S) - Smaller(n, Held(slices, from))
  <2>1. \A i \in S : q[i] = r[i] + t[i] /\ r[i] \in Int /\ t[i] \in Int
    BY <1>1, <1>6
  <2>2. Ints(r, S) /\ Ints(t, S) /\ IsFiniteSet(S)
    BY <1>2, <2>1 DEF Ints
  <2>3. Total(q, S) = Total(r, S) + Total(t, S) /\ Total(r, S) \in Int
    <3> HIDE DEF r
    <3>1. \A i \in S : q[i] = r[i] + t[i]
      BY <2>1
    <3>2. Total(r, S) \in Int
      BY <2>2, TotalType
    <3>3. Total(q, S) = Total(r, S) + Total(t, S)
      BY <2>2, <3>1, TotalPlus
    <3>4. QED
      BY <3>2, <3>3
  <2>4. Total(t, S) = Total(t, from)
    <3> DEFINE rest == S \ from
    <3>1. S = from \union rest /\ from \cap rest = {} /\ IsFiniteSet(from) /\ IsFiniteSet(rest)
      BY <1>2, <1>8
    <3>2. Nats(t, rest) /\ \A i \in rest : t[i] = 0
      BY DEF Nats, t
    <3> HIDE DEF rest
    <3>3. Total(t, rest) = 0
      BY <3>1, <3>2, TotalZero
    <3>4. Total(t, from \union rest) = Total(t, from) + Total(t, rest)
      BY <2>2, <3>1, TotalUnion
    <3>5. Total(t, from) \in Int
      BY <1>5, <3>1, TotalType
    <3>6. Total(t, S) = Total(t, from) + 0
      BY <3>1, <3>3, <3>4
    <3>7. QED
      BY <3>5, <3>6
  <2>5. Total(r, S) = Held(d, S)
    BY <1>7 DEF Held
  <2>6. Total(q, S) \in Nat /\ Total(q, from) \in Nat
    BY <1>2
  <2>7. Smaller(n, Total(q, from)) \in Int
    BY <2>6 DEF Smaller
  <2>8. Total(r, S) = Total(q, S) - Smaller(n, Total(q, from))
    BY <1>5, <2>3, <2>4, <2>6, <2>7
  <2>9. QED
    BY <1>2, <2>5, <2>8
<1>9. \A i \in D : d[i].qty <= slices[i].qty
  BY <1>1, <1>6
<1>10. QED
  BY <1>6, <1>7, <1>8, <1>9 DEF d, Drained

LEMMA SeqByIndex ==
    ASSUME NEW S, NEW n \in Nat, NEW a, a = [i \in 1..n |-> a[i]], \A i \in 1..n : a[i] \in S
    PROVE  a \in Seq(S) /\ Len(a) = n
OBVIOUS

HeldAll(slices) == Held(slices, DOMAIN slices)
Slicable(e) == e.lot \in Lots \union {None} /\ e.day \in Days /\ e.qty \in Nat

\* Slices of the same dates, or with one of day d besides.
SameDates(a, slices) ==
    DOMAIN a = DOMAIN slices /\ \A i \in DOMAIN slices : a[i].day = slices[i].day
DatesAnd(a, slices, d) ==
    \A i \in DOMAIN a : a[i].day = d \/ \E j \in DOMAIN slices : a[i].day = slices[j].day

LEMMA AddSliceHolds ==
    ASSUME NEW slices \in Seq(SliceRow), NEW e, Slicable(e)
    PROVE  /\ AddSlice(slices, e) \in Seq(SliceRow)
           /\ HeldAll(AddSlice(slices, e)) = HeldAll(slices) + e.qty
           /\ DatesAnd(AddSlice(slices, e), slices, e.day)
<1> DEFINE D == DOMAIN slices
           q == [i \in D |-> slices[i].qty]
           n == Len(slices)
<1>1. /\ n \in Nat /\ D = 1..n /\ IsFiniteSet(D) /\ Nats(q, D) /\ Ints(q, D)
      /\ \A i \in D : slices[i] \in SliceRow /\ slices[i].qty \in Nat
      /\ HeldAll(slices) = Total(q, D) /\ HeldAll(slices) \in Nat
  BY SlicesTyped, TermsOfSubset DEF HeldAll, Held
<1>2. CASE e.lot # None /\ OfLot(slices, e.lot) # {}
  <2> DEFINE j == Least(OfLot(slices, e.lot))
             new == [slices[j] EXCEPT !.qty = @ + e.qty, !.day = IF e.day > @ THEN e.day ELSE @]
             a == [slices EXCEPT ![j].qty = @ + e.qty,
                                 ![j].day = IF e.day > @ THEN e.day ELSE @]
             r == [i \in D |-> a[i].qty]
  <2>1. AddSlice(slices, e) = a
    BY <1>2 DEF AddSlice
  <2>2. j \in D
    <3>1. OfLot(slices, e.lot) \in SUBSET Nat /\ OfLot(slices, e.lot) \in SUBSET D
      BY <1>1 DEF OfLot
    <3>2. \E x \in OfLot(slices, e.lot) : \A y \in OfLot(slices, e.lot) : x <= y
      BY <1>2, <3>1, SmallestOf
    <3>3. j \in OfLot(slices, e.lot)
      BY <3>2 DEF Least
    <3>4. QED
      BY <3>1, <3>3
  <2> HIDE DEF j
  <2> HIDE DEF new
  <2>12. DOMAIN a = D /\ a[j] = new /\ \A i \in D \ {j} : a[i] = slices[i]
    <3>1. DOMAIN a = D /\ \A i \in D \ {j} : a[i] = slices[i]
      OBVIOUS
    <3>2. a[j] = new
      BY <2>2 DEF new
    <3>3. QED
      BY <3>1, <3>2
  <2> HIDE DEF a
  <2>3. slices[j] \in SliceRow /\ e.qty \in Nat /\ e.day \in Days
    BY <1>1, <2>2 DEF Slicable
  <2>4. /\ new \in SliceRow /\ new.qty = slices[j].qty + e.qty
        /\ new.day = e.day \/ new.day = slices[j].day
    <3> DEFINE old == slices[j]
               day == IF e.day > old.day THEN e.day ELSE old.day
    <3>1. /\ old = [lot |-> old.lot, day |-> old.day, qty |-> old.qty]
          /\ old.lot \in Lots \union {None} /\ old.day \in Days /\ old.qty \in Nat
      BY <2>3 DEF SliceRow
    <3>2. new = [old EXCEPT !.qty = old.qty + e.qty, !.day = day]
      BY <2>3 DEF SliceRow, new
    <3>3. day \in Days /\ old.qty + e.qty \in Nat /\ (day = e.day \/ day = old.day)
      BY <2>3, <3>1
    <3> HIDE DEF old, day, new
    <3>4. new = [lot |-> old.lot, day |-> day, qty |-> old.qty + e.qty]
      BY <3>1, <3>2
    <3>5. new \in SliceRow /\ new.qty = old.qty + e.qty /\ new.day = day
      BY <3>1, <3>3, <3>4 DEF SliceRow
    <3>6. QED
      BY <3>3, <3>5 DEF old
  <2>5. a \in Seq(SliceRow) /\ DOMAIN a = D
    <3>1. \A i \in D : a[i] \in SliceRow
      BY <1>1, <2>4, <2>12
    <3>2. DOMAIN a = D
      BY <2>12
    <3>3. a = [i \in D |-> a[i]]
      BY DEF a
    <3>4. QED
      BY <1>1, <3>1, <3>2, <3>3, SeqByIndex
  <2>6. r[j] = q[j] + e.qty /\ \A i \in D \ {j} : r[i] = q[i]
    BY <2>2, <2>4, <2>12
  <2>7. q[j] \in Int /\ r[j] \in Int /\ e.qty \in Int
    BY <1>1, <2>2, <2>3, <2>6
  <2>8. HeldAll(a) = Total(r, D)
    BY <2>5 DEF HeldAll, Held
  <2> HIDE DEF r, a
  <2>9. Total(r, D) = Total(q, D) + (r[j] - q[j])
    <3>1. IsFiniteSet(D) /\ Ints(q, D) /\ j \in D
      BY <1>1, <2>2
    <3>2. \A i \in D \ {j} : r[i] = q[i]
      BY <2>6
    <3> HIDE DEF D, q
    <3>3. QED
      BY <2>7, <3>1, <3>2, TotalUpdate
  <2>10. HeldAll(a) = HeldAll(slices) + e.qty
    BY <1>1, <2>6, <2>7, <2>8, <2>9
  <2>11. DatesAnd(a, slices, e.day)
    BY <2>2, <2>4, <2>12 DEF DatesAnd
  <2>13. QED
    BY <2>1, <2>5, <2>10, <2>11
<1>3. CASE ~(e.lot # None /\ OfLot(slices, e.lot) # {})
  <2> DEFINE new == [lot |-> e.lot, day |-> e.day, qty |-> e.qty]
             a == Append(slices, new)
             E == 1..n + 1
             r == [i \in E |-> a[i].qty]
  <2>1. AddSlice(slices, e) = a
    BY <1>3 DEF AddSlice
  <2>2. new \in SliceRow /\ new.qty = e.qty /\ e.qty \in Nat
    BY DEF SliceRow, Slicable
  <2> HIDE DEF new
  <2>3. /\ a \in Seq(SliceRow) /\ DOMAIN a = E
        /\ a[n + 1] = new /\ \A i \in D : a[i] = slices[i]
    BY <1>1, <2>2
  <2> HIDE DEF a
  <2>4. n + 1 \in E /\ E \ {n + 1} = D /\ IsFiniteSet(E)
    <3>1. 1 \in Int /\ n + 1 \in Int
      BY <1>1
    <3>2. IsFiniteSet(E)
      BY <3>1, FS_Interval
    <3>3. QED
      BY <1>1, <3>2
  <2>5. r[n + 1] = e.qty /\ \A i \in D : r[i] = q[i]
    BY <2>2, <2>3, <2>4
  <2>6. Ints(r, E)
    <3>1. \A i \in D : q[i] \in Int
      BY <1>1 DEF Ints
    <3>2. \A i \in E : i = n + 1 \/ i \in D
      BY <2>4
    <3>4. e.qty \in Int
      BY <2>2
    <3>3. r[n + 1] \in Int /\ \A i \in D : r[i] \in Int
      <4> HIDE DEF r, D, q
      <4>1. QED
        BY <2>5, <3>1, <3>4
    <3> HIDE DEF r, D, E
    <3>5. \A i \in E : r[i] \in Int
      BY <3>2, <3>3
    <3>6. QED
      BY <3>5 DEF Ints
  <2>7. HeldAll(a) = Total(r, E)
    BY <2>3 DEF HeldAll, Held
  <2> HIDE DEF r, E
  <2>8. Total(r, E) = r[n + 1] + Total(r, D)
    <3>1. Total(r, E) = r[n + 1] + Total(r, E \ {n + 1})
      BY <2>4, <2>6, TotalTake
    <3>2. QED
      BY <2>4, <3>1
  <2>9. Total(r, D) = Total(q, D)
    <3> HIDE DEF D, q
    <3>1. QED
      BY <1>1, <2>5, TotalSame
  <2>10. HeldAll(a) = HeldAll(slices) + e.qty
    BY <1>1, <2>2, <2>5, <2>7, <2>8, <2>9
  <2>11. DatesAnd(a, slices, e.day)
    <3>1. new.day = e.day
      BY DEF new
    <3>2. \A i \in DOMAIN a : i = n + 1 \/ i \in D
      BY <2>3, <2>4
    <3>3. QED
      BY <2>3, <3>1, <3>2 DEF DatesAnd
  <2>12. QED
    BY <2>1, <2>3, <2>10, <2>11
<1>4. QED
  BY <1>2, <1>3

LEMMA ConsumeHolds ==
    ASSUME NEW slices \in Seq(SliceRow), NEW e, Slicable(e)
    PROVE  /\ ConsumeSlices(slices, e) \in Seq(SliceRow)
           /\ HeldAll(ConsumeSlices(slices, e))
                 = HeldAll(slices) - Smaller(e.qty, HeldAll(slices))
           /\ SameDates(ConsumeSlices(slices, e), slices)
<1> DEFINE D == DOMAIN slices
           own == IF e.lot = None THEN {} ELSE OfLot(slices, e.lot)
           older == [i \in D |-> 1..i - 1]
           first == Drain(slices, own, older, e.qty)
           more == Positive(e.qty - Held(slices, own))
           second == Drain(first, DOMAIN slices, older, more)
<1>1. /\ Len(slices) \in Nat /\ D = 1..Len(slices) /\ IsFiniteSet(D)
      /\ HeldAll(slices) \in Nat /\ Held(slices, own) \in Nat
      /\ own \in SUBSET D
  BY SlicesTyped DEF HeldAll, OfLot
<1>2. ConsumeSlices(slices, e) = second
  BY DEF ConsumeSlices
<1>3. older = Older(Len(slices)) /\ InTurn(own, older) /\ InTurn(D, older)
  <2>1. older = Older(Len(slices))
    BY <1>1 DEF Older
  <2>2. D \in SUBSET (1..Len(slices)) /\ own \in SUBSET (1..Len(slices))
    BY <1>1
  <2> HIDE DEF D, own, older
  <2>3. QED
    BY <1>1, <2>1, <2>2, OlderInTurn
<1>4. e.qty \in Nat
  BY DEF Slicable
<1> HIDE DEF own, older
<1>5. /\ first \in Seq(SliceRow) /\ DOMAIN first = D /\ SameDates(first, slices)
      /\ HeldAll(first) = HeldAll(slices) - Smaller(e.qty, Held(slices, own))
  <2>1. own \in SUBSET DOMAIN slices /\ InTurn(own, older)
    BY <1>1, <1>3
  <2>2. Drained(first, slices, own, e.qty)
    BY <1>4, <2>1, DrainTakes
  <2> HIDE DEF first
  <2>3. Held(first, D) = Held(slices, D) - Smaller(e.qty, Held(slices, own))
    BY <2>1, <2>2 DEF Drained
  <2>4. QED
    BY <2>2, <2>3 DEF HeldAll, Drained, SameDates
<1>6. Held(slices, own) <= HeldAll(slices)
  <2> DEFINE q == [i \in D |-> slices[i].qty]
  <2>1. Nats(q, D) /\ Held(slices, own) = Total(q, own) /\ HeldAll(slices) = Total(q, D)
    BY SlicesTyped DEF Held, HeldAll
  <2>2. IsFiniteSet(D) /\ own \in SUBSET D
    BY <1>1
  <2> HIDE DEF q, D
  <2>3. Total(q, own) <= Total(q, D)
    BY <2>1, <2>2, TotalMonotone
  <2>4. QED
    BY <2>1, <2>3
<1>7. more \in Nat
  BY <1>1, <1>4 DEF Positive
<1> HIDE DEF first, more
<1>8. /\ second \in Seq(SliceRow) /\ SameDates(second, first)
      /\ HeldAll(second) = HeldAll(first) - Smaller(more, HeldAll(first))
  <2>1. D \in SUBSET DOMAIN first
    BY <1>5
  <2>2. Drained(second, first, D, more)
    BY <1>3, <1>5, <1>7, <2>1, DrainTakes
  <2> HIDE DEF second
  <2>3. Held(second, D) = Held(first, D) - Smaller(more, Held(first, D))
    BY <2>1, <2>2 DEF Drained
  <2>4. QED
    BY <1>5, <2>2, <2>3 DEF HeldAll, Drained, SameDates
<1>9. HeldAll(second) = HeldAll(slices) - Smaller(e.qty, HeldAll(slices))
  <2> DEFINE all == HeldAll(slices)
             lot == Held(slices, own)
  <2>1. all \in Nat /\ lot \in Nat /\ lot <= all /\ e.qty \in Nat
    BY <1>1, <1>4, <1>6
  <2>2. /\ HeldAll(first) = all - Smaller(e.qty, lot)
        /\ HeldAll(second) = HeldAll(first) - Smaller(more, HeldAll(first))
        /\ more = Positive(e.qty - lot)
    BY <1>5, <1>8 DEF more
  <2> HIDE DEF second, all, lot
  <2>3. CASE e.qty <= lot
    <3>1. more = 0 /\ HeldAll(first) = all - e.qty
      BY <2>1, <2>2, <2>3 DEF Smaller, Positive
    <3>2. QED
      BY <2>1, <2>2, <2>3, <3>1 DEF Smaller, all
  <2>4. CASE ~(e.qty <= lot)
    <3>1. more = e.qty - lot /\ HeldAll(first) = all - lot
      BY <2>1, <2>2, <2>4 DEF Smaller, Positive
    <3>2. QED
      BY <2>1, <2>2, <2>4, <3>1 DEF Smaller, all
  <2>5. QED
    BY <2>3, <2>4
<1>10. SameDates(second, slices)
  BY <1>5, <1>8 DEF SameDates
<1>11. QED
  BY <1>2, <1>8, <1>9, <1>10

LEMMA RemoveHolds ==
    ASSUME NEW slices \in Seq(SliceRow), NEW e, Slicable(e)
    PROVE  /\ RemoveSlices(slices, e) \in Seq(SliceRow)
           /\ HeldAll(RemoveSlices(slices, e)) \in Nat
           /\ HeldAll(RemoveSlices(slices, e)) >= HeldAll(slices) - e.qty
           /\ SameDates(RemoveSlices(slices, e), slices)
<1> DEFINE D == DOMAIN slices
           own == IF e.lot = None THEN D ELSE OfLot(slices, e.lot)
           newer == [i \in D |-> i + 1..Len(slices)]
           left == Drain(slices, own, newer, e.qty)
<1>1. /\ Len(slices) \in Nat /\ D = 1..Len(slices)
      /\ HeldAll(slices) \in Nat /\ Held(slices, own) \in Nat
      /\ own \in SUBSET D
  BY SlicesTyped DEF HeldAll, OfLot
<1>2. RemoveSlices(slices, e) = left
  BY DEF RemoveSlices
<1>3. InTurn(own, newer)
  <2>1. newer = Newer(Len(slices))
    BY <1>1 DEF Newer
  <2>2. own \in SUBSET (1..Len(slices))
    BY <1>1
  <2> HIDE DEF own, newer
  <2>3. QED
    BY <1>1, <2>1, <2>2, NewerInTurn
<1>4. e.qty \in Nat
  BY DEF Slicable
<1> HIDE DEF own, newer
<1>5. /\ left \in Seq(SliceRow) /\ DOMAIN left = D /\ SameDates(left, slices)
      /\ HeldAll(left) = HeldAll(slices) - Smaller(e.qty, Held(slices, own))
  <2>1. own \in SUBSET DOMAIN slices /\ InTurn(own, newer)
    BY <1>1, <1>3
  <2>2. Drained(left, slices, own, e.qty)
    BY <1>4, <2>1, DrainTakes
  <2> HIDE DEF left
  <2>3. Held(left, D) = Held(slices, D) - Smaller(e.qty, Held(slices, own))
    BY <2>1, <2>2 DEF Drained
  <2>4. QED
    BY <2>2, <2>3 DEF HeldAll, Drained, SameDates
<1> HIDE DEF left
<1>6. HeldAll(left) \in Nat
  BY <1>5, SlicesTyped DEF HeldAll
<1>7. HeldAll(left) >= HeldAll(slices) - e.qty
  BY <1>1, <1>4, <1>5 DEF Smaller
<1>8. QED
  BY <1>2, <1>5, <1>6, <1>7

-----------------------------------------------------------------------------
(***************************************************************************)
(* Buckets                                                                 *)
(***************************************************************************)

Frac == [num : Int, den : Nat \ {0}]

LEMMA NoneApart ==
    /\ None \notin Nat /\ None \notin Lots
    /\ None \notin Frac /\ None \notin [day : Days, value : Int]
BY StockAssumption DEF StockAssumption, Frac

LEMMA FracFacts ==
    /\ \A n \in Int : Whole(n) \in Frac
    /\ \A f, g \in Frac : Plus(f, g) \in Frac
    /\ \A n \in Int, f \in Frac : Times(n, f) \in Frac
    /\ \A f \in Frac, n \in Int \ {0} : Over(f, n) \in Frac
<1>1. \A n \in Int : Whole(n) \in Frac
  BY DEF Whole, Frac
<1>2. \A x, y \in Nat \ {0} : x * y \in Nat \ {0}
  OBVIOUS
<1>3. \A x, y \in Int : x * y \in Int
  OBVIOUS
<1>4. \A f \in Frac : f.num \in Int /\ f.den \in Nat \ {0} /\ f.den \in Int
  BY DEF Frac
<1>5. ASSUME NEW f \in Frac, NEW g \in Frac PROVE Plus(f, g) \in Frac
  <2>1. f.num * g.den \in Int /\ g.num * f.den \in Int /\ f.den * g.den \in Nat \ {0}
    BY <1>2, <1>3, <1>4
  <2>2. f.num * g.den + g.num * f.den \in Int
    BY <2>1
  <2>3. QED
    BY <2>1, <2>2 DEF Plus, Frac
<1>6. ASSUME NEW n \in Int, NEW f \in Frac PROVE Times(n, f) \in Frac
  <2>1. n * f.num \in Int /\ f.den \in Nat \ {0}
    BY <1>3, <1>4
  <2>2. QED
    BY <2>1 DEF Times, Frac
<1>7. ASSUME NEW n \in Int \ {0}, NEW f \in Frac PROVE Over(f, n) \in Frac
  <2>1. CASE n > 0
    <3>1. n \in Nat \ {0} /\ f.den * n \in Nat \ {0} /\ f.num \in Int
      BY <1>2, <1>4, <2>1
    <3>2. QED
      BY <2>1, <3>1 DEF Over, Frac
  <2>2. CASE ~(n > 0)
    <3>1. -n \in Nat \ {0} /\ f.den * (-n) \in Nat \ {0} /\ -f.num \in Int
      BY <1>2, <1>4, <2>2
    <3>2. QED
      BY <2>2, <3>1 DEF Over, Frac
  <2>3. QED
    BY <2>1, <2>2
<1>8. QED
  BY <1>1, <1>5, <1>6, <1>7

\* What the lot book of a bucket says of it.
Covers(b)  == HeldAll(b.slices) >= b.balance
Matches(b) == b.firstNegative = None => b.balance >= 0 /\ HeldAll(b.slices) = b.balance

Alike(b, c) ==
    /\ c.balance = b.balance /\ c.slices = b.slices /\ c.firstNegative = b.firstNegative

\* The type of a bucket, in terms of the sets above.
BucketType ==
    [live : BOOLEAN, balance : Int, avg : Frac \union {None},
     captured : BOOLEAN, opening : Int, out : Int, cogs : Frac,
     negative : BOOLEAN,
     firstNegative : [day : Days, value : Int] \union {None},
     pre : [Ids -> Int \union {None}], daily : [Days -> Int],
     slices : Seq(SliceRow),
     lastOut : Days \union {None}, firstIn : Days \union {None},
     allQty : Int, allWeighted : Int]

LEMMA BucketIs == Bucket = BucketType
BY DEF Bucket, BucketType, Frac, SliceRow

LEMMA BucketParts ==
    ASSUME NEW b \in Bucket
    PROVE  /\ b.balance \in Int /\ b.slices \in Seq(SliceRow) /\ HeldAll(b.slices) \in Nat
           /\ b.avg \in Frac \union {None} /\ b.cogs \in Frac
           /\ b.opening \in Int /\ b.out \in Int /\ b.allQty \in Int /\ b.allWeighted \in Int
           /\ b.pre \in [Ids -> Int \union {None}] /\ b.daily \in [Days -> Int]
           /\ b.firstNegative \in [day : Days, value : Int] \union {None}
           /\ b.lastOut \in Days \union {None} /\ b.firstIn \in Days \union {None}
           /\ b.live \in BOOLEAN /\ b.captured \in BOOLEAN /\ b.negative \in BOOLEAN
<1>1. b.slices \in Seq(SliceRow)
  BY DEF Bucket, SliceRow
<1>2. HeldAll(b.slices) \in Nat
  BY <1>1, SlicesTyped DEF HeldAll
<1>3. QED
  BY <1>1, <1>2 DEF Bucket, Frac

LEMMA NewBucketType == NewBucket \in Bucket /\ Matches(NewBucket) /\ Covers(NewBucket)
<1>1. Whole(0) \in Frac
  BY FracFacts
<1>2. << >> \in Seq(SliceRow)
  OBVIOUS
<1>3. [i \in Ids |-> None] \in [Ids -> Int \union {None}] /\ [d \in Days |-> 0] \in [Days -> Int]
  OBVIOUS
<1>4. NewBucket \in Bucket
  BY <1>1, <1>2, <1>3 DEF NewBucket, Bucket, Frac, SliceRow
<1>5. HeldAll(NewBucket.slices) = 0
  BY TotalOfNone DEF HeldAll, Held, NewBucket
<1>6. NewBucket.balance = 0
  BY DEF NewBucket
<1>7. QED
  BY <1>4, <1>5, <1>6 DEF Matches, Covers

LEMMA CapturedType ==
    ASSUME NEW b \in Bucket
    PROVE  Captured(b) \in Bucket /\ Alike(b, Captured(b))
<1>1. CASE b.captured
  BY <1>1 DEF Captured, Alike
<1>2. CASE ~b.captured
  <2> DEFINE below == b.negative \/ b.balance < 0
  <2>1. below \in BOOLEAN /\ b.balance \in Int
    BY BucketParts
  <2>2. Captured(b) = [b EXCEPT !.captured = TRUE, !.opening = b.balance, !.negative = below]
    BY <1>2 DEF Captured, Bucket
  <2> HIDE DEF below
  <2>3. Captured(b) \in Bucket
    <3>1. b \in BucketType
      BY BucketIs
    <3>2. [b EXCEPT !.captured = TRUE, !.opening = b.balance, !.negative = below] \in BucketType
      BY <2>1, <3>1 DEF BucketType
    <3>3. QED
      BY <2>2, <3>2, BucketIs
  <2>4. Alike(b, Captured(b))
    BY <2>2 DEF Bucket, Alike
  <2>5. QED
    BY <2>3, <2>4
<1>3. QED
  BY <1>1, <1>2

\* What the replay needs of an event.
Booked(e) == Slicable(e) /\ e.cost \in Nat \union {None}

LEMMA NewAvgType ==
    ASSUME NEW b \in Bucket, NEW e, Booked(e), NEW sign \in {1, -1}
    PROVE  NewAvg(b, e, sign) \in Frac \union {None}
<1>1. /\ b.balance \in Int /\ b.avg \in Frac \union {None}
      /\ e.cost \in Nat \union {None} /\ e.qty \in Nat /\ sign \in Int
  BY BucketParts DEF Booked, Slicable
<1>2. CASE e.cost = None \/ b.avg = None \/ b.balance + sign * e.qty = 0
  <2>1. e.cost # None => Whole(e.cost) \in Frac
    BY <1>1, FracFacts
  <2>2. QED
    BY <1>1, <1>2, <2>1 DEF NewAvg
<1>3. CASE e.cost # None /\ b.avg # None /\ b.balance + sign * e.qty # 0
  <2> DEFINE n == b.balance + sign * e.qty
             w == sign * e.qty * e.cost
  <2>1. n \in Int \ {0} /\ w \in Int /\ b.avg \in Frac
    BY <1>1, <1>3
  <2>2. NewAvg(b, e, sign) = Over(Plus(Times(b.balance, b.avg), Whole(w)), n)
    BY <1>3 DEF NewAvg
  <2> HIDE DEF n, w
  <2>3. Times(b.balance, b.avg) \in Frac /\ Whole(w) \in Frac
    BY <1>1, <2>1, FracFacts
  <2>4. Plus(Times(b.balance, b.avg), Whole(w)) \in Frac
    BY <2>3, FracFacts
  <2>5. QED
    BY <2>1, <2>2, <2>4, FracFacts
<1>4. QED
  BY <1>2, <1>3

LEMMA ReceivedType ==
    ASSUME NEW b \in Bucket, NEW e, Booked(e), NEW sign \in {1, -1}
    PROVE  /\ Received(b, e, sign) \in Bucket
           /\ Received(b, e, sign).firstNegative = b.firstNegative
           /\ Received(b, e, sign).balance = b.balance + sign * e.qty
           /\ sign = 1 => HeldAll(Received(b, e, sign).slices) = HeldAll(b.slices) + e.qty
           /\ sign = -1 => HeldAll(Received(b, e, sign).slices) >= HeldAll(b.slices) - e.qty
<1> DEFINE avg == NewAvg(b, e, sign)
           slices == IF sign = 1 THEN AddSlice(b.slices, e) ELSE RemoveSlices(b.slices, e)
           first == IF sign = 1 /\ (b.firstIn = None \/ e.day < b.firstIn)
                    THEN e.day ELSE b.firstIn
           balance == b.balance + sign * e.qty
           all == b.allQty + sign * e.qty
           weighted == b.allWeighted + sign * e.qty * e.day
<1>1. /\ b.slices \in Seq(SliceRow) /\ b.firstIn \in Days \union {None}
      /\ b.balance \in Int /\ b.allQty \in Int /\ b.allWeighted \in Int /\ sign \in Int
      /\ Slicable(e) /\ e.qty \in Int /\ e.day \in Int /\ e.day \in Days
  BY BucketParts, StockAssumption DEF Booked, Slicable, Days, StockAssumption
<1>2. balance \in Int /\ all \in Int /\ weighted \in Int
  <2> DEFINE moved == sign * e.qty
             weight == moved * e.day
  <2>1. moved \in Int
    BY <1>1
  <2>2. weight \in Int
    <3> HIDE DEF moved
    <3>1. QED
      BY <1>1, <2>1
  <2>3. balance = b.balance + moved /\ all = b.allQty + moved /\ weighted = b.allWeighted + weight
    OBVIOUS
  <2> HIDE DEF moved, weight, balance, all, weighted
  <2>4. b.balance \in Int /\ b.allQty \in Int /\ b.allWeighted \in Int
    BY <1>1
  <2>5. balance \in Int
    BY <2>1, <2>3, <2>4
  <2>6. all \in Int
    BY <2>1, <2>3, <2>4
  <2>7. weighted \in Int
    BY <2>2, <2>3, <2>4
  <2>8. QED
    BY <2>5, <2>6, <2>7
<1>3. first \in Days \union {None}
  BY <1>1
<1>4. avg \in Frac \union {None}
  BY NewAvgType
<1>5. /\ slices \in Seq(SliceRow)
      /\ sign = 1 => HeldAll(slices) = HeldAll(b.slices) + e.qty
      /\ sign = -1 => HeldAll(slices) >= HeldAll(b.slices) - e.qty
  <2>1. CASE sign = 1
    BY <1>1, <2>1, AddSliceHolds
  <2>2. CASE sign = -1
    <3>1. slices = RemoveSlices(b.slices, e) /\ sign # 1
      BY <2>2
    <3>2. /\ RemoveSlices(b.slices, e) \in Seq(SliceRow)
          /\ HeldAll(RemoveSlices(b.slices, e)) >= HeldAll(b.slices) - e.qty
      BY <1>1, RemoveHolds
    <3> HIDE DEF slices
    <3>3. QED
      BY <3>1, <3>2
  <2>3. QED
    BY <2>1, <2>2
<1>6. Received(b, e, sign)
        = [b EXCEPT !.avg = avg, !.balance = balance, !.allQty = all,
                    !.allWeighted = weighted, !.slices = slices, !.firstIn = first]
  BY DEF Received, Bucket
<1> HIDE DEF avg, balance, all, weighted, slices, first
<1>7. Received(b, e, sign) \in Bucket
  <2> DEFINE c == [b EXCEPT !.avg = avg, !.slices = slices, !.firstIn = first]
             d == [c EXCEPT !.balance = balance, !.allQty = all, !.allWeighted = weighted]
  <2>1. b \in BucketType
    BY BucketIs
  <2>2. c \in BucketType
    BY <1>3, <1>4, <1>5, <2>1 DEF BucketType
  <2>3. Received(b, e, sign) = d
    BY <1>6, <2>1 DEF BucketType
  <2> HIDE DEF c
  <2>4. d \in BucketType
    BY <1>2, <2>2 DEF BucketType
  <2>5. QED
    BY <2>3, <2>4, BucketIs
<1>8. /\ Received(b, e, sign).slices = slices /\ Received(b, e, sign).balance = balance
      /\ Received(b, e, sign).firstNegative = b.firstNegative
  BY <1>6 DEF Bucket
<1>9. QED
  BY <1>5, <1>7, <1>8 DEF balance

LEMMA IssuedType ==
    ASSUME NEW b \in Bucket, NEW e, Booked(e), NEW sign \in {1, -1}
    PROVE  /\ Issued(b, e, sign) \in Bucket
           /\ Issued(b, e, sign).firstNegative = b.firstNegative
           /\ sign = 1 =>
                 /\ Issued(b, e, sign).balance = b.balance - e.qty
                 /\ HeldAll(Issued(b, e, sign).slices)
                       = HeldAll(b.slices) - Smaller(e.qty, HeldAll(b.slices))
<1> DEFINE slices == IF sign = 1 THEN ConsumeSlices(b.slices, e) ELSE b.slices
           last == IF sign = 1 /\ (b.lastOut = None \/ e.day > b.lastOut)
                   THEN e.day ELSE b.lastOut
           balance == b.balance - sign * e.qty
<1>1. /\ b.slices \in Seq(SliceRow) /\ b.lastOut \in Days \union {None}
      /\ b.balance \in Int /\ sign \in Int
      /\ Slicable(e) /\ e.qty \in Int /\ e.day \in Days
  BY BucketParts DEF Booked, Slicable
<1>2. balance \in Int /\ (sign = 1 => balance = b.balance - e.qty)
  BY <1>1
<1>3. last \in Days \union {None}
  BY <1>1
<1>4. /\ slices \in Seq(SliceRow)
      /\ sign = 1 => HeldAll(slices) = HeldAll(b.slices) - Smaller(e.qty, HeldAll(b.slices))
  <2>1. CASE sign = 1
    BY <1>1, <2>1, ConsumeHolds
  <2>2. CASE sign # 1
    BY <1>1, <2>2
  <2>3. QED
    BY <2>1, <2>2
<1>5. Issued(b, e, sign) = [b EXCEPT !.balance = balance, !.slices = slices, !.lastOut = last]
  BY DEF Issued, Bucket
<1> HIDE DEF balance, slices, last
<1>6. Issued(b, e, sign) \in Bucket
  <2>1. b \in BucketType
    BY BucketIs
  <2>2. [b EXCEPT !.balance = balance, !.slices = slices, !.lastOut = last] \in BucketType
    BY <1>2, <1>3, <1>4, <2>1 DEF BucketType
  <2>3. QED
    BY <1>5, <2>2, BucketIs
<1>7. /\ Issued(b, e, sign).slices = slices /\ Issued(b, e, sign).balance = balance
      /\ Issued(b, e, sign).firstNegative = b.firstNegative
  BY <1>5 DEF Bucket
<1>8. QED
  BY <1>2, <1>4, <1>6, <1>7

LEMMA CountedType ==
    ASSUME NEW b \in Bucket, NEW i \in Ids, NEW e, Booked(e), NEW sign \in {1, -1}
    PROVE  /\ Counted(b, i, e, sign) \in Bucket
           /\ Counted(b, i, e, sign).firstNegative = b.firstNegative
<1>1. /\ b.balance \in Int /\ b.pre \in [Ids -> Int \union {None}] /\ e.qty \in Int
  BY BucketParts DEF Booked, Slicable
<1>2. CASE sign = 1
  <2> DEFINE pre == [b.pre EXCEPT ![i] = b.balance]
  <2>1. pre \in [Ids -> Int \union {None}] /\ << >> \in Seq(SliceRow)
    BY <1>1
  <2>2. Counted(b, i, e, sign) = [b EXCEPT !.pre = pre, !.balance = e.qty, !.slices = << >>]
    BY <1>2 DEF Counted, Bucket
  <2> HIDE DEF pre
  <2>3. Counted(b, i, e, sign) \in Bucket
    <3>1. b \in BucketType
      BY BucketIs
    <3>2. [b EXCEPT !.pre = pre, !.balance = e.qty, !.slices = << >>] \in BucketType
      BY <1>1, <2>1, <3>1 DEF BucketType
    <3>3. QED
      BY <2>2, <3>2, BucketIs
  <2>4. Counted(b, i, e, sign).firstNegative = b.firstNegative
    BY <2>2 DEF Bucket
  <2>5. QED
    BY <2>3, <2>4
<1>3. CASE sign # 1 /\ b.pre[i] = None
  BY <1>3 DEF Counted
<1>4. CASE sign # 1 /\ b.pre[i] # None
  <2> DEFINE n == b.balance - (e.qty - b.pre[i])
  <2>1. n \in Int
    BY <1>1, <1>4
  <2>2. Counted(b, i, e, sign) = [b EXCEPT !.balance = n]
    BY <1>4 DEF Counted, Bucket
  <2> HIDE DEF n
  <2>3. Counted(b, i, e, sign) \in Bucket
    <3>1. b \in BucketType
      BY BucketIs
    <3>2. [b EXCEPT !.balance = n] \in BucketType
      BY <2>1, <3>1 DEF BucketType
    <3>3. QED
      BY <2>2, <3>2, BucketIs
  <2>4. QED
    BY <2>2, <2>3 DEF Bucket
<1>5. QED
  BY <1>2, <1>3, <1>4

LEMMA OutDeltaType ==
    ASSUME NEW e, Booked(e), NEW sign \in {1, -1}, NEW counts \in BOOLEAN
    PROVE  OutDelta(e, sign, counts) \in Int
<1>1. e.qty \in Int /\ sign \in Int
  BY DEF Booked, Slicable
<1>2. sign * e.qty \in Int /\ -(sign * e.qty) \in Int
  BY <1>1
<1>3. QED
  BY <1>2 DEF OutDelta

LEMMA ChargedType ==
    ASSUME NEW b \in Bucket, NEW delta \in Int, NEW day \in Days
    PROVE  Charged(b, delta, day) \in Bucket /\ Alike(b, Charged(b, delta, day))
<1> DEFINE out == b.out + delta
           cogs == IF b.avg = None THEN b.cogs ELSE Plus(b.cogs, Times(delta, b.avg))
           daily == [b.daily EXCEPT ![day] = @ + delta]
<1>1. /\ b.out \in Int /\ b.cogs \in Frac /\ b.avg \in Frac \union {None}
      /\ b.daily \in [Days -> Int]
  BY BucketParts
<1>2. out \in Int /\ daily \in [Days -> Int]
  BY <1>1
<1>3. cogs \in Frac
  <2>1. CASE b.avg = None
    BY <1>1, <2>1
  <2>2. CASE b.avg # None
    <3>1. Times(delta, b.avg) \in Frac
      BY <1>1, <2>2, FracFacts
    <3>2. QED
      BY <1>1, <2>2, <3>1, FracFacts
  <2>3. QED
    BY <2>1, <2>2
<1>4. Charged(b, delta, day) = [b EXCEPT !.out = out, !.cogs = cogs, !.daily = daily]
  BY DEF Charged, Bucket
<1> HIDE DEF out, cogs, daily
<1>5. Charged(b, delta, day) \in Bucket
  <2>1. b \in BucketType
    BY BucketIs
  <2>2. [b EXCEPT !.out = out, !.cogs = cogs, !.daily = daily] \in BucketType
    BY <1>2, <1>3, <2>1 DEF BucketType
  <2>3. QED
    BY <1>4, <2>2, BucketIs
<1>6. Alike(b, Charged(b, delta, day))
  BY <1>4 DEF Alike, Bucket
<1>7. QED
  BY <1>5, <1>6

LEMMA TrackedType ==
    ASSUME NEW b \in Bucket, NEW day \in Days, NEW in \in BOOLEAN
    PROVE  /\ Tracked(b, day, in) \in Bucket
           /\ Tracked(b, day, in).balance = b.balance /\ Tracked(b, day, in).slices = b.slices
           /\ Tracked(b, day, in).firstNegative = None
                 => b.firstNegative = None /\ b.balance >= 0
<1>1. CASE b.balance >= 0
  BY <1>1 DEF Tracked
<1>2. CASE ~(b.balance >= 0)
  <2> DEFINE row == [day |-> day, value |-> b.balance]
             first == IF b.firstNegative = None THEN row ELSE b.firstNegative
             negative == b.negative \/ in
  <2>1. /\ b.balance \in Int /\ negative \in BOOLEAN
        /\ b.firstNegative \in [day : Days, value : Int] \union {None}
    BY BucketParts
  <2>2. row \in [day : Days, value : Int]
    BY <2>1
  <2> HIDE DEF row
  <2>3. first \in [day : Days, value : Int] \union {None} /\ first # None
    BY <2>1, <2>2, NoneApart
  <2>4. Tracked(b, day, in) = [b EXCEPT !.firstNegative = first, !.negative = negative]
    BY <1>2 DEF Tracked, Bucket, row
  <2> HIDE DEF first, negative
  <2>5. Tracked(b, day, in) \in Bucket
    BY <2>1, <2>3, <2>4, BucketIs DEF BucketType
  <2>6. /\ Tracked(b, day, in).balance = b.balance /\ Tracked(b, day, in).slices = b.slices
        /\ Tracked(b, day, in).firstNegative = first
    BY <2>4 DEF Bucket
  <2>7. QED
    BY <2>3, <2>5, <2>6
<1>3. QED
  BY <1>1, <1>2

\* The tail of an iteration: the bucket is live, its quantities stay, and a
\* negative balance is remembered.
LEMMA TailType ==
    ASSUME NEW a \in Bucket, NEW delta \in Int, NEW day \in Days, NEW in \in BOOLEAN, NEW b,
           b = Tracked([Charged(a, delta, day) EXCEPT !.live = TRUE], day, in)
    PROVE  /\ b \in Bucket
           /\ b.balance = a.balance /\ b.slices = a.slices
           /\ b.firstNegative = None => a.firstNegative = None /\ a.balance >= 0
<1> DEFINE c == Charged(a, delta, day)
           l == [c EXCEPT !.live = TRUE]
<1>1. c \in Bucket /\ Alike(a, c)
  BY ChargedType
<1> HIDE DEF c
<1>2. l \in Bucket /\ Alike(c, l)
  BY <1>1 DEF Bucket, Alike
<1> HIDE DEF l
<1>3. b = Tracked(l, day, in)
  BY DEF c, l
<1>4. /\ Tracked(l, day, in) \in Bucket
      /\ Tracked(l, day, in).balance = l.balance /\ Tracked(l, day, in).slices = l.slices
      /\ Tracked(l, day, in).firstNegative = None => l.firstNegative = None /\ l.balance >= 0
  BY <1>2, TrackedType
<1>5. QED
  BY <1>1, <1>2, <1>3, <1>4 DEF Alike

-----------------------------------------------------------------------------
(***************************************************************************)
(* The dataset                                                             *)
(***************************************************************************)

\* A row of inventory_event, and a movement of the dataset.
Entry == [move : LocalMoves, sku : Skus, wh : Warehouses, lot : Lots \union {None},
          qty : Nat \ {0}, cost : Nat \union {None}, day : Days, rev : Nat \union {None}]
Moves == {"INBOUND", "OUTBOUND", "RETURN", "SCRAP", "STOCKTAKE", "TRANSFER", "REVERSAL"}
Moved == [move : Moves, sku : Skus, wh : Warehouses, lot : Lots \union {None},
          qty : Nat \ {0}, cost : Nat \union {None}, day : Days, rev : Nat \union {None}]

IsChain(i, f) ==
    f = [k \in 0..MaxEvents |->
            IF k = 0 THEN i
            ELSE IF f[k - 1] # None /\ f[k - 1] \in DOMAIN dataset
                 THEN IF dataset[f[k - 1]].move = "REVERSAL"
                      THEN dataset[f[k - 1]].rev ELSE f[k - 1]
                 ELSE None]

\* An event that is no reversal is its own origin and stands for itself.
LEMMA OwnOrigin ==
    ASSUME NEW i \in DOMAIN dataset, i # None, ~Reverses(i)
    PROVE  Origin(i) = i /\ SignOf(i) = 1
<1> DEFINE still == [k \in 0..MaxEvents |-> i]
           D == 0..MaxEvents
<1>1. MaxEvents \in Nat
  BY StockAssumption DEF StockAssumption
<1>2. IsChain(i, still)
  <2>1. ASSUME NEW k \in D, k # 0
        PROVE  still[k - 1] = i
    BY <1>1, <2>1
  <2>2. dataset[i].move # "REVERSAL"
    BY DEF Reverses
  <2>3. \A k \in D : still[k] =
            IF k = 0 THEN i
            ELSE IF still[k - 1] # None /\ still[k - 1] \in DOMAIN dataset
                 THEN IF dataset[still[k - 1]].move = "REVERSAL"
                      THEN dataset[still[k - 1]].rev ELSE still[k - 1]
                 ELSE None
    BY <2>1, <2>2
  <2> HIDE DEF still
  <2>4. still = [k \in D |-> still[k]]
    BY DEF still
  <2>5. QED
    BY <2>3, <2>4 DEF IsChain
<1>3. Chain(i) = CHOOSE f : IsChain(i, f)
  BY DEF Chain, IsChain
<1>4. IsChain(i, Chain(i))
  BY <1>2, <1>3
<1> DEFINE f == Chain(i)
           Good == {k \in Nat : k \in D => f[k] = i}
<1> HIDE DEF f, still
<1>5. ASSUME NEW k \in D
      PROVE  f[k] = IF k = 0 THEN i
                    ELSE IF f[k - 1] # None /\ f[k - 1] \in DOMAIN dataset
                         THEN IF dataset[f[k - 1]].move = "REVERSAL"
                              THEN dataset[f[k - 1]].rev ELSE f[k - 1]
                         ELSE None
  BY <1>4 DEF f, IsChain
<1>6. 0 \in Good
  <2>1. 0 \in D
    BY <1>1
  <2>2. QED
    BY <1>5, <2>1
<1>7. ASSUME NEW k \in Nat, k \in Good
      PROVE  k + 1 \in Good
  <2>1. CASE k + 1 \in D
    <3>1. k \in D /\ k + 1 # 0 /\ (k + 1) - 1 = k
      BY <1>1, <2>1
    <3>2. f[k] = i
      BY <1>7, <3>1
    <3>3. f[k + 1] = i
      BY <1>5, <2>1, <3>1, <3>2 DEF Reverses
    <3>4. QED
      BY <3>3
  <2>2. CASE k + 1 \notin D
    BY <2>2
  <2>3. QED
    BY <2>1, <2>2
<1> HIDE DEF Good
<1>8. Nat \subseteq Good
  BY <1>6, <1>7, NatSetInduction
<1>9. \A k \in D : f[k] = i
  BY <1>1, <1>8 DEF Good
<1>10. Origin(i) = i
  <2>1. MaxEvents \in D
    BY <1>1
  <2>2. QED
    BY <1>9, <2>1 DEF Origin, f
<1>11. Layers(i) = {}
  <2>1. \A k \in 0..MaxEvents - 1 : k \in D
    BY <1>1
  <2>2. \A k \in 0..MaxEvents - 1 : dataset[Chain(i)[k]].move # "REVERSAL"
    BY <1>9, <2>1 DEF f, Reverses
  <2>3. QED
    BY <2>2 DEF Layers
<1>12. SignOf(i) = 1
  <2>1. Cardinality({}) = 0
    BY FS_EmptySet
  <2>2. 0 % 2 = 0
    OBVIOUS
  <2>3. QED
    BY <1>11, <2>1, <2>2 DEF SignOf
<1>13. QED
  BY <1>10, <1>12

LEMMA SignIsOne == \A i : SignOf(i) \in {1, -1}
BY DEF SignOf

-----------------------------------------------------------------------------
(***************************************************************************)
(* The invariant                                                           *)
(***************************************************************************)

Rows ==
    /\ ledger \in Seq(Entry) /\ Len(ledger) <= MaxEvents
    /\ \A i \in DOMAIN dataset : dataset[i] \in Moved

\* Outside a replay there is nothing to replay, and its buckets are new.
FreshInv ==
    /\ pc # "replay" => pending = {}
    /\ pc \notin {"replay", "done"} => buckets = [k \in Keys |-> NewBucket]

ReplayInv ==
    /\ pc \in {"replay", "done"} => ReversalsResolve
    /\ \A i \in pending : InHorizon(dataset[i])

\* Nothing is counted in bucket k, and no outbound undone, or nothing at all.
Uncounted(k) == \A i \in Touching(k) : dataset[Origin(i)].move # "STOCKTAKE"
Plain(k) == /\ Uncounted(k)
            /\ \A i \in Touching(k) : Reverses(i) => dataset[Origin(i)].move \in Inbound
Clean(k) == /\ Uncounted(k)
            /\ \A i \in Touching(k) : ~Reverses(i)

BookInv ==
    pc \in {"replay", "done"} =>
        \A k \in Keys : /\ Plain(k) => Covers(buckets[k])
                        /\ Clean(k) => Matches(buckets[k])

StockIInv == TypeOK /\ Rows /\ FreshInv /\ ReplayInv /\ BookInv

LEMMA RowFacts ==
    ASSUME TypeOK, Rows
    PROVE  /\ Len(ledger) \in Nat /\ DOMAIN ledger = 1..Len(ledger)
           /\ DOMAIN dataset \subseteq DOMAIN ledger /\ DOMAIN dataset \subseteq Ids
           /\ \A i \in DOMAIN ledger : ledger[i] \in Entry
           /\ \A i \in DOMAIN dataset : dataset[i] \in Moved /\ i # None
<1>1. /\ Len(ledger) \in Nat /\ DOMAIN ledger = 1..Len(ledger)
      /\ \A i \in DOMAIN ledger : ledger[i] \in Entry
  BY DEF Rows
<1>2. DOMAIN dataset \subseteq DOMAIN ledger
  BY DEF TypeOK
<1>3. DOMAIN ledger \subseteq Ids /\ \A i \in DOMAIN ledger : i \in Nat
  BY <1>1, StockAssumption DEF Rows, Ids, StockAssumption
<1>4. QED
  BY <1>1, <1>2, <1>3, NoneApart DEF Rows

LEMMA MovedFacts ==
    ASSUME NEW e \in Moved
    PROVE  /\ Booked(e) /\ e.move \in Moves /\ e.sku \in Skus /\ e.wh \in Warehouses
           /\ e.day \in Days /\ e.cost \in Nat \union {None}
BY DEF Moved, Booked, Slicable

\* What holds of an event whose turn it is.
LEMMA TurnFacts ==
    ASSUME StockIInv, NEW i \in pending, Turn(i)
    PROVE  /\ pc = "replay" /\ i \in DOMAIN dataset /\ dataset[i] \in Moved
           /\ Origin(i) \in DOMAIN dataset /\ Origin(i) \in Ids
           /\ dataset[Origin(i)] \in Moved /\ dataset[Origin(i)].move # "REVERSAL"
           /\ KeyOf(i) \in Keys
           /\ Opened(i) \in Bucket /\ Alike(buckets[KeyOf(i)], Opened(i))
           /\ InHorizon(dataset[Origin(i)]) => i \in Touching(KeyOf(i))
<1>1. pc = "replay" /\ i \in DOMAIN dataset /\ InHorizon(dataset[i])
  BY DEF StockIInv, ReplayInv, Turn, TypeOK
<1>2. ReversalsResolve
  BY <1>1 DEF StockIInv, ReplayInv
<1>3. Origin(i) \in DOMAIN dataset /\ dataset[Origin(i)].move # "REVERSAL"
  BY <1>1, <1>2 DEF ReversalsResolve
<1>4. dataset[i] \in Moved /\ dataset[Origin(i)] \in Moved /\ Origin(i) \in Ids
  BY <1>1, <1>3, RowFacts DEF StockIInv
<1>5. KeyOf(i) \in Keys
  BY <1>4, MovedFacts DEF KeyOf, Keys
<1>6. buckets[KeyOf(i)] \in Bucket
  BY <1>5 DEF StockIInv, TypeOK
<1>7. Opened(i) \in Bucket /\ Alike(buckets[KeyOf(i)], Opened(i))
  <2>1. CASE InPeriod(dataset[i])
    BY <1>6, <2>1, CapturedType DEF Opened
  <2>2. CASE ~InPeriod(dataset[i])
    BY <1>6, <2>2 DEF Opened, Alike
  <2>3. QED
    BY <2>1, <2>2
<1>8. InHorizon(dataset[Origin(i)]) => i \in Touching(KeyOf(i))
  BY <1>1 DEF Touching, Horizon
<1>9. QED
  BY <1>1, <1>3, <1>4, <1>5, <1>7, <1>8

\* While the dataset and the request stay, the events of a bucket do.
LEMMA SameEvents ==
    ASSUME dataset' = dataset, request' = request
    PROVE  /\ ReversalsResolve' <=> ReversalsResolve
           /\ \A i : InHorizon(dataset[i])' <=> InHorizon(dataset[i])
           /\ \A k : (Plain(k)' <=> Plain(k)) /\ (Clean(k)' <=> Clean(k))
<1>1. ReversalsResolve' <=> ReversalsResolve
  BY DEF ReversalsResolve, Origin, Chain
<1>2. \A i : InHorizon(dataset[i])' <=> InHorizon(dataset[i])
  BY DEF InHorizon, InScope
<1>3. ASSUME NEW k PROVE (Plain(k)' <=> Plain(k)) /\ (Clean(k)' <=> Clean(k))
  <2>1. Touching(k)' = Touching(k)
    BY DEF Touching, Horizon, InHorizon, InScope, Origin, Chain, KeyOf
  <2>2. ASSUME NEW i
        PROVE  Origin(i)' = Origin(i) /\ (Reverses(i)' <=> Reverses(i))
    BY DEF Origin, Chain, Reverses
  <2>3. QED
    BY <2>1, <2>2 DEF Plain, Clean, Uncounted
<1>4. QED
  BY <1>1, <1>2, <1>3

\* A step of the replay, from what it does to the bucket of its event.
LEMMA AdvanceKeeps ==
    ASSUME StockIInv, NEW i \in pending, Turn(i), NEW a \in Bucket, NEW delta \in Int,
           Advance(i, a, delta), missingCost' \subseteq Skus,
           Plain(KeyOf(i)) /\ Covers(buckets[KeyOf(i)]) => Covers(a),
           Clean(KeyOf(i)) /\ Matches(buckets[KeyOf(i)]) /\ a.firstNegative = None
                 /\ a.balance >= 0
               => HeldAll(a.slices) = a.balance
    PROVE  StockIInv'
<1> DEFINE e == dataset[i]
           k == KeyOf(i)
           in == InPeriod(e)
           b == Tracked([Charged(a, delta, e.day) EXCEPT !.live = TRUE], e.day, in)
<1>1. /\ pc = "replay" /\ i \in DOMAIN dataset /\ e \in Moved /\ k \in Keys
  BY TurnFacts
<1>2. /\ buckets' = [buckets EXCEPT ![k] = b]
      /\ lastCost' = IF e.move \in Inbound /\ e.cost # None
                     THEN [lastCost EXCEPT ![e.sku] = e.cost] ELSE lastCost
      /\ pending' = pending \ {i}
      /\ UNCHANGED <<ledger, pc, local, request, dataset>>
  BY DEF Advance
<1>3. /\ b \in Bucket /\ b.balance = a.balance /\ b.slices = a.slices
      /\ b.firstNegative = None => a.firstNegative = None /\ a.balance >= 0
  <2>1. e.day \in Days /\ in \in BOOLEAN
    BY <1>1, MovedFacts DEF InPeriod
  <2> HIDE DEF e, in
  <2>2. QED
    BY <2>1, TailType
<1> HIDE DEF b, k, e
<1>4. buckets \in [Keys -> Bucket] /\ lastCost \in [Skus -> Nat \union {None}]
  BY DEF StockIInv, TypeOK
<1>5. buckets' \in [Keys -> Bucket] /\ buckets'[k] = b
      /\ \A c \in Keys \ {k} : buckets'[c] = buckets[c]
  BY <1>1, <1>2, <1>3, <1>4
<1>6. lastCost' \in [Skus -> Nat \union {None}]
  BY <1>1, <1>2, <1>4, MovedFacts
<1>7. TypeOK'
  BY <1>2, <1>5, <1>6 DEF StockIInv, TypeOK
<1>8. Rows' /\ FreshInv'
  BY <1>1, <1>2 DEF StockIInv, Rows, FreshInv
<1>9. ReplayInv'
  BY <1>1, <1>2, SameEvents DEF StockIInv, ReplayInv
<1>10. BookInv'
  <2> SUFFICES ASSUME NEW c \in Keys
               PROVE  (Plain(c) => Covers(buckets'[c])) /\ (Clean(c) => Matches(buckets'[c]))
    BY <1>2, SameEvents DEF BookInv, Covers, Matches
  <2>1. (Plain(c) => Covers(buckets[c])) /\ (Clean(c) => Matches(buckets[c]))
    BY <1>1 DEF StockIInv, BookInv
  <2>2. CASE c # k
    BY <1>5, <2>1, <2>2
  <2>3. CASE c = k
    <3>1. Plain(c) => Covers(a)
      BY <2>1, <2>3 DEF k
    <3>2. Clean(c) /\ a.firstNegative = None /\ a.balance >= 0
            => HeldAll(a.slices) = a.balance
      BY <2>1, <2>3 DEF k
    <3>3. buckets'[c] = b
      BY <1>5, <2>3
    <3>4. Plain(c) => Covers(b)
      BY <1>3, <3>1 DEF Covers
    <3>5. Clean(c) => Matches(b)
      BY <1>3, <3>2 DEF Matches
    <3>6. QED
      BY <3>3, <3>4, <3>5
  <2>4. QED
    BY <2>2, <2>3
<1>11. QED
  BY <1>7, <1>8, <1>9, <1>10 DEF StockIInv

LEMMA InboundKeeps ==
    ASSUME StockIInv, NEW i \in pending, ReplayInbound(i)
    PROVE  StockIInv'
<1> DEFINE base == dataset[Origin(i)]
           k == KeyOf(i)
           in == InPeriod(base)
           a == Received(Opened(i), base, SignOf(i))
           delta == OutDelta(base, SignOf(i), in)
<1>1. /\ Turn(i) /\ InHorizon(base) /\ base.move \in Inbound
      /\ Advance(i, a, delta) /\ missingCost' = missingCost
  BY DEF ReplayInbound
<1>2. /\ i \in DOMAIN dataset /\ Booked(base) /\ i # None /\ k \in Keys
      /\ Opened(i) \in Bucket /\ Alike(buckets[k], Opened(i)) /\ i \in Touching(k)
  BY <1>1, TurnFacts, MovedFacts, RowFacts DEF StockIInv
<1>3. SignOf(i) \in {1, -1} /\ in \in BOOLEAN
  BY SignIsOne DEF InPeriod
<1>4. /\ a \in Bucket /\ a.firstNegative = Opened(i).firstNegative
      /\ a.balance = Opened(i).balance + SignOf(i) * base.qty
      /\ SignOf(i) = 1 => HeldAll(a.slices) = HeldAll(Opened(i).slices) + base.qty
      /\ SignOf(i) = -1 => HeldAll(a.slices) >= HeldAll(Opened(i).slices) - base.qty
  BY <1>2, <1>3, ReceivedType
<1>5. delta \in Int
  <2> HIDE DEF in, base
  <2>1. QED
    BY <1>2, <1>3, OutDeltaType
<1>6. /\ base.qty \in Int /\ Opened(i).balance \in Int /\ HeldAll(Opened(i).slices) \in Int
      /\ a.balance \in Int /\ HeldAll(a.slices) \in Int
  BY <1>2, <1>4, BucketParts DEF Booked, Slicable
<1>7. HeldAll(Opened(i).slices) >= Opened(i).balance => HeldAll(a.slices) >= a.balance
  <2>1. CASE SignOf(i) = 1
    <3>1. a.balance = Opened(i).balance + base.qty
      BY <1>4, <1>6, <2>1
    <3>2. QED
      BY <1>4, <1>6, <2>1, <3>1
  <2>2. CASE SignOf(i) = -1
    <3>1. a.balance = Opened(i).balance - base.qty
      BY <1>4, <1>6, <2>2
    <3>2. QED
      BY <1>4, <1>6, <2>2, <3>1
  <2>3. QED
    BY <1>3, <2>1, <2>2
<1>8. Plain(k) /\ Covers(buckets[k]) => Covers(a)
  BY <1>2, <1>7 DEF Covers, Alike
<1>9. Clean(k) /\ Matches(buckets[k]) /\ a.firstNegative = None /\ a.balance >= 0
        => HeldAll(a.slices) = a.balance
  <2> SUFFICES ASSUME Clean(k), Matches(buckets[k]), a.firstNegative = None
               PROVE  HeldAll(a.slices) = a.balance
    OBVIOUS
  <2>1. SignOf(i) = 1
    BY <1>2, OwnOrigin DEF Clean
  <2>2. HeldAll(Opened(i).slices) = Opened(i).balance
    BY <1>2, <1>4 DEF Matches, Alike
  <2>3. a.balance = Opened(i).balance + base.qty
    BY <1>4, <1>6, <2>1
  <2>4. QED
    BY <1>4, <2>1, <2>2, <2>3
<1>10. missingCost' \subseteq Skus
  BY <1>1 DEF StockIInv, TypeOK
<1> HIDE DEF a, delta, base, in
<1>11. QED
  BY <1>1, <1>4, <1>5, <1>8, <1>9, <1>10, AdvanceKeeps DEF k

LEMMA OutboundKeeps ==
    ASSUME StockIInv, NEW i \in pending, ReplayOutbound(i)
    PROVE  StockIInv'
<1> DEFINE base == dataset[Origin(i)]
           k == KeyOf(i)
           in == InPeriod(base)
           a == Issued(Opened(i), base, SignOf(i))
           delta == OutDelta(base, SignOf(i), in)
<1>1. /\ Turn(i) /\ InHorizon(base) /\ base.move \in Outbound
      /\ Advance(i, a, delta)
      /\ missingCost' = missingCost \/ missingCost' = missingCost \union {base.sku}
  BY DEF ReplayOutbound
<1>2. /\ i \in DOMAIN dataset /\ Booked(base) /\ i # None /\ k \in Keys /\ base.sku \in Skus
      /\ Opened(i) \in Bucket /\ Alike(buckets[k], Opened(i)) /\ i \in Touching(k)
  BY <1>1, TurnFacts, MovedFacts, RowFacts DEF StockIInv
<1>3. SignOf(i) \in {1, -1} /\ in \in BOOLEAN
  BY SignIsOne DEF InPeriod
<1>4. /\ a \in Bucket /\ a.firstNegative = Opened(i).firstNegative
      /\ SignOf(i) = 1 =>
            /\ a.balance = Opened(i).balance - base.qty
            /\ HeldAll(a.slices)
                  = HeldAll(Opened(i).slices) - Smaller(base.qty, HeldAll(Opened(i).slices))
  BY <1>2, <1>3, IssuedType
<1>5. delta \in Int
  <2> HIDE DEF in, base
  <2>1. QED
    BY <1>2, <1>3, OutDeltaType
<1>6. /\ base.qty \in Nat /\ Opened(i).balance \in Int /\ HeldAll(Opened(i).slices) \in Nat
  BY <1>2, BucketParts DEF Booked, Slicable
\* Nothing undoes an outbound here.
<1>7. Plain(k) => SignOf(i) = 1
  <2>1. base.move \notin Inbound
    BY <1>1 DEF Inbound, Outbound
  <2>2. Plain(k) => ~Reverses(i)
    BY <1>2, <2>1 DEF Plain
  <2>3. QED
    BY <1>2, <2>2, OwnOrigin
<1>8. Plain(k) /\ Covers(buckets[k]) => Covers(a)
  <2> SUFFICES ASSUME Plain(k), Covers(buckets[k]) PROVE HeldAll(a.slices) >= a.balance
    BY DEF Covers
  <2>1. HeldAll(Opened(i).slices) >= Opened(i).balance
    BY <1>2 DEF Covers, Alike
  <2> HIDE DEF a, base
  <2>2. QED
    BY <1>4, <1>6, <1>7, <2>1 DEF Smaller
<1>9. Clean(k) /\ Matches(buckets[k]) /\ a.firstNegative = None /\ a.balance >= 0
        => HeldAll(a.slices) = a.balance
  <2> SUFFICES ASSUME Clean(k), Matches(buckets[k]), a.firstNegative = None, a.balance >= 0
               PROVE  HeldAll(a.slices) = a.balance
    OBVIOUS
  <2>1. SignOf(i) = 1
    BY <1>2, OwnOrigin DEF Clean
  <2>2. HeldAll(Opened(i).slices) = Opened(i).balance
    BY <1>2, <1>4 DEF Matches, Alike
  <2> HIDE DEF a, base
  <2>3. QED
    BY <1>4, <1>6, <2>1, <2>2 DEF Smaller
<1>10. missingCost' \subseteq Skus
  BY <1>1, <1>2 DEF StockIInv, TypeOK
<1> HIDE DEF a, delta, base, in
<1>11. QED
  BY <1>1, <1>4, <1>5, <1>8, <1>9, <1>10, AdvanceKeeps DEF k

LEMMA StocktakeKeeps ==
    ASSUME StockIInv, NEW i \in pending, ReplayStocktake(i)
    PROVE  StockIInv'
<1> DEFINE base == dataset[Origin(i)]
           k == KeyOf(i)
           a == Counted(Opened(i), Origin(i), base, SignOf(i))
<1>1. /\ Turn(i) /\ InHorizon(base) /\ base.move = "STOCKTAKE"
      /\ Advance(i, a, 0) /\ missingCost' = missingCost
  BY DEF ReplayStocktake
<1>2. /\ Booked(base) /\ Origin(i) \in Ids /\ Opened(i) \in Bucket /\ i \in Touching(k)
  BY <1>1, TurnFacts, MovedFacts
<1>3. SignOf(i) \in {1, -1}
  BY SignIsOne
<1>4. a \in Bucket
  BY <1>2, <1>3, CountedType
<1>5. ~Plain(k) /\ ~Clean(k)
  BY <1>1, <1>2 DEF Plain, Clean, Uncounted
<1>6. missingCost' \subseteq Skus
  BY <1>1 DEF StockIInv, TypeOK
<1> HIDE DEF a
<1>7. QED
  BY <1>1, <1>4, <1>5, <1>6, AdvanceKeeps DEF k

LEMMA TransferKeeps ==
    ASSUME StockIInv, NEW i \in pending, ReplayTransfer(i)
    PROVE  StockIInv'
<1> DEFINE k == KeyOf(i)
           a == Opened(i)
<1>1. Turn(i) /\ Advance(i, a, 0) /\ missingCost' = missingCost
  BY DEF ReplayTransfer
<1>2. a \in Bucket /\ Alike(buckets[k], a)
  BY <1>1, TurnFacts
<1>3. /\ Plain(k) /\ Covers(buckets[k]) => Covers(a)
      /\ Clean(k) /\ Matches(buckets[k]) /\ a.firstNegative = None
            => HeldAll(a.slices) = a.balance
  BY <1>2 DEF Covers, Matches, Alike
<1>4. missingCost' \subseteq Skus
  BY <1>1 DEF StockIInv, TypeOK
<1> HIDE DEF a
<1>5. QED
  BY <1>1, <1>2, <1>3, <1>4, AdvanceKeeps DEF k

LEMMA SkipKeeps ==
    ASSUME StockIInv, NEW i \in pending, SkipReversal(i)
    PROVE  StockIInv'
<1>1. /\ pc = "replay" /\ pending' = pending \ {i}
      /\ UNCHANGED <<ledger, pc, local, request, dataset, buckets, lastCost, missingCost>>
  BY DEF SkipReversal, Turn
<1>2. TypeOK' /\ Rows' /\ FreshInv'
  BY <1>1 DEF StockIInv, TypeOK, Rows, FreshInv
<1>3. ReplayInv' /\ BookInv'
  BY <1>1, SameEvents DEF StockIInv, ReplayInv, BookInv, Covers, Matches
<1>4. QED
  BY <1>2, <1>3 DEF StockIInv

LEMMA FinishKeeps ==
    ASSUME StockIInv, FinishReplay
    PROVE  StockIInv'
<1>1. /\ pc = "replay" /\ pending = {} /\ pc' = "done"
      /\ buckets' = [k \in Keys |-> IF buckets[k].live THEN Captured(buckets[k])
                                                       ELSE buckets[k]]
      /\ UNCHANGED <<ledger, local, request, dataset, pending, lastCost, missingCost>>
  BY DEF FinishReplay
<1>2. ASSUME NEW k \in Keys
      PROVE  buckets'[k] \in Bucket /\ Alike(buckets[k], buckets'[k])
  <2>1. buckets[k] \in Bucket
    BY DEF StockIInv, TypeOK
  <2>2. CASE buckets[k].live
    BY <1>1, <2>1, <2>2, CapturedType
  <2>3. CASE ~buckets[k].live
    BY <1>1, <2>1, <2>3 DEF Alike
  <2>4. QED
    BY <2>2, <2>3
<1>3. buckets' \in [Keys -> Bucket]
  BY <1>1, <1>2
<1>4. TypeOK' /\ Rows' /\ FreshInv'
  BY <1>1, <1>3 DEF StockIInv, TypeOK, Rows, FreshInv
<1>5. ReplayInv'
  BY <1>1, SameEvents DEF StockIInv, ReplayInv
<1>6. BookInv'
  <2> SUFFICES ASSUME NEW k \in Keys
               PROVE  (Plain(k) => Covers(buckets'[k])) /\ (Clean(k) => Matches(buckets'[k]))
    BY <1>1, SameEvents DEF BookInv, Covers, Matches
  <2>1. (Plain(k) => Covers(buckets[k])) /\ (Clean(k) => Matches(buckets[k]))
    BY <1>1 DEF StockIInv, BookInv
  <2>2. QED
    BY <1>2, <2>1 DEF Covers, Matches, Alike
<1>7. QED
  BY <1>4, <1>5, <1>6 DEF StockIInv

-----------------------------------------------------------------------------
(***************************************************************************)
(* The other steps                                                         *)
(***************************************************************************)

LEMMA RecordKeeps ==
    ASSUME StockIInv, NEW row \in Menu, NEW day \in Days,
           NEW rev \in 1..Len(ledger) + 1 \union {None}, Record(row, day, rev)
    PROVE  StockIInv'
<1> DEFINE e == [move |-> row.move, sku |-> row.sku, wh |-> row.wh, lot |-> row.lot,
                 qty |-> row.qty, cost |-> row.cost, day |-> day, rev |-> rev]
           n == Len(ledger)
<1>1. /\ pc \in {"idle", "asked"} /\ n < MaxEvents /\ ledger' = Append(ledger, e)
      /\ UNCHANGED engine
  BY DEF Record
<1>2. n \in Nat /\ DOMAIN ledger = 1..n /\ ledger \in Seq(Entry)
  BY RowFacts DEF StockIInv, Rows
<1>3. row \in Row
  BY StockAssumption DEF StockAssumption
<1>4. rev \in Nat \union {None} /\ (rev \in 1..n + 1 \/ rev = None)
  BY <1>2
<1>5. e \in Entry /\ e.rev = rev
  BY <1>3, <1>4 DEF Row, Entry
<1> HIDE DEF e
<1>6. /\ ledger' \in Seq(Entry) /\ Len(ledger') = n + 1 /\ DOMAIN ledger' = 1..n + 1
      /\ ledger'[n + 1] = e /\ \A i \in 1..n : ledger'[i] = ledger[i]
  BY <1>1, <1>2, <1>5
<1>7. \A i \in DOMAIN ledger' : ledger'[i].rev \in 1..i \union {None}
  <2>1. \A i \in 1..n : ledger[i].rev \in 1..i \union {None}
    BY <1>2 DEF StockIInv, TypeOK
  <2>2. \A i \in 1..n + 1 : i \in 1..n \/ i = n + 1
    BY <1>2
  <2>3. QED
    BY <1>4, <1>5, <1>6, <2>1, <2>2
<1>8. DOMAIN dataset \subseteq DOMAIN ledger'
  BY <1>2, <1>6 DEF StockIInv, TypeOK
<1>9. TypeOK'
  BY <1>1, <1>7, <1>8 DEF StockIInv, TypeOK, engine
<1>10. Rows' /\ FreshInv'
  <2>1. Len(ledger') <= MaxEvents
    BY <1>1, <1>2, <1>6, StockAssumption DEF StockAssumption
  <2>2. QED
    BY <1>1, <1>6, <2>1 DEF StockIInv, Rows, FreshInv, engine
<1>11. ReplayInv' /\ BookInv'
  BY <1>1, SameEvents DEF StockIInv, ReplayInv, BookInv, engine, FreshInv
<1>12. QED
  BY <1>9, <1>10, <1>11 DEF StockIInv

LEMMA DefaultInPeriod ==
    ASSUME StockIInv, LedgerDays # {}
    PROVE  DefaultRequest \in Period
<1> DEFINE S == LedgerDays
<1>1. MaxDay \in Nat /\ SnapshotDays \subseteq 0..MaxDay + 1
  BY StockAssumption DEF StockAssumption
<1>2. S \subseteq 0..MaxDay + 1
  <2>1. \A i \in DOMAIN ledger : ledger[i].day \in 0..MaxDay
    BY RowFacts DEF StockIInv, Entry, Days
  <2>2. 0..MaxDay \subseteq 0..MaxDay + 1
    BY <1>1
  <2>3. S = {ledger[i].day : i \in DOMAIN ledger} \union SnapshotDays
    BY DEF LedgerDays
  <2> HIDE DEF S
  <2>4. ASSUME NEW d \in S
        PROVE  d \in 0..MaxDay + 1
    <3>1. CASE d \in SnapshotDays
      BY <1>1, <3>1
    <3>2. CASE \E i \in DOMAIN ledger : d = ledger[i].day
      BY <2>1, <2>2, <3>2
    <3>3. QED
      BY <2>3, <2>4, <3>1, <3>2
  <2>5. QED
    BY <2>4
<1> HIDE DEF S
<1>3. Least(S) \in S /\ Largest(S) \in S
  <2>1. MaxDay + 1 \in Nat /\ S # {}
    BY <1>1 DEF S
  <2>2. QED
    BY <1>2, <2>1, BoundsOf
<1>4. QED
  BY <1>2, <1>3 DEF DefaultRequest, Period, S

LEMMA MovementType ==
    ASSUME NEW e \in Entry
    PROVE  /\ Movement(e) \in Moved /\ [Movement(e) EXCEPT !.rev = None] \in Moved
<1>1. MoveType(e.move) \in Moves
  BY DEF MoveType, Moves, Entry, LocalMoves
<1>2. Movement(e) = [e EXCEPT !.move = MoveType(e.move)]
  BY DEF Movement, Entry
<1>3. Movement(e) \in Moved
  BY <1>1, <1>2 DEF Entry, Moved
<1>4. QED
  BY <1>3 DEF Moved

\* A dataset of the ledger's rows, while there is nothing to replay.
LEMMA LoadKeeps ==
    ASSUME StockIInv, NEW D \in SUBSET DOMAIN ledger, NEW rows, pc \notin {"replay", "done"},
           \A i \in D : rows[i] \in Moved, DOMAIN rows = D,
           dataset' = rows, pc' = "loaded", local' \in BOOLEAN,
           request' \in Period \union {None},
           UNCHANGED <<ledger, pending, buckets, lastCost, missingCost>>
    PROVE  StockIInv'
<1>1. pending = {}
  BY DEF StockIInv, FreshInv
<1>2. TypeOK'
  BY <1>1 DEF StockIInv, TypeOK
<1>3. Rows' /\ FreshInv'
  BY DEF StockIInv, Rows, FreshInv
<1>4. ReplayInv' /\ BookInv'
  BY <1>1 DEF ReplayInv, BookInv
<1>5. QED
  BY <1>2, <1>3, <1>4 DEF StockIInv

LEMMA LoadsKeep ==
    ASSUME StockIInv, LoadLocal \/ \E q \in Requests : LoadContract(q)
    PROVE  StockIInv'
<1>1. \A i \in DOMAIN ledger : ledger[i] \in Entry
  BY RowFacts DEF StockIInv
<1>2. request \in Period \union {None} /\ local \in BOOLEAN
  BY DEF StockIInv, TypeOK
<1>3. CASE LoadLocal
  <2> DEFINE D == {i \in DOMAIN ledger : /\ ledger[i].day \in request.start..request.end
                                         /\ InScope(ledger[i], request)}
             rows == AdapterDataset
  <2>1. DOMAIN rows = D /\ \A i \in D : rows[i] = [Movement(ledger[i]) EXCEPT !.rev = None]
    BY DEF AdapterDataset
  <2>2. D \in SUBSET DOMAIN ledger /\ \A i \in D : rows[i] \in Moved
    <3>1. D \in SUBSET DOMAIN ledger
      OBVIOUS
    <3> HIDE DEF D, rows
    <3>2. QED
      BY <1>1, <2>1, <3>1, MovementType
  <2>3. /\ pc \notin {"replay", "done"} /\ dataset' = rows /\ pc' = "loaded"
        /\ UNCHANGED <<ledger, local, request, pending, buckets, lastCost, missingCost>>
    BY <1>3 DEF LoadLocal
  <2> HIDE DEF D, rows
  <2>4. QED
    BY <1>2, <2>1, <2>2, <2>3, LoadKeeps
<1>4. CASE \E q \in Requests : LoadContract(q)
  <2> DEFINE rows == ContractDataset
  <2>1. PICK q \in Requests : LoadContract(q)
    BY <1>4
  <2>2. q \in Period
    BY StockAssumption DEF StockAssumption
  <2>3. DOMAIN rows = DOMAIN ledger /\ \A i \in DOMAIN ledger : rows[i] = Movement(ledger[i])
    BY DEF ContractDataset
  <2>4. \A i \in DOMAIN ledger : rows[i] \in Moved
    BY <1>1, <2>3, MovementType
  <2>5. /\ pc \notin {"replay", "done"} /\ dataset' = rows /\ pc' = "loaded"
        /\ local' = FALSE /\ request' = q
        /\ UNCHANGED <<ledger, pending, buckets, lastCost, missingCost>>
    BY <2>1 DEF LoadContract
  <2> HIDE DEF rows
  <2>6. QED
    BY <2>2, <2>3, <2>4, <2>5, LoadKeeps
<1>5. QED
  BY <1>3, <1>4

LEMMA StartKeeps ==
    ASSUME StockIInv, StartReplay
    PROVE  StockIInv'
<1>1. /\ pc = "loaded" /\ pc' = "replay" /\ ReversalsResolve
      /\ pending' = {i \in DOMAIN dataset : InHorizon(dataset[i])}
      /\ UNCHANGED <<ledger, local, request, dataset, buckets, lastCost, missingCost>>
  BY DEF StartReplay
<1>2. TypeOK' /\ Rows' /\ FreshInv'
  BY <1>1 DEF StockIInv, TypeOK, Rows, FreshInv
<1>3. ReplayInv'
  BY <1>1, SameEvents DEF ReplayInv
<1>4. \A k \in Keys : buckets'[k] = NewBucket
  BY <1>1 DEF StockIInv, FreshInv
<1>5. BookInv'
  BY <1>4, NewBucketType DEF BookInv, Covers, Matches
<1>6. QED
  BY <1>2, <1>3, <1>5 DEF StockIInv

LEMMA RestKeeps ==
    ASSUME StockIInv, AskLocal \/ Refuse \/ Return
    PROVE  StockIInv'
<1>1. CASE AskLocal
  <2>1. /\ pc = "idle" /\ pc' = "asked" /\ local' = TRUE /\ request' \in Period
        /\ UNCHANGED <<ledger, dataset, pending, buckets, lastCost, missingCost>>
    BY <1>1, DefaultInPeriod DEF AskLocal
  <2>2. pending = {}
    BY <2>1 DEF StockIInv, FreshInv
  <2>3. QED
    BY <2>1, <2>2 DEF StockIInv, TypeOK, Rows, FreshInv, ReplayInv, BookInv
<1>2. CASE Refuse
  <2>1. /\ pc = "loaded" /\ pc' = "refused"
        /\ UNCHANGED <<ledger, local, request, dataset, pending, buckets, lastCost, missingCost>>
    BY <1>2 DEF Refuse
  <2>2. pending = {}
    BY <2>1 DEF StockIInv, FreshInv
  <2>3. QED
    BY <2>1, <2>2 DEF StockIInv, TypeOK, Rows, FreshInv, ReplayInv, BookInv
<1>3. CASE Return
  <2>1. /\ pc # "replay" /\ pc' = "idle" /\ local' = FALSE /\ request' = None
        /\ dataset' = << >> /\ buckets' = [k \in Keys |-> NewBucket]
        /\ lastCost' = [s \in Skus |-> None] /\ missingCost' = {}
        /\ UNCHANGED <<ledger, pending>>
    BY <1>3 DEF Return
  <2>2. pending = {}
    BY <2>1 DEF StockIInv, FreshInv
  <2>3. buckets' \in [Keys -> Bucket]
    BY <2>1, NewBucketType
  <2>4. DOMAIN dataset' = {}
    BY <2>1
  <2>5. TypeOK'
    BY <2>1, <2>2, <2>3, <2>4 DEF StockIInv, TypeOK
  <2>6. QED
    BY <2>1, <2>2, <2>4, <2>5 DEF StockIInv, Rows, FreshInv, ReplayInv, BookInv
<1>4. QED
  BY <1>1, <1>2, <1>3

-----------------------------------------------------------------------------
(***************************************************************************)
(* The replay: theorems                                                    *)
(***************************************************************************)

\* StockIInv holds in every reachable state.
THEOREM ReplayInvariance == Spec => []StockIInv
<1>1. Init => StockIInv
  <2> SUFFICES ASSUME Init PROVE StockIInv
    OBVIOUS
  <2>1. /\ ledger = << >> /\ pc = "idle" /\ local = FALSE /\ request = None
        /\ dataset = << >> /\ pending = {} /\ buckets = [k \in Keys |-> NewBucket]
        /\ lastCost = [s \in Skus |-> None] /\ missingCost = {}
    BY DEF Init
  <2>2. DOMAIN dataset = {} /\ DOMAIN ledger = {} /\ ledger \in Seq(Entry) /\ Len(ledger) = 0
    BY <2>1
  <2>3. buckets \in [Keys -> Bucket]
    BY <2>1, NewBucketType
  <2>4. TypeOK
    BY <2>1, <2>2, <2>3 DEF TypeOK
  <2>5. Rows
    BY <2>2, StockAssumption DEF Rows, StockAssumption
  <2>6. QED
    BY <2>1, <2>4, <2>5 DEF StockIInv, FreshInv, ReplayInv, BookInv
<1>2. StockIInv /\ [Next]_vars => StockIInv'
  <2> SUFFICES ASSUME StockIInv, [Next]_vars PROVE StockIInv'
    OBVIOUS
  <2>1. CASE UNCHANGED vars
    <3>1. /\ UNCHANGED <<ledger, pc, local, request, dataset, pending, buckets, lastCost,
                         missingCost>>
      BY <2>1 DEF vars, engine
    <3>2. TypeOK' /\ Rows' /\ FreshInv'
      BY <3>1 DEF StockIInv, TypeOK, Rows, FreshInv
    <3>3. ReplayInv' /\ BookInv'
      BY <3>1, SameEvents DEF StockIInv, ReplayInv, BookInv, Covers, Matches
    <3>4. QED
      BY <3>2, <3>3 DEF StockIInv
  <2>2. ASSUME NEW row \in Menu, NEW day \in Days,
               NEW rev \in 1..Len(ledger) + 1 \union {None}, Record(row, day, rev)
        PROVE  StockIInv'
    BY <2>2, RecordKeeps
  <2>3. ASSUME NEW i \in pending,
               ReplayInbound(i) \/ ReplayOutbound(i) \/ ReplayStocktake(i)
                  \/ ReplayTransfer(i) \/ SkipReversal(i)
        PROVE  StockIInv'
    BY <2>3, InboundKeeps, OutboundKeeps, StocktakeKeeps, TransferKeeps, SkipKeeps
  <2>4. CASE AskLocal \/ Refuse \/ Return
    BY <2>4, RestKeeps
  <2>5. CASE LoadLocal \/ \E q \in Requests : LoadContract(q)
    BY <2>5, LoadsKeep
  <2>6. CASE StartReplay
    BY <2>6, StartKeeps
  <2>7. CASE FinishReplay
    BY <2>7, FinishKeeps
  <2>8. QED
    BY <2>1, <2>2, <2>3, <2>4, <2>5, <2>6, <2>7 DEF Next
<1>3. QED
  BY <1>1, <1>2, PTL DEF Spec

\* The tables, the request, the dataset and every bucket of a replay keep
\* their types; no slice is overdrawn.
THEOREM ReplayTypeCorrect == Spec => []TypeOK
<1>1. StockIInv => TypeOK
  BY DEF StockIInv
<1>2. QED
  BY <1>1, ReplayInvariance, PTL

\* The lot book behind the ages, for any ledger, period and order of events:
\* it covers the balance of a bucket in which no outbound is undone and
\* nothing is counted, and it is the balance where nothing is undone either
\* and stock was never negative.
THEOREM LotBookCovers == Spec => []SlicesCoverBalance
<1>1. StockIInv => SlicesCoverBalance
  <2> SUFFICES ASSUME StockIInv, pc \in {"replay", "done"}, NEW k \in Keys
               PROVE  LET b == buckets[k]
                          held == Held(b.slices, DOMAIN b.slices)
                          undone == {i \in Touching(k) : Reverses(i)}
                          counted == \E i \in Touching(k) :
                                        dataset[Origin(i)].move = "STOCKTAKE"
                      IN  /\ ~counted
                                /\ (\A i \in undone : dataset[Origin(i)].move \in Inbound)
                             => held >= b.balance
                          /\ ~counted /\ undone = {} /\ b.firstNegative = None
                             => held = b.balance
    BY DEF SlicesCoverBalance
  <2>1. (Plain(k) => Covers(buckets[k])) /\ (Clean(k) => Matches(buckets[k]))
    BY DEF StockIInv, BookInv
  <2>2. QED
    BY <2>1 DEF Plain, Clean, Uncounted, Covers, Matches, HeldAll
<1>2. QED
  BY <1>1, ReplayInvariance, PTL

-----------------------------------------------------------------------------
(***************************************************************************)
(* The replay: the dates of a bucket                                       *)
(***************************************************************************)

\* The events of the horizon, each with its base event and its sign, and those
\* of a bucket that have been replayed.
Terms == [i \in Horizon |-> [key |-> KeyOf(i), own |-> dataset[i],
                             base |-> dataset[Origin(i)], sign |-> SignOf(i)]]
Replayed(k) == {i \in Horizon \ pending : KeyOf(i) = k}

TermRow == [key : Keys, own : Moved, base : Moved, sign : {1, -1}]
TermTable(T) ==
    /\ IsFiniteSet(DOMAIN T) /\ T = [i \in DOMAIN T |-> T[i]]
    /\ \A i \in DOMAIN T : /\ T[i] \in TermRow
                           /\ T[i].own.move \in Outbound => T[i].base = T[i].own /\ T[i].sign = 1

Ins(T, P)  == {i \in P : T[i].base.move \in Inbound}
Came(T)    == [i \in DOMAIN T |-> T[i].sign * T[i].base.qty]
CameDay(T) == [i \in DOMAIN T |-> T[i].sign * T[i].base.qty * T[i].base.day]

SlicesDated(slices, T, P) ==
    \A n \in DOMAIN slices : \E i \in Ins(T, P) : slices[n].day = T[i].base.day

\* What a bucket knows of the dates of the events P replayed to it.
Dated(b, T, P) ==
    /\ SlicesDated(b.slices, T, P)
    /\ \A i \in P : T[i].own.move \in Outbound
                       => b.lastOut # None /\ b.lastOut >= T[i].own.day
    /\ b.allQty = Total(Came(T), Ins(T, P))
    /\ b.allWeighted = Total(CameDay(T), Ins(T, P))
    /\ P # {} => b.live
    /\ b.live => P # {}

DatesInv ==
    /\ pc # "idle" => request \in Period
    /\ pc \in {"replay", "done"} => \A k \in Keys : Dated(buckets[k], Terms, Replayed(k))

LEMMA TermFacts ==
    ASSUME NEW T, TermTable(T), NEW i \in DOMAIN T
    PROVE  /\ T[i].base \in Moved /\ T[i].own \in Moved /\ T[i].sign \in {1, -1}
           /\ Slicable(T[i].base)
           /\ T[i].base.day \in Days /\ T[i].own.day \in Days /\ T[i].base.qty \in Nat
           /\ Came(T)[i] = T[i].sign * T[i].base.qty /\ Came(T)[i] \in Int
           /\ CameDay(T)[i] = T[i].sign * T[i].base.qty * T[i].base.day /\ CameDay(T)[i] \in Int
<1>1. T[i].base \in Moved /\ T[i].own \in Moved /\ T[i].sign \in {1, -1}
  BY DEF TermTable, TermRow
<1>2. /\ T[i].base.day \in Days /\ T[i].own.day \in Days /\ T[i].base.qty \in Nat
      /\ Slicable(T[i].base)
  BY <1>1, MovedFacts DEF Moved, Booked
<1>3. \A x \in Days : x \in Int
  BY StockAssumption DEF StockAssumption, Days
<1> DEFINE s == T[i].sign
           q == T[i].base.qty
           d == T[i].base.day
<1>4. s \in Int /\ q \in Int /\ d \in Int
  <2>1. s \in Int
    BY <1>1
  <2>2. q \in Int
    BY <1>2
  <2>3. d \in Int
    <3>1. d \in Days
      BY <1>2
    <3> HIDE DEF d
    <3>2. QED
      BY <1>3, <3>1
  <2>4. QED
    BY <2>1, <2>2, <2>3
<1>5. Came(T)[i] = s * q /\ CameDay(T)[i] = s * q * d
  BY DEF Came, CameDay
<1> HIDE DEF s, q, d
<1>6. s * q \in Int
  BY <1>4
<1>7. s * q * d \in Int
  BY <1>4, <1>6
<1>8. QED
  BY <1>1, <1>2, <1>5, <1>6, <1>7 DEF s, q, d

LEMMA TermSums ==
    ASSUME NEW T, TermTable(T), NEW P \in SUBSET DOMAIN T
    PROVE  IsFiniteSet(P) /\ Ints(Came(T), P) /\ Ints(CameDay(T), P)
<1>1. IsFiniteSet(P)
  BY FS_Subset DEF TermTable
<1>2. \A i \in P : Came(T)[i] \in Int /\ CameDay(T)[i] \in Int
  BY TermFacts
<1>3. QED
  BY <1>1, <1>2 DEF Ints

\* One event more.
LEMMA DatedGrows ==
    ASSUME NEW T, TermTable(T), NEW P \in SUBSET DOMAIN T, NEW i \in DOMAIN T \ P,
           NEW b, Dated(b, T, P), NEW c, c.live,
           b.lastOut \in Days \union {None}, c.lastOut \in Days \union {None},
           SlicesDated(c.slices, T, P \union {i}),
           T[i].base.move \in Inbound =>
               c.allQty = b.allQty + Came(T)[i] /\ c.allWeighted = b.allWeighted + CameDay(T)[i],
           T[i].base.move \notin Inbound =>
               c.allQty = b.allQty /\ c.allWeighted = b.allWeighted,
           b.lastOut # None => c.lastOut # None /\ c.lastOut >= b.lastOut,
           T[i].own.move \in Outbound => c.lastOut # None /\ c.lastOut >= T[i].own.day
    PROVE  Dated(c, T, P \union {i})
<1> DEFINE Q == P \union {i}
<1>1. Q \in SUBSET DOMAIN T
  OBVIOUS
<1>2. c.allQty = Total(Came(T), Ins(T, Q)) /\ c.allWeighted = Total(CameDay(T), Ins(T, Q))
  <2>1. CASE T[i].base.move \in Inbound
    <3> DEFINE R == Ins(T, Q)
    <3>1. i \in R /\ R \ {i} = Ins(T, P) /\ R \in SUBSET DOMAIN T
      BY <1>1, <2>1 DEF Ins
    <3>2. IsFiniteSet(R) /\ Ints(Came(T), R) /\ Ints(CameDay(T), R)
      BY <3>1, TermSums
    <3> HIDE DEF R
    <3>3. /\ Total(Came(T), R) = Came(T)[i] + Total(Came(T), R \ {i})
          /\ Total(Came(T), R \ {i}) \in Int /\ Came(T)[i] \in Int
      BY <3>1, <3>2, TotalTake
    <3>4. /\ Total(CameDay(T), R) = CameDay(T)[i] + Total(CameDay(T), R \ {i})
          /\ Total(CameDay(T), R \ {i}) \in Int /\ CameDay(T)[i] \in Int
      BY <3>1, <3>2, TotalTake
    <3>5. /\ b.allQty = Total(Came(T), R \ {i})
          /\ b.allWeighted = Total(CameDay(T), R \ {i})
      BY <3>1 DEF Dated
    <3>6. c.allQty = Total(Came(T), R)
      BY <2>1, <3>3, <3>5
    <3>7. c.allWeighted = Total(CameDay(T), R)
      BY <2>1, <3>4, <3>5
    <3>8. QED
      BY <3>6, <3>7 DEF R
  <2>2. CASE T[i].base.move \notin Inbound
    <3>1. Ins(T, Q) = Ins(T, P)
      BY <2>2 DEF Ins
    <3>2. QED
      BY <2>2, <3>1 DEF Dated
  <2>3. QED
    BY <2>1, <2>2
<1>3. ASSUME NEW j \in Q, T[j].own.move \in Outbound
      PROVE  c.lastOut # None /\ c.lastOut >= T[j].own.day
  <2>1. CASE j = i
    BY <1>3, <2>1
  <2>2. CASE j \in P
    <3>1. b.lastOut # None /\ b.lastOut >= T[j].own.day
      BY <1>3, <2>2 DEF Dated
    <3>2. c.lastOut # None /\ c.lastOut >= b.lastOut
      BY <3>1
    <3>3. b.lastOut \in Int /\ c.lastOut \in Int /\ T[j].own.day \in Int
      <4>1. T[j].own.day \in Days
        BY <2>2, TermFacts
      <4>2. Days \subseteq Int
        BY StockAssumption DEF StockAssumption, Days
      <4>3. QED
        BY <3>1, <3>2, <4>1, <4>2
    <3>4. QED
      BY <3>1, <3>2, <3>3
  <2>3. QED
    BY <2>1, <2>2
<1>4. QED
  BY <1>2, <1>3 DEF Dated

\* What the parts of a step leave of these fields.
SameBook(b, c) == /\ c.slices = b.slices /\ c.lastOut = b.lastOut
                  /\ c.allQty = b.allQty /\ c.allWeighted = b.allWeighted

LEMMA CapturedBook ==
    ASSUME NEW b \in Bucket
    PROVE  SameBook(b, Captured(b)) /\ Captured(b).live = b.live
BY DEF Captured, SameBook, Bucket

LEMMA TailBook ==
    ASSUME NEW a \in Bucket, NEW delta \in Int, NEW day \in Days, NEW in \in BOOLEAN, NEW b,
           b = Tracked([Charged(a, delta, day) EXCEPT !.live = TRUE], day, in)
    PROVE  SameBook(a, b) /\ b.live
<1> DEFINE c == Charged(a, delta, day)
           l == [c EXCEPT !.live = TRUE]
<1>1. c \in Bucket
  BY ChargedType
<1>2. SameBook(a, c)
  BY DEF Charged, SameBook, Bucket
<1> HIDE DEF c
<1>3. l \in Bucket /\ SameBook(c, l) /\ l.live
  <2>1. c \in BucketType
    BY <1>1, BucketIs
  <2>2. l \in BucketType
    BY <2>1 DEF BucketType
  <2>3. SameBook(c, l) /\ l.live
    BY <2>1 DEF BucketType, SameBook
  <2>4. QED
    BY <2>2, <2>3, BucketIs
<1> HIDE DEF l
<1>4. SameBook(l, Tracked(l, day, in)) /\ Tracked(l, day, in).live
  BY <1>3 DEF Tracked, SameBook, Bucket
<1>5. b = Tracked(l, day, in)
  BY DEF c, l
<1>6. QED
  BY <1>2, <1>3, <1>4, <1>5 DEF SameBook

LEMMA ReceivedBook ==
    ASSUME NEW b \in Bucket, NEW e, NEW sign, NEW a, a = Received(b, e, sign)
    PROVE  /\ a.slices = IF sign = 1 THEN AddSlice(b.slices, e) ELSE RemoveSlices(b.slices, e)
           /\ a.lastOut = b.lastOut /\ a.allQty = b.allQty + sign * e.qty
           /\ a.allWeighted = b.allWeighted + sign * e.qty * e.day
<1> DEFINE slices == IF sign = 1 THEN AddSlice(b.slices, e) ELSE RemoveSlices(b.slices, e)
           avg == NewAvg(b, e, sign)
           balance == b.balance + sign * e.qty
           all == b.allQty + sign * e.qty
           weighted == b.allWeighted + sign * e.qty * e.day
           first == IF sign = 1 /\ (b.firstIn = None \/ e.day < b.firstIn)
                    THEN e.day ELSE b.firstIn
<1>1. a = [b EXCEPT !.avg = avg, !.balance = balance, !.allQty = all,
                    !.allWeighted = weighted, !.slices = slices, !.firstIn = first]
  BY DEF Received, Bucket
<1> HIDE DEF slices, avg, balance, all, weighted, first
<1>2. /\ a.slices = slices /\ a.lastOut = b.lastOut /\ a.allQty = all
      /\ a.allWeighted = weighted
  BY <1>1 DEF Bucket
<1>3. QED
  BY <1>2 DEF slices, all, weighted

LEMMA IssuedBook ==
    ASSUME NEW b \in Bucket, NEW e, NEW sign, NEW a, a = Issued(b, e, sign)
    PROVE  /\ a.slices = IF sign = 1 THEN ConsumeSlices(b.slices, e) ELSE b.slices
           /\ a.lastOut = IF sign = 1 /\ (b.lastOut = None \/ e.day > b.lastOut)
                          THEN e.day ELSE b.lastOut
           /\ a.allQty = b.allQty /\ a.allWeighted = b.allWeighted
<1> DEFINE slices == IF sign = 1 THEN ConsumeSlices(b.slices, e) ELSE b.slices
           last == IF sign = 1 /\ (b.lastOut = None \/ e.day > b.lastOut)
                   THEN e.day ELSE b.lastOut
           balance == b.balance - sign * e.qty
<1>1. a = [b EXCEPT !.balance = balance, !.slices = slices, !.lastOut = last]
  BY DEF Issued, Bucket
<1> HIDE DEF slices, last, balance
<1>2. /\ a.slices = slices /\ a.lastOut = last
      /\ a.allQty = b.allQty /\ a.allWeighted = b.allWeighted
  BY <1>1 DEF Bucket
<1>3. QED
  BY <1>2 DEF slices, last

LEMMA CountedBook ==
    ASSUME NEW b \in Bucket, NEW i, NEW e, NEW sign, NEW a, a = Counted(b, i, e, sign)
    PROVE  /\ a.slices = b.slices \/ a.slices = << >>
           /\ a.lastOut = b.lastOut /\ a.allQty = b.allQty /\ a.allWeighted = b.allWeighted
BY DEF Counted, Bucket

\* The events and their terms are those of the dataset and the request.
LEMMA SameTerms ==
    ASSUME dataset' = dataset, request' = request
    PROVE  /\ Terms' = Terms /\ Horizon' = Horizon
           /\ \A i : KeyOf(i)' = KeyOf(i)
<1>1. \A i : Origin(i)' = Origin(i) /\ SignOf(i)' = SignOf(i)
  BY DEF Origin, Chain, SignOf, Layers
<1>2. \A i : KeyOf(i)' = KeyOf(i)
  BY <1>1 DEF KeyOf
<1>3. Horizon' = Horizon
  BY <1>1 DEF Horizon, InHorizon, InScope
<1>4. Terms' = Terms
  BY <1>1, <1>2, <1>3 DEF Terms
<1>5. QED
  BY <1>2, <1>3, <1>4

LEMMA HorizonFacts ==
    ASSUME StockIInv, pc \in {"replay", "done"}
    PROVE  /\ Horizon \subseteq DOMAIN dataset /\ IsFiniteSet(Horizon) /\ IsFiniteSet(DOMAIN dataset)
           /\ \A i \in Horizon :
                 /\ Origin(i) \in DOMAIN dataset /\ dataset[Origin(i)].move # "REVERSAL"
                 /\ dataset[i] \in Moved /\ dataset[Origin(i)] \in Moved
                 /\ KeyOf(i) \in Keys /\ SignOf(i) \in {1, -1}
                 /\ ~Reverses(i) => Origin(i) = i /\ SignOf(i) = 1
<1>1. Horizon \subseteq DOMAIN dataset
  BY DEF Horizon
<1>2. ReversalsResolve
  BY DEF StockIInv, ReplayInv
<1>3. /\ \A i \in DOMAIN dataset : dataset[i] \in Moved /\ i # None
      /\ DOMAIN dataset \subseteq DOMAIN ledger /\ DOMAIN ledger = 1..Len(ledger)
      /\ Len(ledger) \in Nat
  BY RowFacts DEF StockIInv
<1>4. IsFiniteSet(DOMAIN dataset)
  <2>1. IsFiniteSet(1..Len(ledger))
    BY <1>3, FS_Interval
  <2>2. QED
    BY <1>3, <2>1, FS_Subset
<1>5. IsFiniteSet(Horizon)
  BY <1>1, <1>4, FS_Subset
<1>6. ASSUME NEW i \in Horizon
      PROVE  /\ Origin(i) \in DOMAIN dataset /\ dataset[Origin(i)].move # "REVERSAL"
             /\ dataset[i] \in Moved /\ dataset[Origin(i)] \in Moved
             /\ KeyOf(i) \in Keys /\ SignOf(i) \in {1, -1}
             /\ ~Reverses(i) => Origin(i) = i /\ SignOf(i) = 1
  <2>1. Origin(i) \in DOMAIN dataset /\ dataset[Origin(i)].move # "REVERSAL"
    BY <1>1, <1>2 DEF ReversalsResolve
  <2>2. dataset[i] \in Moved /\ dataset[Origin(i)] \in Moved /\ i # None
    BY <1>1, <1>3, <2>1
  <2>3. KeyOf(i) \in Keys
    BY <2>2, MovedFacts DEF KeyOf, Keys
  <2>4. SignOf(i) \in {1, -1}
    BY SignIsOne
  <2>5. ~Reverses(i) => Origin(i) = i /\ SignOf(i) = 1
    BY <1>1, <2>2, OwnOrigin
  <2>6. QED
    BY <2>1, <2>2, <2>3, <2>4, <2>5
<1>7. QED
  BY <1>1, <1>4, <1>5, <1>6

LEMMA TermsType ==
    ASSUME StockIInv, pc \in {"replay", "done"}
    PROVE  TermTable(Terms) /\ DOMAIN Terms = Horizon
<1>1. DOMAIN Terms = Horizon /\ IsFiniteSet(Horizon) /\ Terms = [i \in Horizon |-> Terms[i]]
  BY HorizonFacts DEF Terms
<1>2. ASSUME NEW i \in Horizon
      PROVE  /\ Terms[i] \in TermRow
             /\ Terms[i].own.move \in Outbound
                   => Terms[i].base = Terms[i].own /\ Terms[i].sign = 1
  <2>1. /\ dataset[i] \in Moved /\ dataset[Origin(i)] \in Moved
        /\ KeyOf(i) \in Keys /\ SignOf(i) \in {1, -1}
        /\ ~Reverses(i) => Origin(i) = i /\ SignOf(i) = 1
    BY HorizonFacts
  <2>2. Terms[i] = [key |-> KeyOf(i), own |-> dataset[i],
                    base |-> dataset[Origin(i)], sign |-> SignOf(i)]
    BY DEF Terms
  <2>3. dataset[i].move \in Outbound => ~Reverses(i)
    BY DEF Outbound, Reverses
  <2>4. QED
    BY <2>1, <2>2, <2>3 DEF TermRow
<1>3. QED
  BY <1>1, <1>2 DEF TermTable

\* A step of the replay, from what it does to the bucket of its event.
LEMMA AdvanceDates ==
    ASSUME StockIInv, DatesInv, NEW i \in pending, Turn(i), InHorizon(dataset[Origin(i)]),
           NEW a \in Bucket, NEW delta \in Int, Advance(i, a, delta), NEW o, o = buckets[KeyOf(i)],
           NEW e, e = dataset[Origin(i)],
           \A P \in SUBSET Horizon : SlicesDated(o.slices, Terms, P)
               => SlicesDated(a.slices, Terms, P \union {i}),
           e.move \in Inbound =>
               /\ a.allQty = o.allQty + SignOf(i) * e.qty
               /\ a.allWeighted = o.allWeighted + SignOf(i) * e.qty * e.day,
           e.move \notin Inbound =>
               a.allQty = o.allQty /\ a.allWeighted = o.allWeighted,
           o.lastOut # None => a.lastOut # None /\ a.lastOut >= o.lastOut,
           dataset[i].move \in Outbound => a.lastOut # None /\ a.lastOut >= dataset[i].day
    PROVE  DatesInv'
<1>0. PICK k \in Keys : k = KeyOf(i)
  BY TurnFacts
<1> DEFINE in == InPeriod(dataset[i])
           day == dataset[i].day
           b == Tracked([Charged(a, delta, day) EXCEPT !.live = TRUE], day, in)
           T == Terms
           P == Replayed(k)
<1>1. /\ pc = "replay" /\ i \in DOMAIN dataset /\ dataset[i] \in Moved
      /\ i \in Touching(k)
  BY <1>0, TurnFacts
<1>2. i \in Horizon /\ i \notin P /\ P \in SUBSET Horizon
  BY <1>1 DEF Touching, Replayed
<1>3. /\ buckets' = [buckets EXCEPT ![k] = b] /\ pending' = pending \ {i}
      /\ UNCHANGED <<pc, request, dataset>>
  BY <1>0 DEF Advance
<1>4. TermTable(T) /\ DOMAIN T = Horizon
  BY <1>1, TermsType
<1>5. /\ T[i].base = e /\ T[i].own = dataset[i] /\ T[i].sign = SignOf(i)
  BY <1>2 DEF Terms
<1>6. SameBook(a, b) /\ b.live
  <2>1. day \in Days /\ in \in BOOLEAN
    BY <1>1, MovedFacts DEF InPeriod
  <2> HIDE DEF day, in
  <2>2. QED
    BY <2>1, TailBook
<1>7. /\ Terms' = T /\ Horizon' = Horizon /\ \A j : KeyOf(j)' = KeyOf(j)
  BY <1>3, SameTerms
<1>8. Replayed(k)' = P \union {i} /\ \A c \in Keys \ {k} : Replayed(c)' = Replayed(c)
  <2>1. \A c : Replayed(c)' = {j \in Horizon \ (pending \ {i}) : KeyOf(j) = c}
    BY <1>3, <1>7 DEF Replayed
  <2>2. KeyOf(i) = k
    BY <1>0
  <2>3. \A c \in Keys \ {k} : Replayed(c)' = Replayed(c)
    BY <2>1, <2>2 DEF Replayed
  <2>4. Replayed(k)' = P \union {i}
    <3>1. Replayed(k)' = {j \in Horizon \ (pending \ {i}) : KeyOf(j) = k}
      BY <2>1
    <3>2. P = {j \in Horizon \ pending : KeyOf(j) = k}
      BY DEF Replayed
    <3>3. i \in Horizon /\ KeyOf(i) = k
      BY <1>2, <2>2
    <3> HIDE DEF P
    <3>4. QED
      BY <3>1, <3>2, <3>3
  <2>5. QED
    BY <2>3, <2>4
<1>9. buckets \in [Keys -> Bucket] /\ o \in Bucket
  BY <1>0 DEF StockIInv, TypeOK
<1>10. buckets'[k] = b /\ \A c \in Keys \ {k} : buckets'[c] = buckets[c]
  BY <1>1, <1>3, <1>9
<1>11. Dated(o, T, P) /\ \A c \in Keys : Dated(buckets[c], T, Replayed(c))
  BY <1>1, <1>0 DEF DatesInv
<1>12. /\ b.slices = a.slices /\ b.lastOut = a.lastOut
       /\ b.allQty = a.allQty /\ b.allWeighted = a.allWeighted
  BY <1>6 DEF SameBook
<1>13. SlicesDated(b.slices, T, P \union {i})
  BY <1>2, <1>11, <1>12 DEF Dated
<1>14. /\ Came(T)[i] = SignOf(i) * e.qty
       /\ CameDay(T)[i] = SignOf(i) * e.qty * e.day
  BY <1>2, <1>4, <1>5, TermFacts
<1>15. o.lastOut \in Days \union {None} /\ b.lastOut \in Days \union {None}
  BY <1>9, <1>12, BucketParts
<1> HIDE DEF b, T, P
<1>16. Dated(b, T, P \union {i})
  <2>1. e.move \in Inbound =>
            b.allQty = o.allQty + Came(T)[i] /\ b.allWeighted = o.allWeighted + CameDay(T)[i]
    BY <1>12, <1>14
  <2>2. e.move \notin Inbound => b.allQty = o.allQty /\ b.allWeighted = o.allWeighted
    BY <1>12
  <2>3. /\ o.lastOut # None => b.lastOut # None /\ b.lastOut >= o.lastOut
        /\ dataset[i].move \in Outbound => b.lastOut # None /\ b.lastOut >= dataset[i].day
    BY <1>12
  <2>4. P \in SUBSET DOMAIN T /\ i \in DOMAIN T \ P
    BY <1>2, <1>4
  <2>5. QED
    BY <1>4, <1>5, <1>6, <1>11, <1>13, <1>15, <2>1, <2>2, <2>3, <2>4, DatedGrows
<1>17. ASSUME NEW c \in Keys
       PROVE  Dated(buckets'[c], T, Replayed(c)')
  <2>1. CASE c = k
    <3>1. buckets'[c] = b
      BY <1>10, <2>1
    <3>2. Replayed(k)' = P \union {i}
      BY <1>8
    <3>3. Replayed(c)' = P \union {i}
      BY <2>1, <3>2 DEF Replayed
    <3>4. QED
      BY <1>16, <3>1, <3>3
  <2>2. CASE c # k
    BY <1>8, <1>10, <1>11, <2>2
  <2>3. QED
    BY <2>1, <2>2
<1>18. \A c \in Keys : Dated(buckets[c], Terms, Replayed(c))'
  BY <1>7, <1>17 DEF Dated, SlicesDated, T
<1>19. QED
  BY <1>1, <1>3, <1>18 DEF DatesInv


LEMMA OpenedBook ==
    ASSUME StockIInv, NEW i \in pending, Turn(i)
    PROVE  SameBook(buckets[KeyOf(i)], Opened(i))
<1>1. buckets[KeyOf(i)] \in Bucket
  BY TurnFacts DEF StockIInv, TypeOK
<1>2. QED
  BY <1>1, CapturedBook DEF Opened, SameBook

\* The slices after a step, when their dates are those before it or the event's.
LEMMA SlicesKept ==
    ASSUME NEW T, NEW P, NEW i, NEW s, NEW a, SlicesDated(s, T, P), SameDates(a, s)
    PROVE  SlicesDated(a, T, P \union {i})
<1>1. ASSUME NEW n \in DOMAIN a
      PROVE  \E j \in Ins(T, P \union {i}) : a[n].day = T[j].base.day
  <2>1. n \in DOMAIN s /\ a[n].day = s[n].day
    BY DEF SameDates
  <2>2. PICK j \in Ins(T, P) : s[n].day = T[j].base.day
    BY <2>1 DEF SlicesDated
  <2>3. j \in Ins(T, P \union {i})
    BY <2>2 DEF Ins
  <2>4. QED
    BY <2>1, <2>2, <2>3
<1>2. QED
  BY <1>1 DEF SlicesDated

LEMMA SlicesJoined ==
    ASSUME NEW T, NEW P, NEW i, NEW s, NEW a, SlicesDated(s, T, P),
           DatesAnd(a, s, T[i].base.day), T[i].base.move \in Inbound
    PROVE  SlicesDated(a, T, P \union {i})
<1>1. ASSUME NEW n \in DOMAIN a
      PROVE  \E j \in Ins(T, P \union {i}) : a[n].day = T[j].base.day
  <2>1. CASE a[n].day = T[i].base.day
    <3>1. i \in Ins(T, P \union {i})
      BY DEF Ins
    <3>2. QED
      BY <2>1, <3>1
  <2>2. CASE \E m \in DOMAIN s : a[n].day = s[m].day
    <3>1. PICK m \in DOMAIN s : a[n].day = s[m].day
      BY <2>2
    <3>2. PICK j \in Ins(T, P) : s[m].day = T[j].base.day
      BY DEF SlicesDated
    <3>3. j \in Ins(T, P \union {i})
      BY <3>2 DEF Ins
    <3>4. QED
      BY <3>1, <3>2, <3>3
  <2>3. QED
    BY <2>1, <2>2 DEF DatesAnd
<1>2. QED
  BY <1>1 DEF SlicesDated

LEMMA InboundDates ==
    ASSUME StockIInv, DatesInv, NEW i \in pending, ReplayInbound(i)
    PROVE  DatesInv'
<1> DEFINE e == dataset[Origin(i)]
           o == buckets[KeyOf(i)]
           p == Opened(i)
           a == Received(p, e, SignOf(i))
           delta == OutDelta(e, SignOf(i), InPeriod(e))
<1>1. Turn(i) /\ InHorizon(e) /\ e.move \in Inbound /\ Advance(i, a, delta)
  BY DEF ReplayInbound
<1>2. /\ i \in DOMAIN dataset /\ Booked(e) /\ p \in Bucket /\ SameBook(o, p)
      /\ i \in Horizon /\ SignOf(i) \in {1, -1} /\ InPeriod(e) \in BOOLEAN
  BY <1>1, TurnFacts, MovedFacts, OpenedBook, SignIsOne DEF Touching, InPeriod
<1>3. /\ Terms[i].base = e /\ Slicable(e)
      /\ dataset[i].move \notin Outbound
  <2>1. dataset[i].move \in Outbound => ~Reverses(i) /\ Origin(i) = i
    BY <1>2, OwnOrigin, RowFacts DEF StockIInv, Outbound, Reverses
  <2>2. Terms[i].base = e
    BY <1>2 DEF Terms
  <2>3. dataset[i].move \notin Outbound
    BY <1>1, <2>1 DEF Inbound, Outbound
  <2>4. QED
    BY <1>2, <2>2, <2>3 DEF Booked
<1>4. a \in Bucket /\ delta \in Int
  <2>1. a \in Bucket
    BY <1>2, ReceivedType
  <2>2. delta \in Int
    <3> DEFINE in == InPeriod(e)
    <3> HIDE DEF in, e
    <3>1. QED
      BY <1>2, OutDeltaType DEF in
  <2>3. QED
    BY <2>1, <2>2
<1>5. /\ a.slices = IF SignOf(i) = 1 THEN AddSlice(p.slices, e) ELSE RemoveSlices(p.slices, e)
      /\ a.lastOut = p.lastOut /\ a.allQty = p.allQty + SignOf(i) * e.qty
      /\ a.allWeighted = p.allWeighted + SignOf(i) * e.qty * e.day
  BY <1>2, ReceivedBook
<1>6. p.slices = o.slices /\ p.lastOut = o.lastOut /\ p.allQty = o.allQty
      /\ p.allWeighted = o.allWeighted /\ p.slices \in Seq(SliceRow)
      /\ p.lastOut \in Days \union {None}
  BY <1>2, BucketParts DEF SameBook
<1> HIDE DEF a, delta, p, o, e
<1>7. ASSUME NEW P \in SUBSET Horizon, SlicesDated(o.slices, Terms, P)
      PROVE  SlicesDated(a.slices, Terms, P \union {i})
  <2>1. CASE SignOf(i) = 1
    <3>1. DatesAnd(a.slices, o.slices, Terms[i].base.day)
      BY <1>3, <1>5, <1>6, <2>1, AddSliceHolds
    <3>2. QED
      BY <1>1, <1>3, <1>7, <3>1, SlicesJoined
  <2>2. CASE SignOf(i) # 1
    <3>1. SameDates(a.slices, o.slices)
      BY <1>3, <1>5, <1>6, <2>2, RemoveHolds
    <3>2. QED
      BY <1>7, <3>1, SlicesKept
  <2>3. QED
    BY <2>1, <2>2
<1>8. /\ a.allQty = o.allQty + SignOf(i) * e.qty
      /\ a.allWeighted = o.allWeighted + SignOf(i) * e.qty * e.day
  BY <1>5, <1>6
<1>9. o.lastOut # None => a.lastOut # None /\ a.lastOut >= o.lastOut
  <2>1. Days \subseteq Int
    BY StockAssumption DEF StockAssumption, Days
  <2>2. QED
    BY <1>5, <1>6, <2>1
<1>10. QED
  BY <1>1, <1>3, <1>4, <1>7, <1>8, <1>9, AdvanceDates DEF o, e

LEMMA OutboundDates ==
    ASSUME StockIInv, DatesInv, NEW i \in pending, ReplayOutbound(i)
    PROVE  DatesInv'
<1> DEFINE e == dataset[Origin(i)]
           o == buckets[KeyOf(i)]
           p == Opened(i)
           a == Issued(p, e, SignOf(i))
           delta == OutDelta(e, SignOf(i), InPeriod(e))
<1>1. Turn(i) /\ InHorizon(e) /\ e.move \in Outbound /\ Advance(i, a, delta)
  BY DEF ReplayOutbound
<1>2. /\ i \in DOMAIN dataset /\ Booked(e) /\ p \in Bucket /\ SameBook(o, p)
      /\ i \in Horizon /\ SignOf(i) \in {1, -1} /\ InPeriod(e) \in BOOLEAN
  BY <1>1, TurnFacts, MovedFacts, OpenedBook, SignIsOne DEF Touching, InPeriod
<1>3. /\ Slicable(e) /\ e.move \notin Inbound
      /\ dataset[i].move \in Outbound => dataset[i] = e /\ SignOf(i) = 1
  <2>1. dataset[i].move \in Outbound => ~Reverses(i) /\ Origin(i) = i /\ SignOf(i) = 1
    BY <1>2, OwnOrigin, RowFacts DEF StockIInv, Outbound, Reverses
  <2>2. QED
    BY <1>1, <1>2, <2>1 DEF Booked, Inbound, Outbound
<1>4. a \in Bucket /\ delta \in Int
  <2>1. a \in Bucket
    BY <1>2, IssuedType
  <2>2. delta \in Int
    <3> DEFINE in == InPeriod(e)
    <3> HIDE DEF in, e
    <3>1. QED
      BY <1>2, OutDeltaType DEF in
  <2>3. QED
    BY <2>1, <2>2
<1>5. /\ a.slices = IF SignOf(i) = 1 THEN ConsumeSlices(p.slices, e) ELSE p.slices
      /\ a.lastOut = IF SignOf(i) = 1 /\ (p.lastOut = None \/ e.day > p.lastOut)
                     THEN e.day ELSE p.lastOut
      /\ a.allQty = p.allQty /\ a.allWeighted = p.allWeighted
  BY <1>2, IssuedBook
<1>6. p.slices = o.slices /\ p.lastOut = o.lastOut /\ p.allQty = o.allQty
      /\ p.allWeighted = o.allWeighted /\ p.slices \in Seq(SliceRow)
      /\ p.lastOut \in Days \union {None}
  BY <1>2, BucketParts DEF SameBook
<1> HIDE DEF a, delta, p, o, e
<1>7. ASSUME NEW P \in SUBSET Horizon, SlicesDated(o.slices, Terms, P)
      PROVE  SlicesDated(a.slices, Terms, P \union {i})
  <2>1. SameDates(a.slices, o.slices)
    <3>1. CASE SignOf(i) = 1
      BY <1>3, <1>5, <1>6, <3>1, ConsumeHolds
    <3>2. CASE SignOf(i) # 1
      BY <1>5, <1>6, <3>2 DEF SameDates
    <3>3. QED
      BY <3>1, <3>2
  <2>2. QED
    BY <1>7, <2>1, SlicesKept
<1>8. a.allQty = o.allQty /\ a.allWeighted = o.allWeighted
  BY <1>5, <1>6
<1>9. /\ o.lastOut # None => a.lastOut # None /\ a.lastOut >= o.lastOut
      /\ dataset[i].move \in Outbound => a.lastOut # None /\ a.lastOut >= dataset[i].day
  <2>1. Days \subseteq Int /\ e.day \in Days /\ None \notin Days
    <3>1. Days \subseteq Int /\ None \notin Days
      BY StockAssumption, NoneApart DEF StockAssumption, Days
    <3>2. QED
      BY <1>3, <3>1 DEF Slicable
  <2>2. p.lastOut \in Int \/ p.lastOut = None
    BY <1>6, <2>1
  <2>3. e.day \in Int /\ e.day # None
    BY <2>1
  <2>4. /\ o.lastOut # None => a.lastOut # None /\ a.lastOut >= o.lastOut
        /\ SignOf(i) = 1 => a.lastOut # None /\ a.lastOut >= e.day
    BY <1>5, <1>6, <2>2, <2>3
  <2>5. QED
    BY <1>3, <2>4
<1>10. QED
  BY <1>1, <1>3, <1>4, <1>7, <1>8, <1>9, AdvanceDates DEF o, e


LEMMA StocktakeDates ==
    ASSUME StockIInv, DatesInv, NEW i \in pending, ReplayStocktake(i)
    PROVE  DatesInv'
<1> DEFINE e == dataset[Origin(i)]
           o == buckets[KeyOf(i)]
           p == Opened(i)
           a == Counted(p, Origin(i), e, SignOf(i))
<1>1. Turn(i) /\ InHorizon(e) /\ e.move = "STOCKTAKE" /\ Advance(i, a, 0)
  BY DEF ReplayStocktake
<1>2. /\ i \in DOMAIN dataset /\ Booked(e) /\ p \in Bucket /\ SameBook(o, p)
      /\ Origin(i) \in Ids /\ SignOf(i) \in {1, -1}
  BY <1>1, TurnFacts, MovedFacts, OpenedBook, SignIsOne
<1>3. e.move \notin Inbound /\ dataset[i].move \notin Outbound
  <2>1. dataset[i].move \in Outbound => Origin(i) = i
    BY <1>2, OwnOrigin, RowFacts DEF StockIInv, Outbound, Reverses
  <2>2. QED
    BY <1>1, <2>1 DEF Inbound, Outbound
<1>4. a \in Bucket
  BY <1>2, CountedType
<1>5. /\ a.slices = p.slices \/ a.slices = << >>
      /\ a.lastOut = p.lastOut /\ a.allQty = p.allQty /\ a.allWeighted = p.allWeighted
  BY <1>2, CountedBook
<1>6. p.slices = o.slices /\ p.lastOut = o.lastOut /\ p.allQty = o.allQty
      /\ p.allWeighted = o.allWeighted /\ p.lastOut \in Days \union {None}
  BY <1>2, BucketParts DEF SameBook
<1> HIDE DEF a, p, o, e
<1>7. ASSUME NEW P \in SUBSET Horizon, SlicesDated(o.slices, Terms, P)
      PROVE  SlicesDated(a.slices, Terms, P \union {i})
  <2>1. CASE a.slices = o.slices
    <3>1. SameDates(a.slices, o.slices)
      BY <2>1 DEF SameDates
    <3>2. QED
      BY <1>7, <3>1, SlicesKept
  <2>2. CASE a.slices = << >>
    BY <2>2 DEF SlicesDated
  <2>3. QED
    BY <1>5, <1>6, <2>1, <2>2
<1>8. a.allQty = o.allQty /\ a.allWeighted = o.allWeighted
  BY <1>5, <1>6
<1>9. o.lastOut # None => a.lastOut # None /\ a.lastOut >= o.lastOut
  <2>1. a.lastOut = o.lastOut /\ (o.lastOut # None => o.lastOut \in Int)
    <3>1. Days \subseteq Int
      BY StockAssumption DEF StockAssumption, Days
    <3>2. QED
      BY <1>5, <1>6, <3>1
  <2>2. QED
    BY <2>1
<1>10. QED
  BY <1>1, <1>3, <1>4, <1>7, <1>8, <1>9, AdvanceDates DEF o, e

LEMMA TransferDates ==
    ASSUME StockIInv, DatesInv, NEW i \in pending, ReplayTransfer(i)
    PROVE  DatesInv'
<1> DEFINE e == dataset[Origin(i)]
           o == buckets[KeyOf(i)]
           a == Opened(i)
<1>1. Turn(i) /\ InHorizon(e) /\ e.move = "TRANSFER" /\ Advance(i, a, 0)
  BY DEF ReplayTransfer
<1>2. i \in DOMAIN dataset /\ a \in Bucket /\ SameBook(o, a)
  BY <1>1, TurnFacts, OpenedBook
<1>3. e.move \notin Inbound /\ dataset[i].move \notin Outbound
  <2>1. dataset[i].move \in Outbound => Origin(i) = i
    BY <1>2, OwnOrigin, RowFacts DEF StockIInv, Outbound, Reverses
  <2>2. QED
    BY <1>1, <2>1 DEF Inbound, Outbound
<1>4. a.slices = o.slices /\ a.lastOut = o.lastOut /\ a.allQty = o.allQty
      /\ a.allWeighted = o.allWeighted /\ a.lastOut \in Days \union {None}
  BY <1>2, BucketParts DEF SameBook
<1> HIDE DEF a, o, e
<1>5. SameDates(a.slices, o.slices)
  BY <1>4 DEF SameDates
<1>6. \A P \in SUBSET Horizon : SlicesDated(o.slices, Terms, P)
         => SlicesDated(a.slices, Terms, P \union {i})
  BY <1>5, SlicesKept
<1>7. o.lastOut # None => a.lastOut # None /\ a.lastOut >= o.lastOut
  <2>1. a.lastOut = o.lastOut /\ (o.lastOut # None => o.lastOut \in Int)
    <3>1. Days \subseteq Int
      BY StockAssumption DEF StockAssumption, Days
    <3>2. QED
      BY <1>4, <3>1
  <2>2. QED
    BY <2>1
<1>8. QED
  BY <1>1, <1>2, <1>3, <1>4, <1>6, <1>7, AdvanceDates DEF o, e

LEMMA SkipDates ==
    ASSUME StockIInv, DatesInv, NEW i \in pending, SkipReversal(i)
    PROVE  DatesInv'
<1>1. /\ pc = "replay" /\ ~InHorizon(dataset[Origin(i)]) /\ pending' = pending \ {i}
      /\ UNCHANGED <<pc, request, dataset, buckets>>
  BY DEF SkipReversal, Turn
<1>2. i \notin Horizon
  BY <1>1 DEF Horizon
<1>3. Terms' = Terms /\ Horizon' = Horizon /\ \A j : KeyOf(j)' = KeyOf(j)
  BY <1>1, SameTerms
<1>4. ASSUME NEW k PROVE Replayed(k)' = Replayed(k)
  BY <1>1, <1>2, <1>3 DEF Replayed
<1>5. QED
  BY <1>1, <1>3, <1>4 DEF DatesInv, Dated, SlicesDated

LEMMA FinishDates ==
    ASSUME StockIInv, DatesInv, FinishReplay
    PROVE  DatesInv'
<1>1. /\ pc = "replay" /\ pc' = "done"
      /\ buckets' = [k \in Keys |-> IF buckets[k].live THEN Captured(buckets[k])
                                                       ELSE buckets[k]]
      /\ UNCHANGED <<request, dataset, pending>>
  BY DEF FinishReplay
<1>2. Terms' = Terms /\ Horizon' = Horizon /\ \A j : KeyOf(j)' = KeyOf(j)
  BY <1>1, SameTerms
<1>3. ASSUME NEW k PROVE Replayed(k)' = Replayed(k)
  BY <1>1, <1>2 DEF Replayed
<1>4. ASSUME NEW k \in Keys PROVE Dated(buckets'[k], Terms, Replayed(k))
  <2>1. buckets[k] \in Bucket /\ Dated(buckets[k], Terms, Replayed(k))
    BY <1>1 DEF StockIInv, TypeOK, DatesInv
  <2>2. SameBook(buckets[k], buckets'[k]) /\ buckets'[k].live = buckets[k].live
    BY <1>1, <2>1, CapturedBook DEF SameBook
  <2>3. QED
    BY <2>1, <2>2 DEF Dated, SameBook
<1>5. ASSUME NEW k \in Keys PROVE Dated(buckets'[k], Terms', Replayed(k)')
  BY <1>2, <1>3, <1>4
<1>6. QED
  BY <1>1, <1>5 DEF DatesInv

\* Nothing has been replayed to a new bucket.
LEMMA StartDates ==
    ASSUME StockIInv, DatesInv, StartReplay
    PROVE  DatesInv'
<1>1. /\ pc = "loaded" /\ pc' = "replay"
      /\ pending' = {i \in DOMAIN dataset : InHorizon(dataset[i])}
      /\ UNCHANGED <<request, dataset, buckets>>
  BY DEF StartReplay
<1>2. Terms' = Terms /\ Horizon' = Horizon /\ \A j : KeyOf(j)' = KeyOf(j)
  BY <1>1, SameTerms
<1>3. ASSUME NEW k PROVE Replayed(k)' = {}
  BY <1>1, <1>2 DEF Replayed, Horizon
<1>4. ASSUME NEW k \in Keys PROVE Dated(buckets'[k], Terms, {})
  <2>1. buckets'[k] = NewBucket
    BY <1>1 DEF StockIInv, FreshInv
  <2>2. Ins(Terms, {}) = {}
    BY DEF Ins
  <2>3. Total(Came(Terms), {}) = 0 /\ Total(CameDay(Terms), {}) = 0
    BY TotalOfNone
  <2>4. /\ buckets'[k].slices = << >> /\ buckets'[k].allQty = 0
        /\ buckets'[k].allWeighted = 0 /\ buckets'[k].live = FALSE
    BY <2>1 DEF NewBucket
  <2>5. QED
    BY <2>2, <2>3, <2>4 DEF Dated, SlicesDated
<1>5. ASSUME NEW k \in Keys PROVE Dated(buckets'[k], Terms', Replayed(k)')
  BY <1>2, <1>3, <1>4
<1>6. QED
  BY <1>1, <1>5 DEF DatesInv

\* The other steps leave the engine alone or set the request.
LEMMA RestDates ==
    ASSUME StockIInv, DatesInv,
           \/ UNCHANGED vars
           \/ \E row \in Menu, day \in Days, rev \in 1..Len(ledger) + 1 \union {None} :
                 Record(row, day, rev)
           \/ AskLocal \/ LoadLocal \/ (\E q \in Requests : LoadContract(q))
           \/ Refuse \/ Return
    PROVE  DatesInv'
<1>1. CASE UNCHANGED vars \/ \E row \in Menu, day \in Days, rev \in 1..Len(ledger) + 1 \union {None} :
                                Record(row, day, rev)
  <2>1. UNCHANGED engine
    BY <1>1 DEF vars, Record
  <2>2. UNCHANGED <<pc, request, dataset, buckets, pending>>
    BY <2>1 DEF engine
  <2>3. Terms' = Terms /\ Horizon' = Horizon /\ \A j : KeyOf(j)' = KeyOf(j)
    BY <2>2, SameTerms
  <2>4. ASSUME NEW k PROVE Replayed(k)' = Replayed(k)
    BY <2>2, <2>3 DEF Replayed
  <2>5. QED
    BY <2>2, <2>3, <2>4 DEF DatesInv, Dated, SlicesDated
<1>2. CASE AskLocal
  <2>1. pc' = "asked" /\ request' \in Period
    BY <1>2, DefaultInPeriod DEF AskLocal
  <2>2. QED
    BY <2>1 DEF DatesInv
<1>3. CASE \E q \in Requests : LoadContract(q)
  <2>1. pc' = "loaded" /\ request' \in Period
    BY <1>3, StockAssumption DEF LoadContract, StockAssumption
  <2>2. QED
    BY <2>1 DEF DatesInv
<1>4. CASE LoadLocal \/ Refuse \/ Return
  <2>1. \/ pc' = "idle"
        \/ pc # "idle" /\ pc' \in {"loaded", "refused"} /\ request' = request
    BY <1>4 DEF LoadLocal, Refuse, Return
  <2>2. QED
    BY <2>1 DEF DatesInv
<1>5. QED
  BY <1>1, <1>2, <1>3, <1>4

\* What the buckets know of the dates holds in every reachable state.
LEMMA DatesInvariance == Spec => []DatesInv
<1>1. Init => DatesInv
  BY DEF Init, DatesInv
<1>2. StockIInv /\ DatesInv /\ [Next]_vars => DatesInv'
  <2> SUFFICES ASSUME StockIInv, DatesInv, [Next]_vars PROVE DatesInv'
    OBVIOUS
  <2>1. ASSUME NEW i \in pending,
               ReplayInbound(i) \/ ReplayOutbound(i) \/ ReplayStocktake(i)
                  \/ ReplayTransfer(i) \/ SkipReversal(i)
        PROVE  DatesInv'
    BY <2>1, InboundDates, OutboundDates, StocktakeDates, TransferDates, SkipDates
  <2>2. CASE StartReplay
    BY <2>2, StartDates
  <2>3. CASE FinishReplay
    BY <2>3, FinishDates
  <2>4. QED
    BY <2>1, <2>2, <2>3, RestDates DEF Next
<1>3. QED
  BY <1>1, <1>2, ReplayInvariance, PTL DEF Spec


\* A sum of weights, each counted as often as its events stand.
LEMMA StandingWeights ==
    ASSUME NEW R, IsFiniteSet(R), NEW s, Ints(s, R), NEW p, NEW B, IsFiniteSet(B),
           \A i \in R : p[i] \in B, NEW w, \A i \in R : w[p[i]] \in Nat,
           \A b \in B : Total(s, {i \in R : p[i] = b}) >= 0,
           NEW f, \A i \in R : f[i] = w[p[i]] * s[i]
    PROVE  Ints(f, R) /\ Total(f, R) >= 0
<1> DEFINE part(b) == {i \in R : p[i] = b}
           parts == [b \in B |-> Total(f, part(b))]
<1>1. Ints(f, R)
  BY DEF Ints
<1>2. Total(f, R) = Total(parts, B)
  BY <1>1, TotalByPart
<1>3. ASSUME NEW b \in B PROVE Total(f, part(b)) \in Nat
  <2>1. part(b) \in SUBSET R
    OBVIOUS
  <2>2. IsFiniteSet(part(b)) /\ Ints(s, part(b)) /\ Total(s, part(b)) >= 0
    BY <2>1, FS_Subset DEF Ints
  <2>3. Total(s, part(b)) \in Int
    <3> HIDE DEF part
    <3>1. QED
      BY <2>2, TotalType
  <2>4. CASE part(b) = {}
    <3>1. Total(f, part(b)) = Total(f, {})
      BY <2>4
    <3>2. QED
      BY <3>1, TotalOfNone
  <2>5. CASE part(b) # {}
    <3>1. w[b] \in Nat /\ \A i \in part(b) : f[i] = w[b] * s[i]
      BY <2>5
    <3> HIDE DEF part
    <3>2. Total(f, part(b)) = w[b] * Total(s, part(b))
      BY <2>2, <3>1, TotalScaled
    <3> DEFINE x == w[b]
               y == Total(s, part(b))
    <3>3. x \in Nat /\ y \in Nat
      BY <2>2, <2>3, <3>1
    <3> HIDE DEF x, y
    <3>4. x * y \in Nat
      BY <3>3
    <3>5. QED
      BY <3>2, <3>4 DEF x, y
  <2>6. QED
    BY <2>4, <2>5
<1> HIDE DEF part
<1>4. Nats(parts, B)
  BY <1>3 DEF Nats
<1> HIDE DEF parts
<1>5. Total(parts, B) \in Nat
  BY <1>4, TotalType
<1>6. QED
  BY <1>1, <1>2, <1>5

\* The inbounds behind a SKU's ages.
Arrivals(s) == {i \in Horizon : /\ dataset[Origin(i)].sku = s
                                /\ dataset[Origin(i)].move \in Inbound}
ArrivalDays(s) == {dataset[Origin(i)].day : i \in Arrivals(s)}
Signs == [i \in Horizon |-> SignOf(i)]
AllStand == \A i \in DOMAIN dataset : Total(Signs, {j \in Horizon : Origin(j) = i}) >= 0

\* Those of one bucket, once all is replayed.
LEMMA BucketArrivals ==
    ASSUME StockIInv, DatesInv, pc = "done", NEW k \in Keys
    PROVE  /\ Replayed(k) = Touching(k) /\ Dated(buckets[k], Terms, Replayed(k))
           /\ \A i \in Ins(Terms, Replayed(k)) :
                 /\ i \in Arrivals(k[1]) /\ i \in Horizon /\ KeyOf(i) = k
                 /\ Terms[i].base = dataset[Origin(i)] /\ Terms[i].sign = SignOf(i)
                 /\ Terms[i].base.day \in ArrivalDays(k[1])
<1>1. pending = {} /\ Replayed(k) = Touching(k) /\ Dated(buckets[k], Terms, Replayed(k))
  BY DEF StockIInv, FreshInv, DatesInv, Replayed, Touching
<1>2. ASSUME NEW i \in Ins(Terms, Replayed(k))
      PROVE  /\ i \in Arrivals(k[1]) /\ i \in Horizon /\ KeyOf(i) = k
             /\ Terms[i].base = dataset[Origin(i)] /\ Terms[i].sign = SignOf(i)
             /\ Terms[i].base.day \in ArrivalDays(k[1])
  <2>1. i \in Horizon /\ KeyOf(i) = k /\ Terms[i].base.move \in Inbound
    BY DEF Ins, Replayed
  <2>2. Terms[i].base = dataset[Origin(i)] /\ Terms[i].sign = SignOf(i)
    BY <2>1 DEF Terms
  <2>3. k[1] = dataset[Origin(i)].sku
    BY <2>1 DEF KeyOf
  <2>4. i \in Arrivals(k[1])
    BY <2>1, <2>2, <2>3 DEF Arrivals
  <2>5. QED
    BY <2>1, <2>2, <2>4 DEF ArrivalDays
<1>3. QED
  BY <1>1, <1>2

LEMMA ArrivalBounds ==
    ASSUME StockIInv, pc = "done", NEW s, ArrivalDays(s) # {}
    PROVE  /\ Least(ArrivalDays(s)) \in Nat /\ Largest(ArrivalDays(s)) \in Nat
           /\ \A d \in ArrivalDays(s) : /\ d \in Nat /\ Least(ArrivalDays(s)) <= d
                                        /\ d <= Largest(ArrivalDays(s))
<1> DEFINE D == ArrivalDays(s)
<1>1. MaxDay \in Nat /\ Days = 0..MaxDay
  BY StockAssumption DEF StockAssumption, Days
<1>2. D \in SUBSET (0..MaxDay)
  <2>1. ASSUME NEW i \in Arrivals(s) PROVE dataset[Origin(i)].day \in 0..MaxDay
    <3>1. dataset[Origin(i)] \in Moved
      BY HorizonFacts DEF Arrivals
    <3>2. QED
      BY <1>1, <3>1 DEF Moved
  <2>2. QED
    BY <2>1 DEF ArrivalDays
<1> HIDE DEF D
<1>3. D # {}
  BY DEF D
<1>4. /\ Least(D) \in D /\ \A t \in D : Least(D) <= t
      /\ Largest(D) \in D /\ \A t \in D : t <= Largest(D)
  BY <1>1, <1>2, <1>3, BoundsOf
<1>5. D \subseteq Nat
  BY <1>1, <1>2
<1>6. QED
  BY <1>4, <1>5 DEF D

\* The fiber of an event among the arrivals of a bucket is all of its events.
LEMMA ArrivalsStand ==
    ASSUME StockIInv, DatesInv, pc = "done", AllStand, NEW k \in Keys, NEW b \in DOMAIN dataset
    PROVE  Total(Signs, {i \in Ins(Terms, Replayed(k)) : Origin(i) = b}) >= 0
<1> DEFINE F == {i \in Ins(Terms, Replayed(k)) : Origin(i) = b}
           G == {i \in Horizon : Origin(i) = b}
<1>1. Total(Signs, G) >= 0
  BY DEF AllStand
<1>2. CASE F = {}
  BY <1>2, TotalOfNone
<1>3. CASE F # {}
  <2>1. PICK i \in F : TRUE
    BY <1>3
  <2>2. i \in Horizon /\ KeyOf(i) = k /\ Origin(i) = b /\ dataset[b].move \in Inbound
    BY <2>1, BucketArrivals DEF Arrivals
  <2>3. KeyOf(i) = <<dataset[b].sku, dataset[b].wh>>
    BY <2>2 DEF KeyOf
  <2>4. ASSUME NEW j \in G PROVE j \in F
    <3>1. j \in Horizon /\ Origin(j) = b
      OBVIOUS
    <3>2. KeyOf(j) = k
      BY <2>2, <2>3, <3>1 DEF KeyOf
    <3>3. j \in Replayed(k)
      BY <3>1, <3>2, BucketArrivals DEF Touching
    <3>4. Terms[j].base.move \in Inbound
      BY <2>2, <3>1 DEF Terms
    <3>5. QED
      BY <3>1, <3>3, <3>4 DEF Ins
  <2>5. F \subseteq G
    BY BucketArrivals
  <2>6. F = G
    BY <2>4, <2>5
  <2>7. QED
    BY <1>1, <2>6
<1>4. QED
  BY <1>2, <1>3


\* The weighted days of a bucket's inbounds, against a day before or after them.
LEMMA WeightOf ==
    ASSUME NEW s \in {1, -1}, NEW q \in Int, NEW d \in Int, NEW c \in Int
    PROVE  /\ s * q * d - c * (s * q) = (q * (d - c)) * s
           /\ c * (s * q) - s * q * d = (q * (c - d)) * s
<1>1. CASE s = 1
  BY <1>1
<1>2. CASE s = -1
  BY <1>2
<1>3. QED
  BY <1>1, <1>2

LEMMA BucketWeighs ==
    ASSUME StockIInv, DatesInv, pc = "done", AllStand, NEW k \in Keys, NEW c \in Int
    PROVE  /\ (\A d \in ArrivalDays(k[1]) : c <= d)
                 => c * buckets[k].allQty <= buckets[k].allWeighted
           /\ (\A d \in ArrivalDays(k[1]) : d <= c)
                 => buckets[k].allWeighted <= c * buckets[k].allQty
<1> DEFINE T == Terms
           R == Ins(T, Replayed(k))
           B == DOMAIN dataset
           came == Came(T)
           days == CameDay(T)
           p == [i \in R |-> Origin(i)]
           g == [i \in R |-> c * came[i]]
<1>1. /\ TermTable(T) /\ DOMAIN T = Horizon /\ R \in SUBSET DOMAIN T
      /\ Dated(buckets[k], T, Replayed(k))
  <2>1. R \subseteq Horizon /\ Dated(buckets[k], T, Replayed(k))
    BY BucketArrivals
  <2>2. QED
    BY <2>1, TermsType
<1>2. IsFiniteSet(R) /\ Ints(came, R) /\ Ints(days, R)
  BY <1>1, TermSums
<1>3. ASSUME NEW i \in R
      PROVE  /\ Origin(i) \in B /\ i \in Horizon
             /\ Signs[i] \in {1, -1} /\ dataset[Origin(i)].qty \in Nat
             /\ dataset[Origin(i)].day \in Nat
             /\ dataset[Origin(i)].day \in ArrivalDays(k[1])
             /\ came[i] = Signs[i] * dataset[Origin(i)].qty
             /\ days[i] = Signs[i] * dataset[Origin(i)].qty * dataset[Origin(i)].day
  <2>1. /\ i \in Horizon /\ T[i].base = dataset[Origin(i)] /\ T[i].sign = SignOf(i)
        /\ T[i].base.day \in ArrivalDays(k[1])
    BY BucketArrivals
  <2>2. Signs[i] = T[i].sign
    BY <2>1 DEF Signs
  <2>3. /\ T[i].sign \in {1, -1} /\ T[i].base.day \in Days /\ T[i].base.qty \in Nat
        /\ came[i] = T[i].sign * T[i].base.qty
        /\ days[i] = T[i].sign * T[i].base.qty * T[i].base.day
    BY <1>1, <2>1, TermFacts
  <2>4. Days \subseteq Nat
    BY StockAssumption DEF StockAssumption, Days
  <2>5. Origin(i) \in B
    BY <2>1, HorizonFacts
  <2>6. QED
    BY <2>1, <2>2, <2>3, <2>4, <2>5
<1>4. IsFiniteSet(B)
  BY HorizonFacts
<1>5. Ints(Signs, R) /\ \A i \in R : p[i] \in B /\ p[i] = Origin(i)
  BY <1>3 DEF Ints
<1>6. \A b \in B : Total(Signs, {i \in R : p[i] = b}) >= 0
  <2> TAKE b \in B
  <2>1. {i \in R : p[i] = b} = {i \in R : Origin(i) = b}
    OBVIOUS
  <2>2. QED
    BY <2>1, ArrivalsStand
<1>7. Total(g, R) = c * Total(came, R) /\ Ints(g, R)
  <2>1. \A i \in R : g[i] = c * came[i] /\ g[i] \in Int
    BY <1>2 DEF Ints
  <2> HIDE DEF g, came, R
  <2>2. QED
    BY <1>2, <2>1, TotalScaled DEF Ints
<1>8. /\ buckets[k].allQty = Total(came, R) /\ buckets[k].allWeighted = Total(days, R)
      /\ Total(days, R) \in Int /\ Total(g, R) \in Int
  <2>1. buckets[k].allQty = Total(came, R) /\ buckets[k].allWeighted = Total(days, R)
    BY <1>1 DEF Dated
  <2> HIDE DEF R, came, days, g
  <2>2. QED
    BY <1>2, <1>7, <2>1, TotalType
<1>9. ASSUME \A d \in ArrivalDays(k[1]) : c <= d
      PROVE  c * buckets[k].allQty <= buckets[k].allWeighted
  <2> DEFINE f == [i \in R |-> days[i] - c * came[i]]
             w == [b \in B |-> dataset[b].qty * (dataset[b].day - c)]
  <2>1. ASSUME NEW i \in R
        PROVE  /\ w[p[i]] \in Nat /\ f[i] = w[p[i]] * Signs[i]
               /\ days[i] = f[i] + g[i]
    <3> DEFINE q == dataset[Origin(i)].qty
               d == dataset[Origin(i)].day
               x == Signs[i]
    <3>1. /\ q \in Nat /\ d \in Nat /\ x \in {1, -1} /\ c <= d
          /\ came[i] = x * q /\ days[i] = x * q * d /\ Origin(i) \in B
      BY <1>3, <1>9
    <3>2. w[p[i]] = q * (d - c) /\ f[i] = days[i] - c * came[i] /\ g[i] = c * came[i]
      BY <3>1
    <3>3. came[i] \in Int /\ days[i] \in Int /\ c * came[i] \in Int
      BY <1>2 DEF Ints
    <3> HIDE DEF q, d, x, w, p, f, g, came, days
    <3>4. q * (d - c) \in Nat
      <4>1. d - c \in Nat
        BY <3>1
      <4>2. QED
        BY <3>1, <4>1
    <3>5. f[i] = (q * (d - c)) * x
      BY <3>1, <3>2, WeightOf
    <3>6. days[i] = f[i] + g[i]
      BY <3>2, <3>3
    <3>7. QED
      BY <3>2, <3>4, <3>5, <3>6 DEF x
  <2> HIDE DEF f, w, g, p, came, days, R, B
  <2>2. Ints(f, R) /\ Total(f, R) >= 0
    BY <1>2, <1>4, <1>5, <1>6, <2>1, StandingWeights
  <2>3. Total(days, R) = Total(f, R) + Total(g, R) /\ Total(f, R) \in Int
    BY <1>2, <1>7, <2>1, <2>2, TotalPlus, TotalType
  <2>4. Total(g, R) <= Total(days, R)
    BY <1>8, <2>2, <2>3
  <2>5. QED
    BY <1>7, <1>8, <2>4
<1>10. ASSUME \A d \in ArrivalDays(k[1]) : d <= c
       PROVE  buckets[k].allWeighted <= c * buckets[k].allQty
  <2> DEFINE f == [i \in R |-> c * came[i] - days[i]]
             w == [b \in B |-> dataset[b].qty * (c - dataset[b].day)]
  <2>1. ASSUME NEW i \in R
        PROVE  /\ w[p[i]] \in Nat /\ f[i] = w[p[i]] * Signs[i]
               /\ g[i] = f[i] + days[i]
    <3> DEFINE q == dataset[Origin(i)].qty
               d == dataset[Origin(i)].day
               x == Signs[i]
    <3>1. /\ q \in Nat /\ d \in Nat /\ x \in {1, -1} /\ d <= c
          /\ came[i] = x * q /\ days[i] = x * q * d /\ Origin(i) \in B
      BY <1>3, <1>10
    <3>2. w[p[i]] = q * (c - d) /\ f[i] = c * came[i] - days[i] /\ g[i] = c * came[i]
      BY <3>1
    <3>3. came[i] \in Int /\ days[i] \in Int /\ c * came[i] \in Int
      BY <1>2 DEF Ints
    <3> HIDE DEF q, d, x, w, p, f, g, came, days
    <3>4. q * (c - d) \in Nat
      <4>1. c - d \in Nat
        BY <3>1
      <4>2. QED
        BY <3>1, <4>1
    <3>5. f[i] = (q * (c - d)) * x
      BY <3>1, <3>2, WeightOf
    <3>6. g[i] = f[i] + days[i]
      BY <3>2, <3>3
    <3>7. QED
      BY <3>2, <3>4, <3>5, <3>6 DEF x
  <2> HIDE DEF f, w, g, p, came, days, R, B
  <2>2. Ints(f, R) /\ Total(f, R) >= 0
    BY <1>2, <1>4, <1>5, <1>6, <2>1, StandingWeights
  <2>3. Total(g, R) = Total(f, R) + Total(days, R) /\ Total(f, R) \in Int
    BY <1>2, <1>7, <2>1, <2>2, TotalPlus, TotalType
  <2>4. Total(days, R) <= Total(g, R)
    BY <1>8, <2>2, <2>3
  <2>5. QED
    BY <1>7, <1>8, <2>4
<1>11. QED
  BY <1>9, <1>10


LEMMA RatedFinite ==
    ASSUME StockIInv, DatesInv, pc = "done", NEW s
    PROVE  IsFiniteSet(BucketsOf(s)) /\ BucketsOf(s) \in SUBSET Keys
<1> DEFINE f == [i \in Horizon |-> KeyOf(i)]
           I == {f[i] : i \in Horizon}
<1>1. IsFiniteSet(Horizon)
  BY HorizonFacts
<1>2. f \in Surjection(Horizon, I)
  BY DEF Surjection
<1> HIDE DEF f
<1>3. IsFiniteSet(I)
  BY <1>1, <1>2, FS_Surjection
<1>4. ASSUME NEW k \in BucketsOf(s) PROVE k \in I
  <2>1. k \in Keys /\ buckets[k].live
    BY DEF BucketsOf
  <2>2. Replayed(k) # {}
    BY <2>1, BucketArrivals DEF Dated
  <2>3. PICK i \in Horizon : KeyOf(i) = k
    BY <2>2 DEF Replayed
  <2>4. f[i] = k
    BY <2>3 DEF f
  <2>5. QED
    BY <2>4
<1>5. BucketsOf(s) \subseteq I
  BY <1>4
<1>6. QED
  BY <1>3, <1>5, FS_Subset DEF BucketsOf

LEMMA SkuWeighs ==
    ASSUME StockIInv, DatesInv, pc = "done", AllStand, NEW s, NEW c \in Int
    PROVE  /\ Rolled(s, "allQty") \in Int /\ Rolled(s, "allWeighted") \in Int
           /\ (\A d \in ArrivalDays(s) : c <= d)
                 => c * Rolled(s, "allQty") <= Rolled(s, "allWeighted")
           /\ (\A d \in ArrivalDays(s) : d <= c)
                 => Rolled(s, "allWeighted") <= c * Rolled(s, "allQty")
<1> DEFINE S == BucketsOf(s)
           qty == [k \in Keys |-> buckets[k]["allQty"]]
           days == [k \in Keys |-> buckets[k]["allWeighted"]]
           g == [k \in Keys |-> c * qty[k]]
<1>1. /\ IsFiniteSet(S) /\ S \in SUBSET Keys /\ \A k \in S : k[1] = s
  BY RatedFinite DEF BucketsOf
<1>2. Rolled(s, "allQty") = Total(qty, S) /\ Rolled(s, "allWeighted") = Total(days, S)
  BY DEF Rolled
<1>3. ASSUME NEW k \in S
      PROVE  /\ qty[k] = buckets[k].allQty /\ days[k] = buckets[k].allWeighted
             /\ qty[k] \in Int /\ days[k] \in Int /\ g[k] = c * qty[k] /\ g[k] \in Int
  <2>1. k \in Keys /\ buckets[k] \in Bucket
    BY <1>1 DEF StockIInv, TypeOK
  <2>2. buckets[k].allQty \in Int /\ buckets[k].allWeighted \in Int
    BY <2>1, BucketParts
  <2>3. qty[k] = buckets[k].allQty /\ days[k] = buckets[k].allWeighted /\ g[k] = c * qty[k]
    BY <2>1
  <2> HIDE DEF qty, days, g
  <2>4. QED
    BY <2>2, <2>3
<1> HIDE DEF S, qty, days, g
<1>4. Ints(qty, S) /\ Ints(days, S) /\ Ints(g, S)
  BY <1>3 DEF Ints
<1>5. Total(qty, S) \in Int /\ Total(days, S) \in Int
  BY <1>1, <1>4, TotalType
<1>6. Total(g, S) = c * Total(qty, S)
  BY <1>1, <1>3, <1>4, TotalScaled
<1>7. ASSUME \A d \in ArrivalDays(s) : c <= d
      PROVE  Total(g, S) <= Total(days, S)
  <2>1. \A k \in S : g[k] <= days[k]
    BY <1>1, <1>3, <1>7, BucketWeighs
  <2>2. QED
    BY <1>1, <1>4, <2>1, TotalAtMost
<1>8. ASSUME \A d \in ArrivalDays(s) : d <= c
      PROVE  Total(days, S) <= Total(g, S)
  <2>1. \A k \in S : days[k] <= g[k]
    BY <1>1, <1>3, <1>8, BucketWeighs
  <2>2. QED
    BY <1>1, <1>4, <2>1, TotalAtMost
<1>9. QED
  BY <1>2, <1>5, <1>6, <1>7, <1>8

LEMMA SlicesArrived ==
    ASSUME StockIInv, DatesInv, pc = "done", NEW s, NEW x \in SlicesOf(s)
    PROVE  Slice(x).day \in ArrivalDays(s)
<1>1. PICK k \in BucketsOf(s) : x \in {<<k, i>> : i \in DOMAIN buckets[k].slices}
  BY DEF SlicesOf
<1>2. PICK n \in DOMAIN buckets[k].slices : x = <<k, n>>
  BY <1>1
<1>3. k \in Keys /\ k[1] = s
  BY DEF BucketsOf
<1>4. SlicesDated(buckets[k].slices, Terms, Replayed(k))
  BY <1>3, BucketArrivals DEF Dated
<1>5. PICK i \in Ins(Terms, Replayed(k)) : buckets[k].slices[n].day = Terms[i].base.day
  BY <1>4 DEF SlicesDated
<1>6. Slice(x) = buckets[k].slices[n]
  BY <1>2 DEF Slice
<1>7. QED
  BY <1>3, <1>5, <1>6, BucketArrivals

\* Where an age comes from.
LEMMA AgeIs ==
    ASSUME StockIInv, DatesInv, pc = "done", NEW s, NEW age \in Ages(s)
    PROVE  \/ \E x \in SlicesOf(s) : age = Whole(request.end - Slice(x).day)
           \/ /\ Rolled(s, "allQty") > 0
              /\ age = Over(Whole(request.end * Rolled(s, "allQty") - Rolled(s, "allWeighted")),
                            Rolled(s, "allQty"))
<1> DEFINE basis == AgeBasis(s)
           n == Closing(s)
           late == request.end * Rolled(s, "allQty") - Rolled(s, "allWeighted")
           lots == {Whole(request.end - Slice(x).day) : x \in LotStock(s)}
           rest == {Whole(request.end - Slice(x).day) : x \in Residual(s)}
           mean == Over(Whole(late), Rolled(s, "allQty"))
<1>1. basis = "all_history" => Rolled(s, "allQty") > 0
  BY DEF AgeBasis
<1>2. Ages(s) = CASE n <= 0 -> {}
                  [] n > 0 /\ basis = "lot" -> lots
                  [] n > 0 /\ basis = "constituent" -> rest
                  [] n > 0 /\ basis = "all_history" -> {mean}
                  [] OTHER -> {}
  BY DEF Ages
<1>6. n \in Int
  <2> DEFINE b == [k \in Keys |-> buckets[k]["balance"]]
             S == BucketsOf(s)
  <2>1. IsFiniteSet(S) /\ S \in SUBSET Keys
    BY RatedFinite
  <2>2. ASSUME NEW k \in S PROVE b[k] \in Int
    <3>1. k \in Keys /\ buckets[k] \in Bucket
      BY <2>1 DEF StockIInv, TypeOK
    <3>2. buckets[k].balance \in Int
      BY <3>1, BucketParts
    <3>3. QED
      BY <3>1, <3>2
  <2>3. n = Total(b, S)
    BY DEF Closing, Rolled
  <2> HIDE DEF b, S, n
  <2>4. Ints(b, S)
    BY <2>2 DEF Ints
  <2>5. QED
    BY <2>1, <2>3, <2>4, TotalType
<1> HIDE DEF basis, n, lots, rest, mean, late
<1>3. \/ age \in lots
      \/ age \in rest
      \/ basis = "all_history" /\ age = mean
  <2>1. n > 0
    <3>1. CASE n <= 0
      <4>1. Ages(s) = {}
        BY <1>2, <1>6, <3>1
      <4>2. QED
        BY <4>1
    <3>2. QED
      BY <1>6, <3>1
  <2>2. CASE basis = "lot"
    <3>1. ~(n <= 0) /\ n > 0
      BY <1>6, <2>1
    <3>2. Ages(s) = lots
      BY <1>2, <2>2, <3>1
    <3>3. QED
      BY <3>2
  <2>3. CASE basis = "constituent"
    <3>1. ~(n <= 0) /\ n > 0
      BY <1>6, <2>1
    <3>2. Ages(s) = rest
      BY <1>2, <2>3, <3>1
    <3>3. QED
      BY <3>2
  <2>4. CASE basis = "all_history"
    BY <1>2, <1>6, <2>1, <2>4
  <2>5. CASE basis \notin {"lot", "constituent", "all_history"}
    <3>1. Ages(s) = {}
      BY <1>2, <1>6, <2>1, <2>5
    <3>2. QED
      BY <3>1
  <2>6. QED
    BY <2>2, <2>3, <2>4, <2>5
<1>4. LotStock(s) \subseteq SlicesOf(s) /\ Residual(s) \subseteq SlicesOf(s)
  BY DEF LotStock, Residual
<1>5. QED
  BY <1>1, <1>3, <1>4 DEF lots, rest, mean, late


\* No age is older than the first inbound or younger than the last.
LEMMA AgesWithin ==
    ASSUME StockIInv, DatesInv, pc = "done", AllStand, NEW s, NEW age \in Ages(s)
    PROVE  /\ AtMost(Whole(request.end - Largest(ArrivalDays(s))), age)
           /\ AtMost(age, Whole(request.end - Least(ArrivalDays(s))))
<1> DEFINE D == ArrivalDays(s)
           end == request.end
           qty == Rolled(s, "allQty")
           days == Rolled(s, "allWeighted")
<1>1. end \in Int
  <2>1. request \in Period /\ MaxDay \in Nat
    BY StockAssumption DEF DatesInv, StockAssumption
  <2>2. QED
    BY <2>1 DEF Period
<1>2. CASE \E x \in SlicesOf(s) : age = Whole(end - Slice(x).day)
  <2>1. PICK x \in SlicesOf(s) : age = Whole(end - Slice(x).day)
    BY <1>2
  <2> DEFINE d == Slice(x).day
  <2>2. d \in D
    BY SlicesArrived
  <2>3. /\ Least(D) \in Nat /\ Largest(D) \in Nat /\ d \in Nat
        /\ Least(D) <= d /\ d <= Largest(D)
    BY <2>2, ArrivalBounds
  <2> HIDE DEF D, d, end
  <2>4. /\ AtMost(Whole(end - Largest(D)), Whole(end - d))
        /\ AtMost(Whole(end - d), Whole(end - Least(D)))
    BY <1>1, <2>3 DEF AtMost, Whole
  <2>5. QED
    BY <2>1, <2>4 DEF D, d, end
<1>3. CASE qty > 0 /\ age = Over(Whole(end * qty - days), qty)
  <2>1. qty \in Int /\ days \in Int
    BY SkuWeighs
  \* Something has come in.
  <2>2. D # {}
    <3> SUFFICES ASSUME D = {} PROVE FALSE
      OBVIOUS
    <3>1. 1 * qty <= days /\ days <= 0 * qty
      BY SkuWeighs
    <3>2. QED
      BY <1>3, <2>1, <3>1
  <2>3. /\ Least(D) \in Nat /\ Largest(D) \in Nat
        /\ \A d \in D : Least(D) <= d /\ d <= Largest(D)
    BY <2>2, ArrivalBounds
  <2>4. Least(D) * qty <= days /\ days <= Largest(D) * qty
    <3>1. Least(D) * qty <= days
      BY <2>3, SkuWeighs
    <3>2. days <= Largest(D) * qty
      BY <2>3, SkuWeighs
    <3>3. QED
      BY <3>1, <3>2
  <2> DEFINE first == Least(D)
             last == Largest(D)
             mean == Over(Whole(end * qty - days), qty)
  <2>5. first \in Int /\ last \in Int /\ first * qty <= days /\ days <= last * qty
    BY <2>3, <2>4
  <2> HIDE DEF first, last, qty, days, end, D
  <2>6. mean = [num |-> end * qty - days, den |-> qty]
    BY <1>3, <2>1 DEF Over, Whole
  <2>7. (end - last) * qty <= end * qty - days
    <3>1. (end - last) * qty = end * qty - last * qty
      BY <1>1, <2>1, <2>5
    <3>2. end * qty \in Int /\ last * qty \in Int
      BY <1>1, <2>1, <2>5
    <3>3. QED
      BY <2>1, <2>5, <3>1, <3>2
  <2>8. end * qty - days <= (end - first) * qty
    <3>1. (end - first) * qty = end * qty - first * qty
      BY <1>1, <2>1, <2>5
    <3>2. end * qty \in Int /\ first * qty \in Int
      BY <1>1, <2>1, <2>5
    <3>3. QED
      BY <2>1, <2>5, <3>1, <3>2
  <2>9. /\ Whole(end - last).num = end - last /\ Whole(end - last).den = 1
        /\ Whole(end - first).num = end - first /\ Whole(end - first).den = 1
    BY DEF Whole
  <2>10. end * qty - days \in Int
    BY <1>1, <2>1
  <2>11. AtMost(Whole(end - last), mean)
    BY <2>6, <2>7, <2>9, <2>10 DEF AtMost
  <2>12. AtMost(mean, Whole(end - first))
    BY <2>6, <2>8, <2>9, <2>10 DEF AtMost
  <2>13. QED
    BY <1>3, <2>11, <2>12 DEF first, last, qty, days, end, D
<1>4. QED
  BY <1>2, <1>3, AgeIs

\* Stock without a late outflow has no late outbound.
LEMMA StaleHasNoOutbound ==
    ASSUME StockIInv, DatesInv, pc = "done", NEW s, IsStale(s),
           NEW i \in Horizon, dataset[i].sku = s, dataset[i].move \in Outbound
    PROVE  dataset[i].day < request.end - StaleWindow
<1> DEFINE L == {buckets[c].lastOut : c \in BucketsOf(s)} \ {None}
           day == dataset[i].day
           end == request.end
<1>1. /\ end \in Int /\ StaleWindow \in Int /\ MaxDay \in Nat /\ Days = 0..MaxDay
      /\ day \in Nat
  <2>1. request \in Period /\ MaxDay \in Nat /\ StaleWindow \in Nat
    BY StockAssumption, MetricsAssumption DEF DatesInv, StockAssumption, MetricsAssumption
  <2>2. day \in 0..MaxDay
    BY HorizonFacts, MovedFacts DEF Days
  <2>3. QED
    BY <2>1, <2>2 DEF Period, Days
<1>2. PICK k \in Keys : KeyOf(i) = k
  BY HorizonFacts
<1>3. Origin(i) = i /\ k[1] = s
  <2>1. Origin(i) = i
    BY HorizonFacts DEF Outbound, Reverses
  <2>2. QED
    BY <1>2, <2>1 DEF KeyOf
<1>4. i \in Replayed(k) /\ Dated(buckets[k], Terms, Replayed(k))
  BY <1>2, BucketArrivals DEF Touching
<1>5. Terms[i].own = dataset[i]
  BY DEF Terms
<1>6. /\ buckets[k].live /\ buckets[k].lastOut # None /\ buckets[k].lastOut >= day
  BY <1>4, <1>5 DEF Dated
<1>7. buckets[k].lastOut \in L
  BY <1>3, <1>6 DEF BucketsOf
<1>8. L \in SUBSET (0..MaxDay)
  <2>1. ASSUME NEW c \in BucketsOf(s) PROVE buckets[c].lastOut \in Days \union {None}
    <3>1. buckets[c] \in Bucket
      BY DEF BucketsOf, StockIInv, TypeOK
    <3>2. QED
      BY <3>1, BucketParts
  <2>2. QED
    BY <1>1, <2>1
<1>9. LastOut(s) = Largest(L)
  BY <1>7 DEF LastOut
<1> HIDE DEF L, day, end
<1>10. Largest(L) \in L /\ buckets[k].lastOut <= Largest(L)
  BY <1>1, <1>7, <1>8, BoundsOf
<1>11. Largest(L) \in Nat /\ buckets[k].lastOut \in Nat /\ Largest(L) # None
  <2>1. L \subseteq Nat
    BY <1>1, <1>8
  <2>2. None \notin Nat
    BY NoneApart
  <2>3. QED
    BY <1>7, <1>10, <2>1, <2>2
<1>12. NoOutflowDays(s) = end - Largest(L)
  BY <1>9, <1>11 DEF NoOutflowDays, end
<1>13. NoOutflowDays(s) > StaleWindow
  BY DEF IsStale
<1>14. day < end - StaleWindow
  BY <1>1, <1>6, <1>10, <1>11, <1>12, <1>13
<1>15. QED
  BY <1>14 DEF day, end

\* The ages of a SKU's stock lie between its first inbound and its last, from
\* whichever population they are taken, and stale stock has had no outbound
\* inside the window, for any ledger, period and order of events.
THEOREM DatesWitnessed == Spec => []DatesAreWitnessed
<1>1. StockIInv /\ DatesInv => DatesAreWitnessed
  <2> SUFFICES ASSUME StockIInv, DatesInv, pc = "done", NEW s \in Rated
               PROVE  LET days(moves) == {dataset[Origin(i)].day :
                                  i \in {j \in Horizon : /\ dataset[Origin(j)].sku = s
                                                         /\ dataset[Origin(j)].move \in moves}}
                          signs == [i \in Horizon |-> SignOf(i)]
                          stands(i) == Total(signs, {j \in Horizon : Origin(j) = i}) >= 0
                      IN  /\ (\A i \in DOMAIN dataset : stands(i)) => \A age \in Ages(s) :
                                /\ AtMost(Whole(request.end - Largest(days(Inbound))), age)
                                /\ AtMost(age, Whole(request.end - Least(days(Inbound))))
                          /\ IsStale(s) =>
                                \A i \in Horizon :
                                    dataset[i].sku = s /\ dataset[i].move \in Outbound
                                        => dataset[i].day < request.end - StaleWindow
    BY DEF DatesAreWitnessed
  <2>1. AllStand => \A age \in Ages(s) :
            /\ AtMost(Whole(request.end - Largest(ArrivalDays(s))), age)
            /\ AtMost(age, Whole(request.end - Least(ArrivalDays(s))))
    BY AgesWithin
  <2>2. IsStale(s) => \A i \in Horizon :
            dataset[i].sku = s /\ dataset[i].move \in Outbound
                => dataset[i].day < request.end - StaleWindow
    BY StaleHasNoOutbound
  <2>3. QED
    BY <2>1, <2>2 DEF AllStand, Signs, ArrivalDays, Arrivals
<1>2. QED
  BY <1>1, ReplayInvariance, DatesInvariance, PTL

-----------------------------------------------------------------------------
(***************************************************************************)
(* The replay: the moving average and the cost of goods                    *)
(***************************************************************************)

\* A bucket in which nothing is undone, or nothing returned; the costs its
\* average is made of.
Unreversed(k) == \A i \in Touching(k) : ~Reverses(i)
Unreturned(k) == \A i \in Touching(k) : dataset[i].move # "RETURN"
CostsOf(k) == {dataset[i].cost : i \in {j \in Touching(k) \ pending :
                                           dataset[j].move \in Inbound}} \ {None}
CostIn(e) == IF e.move \in Inbound THEN {e.cost} \ {None} ELSE {}

\* Being within the costs C is being within all bounds of C: as costs join, the
\* bounds become fewer.
Below(x, C) == \A c \in C : x <= c
Above(x, C) == \A c \in C : c <= x

AvgWithin(avg, C) ==
    avg # None =>
        /\ C # {}
        /\ \A x \in Nat : /\ Below(x, C) => x * avg.den <= avg.num
                          /\ Above(x, C) => avg.num <= x * avg.den

CogsAtMost(cogs, out, C) ==
    0 <= out /\ \A x \in Nat : Above(x, C) => cogs.num <= x * out * cogs.den
CogsAtLeast(cogs, out, C) ==
    0 <= out /\ \A x \in Nat : Below(x, C) => x * out * cogs.den <= cogs.num

Costed(b, C, k) ==
    b.firstNegative = None =>
        /\ b.balance >= 0
        /\ AvgWithin(b.avg, C)
        /\ Unreturned(k) => CogsAtMost(b.cogs, b.out, C)
        /\ Unreturned(k) /\ k[1] \notin missingCost => CogsAtLeast(b.cogs, b.out, C)

CostInv ==
    pc \in {"replay", "done"} =>
        \A k \in Keys : Unreversed(k) => Costed(buckets[k], CostsOf(k), k)

\* The weighted mean of an average and a cost, against a bound of both.
LEMMA MeanBounds ==
    ASSUME NEW x \in Nat, NEW n \in Nat, NEW q \in Nat, NEW c \in Nat,
           NEW num \in Int, NEW den \in Nat \ {0}
    PROVE  /\ x * den <= num /\ x <= c
                 => x * (den * (n + q)) <= n * num + q * c * den
           /\ num <= x * den /\ c <= x
                 => n * num + q * c * den <= x * (den * (n + q))
<1> DEFINE xd == x * den
           cd == c * den
<1>1. xd \in Nat /\ cd \in Nat /\ n * xd \in Nat /\ q * xd \in Nat /\ q * cd \in Nat
  <2>1. xd \in Nat /\ cd \in Nat
    OBVIOUS
  <2> HIDE DEF xd, cd
  <2>2. n * xd \in Nat /\ q * xd \in Nat /\ q * cd \in Nat
    BY <2>1
  <2>3. QED
    BY <2>1, <2>2
<1>2. n * num \in Int
  OBVIOUS
<1>3. x * (den * (n + q)) = n * xd + q * xd /\ q * c * den = q * cd
  OBVIOUS
<1>4. ASSUME xd <= num, x <= c
      PROVE  n * xd <= n * num /\ q * xd <= q * cd
  <2>1. xd <= cd
    BY <1>4
  <2> HIDE DEF xd, cd
  <2>2. n * xd <= n * num
    BY <1>1, <1>4
  <2>3. q * xd <= q * cd
    BY <1>1, <2>1
  <2>4. QED
    BY <2>2, <2>3
<1>5. ASSUME num <= xd, c <= x
      PROVE  n * num <= n * xd /\ q * cd <= q * xd
  <2>1. cd <= xd
    BY <1>5
  <2> HIDE DEF xd, cd
  <2>2. n * num <= n * xd
    BY <1>1, <1>5
  <2>3. q * cd <= q * xd
    BY <1>1, <2>1
  <2>4. QED
    BY <2>2, <2>3
<1>6. ASSUME xd <= num, x <= c PROVE n * xd + q * xd <= n * num + q * cd
  <2> HIDE DEF xd, cd
  <2>1. QED
    BY <1>1, <1>2, <1>4, <1>6
<1>7. ASSUME num <= xd, c <= x PROVE n * num + q * cd <= n * xd + q * xd
  <2> HIDE DEF xd, cd
  <2>1. QED
    BY <1>1, <1>2, <1>5, <1>7
<1>8. QED
  BY <1>3, <1>6, <1>7

LEMMA AvgGrows ==
    ASSUME NEW avg, NEW C, NEW D, AvgWithin(avg, C), C \subseteq D
    PROVE  AvgWithin(avg, D)
<1>1. \A x \in Nat : (Below(x, D) => Below(x, C)) /\ (Above(x, D) => Above(x, C))
  BY DEF Below, Above
<1>2. QED
  BY <1>1 DEF AvgWithin

\* _update_avg_inbound keeps the average within the costs.
LEMMA AvgReceives ==
    ASSUME NEW b \in Bucket, NEW e, Booked(e), NEW C, AvgWithin(b.avg, C),
           b.balance >= 0, e.move \in Inbound
    PROVE  AvgWithin(NewAvg(b, e, 1), C \union CostIn(e))
<1> DEFINE D == C \union CostIn(e)
           n == b.balance
           q == e.qty
           c == e.cost
<1>1. /\ n \in Nat /\ q \in Nat /\ c \in Nat \union {None}
      /\ b.avg \in Frac \union {None} /\ CostIn(e) = {c} \ {None}
  BY BucketParts DEF Booked, Slicable, CostIn
<1>2. AvgWithin(b.avg, D)
  BY AvgGrows
<1>3. CASE NewAvg(b, e, 1) = b.avg
  BY <1>2, <1>3
<1>4. CASE c # None /\ b.avg = None /\ NewAvg(b, e, 1) = Whole(c)
  <2>1. c \in D /\ c \in Nat /\ Whole(c).num = c /\ Whole(c).den = 1
    BY <1>1, <1>4 DEF Whole
  <2> HIDE DEF D, c
  <2>2. \A x \in Nat : (Below(x, D) => x * 1 <= c) /\ (Above(x, D) => c <= x * 1)
    BY <2>1 DEF Below, Above
  <2>3. D # {}
    BY <2>1
  <2>4. AvgWithin(Whole(c), D)
    BY <2>1, <2>2, <2>3 DEF AvgWithin
  <2>5. QED
    BY <1>4, <2>4 DEF D, c
<1>5. CASE /\ c # None /\ b.avg # None /\ n + q # 0
           /\ NewAvg(b, e, 1) = Over(Plus(Times(n, b.avg), Whole(q * c)), n + q)
  <2> DEFINE num == b.avg.num
             den == b.avg.den
             new == NewAvg(b, e, 1)
  <2>1. /\ num \in Int /\ den \in Nat \ {0} /\ c \in D /\ c \in Nat /\ n + q > 0
    BY <1>1, <1>5 DEF Frac
  <2>2. new.num = n * num + q * c * den /\ new.den = den * (n + q)
    <3>1. Plus(Times(n, b.avg), Whole(q * c)) = [num |-> n * num * 1 + q * c * den, den |-> den * 1]
      BY DEF Plus, Times, Whole
    <3>2. new = [num |-> n * num * 1 + q * c * den, den |-> den * 1 * (n + q)]
      BY <1>5, <2>1, <3>1 DEF Over
    <3>3. n * num \in Int /\ den * 1 = den
      BY <1>1, <2>1
    <3>4. QED
      BY <3>2, <3>3
  <2>3. ASSUME NEW x \in Nat
        PROVE  /\ Below(x, D) => x * new.den <= new.num
               /\ Above(x, D) => new.num <= x * new.den
    <3>1. Below(x, D) => x * den <= num /\ x <= c
      BY <1>2, <1>5, <2>1 DEF AvgWithin, Below
    <3>2. Above(x, D) => num <= x * den /\ c <= x
      BY <1>2, <1>5, <2>1 DEF AvgWithin, Above
    <3> HIDE DEF D, num, den, new, n, q, c
    <3>3. QED
      BY <1>1, <2>1, <2>2, <3>1, <3>2, MeanBounds
  <2>4. QED
    BY <2>1, <2>3 DEF AvgWithin
<1>6. QED
  <2>1. 1 * e.qty = q /\ 1 * e.qty * e.cost = q * c
    BY <1>1
  <2>2. \/ NewAvg(b, e, 1) = b.avg
        \/ c # None /\ b.avg = None /\ NewAvg(b, e, 1) = Whole(c)
        \/ /\ c # None /\ b.avg # None /\ n + q # 0
           /\ NewAvg(b, e, 1) = Over(Plus(Times(n, b.avg), Whole(q * c)), n + q)
    BY <2>1 DEF NewAvg
  <2>3. QED
    BY <1>3, <1>4, <1>5, <2>2

\* What the tail charges, at an average within the costs.
LEMMA ChargeBounds ==
    ASSUME NEW x \in Nat, NEW out \in Nat, NEW delta \in Nat,
           NEW cn \in Int, NEW cd \in Nat \ {0}, NEW an \in Int, NEW ad \in Nat \ {0}
    PROVE  /\ cn <= x * out * cd /\ an <= x * ad
                 => cn * ad + delta * an * cd <= x * (out + delta) * (cd * ad)
           /\ x * out * cd <= cn /\ x * ad <= an
                 => x * (out + delta) * (cd * ad) <= cn * ad + delta * an * cd
<1> DEFINE old == x * out * cd
           xa == x * ad
           dc == delta * cd
<1>1. old \in Nat /\ xa \in Nat /\ dc \in Nat /\ old * ad \in Int /\ dc * xa \in Int
  <2>1. x * out \in Nat
    OBVIOUS
  <2>2. old \in Nat /\ xa \in Nat /\ dc \in Nat
    BY <2>1
  <2> HIDE DEF old, xa, dc
  <2>3. old * ad \in Int /\ dc * xa \in Int
    BY <2>2
  <2>4. QED
    BY <2>2, <2>3
<1>2. x * (out + delta) * (cd * ad) = old * ad + dc * xa /\ delta * an * cd = dc * an
  OBVIOUS
<1>3. cn * ad \in Int /\ dc * an \in Int
  <2> HIDE DEF dc
  <2>1. QED
    BY <1>1
<1>4. ASSUME cn <= old, an <= xa
      PROVE  cn * ad <= old * ad /\ dc * an <= dc * xa
  <2> HIDE DEF old, xa, dc
  <2>1. cn * ad <= old * ad
    BY <1>1, <1>4
  <2>2. dc * an <= dc * xa
    BY <1>1, <1>4
  <2>3. QED
    BY <2>1, <2>2
<1>5. ASSUME old <= cn, xa <= an
      PROVE  old * ad <= cn * ad /\ dc * xa <= dc * an
  <2> HIDE DEF old, xa, dc
  <2>1. old * ad <= cn * ad
    BY <1>1, <1>5
  <2>2. dc * xa <= dc * an
    BY <1>1, <1>5
  <2>3. QED
    BY <2>1, <2>2
<1>6. ASSUME cn <= old, an <= xa
      PROVE  cn * ad + dc * an <= old * ad + dc * xa
  <2> HIDE DEF old, xa, dc
  <2>1. QED
    BY <1>1, <1>3, <1>4, <1>6
<1>7. ASSUME old <= cn, xa <= an
      PROVE  old * ad + dc * xa <= cn * ad + dc * an
  <2> HIDE DEF old, xa, dc
  <2>1. QED
    BY <1>1, <1>3, <1>5, <1>7
<1>8. QED
  BY <1>2, <1>6, <1>7

\* period_cogs after a charge; its lower bound needs an average to charge at.
CogsAfter(cogs, delta, avg) == IF avg = None THEN cogs ELSE Plus(cogs, Times(delta, avg))

LEMMA CogsCharged ==
    ASSUME NEW cogs \in Frac, NEW out \in Int, NEW delta \in Nat,
           NEW avg \in Frac \union {None},
           NEW C, NEW D, C \subseteq D, AvgWithin(avg, D)
    PROVE  /\ CogsAtMost(cogs, out, C) => CogsAtMost(CogsAfter(cogs, delta, avg), out + delta, D)
           /\ CogsAtLeast(cogs, out, C) /\ (delta # 0 => avg # None)
                 => CogsAtLeast(CogsAfter(cogs, delta, avg), out + delta, D)
<1> DEFINE new == CogsAfter(cogs, delta, avg)
           cn == cogs.num
           cd == cogs.den
<1>1. cn \in Int /\ cd \in Nat \ {0}
  BY DEF Frac
<1>2. ASSUME NEW x \in Nat PROVE (Above(x, D) => Above(x, C)) /\ (Below(x, D) => Below(x, C))
  BY DEF Above, Below
<1>3. CASE avg = None
  <2>1. new = cogs
    BY <1>3 DEF CogsAfter
  <2>2. ASSUME CogsAtMost(cogs, out, C), NEW x \in Nat, Above(x, D)
        PROVE  cn <= x * (out + delta) * cd
    <3>1. out \in Nat /\ cn <= x * out * cd
      BY <1>2, <2>2 DEF CogsAtMost
    <3>2. x * (out + delta) * cd = x * out * cd + x * delta * cd
      BY <1>1
    <3>3. x * out * cd \in Nat /\ x * delta * cd \in Nat
      <4>1. x * out \in Nat /\ x * delta \in Nat
        BY <3>1
      <4>2. QED
        BY <1>1, <4>1
    <3> DEFINE y == x * out * cd
               z == x * delta * cd
    <3> HIDE DEF y, z, cn, cd
    <3>4. QED
      BY <1>1, <3>1, <3>2, <3>3 DEF y, z
  <2>3. ASSUME CogsAtLeast(cogs, out, C), delta = 0, NEW x \in Nat, Below(x, D)
        PROVE  x * (out + delta) * cd <= cn
    <3>1. x * out * cd <= cn
      BY <1>2, <2>3 DEF CogsAtLeast
    <3>2. out + delta = out
      BY <2>3
    <3>3. QED
      BY <3>1, <3>2
  <2> HIDE DEF new
  <2>4. CogsAtMost(cogs, out, C) => CogsAtMost(new, out + delta, D)
    BY <2>1, <2>2 DEF CogsAtMost
  <2>5. CogsAtLeast(cogs, out, C) /\ delta = 0 => CogsAtLeast(new, out + delta, D)
    BY <2>1, <2>3 DEF CogsAtLeast
  <2>6. QED
    BY <1>3, <2>4, <2>5 DEF new
<1>4. CASE avg # None
  <2> DEFINE an == avg.num
             ad == avg.den
  <2>1. an \in Int /\ ad \in Nat \ {0}
    BY <1>4 DEF Frac
  <2>2. new.num = cn * ad + delta * an * cd /\ new.den = cd * ad
    BY <1>4 DEF Plus, Times, CogsAfter
  <2>3. ASSUME NEW x \in Nat
        PROVE  (Above(x, D) => an <= x * ad) /\ (Below(x, D) => x * ad <= an)
    BY <1>4 DEF AvgWithin
  <2>4. ASSUME CogsAtMost(cogs, out, C), NEW x \in Nat, Above(x, D)
        PROVE  new.num <= x * (out + delta) * new.den
    <3>1. out \in Nat /\ cn <= x * out * cd /\ an <= x * ad
      BY <1>2, <2>3, <2>4 DEF CogsAtMost
    <3> HIDE DEF new, cn, cd, an, ad
    <3>2. QED
      BY <1>1, <2>1, <2>2, <3>1, ChargeBounds
  <2>5. ASSUME CogsAtLeast(cogs, out, C), NEW x \in Nat, Below(x, D)
        PROVE  x * (out + delta) * new.den <= new.num
    <3>1. out \in Nat /\ x * out * cd <= cn /\ x * ad <= an
      BY <1>2, <2>3, <2>5 DEF CogsAtLeast
    <3> HIDE DEF new, cn, cd, an, ad
    <3>2. QED
      BY <1>1, <2>1, <2>2, <3>1, ChargeBounds
  <2> HIDE DEF new
  <2>6. CogsAtMost(cogs, out, C) => CogsAtMost(new, out + delta, D)
    BY <2>4 DEF CogsAtMost
  <2>7. CogsAtLeast(cogs, out, C) => CogsAtLeast(new, out + delta, D)
    BY <2>5 DEF CogsAtLeast
  <2>8. QED
    BY <2>6, <2>7 DEF new
<1>5. QED
  BY <1>3, <1>4

\* The parts of a step, on the fields of the average and the cost of goods.
SameCosts(b, c) == /\ c.avg = b.avg /\ c.out = b.out /\ c.cogs = b.cogs
                   /\ c.balance = b.balance /\ c.firstNegative = b.firstNegative

LEMMA CapturedCosts ==
    ASSUME NEW b \in Bucket
    PROVE  SameCosts(b, Captured(b))
BY DEF Captured, SameCosts, Bucket

LEMMA TailCosts ==
    ASSUME NEW a \in Bucket, NEW delta \in Int, NEW day \in Days, NEW in \in BOOLEAN, NEW b,
           b = Tracked([Charged(a, delta, day) EXCEPT !.live = TRUE], day, in)
    PROVE  /\ b.avg = a.avg /\ b.out = a.out + delta
           /\ b.cogs = CogsAfter(a.cogs, delta, a.avg)
<1> DEFINE c == Charged(a, delta, day)
           l == [c EXCEPT !.live = TRUE]
           cogs == CogsAfter(a.cogs, delta, a.avg)
           out == a.out + delta
           daily == [a.daily EXCEPT ![day] = @ + delta]
<1>1. c \in Bucket
  BY ChargedType
<1>2. c = [a EXCEPT !.out = out, !.cogs = cogs, !.daily = daily]
  BY DEF Charged, Bucket, CogsAfter
<1> HIDE DEF cogs, out, daily, c
<1>3. c.avg = a.avg /\ c.out = out /\ c.cogs = cogs
  BY <1>2 DEF Bucket
<1>4. l \in Bucket /\ l.avg = c.avg /\ l.out = c.out /\ l.cogs = c.cogs
  <2>1. c \in BucketType
    BY <1>1, BucketIs
  <2>2. l \in BucketType
    BY <2>1 DEF BucketType
  <2>3. l.avg = c.avg /\ l.out = c.out /\ l.cogs = c.cogs
    BY <2>1 DEF BucketType
  <2>4. QED
    BY <2>2, <2>3, BucketIs
<1> HIDE DEF l
<1>5. /\ Tracked(l, day, in).avg = l.avg /\ Tracked(l, day, in).out = l.out
      /\ Tracked(l, day, in).cogs = l.cogs
  BY <1>4 DEF Tracked, Bucket
<1>6. b = Tracked(l, day, in)
  BY DEF c, l
<1>7. QED
  BY <1>3, <1>4, <1>5, <1>6 DEF cogs, out

LEMMA ReceivedCosts ==
    ASSUME NEW b \in Bucket, NEW e, NEW sign, NEW a, a = Received(b, e, sign)
    PROVE  a.avg = NewAvg(b, e, sign) /\ a.out = b.out /\ a.cogs = b.cogs
<1> DEFINE slices == IF sign = 1 THEN AddSlice(b.slices, e) ELSE RemoveSlices(b.slices, e)
           avg == NewAvg(b, e, sign)
           balance == b.balance + sign * e.qty
           all == b.allQty + sign * e.qty
           weighted == b.allWeighted + sign * e.qty * e.day
           first == IF sign = 1 /\ (b.firstIn = None \/ e.day < b.firstIn)
                    THEN e.day ELSE b.firstIn
<1>1. a = [b EXCEPT !.avg = avg, !.balance = balance, !.allQty = all,
                    !.allWeighted = weighted, !.slices = slices, !.firstIn = first]
  BY DEF Received, Bucket
<1> HIDE DEF slices, avg, balance, all, weighted, first
<1>2. a.avg = avg /\ a.out = b.out /\ a.cogs = b.cogs
  BY <1>1 DEF Bucket
<1>3. QED
  BY <1>2 DEF avg

LEMMA IssuedCosts ==
    ASSUME NEW b \in Bucket, NEW e, NEW sign, NEW a, a = Issued(b, e, sign)
    PROVE  a.avg = b.avg /\ a.out = b.out /\ a.cogs = b.cogs
<1> DEFINE slices == IF sign = 1 THEN ConsumeSlices(b.slices, e) ELSE b.slices
           last == IF sign = 1 /\ (b.lastOut = None \/ e.day > b.lastOut)
                   THEN e.day ELSE b.lastOut
           balance == b.balance - sign * e.qty
<1>1. a = [b EXCEPT !.balance = balance, !.slices = slices, !.lastOut = last]
  BY DEF Issued, Bucket
<1> HIDE DEF slices, last, balance
<1>2. QED
  BY <1>1 DEF Bucket

LEMMA CountedCosts ==
    ASSUME NEW b \in Bucket, NEW i, NEW e, NEW sign, NEW a, a = Counted(b, i, e, sign)
    PROVE  a.avg = b.avg /\ a.out = b.out /\ a.cogs = b.cogs
BY DEF Counted, Bucket

LEMMA OpenedCosts ==
    ASSUME StockIInv, NEW i \in pending, Turn(i)
    PROVE  SameCosts(buckets[KeyOf(i)], Opened(i))
<1>1. buckets[KeyOf(i)] \in Bucket
  BY TurnFacts DEF StockIInv, TypeOK
<1>2. QED
  BY <1>1, CapturedCosts DEF Opened, SameCosts

\* The events of a bucket stay; the costs of the event replayed join its own.
LEMMA SameTouching ==
    ASSUME dataset' = dataset, request' = request
    PROVE  \A k : /\ Touching(k)' = Touching(k)
                  /\ Unreversed(k)' <=> Unreversed(k)
                  /\ Unreturned(k)' <=> Unreturned(k)
<1> SUFFICES ASSUME NEW k
             PROVE  /\ Touching(k)' = Touching(k)
                    /\ Unreversed(k)' <=> Unreversed(k)
                    /\ Unreturned(k)' <=> Unreturned(k)
  OBVIOUS
<1>1. Touching(k)' = Touching(k)
  BY SameTerms DEF Touching
<1>2. Unreversed(k)' <=> Unreversed(k)
  BY <1>1 DEF Unreversed, Reverses
<1>3. Unreturned(k)' <=> Unreturned(k)
  BY <1>1 DEF Unreturned
<1>4. QED
  BY <1>1, <1>2, <1>3

LEMMA CostsJoin ==
    ASSUME NEW i \in pending, NEW k, i \in Touching(k),
           pending' = pending \ {i}, dataset' = dataset, request' = request
    PROVE  /\ CostsOf(k)' = CostsOf(k) \union CostIn(dataset[i])
           /\ \A c : c # k => CostsOf(c)' = CostsOf(c)
<1>1. \A c : Touching(c)' = Touching(c)
  BY SameTouching
<1>2. \A c : CostsOf(c)' = {dataset[j].cost : j \in {x \in Touching(c) \ (pending \ {i}) :
                                                   dataset[x].move \in Inbound}} \ {None}
  BY <1>1 DEF CostsOf
<1>3. ASSUME NEW c, c # k PROVE i \notin Touching(c)
  BY <1>3 DEF Touching
<1>4. ASSUME NEW c, c # k PROVE CostsOf(c)' = CostsOf(c)
  <2>1. Touching(c) \ (pending \ {i}) = Touching(c) \ pending
    BY <1>3, <1>4
  <2>2. QED
    BY <1>2, <2>1 DEF CostsOf
<1>5. CostsOf(k)' = CostsOf(k) \union CostIn(dataset[i])
  <2> DEFINE new == {x \in Touching(k) \ (pending \ {i}) : dataset[x].move \in Inbound}
             old == {x \in Touching(k) \ pending : dataset[x].move \in Inbound}
  <2>1. CostsOf(k)' = {dataset[j].cost : j \in new} \ {None}
    BY <1>2
  <2>2. CostsOf(k) = {dataset[j].cost : j \in old} \ {None}
    BY DEF CostsOf
  <2>3. CASE dataset[i].move \in Inbound
    <3>1. new = old \union {i} /\ CostIn(dataset[i]) = {dataset[i].cost} \ {None}
      BY <2>3 DEF CostIn
    <3> HIDE DEF new, old
    <3>2. QED
      BY <2>1, <2>2, <3>1
  <2>4. CASE dataset[i].move \notin Inbound
    <3>1. new = old /\ CostIn(dataset[i]) = {}
      BY <2>4 DEF CostIn
    <3> HIDE DEF new, old
    <3>2. QED
      BY <2>1, <2>2, <3>1
  <2>5. QED
    BY <2>3, <2>4
<1>6. QED
  BY <1>4, <1>5

\* A step of the replay, from what it does to the bucket of its event.
LEMMA AdvanceCosts ==
    ASSUME StockIInv, CostInv, NEW i \in pending, Turn(i), InHorizon(dataset[Origin(i)]),
           NEW a \in Bucket, NEW delta \in Int, Advance(i, a, delta),
           missingCost \subseteq missingCost', NEW o, o = buckets[KeyOf(i)],
           a.out = o.out, a.cogs = o.cogs, a.firstNegative = o.firstNegative,
           Unreversed(KeyOf(i)) /\ o.balance >= 0 /\ AvgWithin(o.avg, CostsOf(KeyOf(i)))
               => AvgWithin(a.avg, CostsOf(KeyOf(i)) \union CostIn(dataset[i])),
           Unreversed(KeyOf(i)) /\ Unreturned(KeyOf(i))
               => /\ delta \in Nat
                  /\ delta # 0 /\ a.avg = None => KeyOf(i)[1] \in missingCost'
    PROVE  CostInv'
<1>1. PICK k \in Keys : k = KeyOf(i)
  BY TurnFacts
<1> DEFINE in == InPeriod(dataset[i])
           day == dataset[i].day
           b == Tracked([Charged(a, delta, day) EXCEPT !.live = TRUE], day, in)
           C == CostsOf(k)
           D == C \union CostIn(dataset[i])
<1>2. pc = "replay" /\ i \in DOMAIN dataset /\ dataset[i] \in Moved /\ i \in Touching(k)
  BY <1>1, TurnFacts
<1>3. /\ buckets' = [buckets EXCEPT ![k] = b] /\ pending' = pending \ {i}
      /\ UNCHANGED <<pc, request, dataset>>
  BY <1>1 DEF Advance
<1>4. buckets \in [Keys -> Bucket] /\ o \in Bucket
  BY <1>1 DEF StockIInv, TypeOK
<1>5. buckets'[k] = b /\ \A c \in Keys \ {k} : buckets'[c] = buckets[c]
  BY <1>3, <1>4
<1>6. /\ CostsOf(k)' = D /\ \A c : c # k => CostsOf(c)' = CostsOf(c)
  BY <1>2, <1>3, CostsJoin
<1>7. \A c : (Unreversed(c)' <=> Unreversed(c)) /\ (Unreturned(c)' <=> Unreturned(c))
  BY <1>3, SameTouching
<1>8. /\ b.balance = a.balance /\ b.avg = a.avg /\ b.out = a.out + delta
      /\ b.cogs = CogsAfter(a.cogs, delta, a.avg)
      /\ b.firstNegative = None => a.firstNegative = None /\ a.balance >= 0
  <2>1. day \in Days /\ in \in BOOLEAN
    BY <1>2, MovedFacts DEF InPeriod
  <2> HIDE DEF day, in
  <2>2. QED
    BY <2>1, TailType, TailCosts
<1> HIDE DEF b
<1>9. ASSUME Unreversed(k), b.firstNegative = None
      PROVE  /\ b.balance >= 0 /\ AvgWithin(b.avg, D)
             /\ Unreturned(k) => CogsAtMost(b.cogs, b.out, D)
             /\ Unreturned(k) /\ k[1] \notin missingCost' => CogsAtLeast(b.cogs, b.out, D)
  <2>1. Costed(o, C, k)
    BY <1>1, <1>2, <1>9 DEF CostInv
  <2>2. /\ o.balance >= 0 /\ AvgWithin(o.avg, C)
        /\ Unreturned(k) => CogsAtMost(a.cogs, a.out, C)
        /\ Unreturned(k) /\ k[1] \notin missingCost' => CogsAtLeast(a.cogs, a.out, C)
    BY <1>8, <1>9, <2>1 DEF Costed
  <2>3. b.balance >= 0 /\ AvgWithin(a.avg, D)
    BY <1>1, <1>8, <1>9, <2>2
  <2>4. Unreturned(k) => /\ delta \in Nat
                         /\ k[1] \notin missingCost' => (delta # 0 => a.avg # None)
    BY <1>1, <1>9
  <2>5. a.cogs \in Frac /\ a.out \in Int /\ a.avg \in Frac \union {None} /\ C \subseteq D
    BY BucketParts
  <2> HIDE DEF C, D
  <2>6. delta \in Nat
           => /\ CogsAtMost(a.cogs, a.out, C)
                    => CogsAtMost(CogsAfter(a.cogs, delta, a.avg), a.out + delta, D)
              /\ CogsAtLeast(a.cogs, a.out, C) /\ (delta # 0 => a.avg # None)
                    => CogsAtLeast(CogsAfter(a.cogs, delta, a.avg), a.out + delta, D)
    BY <2>3, <2>5, CogsCharged
  <2>7. QED
    BY <1>8, <2>2, <2>3, <2>4, <2>6
<1>10. ASSUME NEW c \in Keys, Unreversed(c)'
       PROVE  Costed(buckets[c], CostsOf(c), c)'
  <2>1. Unreversed(c) /\ (Unreturned(c)' => Unreturned(c))
    BY <1>7, <1>10
  <2>2. CASE c = k
    <3>1. CostsOf(c)' = D /\ buckets'[c] = b
      BY <1>5, <1>6, <2>2
    <3>2. QED
      BY <1>9, <2>1, <2>2, <3>1 DEF Costed
  <2>3. CASE c # k
    <3>1. CostsOf(c)' = CostsOf(c) /\ buckets'[c] = buckets[c]
      BY <1>5, <1>6, <2>3
    <3>2. Costed(buckets[c], CostsOf(c), c)
      BY <1>2, <2>1 DEF CostInv
    <3>3. QED
      BY <2>1, <3>1, <3>2 DEF Costed
  <2>4. QED
    BY <2>2, <2>3
<1>11. QED
  BY <1>10 DEF CostInv

LEMMA InboundCosts ==
    ASSUME StockIInv, CostInv, NEW i \in pending, ReplayInbound(i)
    PROVE  CostInv'
<1> DEFINE e == dataset[Origin(i)]
           k == KeyOf(i)
           o == buckets[k]
           p == Opened(i)
           in == InPeriod(e)
           a == Received(p, e, SignOf(i))
           delta == OutDelta(e, SignOf(i), in)
<1>1. /\ Turn(i) /\ InHorizon(e) /\ e.move \in Inbound /\ Advance(i, a, delta)
      /\ missingCost' = missingCost
  BY DEF ReplayInbound
<1>2. /\ i \in DOMAIN dataset /\ i # None /\ Booked(e) /\ p \in Bucket /\ i \in Touching(k)
      /\ SignOf(i) \in {1, -1} /\ in \in BOOLEAN
  BY <1>1, TurnFacts, MovedFacts, RowFacts, SignIsOne DEF StockIInv, InPeriod
<1>3. SameCosts(o, p)
  BY <1>1, OpenedCosts
<1>4. a \in Bucket /\ a.firstNegative = p.firstNegative
  BY <1>2, ReceivedType
<1>5. delta \in Int
  <2> HIDE DEF e, in
  <2>1. QED
    BY <1>2, OutDeltaType
<1>6. a.avg = NewAvg(p, e, SignOf(i)) /\ a.out = p.out /\ a.cogs = p.cogs
  BY <1>2, ReceivedCosts
<1>7. Unreversed(k) => SignOf(i) = 1 /\ e = dataset[i]
  BY <1>2, OwnOrigin DEF Unreversed
<1>8. Unreversed(k) /\ Unreturned(k) => delta = 0
  <2>1. Unreversed(k) /\ Unreturned(k) => e.move # "RETURN"
    BY <1>2, <1>7 DEF Unreturned
  <2>2. e.move \notin Outbound
    BY <1>1 DEF Inbound, Outbound
  <2>3. QED
    BY <2>1, <2>2 DEF OutDelta
<1>9. Unreversed(k) /\ o.balance >= 0 /\ AvgWithin(o.avg, CostsOf(k))
         => AvgWithin(a.avg, CostsOf(k) \union CostIn(dataset[i]))
  <2> SUFFICES ASSUME Unreversed(k), o.balance >= 0, AvgWithin(o.avg, CostsOf(k))
               PROVE  AvgWithin(a.avg, CostsOf(k) \union CostIn(dataset[i]))
    OBVIOUS
  <2>1. p.balance >= 0 /\ AvgWithin(p.avg, CostsOf(k))
    BY <1>3 DEF SameCosts
  <2>2. a.avg = NewAvg(p, e, 1) /\ e = dataset[i]
    BY <1>6, <1>7
  <2> HIDE DEF a, p, k
  <2>3. AvgWithin(NewAvg(p, e, 1), CostsOf(k) \union CostIn(e))
    BY <1>1, <1>2, <2>1, AvgReceives
  <2> HIDE DEF e
  <2>4. QED
    BY <2>2, <2>3
<1> HIDE DEF a, delta, p, o, e, in
<1>10. a.out = o.out /\ a.cogs = o.cogs /\ a.firstNegative = o.firstNegative
  BY <1>3, <1>4, <1>6 DEF SameCosts
<1>11. QED
  BY <1>1, <1>4, <1>5, <1>8, <1>9, <1>10, AdvanceCosts DEF o, e, k

LEMMA OutboundCosts ==
    ASSUME StockIInv, CostInv, NEW i \in pending, ReplayOutbound(i)
    PROVE  CostInv'
<1> DEFINE e == dataset[Origin(i)]
           k == KeyOf(i)
           o == buckets[k]
           p == Opened(i)
           in == InPeriod(e)
           a == Issued(p, e, SignOf(i))
           delta == OutDelta(e, SignOf(i), in)
<1>1. /\ Turn(i) /\ InHorizon(e) /\ e.move \in Outbound /\ Advance(i, a, delta)
      /\ missingCost' = IF in /\ SignOf(i) = 1 /\ o.avg = None
                        THEN missingCost \union {e.sku} ELSE missingCost
  BY DEF ReplayOutbound
<1>2. /\ i \in DOMAIN dataset /\ i # None /\ Booked(e) /\ p \in Bucket /\ i \in Touching(k)
      /\ SignOf(i) \in {1, -1} /\ in \in BOOLEAN /\ k[1] = e.sku
  BY <1>1, TurnFacts, MovedFacts, RowFacts, SignIsOne DEF StockIInv, InPeriod, KeyOf
<1>3. SameCosts(o, p)
  BY <1>1, OpenedCosts
<1>4. a \in Bucket /\ a.firstNegative = p.firstNegative
  BY <1>2, IssuedType
<1>5. delta \in Int
  <2> HIDE DEF e, in
  <2>1. QED
    BY <1>2, OutDeltaType
<1>6. a.avg = p.avg /\ a.out = p.out /\ a.cogs = p.cogs
  BY <1>2, IssuedCosts
<1>7. Unreversed(k) => SignOf(i) = 1
  BY <1>2, OwnOrigin DEF Unreversed
<1>8. Unreversed(k)
         => /\ delta \in Nat
            /\ delta # 0 /\ a.avg = None => k[1] \in missingCost'
  <2> SUFFICES ASSUME Unreversed(k)
               PROVE  /\ delta \in Nat
                      /\ delta # 0 /\ a.avg = None => k[1] \in missingCost'
    OBVIOUS
  <2>1. e.qty \in Nat
    BY <1>2 DEF Booked, Slicable
  <2>2. delta = IF in THEN e.qty ELSE 0
    BY <1>1, <1>7, <2>1 DEF OutDelta
  <2>3. a.avg = o.avg
    BY <1>3, <1>6 DEF SameCosts
  <2> HIDE DEF delta, a, o, e, in, k
  <2>4. QED
    BY <1>1, <1>2, <1>7, <2>1, <2>2, <2>3
<1>9. Unreversed(k) /\ o.balance >= 0 /\ AvgWithin(o.avg, CostsOf(k))
         => AvgWithin(a.avg, CostsOf(k) \union CostIn(dataset[i]))
  BY <1>3, <1>6, AvgGrows DEF SameCosts
<1> HIDE DEF a, delta, p, o, e, in
<1>10. a.out = o.out /\ a.cogs = o.cogs /\ a.firstNegative = o.firstNegative
  BY <1>3, <1>4, <1>6 DEF SameCosts
<1>11. missingCost \subseteq missingCost'
  BY <1>1
<1>12. QED
  BY <1>1, <1>4, <1>5, <1>8, <1>9, <1>10, <1>11, AdvanceCosts DEF o, e, k

\* A count and a transfer leave the average and the cost of goods.
LEMMA CountCosts ==
    ASSUME StockIInv, CostInv, NEW i \in pending, ReplayStocktake(i) \/ ReplayTransfer(i)
    PROVE  CostInv'
<1> DEFINE e == dataset[Origin(i)]
           k == KeyOf(i)
           o == buckets[k]
           p == Opened(i)
<1>1. /\ Turn(i) /\ InHorizon(e) /\ missingCost' = missingCost
      /\ \/ Advance(i, Counted(p, Origin(i), e, SignOf(i)), 0)
         \/ Advance(i, p, 0)
  BY DEF ReplayStocktake, ReplayTransfer
<1>2. Booked(e) /\ p \in Bucket /\ Origin(i) \in Ids /\ SignOf(i) \in {1, -1}
  BY <1>1, TurnFacts, MovedFacts, SignIsOne
<1>3. SameCosts(o, p)
  BY <1>1, OpenedCosts
<1>4. PICK a \in Bucket : /\ Advance(i, a, 0) /\ a.firstNegative = p.firstNegative
                          /\ a.avg = p.avg /\ a.out = p.out /\ a.cogs = p.cogs
  <2>1. CASE Advance(i, p, 0)
    BY <1>2, <2>1
  <2>2. CASE Advance(i, Counted(p, Origin(i), e, SignOf(i)), 0)
    BY <1>2, <2>2, CountedType, CountedCosts
  <2>3. QED
    BY <1>1, <2>1, <2>2
<1>5. Unreversed(k) /\ o.balance >= 0 /\ AvgWithin(o.avg, CostsOf(k))
         => AvgWithin(a.avg, CostsOf(k) \union CostIn(dataset[i]))
  BY <1>3, <1>4, AvgGrows DEF SameCosts
<1> HIDE DEF p, o, e
<1>6. a.out = o.out /\ a.cogs = o.cogs /\ a.firstNegative = o.firstNegative
  BY <1>3, <1>4 DEF SameCosts
<1>7. PICK delta \in Nat : delta = 0
  OBVIOUS
<1>8. /\ delta \in Int /\ Advance(i, a, delta) /\ missingCost \subseteq missingCost'
      /\ InHorizon(dataset[Origin(i)])
  BY <1>1, <1>4, <1>7 DEF e
<1>9. Unreversed(k) /\ Unreturned(k)
         => /\ delta \in Nat
            /\ delta # 0 /\ a.avg = None => k[1] \in missingCost'
  BY <1>7
<1>10. QED
  BY <1>1, <1>4, <1>5, <1>6, <1>8, <1>9, AdvanceCosts DEF o, k

LEMMA SkipCosts ==
    ASSUME StockIInv, CostInv, NEW i \in pending, SkipReversal(i)
    PROVE  CostInv'
<1>1. /\ pc = "replay" /\ ~InHorizon(dataset[Origin(i)]) /\ pending' = pending \ {i}
      /\ UNCHANGED <<pc, request, dataset, buckets, missingCost>>
  BY DEF SkipReversal, Turn
<1>2. \A k : /\ Touching(k)' = Touching(k)
             /\ (Unreversed(k)' <=> Unreversed(k)) /\ (Unreturned(k)' <=> Unreturned(k))
  BY <1>1, SameTouching
<1>3. ASSUME NEW k PROVE CostsOf(k)' = CostsOf(k)
  <2>1. i \notin Touching(k)
    BY <1>1 DEF Touching, Horizon
  <2>2. Touching(k) \ (pending \ {i}) = Touching(k) \ pending
    BY <2>1
  <2>3. CostsOf(k)' = {dataset[j].cost : j \in {x \in Touching(k) \ (pending \ {i}) :
                                                 dataset[x].move \in Inbound}} \ {None}
    BY <1>1, <1>2 DEF CostsOf
  <2>4. QED
    BY <2>2, <2>3 DEF CostsOf
<1>4. ASSUME NEW k \in Keys, Unreversed(k)' PROVE Costed(buckets[k], CostsOf(k), k)'
  <2>1. Costed(buckets[k], CostsOf(k), k) /\ (Unreturned(k)' => Unreturned(k))
    BY <1>1, <1>2, <1>4 DEF CostInv
  <2>2. CostsOf(k)' = CostsOf(k) /\ buckets' = buckets /\ missingCost' = missingCost
    BY <1>1, <1>3
  <2>3. QED
    BY <2>1, <2>2 DEF Costed
<1>5. QED
  BY <1>4 DEF CostInv

LEMMA FinishCosts ==
    ASSUME StockIInv, CostInv, FinishReplay
    PROVE  CostInv'
<1>1. /\ pc = "replay" /\ UNCHANGED <<request, dataset, pending, missingCost>>
      /\ buckets' = [k \in Keys |-> IF buckets[k].live THEN Captured(buckets[k])
                                                       ELSE buckets[k]]
  BY DEF FinishReplay
<1>2. \A k : /\ Touching(k)' = Touching(k)
             /\ (Unreversed(k)' <=> Unreversed(k)) /\ (Unreturned(k)' <=> Unreturned(k))
  BY <1>1, SameTouching
<1>3. ASSUME NEW k PROVE CostsOf(k)' = CostsOf(k)
  BY <1>1, <1>2 DEF CostsOf
<1>4. ASSUME NEW k \in Keys, Unreversed(k)' PROVE Costed(buckets[k], CostsOf(k), k)'
  <2>1. Costed(buckets[k], CostsOf(k), k) /\ (Unreturned(k)' => Unreturned(k))
    BY <1>1, <1>2, <1>4 DEF CostInv
  <2>2. CostsOf(k)' = CostsOf(k) /\ missingCost' = missingCost
    BY <1>1, <1>3
  <2>3. buckets[k] \in Bucket
    BY DEF StockIInv, TypeOK
  <2>4. SameCosts(buckets[k], buckets'[k])
    BY <1>1, <2>3, CapturedCosts DEF SameCosts
  <2>5. QED
    BY <2>1, <2>2, <2>4 DEF Costed, SameCosts
<1>5. QED
  BY <1>4 DEF CostInv

LEMMA StartCosts ==
    ASSUME StockIInv, StartReplay
    PROVE  CostInv'
<1>1. pc = "loaded" /\ buckets' = buckets
  BY DEF StartReplay
<1>2. ASSUME NEW k \in Keys PROVE Costed(buckets[k], CostsOf(k), k)'
  <2>1. buckets'[k] = NewBucket
    BY <1>1 DEF StockIInv, FreshInv
  <2>2. /\ buckets'[k].balance = 0 /\ buckets'[k].avg = None /\ buckets'[k].out = 0
        /\ buckets'[k].cogs.num = 0 /\ buckets'[k].cogs.den = 1
    BY <2>1 DEF NewBucket, Whole
  <2>3. \A x \in Nat : x * 0 * 1 = 0
    OBVIOUS
  <2>4. QED
    BY <2>2, <2>3 DEF Costed, AvgWithin, CogsAtMost, CogsAtLeast
<1>3. QED
  BY <1>2 DEF CostInv

\* The average and the cost of goods stay within the costs in every reachable state.
LEMMA CostInvariance == Spec => []CostInv
<1>1. Init => CostInv
  BY DEF Init, CostInv
<1>2. StockIInv /\ CostInv /\ [Next]_vars => CostInv'
  <2> SUFFICES ASSUME StockIInv, CostInv, [Next]_vars PROVE CostInv'
    OBVIOUS
  <2>1. ASSUME NEW i \in pending,
               ReplayInbound(i) \/ ReplayOutbound(i) \/ ReplayStocktake(i)
                  \/ ReplayTransfer(i) \/ SkipReversal(i)
        PROVE  CostInv'
    BY <2>1, InboundCosts, OutboundCosts, CountCosts, SkipCosts
  <2>2. CASE StartReplay
    BY <2>2, StartCosts
  <2>3. CASE FinishReplay
    BY <2>3, FinishCosts
  <2>4. ASSUME \/ UNCHANGED vars
               \/ \E row \in Menu, day \in Days, rev \in 1..Len(ledger) + 1 \union {None} :
                     Record(row, day, rev)
        PROVE  CostInv'
    <3>1. UNCHANGED <<pc, request, dataset, buckets, pending, missingCost>>
      BY <2>4 DEF vars, engine, Record
    <3>2. \A k : /\ Touching(k)' = Touching(k)
                 /\ (Unreversed(k)' <=> Unreversed(k)) /\ (Unreturned(k)' <=> Unreturned(k))
      BY <3>1, SameTouching
    <3>3. \A k : CostsOf(k)' = CostsOf(k)
      BY <3>1, <3>2 DEF CostsOf
    <3>4. QED
      BY <3>1, <3>2, <3>3 DEF CostInv, Costed
  <2>5. CASE AskLocal \/ LoadLocal \/ (\E q \in Requests : LoadContract(q)) \/ Refuse \/ Return
    <3>1. pc' \notin {"replay", "done"}
      BY <2>5 DEF AskLocal, LoadLocal, LoadContract, Refuse, Return
    <3>2. QED
      BY <3>1 DEF CostInv
  <2>6. QED
    BY <2>1, <2>2, <2>3, <2>4, <2>5 DEF Next
<1>3. QED
  BY <1>1, <1>2, ReplayInvariance, PTL DEF Spec

LEMMA CostBounds ==
    ASSUME StockIInv, pc \in {"replay", "done"}, NEW k, CostsOf(k) # {}
    PROVE  /\ Least(CostsOf(k)) \in Nat /\ Below(Least(CostsOf(k)), CostsOf(k))
           /\ Largest(CostsOf(k)) \in Nat /\ Above(Largest(CostsOf(k)), CostsOf(k))
<1> DEFINE C == CostsOf(k)
           cost == [i \in Horizon |-> dataset[i].cost]
           I == {cost[i] : i \in Horizon}
           id == [x \in C |-> x]
           n == Total(id, C)
<1>1. IsFiniteSet(C)
  <2>1. IsFiniteSet(Horizon)
    BY HorizonFacts
  <2>2. cost \in Surjection(Horizon, I)
    BY DEF Surjection
  <2>3. C \subseteq I
    BY DEF CostsOf, Touching
  <2> HIDE DEF cost, C
  <2>4. IsFiniteSet(I)
    BY <2>1, <2>2, FS_Surjection
  <2>5. QED
    BY <2>3, <2>4, FS_Subset
<1>2. C \subseteq Nat
  <2>1. \A i \in Horizon : dataset[i].cost \in Nat \union {None}
    BY HorizonFacts, MovedFacts
  <2>2. QED
    BY <2>1 DEF CostsOf, Touching
<1> HIDE DEF C
<1>3. Nats(id, C)
  BY <1>2 DEF Nats
<1>4. n \in Nat
  BY <1>1, <1>3, TotalType
<1>5. ASSUME NEW x \in C PROVE x \in 0..n
  <2>1. {x} \in SUBSET C /\ id[x] = x /\ x \in Nat
    BY <1>2
  <2>2. Total(id, {x}) <= n
    BY <1>1, <1>3, <2>1, TotalMonotone
  <2>3. Total(id, {x}) = id[x] + Total(id, {x} \ {x})
    <3>1. IsFiniteSet({x})
      BY FS_Singleton
    <3>2. Ints(id, {x})
      BY <2>1 DEF Ints
    <3> HIDE DEF id
    <3>3. QED
      BY <3>1, <3>2, TotalTake
  <2>4. Total(id, {x} \ {x}) = 0
    <3>1. {x} \ {x} = {}
      OBVIOUS
    <3>2. QED
      BY <3>1, TotalOfNone
  <2> HIDE DEF n
  <2>5. QED
    BY <1>4, <2>1, <2>2, <2>3, <2>4
<1>6. C # {}
  BY DEF C
<1> HIDE DEF n
<1>7. /\ Least(C) \in C /\ \A t \in C : Least(C) <= t
      /\ Largest(C) \in C /\ \A t \in C : t <= Largest(C)
  BY <1>4, <1>5, <1>6, BoundsOf
<1>8. QED
  BY <1>2, <1>7 DEF C, Below, Above

\* While stock was never negative and nothing is undone, the moving average is
\* within the costs it averages, and so is the cost of goods of a period
\* without returns, for any ledger, period and order of events.
THEOREM AverageWithinCosts == Spec => []AvgWithinCosts
<1>1. StockIInv /\ CostInv => AvgWithinCosts
  <2> SUFFICES ASSUME StockIInv, CostInv, pc \in {"replay", "done"}, NEW k \in Keys,
                      ~(\E i \in Touching(k) : Reverses(i)),
                      buckets[k].firstNegative = None, buckets[k].avg # None
               PROVE  LET b == buckets[k]
                          returned == \E i \in Touching(k) : dataset[i].move = "RETURN"
                          costs == {dataset[i].cost : i \in {j \in Touching(k) \ pending :
                                        dataset[j].move \in Inbound}} \ {None}
                      IN  /\ AtMost(Whole(Least(costs)), b.avg)
                          /\ AtMost(b.avg, Whole(Largest(costs)))
                          /\ ~returned => AtMost(b.cogs, Whole(b.out * Largest(costs)))
                          /\ ~returned /\ k[1] \notin missingCost
                                => AtMost(Whole(b.out * Least(costs)), b.cogs)
    BY DEF AvgWithinCosts
  <2> DEFINE b == buckets[k]
             C == CostsOf(k)
             low == Least(C)
             high == Largest(C)
  <2>1. /\ AvgWithin(b.avg, C)
        /\ Unreturned(k) => CogsAtMost(b.cogs, b.out, C)
        /\ Unreturned(k) /\ k[1] \notin missingCost => CogsAtLeast(b.cogs, b.out, C)
    BY DEF CostInv, Costed, Unreversed
  <2>2. low \in Nat /\ Below(low, C) /\ high \in Nat /\ Above(high, C)
    <3>1. C # {}
      BY <2>1 DEF AvgWithin
    <3>2. QED
      BY <3>1, CostBounds
  <2>3. b \in Bucket
    BY DEF StockIInv, TypeOK
  <2>4. b.avg \in Frac /\ b.cogs \in Frac /\ b.out \in Int
    BY <2>3, BucketParts
  <2>5. /\ b.avg.num \in Int /\ b.avg.den \in Int /\ b.cogs.num \in Int /\ b.cogs.den \in Int
    BY <2>4 DEF Frac
  <2> HIDE DEF low, high, C, b
  <2>6. AtMost(Whole(low), b.avg) /\ AtMost(b.avg, Whole(high))
    <3>1. low * b.avg.den <= b.avg.num /\ b.avg.num <= high * b.avg.den
      BY <2>1, <2>2 DEF AvgWithin, b
    <3>2. b.avg.num * 1 = b.avg.num
      BY <2>5
    <3>3. QED
      BY <3>1, <3>2 DEF AtMost, Whole
  <2>7. Unreturned(k) => AtMost(b.cogs, Whole(b.out * high))
    <3> SUFFICES ASSUME Unreturned(k) PROVE AtMost(b.cogs, Whole(b.out * high))
      OBVIOUS
    <3>1. b.cogs.num <= high * b.out * b.cogs.den
      BY <2>1, <2>2 DEF CogsAtMost
    <3>2. b.cogs.num * 1 = b.cogs.num /\ b.out * high = high * b.out
      BY <2>2, <2>4, <2>5
    <3>3. QED
      BY <3>1, <3>2 DEF AtMost, Whole
  <2>8. Unreturned(k) /\ k[1] \notin missingCost => AtMost(Whole(b.out * low), b.cogs)
    <3> SUFFICES ASSUME Unreturned(k), k[1] \notin missingCost
                 PROVE  AtMost(Whole(b.out * low), b.cogs)
      OBVIOUS
    <3>1. low * b.out * b.cogs.den <= b.cogs.num
      BY <2>1, <2>2 DEF CogsAtLeast
    <3>2. b.cogs.num * 1 = b.cogs.num /\ b.out * low = low * b.out
      BY <2>2, <2>4, <2>5
    <3>3. QED
      BY <3>1, <3>2 DEF AtMost, Whole
  <2>9. QED
    BY <2>6, <2>7, <2>8 DEF b, C, low, high, CostsOf, Unreturned
<1>2. QED
  BY <1>1, ReplayInvariance, CostInvariance, PTL

-----------------------------------------------------------------------------
(***************************************************************************)
(* The replay: chains of reversals                                         *)
(***************************************************************************)

\* What an event is about, one layer down.
OneDown(x) == IF x # None /\ x \in DOMAIN dataset
             THEN IF dataset[x].move = "REVERSAL" THEN dataset[x].rev ELSE x
             ELSE None

\* Every chain of reversals ends, and goes back in the order of insertion.
Orderly ==
    /\ ReversalsResolve
    /\ \A i \in DOMAIN dataset : dataset[i] \in Moved /\ dataset[i].rev \in 1..i \union {None}
    /\ DOMAIN dataset \subseteq Ids

LEMMA DaysFinite == IsFiniteSet(Days)
<1>1. MaxDay \in Nat /\ Days = 0..MaxDay
  BY StockAssumption DEF StockAssumption, Days
<1>2. QED
  BY <1>1, FS_Interval

LEMMA OrderlyFacts ==
    ASSUME Orderly
    PROVE  /\ IsFiniteSet(DOMAIN dataset) /\ MaxEvents \in Nat
           /\ \A i \in DOMAIN dataset : /\ i \in 1..MaxEvents /\ i \in Nat /\ i # None
                                        /\ Origin(i) \in DOMAIN dataset /\ ~Reverses(Origin(i))
<1>1. MaxEvents \in Nat /\ DOMAIN dataset \subseteq 1..MaxEvents
  BY StockAssumption DEF StockAssumption, Orderly, Ids
<1>2. IsFiniteSet(DOMAIN dataset)
  <2>1. IsFiniteSet(1..MaxEvents)
    BY <1>1, FS_Interval
  <2>2. QED
    BY <1>1, <2>1, FS_Subset
<1>3. \A i \in DOMAIN dataset : i \in 1..MaxEvents /\ i \in Nat /\ i # None
  BY <1>1, NoneApart
<1>4. QED
  BY <1>1, <1>2, <1>3 DEF Orderly, ReversalsResolve, Reverses

LEMMA ChainSteps ==
    ASSUME NEW i
    PROVE  /\ Chain(i)[0] = i
           /\ \A k \in 0..MaxEvents - 1 : Chain(i)[k + 1] = OneDown(Chain(i)[k])
<1> DEFINE Body1(f, k) == IF k = 0 THEN i ELSE OneDown(f[k - 1])
           Fine == {n \in Nat : \E f : f = [k \in 0..n |-> Body1(f, k)]}
<1>1. MaxEvents \in Nat
  BY StockAssumption DEF StockAssumption
<1>2. 0 \in Fine
  <2> DEFINE f == [k \in 0..0 |-> i]
  <2>1. f = [k \in 0..0 |-> Body1(f, k)]
    OBVIOUS
  <2> HIDE DEF f, Body1
  <2>2. QED
    BY <2>1
<1>3. ASSUME NEW n \in Nat, n \in Fine PROVE n + 1 \in Fine
  <2>1. PICK f : f = [k \in 0..n |-> Body1(f, k)]
    BY <1>3
  <2> DEFINE g == [k \in 0..n + 1 |-> Body1(f, k)]
  <2>2. ASSUME NEW k \in 0..n + 1 PROVE Body1(f, k) = Body1(g, k)
    <3>1. CASE k = 0
      BY <3>1
    <3>2. CASE k # 0
      <4>1. k - 1 \in 0..n /\ k - 1 \in 0..n + 1
        BY <3>2
      <4>2. f[k - 1] = Body1(f, k - 1)
        BY <2>1, <4>1
      <4>3. g[k - 1] = Body1(f, k - 1)
        BY <4>1
      <4> HIDE DEF g
      <4>4. QED
        BY <3>2, <4>2, <4>3
    <3>3. QED
      BY <3>1, <3>2
  <2> HIDE DEF Body1
  <2>3. g = [k \in 0..n + 1 |-> Body1(g, k)]
    BY <2>2
  <2> HIDE DEF g
  <2>4. QED
    BY <2>3
<1> HIDE DEF Fine
<1>4. MaxEvents \in Fine
  BY <1>1, <1>2, <1>3, NatSetInduction
<1>5. PICK f : f = [k \in 0..MaxEvents |-> Body1(f, k)]
  BY <1>4 DEF Fine
<1>6. IsChain(i, f)
  BY <1>5 DEF IsChain, OneDown
<1>7. Chain(i) = CHOOSE h : IsChain(i, h)
  BY DEF Chain, IsChain
<1>8. IsChain(i, Chain(i))
  BY <1>6, <1>7
<1> DEFINE c == Chain(i)
<1> HIDE DEF c
<1>9. c = [k \in 0..MaxEvents |-> Body1(c, k)]
  BY <1>8 DEF IsChain, OneDown, c
<1>10. c[0] = i
  <2>1. 0 \in 0..MaxEvents
    BY <1>1
  <2>2. QED
    BY <1>9, <2>1
<1>11. ASSUME NEW k \in 0..MaxEvents - 1 PROVE c[k + 1] = OneDown(c[k])
  <2>1. k + 1 \in 0..MaxEvents /\ k + 1 # 0 /\ (k + 1) - 1 = k
    BY <1>1
  <2>2. c[k + 1] = Body1(c, k + 1)
    BY <1>9, <2>1
  <2>3. QED
    BY <2>1, <2>2
<1>12. QED
  BY <1>10, <1>11 DEF c

LEMMA ChainWithin ==
    ASSUME Orderly, NEW i \in DOMAIN dataset
    PROVE  \A k \in 0..MaxEvents : Chain(i)[k] \in DOMAIN dataset
<1> SUFFICES ASSUME NEW k \in 0..MaxEvents, Chain(i)[k] \notin DOMAIN dataset PROVE FALSE
  OBVIOUS
<1> DEFINE Good == {n \in Nat : k + n <= MaxEvents => Chain(i)[k + n] \notin DOMAIN dataset}
<1>1. MaxEvents \in Nat /\ None \notin DOMAIN dataset
  BY OrderlyFacts
<1>2. 0 \in Good
  BY <1>1
<1>3. ASSUME NEW n \in Nat, n \in Good PROVE n + 1 \in Good
  <2> SUFFICES ASSUME k + (n + 1) <= MaxEvents
               PROVE  Chain(i)[k + (n + 1)] \notin DOMAIN dataset
    BY <1>3
  <2>1. k + n \in 0..MaxEvents - 1 /\ k + (n + 1) = (k + n) + 1 /\ k + n <= MaxEvents
    BY <1>1
  <2>2. Chain(i)[k + n] \notin DOMAIN dataset
    BY <1>3, <2>1
  <2>3. Chain(i)[(k + n) + 1] = None
    BY <2>1, <2>2, ChainSteps DEF OneDown
  <2>4. QED
    BY <1>1, <2>1, <2>3
<1> HIDE DEF Good
<1>4. MaxEvents - k \in Good
  BY <1>1, <1>2, <1>3, NatSetInduction
<1>5. k + (MaxEvents - k) = MaxEvents /\ MaxEvents <= MaxEvents
  BY <1>1
<1>6. Origin(i) \notin DOMAIN dataset
  BY <1>4, <1>5 DEF Good, Origin
<1>7. QED
  BY <1>6, OrderlyFacts

\* A reversal is about an event before it.
LEMMA UndoneBefore ==
    ASSUME Orderly, NEW i \in DOMAIN dataset, Reverses(i)
    PROVE  /\ dataset[i].rev \in DOMAIN dataset /\ dataset[i].rev < i
           /\ Chain(i)[1] = dataset[i].rev /\ MaxEvents >= 1
<1>1. MaxEvents \in Nat /\ i \in 1..MaxEvents /\ i # None
  BY OrderlyFacts
<1>2. 0 \in 0..MaxEvents - 1 /\ 0 + 1 = 1 /\ 1 \in 0..MaxEvents /\ MaxEvents >= 1
  BY <1>1
<1>3. OneDown(i) = dataset[i].rev
  BY <1>1 DEF OneDown, Reverses
<1>4. Chain(i)[0] = i /\ Chain(i)[0 + 1] = OneDown(Chain(i)[0])
  BY <1>2, ChainSteps
<1>5. Chain(i)[1] = dataset[i].rev
  BY <1>2, <1>3, <1>4
<1>6. dataset[i].rev \in DOMAIN dataset
  BY <1>2, <1>5, ChainWithin
<1>7. dataset[i].rev \in 1..i
  BY <1>6, OrderlyFacts DEF Orderly
<1>8. ASSUME dataset[i].rev = i PROVE FALSE
  <2> DEFINE Good == {n \in Nat : n <= MaxEvents => Chain(i)[n] = i}
  <2>1. 0 \in Good
    BY <1>4
  <2>2. ASSUME NEW n \in Nat, n \in Good PROVE n + 1 \in Good
    <3> SUFFICES ASSUME n + 1 <= MaxEvents PROVE Chain(i)[n + 1] = i
      BY <2>2
    <3>1. n \in 0..MaxEvents - 1 /\ n <= MaxEvents
      BY <1>1
    <3>2. Chain(i)[n] = i /\ Chain(i)[n + 1] = OneDown(Chain(i)[n])
      BY <2>2, <3>1, ChainSteps
    <3>3. QED
      BY <1>3, <1>8, <3>2
  <2> HIDE DEF Good
  <2>3. MaxEvents \in Good
    BY <1>1, <2>1, <2>2, NatSetInduction
  <2>4. Origin(i) = i
    BY <1>1, <2>3 DEF Good, Origin
  <2>5. QED
    BY <2>4, OrderlyFacts
<1>9. QED
  BY <1>1, <1>2, <1>5, <1>6, <1>7, <1>8

\* A chain that does not begin with the last event has ended a layer early.
LEMMA ChainEnds ==
    ASSUME Orderly, NEW i \in DOMAIN dataset, i < MaxEvents
    PROVE  ~Reverses(Chain(i)[MaxEvents - 1])
<1> DEFINE at == Chain(i)
           Good == {n \in Nat : n <= MaxEvents - 1 /\ Reverses(at[n]) => at[n] + n <= i}
<1>1. /\ MaxEvents \in Nat /\ i \in 1..MaxEvents
      /\ \A k \in 0..MaxEvents : at[k] \in DOMAIN dataset /\ at[k] \in Nat /\ at[k] >= 1
  <2>1. \A k \in 0..MaxEvents : at[k] \in DOMAIN dataset
    BY ChainWithin
  <2> HIDE DEF at
  <2>2. \A x \in DOMAIN dataset : x \in 1..MaxEvents /\ x \in Nat
    BY OrderlyFacts
  <2>3. QED
    BY <2>1, <2>2, OrderlyFacts
<1>2. /\ at[0] = i
      /\ \A k \in 0..MaxEvents - 1 : at[k + 1] = OneDown(at[k])
  BY ChainSteps
<1> HIDE DEF at
<1>3. 0 \in Good
  BY <1>1, <1>2
<1>4. ASSUME NEW n \in Nat, n \in Good PROVE n + 1 \in Good
  <2> SUFFICES ASSUME n + 1 <= MaxEvents - 1, Reverses(at[n + 1])
               PROVE  at[n + 1] + (n + 1) <= i
    BY <1>4
  <2>1. /\ n \in 0..MaxEvents - 1 /\ n \in 0..MaxEvents /\ n + 1 \in 0..MaxEvents
        /\ n <= MaxEvents - 1
    BY <1>1
  <2>2. at[n] \in DOMAIN dataset /\ at[n] \in Nat /\ at[n + 1] \in Nat
    BY <1>1, <2>1
  <2>3. at[n + 1] = OneDown(at[n]) /\ at[n] # None
    BY <1>2, <2>1, <2>2, OrderlyFacts
  <2>4. Reverses(at[n]) /\ at[n + 1] = dataset[at[n]].rev
    BY <2>2, <2>3 DEF OneDown, Reverses
  <2>5. at[n + 1] < at[n]
    BY <2>2, <2>4, UndoneBefore
  <2>6. at[n] + n <= i
    BY <1>4, <2>1, <2>4
  <2>7. QED
    BY <1>1, <2>2, <2>5, <2>6
<1> HIDE DEF Good
<1>5. MaxEvents - 1 \in Nat /\ MaxEvents - 1 \in 0..MaxEvents
  BY <1>1
<1>6. MaxEvents - 1 \in Good
  BY <1>3, <1>4, <1>5, NatSetInduction
<1>7. ASSUME Reverses(at[MaxEvents - 1]) PROVE FALSE
  <2>1. at[MaxEvents - 1] + (MaxEvents - 1) <= i
    BY <1>5, <1>6, <1>7 DEF Good
  <2>2. QED
    BY <1>1, <1>5, <2>1
<1>8. QED
  BY <1>7 DEF at

\* A reversal has the base of what it undoes, and the opposite sign.
LEMMA UndoingFlips ==
    ASSUME Orderly, NEW i \in DOMAIN dataset, Reverses(i), NEW p, p = dataset[i].rev
    PROVE  Origin(i) = Origin(p) /\ SignOf(i) = -SignOf(p)
<1> DEFINE up == Chain(i)
           at == Chain(p)
           Good == {n \in Nat : n <= MaxEvents - 1 => up[n + 1] = at[n]}
           L == Layers(p)
           M == Layers(i)
<1>1. /\ MaxEvents \in Nat /\ MaxEvents >= 1 /\ i <= MaxEvents /\ p < i /\ p \in Nat
      /\ p \in DOMAIN dataset /\ up[1] = p
  BY OrderlyFacts, UndoneBefore
<1>2. /\ at[0] = p /\ up[0] = i
      /\ \A k \in 0..MaxEvents - 1 : at[k + 1] = OneDown(at[k]) /\ up[k + 1] = OneDown(up[k])
  BY ChainSteps
<1>3. ~Reverses(at[MaxEvents - 1]) /\ at[MaxEvents - 1] \in DOMAIN dataset
  <2>1. p < MaxEvents /\ MaxEvents - 1 \in 0..MaxEvents
    BY <1>1, OrderlyFacts
  <2>2. QED
    BY <1>1, <2>1, ChainEnds, ChainWithin
<1>4. /\ L = {k \in 0..MaxEvents - 1 : Reverses(at[k])}
      /\ M = {k \in 0..MaxEvents - 1 : Reverses(up[k])}
      /\ Origin(i) = up[MaxEvents] /\ Origin(p) = at[MaxEvents]
  BY DEF Layers, Reverses, Origin
<1> HIDE DEF up, at
<1>5. 0 \in Good
  BY <1>1, <1>2
<1>6. ASSUME NEW n \in Nat, n \in Good PROVE n + 1 \in Good
  <2> SUFFICES ASSUME n + 1 <= MaxEvents - 1 PROVE up[(n + 1) + 1] = at[n + 1]
    BY <1>6
  <2>1. n \in 0..MaxEvents - 1 /\ n + 1 \in 0..MaxEvents - 1 /\ n <= MaxEvents - 1
    BY <1>1
  <2>2. up[n + 1] = at[n]
    BY <1>6, <2>1
  <2>3. QED
    BY <1>2, <2>1, <2>2
<1> HIDE DEF Good
<1>7. \A n \in 0..MaxEvents - 1 : up[n + 1] = at[n]
  <2>1. Nat \subseteq Good
    BY <1>5, <1>6, NatSetInduction
  <2>2. \A n \in 0..MaxEvents - 1 : n \in Nat /\ n <= MaxEvents - 1
    BY <1>1
  <2>3. QED
    BY <2>1, <2>2 DEF Good
<1>8. Origin(i) = Origin(p)
  <2>1. MaxEvents - 1 \in 0..MaxEvents - 1 /\ (MaxEvents - 1) + 1 = MaxEvents
    BY <1>1
  <2>2. at[MaxEvents] = OneDown(at[MaxEvents - 1]) /\ up[MaxEvents] = at[MaxEvents - 1]
    BY <1>2, <1>7, <2>1
  <2>3. OneDown(at[MaxEvents - 1]) = at[MaxEvents - 1]
    BY <1>3, OrderlyFacts DEF OneDown, Reverses
  <2>4. QED
    BY <1>4, <2>2, <2>3
<1> HIDE DEF L, M
<1>9. Cardinality(M) = Cardinality(L) + 1 /\ Cardinality(L) \in Nat
  <2> DEFINE N == {k + 1 : k \in L}
             s == [k \in L |-> k + 1]
  <2>1. IsFiniteSet(L) /\ L \subseteq 0..MaxEvents - 1 /\ MaxEvents - 1 \notin L
    <3>1. IsFiniteSet(0..MaxEvents - 1)
      BY <1>1, FS_Interval
    <3>2. L \subseteq 0..MaxEvents - 1 /\ MaxEvents - 1 \notin L
      BY <1>3, <1>4
    <3>3. QED
      BY <3>1, <3>2, FS_Subset
  <2>2. s \in Bijection(L, N)
    <3>1. \A k \in L : k \in Int
      BY <1>1, <2>1
    <3>2. s \in Injection(L, N)
      BY <3>1 DEF Injection, IsInjective
    <3>3. s \in Surjection(L, N)
      BY <3>1 DEF Surjection
    <3>4. QED
      BY <3>2, <3>3 DEF Bijection
  <2>3. M = N \union {0}
    <3>1. ASSUME NEW k \in M PROVE k \in N \union {0}
      <4>1. k \in 0..MaxEvents - 1 /\ Reverses(up[k])
        BY <1>4
      <4>2. CASE k # 0
        <5>1. k - 1 \in 0..MaxEvents - 1 /\ (k - 1) + 1 = k
          BY <1>1, <4>1, <4>2
        <5>2. k - 1 \in L
          BY <1>4, <1>7, <4>1, <5>1
        <5>3. QED
          BY <5>1, <5>2
      <4>3. QED
        BY <4>2
    <3>2. 0 \in M
      BY <1>1, <1>2, <1>4
    <3>3. ASSUME NEW k \in L PROVE k + 1 \in M
      <4>1. k \in 0..MaxEvents - 1 /\ k # MaxEvents - 1 /\ Reverses(at[k])
        BY <1>4, <2>1
      <4>2. k + 1 \in 0..MaxEvents - 1
        BY <1>1, <4>1
      <4>3. QED
        BY <1>4, <1>7, <4>1, <4>2
    <3>4. QED
      BY <3>1, <3>2, <3>3
  <2>4. 0 \notin N
    BY <1>1, <2>1
  <2>5. IsFiniteSet(N) /\ Cardinality(N) = Cardinality(L)
    <3> HIDE DEF s, N
    <3>1. ExistsBijection(L, N)
      BY <2>2 DEF ExistsBijection
    <3>2. QED
      BY <2>1, <3>1, FS_Bijection
  <2> HIDE DEF N
  <2>6. Cardinality(N \union {0}) = Cardinality(N) + 1
    BY <2>4, <2>5, FS_AddElement
  <2>7. QED
    BY <2>1, <2>3, <2>5, <2>6, FS_CardinalityType
<1>10. SignOf(i) = -SignOf(p)
  <2> DEFINE n == Cardinality(L)
  <2>1. SignOf(p) = (IF n % 2 = 0 THEN 1 ELSE -1) /\ SignOf(i) = (IF (n + 1) % 2 = 0 THEN 1 ELSE -1)
    BY <1>9 DEF SignOf, L, M
  <2>2. n \in Nat
    BY <1>9
  <2> HIDE DEF n
  <2>3. (n + 1) % 2 = 0 <=> n % 2 # 0
    BY <2>2
  <2>4. QED
    BY <2>1, <2>3
<1>11. QED
  BY <1>8, <1>10

-----------------------------------------------------------------------------
(***************************************************************************)
(* The replay: how often an event stands                                   *)
(***************************************************************************)

\* The events that undo event i.
Undoing(i) == {j \in DOMAIN dataset : Reverses(j) /\ dataset[j].rev = i}
Counting(S, i) == IF i \in S THEN 1 ELSE 0
IsStanding(S, net) ==
    net = [i \in DOMAIN dataset |-> Counting(S, i) - Total(net, Undoing(i))]

LEMMA UndoingFacts ==
    ASSUME Orderly, NEW i
    PROVE  /\ Undoing(i) \subseteq DOMAIN dataset /\ IsFiniteSet(Undoing(i))
           /\ \A j \in Undoing(i) : i < j
<1>1. Undoing(i) \subseteq DOMAIN dataset /\ IsFiniteSet(Undoing(i))
  BY OrderlyFacts, FS_Subset DEF Undoing
<1>2. \A j \in Undoing(i) : i < j
  BY UndoneBefore DEF Undoing
<1>3. QED
  BY <1>1, <1>2

\* The recursion of Standing goes up in the order of insertion, so that it
\* defines something.
LEMMA StandingIs ==
    ASSUME Orderly, NEW S
    PROVE  IsStanding(S, Standing(S))
<1> DEFINE D == DOMAIN dataset
           Upto(n) == {i \in D : i > MaxEvents - n}
           Value(g, i) == Counting(S, i) - Total(g, Undoing(i))
           Fine == {n \in Nat : \E g : g = [i \in Upto(n) |-> Value(g, i)]}
<1>1. MaxEvents \in Nat /\ \A i \in D : i \in 1..MaxEvents /\ i \in Nat
  BY OrderlyFacts
<1>2. 0 \in Fine
  <2> DEFINE g == [i \in Upto(0) |-> 0]
  <2>1. Upto(0) = {}
    BY <1>1
  <2>2. g = [i \in Upto(0) |-> Value(g, i)]
    BY <2>1
  <2> HIDE DEF g, Value, Upto
  <2>3. QED
    BY <2>2
<1>3. ASSUME NEW n \in Nat, n \in Fine PROVE n + 1 \in Fine
  <2>1. PICK f : f = [i \in Upto(n) |-> Value(f, i)]
    BY <1>3
  <2> DEFINE g == [i \in Upto(n + 1) |-> Value(f, i)]
  <2>2. ASSUME NEW i \in Upto(n + 1) PROVE Value(f, i) = Value(g, i)
    <3>1. ASSUME NEW j \in Undoing(i) PROVE f[j] = g[j]
      <4>1. j \in D /\ i < j /\ i \in D /\ i > MaxEvents - (n + 1)
        BY <2>2, UndoingFacts
      <4>2. j \in Upto(n) /\ j \in Upto(n + 1)
        BY <1>1, <4>1
      <4>3. f[j] = Value(f, j)
        BY <2>1, <4>2
      <4>4. g[j] = Value(f, j)
        BY <4>2
      <4> HIDE DEF g
      <4>5. QED
        BY <4>3, <4>4
    <3>2. IsFiniteSet(Undoing(i))
      BY UndoingFacts
    <3> HIDE DEF g
    <3>3. Total(f, Undoing(i)) = Total(g, Undoing(i))
      BY <3>1, <3>2, TotalSame
    <3>4. QED
      BY <3>3
  <2> HIDE DEF Value, Upto
  <2>3. g = [i \in Upto(n + 1) |-> Value(g, i)]
    BY <2>2
  <2> HIDE DEF g
  <2>4. QED
    BY <2>3
<1> HIDE DEF Fine
<1>4. MaxEvents \in Fine
  BY <1>1, <1>2, <1>3, NatSetInduction
<1>5. Upto(MaxEvents) = D
  BY <1>1
<1>6. PICK g : g = [i \in D |-> Value(g, i)]
  <2> HIDE DEF D, Value, Upto
  <2>1. QED
    BY <1>4, <1>5 DEF Fine
<1>7. IsStanding(S, g)
  BY <1>6 DEF IsStanding
<1>8. Standing(S) = CHOOSE net : IsStanding(S, net)
  BY DEF Standing, IsStanding, Counting, Undoing
<1>9. QED
  BY <1>7, <1>8

LEMMA StandingType ==
    ASSUME Orderly, NEW S, NEW net, IsStanding(S, net)
    PROVE  Ints(net, DOMAIN dataset)
<1> DEFINE D == DOMAIN dataset
           Bad == {i \in D : net[i] \notin Int}
<1>1. MaxEvents \in Nat /\ \A i \in D : i \in 1..MaxEvents /\ i \in Nat
  BY OrderlyFacts
<1>2. SUFFICES ASSUME Bad # {} PROVE FALSE
  BY DEF Ints
<1>3. PICK i \in Bad : \A j \in Bad : j <= i
  <2>1. Bad \in SUBSET (1..MaxEvents)
    BY <1>1
  <2> HIDE DEF Bad
  <2>2. QED
    BY <1>1, <1>2, <2>1, LargestOf
<1>4. i \in D /\ net[i] \notin Int
  BY <1>3
<1>5. Ints(net, Undoing(i)) /\ IsFiniteSet(Undoing(i))
  <2>1. ASSUME NEW j \in Undoing(i) PROVE net[j] \in Int
    <3>1. j \in D /\ i < j
      BY UndoingFacts
    <3>2. ASSUME net[j] \notin Int PROVE FALSE
      <4>1. j <= i
        BY <1>3, <3>1, <3>2
      <4>2. QED
        BY <1>1, <1>4, <3>1, <4>1
    <3>3. QED
      BY <3>2
  <2>2. QED
    BY <2>1, UndoingFacts DEF Ints
<1>6. Total(net, Undoing(i)) \in Int
  BY <1>5, TotalType
<1>7. net[i] = Counting(S, i) - Total(net, Undoing(i))
  BY <1>4 DEF IsStanding
<1>8. net[i] \in Int
  BY <1>6, <1>7 DEF Counting
<1>9. QED
  BY <1>4, <1>8

LEMMA LessTimes ==
    ASSUME NEW a \in Int, NEW b \in Int, NEW c \in Int
    PROVE  a * (b - c) = a * b - a * c
OBVIOUS

\* What flips its sign with every layer of reversals is worth, by how often the
\* base events stand, as much as the events replayed are.
LEMMA StandingSums ==
    ASSUME Orderly, NEW S \in SUBSET DOMAIN dataset, NEW net, IsStanding(S, net),
           NEW h, Ints(h, DOMAIN dataset),
           \A j \in DOMAIN dataset : Reverses(j) => h[j] = -h[dataset[j].rev],
           NEW w, \A i \in DOMAIN dataset : w[i] = IF Reverses(i) THEN 0 ELSE h[i] * net[i]
    PROVE  Total(w, DOMAIN dataset) = Total(h, S)
<1> DEFINE D == DOMAIN dataset
           R == {j \in D : Reverses(j)}
           B == D \ R
           base == [j \in D |-> dataset[j].rev]
           v == [i \in D |-> h[i] * net[i]]
           own == [i \in D |-> IF i \in S THEN h[i] ELSE 0]
           down == [j \in D |-> h[dataset[j].rev] * net[j]]
           undone == [i \in D |-> Total(down, Undoing(i))]
<1>1. IsFiniteSet(D) /\ IsFiniteSet(R) /\ IsFiniteSet(B) /\ IsFiniteSet(S)
  BY OrderlyFacts, FS_Subset
<1>2. \A i \in D : h[i] \in Int /\ net[i] \in Int
  BY StandingType DEF Ints
<1>3. \A j \in R : dataset[j].rev \in D
  BY UndoneBefore
<1>4. \A j \in R : down[j] = -v[j]
  <2> SUFFICES ASSUME NEW j \in R PROVE down[j] = -v[j]
    OBVIOUS
  <2> DEFINE p == dataset[j].rev
  <2>1. h[j] = -h[p] /\ p \in D /\ j \in D /\ h[p] \in Int /\ net[j] \in Int
    BY <1>2, <1>3
  <2>2. down[j] = h[p] * net[j] /\ v[j] = h[j] * net[j]
    BY <2>1
  <2> HIDE DEF p, down, v
  <2>3. QED
    BY <2>1, <2>2
<1>5. Ints(v, D) /\ Ints(own, D) /\ Ints(down, R)
  <2>1. Ints(v, D) /\ Ints(own, D)
    BY <1>2 DEF Ints
  <2>2. Ints(down, R)
    BY <1>2, <1>3 DEF Ints
  <2>3. QED
    BY <2>1, <2>2
<1> HIDE DEF v, own, down
<1>6. \A i \in D : /\ Undoing(i) \in SUBSET R /\ Undoing(i) = {j \in R : base[j] = i}
                   /\ IsFiniteSet(Undoing(i)) /\ Ints(down, Undoing(i))
  <2>1. \A i \in D : Undoing(i) \in SUBSET R /\ Undoing(i) = {j \in R : base[j] = i}
    BY DEF Undoing
  <2>2. QED
    BY <1>1, <1>5, <2>1, FS_Subset, TermsOfSubset
<1>7. Ints(undone, D)
  <2>1. \A i \in D : Total(down, Undoing(i)) \in Int
    BY <1>6, TotalType
  <2>2. QED
    BY <2>1 DEF Ints
<1>8. \A i \in D : v[i] = own[i] - undone[i]
  <2> SUFFICES ASSUME NEW i \in D PROVE v[i] = own[i] - undone[i]
    OBVIOUS
  <2> DEFINE t == Total(net, Undoing(i))
             c == Counting(S, i)
  <2>1. \A j \in Undoing(i) : down[j] = h[i] * net[j]
    BY DEF Undoing, down
  <2>2. Ints(net, Undoing(i)) /\ IsFiniteSet(Undoing(i)) /\ h[i] \in Int
    BY <1>2, <1>6 DEF Ints
  <2>3. Total(down, Undoing(i)) = h[i] * t
    BY <2>1, <2>2, TotalScaled
  <2>4. t \in Int /\ c \in {0, 1} /\ net[i] = c - t
    BY <2>2, TotalType DEF IsStanding, Counting
  <2>5. own[i] = h[i] * c
    BY <2>2 DEF own, Counting
  <2>6. v[i] = h[i] * net[i] /\ undone[i] = h[i] * t
    BY <2>3 DEF v
  <2> HIDE DEF t, c, undone
  <2>7. h[i] * (c - t) = h[i] * c - h[i] * t
    BY <2>2, <2>4, LessTimes
  <2>8. QED
    BY <2>4, <2>5, <2>6, <2>7
<1>9. Total(undone, D) = Total(down, R)
  <2>1. Total(down, R) = Total([i \in D |-> Total(down, {j \in R : base[j] = i})], D)
    <3>1. \A j \in R : base[j] \in D
      BY <1>3
    <3> HIDE DEF base, R, D
    <3>2. QED
      BY <1>1, <1>5, <3>1, TotalByPart
  <2>2. undone = [i \in D |-> Total(down, {j \in R : base[j] = i})]
    BY <1>6
  <2>3. QED
    BY <2>1, <2>2
<1> HIDE DEF undone
<1>10. Total(own, D) = Total(v, D) + Total(undone, D)
  <2>1. \A i \in D : own[i] = v[i] + undone[i]
    <3>1. \A i \in D : v[i] \in Int /\ own[i] \in Int /\ undone[i] \in Int
      BY <1>5, <1>7 DEF Ints
    <3>2. QED
      BY <1>8, <3>1
  <2> HIDE DEF D
  <2>2. QED
    BY <1>1, <1>5, <1>7, <2>1, TotalPlus
<1>11. Total(down, R) = -Total(v, R)
  <2>1. Ints(v, R)
    BY <1>5 DEF Ints
  <2>2. PICK less \in Int : less = -1
    OBVIOUS
  <2>3. \A j \in R : down[j] = less * v[j]
    BY <1>4, <2>1, <2>2 DEF Ints
  <2> HIDE DEF R
  <2>4. Total(down, R) = less * Total(v, R)
    BY <1>1, <2>1, <2>2, <2>3, TotalScaled
  <2>5. Total(v, R) \in Int
    BY <1>1, <2>1, TotalType
  <2>6. QED
    BY <2>2, <2>4, <2>5
<1>12. Total(v, D) = Total(v, B) + Total(v, R)
  <2>1. B \cap R = {} /\ B \union R = D
    OBVIOUS
  <2> HIDE DEF B, R, D
  <2>2. QED
    BY <1>1, <1>5, <2>1, TotalUnion
<1>13. Total(own, D) = Total(h, S)
  <2>1. S \cap (D \ S) = {} /\ S \union (D \ S) = D /\ IsFiniteSet(D \ S)
    BY <1>1, FS_Subset
  <2>2. Total(own, D) = Total(own, S) + Total(own, D \ S)
    BY <1>1, <1>5, <2>1, TotalUnion
  <2>3. Total(own, D \ S) = 0
    <3>1. \A i \in D \ S : own[i] = 0
      BY DEF own
    <3>2. Nats(own, D \ S)
      BY <3>1 DEF Nats
    <3>3. QED
      BY <2>1, <3>1, <3>2, TotalZero
  <2>4. \A i \in S : own[i] = h[i]
    BY DEF own
  <2>5. Total(own, S) = Total(h, S)
    BY <1>1, <2>4, TotalSame
  <2>6. Total(h, S) \in Int
    BY <1>1, <1>2, TotalType DEF Ints
  <2>7. QED
    BY <2>2, <2>3, <2>5, <2>6
<1>14. Total(w, D) = Total(v, B)
  <2>1. \A i \in B : w[i] = v[i]
    BY DEF v
  <2>2. \A i \in R : w[i] = 0
    OBVIOUS
  <2>3. Ints(w, D) /\ Nats(w, R)
    <3>1. \A i \in D : w[i] \in Int
      <4>1. \A i \in B : v[i] \in Int
        BY <1>5 DEF Ints
      <4>2. \A i \in D : i \in B \/ i \in R
        OBVIOUS
      <4> HIDE DEF B, R
      <4>3. QED
        BY <2>1, <2>2, <4>1, <4>2
    <3>2. QED
      BY <2>2, <3>1 DEF Ints, Nats
  <2>4. B \cap R = {} /\ B \union R = D
    OBVIOUS
  <2> HIDE DEF B, R, D
  <2>5. Total(w, D) = Total(w, B) + Total(w, R)
    BY <1>1, <2>3, <2>4, TotalUnion
  <2>6. Total(w, R) = 0
    BY <1>1, <2>2, <2>3, TotalZero
  <2>7. Total(w, B) = Total(v, B)
    BY <1>1, <2>1, TotalSame
  <2>8. Total(v, B) \in Int
    <3>1. Ints(v, B)
      BY <1>5, <2>4 DEF Ints
    <3>2. QED
      BY <1>1, <3>1, TotalType
  <2>9. QED
    BY <2>5, <2>6, <2>7, <2>8
<1>15. Total(v, B) \in Int /\ Total(v, R) \in Int
  <2>1. Ints(v, B) /\ Ints(v, R)
    BY <1>5 DEF Ints
  <2>2. QED
    BY <1>1, <2>1, TotalType
<1> HIDE DEF D, R, B
<1>16. QED
  BY <1>9, <1>10, <1>11, <1>12, <1>13, <1>14, <1>15 DEF D

-----------------------------------------------------------------------------
(***************************************************************************)
(* The replay: the reference for a balance                                 *)
(***************************************************************************)

OwnKey(i) == <<dataset[i].sku, dataset[i].wh>>

\* What replaying event j adds to the balance of bucket k, the stocktakes aside.
Worth(k, x) == IF OwnKey(x) = k /\ InHorizon(dataset[x])
               THEN Direction(dataset[x]) * dataset[x].qty ELSE 0
Effect(k) == [j \in DOMAIN dataset |-> SignOf(j) * Worth(k, Origin(j))]

Stocktakes(k, S) == {i \in S : dataset[i].move = "STOCKTAKE" /\ OwnKey(i) = k}
Earlier(i, j)  == Precedes(dataset[i], i, dataset[j], j)
IsLast(c, C)   == c \in C /\ \A j \in C \ {c} : Earlier(j, c)
After(c, S)    == {i \in S : Earlier(c, i)}

LEMMA EffectType ==
    ASSUME Orderly, NEW k
    PROVE  /\ Ints(Effect(k), DOMAIN dataset)
           /\ \A x \in DOMAIN dataset : Worth(k, x) \in Int
<1>1. ASSUME NEW x \in DOMAIN dataset PROVE Worth(k, x) \in Int
  <2>1. dataset[x].qty \in Nat /\ Direction(dataset[x]) \in {0, 1, -1}
    BY MovedFacts DEF Orderly, Direction, Booked, Slicable
  <2> DEFINE d == Direction(dataset[x])
             q == dataset[x].qty
  <2>2. Worth(k, x) = d * q \/ Worth(k, x) = 0
    BY DEF Worth
  <2>3. d \in Int /\ q \in Int
    BY <2>1
  <2> HIDE DEF d, q
  <2>4. d * q \in Int
    BY <2>3
  <2>5. QED
    BY <2>2, <2>4
<1>2. ASSUME NEW j \in DOMAIN dataset PROVE Effect(k)[j] \in Int
  <2>1. SignOf(j) \in Int /\ Worth(k, Origin(j)) \in Int
    <3>1. SignOf(j) \in {1, -1}
      BY SignIsOne
    <3>2. QED
      BY <1>1, <3>1, OrderlyFacts
  <2>2. Effect(k)[j] = SignOf(j) * Worth(k, Origin(j))
    BY DEF Effect
  <2>3. QED
    BY <2>1, <2>2
<1>3. QED
  BY <1>1, <1>2 DEF Ints

LEMMA EffectFlips ==
    ASSUME Orderly, NEW k, NEW j \in DOMAIN dataset, Reverses(j)
    PROVE  Effect(k)[j] = -Effect(k)[dataset[j].rev]
<1> DEFINE p == dataset[j].rev
<1>1. p \in DOMAIN dataset /\ Origin(j) = Origin(p) /\ SignOf(j) = -SignOf(p)
  BY UndoneBefore, UndoingFlips
<1>2. SignOf(p) \in {1, -1} /\ Worth(k, Origin(p)) \in Int
  BY <1>1, SignIsOne, EffectType, OrderlyFacts
<1>3. /\ Effect(k)[j] = SignOf(j) * Worth(k, Origin(j))
      /\ Effect(k)[p] = SignOf(p) * Worth(k, Origin(p))
  BY <1>1 DEF Effect
<1> HIDE DEF p
<1>4. Effect(k)[j] = -Effect(k)[p]
  BY <1>1, <1>2, <1>3
<1>5. QED
  BY <1>4 DEF p

\* The movements of a bucket, each as often as it stands, are the effects of
\* the events replayed.
LEMMA NetMovedIs ==
    ASSUME Orderly, NEW k, NEW S \in SUBSET DOMAIN dataset
    PROVE  NetMoved(k, S) = Total(Effect(k), S)
<1> DEFINE D == DOMAIN dataset
           A == {i \in D : OwnKey(i) = k /\ InHorizon(dataset[i])}
           net == Standing(S)
           h == Effect(k)
           f == [i \in D |-> Direction(dataset[i]) * dataset[i].qty * net[i]]
           w == [i \in D |-> IF Reverses(i) THEN 0 ELSE h[i] * net[i]]
<1>1. IsFiniteSet(D) /\ IsFiniteSet(A) /\ IsFiniteSet(D \ A)
  BY OrderlyFacts, FS_Subset
<1>2. /\ IsStanding(S, net) /\ Ints(net, D) /\ Ints(h, D)
  BY StandingIs, StandingType, EffectType
<1>3. NetMoved(k, S) = Total(f, A)
  BY DEF NetMoved, OwnKey
<1>4. ASSUME NEW i \in D, ~Reverses(i) PROVE h[i] = Worth(k, i)
  <2>1. Origin(i) = i /\ SignOf(i) = 1 /\ Worth(k, i) \in Int
    BY <1>4, OwnOrigin, OrderlyFacts, EffectType
  <2>2. QED
    BY <2>1 DEF Effect
<1>5. ASSUME NEW i \in A PROVE f[i] = w[i]
  <2>1. CASE Reverses(i)
    <3>1. Direction(dataset[i]) = 0
      BY <2>1 DEF Reverses, Direction, Inbound, Outbound
    <3>2. dataset[i].qty \in Nat /\ net[i] \in Int
      BY <1>2, MovedFacts DEF Orderly, Booked, Slicable, Ints
    <3>3. f[i] = 0 * dataset[i].qty * net[i] /\ w[i] = 0
      BY <2>1, <3>1
    <3> HIDE DEF net, f, w
    <3>4. QED
      BY <3>2, <3>3
  <2>2. CASE ~Reverses(i)
    BY <1>4, <2>2 DEF Worth
  <2>3. QED
    BY <2>1, <2>2
<1>6. ASSUME NEW i \in D \ A PROVE w[i] = 0
  <2>1. CASE Reverses(i)
    BY <2>1
  <2>2. CASE ~Reverses(i)
    <3>1. h[i] = 0 /\ net[i] \in Int
      BY <1>2, <1>4, <1>6, <2>2 DEF Worth, Ints
    <3>2. w[i] = h[i] * net[i]
      BY <2>2
    <3> HIDE DEF w, h, net
    <3>3. QED
      BY <3>1, <3>2
  <2>3. QED
    BY <2>1, <2>2
<1>7. Ints(w, D)
  <2>1. ASSUME NEW i \in D PROVE w[i] \in Int
    <3>1. h[i] \in Int /\ net[i] \in Int
      BY <1>2 DEF Ints
    <3>2. w[i] = 0 \/ w[i] = h[i] * net[i]
      OBVIOUS
    <3> HIDE DEF w, h, net
    <3>3. QED
      BY <3>1, <3>2
  <2>2. QED
    BY <2>1 DEF Ints
<1>8. Total(w, D) = Total(h, S)
  <2>1. \A j \in D : Reverses(j) => h[j] = -h[dataset[j].rev]
    BY EffectFlips
  <2>2. \A i \in D : w[i] = IF Reverses(i) THEN 0 ELSE h[i] * net[i]
    OBVIOUS
  <2> HIDE DEF w, h, net
  <2>3. QED
    BY <1>2, <2>1, <2>2, StandingSums
<1> HIDE DEF w, f, h
<1>9. Total(f, A) = Total(w, A)
  BY <1>1, <1>5, TotalSame
<1>10. Total(w, D) = Total(w, A) + Total(w, D \ A)
  <2>1. A \cap (D \ A) = {} /\ A \union (D \ A) = D
    OBVIOUS
  <2> HIDE DEF A, D
  <2>2. QED
    BY <1>1, <1>7, <2>1, TotalUnion
<1>11. Total(w, D \ A) = 0
  <2>1. Nats(w, D \ A)
    BY <1>6 DEF Nats
  <2>2. QED
    BY <1>1, <1>6, <2>1, TotalZero
<1>12. Total(w, A) \in Int
  <2>1. Ints(w, A)
    BY <1>7 DEF Ints
  <2>2. QED
    BY <1>1, <2>1, TotalType
<1>13. QED
  BY <1>3, <1>8, <1>9, <1>10, <1>11, <1>12 DEF h

LEMMA EventOrder ==
    ASSUME Orderly, NEW i \in DOMAIN dataset, NEW j \in DOMAIN dataset, NEW m \in DOMAIN dataset
    PROVE  /\ ~Earlier(i, i)
           /\ ~(Earlier(i, j) /\ Earlier(j, i))
           /\ Earlier(i, j) /\ Earlier(j, m) => Earlier(i, m)
           /\ i # j => Earlier(i, j) \/ Earlier(j, i)
<1>1. i \in Nat /\ j \in Nat /\ m \in Nat
  BY OrderlyFacts
<1>2. dataset[i].day \in Days /\ dataset[j].day \in Days /\ dataset[m].day \in Days
  BY MovedFacts DEF Orderly
<1>3. \A x \in Days : x \in Nat
  BY StockAssumption DEF StockAssumption, Days
<1> DEFINE a == dataset[i].day
           b == dataset[j].day
           c == dataset[m].day
<1>4. /\ Earlier(i, i) <=> (a < a \/ (a = a /\ i < i))
      /\ Earlier(i, j) <=> (a < b \/ (a = b /\ i < j))
      /\ Earlier(j, i) <=> (b < a \/ (b = a /\ j < i))
      /\ Earlier(j, m) <=> (b < c \/ (b = c /\ j < m))
      /\ Earlier(i, m) <=> (a < c \/ (a = c /\ i < m))
  BY DEF Earlier, Precedes
<1>5. a \in Nat /\ b \in Nat /\ c \in Nat
  BY <1>2, <1>3
<1> HIDE DEF a, b, c
<1>6. ~Earlier(i, i) /\ ~(Earlier(i, j) /\ Earlier(j, i))
  BY <1>1, <1>4, <1>5
<1>7. Earlier(i, j) /\ Earlier(j, m) => Earlier(i, m)
  BY <1>1, <1>4, <1>5
<1>8. i # j => Earlier(i, j) \/ Earlier(j, i)
  BY <1>1, <1>4, <1>5
<1>9. QED
  BY <1>6, <1>7, <1>8

LEMMA LastExists ==
    ASSUME Orderly, NEW C \in SUBSET DOMAIN dataset, C # {}
    PROVE  \E c : IsLast(c, C)
<1> DEFINE Good == {s \in SUBSET C : s = {} \/ \E c : IsLast(c, s)}
<1>1. ASSUME NEW s \in SUBSET C, \A x \in s : s \ {x} \in Good
      PROVE  s \in Good
  <2> SUFFICES ASSUME s # {} PROVE \E c : IsLast(c, s)
    OBVIOUS
  <2>1. PICK x \in s : TRUE
    OBVIOUS
  <2>2. s \ {x} = {} \/ \E c : IsLast(c, s \ {x})
    BY <1>1, <2>1
  <2>3. CASE s \ {x} = {}
    <3>1. IsLast(x, s)
      BY <2>1, <2>3 DEF IsLast
    <3>2. QED
      BY <3>1
  <2>4. ASSUME NEW c, IsLast(c, s \ {x}) PROVE \E d : IsLast(d, s)
    <3>1. c \in s /\ c # x /\ \A j \in s \ {x} : j # c => Earlier(j, c)
      BY <2>4 DEF IsLast
    <3>2. c \in DOMAIN dataset /\ x \in DOMAIN dataset /\ s \subseteq DOMAIN dataset
      BY <3>1
    <3>3. CASE Earlier(c, x)
      <4>1. ASSUME NEW j \in s \ {x} PROVE Earlier(j, x)
        BY <3>1, <3>2, <3>3, EventOrder
      <4>2. IsLast(x, s)
        BY <2>1, <4>1 DEF IsLast
      <4>3. QED
        BY <4>2
    <3>4. CASE ~Earlier(c, x)
      <4>1. Earlier(x, c)
        BY <3>1, <3>2, <3>4, EventOrder
      <4>2. IsLast(c, s)
        BY <3>1, <4>1 DEF IsLast
      <4>3. QED
        BY <4>2
    <3>5. QED
      BY <3>3, <3>4
  <2>5. QED
    BY <2>2, <2>3, <2>4
<1>2. IsFiniteSet(C)
  BY OrderlyFacts, FS_Subset
<1> HIDE DEF Good
<1>3. C \in Good
  BY <1>1, <1>2, SubsetInduction
<1>4. QED
  BY <1>3 DEF Good

LEMMA ReferenceIs ==
    ASSUME Orderly, NEW k, NEW S \in SUBSET DOMAIN dataset
    PROVE  /\ Stocktakes(k, S) = {} => Reference(k, S) = Total(Effect(k), S)
           /\ \A c : IsLast(c, Stocktakes(k, S))
                => Reference(k, S) = dataset[c].qty + Total(Effect(k), After(c, S))
<1> DEFINE C == Stocktakes(k, S)
           last == CHOOSE i \in C : \A j \in C \ {i} : Earlier(j, i)
<1>1. Reference(k, S) = IF C = {} THEN NetMoved(k, S)
                        ELSE dataset[last].qty + NetMoved(k, After(last, S))
  BY DEF Reference, Stocktakes, OwnKey, Earlier, After
<1>2. C \in SUBSET DOMAIN dataset
  BY DEF Stocktakes
<1> HIDE DEF C
<1>3. CASE C = {}
  <2>1. \A c : ~IsLast(c, C)
    BY <1>3 DEF IsLast
  <2>2. QED
    BY <1>1, <1>3, <2>1, NetMovedIs DEF C
<1>4. CASE C # {}
  <2> SUFFICES ASSUME NEW c, IsLast(c, C)
               PROVE  Reference(k, S) = dataset[c].qty + Total(Effect(k), After(c, S))
    BY <1>4 DEF C
  <2>1. last \in C /\ \A j \in C \ {last} : Earlier(j, last)
    BY DEF IsLast
  <2>2. last = c
    <3>1. c \in C /\ \A j \in C \ {c} : Earlier(j, c)
      BY DEF IsLast
    <3> HIDE DEF last
    <3>2. ASSUME last # c PROVE FALSE
      <4>1. Earlier(last, c) /\ Earlier(c, last)
        BY <2>1, <3>1, <3>2
      <4>2. QED
        BY <1>2, <2>1, <3>1, <4>1, EventOrder
    <3>3. QED
      BY <3>2
  <2>3. After(c, S) \in SUBSET DOMAIN dataset
    BY DEF After
  <2> HIDE DEF last
  <2>4. QED
    BY <1>1, <1>4, <2>2, <2>3, NetMovedIs
<1>5. QED
  BY <1>3, <1>4

LEMMA ReferenceType ==
    ASSUME Orderly, NEW k, NEW S \in SUBSET DOMAIN dataset
    PROVE  Reference(k, S) \in Int
<1>1. \A T \in SUBSET DOMAIN dataset : Total(Effect(k), T) \in Int
  <2> SUFFICES ASSUME NEW T \in SUBSET DOMAIN dataset PROVE Total(Effect(k), T) \in Int
    OBVIOUS
  <2>1. IsFiniteSet(T) /\ Ints(Effect(k), T)
    BY OrderlyFacts, FS_Subset, EffectType, TermsOfSubset
  <2>2. QED
    BY <2>1, TotalType
<1>2. CASE Stocktakes(k, S) = {}
  BY <1>1, <1>2, ReferenceIs
<1>3. CASE Stocktakes(k, S) # {}
  <2>1. Stocktakes(k, S) \in SUBSET DOMAIN dataset
    BY DEF Stocktakes
  <2>2. PICK c : IsLast(c, Stocktakes(k, S))
    BY <1>3, <2>1, LastExists
  <2>3. c \in DOMAIN dataset /\ dataset[c].qty \in Nat
    BY <2>1, <2>2, MovedFacts DEF IsLast, Orderly, Booked, Slicable
  <2>4. After(c, S) \in SUBSET DOMAIN dataset
    BY DEF After
  <2>5. Reference(k, S) = dataset[c].qty + Total(Effect(k), After(c, S))
    BY <2>2, ReferenceIs
  <2>6. QED
    BY <1>1, <2>3, <2>4, <2>5
<1>4. QED
  BY <1>2, <1>3

\* A stocktake as the last event settles the balance.
LEMMA ReferenceCounted ==
    ASSUME Orderly, NEW k, NEW S \in SUBSET DOMAIN dataset, NEW i \in DOMAIN dataset \ S,
           \A j \in S : Earlier(j, i),
           dataset[i].move = "STOCKTAKE", OwnKey(i) = k
    PROVE  Reference(k, S \union {i}) = dataset[i].qty
<1> DEFINE R == S \union {i}
<1>1. IsLast(i, Stocktakes(k, R))
  BY DEF IsLast, Stocktakes
<1>2. After(i, R) = {}
  <2>1. ASSUME NEW j \in R, Earlier(i, j) PROVE FALSE
    <3>1. j = i \/ Earlier(j, i)
      OBVIOUS
    <3>2. j \in DOMAIN dataset
      OBVIOUS
    <3>3. QED
      BY <2>1, <3>1, <3>2, EventOrder
  <2>2. QED
    BY <2>1 DEF After
<1>3. Total(Effect(k), {}) = 0
  BY TotalOfNone
<1>4. dataset[i].qty \in Nat
  BY MovedFacts DEF Orderly, Booked, Slicable
<1>5. R \in SUBSET DOMAIN dataset
  OBVIOUS
<1> HIDE DEF R
<1>6. Reference(k, R) = dataset[i].qty + Total(Effect(k), After(i, R))
  BY <1>1, <1>5, ReferenceIs
<1>7. Reference(k, R) = dataset[i].qty
  BY <1>2, <1>3, <1>4, <1>6
<1>8. QED
  BY <1>7 DEF R

\* Any other event adds its effect.
LEMMA ReferenceGrows ==
    ASSUME Orderly, NEW k, NEW S \in SUBSET DOMAIN dataset, NEW i \in DOMAIN dataset \ S,
           \A j \in S : Earlier(j, i),
           ~(dataset[i].move = "STOCKTAKE" /\ OwnKey(i) = k)
    PROVE  Reference(k, S \union {i}) = Reference(k, S) + Effect(k)[i]
<1> DEFINE R == S \union {i}
           h == Effect(k)
<1>1. Stocktakes(k, R) = Stocktakes(k, S) /\ R \in SUBSET DOMAIN dataset
  BY DEF Stocktakes
<1>2. ASSUME NEW T \in SUBSET DOMAIN dataset, i \notin T
      PROVE  Total(h, T \union {i}) = Total(h, T) + h[i]
  <2> DEFINE U == T \union {i}
  <2>1. U \in SUBSET DOMAIN dataset /\ i \in U /\ U \ {i} = T
    BY <1>2
  <2>2. IsFiniteSet(U) /\ Ints(h, U)
    BY <2>1, OrderlyFacts, FS_Subset, EffectType, TermsOfSubset
  <2> HIDE DEF U, h
  <2>3. /\ Total(h, U) = h[i] + Total(h, U \ {i})
        /\ Total(h, U \ {i}) \in Int /\ h[i] \in Int
    BY <2>1, <2>2, TotalTake
  <2>4. Total(h, U \ {i}) = Total(h, T)
    BY <2>1
  <2>5. Total(h, U) = Total(h, T) + h[i]
    BY <2>3, <2>4
  <2>6. QED
    BY <2>5 DEF U
<1>3. CASE Stocktakes(k, S) = {}
  <2>1. Reference(k, R) = Total(h, R) /\ Reference(k, S) = Total(h, S)
    BY <1>1, <1>3, ReferenceIs
  <2>2. QED
    BY <1>2, <2>1
<1>4. CASE Stocktakes(k, S) # {}
  <2>1. Stocktakes(k, S) \in SUBSET S
    BY DEF Stocktakes
  <2>2. PICK c : IsLast(c, Stocktakes(k, S))
    BY <1>4, <2>1, LastExists
  <2>3. c \in S /\ Earlier(c, i) /\ dataset[c].qty \in Nat
    BY <2>1, <2>2, MovedFacts DEF IsLast, Orderly, Booked, Slicable
  <2>4. After(c, R) = After(c, S) \union {i} /\ i \notin After(c, S)
    BY <2>3 DEF After
  <2>5. After(c, S) \in SUBSET DOMAIN dataset
    BY DEF After
  <2>6. /\ Reference(k, S) = dataset[c].qty + Total(h, After(c, S))
        /\ Reference(k, R) = dataset[c].qty + Total(h, After(c, R))
    BY <1>1, <2>2, ReferenceIs
  <2>7. Total(h, After(c, R)) = Total(h, After(c, S)) + h[i]
    BY <1>2, <2>4, <2>5
  <2>8. Total(h, After(c, S)) \in Int /\ h[i] \in Int
    <3>1. IsFiniteSet(After(c, S)) /\ Ints(h, After(c, S)) /\ Ints(h, DOMAIN dataset)
      BY <2>5, OrderlyFacts, FS_Subset, EffectType, TermsOfSubset
    <3>2. QED
      BY <3>1, TotalType DEF Ints
  <2> HIDE DEF h, R
  <2>9. Reference(k, R) = Reference(k, S) + h[i]
    BY <2>3, <2>6, <2>7, <2>8
  <2>10. QED
    BY <2>9 DEF h, R
<1>5. QED
  BY <1>3, <1>4

\* The reference of a bucket is that of the events which touch it.
LEMMA ReferenceOf ==
    ASSUME Orderly, NEW k, NEW S \in SUBSET DOMAIN dataset, NEW R \in SUBSET S,
           \A j \in S \ R : /\ Effect(k)[j] = 0
                            /\ ~(dataset[j].move = "STOCKTAKE" /\ OwnKey(j) = k)
    PROVE  Reference(k, R) = Reference(k, S)
<1> DEFINE h == Effect(k)
<1>1. Stocktakes(k, R) = Stocktakes(k, S) /\ R \in SUBSET DOMAIN dataset
  BY DEF Stocktakes
<1>2. ASSUME NEW T \in SUBSET S, NEW U \in SUBSET R, U = T \cap R
      PROVE  Total(h, U) = Total(h, T)
  <2> DEFINE V == T \ R
  <2>1. V \in SUBSET DOMAIN dataset /\ U \cap V = {} /\ U \union V = T /\ U \in SUBSET DOMAIN dataset
    BY <1>2
  <2>2. IsFiniteSet(U) /\ IsFiniteSet(V) /\ Ints(h, U \union V) /\ Ints(h, U)
    <3>1. U \union V \in SUBSET DOMAIN dataset
      BY <2>1
    <3>2. QED
      BY <2>1, <3>1, OrderlyFacts, FS_Subset, EffectType, TermsOfSubset
  <2>3. \A j \in V : h[j] = 0
    BY <1>2
  <2> HIDE DEF V, h
  <2>4. Total(h, U \union V) = Total(h, U) + Total(h, V)
    BY <2>1, <2>2, TotalUnion
  <2>5. Total(h, V) = 0
    <3>1. Nats(h, V)
      BY <2>3 DEF Nats
    <3>2. QED
      BY <2>2, <2>3, <3>1, TotalZero
  <2>6. Total(h, U) \in Int
    BY <2>2, TotalType
  <2>7. Total(h, U \union V) = Total(h, T)
    BY <2>1
  <2>8. QED
    BY <2>4, <2>5, <2>6, <2>7
<1>3. CASE Stocktakes(k, S) = {}
  <2>1. Reference(k, R) = Total(h, R) /\ Reference(k, S) = Total(h, S)
    BY <1>1, <1>3, ReferenceIs
  <2>2. R = S \cap R
    OBVIOUS
  <2>3. QED
    BY <1>2, <2>1, <2>2
<1>4. CASE Stocktakes(k, S) # {}
  <2>1. Stocktakes(k, S) \in SUBSET DOMAIN dataset
    BY DEF Stocktakes
  <2>2. PICK c : IsLast(c, Stocktakes(k, S))
    BY <1>4, <2>1, LastExists
  <2>3. /\ Reference(k, S) = dataset[c].qty + Total(h, After(c, S))
        /\ Reference(k, R) = dataset[c].qty + Total(h, After(c, R))
    BY <1>1, <2>2, ReferenceIs
  <2>4. After(c, R) = After(c, S) \cap R /\ After(c, S) \in SUBSET S /\ After(c, R) \in SUBSET R
    BY DEF After
  <2>5. Total(h, After(c, R)) = Total(h, After(c, S))
    BY <1>2, <2>4
  <2>6. QED
    BY <2>3, <2>5
<1>5. QED
  BY <1>3, <1>4

-----------------------------------------------------------------------------
(***************************************************************************)
(* The replay: what reconciles with the events                             *)
(***************************************************************************)

Taken        == Horizon \ pending
BeforePeriod == {i \in Horizon : dataset[i].day < request.start}

\* The balance is that of the events taken; the opening, once captured, that of
\* the events before the period, and until then no others have come.
BalanceInv(k) ==
    LET b == buckets[k]
    IN  /\ ~StocktakeUndone(k) =>
              /\ b.balance = Reference(k, Taken)
              /\ b.captured => b.opening = Reference(k, BeforePeriod)
        /\ pc = "replay" /\ ~b.captured =>
              \A i \in Touching(k) \cap Taken : dataset[i].day < request.start
        /\ pc = "done" /\ b.live => b.captured

DailyAdds(b) == Total(b.daily, Days) = b.out

QtyInv ==
    /\ \A i \in DOMAIN dataset : dataset[i].rev \in 1..i \union {None}
    /\ pc = "replay" => \A i \in Taken, j \in pending : Earlier(i, j)
    /\ pc \in {"replay", "done"} =>
          \A k \in Keys : BalanceInv(k) /\ DailyAdds(buckets[k])

LEMMA OrderlyReplay ==
    ASSUME StockIInv, ReversalsResolve,
           \A i \in DOMAIN dataset : dataset[i].rev \in 1..i \union {None}
    PROVE  Orderly
BY RowFacts DEF Orderly, StockIInv

LEMMA SameReference ==
    ASSUME dataset' = dataset, request' = request
    PROVE  /\ \A k, S : Reference(k, S)' = Reference(k, S)
           /\ \A k : Touching(k)' = Touching(k) /\ (StocktakeUndone(k)' <=> StocktakeUndone(k))
           /\ Horizon' = Horizon /\ BeforePeriod' = BeforePeriod
           /\ \A i, j : Earlier(i, j)' <=> Earlier(i, j)
<1>1. \A i : InHorizon(dataset[i])' <=> InHorizon(dataset[i])
  BY DEF InHorizon, InScope
<1>2. \A S : Standing(S)' = Standing(S)
  BY DEF Standing, Reverses
<1>3. \A k, S : NetMoved(k, S)' = NetMoved(k, S)
  BY <1>1, <1>2 DEF NetMoved
<1>4. \A k, S : Reference(k, S)' = Reference(k, S)
  BY <1>3 DEF Reference
<1>5. \A k : Touching(k)' = Touching(k)
  BY SameTouching
<1>6. \A i : Origin(i)' = Origin(i) /\ (Reverses(i)' <=> Reverses(i))
  BY DEF Origin, Chain, Reverses
<1>7. \A k : StocktakeUndone(k)' <=> StocktakeUndone(k)
  BY <1>5, <1>6 DEF StocktakeUndone
<1>8. Horizon' = Horizon
  BY SameTerms
<1>9. BeforePeriod' = BeforePeriod
  BY <1>8 DEF BeforePeriod
<1>10. \A i, j : Earlier(i, j)' <=> Earlier(i, j)
  BY DEF Earlier, Precedes
<1>11. QED
  BY <1>4, <1>5, <1>7, <1>8, <1>9, <1>10

\* Events with the same members in a bucket leave the same balance there.
LEMMA SameInBucket ==
    ASSUME Orderly, NEW k, NEW S \in SUBSET Horizon, NEW R \in SUBSET Horizon,
           S \cap Touching(k) = R \cap Touching(k)
    PROVE  Reference(k, S) = Reference(k, R)
<1>1. Horizon \subseteq DOMAIN dataset
  BY DEF Horizon
<1>2. ASSUME NEW T \in SUBSET Horizon
      PROVE  Reference(k, T \cap Touching(k)) = Reference(k, T)
  <2>1. ASSUME NEW j \in T \ (T \cap Touching(k))
        PROVE  Effect(k)[j] = 0 /\ ~(dataset[j].move = "STOCKTAKE" /\ OwnKey(j) = k)
    <3>1. j \in DOMAIN dataset /\ KeyOf(j) # k
      BY <1>1 DEF Touching
    <3>2. Worth(k, Origin(j)) = 0
      BY <3>1 DEF Worth, KeyOf, OwnKey
    <3>3. Effect(k)[j] = SignOf(j) * 0 /\ SignOf(j) \in {1, -1}
      BY <3>1, <3>2, SignIsOne DEF Effect
    <3>4. ASSUME dataset[j].move = "STOCKTAKE" PROVE OwnKey(j) # k
      <4>1. Origin(j) = j
        BY <3>1, <3>4, OwnOrigin, OrderlyFacts DEF Reverses
      <4>2. QED
        BY <3>1, <4>1 DEF KeyOf, OwnKey
    <3>5. Effect(k)[j] = 0
      BY <3>3
    <3>6. QED
      BY <3>4, <3>5
  <2>2. T \in SUBSET DOMAIN dataset /\ T \cap Touching(k) \in SUBSET T
    BY <1>1
  <2>3. QED
    BY <2>1, <2>2, ReferenceOf
<1>3. Reference(k, S \cap Touching(k)) = Reference(k, S)
  BY <1>2
<1>4. Reference(k, R \cap Touching(k)) = Reference(k, R)
  BY <1>2
<1>5. QED
  BY <1>3, <1>4

\* What apply and the tail of an iteration do to the opening and to daily_out.
Kept(b, c) == /\ c.captured = b.captured /\ c.opening = b.opening
              /\ c.out = b.out /\ c.daily = b.daily

LEMMA CapturedKeeps ==
    ASSUME NEW b \in Bucket, NEW c, c = Captured(b)
    PROVE  /\ c.balance = b.balance /\ c.out = b.out /\ c.daily = b.daily /\ c.live = b.live
           /\ c.captured /\ c.opening = IF b.captured THEN b.opening ELSE b.balance
<1>1. CASE b.captured
  BY <1>1 DEF Captured
<1>2. CASE ~b.captured
  <2> DEFINE below == b.negative \/ b.balance < 0
  <2>1. c = [b EXCEPT !.captured = TRUE, !.opening = b.balance, !.negative = below]
    BY <1>2 DEF Captured, Bucket
  <2> HIDE DEF below
  <2>2. QED
    BY <1>2, <2>1 DEF Bucket
<1>3. QED
  BY <1>1, <1>2

LEMMA TailKeeps ==
    ASSUME NEW a \in Bucket, NEW delta \in Int, NEW day \in Days, NEW in \in BOOLEAN, NEW b,
           b = Tracked([Charged(a, delta, day) EXCEPT !.live = TRUE], day, in)
    PROVE  /\ b.captured = a.captured /\ b.opening = a.opening /\ b.balance = a.balance
           /\ DailyAdds(a) => DailyAdds(b)
<1> DEFINE c == Charged(a, delta, day)
           l == [c EXCEPT !.live = TRUE]
           cogs == CogsAfter(a.cogs, delta, a.avg)
           out == a.out + delta
           daily == [a.daily EXCEPT ![day] = @ + delta]
<1>1. c \in Bucket
  BY ChargedType
<1>2. c = [a EXCEPT !.out = out, !.cogs = cogs, !.daily = daily]
  BY DEF Charged, Bucket, CogsAfter
<1> HIDE DEF cogs, out, daily, c
<1>3. /\ c.captured = a.captured /\ c.opening = a.opening
      /\ c.out = out /\ c.daily = daily
  BY <1>2 DEF Bucket
<1>4. l \in Bucket /\ Kept(c, l)
  <2>1. c \in BucketType
    BY <1>1, BucketIs
  <2>2. l \in BucketType
    BY <2>1 DEF BucketType
  <2>3. Kept(c, l)
    BY <2>1 DEF BucketType, Kept
  <2>4. QED
    BY <2>2, <2>3, BucketIs
<1> HIDE DEF l
<1>5. Kept(l, Tracked(l, day, in))
  BY <1>4 DEF Tracked, Bucket, Kept
<1>6. b = Tracked(l, day, in)
  BY DEF c, l
<1>7. ASSUME DailyAdds(a) PROVE DailyAdds(b)
  <2>1. b.daily = daily /\ b.out = out
    BY <1>3, <1>4, <1>5, <1>6 DEF Kept
  <2>2. IsFiniteSet(Days)
    BY DaysFinite
  <2>3. a.daily \in [Days -> Int] /\ a.out \in Int
    BY BucketParts
  <2>4. Ints(a.daily, Days) /\ a.daily[day] \in Int
    BY <2>3 DEF Ints
  <2>5. daily[day] = a.daily[day] + delta /\ \A x \in Days \ {day} : daily[x] = a.daily[x]
    BY <2>3 DEF daily
  <2>6. daily[day] \in Int
    BY <2>4, <2>5
  <2>7. Total(daily, Days) = Total(a.daily, Days) + (daily[day] - a.daily[day])
    BY <2>2, <2>4, <2>5, <2>6, TotalUpdate
  <2>8. Total(a.daily, Days) = a.out
    BY <1>7 DEF DailyAdds
  <2>9. Total(daily, Days) = out
    BY <2>3, <2>4, <2>5, <2>7, <2>8 DEF out
  <2>10. QED
    BY <2>1, <2>9 DEF DailyAdds
<1>8. b.balance = a.balance
  BY TailType
<1>9. QED
  BY <1>3, <1>4, <1>5, <1>6, <1>7, <1>8 DEF Kept

LEMMA ReceivedKeeps ==
    ASSUME NEW b \in Bucket, NEW e, NEW sign, NEW a, a = Received(b, e, sign)
    PROVE  Kept(b, a)
<1> DEFINE slices == IF sign = 1 THEN AddSlice(b.slices, e) ELSE RemoveSlices(b.slices, e)
           avg == NewAvg(b, e, sign)
           balance == b.balance + sign * e.qty
           all == b.allQty + sign * e.qty
           weighted == b.allWeighted + sign * e.qty * e.day
           first == IF sign = 1 /\ (b.firstIn = None \/ e.day < b.firstIn)
                    THEN e.day ELSE b.firstIn
<1>1. a = [b EXCEPT !.avg = avg, !.balance = balance, !.allQty = all,
                    !.allWeighted = weighted, !.slices = slices, !.firstIn = first]
  BY DEF Received, Bucket
<1> HIDE DEF slices, avg, balance, all, weighted, first
<1>2. QED
  BY <1>1 DEF Bucket, Kept

LEMMA IssuedKeeps ==
    ASSUME NEW b \in Bucket, NEW e, NEW sign, NEW a, a = Issued(b, e, sign)
    PROVE  Kept(b, a) /\ a.balance = b.balance - sign * e.qty
<1> DEFINE slices == IF sign = 1 THEN ConsumeSlices(b.slices, e) ELSE b.slices
           last == IF sign = 1 /\ (b.lastOut = None \/ e.day > b.lastOut)
                   THEN e.day ELSE b.lastOut
           balance == b.balance - sign * e.qty
<1>1. a = [b EXCEPT !.balance = balance, !.slices = slices, !.lastOut = last]
  BY DEF Issued, Bucket
<1> HIDE DEF slices, last, balance
<1>2. a.balance = balance /\ Kept(b, a)
  BY <1>1 DEF Bucket, Kept
<1>3. QED
  BY <1>2 DEF balance

LEMMA CountedKeeps ==
    ASSUME NEW b \in Bucket, NEW i, NEW e, NEW sign, NEW a, a = Counted(b, i, e, sign)
    PROVE  Kept(b, a) /\ (sign = 1 => a.balance = e.qty)
BY DEF Counted, Bucket, Kept

\* A step of the replay, from what it does to the bucket of its event.
LEMMA AdvanceQuantities ==
    ASSUME StockIInv, DatesInv, QtyInv, NEW i \in pending, Turn(i),
           InHorizon(dataset[Origin(i)]),
           NEW a \in Bucket, NEW delta \in Int, Advance(i, a, delta), Kept(Opened(i), a),
           dataset[i].move = "STOCKTAKE" => a.balance = dataset[i].qty,
           dataset[i].move # "STOCKTAKE" /\ ~StocktakeUndone(KeyOf(i))
               => a.balance = buckets[KeyOf(i)].balance + SignOf(i) * Worth(KeyOf(i), Origin(i))
    PROVE  QtyInv'
<1>1. PICK k \in Keys : k = KeyOf(i)
  BY TurnFacts
<1> DEFINE day == dataset[i].day
           in == InPeriod(dataset[i])
           b == Tracked([Charged(a, delta, day) EXCEPT !.live = TRUE], day, in)
           o == buckets[k]
           p == Opened(i)
           P == Taken
           Q == P \union {i}
<1>2. /\ pc = "replay" /\ i \in DOMAIN dataset /\ dataset[i] \in Moved /\ i \in Touching(k)
      /\ i \in Horizon /\ p \in Bucket /\ day \in Days /\ in \in BOOLEAN
  BY <1>1, TurnFacts, MovedFacts DEF Touching, InPeriod
<1>3. Orderly
  BY <1>2, OrderlyReplay DEF StockIInv, ReplayInv, QtyInv
<1>4. /\ buckets' = [buckets EXCEPT ![k] = b] /\ pending' = pending \ {i}
      /\ UNCHANGED <<pc, request, dataset>>
  BY <1>1 DEF Advance
<1>5. /\ \A c, S : Reference(c, S)' = Reference(c, S)
      /\ \A c : Touching(c)' = Touching(c) /\ (StocktakeUndone(c)' <=> StocktakeUndone(c))
      /\ Horizon' = Horizon /\ BeforePeriod' = BeforePeriod
      /\ \A x, y : Earlier(x, y)' <=> Earlier(x, y)
  BY <1>4, SameReference
<1>6. /\ i \notin P /\ P \in SUBSET DOMAIN dataset /\ P \in SUBSET Horizon /\ Taken' = Q
  BY <1>2, <1>4, <1>5 DEF Taken, Horizon
<1>7. buckets \in [Keys -> Bucket] /\ o \in Bucket
  BY DEF StockIInv, TypeOK
<1>8. buckets'[k] = b /\ \A c \in Keys \ {k} : buckets'[c] = buckets[c]
  BY <1>4, <1>7
<1>9. /\ \A j \in P : Earlier(j, i)
      /\ \A x \in P, j \in pending : Earlier(x, j)
      /\ \A j \in pending \ {i} : Earlier(i, j)
  BY <1>2 DEF QtyInv, Turn, Earlier
<1>10. \A c \in Keys : BalanceInv(c) /\ DailyAdds(buckets[c])
  BY <1>2 DEF QtyInv
<1>11. /\ b.captured = p.captured /\ b.opening = p.opening /\ b.balance = a.balance
       /\ DailyAdds(p) => DailyAdds(b)
  <2>1. DailyAdds(p) => DailyAdds(a)
    BY DEF Kept, DailyAdds
  <2> HIDE DEF day, in, p
  <2>2. /\ b.captured = a.captured /\ b.opening = a.opening /\ b.balance = a.balance
        /\ DailyAdds(a) => DailyAdds(b)
    BY <1>2, TailKeeps
  <2> HIDE DEF b
  <2>3. QED
    BY <2>1, <2>2 DEF Kept, p
<1>12. p = IF in THEN Captured(o) ELSE o
  BY <1>1 DEF Opened
<1>13. /\ in => p.captured /\ p.opening = (IF o.captured THEN o.opening ELSE o.balance)
       /\ ~in => p = o
       /\ p.daily = o.daily /\ p.out = o.out
  <2> HIDE DEF in, o, p
  <2>1. CASE in
    BY <1>7, <1>12, <2>1, CapturedKeeps
  <2>2. CASE ~in
    BY <1>12, <2>2
  <2>3. QED
    BY <2>1, <2>2
<1> HIDE DEF b, p, P, Q
<1>14. ASSUME NEW c \in Keys, c # k
       PROVE  Reference(c, Q) = Reference(c, P)
  <2>1. Touching(c) \cap Q = Touching(c) \cap P
    <3>1. i \notin Touching(c)
      BY <1>1, <1>14 DEF Touching
    <3>2. QED
      BY <3>1 DEF Q
  <2>2. Q \in SUBSET Horizon
    BY <1>2, <1>6 DEF Q
  <2>3. Q \cap Touching(c) = P \cap Touching(c)
    BY <2>1
  <2>4. QED
    BY <1>3, <1>6, <2>2, <2>3, SameInBucket
<1>15. ASSUME ~StocktakeUndone(k) PROVE a.balance = Reference(k, Q)
  <2>1. o.balance = Reference(k, P)
    BY <1>10, <1>15 DEF BalanceInv, P
  <2>2. i \in DOMAIN dataset \ P
    BY <1>2, <1>6
  <2>3. Effect(k)[i] = SignOf(i) * Worth(k, Origin(i))
    BY <1>2 DEF Effect
  <2>4. CASE dataset[i].move = "STOCKTAKE"
    <3>1. OwnKey(i) = k
      <4>1. Origin(i) = i
        BY <1>2, <1>3, <2>4, OwnOrigin, OrderlyFacts DEF Reverses
      <4>2. QED
        BY <1>1, <4>1 DEF KeyOf, OwnKey
    <3>2. Reference(k, Q) = dataset[i].qty
      BY <1>3, <1>6, <1>9, <2>2, <2>4, <3>1, ReferenceCounted DEF Q
    <3>3. QED
      BY <2>4, <3>2
  <2>5. CASE dataset[i].move # "STOCKTAKE"
    <3>1. Reference(k, Q) = Reference(k, P) + Effect(k)[i]
      BY <1>3, <1>6, <1>9, <2>2, <2>5, ReferenceGrows DEF Q
    <3>2. a.balance = o.balance + SignOf(i) * Worth(k, Origin(i))
      BY <1>1, <1>15, <2>5
    <3>3. QED
      BY <2>1, <2>3, <3>1, <3>2
  <2>6. QED
    BY <2>4, <2>5
<1>16. ~in <=> day < request.start
  <2>1. request \in Period /\ InHorizon(dataset[i])
    BY <1>2 DEF DatesInv, StockIInv, ReplayInv
  <2>2. request.start \in Int /\ day \in Int
    BY <1>2, <2>1, StockAssumption DEF StockAssumption, Period, Days
  <2>3. in <=> request.start <= day
    BY <2>1 DEF InPeriod, InHorizon
  <2> HIDE DEF in, day
  <2>4. QED
    BY <2>2, <2>3
<1>17. ASSUME in, ~o.captured, ~StocktakeUndone(k)
       PROVE  o.balance = Reference(k, BeforePeriod)
  <2>1. o.balance = Reference(k, P)
    BY <1>10, <1>17 DEF BalanceInv, P
  <2>2. \A x \in Touching(k) \cap P : dataset[x].day < request.start
    BY <1>2, <1>10, <1>17 DEF BalanceInv, P
  <2>3. P \cap Touching(k) = BeforePeriod \cap Touching(k)
    <3>1. P \cap Touching(k) \subseteq BeforePeriod
      BY <1>6, <2>2 DEF BeforePeriod
    <3>2. ASSUME NEW x \in BeforePeriod PROVE x \in P
      <4>1. x \in Horizon /\ dataset[x].day < request.start
        BY DEF BeforePeriod
      <4>2. ASSUME x \in pending PROVE FALSE
        <5>1. x # i
          BY <1>16, <1>17, <4>1
        <5>2. Earlier(i, x)
          BY <1>9, <4>2, <5>1
        <5>3. day < dataset[x].day \/ day = dataset[x].day
          BY <5>2 DEF Earlier, Precedes
        <5>4. day \in Int /\ dataset[x].day \in Int /\ request.start \in Int
          <6>1. day \in Days /\ dataset[x].day \in Days
            BY <1>2, <1>3, <4>1, MovedFacts DEF Orderly, Horizon
          <6>2. request \in Period
            BY <1>2 DEF DatesInv
          <6>3. QED
            BY <6>1, <6>2, StockAssumption DEF StockAssumption, Period, Days
        <5>5. ~(day < request.start)
          BY <1>16, <1>17
        <5> HIDE DEF day
        <5>6. QED
          BY <4>1, <5>3, <5>4, <5>5
      <4>3. QED
        BY <4>1, <4>2 DEF P, Taken
    <3>3. QED
      BY <3>1, <3>2
  <2>4. BeforePeriod \in SUBSET Horizon
    BY DEF BeforePeriod
  <2>5. QED
    BY <1>3, <1>6, <2>1, <2>3, <2>4, SameInBucket
<1> HIDE DEF o, in
<1>18. ASSUME NEW c \in Keys PROVE BalanceInv(c)' /\ DailyAdds(buckets'[c])
  <2>1. CASE c # k
    <3>1. buckets'[c] = buckets[c] /\ i \notin Touching(c)
      BY <1>1, <1>8, <2>1 DEF Touching
    <3>2. Reference(c, Q) = Reference(c, P)
      BY <1>14, <2>1
    <3>3. BalanceInv(c) /\ DailyAdds(buckets[c])
      BY <1>10
    <3>4. Touching(c)' \cap Taken' = Touching(c) \cap P
      BY <1>5, <1>6, <3>1 DEF Q
    <3>5. /\ Reference(c, Taken)' = Reference(c, P)
          /\ Reference(c, BeforePeriod)' = Reference(c, BeforePeriod)
      BY <1>5, <1>6, <3>2
    <3>6. BalanceInv(c)'
      BY <1>2, <1>4, <1>5, <3>1, <3>3, <3>4, <3>5 DEF BalanceInv, P
    <3>7. QED
      BY <3>1, <3>3, <3>6
  <2>2. CASE c = k
    <3>1. buckets'[c] = b
      BY <1>8, <2>2
    <3>2. DailyAdds(b)
      BY <1>10, <1>11, <1>13 DEF DailyAdds, o
    <3>3. /\ Reference(k, Taken)' = Reference(k, Q)
          /\ Reference(k, BeforePeriod)' = Reference(k, BeforePeriod)
      BY <1>5, <1>6
    <3>4. ~StocktakeUndone(k)
             => /\ b.balance = Reference(k, Q)
                /\ b.captured => b.opening = Reference(k, BeforePeriod)
      <4> SUFFICES ASSUME ~StocktakeUndone(k)
                   PROVE  /\ b.balance = Reference(k, Q)
                          /\ b.captured => b.opening = Reference(k, BeforePeriod)
        OBVIOUS
      <4>1. b.balance = Reference(k, Q)
        BY <1>11, <1>15
      <4>2. o.captured => o.opening = Reference(k, BeforePeriod)
        BY <1>10 DEF BalanceInv, o
      <4>3. p.captured => p.opening = Reference(k, BeforePeriod)
        BY <1>13, <1>17, <4>2
      <4>4. QED
        BY <1>11, <4>1, <4>3
    <3>5. ~b.captured => \A x \in Touching(k) \cap Q : dataset[x].day < request.start
      <4> SUFFICES ASSUME ~b.captured, NEW x \in Touching(k) \cap Q
                   PROVE  dataset[x].day < request.start
        OBVIOUS
      <4>1. ~in /\ ~o.captured
        BY <1>11, <1>13
      <4>2. x = i \/ x \in Touching(k) \cap P
        BY DEF Q
      <4>3. \A y \in Touching(k) \cap P : dataset[y].day < request.start
        BY <1>2, <1>10, <4>1 DEF BalanceInv, o, P
      <4>4. QED
        BY <1>16, <4>1, <4>2, <4>3
    <3>6. Touching(k)' \cap Taken' = Touching(k) \cap Q
      BY <1>5, <1>6
    <3>7. BalanceInv(k)'
      BY <1>2, <1>4, <1>5, <1>8, <3>3, <3>4, <3>5, <3>6 DEF BalanceInv
    <3>8. QED
      BY <2>2, <3>1, <3>2, <3>7
  <2>3. QED
    BY <2>1, <2>2
<1>19. \A x \in Taken', j \in pending' : Earlier(x, j)'
  <2> SUFFICES ASSUME NEW x \in Q, NEW j \in pending \ {i} PROVE Earlier(x, j)
    BY <1>4, <1>5, <1>6
  <2>1. QED
    BY <1>9 DEF Q
<1>20. \A x \in DOMAIN dataset' : dataset'[x].rev \in 1..x \union {None}
  BY <1>4 DEF QtyInv
<1>21. QED
  BY <1>18, <1>19, <1>20 DEF QtyInv

\* The event of a step on a movement is no stocktake.
LEMMA OwnMove ==
    ASSUME StockIInv, NEW i \in pending, Turn(i), dataset[Origin(i)].move # "STOCKTAKE"
    PROVE  dataset[i].move # "STOCKTAKE"
<1> SUFFICES ASSUME dataset[i].move = "STOCKTAKE" PROVE FALSE
  OBVIOUS
<1>1. Origin(i) = i
  BY TurnFacts, RowFacts, OwnOrigin DEF Reverses, StockIInv
<1>2. QED
  BY <1>1

LEMMA InboundQuantities ==
    ASSUME StockIInv, DatesInv, QtyInv, NEW i \in pending, ReplayInbound(i)
    PROVE  QtyInv'
<1> DEFINE base == dataset[Origin(i)]
           k == KeyOf(i)
           p == Opened(i)
           sign == SignOf(i)
           a == Received(p, base, sign)
           delta == OutDelta(base, sign, InPeriod(base))
<1>1. /\ Turn(i) /\ InHorizon(base) /\ base.move \in Inbound /\ Advance(i, a, delta)
  BY DEF ReplayInbound
<1>2. /\ Booked(base) /\ p \in Bucket /\ Alike(buckets[k], p)
      /\ sign \in {1, -1} /\ InPeriod(base) \in BOOLEAN
  BY <1>1, TurnFacts, MovedFacts, SignIsOne DEF InPeriod
<1>3. delta \in Int
  <2> HIDE DEF base, sign
  <2>1. QED
    BY <1>2, OutDeltaType
<1>4. a \in Bucket /\ a.balance = p.balance + sign * base.qty
  <2> HIDE DEF base, sign, p, k
  <2>1. QED
    BY <1>2, ReceivedType
<1>5. Kept(p, a)
  BY <1>2, ReceivedKeeps
<1>6. dataset[i].move # "STOCKTAKE"
  BY <1>1, OwnMove DEF Inbound
<1>7. a.balance = buckets[k].balance + sign * Worth(k, Origin(i))
  <2>1. Worth(k, Origin(i)) = 1 * base.qty /\ base.qty \in Nat
    BY <1>1, <1>2 DEF Worth, OwnKey, KeyOf, Direction, Booked, Slicable
  <2>2. p.balance = buckets[k].balance
    BY <1>2 DEF Alike
  <2> HIDE DEF base, sign, a, k, p
  <2>3. QED
    BY <1>2, <1>4, <2>1, <2>2
<1> HIDE DEF a, delta
<1>8. QED
  BY <1>1, <1>3, <1>4, <1>5, <1>6, <1>7, AdvanceQuantities

LEMMA OutboundQuantities ==
    ASSUME StockIInv, DatesInv, QtyInv, NEW i \in pending, ReplayOutbound(i)
    PROVE  QtyInv'
<1> DEFINE base == dataset[Origin(i)]
           k == KeyOf(i)
           p == Opened(i)
           sign == SignOf(i)
           a == Issued(p, base, sign)
           delta == OutDelta(base, sign, InPeriod(base))
<1>1. /\ Turn(i) /\ InHorizon(base) /\ base.move \in Outbound /\ Advance(i, a, delta)
  BY DEF ReplayOutbound
<1>2. /\ Booked(base) /\ p \in Bucket /\ Alike(buckets[k], p)
      /\ sign \in {1, -1} /\ InPeriod(base) \in BOOLEAN
  BY <1>1, TurnFacts, MovedFacts, SignIsOne DEF InPeriod
<1>3. delta \in Int
  <2> HIDE DEF base, sign
  <2>1. QED
    BY <1>2, OutDeltaType
<1>4. a \in Bucket
  <2> HIDE DEF base, sign, p, k
  <2>1. QED
    BY <1>2, IssuedType
<1>5. Kept(p, a) /\ a.balance = p.balance - sign * base.qty
  BY <1>2, IssuedKeeps
<1>6. dataset[i].move # "STOCKTAKE"
  BY <1>1, OwnMove DEF Outbound
<1>7. a.balance = buckets[k].balance + sign * Worth(k, Origin(i))
  <2>1. Worth(k, Origin(i)) = -1 * base.qty /\ base.qty \in Nat
    BY <1>1, <1>2 DEF Worth, OwnKey, KeyOf, Direction, Booked, Slicable, Inbound, Outbound
  <2>2. p.balance = buckets[k].balance /\ p.balance \in Int
    BY <1>2, BucketParts DEF Alike
  <2>3. Worth(k, Origin(i)) = -base.qty
    BY <2>1
  <2> HIDE DEF base, sign, a, k, p
  <2>4. QED
    BY <1>2, <1>5, <2>1, <2>2, <2>3
<1> HIDE DEF a, delta
<1>8. QED
  BY <1>1, <1>3, <1>4, <1>5, <1>6, <1>7, AdvanceQuantities

LEMMA StocktakeQuantities ==
    ASSUME StockIInv, DatesInv, QtyInv, NEW i \in pending, ReplayStocktake(i)
    PROVE  QtyInv'
<1> DEFINE base == dataset[Origin(i)]
           p == Opened(i)
           sign == SignOf(i)
           a == Counted(p, Origin(i), base, sign)
<1>1. /\ Turn(i) /\ InHorizon(base) /\ base.move = "STOCKTAKE" /\ Advance(i, a, 0)
  BY DEF ReplayStocktake
<1>2. /\ Booked(base) /\ p \in Bucket /\ sign \in {1, -1} /\ Origin(i) \in Ids
      /\ i \in Touching(KeyOf(i))
  BY <1>1, TurnFacts, MovedFacts, SignIsOne
<1>3. a \in Bucket
  <2> HIDE DEF base, sign, p
  <2>1. QED
    BY <1>2, CountedType
<1>4. Kept(p, a) /\ (sign = 1 => a.balance = base.qty)
  BY <1>2, CountedKeeps
<1>5. dataset[i].move = "STOCKTAKE" => a.balance = dataset[i].qty
  <2> SUFFICES ASSUME dataset[i].move = "STOCKTAKE" PROVE a.balance = dataset[i].qty
    OBVIOUS
  <2>1. Origin(i) = i /\ SignOf(i) = 1
    BY <1>1, TurnFacts, RowFacts, OwnOrigin DEF Reverses, StockIInv
  <2>2. QED
    BY <1>4, <2>1
<1>6. dataset[i].move # "STOCKTAKE" => StocktakeUndone(KeyOf(i))
  <2> SUFFICES ASSUME dataset[i].move # "STOCKTAKE" PROVE StocktakeUndone(KeyOf(i))
    OBVIOUS
  <2>1. Reverses(i)
    <3>1. ASSUME ~Reverses(i) PROVE FALSE
      <4>1. Origin(i) = i
        BY <1>1, <3>1, TurnFacts, RowFacts, OwnOrigin DEF StockIInv
      <4>2. QED
        BY <1>1, <4>1
    <3>2. QED
      BY <3>1
  <2>2. QED
    BY <1>1, <1>2, <2>1 DEF StocktakeUndone
<1> HIDE DEF a
<1>7. QED
  BY <1>1, <1>3, <1>4, <1>5, <1>6, AdvanceQuantities

LEMMA TransferQuantities ==
    ASSUME StockIInv, DatesInv, QtyInv, NEW i \in pending, ReplayTransfer(i)
    PROVE  QtyInv'
<1> DEFINE base == dataset[Origin(i)]
           k == KeyOf(i)
           p == Opened(i)
           sign == SignOf(i)
<1>1. /\ Turn(i) /\ InHorizon(base) /\ base.move = "TRANSFER" /\ Advance(i, p, 0)
  BY DEF ReplayTransfer
<1>2. Booked(base) /\ p \in Bucket /\ Alike(buckets[k], p) /\ sign \in {1, -1}
  BY <1>1, TurnFacts, MovedFacts, SignIsOne
<1>3. dataset[i].move # "STOCKTAKE"
  BY <1>1, OwnMove
<1>4. p.balance = buckets[k].balance + sign * Worth(k, Origin(i))
  <2>1. Direction(base) = 0 /\ base.qty \in Nat
    BY <1>1, <1>2 DEF Direction, Inbound, Outbound, Booked, Slicable
  <2>2. Worth(k, Origin(i)) = 0
    BY <2>1 DEF Worth
  <2>3. p.balance = buckets[k].balance /\ p.balance \in Int
    BY <1>2, BucketParts DEF Alike
  <2> HIDE DEF sign, k, p
  <2>4. QED
    BY <1>2, <2>2, <2>3
<1>5. Kept(p, p)
  BY DEF Kept
<1>6. QED
  BY <1>1, <1>2, <1>3, <1>4, <1>5, AdvanceQuantities

LEMMA SkipQuantities ==
    ASSUME StockIInv, QtyInv, NEW i \in pending, SkipReversal(i)
    PROVE  QtyInv'
<1>1. /\ pc = "replay" /\ ~InHorizon(dataset[Origin(i)]) /\ pending' = pending \ {i}
      /\ UNCHANGED <<pc, request, dataset, buckets>>
  BY DEF SkipReversal, Turn
<1>2. /\ \A c, S : Reference(c, S)' = Reference(c, S)
      /\ \A c : Touching(c)' = Touching(c) /\ (StocktakeUndone(c)' <=> StocktakeUndone(c))
      /\ Horizon' = Horizon /\ BeforePeriod' = BeforePeriod
      /\ \A x, y : Earlier(x, y)' <=> Earlier(x, y)
  BY <1>1, SameReference
<1>3. Taken' = Taken
  BY <1>1, <1>2 DEF Taken, Horizon
<1>4. ASSUME NEW c \in Keys PROVE BalanceInv(c)' /\ DailyAdds(buckets'[c])
  <2>1. BalanceInv(c) /\ DailyAdds(buckets[c])
    BY <1>1 DEF QtyInv
  <2>2. Reference(c, Taken)' = Reference(c, Taken)
        /\ Reference(c, BeforePeriod)' = Reference(c, BeforePeriod)
    BY <1>2, <1>3
  <2>3. QED
    BY <1>1, <1>2, <1>3, <2>1, <2>2 DEF BalanceInv
<1>5. \A x \in Taken', j \in pending' : Earlier(x, j)'
  BY <1>1, <1>2, <1>3 DEF QtyInv
<1>6. QED
  BY <1>1, <1>4, <1>5 DEF QtyInv

LEMMA StartQuantities ==
    ASSUME StockIInv, QtyInv, StartReplay
    PROVE  QtyInv'
<1>1. /\ pc = "loaded" /\ pc' = "replay" /\ ReversalsResolve
      /\ pending' = {i \in DOMAIN dataset : InHorizon(dataset[i])}
      /\ UNCHANGED <<request, dataset, buckets>>
  BY DEF StartReplay
<1>2. Orderly
  BY <1>1, OrderlyReplay DEF QtyInv
<1>3. /\ \A c, S : Reference(c, S)' = Reference(c, S)
      /\ Horizon' = Horizon
  BY <1>1, SameReference
<1>4. Taken' = {}
  BY <1>1, <1>3 DEF Taken, Horizon
<1>5. buckets = [k \in Keys |-> NewBucket]
  BY <1>1 DEF StockIInv, FreshInv
<1>6. ASSUME NEW c \in Keys PROVE BalanceInv(c)' /\ DailyAdds(buckets'[c])
  <2>1. buckets'[c] = NewBucket
    BY <1>1, <1>5
  <2>2. Reference(c, {}) = 0
    <3>1. Stocktakes(c, {}) = {} /\ {} \in SUBSET DOMAIN dataset
      BY DEF Stocktakes
    <3>2. Reference(c, {}) = Total(Effect(c), {})
      BY <1>2, <3>1, ReferenceIs
    <3>3. QED
      BY <3>2, TotalOfNone
  <2>3. Reference(c, Taken)' = 0
    BY <1>3, <1>4, <2>2
  <2>4. /\ NewBucket.balance = 0 /\ NewBucket.captured = FALSE /\ NewBucket.live = FALSE
        /\ NewBucket.out = 0 /\ NewBucket.daily = [d \in Days |-> 0]
    BY DEF NewBucket
  <2>5. BalanceInv(c)'
    BY <1>1, <1>4, <2>1, <2>3, <2>4 DEF BalanceInv
  <2>6. DailyAdds(NewBucket)
    <3> DEFINE zero == [d \in Days |-> 0]
    <3>1. IsFiniteSet(Days)
      BY DaysFinite
    <3>2. Nats(zero, Days) /\ \A d \in Days : zero[d] = 0
      BY DEF Nats
    <3> HIDE DEF zero
    <3>3. Total(zero, Days) = 0
      BY <3>1, <3>2, TotalZero
    <3>4. QED
      BY <2>4, <3>3 DEF DailyAdds, zero
  <2>7. QED
    BY <2>1, <2>5, <2>6
<1>7. \A x \in DOMAIN dataset' : dataset'[x].rev \in 1..x \union {None}
  BY <1>1 DEF QtyInv
<1>8. QED
  BY <1>4, <1>6, <1>7 DEF QtyInv

LEMMA FinishQuantities ==
    ASSUME StockIInv, QtyInv, FinishReplay
    PROVE  QtyInv'
<1>1. /\ pc = "replay" /\ pending = {} /\ pc' = "done"
      /\ buckets' = [k \in Keys |-> IF buckets[k].live THEN Captured(buckets[k])
                                                       ELSE buckets[k]]
      /\ UNCHANGED <<request, dataset, pending>>
  BY DEF FinishReplay
<1>2. Orderly
  BY <1>1, OrderlyReplay DEF QtyInv, StockIInv, ReplayInv
<1>3. /\ \A c, S : Reference(c, S)' = Reference(c, S)
      /\ \A c : Touching(c)' = Touching(c) /\ (StocktakeUndone(c)' <=> StocktakeUndone(c))
      /\ Horizon' = Horizon /\ BeforePeriod' = BeforePeriod
  BY <1>1, SameReference
<1>4. Taken = Horizon /\ Taken' = Horizon
  BY <1>1, <1>3 DEF Taken
<1>5. ASSUME NEW c \in Keys PROVE BalanceInv(c)' /\ DailyAdds(buckets'[c])
  <2> DEFINE o == buckets[c]
             b == buckets'[c]
  <2>1. o \in Bucket /\ BalanceInv(c) /\ DailyAdds(o)
    BY <1>1 DEF StockIInv, TypeOK, QtyInv
  <2>2. b = IF o.live THEN Captured(o) ELSE o
    BY <1>1
  <2> HIDE DEF o, b
  <2>3. /\ b.balance = o.balance /\ b.out = o.out /\ b.daily = o.daily /\ b.live = o.live
        /\ o.live => b.captured /\ b.opening = IF o.captured THEN o.opening ELSE o.balance
        /\ ~o.live => b = o
    <3>1. CASE o.live
      BY <2>1, <2>2, <3>1, CapturedKeeps
    <3>2. CASE ~o.live
      BY <2>2, <3>2
    <3>3. QED
      BY <3>1, <3>2
  <2>4. ASSUME ~StocktakeUndone(c)
        PROVE  /\ o.balance = Reference(c, Horizon)
               /\ o.captured => o.opening = Reference(c, BeforePeriod)
               /\ ~o.captured => o.balance = Reference(c, BeforePeriod)
    <3>1. /\ o.balance = Reference(c, Horizon)
          /\ o.captured => o.opening = Reference(c, BeforePeriod)
      BY <1>4, <2>1, <2>4 DEF BalanceInv, o
    <3>2. ASSUME ~o.captured PROVE o.balance = Reference(c, BeforePeriod)
      <4>1. \A i \in Touching(c) \cap Horizon : dataset[i].day < request.start
        BY <1>1, <1>4, <2>1, <3>2 DEF BalanceInv, o
      <4>2. Horizon \cap Touching(c) = BeforePeriod \cap Touching(c)
        BY <4>1 DEF BeforePeriod
      <4>3. BeforePeriod \in SUBSET Horizon /\ Horizon \in SUBSET Horizon
        BY DEF BeforePeriod
      <4>4. Reference(c, Horizon) = Reference(c, BeforePeriod)
        BY <1>2, <4>2, <4>3, SameInBucket
      <4>5. QED
        BY <3>1, <4>4
    <3>3. QED
      BY <3>1, <3>2
  <2>5. Reference(c, Taken)' = Reference(c, Horizon)
        /\ Reference(c, BeforePeriod)' = Reference(c, BeforePeriod)
    BY <1>3, <1>4
  <2>6. ASSUME ~StocktakeUndone(c)
        PROVE  b.captured => b.opening = Reference(c, BeforePeriod)
    <3>1. CASE o.live
      BY <2>3, <2>4, <2>6, <3>1
    <3>2. CASE ~o.live
      BY <2>3, <2>4, <2>6, <3>2
    <3>3. QED
      BY <3>1, <3>2
  <2>7. b.live => b.captured
    BY <2>3
  <2>8. BalanceInv(c)'
    BY <1>1, <1>3, <2>3, <2>4, <2>5, <2>6, <2>7 DEF BalanceInv, b
  <2>9. DailyAdds(b)
    BY <2>1, <2>3 DEF DailyAdds
  <2>10. QED
    BY <2>8, <2>9 DEF b
<1>6. \A x \in DOMAIN dataset' : dataset'[x].rev \in 1..x \union {None}
  BY <1>1 DEF QtyInv
<1>7. QED
  BY <1>1, <1>5, <1>6 DEF QtyInv

\* What is handed to the engine refers back, as the ledger does.
LEMMA LoadQuantities ==
    ASSUME StockIInv, QtyInv, LoadLocal \/ \E q \in Requests : LoadContract(q)
    PROVE  QtyInv'
<1>1. pc' = "loaded" /\ (dataset' = AdapterDataset \/ dataset' = ContractDataset)
  BY DEF LoadLocal, LoadContract
<1>2. /\ \A i \in DOMAIN ledger : ledger[i].rev \in 1..i \union {None} /\ ledger[i] \in Entry
  BY RowFacts DEF StockIInv, TypeOK
<1>3. ASSUME NEW i \in DOMAIN ledger
      PROVE  /\ Movement(ledger[i]).rev = ledger[i].rev
             /\ [Movement(ledger[i]) EXCEPT !.rev = None].rev = None
  BY <1>2 DEF Movement, Entry
<1>4. CASE dataset' = AdapterDataset
  BY <1>1, <1>3, <1>4 DEF QtyInv, AdapterDataset
<1>5. CASE dataset' = ContractDataset
  BY <1>1, <1>2, <1>3, <1>5 DEF QtyInv, ContractDataset
<1>6. QED
  BY <1>1, <1>4, <1>5

LEMMA QuantityInvariance == Spec => []QtyInv
<1>1. Init => QtyInv
  BY DEF Init, QtyInv
<1>2. StockIInv /\ DatesInv /\ QtyInv /\ [Next]_vars => QtyInv'
  <2> SUFFICES ASSUME StockIInv, DatesInv, QtyInv, [Next]_vars PROVE QtyInv'
    OBVIOUS
  <2>1. ASSUME NEW i \in pending,
               ReplayInbound(i) \/ ReplayOutbound(i) \/ ReplayStocktake(i)
                  \/ ReplayTransfer(i) \/ SkipReversal(i)
        PROVE  QtyInv'
    BY <2>1, InboundQuantities, OutboundQuantities, StocktakeQuantities,
       TransferQuantities, SkipQuantities
  <2>2. CASE StartReplay
    BY <2>2, StartQuantities
  <2>3. CASE FinishReplay
    BY <2>3, FinishQuantities
  <2>4. CASE LoadLocal \/ \E q \in Requests : LoadContract(q)
    BY <2>4, LoadQuantities
  <2>5. ASSUME \/ UNCHANGED vars
               \/ \E row \in Menu, day \in Days, rev \in 1..Len(ledger) + 1 \union {None} :
                     Record(row, day, rev)
        PROVE  QtyInv'
    <3>1. UNCHANGED <<pc, request, dataset, buckets, pending>>
      BY <2>5 DEF vars, engine, Record
    <3>2. /\ \A c, S : Reference(c, S)' = Reference(c, S)
          /\ \A c : Touching(c)' = Touching(c) /\ (StocktakeUndone(c)' <=> StocktakeUndone(c))
          /\ Horizon' = Horizon /\ BeforePeriod' = BeforePeriod
          /\ \A x, y : Earlier(x, y)' <=> Earlier(x, y)
      BY <3>1, SameReference
    <3>3. Taken' = Taken
      BY <3>1, <3>2 DEF Taken
    <3>4. ASSUME NEW c \in Keys, pc \in {"replay", "done"}
          PROVE  BalanceInv(c)' /\ DailyAdds(buckets'[c])
      <4>1. BalanceInv(c) /\ DailyAdds(buckets[c])
        BY <3>4 DEF QtyInv
      <4>2. Reference(c, Taken)' = Reference(c, Taken)
            /\ Reference(c, BeforePeriod)' = Reference(c, BeforePeriod)
        BY <3>2, <3>3
      <4>3. QED
        BY <3>1, <3>2, <3>3, <4>1, <4>2 DEF BalanceInv
    <3>5. QED
      BY <3>1, <3>2, <3>3, <3>4 DEF QtyInv
  <2>6. CASE AskLocal \/ Refuse \/ Return
    <3>1. pc' \notin {"replay", "done"} /\ (dataset' = dataset \/ dataset' = << >>)
      BY <2>6 DEF AskLocal, Refuse, Return
    <3>2. QED
      BY <3>1 DEF QtyInv
  <2>7. QED
    BY <2>1, <2>2, <2>3, <2>4, <2>5, <2>6 DEF Next
<1>3. QED
  BY <1>1, <1>2, ReplayInvariance, DatesInvariance, PTL DEF Spec

\* For any ledger, period and order of events: opening and closing are what the
\* events before the period and before its end leave, each counted as often as
\* its reversals let it stand, and daily_out adds up to period_out_qty.
THEOREM QuantitiesAreReconciled == Spec => []QuantitiesReconcile
<1>1. StockIInv /\ QtyInv => QuantitiesReconcile
  <2> SUFFICES ASSUME StockIInv, QtyInv, pc = "done", NEW k \in Keys, buckets[k].live
               PROVE  /\ ~StocktakeUndone(k) =>
                            /\ buckets[k].balance = Reference(k, Horizon)
                            /\ buckets[k].opening =
                                  Reference(k, {i \in Horizon : dataset[i].day < request.start})
                      /\ Total(buckets[k].daily, Days) = buckets[k].out
    BY DEF QuantitiesReconcile
  <2>1. Taken = Horizon
    BY DEF StockIInv, FreshInv, Taken
  <2>2. BalanceInv(k) /\ DailyAdds(buckets[k])
    BY DEF QtyInv
  <2>3. QED
    BY <2>1, <2>2 DEF BalanceInv, DailyAdds, BeforePeriod
<1>2. QED
  BY <1>1, ReplayInvariance, QuantityInvariance, PTL

-----------------------------------------------------------------------------
(***************************************************************************)
(* The projection and the replay                                           *)
(***************************************************************************)

\* The keys of the projection that make up a bucket, and rebuild event by event.
LotsOf(k)     == {b \in BalanceKeys : <<b[1], b[2]>> = k}
Preceding(i)  == {j \in DOMAIN ledger : Precedes(ledger[j], j, ledger[i], i)}
Nth(n)        == CHOOSE i \in DOMAIN ledger : Cardinality(Preceding(i)) = n - 1
Booking(f, e) == [f EXCEPT ![BalanceKey(e)] = @ + EventDelta(e, @)]
IsRebuild(f)  == f = [n \in 0..Len(ledger) |->
                         IF n = 0 THEN [b \in BalanceKeys |-> 0]
                         ELSE Booking(f[n - 1], ledger[Nth(n)])]

LEMMA RebuildIs ==
    ASSUME StockIInv
    PROVE  \E f : IsRebuild(f) /\ Rebuilt = f[Len(ledger)]
<1> DEFINE Stage(f, n) == IF n = 0 THEN [b \in BalanceKeys |-> 0]
                          ELSE Booking(f[n - 1], ledger[Nth(n)])
           Fine == {m \in Nat : \E f : f = [n \in 0..m |-> Stage(f, n)]}
<1>1. Len(ledger) \in Nat
  BY RowFacts DEF StockIInv
<1>2. 0 \in Fine
  <2> DEFINE f == [n \in 0..0 |-> [b \in BalanceKeys |-> 0]]
  <2>1. f = [n \in 0..0 |-> Stage(f, n)]
    OBVIOUS
  <2> HIDE DEF f, Stage
  <2>2. QED
    BY <2>1
<1>3. ASSUME NEW m \in Nat, m \in Fine PROVE m + 1 \in Fine
  <2>1. PICK f : f = [n \in 0..m |-> Stage(f, n)]
    BY <1>3
  <2> DEFINE g == [n \in 0..m + 1 |-> Stage(f, n)]
  <2>2. ASSUME NEW n \in 0..m + 1 PROVE Stage(f, n) = Stage(g, n)
    <3>1. CASE n = 0
      BY <3>1
    <3>2. CASE n # 0
      <4>1. n - 1 \in 0..m /\ n - 1 \in 0..m + 1
        BY <3>2
      <4>2. f[n - 1] = Stage(f, n - 1)
        <5> HIDE DEF Stage
        <5>1. QED
          BY <2>1, <4>1
      <4>3. g[n - 1] = Stage(f, n - 1)
        <5> HIDE DEF Stage
        <5>1. QED
          BY <4>1
      <4> HIDE DEF g
      <4>4. f[n - 1] = g[n - 1]
        BY <4>2, <4>3
      <4>5. QED
        BY <3>2, <4>4
    <3>3. QED
      BY <3>1, <3>2
  <2> HIDE DEF Stage
  <2>3. g = [n \in 0..m + 1 |-> Stage(g, n)]
    BY <2>2
  <2> HIDE DEF g
  <2>4. QED
    BY <2>3
<1> HIDE DEF Fine
<1>4. Len(ledger) \in Fine
  BY <1>1, <1>2, <1>3, NatSetInduction
<1>5. PICK f : f = [n \in 0..Len(ledger) |-> Stage(f, n)]
  BY <1>4 DEF Fine
<1>6. IsRebuild(f)
  BY <1>5 DEF IsRebuild
<1>7. Rebuilt = (CHOOSE g : IsRebuild(g))[Len(ledger)]
  BY DEF Rebuilt, IsRebuild, Booking, Nth, Preceding
<1>8. IsRebuild(CHOOSE g : IsRebuild(g))
  BY <1>6
<1>9. QED
  BY <1>7, <1>8

\* The same events, all of them, in both programs.
Comparable ==
    /\ StockIInv /\ Orderly
    /\ DOMAIN dataset = DOMAIN ledger
    /\ \A i \in DOMAIN ledger :
          /\ dataset[i] = [Movement(ledger[i]) EXCEPT !.rev = None]
          /\ InHorizon(dataset[i]) /\ ~Reverses(i) /\ Movement(ledger[i]).move # "TRANSFER"
    /\ \A i, j \in DOMAIN ledger :
          /\ ledger[i].move = "ADJUSTMENT"
          /\ ledger[i].sku = ledger[j].sku /\ ledger[i].wh = ledger[j].wh
          => ledger[i].lot = ledger[j].lot

LEMMA SameEvent ==
    ASSUME Comparable, NEW i \in DOMAIN ledger
    PROVE  /\ ledger[i] \in Entry /\ ledger[i].qty \in Nat /\ dataset[i].qty = ledger[i].qty
           /\ dataset[i].day = ledger[i].day
           /\ OwnKey(i) = <<ledger[i].sku, ledger[i].wh>> /\ OwnKey(i) \in Keys
           /\ BalanceKey(ledger[i]) \in BalanceKeys
           /\ ledger[i].move \in {"INBOUND", "RETURN", "OUTBOUND", "SCRAP", "ADJUSTMENT"}
           /\ ledger[i].move = "ADJUSTMENT" <=> dataset[i].move = "STOCKTAKE"
           /\ ledger[i].move # "ADJUSTMENT"
                 => Direction(dataset[i]) = MoveSign(ledger[i].move)
<1>1. ledger[i] \in Entry
  BY RowFacts DEF Comparable, StockIInv
<1> DEFINE e == ledger[i]
<1>2. /\ e.move \in LocalMoves /\ e.sku \in Skus /\ e.wh \in Warehouses
      /\ e.lot \in Lots \union {None} /\ e.qty \in Nat
  BY <1>1 DEF Entry
<1>3. /\ dataset[i].move = MoveType(e.move) /\ dataset[i].qty = e.qty
      /\ dataset[i].day = e.day /\ dataset[i].sku = e.sku /\ dataset[i].wh = e.wh
      /\ Movement(e).move = MoveType(e.move)
  BY <1>1 DEF Comparable, Movement, Entry
<1>4. MoveType(e.move) # "TRANSFER" /\ MoveType(e.move) # "REVERSAL"
  BY <1>3 DEF Comparable, Reverses
<1> HIDE DEF e
<1>5. e.move \in {"INBOUND", "RETURN", "OUTBOUND", "SCRAP", "ADJUSTMENT"}
  BY <1>2, <1>4 DEF LocalMoves, MoveType
<1>6. /\ e.move = "ADJUSTMENT" <=> dataset[i].move = "STOCKTAKE"
      /\ e.move # "ADJUSTMENT" => Direction(dataset[i]) = MoveSign(e.move)
  BY <1>3, <1>5 DEF MoveType, Direction, MoveSign, Inbound, Outbound
<1>7. OwnKey(i) = <<e.sku, e.wh>> /\ OwnKey(i) \in Keys /\ BalanceKey(e) \in BalanceKeys
  BY <1>2, <1>3 DEF OwnKey, Keys, BalanceKey, BalanceKeys
<1>8. QED
  BY <1>1, <1>2, <1>3, <1>5, <1>6, <1>7 DEF e

LEMMA SameOrder ==
    ASSUME Comparable, NEW i \in DOMAIN ledger
    PROVE  Preceding(i) = {j \in DOMAIN dataset : Earlier(j, i)} /\ IsFiniteSet(Preceding(i))
<1>1. Preceding(i) = {j \in DOMAIN dataset : Earlier(j, i)}
  <2>1. \A j \in DOMAIN ledger : dataset[j].day = ledger[j].day
    BY SameEvent
  <2>2. \A j \in DOMAIN ledger :
           Precedes(ledger[j], j, ledger[i], i) <=> Precedes(dataset[j], j, dataset[i], i)
    BY <2>1 DEF Precedes
  <2>3. QED
    BY <2>2 DEF Preceding, Earlier, Comparable
<1>2. QED
  BY <1>1, OrderlyFacts, FS_Subset DEF Comparable

\* Of two events the later one has more ahead of it.
LEMMA RankGrows ==
    ASSUME Comparable, NEW i \in DOMAIN ledger, NEW j \in DOMAIN ledger, Earlier(i, j)
    PROVE  /\ Cardinality(Preceding(i)) \in Nat /\ Cardinality(Preceding(j)) \in Nat
           /\ Cardinality(Preceding(i)) < Cardinality(Preceding(j))
<1>1. IsFiniteSet(Preceding(i)) /\ IsFiniteSet(Preceding(j)) /\ Orderly /\ DOMAIN dataset = DOMAIN ledger
  BY SameOrder DEF Comparable
<1>2. i \in Preceding(j) /\ i \notin Preceding(i) /\ Preceding(i) \subseteq Preceding(j)
  <2>1. /\ Preceding(i) = {x \in DOMAIN dataset : Earlier(x, i)}
        /\ Preceding(j) = {x \in DOMAIN dataset : Earlier(x, j)}
    BY SameOrder
  <2>2. ~Earlier(i, i)
    BY <1>1, EventOrder
  <2>3. \A x \in DOMAIN dataset : Earlier(x, i) => Earlier(x, j)
    BY <1>1, EventOrder
  <2>4. QED
    BY <1>1, <2>1, <2>2, <2>3
<1>3. /\ Cardinality(Preceding(i)) \in Nat /\ Cardinality(Preceding(j)) \in Nat
      /\ Cardinality(Preceding(i)) <= Cardinality(Preceding(j))
      /\ Cardinality(Preceding(i)) = Cardinality(Preceding(j)) => Preceding(i) = Preceding(j)
  BY <1>1, <1>2, FS_Subset, FS_CardinalityType
<1>4. QED
  BY <1>2, <1>3

\* S holds whatever is ahead of its events.
Closed(S) == S \in SUBSET DOMAIN ledger /\ \A j \in S : Preceding(j) \subseteq S

LEMMA NextEvent ==
    ASSUME Comparable, NEW S, Closed(S), S # DOMAIN ledger
    PROVE  \E i \in DOMAIN ledger \ S :
              /\ Preceding(i) = S /\ Closed(S \union {i})
              /\ i = Nth(Cardinality(S) + 1)
<1> DEFINE rank(i) == Cardinality(Preceding(i))
           R == {rank(i) : i \in DOMAIN ledger \ S}
<1>1. \A i \in DOMAIN ledger : rank(i) \in Nat
  BY SameOrder, FS_CardinalityType
<1>2. R \in SUBSET Nat /\ R # {}
  BY <1>1 DEF Closed
<1>3. PICK n \in R : \A m \in R : n <= m
  <2> HIDE DEF R
  <2>1. QED
    BY <1>2, SmallestOf
<1>4. PICK i \in DOMAIN ledger \ S : rank(i) = n
  OBVIOUS
<1>5. Orderly /\ DOMAIN dataset = DOMAIN ledger
  BY DEF Comparable
<1>6. Preceding(i) = {x \in DOMAIN dataset : Earlier(x, i)}
  BY SameOrder
<1>7. ASSUME NEW x \in Preceding(i) PROVE x \in S
  <2> SUFFICES ASSUME x \notin S PROVE FALSE
    OBVIOUS
  <2>1. x \in DOMAIN ledger \ S /\ Earlier(x, i)
    BY <1>5, <1>6, <1>7
  <2>2. rank(x) < rank(i) /\ rank(x) \in Nat /\ rank(i) \in Nat
    BY <2>1, RankGrows
  <2>3. rank(i) <= rank(x)
    BY <1>3, <1>4, <2>1
  <2> HIDE DEF rank
  <2>4. QED
    BY <2>2, <2>3
<1>8. ASSUME NEW x \in S PROVE x \in Preceding(i)
  <2>1. x \in DOMAIN ledger /\ x # i /\ Preceding(x) \subseteq S
    BY <1>8 DEF Closed
  <2>2. Earlier(x, i) \/ Earlier(i, x)
    BY <1>5, <2>1, EventOrder
  <2>3. ~Earlier(i, x)
    <3>1. Preceding(x) = {y \in DOMAIN dataset : Earlier(y, x)}
      BY <2>1, SameOrder
    <3>2. QED
      BY <1>5, <2>1, <3>1
  <2>4. QED
    BY <1>5, <1>6, <2>1, <2>2, <2>3
<1>9. Preceding(i) = S
  BY <1>7, <1>8
<1>10. Closed(S \union {i})
  BY <1>9 DEF Closed
<1>11. i = Nth(Cardinality(S) + 1)
  <2> DEFINE c == Cardinality(S)
  <2>1. c \in Nat /\ (c + 1) - 1 = c
    <3>1. c \in Nat
      BY <1>1, <1>9
    <3> HIDE DEF c
    <3>2. QED
      BY <3>1
  <2>2. Nth(c + 1) = CHOOSE j \in DOMAIN ledger : Cardinality(Preceding(j)) = c
    BY <2>1 DEF Nth
  <2>3. Cardinality(Preceding(i)) = c
    BY <1>9
  <2>4. ASSUME NEW j \in DOMAIN ledger, Cardinality(Preceding(j)) = c PROVE j = i
    <3> SUFFICES ASSUME j # i PROVE FALSE
      OBVIOUS
    <3>1. Earlier(i, j) \/ Earlier(j, i)
      BY <1>5, EventOrder
    <3>2. \/ Cardinality(Preceding(i)) < Cardinality(Preceding(j))
          \/ Cardinality(Preceding(j)) < Cardinality(Preceding(i))
      BY <3>1, RankGrows
    <3> HIDE DEF c
    <3>3. QED
      BY <2>1, <2>3, <2>4, <3>2
  <2> HIDE DEF c
  <2>5. QED
    BY <2>2, <2>3, <2>4 DEF c
<1>12. QED
  BY <1>9, <1>10, <1>11

LEMMA LotsFinite ==
    ASSUME NEW k
    PROVE  LotsOf(k) \subseteq BalanceKeys /\ IsFiniteSet(LotsOf(k))
<1> DEFINE L == Lots \union {None}
           at == [l \in L |-> <<k[1], k[2], l>>]
           I == {at[l] : l \in L}
<1>1. IsFiniteSet(L)
  <2>1. IsFiniteSet(Lots)
    BY StockAssumption DEF StockAssumption
  <2>2. QED
    BY <2>1, FS_AddElement
<1>2. LotsOf(k) \subseteq I
  <2> SUFFICES ASSUME NEW b \in LotsOf(k) PROVE b \in I
    OBVIOUS
  <2>1. b \in BalanceKeys /\ k = <<b[1], b[2]>>
    BY DEF LotsOf
  <2>2. b = <<b[1], b[2], b[3]>> /\ b[3] \in L
    BY <2>1 DEF BalanceKeys
  <2>3. k[1] = b[1] /\ k[2] = b[2]
    BY <2>1
  <2>4. at[b[3]] = b
    BY <2>2, <2>3
  <2> HIDE DEF at, L
  <2>5. QED
    BY <2>2, <2>4
<1>3. at \in Surjection(L, I)
  BY DEF Surjection
<1> HIDE DEF L, at, I
<1>4. IsFiniteSet(I)
  BY <1>1, <1>3, FS_Surjection
<1>5. QED
  BY <1>2, <1>4, FS_Subset DEF LotsOf

\* An entry of the projection changes the sum of its own bucket only.
LEMMA BookingSums ==
    ASSUME NEW f \in [BalanceKeys -> Int], NEW e, BalanceKey(e) \in BalanceKeys,
           EventDelta(e, f[BalanceKey(e)]) \in Int
    PROVE  /\ Booking(f, e) \in [BalanceKeys -> Int]
           /\ Booking(f, e)[BalanceKey(e)]
                 = f[BalanceKey(e)] + EventDelta(e, f[BalanceKey(e)])
           /\ \A b \in BalanceKeys \ {BalanceKey(e)} : Booking(f, e)[b] = f[b]
           /\ \A k : Total(Booking(f, e), LotsOf(k)) =
                        IF BalanceKey(e) \in LotsOf(k)
                        THEN Total(f, LotsOf(k)) + EventDelta(e, f[BalanceKey(e)])
                        ELSE Total(f, LotsOf(k))
<1> DEFINE x == BalanceKey(e)
           d == EventDelta(e, f[x])
           g == Booking(f, e)
<1>1. g = [f EXCEPT ![x] = f[x] + d]
  BY DEF Booking
<1> HIDE DEF g, x, d
<1>2. x \in BalanceKeys /\ d \in Int /\ f[x] \in Int
  BY DEF x, d
<1>3. /\ g \in [BalanceKeys -> Int] /\ g[x] = f[x] + d
      /\ \A b \in BalanceKeys \ {x} : g[b] = f[b]
  BY <1>1, <1>2
<1>4. ASSUME NEW k
      PROVE  Total(g, LotsOf(k)) = IF x \in LotsOf(k) THEN Total(f, LotsOf(k)) + d
                                   ELSE Total(f, LotsOf(k))
  <2>1. LotsOf(k) \subseteq BalanceKeys /\ IsFiniteSet(LotsOf(k))
    BY LotsFinite
  <2>2. Ints(f, LotsOf(k))
    BY <2>1 DEF Ints
  <2>3. CASE x \in LotsOf(k)
    <3>1. g[x] \in Int /\ \A b \in LotsOf(k) \ {x} : g[b] = f[b]
      BY <1>2, <1>3, <2>1
    <3>2. Total(g, LotsOf(k)) = Total(f, LotsOf(k)) + (g[x] - f[x])
      BY <2>1, <2>2, <2>3, <3>1, TotalUpdate
    <3>3. Total(f, LotsOf(k)) \in Int /\ g[x] - f[x] = d
      BY <1>2, <1>3, <2>1, <2>2, TotalType
    <3>4. QED
      BY <2>3, <3>2, <3>3
  <2>4. CASE x \notin LotsOf(k)
    <3>1. \A b \in LotsOf(k) : g[b] = f[b]
      BY <1>3, <2>1, <2>4
    <3>2. QED
      BY <2>1, <2>4, <3>1, TotalSame
  <2>5. QED
    BY <2>3, <2>4
<1>5. QED
  BY <1>3, <1>4 DEF g, x, d

\* The projection has booked the events S: its sums are the references, and
\* only lots of these events hold anything.
Agrees(f, S) ==
    /\ f \in [BalanceKeys -> Int]
    /\ \A k \in Keys : Total(f, LotsOf(k)) = Reference(k, S)
    /\ \A b \in BalanceKeys : f[b] # 0 => \E j \in S : BalanceKey(ledger[j]) = b

LEMMA StepAgrees ==
    ASSUME Comparable, NEW S \in SUBSET DOMAIN ledger, NEW i \in DOMAIN ledger \ S,
           \A j \in S : Earlier(j, i), NEW f, Agrees(f, S)
    PROVE  Agrees(Booking(f, ledger[i]), S \union {i})
<1> DEFINE e == ledger[i]
           x == BalanceKey(e)
           d == EventDelta(e, f[x])
           g == Booking(f, e)
           R == S \union {i}
<1>1. /\ Orderly /\ DOMAIN dataset = DOMAIN ledger /\ S \in SUBSET DOMAIN dataset
      /\ i \in DOMAIN dataset \ S /\ ~Reverses(i) /\ InHorizon(dataset[i])
  BY DEF Comparable
<1>2. /\ e \in Entry /\ e.qty \in Nat /\ dataset[i].qty = e.qty
      /\ OwnKey(i) = <<e.sku, e.wh>> /\ OwnKey(i) \in Keys /\ x \in BalanceKeys
      /\ e.move \in {"INBOUND", "RETURN", "OUTBOUND", "SCRAP", "ADJUSTMENT"}
      /\ e.move = "ADJUSTMENT" <=> dataset[i].move = "STOCKTAKE"
      /\ e.move # "ADJUSTMENT" => Direction(dataset[i]) = MoveSign(e.move)
  BY SameEvent
<1>3. f \in [BalanceKeys -> Int] /\ f[x] \in Int
  BY <1>2 DEF Agrees
<1>4. \A k : x \in LotsOf(k) <=> k = OwnKey(i)
  BY <1>2 DEF LotsOf, BalanceKey
<1>5. /\ e.move = "ADJUSTMENT" => d = e.qty - f[x]
      /\ e.move # "ADJUSTMENT" => d = MoveSign(e.move) * e.qty
  BY <1>2 DEF EventDelta
<1>6. d \in Int
  <2>1. MoveSign(e.move) \in {0, 1, -1}
    BY DEF MoveSign
  <2> HIDE DEF d, x, e
  <2>2. MoveSign(e.move) * e.qty \in Int
    BY <1>2, <2>1
  <2>3. e.qty - f[x] \in Int
    BY <1>2, <1>3
  <2>4. QED
    BY <1>5, <2>2, <2>3
<1>7. /\ g \in [BalanceKeys -> Int] /\ g[x] = f[x] + d
      /\ \A b \in BalanceKeys \ {x} : g[b] = f[b]
      /\ \A k : Total(g, LotsOf(k)) = IF x \in LotsOf(k) THEN Total(f, LotsOf(k)) + d
                                      ELSE Total(f, LotsOf(k))
  <2> HIDE DEF e
  <2>1. QED
    BY <1>2, <1>3, <1>6, BookingSums
<1>8. ASSUME NEW b \in BalanceKeys, g[b] # 0 PROVE \E j \in R : BalanceKey(ledger[j]) = b
  <2>1. CASE b = x
    BY <2>1
  <2>2. CASE b # x
    <3>1. f[b] # 0
      BY <1>7, <1>8, <2>2
    <3>2. QED
      BY <3>1 DEF Agrees
  <2>3. QED
    BY <2>1, <2>2
<1> HIDE DEF g
<1>9. \A k : Effect(k)[i] = IF OwnKey(i) = k THEN Direction(dataset[i]) * e.qty ELSE 0
  <2> SUFFICES ASSUME NEW k
               PROVE  Effect(k)[i] = IF OwnKey(i) = k THEN Direction(dataset[i]) * e.qty ELSE 0
    OBVIOUS
  <2>1. Origin(i) = i /\ SignOf(i) = 1 /\ Worth(k, i) \in Int
    BY <1>1, OwnOrigin, OrderlyFacts, EffectType
  <2>2. Effect(k)[i] = SignOf(i) * Worth(k, Origin(i))
    BY <1>1 DEF Effect
  <2>3. Effect(k)[i] = Worth(k, i)
    BY <2>1, <2>2
  <2>4. QED
    BY <1>1, <1>2, <2>3 DEF Worth
<1>10. ASSUME NEW k \in Keys PROVE Total(g, LotsOf(k)) = Reference(k, R)
  <2>1. Total(f, LotsOf(k)) = Reference(k, S)
    BY DEF Agrees
  <2>2. Reference(k, S) \in Int
    BY <1>1, ReferenceType
  <2>3. CASE k # OwnKey(i)
    <3>1. Reference(k, R) = Reference(k, S) + Effect(k)[i]
      BY <1>1, <2>3, ReferenceGrows
    <3>2. Effect(k)[i] = 0 /\ Total(g, LotsOf(k)) = Total(f, LotsOf(k))
      BY <1>4, <1>7, <1>9, <2>3
    <3>3. QED
      BY <2>1, <2>2, <3>1, <3>2
  <2>4. CASE k = OwnKey(i) /\ e.move # "ADJUSTMENT"
    <3>1. Reference(k, R) = Reference(k, S) + Effect(k)[i]
      BY <1>1, <1>2, <2>4, ReferenceGrows
    <3>2. Effect(k)[i] = d
      BY <1>2, <1>5, <1>9, <2>4
    <3>3. Total(g, LotsOf(k)) = Total(f, LotsOf(k)) + d
      BY <1>4, <1>7, <2>4
    <3>4. QED
      BY <2>1, <3>1, <3>2, <3>3
  <2>5. CASE k = OwnKey(i) /\ e.move = "ADJUSTMENT"
    <3>1. Reference(k, R) = e.qty
      <4>1. dataset[i].move = "STOCKTAKE" /\ OwnKey(i) = k
        BY <1>2, <2>5
      <4>2. QED
        BY <1>1, <1>2, <4>1, ReferenceCounted
    <3>2. g[x] = e.qty
      <4>1. d = e.qty - f[x]
        BY <1>5, <2>5
      <4> HIDE DEF d, e, x
      <4>2. QED
        BY <1>2, <1>3, <1>7, <4>1
    <3>3. \A b \in LotsOf(k) \ {x} : g[b] = 0
      <4> SUFFICES ASSUME NEW b \in LotsOf(k) \ {x}, g[b] # 0 PROVE FALSE
        OBVIOUS
      <4>1. b \in BalanceKeys /\ <<b[1], b[2]>> = k
        BY DEF LotsOf
      <4>2. f[b] # 0
        BY <1>7, <4>1
      <4>3. PICK j \in S : BalanceKey(ledger[j]) = b
        BY <4>1, <4>2 DEF Agrees
      <4>4. b = <<ledger[j].sku, ledger[j].wh, ledger[j].lot>>
        BY <4>3 DEF BalanceKey
      <4>5. ledger[j].sku = e.sku /\ ledger[j].wh = e.wh
        BY <1>2, <2>5, <4>1, <4>4
      <4>6. e.lot = ledger[j].lot
        BY <2>5, <4>5 DEF Comparable
      <4>7. b = x
        BY <4>4, <4>5, <4>6 DEF BalanceKey
      <4>8. QED
        BY <4>7
    <3>4. x \in LotsOf(k) /\ LotsOf(k) \subseteq BalanceKeys /\ IsFiniteSet(LotsOf(k))
      BY <1>4, <2>5, LotsFinite
    <3>5. Ints(g, LotsOf(k))
      BY <1>7, <3>4 DEF Ints
    <3> HIDE DEF x, e
    <3>6. /\ Total(g, LotsOf(k)) = g[x] + Total(g, LotsOf(k) \ {x})
      BY <3>4, <3>5, TotalTake
    <3>7. Total(g, LotsOf(k) \ {x}) = 0
      <4>1. IsFiniteSet(LotsOf(k) \ {x}) /\ Nats(g, LotsOf(k) \ {x})
        BY <3>3, <3>4, FS_Subset DEF Nats
      <4>2. QED
        BY <3>3, <4>1, TotalZero
    <3>8. QED
      BY <1>2, <3>1, <3>2, <3>6, <3>7
  <2>6. QED
    BY <2>3, <2>4, <2>5
<1>11. QED
  BY <1>7, <1>8, <1>10 DEF Agrees, g

LEMMA RebuiltAgrees ==
    ASSUME Comparable
    PROVE  Agrees(Rebuilt, DOMAIN ledger)
<1>1. PICK f : IsRebuild(f) /\ Rebuilt = f[Len(ledger)]
  BY RebuildIs DEF Comparable
<1>2. /\ Len(ledger) \in Nat /\ DOMAIN ledger = 1..Len(ledger) /\ Orderly
      /\ IsFiniteSet(DOMAIN ledger) /\ Cardinality(DOMAIN ledger) = Len(ledger)
  <2>1. Len(ledger) \in Nat /\ DOMAIN ledger = 1..Len(ledger) /\ Orderly
    BY RowFacts DEF Comparable, StockIInv
  <2>2. IsFiniteSet(1..Len(ledger)) /\ Cardinality(1..Len(ledger)) = Len(ledger)
    <3>1. PICK n \in Nat : n = Len(ledger)
      BY <2>1
    <3>2. 1 \in Int /\ n \in Int
      OBVIOUS
    <3>3. /\ IsFiniteSet(1..n)
          /\ Cardinality(1..n) = IF 1 > n THEN 0 ELSE n - 1 + 1
      BY <3>2, FS_Interval
    <3>4. (IF 1 > n THEN 0 ELSE n - 1 + 1) = n
      OBVIOUS
    <3>5. QED
      BY <3>1, <3>3, <3>4
  <2>3. QED
    BY <2>1, <2>2
<1> DEFINE Good == {n \in Nat : n <= Len(ledger) =>
                       \E S : Closed(S) /\ Cardinality(S) = n /\ Agrees(f[n], S)}
<1>3. 0 \in Good
  <2> DEFINE zero == [b \in BalanceKeys |-> 0]
  <2>1. f[0] = zero
    <3>1. 0 \in 0..Len(ledger)
      BY <1>2
    <3>2. QED
      BY <1>1, <3>1 DEF IsRebuild
  <2>2. Closed({}) /\ Cardinality({}) = 0
    BY FS_EmptySet DEF Closed
  <2>3. \A b \in BalanceKeys : zero[b] = 0
    OBVIOUS
  <2>4. zero \in [BalanceKeys -> Int]
    OBVIOUS
  <2> HIDE DEF zero
  <2>5. ASSUME NEW k \in Keys PROVE Total(zero, LotsOf(k)) = Reference(k, {})
    <3>1. LotsOf(k) \subseteq BalanceKeys /\ IsFiniteSet(LotsOf(k))
      BY LotsFinite
    <3>2. Nats(zero, LotsOf(k)) /\ \A b \in LotsOf(k) : zero[b] = 0
      BY <2>3, <3>1 DEF Nats
    <3>3. Total(zero, LotsOf(k)) = 0
      BY <3>1, <3>2, TotalZero
    <3>4. Reference(k, {}) = Total(Effect(k), {})
      <4>1. Stocktakes(k, {}) = {} /\ {} \in SUBSET DOMAIN dataset
        BY DEF Stocktakes
      <4>2. QED
        BY <1>2, <4>1, ReferenceIs
    <3>5. QED
      BY <3>3, <3>4, TotalOfNone
  <2>6. Agrees(zero, {})
    BY <2>3, <2>4, <2>5 DEF Agrees
  <2>7. QED
    BY <2>1, <2>2, <2>6
<1>4. ASSUME NEW n \in Nat, n \in Good PROVE n + 1 \in Good
  <2> SUFFICES ASSUME n + 1 <= Len(ledger)
               PROVE  \E S : Closed(S) /\ Cardinality(S) = n + 1 /\ Agrees(f[n + 1], S)
    BY <1>4
  <2>1. PICK S : Closed(S) /\ Cardinality(S) = n /\ Agrees(f[n], S)
    BY <1>2, <1>4
  <2>2. S # DOMAIN ledger
    BY <1>2, <2>1
  <2>3. PICK i \in DOMAIN ledger \ S :
               /\ Preceding(i) = S /\ Closed(S \union {i}) /\ i = Nth(n + 1)
    BY <2>1, <2>2, NextEvent
  <2>4. f[n + 1] = Booking(f[n], ledger[i])
    <3>1. n + 1 \in 0..Len(ledger) /\ n + 1 # 0 /\ (n + 1) - 1 = n
      BY <1>2
    <3>2. f[n + 1] = Booking(f[(n + 1) - 1], ledger[Nth(n + 1)])
      BY <1>1, <3>1 DEF IsRebuild
    <3>3. QED
      BY <2>3, <3>1, <3>2
  <2>5. \A j \in S : Earlier(j, i)
    BY <2>3, SameOrder
  <2>6. S \in SUBSET DOMAIN ledger
    BY <2>1 DEF Closed
  <2>7. Agrees(f[n + 1], S \union {i})
    BY <2>1, <2>3, <2>4, <2>5, <2>6, StepAgrees
  <2>8. Cardinality(S \union {i}) = n + 1
    <3>1. IsFiniteSet(S)
      BY <1>2, <2>6, FS_Subset
    <3>2. QED
      BY <2>1, <2>3, <3>1, FS_AddElement
  <2>9. QED
    BY <2>3, <2>7, <2>8
<1> HIDE DEF Good
<1>5. Len(ledger) \in Good
  BY <1>2, <1>3, <1>4, NatSetInduction
<1>6. PICK S : Closed(S) /\ Cardinality(S) = Len(ledger) /\ Agrees(f[Len(ledger)], S)
  BY <1>2, <1>5 DEF Good
<1>7. S = DOMAIN ledger
  <2>1. S \in SUBSET DOMAIN ledger
    BY <1>6 DEF Closed
  <2>2. QED
    BY <1>2, <1>6, <2>1, FS_Subset
<1>8. QED
  BY <1>1, <1>6, <1>7

\* What the adapter hands over is the ledger, without the reversals' references.
AdapterInv ==
    /\ local /\ pc \in {"asked", "loaded", "replay", "done"} => request.scope = Warehouses
    /\ local /\ pc \in {"loaded", "replay", "done"} =>
          \A i \in DOMAIN dataset : dataset[i] = [Movement(ledger[i]) EXCEPT !.rev = None]

LEMMA AdapterInvariance == Spec => []AdapterInv
<1>1. Init => AdapterInv
  BY DEF Init, AdapterInv
<1>2. AdapterInv /\ [Next]_vars => AdapterInv'
  <2> SUFFICES ASSUME AdapterInv, [Next]_vars PROVE AdapterInv'
    OBVIOUS
  <2>1. ASSUME NEW i \in pending,
               ReplayInbound(i) \/ ReplayOutbound(i) \/ ReplayStocktake(i)
                  \/ ReplayTransfer(i) \/ SkipReversal(i)
        PROVE  AdapterInv'
    <3>1. UNCHANGED <<ledger, pc, local, request, dataset>>
      BY <2>1 DEF ReplayInbound, ReplayOutbound, ReplayStocktake, ReplayTransfer,
                  SkipReversal, Advance
    <3>2. QED
      BY <3>1 DEF AdapterInv, Movement
  <2>2. CASE StartReplay \/ FinishReplay
    <3>1. /\ UNCHANGED <<ledger, local, request, dataset>>
          /\ pc \in {"loaded", "replay"} /\ pc' \in {"replay", "done"}
      BY <2>2 DEF StartReplay, FinishReplay
    <3>2. QED
      BY <3>1 DEF AdapterInv, Movement
  <2>3. CASE LoadLocal
    <3>1. pc = "asked" /\ dataset' = AdapterDataset /\ UNCHANGED <<ledger, local, request>>
      BY <2>3 DEF LoadLocal
    <3>2. \A i \in DOMAIN dataset' : dataset'[i] = [Movement(ledger[i]) EXCEPT !.rev = None]
      BY <3>1 DEF AdapterDataset
    <3>3. QED
      BY <3>1, <3>2 DEF AdapterInv, Movement
  <2>4. CASE AskLocal
    BY <2>4 DEF AskLocal, AdapterInv, DefaultRequest
  <2>5. CASE (\E q \in Requests : LoadContract(q)) \/ Refuse \/ Return
    <3>1. local' = FALSE \/ pc' = "refused"
      BY <2>5 DEF LoadContract, Refuse, Return
    <3>2. QED
      BY <3>1 DEF AdapterInv
  <2>6. CASE \E row \in Menu, day \in Days, rev \in 1..Len(ledger) + 1 \union {None} :
                Record(row, day, rev)
    <3>1. pc \in {"idle", "asked"} /\ UNCHANGED <<pc, local, request>>
      BY <2>6 DEF Record, engine
    <3>2. QED
      BY <3>1 DEF AdapterInv
  <2>7. CASE UNCHANGED vars
    <3>1. UNCHANGED <<ledger, pc, local, request, dataset>>
      BY <2>7 DEF vars, engine
    <3>2. QED
      BY <3>1 DEF AdapterInv, Movement
  <2>8. QED
    BY <2>1, <2>2, <2>3, <2>4, <2>5, <2>6, <2>7 DEF Next
<1>3. QED
  BY <1>1, <1>2, PTL DEF Spec

\* The balances of the projection and the closing quantities of an analysis of
\* the same events agree, whatever the events: both are the reference.
THEOREM ProjectionIsReplay == Spec => []ProjectionMatchesEngine
<1>1. StockIInv /\ DatesInv /\ QtyInv /\ AdapterInv => ProjectionMatchesEngine
  <2> SUFFICES ASSUME StockIInv, DatesInv, QtyInv, AdapterInv, pc = "done", local,
                      DOMAIN dataset = DOMAIN ledger,
                      \A i \in DOMAIN ledger :
                         ledger[i].day < request.end /\ Movement(ledger[i]).move # "TRANSFER",
                      \A i, j \in DOMAIN ledger :
                         /\ ledger[i].move = "ADJUSTMENT"
                         /\ ledger[i].sku = ledger[j].sku /\ ledger[i].wh = ledger[j].wh
                         => ledger[i].lot = ledger[j].lot,
                      NEW k \in Keys
               PROVE  buckets[k].balance
                         = Total(Rebuilt, {b \in BalanceKeys : <<b[1], b[2]>> = k})
    BY DEF ProjectionMatchesEngine
  <2>1. Orderly
    BY OrderlyReplay DEF StockIInv, ReplayInv, QtyInv
  <2>2. ASSUME NEW i \in DOMAIN ledger
        PROVE  /\ dataset[i] = [Movement(ledger[i]) EXCEPT !.rev = None]
               /\ InHorizon(dataset[i]) /\ ~Reverses(i)
    <3>1. dataset[i] = [Movement(ledger[i]) EXCEPT !.rev = None]
      BY DEF AdapterInv
    <3>2. ledger[i] \in Entry
      BY RowFacts DEF StockIInv
    <3>3. dataset[i].rev = None /\ dataset[i].day = ledger[i].day /\ dataset[i].wh = ledger[i].wh
      BY <3>1, <3>2 DEF Movement, Entry
    <3>4. InHorizon(dataset[i])
      <4>1. ledger[i].wh \in request.scope
        BY <3>2 DEF Entry, AdapterInv
      <4>2. QED
        BY <3>3, <4>1 DEF InHorizon, InScope
    <3>5. ~Reverses(i)
      BY <2>1, <3>3, UndoneBefore, OrderlyFacts
    <3>6. QED
      BY <3>1, <3>4, <3>5
  <2>3. Comparable
    BY <2>1, <2>2 DEF Comparable
  <2>4. Horizon = DOMAIN ledger
    <3>1. \A i \in DOMAIN ledger : Origin(i) = i
      BY <2>1, <2>2, OwnOrigin, OrderlyFacts
    <3>2. QED
      BY <2>2, <3>1 DEF Horizon
  <2>5. ~StocktakeUndone(k)
    BY <2>2, <2>4 DEF StocktakeUndone, Touching
  <2>6. Taken = DOMAIN ledger
    BY <2>4 DEF StockIInv, FreshInv, Taken
  <2>7. buckets[k].balance = Reference(k, DOMAIN ledger)
    BY <2>5, <2>6 DEF QtyInv, BalanceInv
  <2>8. Total(Rebuilt, LotsOf(k)) = Reference(k, DOMAIN ledger)
    BY <2>3, RebuiltAgrees DEF Agrees
  <2>9. QED
    BY <2>7, <2>8 DEF LotsOf
<1>2. QED
  BY <1>1, ReplayInvariance, DatesInvariance, QuantityInvariance, AdapterInvariance, PTL

-----------------------------------------------------------------------------
(***************************************************************************)
(* The calculators: ranking amounts                                        *)
(***************************************************************************)

\* t comes before s among the amounts a: more, or as much with a smaller id.
Outsells(a, t, s) == a[t] > a[s] \/ (a[t] = a[s] /\ t < s)
UpTo(a, K, s)   == {t \in K : t = s \/ Outsells(a, t, s)}

\* Those of K that sell, as far as the running amount keeps within a limit.
Within(a, K, limit) == {s \in K : a[s] > 0 /\ 100 * Total(a, UpTo(a, K, s)) <= limit}

AmountTable(a, n) == n \in Nat /\ a = [s \in 1..n |-> a[s]] /\ Nats(a, 1..n)

\* The running amounts grow along the ranking.
LEMMA RunningGrows ==
    ASSUME NEW a, NEW n, AmountTable(a, n), NEW s \in 1..n, NEW t \in 1..n, Outsells(a, t, s)
    PROVE  Total(a, UpTo(a, 1..n, t)) <= Total(a, UpTo(a, 1..n, s))
<1> DEFINE S == UpTo(a, 1..n, s)
           T == UpTo(a, 1..n, t)
<1>1. n \in Nat /\ \A x \in 1..n : a[x] \in Nat
  BY DEF AmountTable, Nats
<1>2. T \in SUBSET S
  BY <1>1 DEF UpTo, Outsells
<1>3. IsFiniteSet(S) /\ S \in SUBSET (1..n)
  <2>1. S \in SUBSET (1..n) /\ 1 \in Int /\ n \in Int
    BY <1>1 DEF UpTo
  <2>2. IsFiniteSet(1..n)
    BY <2>1, FS_Interval
  <2>3. QED
    BY <2>1, <2>2, FS_Subset
<1>4. Nats(a, S)
  BY <1>3, TermsOfSubset DEF AmountTable
<1> HIDE DEF S, T
<1>5. Total(a, T) <= Total(a, S)
  BY <1>2, <1>3, <1>4, TotalMonotone
<1>6. QED
  BY <1>5 DEF S, T

\* Of some SKUs one is the last, of some that sell alike one is the first.
LEMMA LastRanked ==
    ASSUME NEW a, NEW n, AmountTable(a, n), NEW S \in SUBSET (1..n), S # {}
    PROVE  \E m \in S : \A t \in S : t = m \/ Outsells(a, t, m)
<1>1. n \in Nat /\ \A x \in 1..n : a[x] \in Nat
  BY DEF AmountTable, Nats
<1>2. PICK x \in S : \A t \in S : a[x] <= a[t]
  <2> DEFINE V == {a[t] : t \in S}
  <2>1. V \in SUBSET Nat /\ V # {}
    BY <1>1
  <2>2. PICK v \in V : \A w \in V : v <= w
    BY <2>1, SmallestOf
  <2>3. QED
    BY <2>2
<1> DEFINE Same == {t \in S : a[t] = a[x]}
<1>3. PICK m \in Same : \A t \in Same : t <= m
  <2> DEFINE V == {n - t : t \in Same}
  <2>1. V \in SUBSET Nat /\ V # {}
    <3>1. \A t \in 1..n : n - t \in Nat
      BY <1>1
    <3>2. QED
      BY <3>1
  <2>2. PICK v \in V : \A w \in V : v <= w
    BY <2>1, SmallestOf
  <2>3. PICK m \in Same : v = n - m
    BY <2>2
  <2>4. ASSUME NEW t \in Same
        PROVE  t <= m
    <3>1. n - m <= n - t
      BY <2>2, <2>3
    <3>2. n \in Int /\ m \in Int /\ t \in Int
      BY <1>1
    <3>3. QED
      BY <3>1, <3>2
  <2>5. QED
    BY <2>3, <2>4
<1>4. ASSUME NEW t \in S
      PROVE  t = m \/ Outsells(a, t, m)
  <2>1. a[t] \in Nat /\ a[m] \in Nat /\ t \in Int /\ m \in Int /\ a[m] <= a[t]
    BY <1>1, <1>2
  <2>2. a[t] = a[m] => t <= m
    BY <1>3
  <2>3. QED
    BY <2>1, <2>2 DEF Outsells
<1>5. QED
  BY <1>3, <1>4

LEMMA FirstAlike ==
    ASSUME NEW a, NEW n, AmountTable(a, n), NEW S \in SUBSET (1..n), NEW s \in S
    PROVE  \E m \in S : a[m] = a[s] /\ \A t \in S : a[t] = a[s] => m <= t
<1> DEFINE V == {t \in S : a[t] = a[s]}
<1>1. V \in SUBSET Nat /\ V # {}
  BY DEF AmountTable
<1>2. PICK v \in V : \A w \in V : v <= w
  BY <1>1, SmallestOf
<1>3. QED
  BY <1>2

\* Those within a limit are the first of the ranking, their amount is within
\* the limit, and it is no more so with another of the best that are left.
LEMMA WithinFills ==
    ASSUME NEW a, NEW n, AmountTable(a, n), NEW limit \in Nat
    PROVE  /\ 100 * Total(a, Within(a, 1..n, limit)) <= limit
           /\ \A s \in 1..n \ Within(a, 1..n, limit) :
                a[s] > 0 /\ (\A t \in 1..n \ Within(a, 1..n, limit) : a[t] <= a[s])
                  => 100 * (Total(a, Within(a, 1..n, limit)) + a[s]) > limit
<1> DEFINE K == 1..n
           W == Within(a, K, limit)
           Run(s) == Total(a, UpTo(a, K, s))
<1>1. n \in Nat /\ IsFiniteSet(K) /\ \A x \in K : a[x] \in Nat /\ x \in Nat
  <2>1. n \in Nat /\ 1 \in Int /\ n \in Int
    BY DEF AmountTable
  <2>2. IsFiniteSet(K)
    BY <2>1, FS_Interval
  <2>3. QED
    BY <2>1, <2>2 DEF AmountTable, Nats
<1>2. \A s \in K : s \in W <=> a[s] > 0 /\ 100 * Run(s) <= limit
  BY DEF Within
<1>3. \A s \in K : /\ UpTo(a, K, s) \in SUBSET K /\ IsFiniteSet(UpTo(a, K, s))
                   /\ Run(s) \in Nat /\ Ints(a, UpTo(a, K, s))
  <2>1. \A s \in K : UpTo(a, K, s) \in SUBSET K
    BY DEF UpTo
  <2>2. \A s \in K : IsFiniteSet(UpTo(a, K, s))
    BY <1>1, <2>1, FS_Subset
  <2>3. \A s \in K : Nats(a, UpTo(a, K, s)) /\ Ints(a, UpTo(a, K, s))
    BY <1>1, <2>1 DEF Nats, Ints
  <2>4. \A s \in K : Run(s) \in Nat
    BY <2>2, <2>3, TotalType
  <2>5. QED
    BY <2>1, <2>2, <2>3, <2>4
<1>4. ASSUME NEW s \in W, NEW t \in K, Outsells(a, t, s)
      PROVE  t \in W
  <2>1. s \in K
    BY DEF Within
  <2>2. Run(t) <= Run(s)
    BY <1>4, <2>1, RunningGrows
  <2>3. a[t] > 0
    BY <1>1, <1>2, <1>4, <2>1 DEF Outsells
  <2>4. Run(t) \in Nat /\ Run(s) \in Nat /\ 100 * Run(s) <= limit
    BY <1>2, <1>3, <2>1
  <2>5. 100 * Run(t) <= limit
    BY <2>2, <2>4
  <2>6. QED
    BY <1>2, <2>3, <2>5
<1>5. W \in SUBSET K
  BY DEF Within
<1> HIDE DEF K, W, Run
<1>6. 100 * Total(a, W) <= limit
  <2>1. CASE W = {}
    BY <2>1, TotalOfNone
  <2>2. CASE W # {}
    <3>1. PICK m \in W : \A t \in W : t = m \/ Outsells(a, t, m)
      BY <1>5, <2>2, LastRanked DEF K
    <3>2. W = UpTo(a, K, m)
      BY <1>4, <1>5, <3>1 DEF UpTo
    <3>3. Total(a, W) = Run(m)
      BY <3>2 DEF Run
    <3>4. QED
      BY <1>2, <1>5, <3>3
  <2>3. QED
    BY <2>1, <2>2
<1>7. ASSUME NEW s \in K \ W, a[s] > 0, \A t \in K \ W : a[t] <= a[s]
      PROVE  100 * (Total(a, W) + a[s]) > limit
  <2>1. PICK m \in K \ W : a[m] = a[s] /\ \A t \in K \ W : a[t] = a[s] => m <= t
    <3>1. K \ W \in SUBSET (1..n)
      BY DEF K
    <3>2. QED
      BY <3>1, FirstAlike
  <2>2. ASSUME NEW t \in K
        PROVE  t \in W <=> Outsells(a, t, m)
    <3>1. a[t] \in Nat /\ a[m] \in Nat /\ t \in Nat /\ m \in Nat
      BY <1>1, <2>1
    <3>2. CASE t \in W
      <4>1. ~Outsells(a, m, t) /\ t # m
        BY <1>4, <2>1, <3>2
      <4>2. QED
        BY <3>1, <3>2, <4>1 DEF Outsells
    <3>3. CASE t \notin W
      <4>1. a[t] <= a[m] /\ (a[t] = a[m] => m <= t)
        BY <1>7, <2>1, <3>3
      <4>2. ~Outsells(a, t, m)
        BY <3>1, <4>1 DEF Outsells
      <4>3. QED
        BY <3>3, <4>2
    <3>4. QED
      BY <3>2, <3>3
  <2> DEFINE U == UpTo(a, K, m)
  <2>3. U \ {m} = W /\ m \in U
    <3>1. m \in U
      BY <2>1 DEF UpTo
    <3>2. \A t \in K : t \in U <=> t = m \/ t \in W
      BY <2>2 DEF UpTo
    <3>3. U \in SUBSET K /\ m \notin W
      BY <1>3, <2>1
    <3>4. QED
      BY <1>5, <3>1, <3>2, <3>3
  <2>4. /\ Total(a, U) = a[m] + Total(a, U \ {m})
        /\ Total(a, U \ {m}) \in Int /\ a[m] \in Int
    BY <1>3, <2>1, <2>3, TotalTake
  <2>5. Run(m) = a[s] + Total(a, W) /\ Total(a, W) \in Int /\ a[s] \in Int
    BY <2>1, <2>3, <2>4 DEF Run
  <2>6. ~(100 * Run(m) <= limit)
    BY <1>2, <1>7, <2>1
  <2>7. QED
    BY <2>5, <2>6
<1>8. QED
  BY <1>6, <1>7 DEF K, W

-----------------------------------------------------------------------------
(***************************************************************************)
(* The calculators: the inductive invariant                                *)
(***************************************************************************)

Stages == {"replayed", "kpi", "abc", "repl", "fcst", "done"}

Shape == /\ \E n \in Nat : sheets \in [1..n -> Sheet]
         /\ asked \in Question
         /\ stage \in Stages

\* What a calculator has concluded stays as it was.
Stands(new) == \A f \in DOMAIN new : f \in DOMAIN figures /\ figures[f] = new[f]

FiguresInv ==
    /\ stage # "replayed" => Stands(KpiFigures)
    /\ stage \notin {"replayed", "kpi"} => Stands(AbcAgingFigures)
    /\ stage \notin {"replayed", "kpi", "abc"} => Stands(ReplFigures)
    /\ stage \in {"fcst", "done"} => Stands(ForecastFigures)
    /\ stage = "done" => /\ "DEVIATION" \in DOMAIN figures
                         /\ figures["DEVIATION"].null => figures["DEVIATION"].reason # None

\* A warning names the SKUs its calculator has left out, and no others.
WarnedInv ==
    /\ Named("UNIT_COST_MISSING") = IF stage = "replayed" THEN {} ELSE CostWarned
    /\ Named("NO_OUTFLOW") = IF stage \in {"replayed", "kpi"} THEN {}
                             ELSE {s \in SkuIds : Amount(s) = 0}
    /\ Named("DATE_MISSING") = IF stage \in {"replayed", "kpi"} THEN {} ELSE Undated
    /\ Named("PARAM_MISSING") = IF stage \in {"replayed", "kpi", "abc"} THEN {}
                                ELSE Unparameterised
    /\ <<"BENCHMARK_UNAVAILABLE", 0>> \in warned
          <=> stage = "done" /\ figures["DEVIATION"].null

AnalyticsIInv == Shape /\ FiguresInv /\ WarnedInv

\* What the calculators draw on does not change.
LEMMA NothingMoves ==
    ASSUME sheets' = sheets, asked' = asked
    PROVE  UNCHANGED <<SkuIds, KpiFigures, AbcAgingFigures, ReplFigures, ForecastFigures,
                       CostWarned, {s \in SkuIds : Amount(s) = 0}, Undated,
                       Unparameterised>>
<1>1. SkuIds' = SkuIds /\ CostWarned' = CostWarned /\ Undated' = Undated
  BY DEF SkuIds, CostWarned, Unpriced, Undated, InStock
<1>2. Unparameterised' = Unparameterised
  BY DEF Unparameterised, SkuIds, LeadTime
<1>3. {s \in SkuIds : Amount(s) = 0}' = {s \in SkuIds : Amount(s) = 0}
  BY DEF SkuIds, Amount, OutQty, Period0
<1>4. KpiFigures' = KpiFigures
  BY DEF KpiFigures, OpeningValue, ClosingValue, CogsTotal, ClosingTotal, OutTotal,
         ActiveBase, OutQty, Period0, SkuIds, Sum, InStock, ValueOf
<1>5. AbcAgingFigures' = AbcAgingFigures
  BY DEF AbcAgingFigures, AmountTotal, Amount, OutQty, Period0, SkuIds, Sum,
         AgingRows, Aged, InStock, NotStale, QuietDays
<1>6. ReplFigures' = ReplFigures
  BY DEF ReplFigures, SkuIds, Unparameterised, LeadTime
<1>7. ForecastFigures' = ForecastFigures
  BY DEF ForecastFigures, Scored, Pooled, Forecast, SkuIds, Weeks, WeekOf, Period0,
         Demand, Past, WeekBegins
<1>8. QED
  BY <1>1, <1>2, <1>3, <1>4, <1>5, <1>6, <1>7

\* What a step concludes, and what it leaves.
LEMMA Concluding ==
    ASSUME NEW from, NEW to, NEW new, NEW found, Conclude(from, to, new, found)
    PROVE  /\ stage = from /\ stage' = to /\ sheets' = sheets /\ asked' = asked
           /\ \A f \in DOMAIN new : f \in DOMAIN figures' /\ figures'[f] = new[f]
           /\ \A f \in DOMAIN figures \ DOMAIN new :
                 f \in DOMAIN figures' /\ figures'[f] = figures[f]
           /\ \A code : Named(code)' = Named(code)
                           \union {s \in SkuIds : <<code, s>> \in found}
           /\ warned' = warned \union found
<1>1. /\ stage = from /\ stage' = to /\ sheets' = sheets /\ asked' = asked
      /\ figures' = [f \in DOMAIN figures \union DOMAIN new |->
                        IF f \in DOMAIN new THEN new[f] ELSE figures[f]]
      /\ warned' = warned \union found
  BY DEF Conclude
<1>2. QED
  BY <1>1 DEF Named, SkuIds

-----------------------------------------------------------------------------
\* A figure is null for one of the reasons listed, or given.
LEMMA UnlessCases ==
    ASSUME NEW n, NEW bars, NEW m \in Nat, DOMAIN bars = 1..m
    PROVE  \/ /\ \A i \in 1..m : ~bars[i].holds
              /\ Unless(n, bars) = Given(n)
           \/ \E i \in 1..m : /\ bars[i].holds
                              /\ \A j \in 1..m : j < i => ~bars[j].holds
                              /\ Unless(n, bars) = Null(bars[i].n, bars[i].why)
<1> DEFINE hit == {i \in DOMAIN bars : bars[i].holds}
<1>1. CASE hit = {}
  BY <1>1 DEF Unless
<1>2. CASE hit # {}
  <2>1. hit \in SUBSET Nat /\ hit \in SUBSET (1..m)
    OBVIOUS
  <2>2. \E i \in hit : \A j \in hit : i <= j
    BY <1>2, <2>1, SmallestOf
  <2>3. Least(hit) \in hit /\ \A j \in hit : Least(hit) <= j
    BY <2>2 DEF Least
  <2> DEFINE i == Least(hit)
  <2>4. Unless(n, bars) = Null(bars[i].n, bars[i].why)
    BY <1>2 DEF Unless
  <2> HIDE DEF i
  <2>5. i \in 1..m /\ bars[i].holds /\ \A j \in 1..m : bars[j].holds => i <= j
    BY <2>1, <2>3 DEF i
  <2>6. \A j \in 1..m : j < i => ~bars[j].holds
    BY <2>5
  <2>7. QED
    BY <2>4, <2>5, <2>6
<1>3. QED
  BY <1>1, <1>2

LEMMA DomainsApart ==
    /\ DOMAIN KpiFigures = KpiNames
    /\ DOMAIN AbcAgingFigures = {"CLASSIFIED", "AVG_AGE", "STALE_AMOUNT"}
    /\ DOMAIN ReplFigures = ReplNames
    /\ DOMAIN ForecastFigures = {"NEXT_WEEK", "MAPE"}
<1>1. DOMAIN KpiFigures = KpiNames
  BY DEF KpiFigures
<1>2. DOMAIN AbcAgingFigures = {"CLASSIFIED", "AVG_AGE", "STALE_AMOUNT"}
  BY DEF AbcAgingFigures
<1>3. DOMAIN ReplFigures = ReplNames
  BY DEF ReplFigures
<1>4. DOMAIN ForecastFigures = {"NEXT_WEEK", "MAPE"}
  BY DEF ForecastFigures
<1>5. QED
  BY <1>1, <1>2, <1>3, <1>4

\* A null figure has a reason.
Reasoned(figure) == figure.null => figure.reason # None

LEMMA GivenReasoned ==
    ASSUME NEW n
    PROVE  ~Given(n).null /\ Given(n).count = n /\ Given(n).reason = None
BY DEF Given

LEMMA NullReasoned ==
    ASSUME NEW n, NEW why
    PROVE  Null(n, why).null /\ Null(n, why).count = n /\ Null(n, why).reason = why
BY DEF Null

LEMMA OneBar ==
    ASSUME NEW n, NEW c1, NEW n1, NEW why1
    PROVE  Unless(n, <<Bar(c1, n1, why1)>>) = IF c1 THEN Null(n1, why1) ELSE Given(n)
<1> DEFINE bars == <<Bar(c1, n1, why1)>>
<1>1. DOMAIN bars = 1..1 /\ bars[1] = Bar(c1, n1, why1) /\ 1..1 = {1}
  OBVIOUS
<1>2. bars[1].holds = c1 /\ bars[1].n = n1 /\ bars[1].why = why1
  BY <1>1 DEF Bar
<1> HIDE DEF bars
<1>3. \/ ~bars[1].holds /\ Unless(n, bars) = Given(n)
      \/ bars[1].holds /\ Unless(n, bars) = Null(bars[1].n, bars[1].why)
  <2>1. \/ (\A i \in 1..1 : ~bars[i].holds) /\ Unless(n, bars) = Given(n)
        \/ \E i \in 1..1 : /\ bars[i].holds
                           /\ \A j \in 1..1 : j < i => ~bars[j].holds
                           /\ Unless(n, bars) = Null(bars[i].n, bars[i].why)
    BY <1>1, UnlessCases
  <2>2. QED
    BY <1>1, <2>1
<1>4. QED
  BY <1>2, <1>3 DEF bars

LEMMA TwoBars ==
    ASSUME NEW n, NEW c1, NEW n1, NEW why1, NEW c2, NEW n2, NEW why2
    PROVE  Unless(n, <<Bar(c1, n1, why1), Bar(c2, n2, why2)>>)
              = IF c1 THEN Null(n1, why1) ELSE IF c2 THEN Null(n2, why2) ELSE Given(n)
<1> DEFINE bars == <<Bar(c1, n1, why1), Bar(c2, n2, why2)>>
<1>1. /\ DOMAIN bars = 1..2 /\ 1..2 = {1, 2}
      /\ bars[1] = Bar(c1, n1, why1) /\ bars[2] = Bar(c2, n2, why2)
  OBVIOUS
<1>2. /\ bars[1].holds = c1 /\ bars[1].n = n1 /\ bars[1].why = why1
      /\ bars[2].holds = c2 /\ bars[2].n = n2 /\ bars[2].why = why2
  BY <1>1 DEF Bar
<1> HIDE DEF bars
<1>3. \/ ~bars[1].holds /\ ~bars[2].holds /\ Unless(n, bars) = Given(n)
      \/ bars[1].holds /\ Unless(n, bars) = Null(bars[1].n, bars[1].why)
      \/ ~bars[1].holds /\ bars[2].holds /\ Unless(n, bars) = Null(bars[2].n, bars[2].why)
  <2>1. \/ (\A i \in 1..2 : ~bars[i].holds) /\ Unless(n, bars) = Given(n)
        \/ \E i \in 1..2 : /\ bars[i].holds
                           /\ \A j \in 1..2 : j < i => ~bars[j].holds
                           /\ Unless(n, bars) = Null(bars[i].n, bars[i].why)
    BY <1>1, UnlessCases
  <2>2. 1 \in 1..2 /\ 2 \in 1..2 /\ 1 < 2
    OBVIOUS
  <2>3. QED
    BY <1>1, <2>1, <2>2
<1>4. QED
  BY <1>2, <1>3 DEF bars

LEMMA ThreeBars ==
    ASSUME NEW n, NEW c1, NEW n1, NEW why1, NEW c2, NEW n2, NEW why2,
           NEW c3, NEW n3, NEW why3
    PROVE  Unless(n, <<Bar(c1, n1, why1), Bar(c2, n2, why2), Bar(c3, n3, why3)>>)
              = IF c1 THEN Null(n1, why1) ELSE IF c2 THEN Null(n2, why2)
                ELSE IF c3 THEN Null(n3, why3) ELSE Given(n)
<1> DEFINE bars == <<Bar(c1, n1, why1), Bar(c2, n2, why2), Bar(c3, n3, why3)>>
<1>1. /\ DOMAIN bars = 1..3 /\ 1..3 = {1, 2, 3}
      /\ bars[1] = Bar(c1, n1, why1) /\ bars[2] = Bar(c2, n2, why2)
      /\ bars[3] = Bar(c3, n3, why3)
  OBVIOUS
<1>2. /\ bars[1].holds = c1 /\ bars[1].n = n1 /\ bars[1].why = why1
      /\ bars[2].holds = c2 /\ bars[2].n = n2 /\ bars[2].why = why2
      /\ bars[3].holds = c3 /\ bars[3].n = n3 /\ bars[3].why = why3
  BY <1>1 DEF Bar
<1> HIDE DEF bars
<1>3. \/ ~bars[1].holds /\ ~bars[2].holds /\ ~bars[3].holds /\ Unless(n, bars) = Given(n)
      \/ bars[1].holds /\ Unless(n, bars) = Null(bars[1].n, bars[1].why)
      \/ ~bars[1].holds /\ bars[2].holds /\ Unless(n, bars) = Null(bars[2].n, bars[2].why)
      \/ /\ ~bars[1].holds /\ ~bars[2].holds /\ bars[3].holds
         /\ Unless(n, bars) = Null(bars[3].n, bars[3].why)
  <2>1. \/ (\A i \in 1..3 : ~bars[i].holds) /\ Unless(n, bars) = Given(n)
        \/ \E i \in 1..3 : /\ bars[i].holds
                           /\ \A j \in 1..3 : j < i => ~bars[j].holds
                           /\ Unless(n, bars) = Null(bars[i].n, bars[i].why)
    BY <1>1, UnlessCases
  <2>2. 1 \in 1..3 /\ 2 \in 1..3 /\ 3 \in 1..3 /\ 1 < 2 /\ 2 < 3 /\ 1 < 3
    OBVIOUS
  <2>3. QED
    BY <1>1, <2>1, <2>2
<1>4. QED
  BY <1>2, <1>3 DEF bars

LEMMA ReasonIsGiven ==
    /\ None # "empty_dataset" /\ None # "avg_inventory_value_nonpositive"
    /\ None # "turnover_nonpositive" /\ None # "nonpositive_closing"
    /\ None # "zero_period_days" /\ None # "no_outflow" /\ None # "zero_total_amount"
    /\ None # "no_closing_stock" /\ None # "param_missing"
    /\ None # "empty_forecast_window" /\ None # "zero_actual_demand"
    /\ None # "benchmark_unavailable" /\ None # "zero_benchmark_value"
BY AnalyticsAssumption DEF Reasons

\* The calculators give a reason for each figure they leave null.
LEMMA KpiReasoned == \A f \in KpiNames : Reasoned(KpiFigures[f])
<1> DEFINE n == Len(sheets)
           bar1 == OpeningValue + ClosingValue <= 0
           bar2 == CogsTotal <= 0
           bar3 == ActiveBase = {}
           bar4 == ClosingTotal <= 0
           bar5 == asked.days = 0
           bar6 == OutTotal <= 0
           turnover == Unless(n, <<Bar(bar1, n, "avg_inventory_value_nonpositive"),
                                   Bar(bar2, n, "turnover_nonpositive")>>)
           active == Unless(Cardinality(ActiveBase), <<Bar(bar3, 0, "empty_dataset")>>)
           coverage == Unless(n, <<Bar(bar4, n, "nonpositive_closing"),
                                   Bar(bar5, n, "zero_period_days"),
                                   Bar(bar6, n, "no_outflow")>>)
<1>1. \A f \in KpiNames : KpiFigures[f] \in {turnover, active, coverage, Given(n)}
  BY DEF KpiFigures
<1> HIDE DEF bar1, bar2, bar3, bar4, bar5, bar6
<1>2. Reasoned(turnover)
  <2>1. turnover = IF bar1 THEN Null(n, "avg_inventory_value_nonpositive")
                   ELSE IF bar2 THEN Null(n, "turnover_nonpositive") ELSE Given(n)
    BY TwoBars
  <2>2. QED
    BY <2>1, ReasonIsGiven, GivenReasoned, NullReasoned DEF Reasoned
<1>3. Reasoned(active)
  <2>1. active = IF bar3 THEN Null(0, "empty_dataset") ELSE Given(Cardinality(ActiveBase))
    BY OneBar
  <2>2. QED
    BY <2>1, ReasonIsGiven, GivenReasoned, NullReasoned DEF Reasoned
<1>4. Reasoned(coverage)
  <2>1. coverage = IF bar4 THEN Null(n, "nonpositive_closing")
                   ELSE IF bar5 THEN Null(n, "zero_period_days")
                   ELSE IF bar6 THEN Null(n, "no_outflow") ELSE Given(n)
    BY ThreeBars
  <2>2. QED
    BY <2>1, ReasonIsGiven, GivenReasoned, NullReasoned DEF Reasoned
<1>5. Reasoned(Given(n))
  BY GivenReasoned DEF Reasoned
<1> HIDE DEF turnover, active, coverage
<1>6. QED
  BY <1>1, <1>2, <1>3, <1>4, <1>5

LEMMA AbcAgingReasoned ==
    /\ \A f \in {"CLASSIFIED", "AVG_AGE", "STALE_AMOUNT"} : Reasoned(AbcAgingFigures[f])
    /\ AbcAgingFigures["AVG_AGE"].count = IF Aged = {} THEN 0 ELSE AgingRows
    /\ AbcAgingFigures["CLASSIFIED"].reason # None <=> AmountTotal = 0 /\ sheets # << >>
<1>1. /\ Reasoned(AbcAgingFigures["AVG_AGE"])
      /\ AbcAgingFigures["AVG_AGE"].count = IF Aged = {} THEN 0 ELSE AgingRows
  <2> DEFINE none == Aged = {}
             age == Unless(AgingRows, <<Bar(none, 0, "no_closing_stock")>>)
  <2>1. AbcAgingFigures["AVG_AGE"] = age
    BY DEF AbcAgingFigures
  <2> HIDE DEF none
  <2>2. age = IF none THEN Null(0, "no_closing_stock") ELSE Given(AgingRows)
    BY OneBar
  <2> HIDE DEF age
  <2>3. Reasoned(age) /\ age.count = IF none THEN 0 ELSE AgingRows
    BY <2>2, ReasonIsGiven, GivenReasoned, NullReasoned DEF Reasoned
  <2>4. QED
    BY <2>1, <2>3 DEF none
<1>2. ~AbcAgingFigures["STALE_AMOUNT"].null
  BY GivenReasoned DEF AbcAgingFigures
<1>3. /\ ~AbcAgingFigures["CLASSIFIED"].null
      /\ AbcAgingFigures["CLASSIFIED"].reason =
            IF AmountTotal = 0 /\ sheets # << >> THEN "zero_total_amount" ELSE None
  BY DEF AbcAgingFigures, Given
<1>4. QED
  BY <1>1, <1>2, <1>3, ReasonIsGiven DEF Reasoned

LEMMA ReplReasoned ==
    /\ SkuIds # {} => \A f \in ReplNames : Reasoned(ReplFigures[f])
    /\ asked.days # 0 =>
          \A f \in ReplNames :
             ReplFigures[f].count = IF SkuIds \ Unparameterised = {} THEN 0
                                    ELSE Cardinality(SkuIds \ Unparameterised)
<1> DEFINE computed == IF asked.days = 0 THEN {} ELSE SkuIds \ Unparameterised
           bar1 == SkuIds = {}
           bar2 == asked.days = 0
           bar3 == computed = {}
           given == Unless(Cardinality(computed),
                           <<Bar(bar1, 0, None), Bar(bar2, 0, "zero_period_days"),
                             Bar(bar3, 0, "param_missing")>>)
<1>1. \A f \in ReplNames : ReplFigures[f] = given
  BY DEF ReplFigures
<1>2. /\ (bar1 <=> SkuIds = {}) /\ (bar2 <=> asked.days = 0)
      /\ (bar3 <=> computed = {}) /\ (SkuIds = {} => computed = {})
  OBVIOUS
<1> HIDE DEF bar1, bar2, bar3
<1>3. given = IF bar1 THEN Null(0, None) ELSE IF bar2 THEN Null(0, "zero_period_days")
              ELSE IF bar3 THEN Null(0, "param_missing") ELSE Given(Cardinality(computed))
  BY ThreeBars
<1> HIDE DEF given
<1>4. SkuIds # {} => Reasoned(given)
  BY <1>2, <1>3, ReasonIsGiven, GivenReasoned, NullReasoned DEF Reasoned
<1>5. given.count = IF asked.days = 0 \/ computed = {} THEN 0 ELSE Cardinality(computed)
  BY <1>2, <1>3, GivenReasoned, NullReasoned
<1>6. QED
  BY <1>1, <1>4, <1>5

LEMMA ForecastReasoned ==
    /\ \A f \in {"NEXT_WEEK", "MAPE"} : Reasoned(ForecastFigures[f])
    /\ ForecastFigures["NEXT_WEEK"].count =
          IF Forecast = {} THEN 0 ELSE Cardinality(Forecast)
<1> DEFINE bar1 == Forecast = {}
           bar2 == Pooled = {}
           bar3 == Scored = {}
           next == Unless(Cardinality(Forecast), <<Bar(bar1, 0, "empty_dataset")>>)
           mape == Unless(Cardinality(Scored), <<Bar(bar2, 0, "empty_forecast_window"),
                                                 Bar(bar3, 0, "zero_actual_demand")>>)
<1>1. ForecastFigures["NEXT_WEEK"] = next /\ ForecastFigures["MAPE"] = mape
  BY DEF ForecastFigures
<1>2. bar1 <=> Forecast = {}
  OBVIOUS
<1> HIDE DEF bar1, bar2, bar3
<1>3. next = IF bar1 THEN Null(0, "empty_dataset") ELSE Given(Cardinality(Forecast))
  BY OneBar
<1>4. mape = IF bar2 THEN Null(0, "empty_forecast_window")
             ELSE IF bar3 THEN Null(0, "zero_actual_demand") ELSE Given(Cardinality(Scored))
  BY TwoBars
<1> HIDE DEF next, mape
<1>5. Reasoned(next) /\ next.count = IF Forecast = {} THEN 0 ELSE Cardinality(Forecast)
  BY <1>2, <1>3, ReasonIsGiven, GivenReasoned, NullReasoned DEF Reasoned
<1>6. Reasoned(mape)
  BY <1>4, ReasonIsGiven, GivenReasoned, NullReasoned DEF Reasoned
<1>7. QED
  BY <1>1, <1>5, <1>6

LEMMA BenchmarkReasoned == Reasoned(BenchmarkFigure)
<1> DEFINE bar1 == Compared = {}
           bar2 == Deviating = {}
           figure == Unless(Cardinality(Deviating), <<Bar(bar1, 0, "benchmark_unavailable"),
                                                      Bar(bar2, 0, "zero_benchmark_value")>>)
<1>1. BenchmarkFigure = figure
  BY DEF BenchmarkFigure
<1> HIDE DEF bar1, bar2
<1>2. figure = IF bar1 THEN Null(0, "benchmark_unavailable")
               ELSE IF bar2 THEN Null(0, "zero_benchmark_value")
               ELSE Given(Cardinality(Deviating))
  BY TwoBars
<1> HIDE DEF figure
<1>3. QED
  BY <1>1, <1>2, ReasonIsGiven, GivenReasoned, NullReasoned DEF Reasoned

-----------------------------------------------------------------------------
(***************************************************************************)
(* The calculators: their steps                                            *)
(***************************************************************************)

\* The SKUs a set of warnings names under a code.
LEMMA NamingNames ==
    ASSUME NEW code, NEW S \in SUBSET SkuIds
    PROVE  /\ {s \in SkuIds : <<code, s>> \in Naming(code, S)} = S
           /\ \A other : other # code =>
                 /\ {s \in SkuIds : <<other, s>> \in Naming(code, S)} = {}
                 /\ <<other, 0>> \notin Naming(code, S)
BY DEF Naming

LEMMA ShapeKept ==
    ASSUME Shape, sheets' = sheets, asked' = asked, stage' \in Stages
    PROVE  Shape'
BY DEF Shape

LEMMA KpiStep ==
    ASSUME AnalyticsIInv, Kpi
    PROVE  AnalyticsIInv'
<1> DEFINE found == Naming("UNIT_COST_MISSING", CostWarned)
<1>1. Conclude("replayed", "kpi", KpiFigures, found)
  BY DEF Kpi
<1> HIDE DEF found
<1>2. /\ stage = "replayed" /\ stage' = "kpi" /\ sheets' = sheets /\ asked' = asked
      /\ \A f \in DOMAIN KpiFigures : f \in DOMAIN figures' /\ figures'[f] = KpiFigures[f]
      /\ \A code : Named(code)' = Named(code) \union {s \in SkuIds : <<code, s>> \in found}
      /\ warned' = warned \union found
  BY <1>1, Concluding
<1>3. UNCHANGED <<SkuIds, KpiFigures, CostWarned>>
  BY <1>2, NothingMoves
<1>4. Shape'
  BY <1>2, ShapeKept DEF AnalyticsIInv, Stages
<1>5. FiguresInv'
  BY <1>2, <1>3 DEF FiguresInv, Stands
<1>6. WarnedInv'
  <2>1. CostWarned \in SUBSET SkuIds
    BY DEF CostWarned, Unpriced
  <2>2. /\ {s \in SkuIds : <<"UNIT_COST_MISSING", s>> \in found} = CostWarned
        /\ {s \in SkuIds : <<"NO_OUTFLOW", s>> \in found} = {}
        /\ {s \in SkuIds : <<"DATE_MISSING", s>> \in found} = {}
        /\ {s \in SkuIds : <<"PARAM_MISSING", s>> \in found} = {}
        /\ <<"BENCHMARK_UNAVAILABLE", 0>> \notin found
    BY <2>1, NamingNames DEF found
  <2>3. /\ Named("UNIT_COST_MISSING") = {} /\ Named("NO_OUTFLOW") = {}
        /\ Named("DATE_MISSING") = {} /\ Named("PARAM_MISSING") = {}
        /\ <<"BENCHMARK_UNAVAILABLE", 0>> \notin warned
    BY <1>2 DEF AnalyticsIInv, WarnedInv
  <2>4. /\ Named("UNIT_COST_MISSING")' = CostWarned' /\ Named("NO_OUTFLOW")' = {}
        /\ Named("DATE_MISSING")' = {} /\ Named("PARAM_MISSING")' = {}
    BY <1>2, <1>3, <2>2, <2>3
  <2>5. <<"BENCHMARK_UNAVAILABLE", 0>> \notin warned'
    BY <1>2, <2>2, <2>3
  <2>6. QED
    BY <1>2, <2>4, <2>5 DEF WarnedInv
<1>7. QED
  BY <1>4, <1>5, <1>6 DEF AnalyticsIInv

LEMMA AbcAgingStep ==
    ASSUME AnalyticsIInv, AbcAging
    PROVE  AnalyticsIInv'
<1> DEFINE unsold == {s \in SkuIds : Amount(s) = 0}
           found == Naming("NO_OUTFLOW", unsold) \union Naming("DATE_MISSING", Undated)
<1>1. Conclude("kpi", "abc", AbcAgingFigures, found)
  BY DEF AbcAging
<1>2. UNCHANGED <<sheets, asked>>
  BY <1>1 DEF Conclude
<1>3. UNCHANGED <<SkuIds, KpiFigures, AbcAgingFigures, CostWarned, unsold, Undated>>
  BY <1>2, NothingMoves
<1> HIDE DEF unsold, found
<1>4. /\ stage = "kpi" /\ stage' = "abc"
      /\ \A f \in DOMAIN AbcAgingFigures :
            f \in DOMAIN figures' /\ figures'[f] = AbcAgingFigures[f]
      /\ \A f \in DOMAIN figures \ DOMAIN AbcAgingFigures :
            f \in DOMAIN figures' /\ figures'[f] = figures[f]
      /\ \A code : Named(code)' = Named(code) \union {s \in SkuIds : <<code, s>> \in found}
      /\ warned' = warned \union found
  BY <1>1, Concluding
<1>5. Shape'
  BY <1>2, <1>4, ShapeKept DEF AnalyticsIInv, Stages
<1>6. FiguresInv'
  <2>1. Stands(KpiFigures)
    BY <1>4 DEF AnalyticsIInv, FiguresInv
  <2>2. DOMAIN KpiFigures \cap DOMAIN AbcAgingFigures = {}
    BY DomainsApart DEF KpiNames
  <2>3. \A f \in DOMAIN KpiFigures : f \in DOMAIN figures' /\ figures'[f] = KpiFigures[f]
    BY <1>4, <2>1, <2>2 DEF Stands
  <2>4. Stands(KpiFigures)' /\ Stands(AbcAgingFigures)'
    BY <1>3, <1>4, <2>3 DEF Stands
  <2>5. QED
    BY <1>4, <2>4 DEF FiguresInv
<1>7. WarnedInv'
  <2>1. unsold \in SUBSET SkuIds /\ Undated \in SUBSET SkuIds
    BY DEF unsold, Undated
  <2>2. /\ {s \in SkuIds : <<"UNIT_COST_MISSING", s>> \in found} = {}
        /\ {s \in SkuIds : <<"NO_OUTFLOW", s>> \in found} = unsold
        /\ {s \in SkuIds : <<"DATE_MISSING", s>> \in found} = Undated
        /\ {s \in SkuIds : <<"PARAM_MISSING", s>> \in found} = {}
        /\ <<"BENCHMARK_UNAVAILABLE", 0>> \notin found
    BY <2>1 DEF Naming, found
  <2>3. /\ Named("UNIT_COST_MISSING") = CostWarned /\ Named("NO_OUTFLOW") = {}
        /\ Named("DATE_MISSING") = {} /\ Named("PARAM_MISSING") = {}
        /\ <<"BENCHMARK_UNAVAILABLE", 0>> \notin warned
    BY <1>4 DEF AnalyticsIInv, WarnedInv
  <2>4. /\ Named("UNIT_COST_MISSING")' = CostWarned' /\ Named("NO_OUTFLOW")' = unsold'
        /\ Named("DATE_MISSING")' = Undated' /\ Named("PARAM_MISSING")' = {}
    BY <1>3, <1>4, <2>2, <2>3
  <2>5. <<"BENCHMARK_UNAVAILABLE", 0>> \notin warned'
    BY <1>4, <2>2, <2>3
  <2>6. QED
    BY <1>4, <2>4, <2>5 DEF WarnedInv, unsold
<1>8. QED
  BY <1>5, <1>6, <1>7 DEF AnalyticsIInv

LEMMA ReplenishStep ==
    ASSUME AnalyticsIInv, Replenish
    PROVE  AnalyticsIInv'
<1> DEFINE unsold == {s \in SkuIds : Amount(s) = 0}
           found == Naming("PARAM_MISSING", Unparameterised)
<1>1. Conclude("abc", "repl", ReplFigures, found)
  BY DEF Replenish
<1>2. UNCHANGED <<sheets, asked>>
  BY <1>1 DEF Conclude
<1>3. UNCHANGED <<SkuIds, KpiFigures, AbcAgingFigures, ReplFigures, CostWarned, unsold,
                  Undated, Unparameterised>>
  BY <1>2, NothingMoves
<1> HIDE DEF unsold, found
<1>4. /\ stage = "abc" /\ stage' = "repl"
      /\ \A f \in DOMAIN ReplFigures : f \in DOMAIN figures' /\ figures'[f] = ReplFigures[f]
      /\ \A f \in DOMAIN figures \ DOMAIN ReplFigures :
            f \in DOMAIN figures' /\ figures'[f] = figures[f]
      /\ \A code : Named(code)' = Named(code) \union {s \in SkuIds : <<code, s>> \in found}
      /\ warned' = warned \union found
  BY <1>1, Concluding
<1>5. Shape'
  BY <1>2, <1>4, ShapeKept DEF AnalyticsIInv, Stages
<1>6. FiguresInv'
  <2>1. Stands(KpiFigures) /\ Stands(AbcAgingFigures)
    BY <1>4 DEF AnalyticsIInv, FiguresInv
  <2>2. /\ DOMAIN KpiFigures \cap DOMAIN ReplFigures = {}
        /\ DOMAIN AbcAgingFigures \cap DOMAIN ReplFigures = {}
    BY DomainsApart DEF KpiNames, ReplNames
  <2>3. /\ \A f \in DOMAIN KpiFigures :
              f \in DOMAIN figures' /\ figures'[f] = KpiFigures[f]
        /\ \A f \in DOMAIN AbcAgingFigures :
              f \in DOMAIN figures' /\ figures'[f] = AbcAgingFigures[f]
    BY <1>4, <2>1, <2>2 DEF Stands
  <2>4. Stands(KpiFigures)' /\ Stands(AbcAgingFigures)' /\ Stands(ReplFigures)'
    BY <1>3, <1>4, <2>3 DEF Stands
  <2>5. QED
    BY <1>4, <2>4 DEF FiguresInv
<1>7. WarnedInv'
  <2>1. Unparameterised \in SUBSET SkuIds
    BY DEF Unparameterised
  <2>2. /\ {s \in SkuIds : <<"UNIT_COST_MISSING", s>> \in found} = {}
        /\ {s \in SkuIds : <<"NO_OUTFLOW", s>> \in found} = {}
        /\ {s \in SkuIds : <<"DATE_MISSING", s>> \in found} = {}
        /\ {s \in SkuIds : <<"PARAM_MISSING", s>> \in found} = Unparameterised
        /\ <<"BENCHMARK_UNAVAILABLE", 0>> \notin found
    BY <2>1, NamingNames DEF found
  <2>3. /\ Named("UNIT_COST_MISSING") = CostWarned /\ Named("NO_OUTFLOW") = unsold
        /\ Named("DATE_MISSING") = Undated /\ Named("PARAM_MISSING") = {}
        /\ <<"BENCHMARK_UNAVAILABLE", 0>> \notin warned
    BY <1>4 DEF AnalyticsIInv, WarnedInv, unsold
  <2>4. /\ Named("UNIT_COST_MISSING")' = CostWarned' /\ Named("NO_OUTFLOW")' = unsold'
        /\ Named("DATE_MISSING")' = Undated'
        /\ Named("PARAM_MISSING")' = Unparameterised'
    BY <1>3, <1>4, <2>2, <2>3
  <2>5. <<"BENCHMARK_UNAVAILABLE", 0>> \notin warned'
    BY <1>4, <2>2, <2>3
  <2>6. QED
    BY <1>4, <2>4, <2>5 DEF WarnedInv, unsold
<1>8. QED
  BY <1>5, <1>6, <1>7 DEF AnalyticsIInv

LEMMA ForecastStep ==
    ASSUME AnalyticsIInv, ForecastDemand
    PROVE  AnalyticsIInv'
<1> DEFINE unsold == {s \in SkuIds : Amount(s) = 0}
           found == Naming("INSUFFICIENT_SAMPLES", FewSamples)
<1>1. Conclude("repl", "fcst", ForecastFigures, found)
  BY DEF ForecastDemand
<1>2. UNCHANGED <<sheets, asked>>
  BY <1>1 DEF Conclude
<1>3. UNCHANGED <<SkuIds, KpiFigures, AbcAgingFigures, ReplFigures, ForecastFigures,
                  CostWarned, unsold, Undated, Unparameterised>>
  BY <1>2, NothingMoves
<1> HIDE DEF unsold, found
<1>4. /\ stage = "repl" /\ stage' = "fcst"
      /\ \A f \in DOMAIN ForecastFigures :
            f \in DOMAIN figures' /\ figures'[f] = ForecastFigures[f]
      /\ \A f \in DOMAIN figures \ DOMAIN ForecastFigures :
            f \in DOMAIN figures' /\ figures'[f] = figures[f]
      /\ \A code : Named(code)' = Named(code) \union {s \in SkuIds : <<code, s>> \in found}
      /\ warned' = warned \union found
  BY <1>1, Concluding
<1>5. Shape'
  BY <1>2, <1>4, ShapeKept DEF AnalyticsIInv, Stages
<1>6. FiguresInv'
  <2>1. Stands(KpiFigures) /\ Stands(AbcAgingFigures) /\ Stands(ReplFigures)
    BY <1>4 DEF AnalyticsIInv, FiguresInv
  <2>2. /\ DOMAIN KpiFigures \cap DOMAIN ForecastFigures = {}
        /\ DOMAIN AbcAgingFigures \cap DOMAIN ForecastFigures = {}
        /\ DOMAIN ReplFigures \cap DOMAIN ForecastFigures = {}
    BY DomainsApart DEF KpiNames, ReplNames
  <2>3. /\ \A f \in DOMAIN KpiFigures :
              f \in DOMAIN figures' /\ figures'[f] = KpiFigures[f]
        /\ \A f \in DOMAIN AbcAgingFigures :
              f \in DOMAIN figures' /\ figures'[f] = AbcAgingFigures[f]
        /\ \A f \in DOMAIN ReplFigures :
              f \in DOMAIN figures' /\ figures'[f] = ReplFigures[f]
    BY <1>4, <2>1, <2>2 DEF Stands
  <2>4. /\ Stands(KpiFigures)' /\ Stands(AbcAgingFigures)'
        /\ Stands(ReplFigures)' /\ Stands(ForecastFigures)'
    BY <1>3, <1>4, <2>3 DEF Stands
  <2>5. QED
    BY <1>4, <2>4 DEF FiguresInv
<1>7. WarnedInv'
  <2>1. /\ {s \in SkuIds : <<"UNIT_COST_MISSING", s>> \in found} = {}
        /\ {s \in SkuIds : <<"NO_OUTFLOW", s>> \in found} = {}
        /\ {s \in SkuIds : <<"DATE_MISSING", s>> \in found} = {}
        /\ {s \in SkuIds : <<"PARAM_MISSING", s>> \in found} = {}
        /\ <<"BENCHMARK_UNAVAILABLE", 0>> \notin found
    BY DEF found, Naming
  <2>2. /\ Named("UNIT_COST_MISSING") = CostWarned /\ Named("NO_OUTFLOW") = unsold
        /\ Named("DATE_MISSING") = Undated /\ Named("PARAM_MISSING") = Unparameterised
        /\ <<"BENCHMARK_UNAVAILABLE", 0>> \notin warned
    BY <1>4 DEF AnalyticsIInv, WarnedInv, unsold
  <2>3. /\ Named("UNIT_COST_MISSING")' = CostWarned' /\ Named("NO_OUTFLOW")' = unsold'
        /\ Named("DATE_MISSING")' = Undated'
        /\ Named("PARAM_MISSING")' = Unparameterised'
    BY <1>3, <1>4, <2>1, <2>2
  <2>4. <<"BENCHMARK_UNAVAILABLE", 0>> \notin warned'
    BY <1>4, <2>1, <2>2
  <2>5. QED
    BY <1>4, <2>3, <2>4 DEF WarnedInv, unsold
<1>8. QED
  BY <1>5, <1>6, <1>7 DEF AnalyticsIInv

LEMMA CompareStep ==
    ASSUME AnalyticsIInv, Compare
    PROVE  AnalyticsIInv'
<1> DEFINE unsold == {s \in SkuIds : Amount(s) = 0}
           new == [DEVIATION |-> BenchmarkFigure]
           found == IF BenchmarkFigure.null THEN {<<"BENCHMARK_UNAVAILABLE", 0>>} ELSE {}
<1>1. Conclude("fcst", "done", new, found)
  BY DEF Compare
<1>2. UNCHANGED <<sheets, asked>>
  BY <1>1 DEF Conclude
<1>3. UNCHANGED <<SkuIds, KpiFigures, AbcAgingFigures, ReplFigures, ForecastFigures,
                  CostWarned, unsold, Undated, Unparameterised>>
  BY <1>2, NothingMoves
<1>4. DOMAIN new = {"DEVIATION"} /\ new["DEVIATION"] = BenchmarkFigure
  OBVIOUS
<1> HIDE DEF unsold, found, new
<1>5. /\ stage = "fcst" /\ stage' = "done"
      /\ \A f \in DOMAIN new : f \in DOMAIN figures' /\ figures'[f] = new[f]
      /\ \A f \in DOMAIN figures \ DOMAIN new :
            f \in DOMAIN figures' /\ figures'[f] = figures[f]
      /\ \A code : Named(code)' = Named(code) \union {s \in SkuIds : <<code, s>> \in found}
      /\ warned' = warned \union found
  BY <1>1, Concluding
<1>6. "DEVIATION" \in DOMAIN figures' /\ figures'["DEVIATION"] = BenchmarkFigure
  BY <1>4, <1>5
<1>7. Shape'
  BY <1>2, <1>5, ShapeKept DEF AnalyticsIInv, Stages
<1>8. FiguresInv'
  <2>1. /\ Stands(KpiFigures) /\ Stands(AbcAgingFigures)
        /\ Stands(ReplFigures) /\ Stands(ForecastFigures)
    BY <1>5 DEF AnalyticsIInv, FiguresInv
  <2>2. /\ "DEVIATION" \notin DOMAIN KpiFigures /\ "DEVIATION" \notin DOMAIN AbcAgingFigures
        /\ "DEVIATION" \notin DOMAIN ReplFigures /\ "DEVIATION" \notin DOMAIN ForecastFigures
    BY DomainsApart DEF KpiNames, ReplNames
  <2>3. \A f \in DOMAIN figures : f # "DEVIATION" =>
           f \in DOMAIN figures' /\ figures'[f] = figures[f]
    BY <1>4, <1>5
  <2>4. /\ \A f \in DOMAIN KpiFigures :
              f \in DOMAIN figures' /\ figures'[f] = KpiFigures[f]
        /\ \A f \in DOMAIN AbcAgingFigures :
              f \in DOMAIN figures' /\ figures'[f] = AbcAgingFigures[f]
        /\ \A f \in DOMAIN ReplFigures :
              f \in DOMAIN figures' /\ figures'[f] = ReplFigures[f]
        /\ \A f \in DOMAIN ForecastFigures :
              f \in DOMAIN figures' /\ figures'[f] = ForecastFigures[f]
    BY <2>1, <2>2, <2>3 DEF Stands
  <2>5. /\ Stands(KpiFigures)' /\ Stands(AbcAgingFigures)'
        /\ Stands(ReplFigures)' /\ Stands(ForecastFigures)'
    BY <1>3, <2>4 DEF Stands
  <2>6. figures'["DEVIATION"].null => figures'["DEVIATION"].reason # None
    BY <1>6, BenchmarkReasoned DEF Reasoned
  <2>7. QED
    BY <1>5, <1>6, <2>5, <2>6 DEF FiguresInv
<1>9. WarnedInv'
  <2>1. /\ {s \in SkuIds : <<"UNIT_COST_MISSING", s>> \in found} = {}
        /\ {s \in SkuIds : <<"NO_OUTFLOW", s>> \in found} = {}
        /\ {s \in SkuIds : <<"DATE_MISSING", s>> \in found} = {}
        /\ {s \in SkuIds : <<"PARAM_MISSING", s>> \in found} = {}
        /\ <<"BENCHMARK_UNAVAILABLE", 0>> \in found <=> BenchmarkFigure.null
    BY DEF found
  <2>2. /\ Named("UNIT_COST_MISSING") = CostWarned /\ Named("NO_OUTFLOW") = unsold
        /\ Named("DATE_MISSING") = Undated /\ Named("PARAM_MISSING") = Unparameterised
        /\ <<"BENCHMARK_UNAVAILABLE", 0>> \notin warned
    BY <1>5 DEF AnalyticsIInv, WarnedInv, unsold
  <2>3. /\ Named("UNIT_COST_MISSING")' = CostWarned' /\ Named("NO_OUTFLOW")' = unsold'
        /\ Named("DATE_MISSING")' = Undated'
        /\ Named("PARAM_MISSING")' = Unparameterised'
    BY <1>3, <1>5, <2>1, <2>2
  <2>4. <<"BENCHMARK_UNAVAILABLE", 0>> \in warned' <=> figures'["DEVIATION"].null
    BY <1>5, <1>6, <2>1, <2>2
  <2>5. QED
    BY <1>5, <2>3, <2>4 DEF WarnedInv, unsold
<1>10. QED
  BY <1>7, <1>8, <1>9 DEF AnalyticsIInv

LEMMA Standstill ==
    ASSUME AnalyticsIInv, UNCHANGED analytics
    PROVE  AnalyticsIInv'
<1>1. /\ sheets' = sheets /\ asked' = asked /\ stage' = stage /\ figures' = figures
      /\ warned' = warned
  BY DEF analytics
<1> DEFINE unsold == {s \in SkuIds : Amount(s) = 0}
<1>2. UNCHANGED <<SkuIds, KpiFigures, AbcAgingFigures, ReplFigures, ForecastFigures,
                  CostWarned, unsold, Undated, Unparameterised>>
  BY <1>1, NothingMoves
<1>3. Shape'
  BY <1>1 DEF AnalyticsIInv, Shape
<1>4. FiguresInv'
  BY <1>1, <1>2 DEF AnalyticsIInv, FiguresInv, Stands
<1>5. WarnedInv'
  <2>1. \A code : Named(code)' = Named(code)
    BY <1>1, <1>2 DEF Named
  <2> HIDE DEF unsold
  <2>2. WarnedInv <=>
           /\ Named("UNIT_COST_MISSING") = IF stage = "replayed" THEN {} ELSE CostWarned
           /\ Named("NO_OUTFLOW") = IF stage \in {"replayed", "kpi"} THEN {} ELSE unsold
           /\ Named("DATE_MISSING") = IF stage \in {"replayed", "kpi"} THEN {} ELSE Undated
           /\ Named("PARAM_MISSING") = IF stage \in {"replayed", "kpi", "abc"} THEN {}
                                       ELSE Unparameterised
           /\ <<"BENCHMARK_UNAVAILABLE", 0>> \in warned
                 <=> stage = "done" /\ figures["DEVIATION"].null
    BY DEF WarnedInv, unsold
  <2>3. WarnedInv' <=>
           /\ Named("UNIT_COST_MISSING")' = IF stage' = "replayed" THEN {} ELSE CostWarned'
           /\ Named("NO_OUTFLOW")' = IF stage' \in {"replayed", "kpi"} THEN {} ELSE unsold'
           /\ Named("DATE_MISSING")' = IF stage' \in {"replayed", "kpi"} THEN {} ELSE Undated'
           /\ Named("PARAM_MISSING")' = IF stage' \in {"replayed", "kpi", "abc"} THEN {}
                                        ELSE Unparameterised'
           /\ <<"BENCHMARK_UNAVAILABLE", 0>> \in warned'
                 <=> stage' = "done" /\ figures'["DEVIATION"].null
    BY DEF WarnedInv, unsold
  <2>4. QED
    BY <1>1, <1>2, <2>1, <2>2, <2>3 DEF AnalyticsIInv
<1>6. QED
  BY <1>3, <1>4, <1>5 DEF AnalyticsIInv

LEMMA AnalyticsStarts == AnalyticsInit => AnalyticsIInv
<1> SUFFICES ASSUME AnalyticsInit PROVE AnalyticsIInv
  OBVIOUS
<1>1. PICK n \in 0..SkuCount : sheets \in [1..n -> Sheets]
  BY DEF AnalyticsInit
<1>2. n \in Nat /\ sheets \in [1..n -> Sheet]
  BY <1>1, AnalyticsAssumption
<1>3. asked \in Question /\ stage = "replayed" /\ figures = << >> /\ warned = {}
  BY AnalyticsAssumption DEF AnalyticsInit
<1>4. Shape
  BY <1>2, <1>3 DEF Shape, Stages
<1>5. FiguresInv
  BY <1>3 DEF FiguresInv
<1>6. WarnedInv
  BY <1>3 DEF WarnedInv, Named
<1>7. QED
  BY <1>4, <1>5, <1>6 DEF AnalyticsIInv

THEOREM AnalyticsInvariance == AnalyticsSpec => []AnalyticsIInv
<1>1. AnalyticsIInv /\ [AnalyticsNext]_analytics => AnalyticsIInv'
  <2> SUFFICES ASSUME AnalyticsIInv, [AnalyticsNext]_analytics PROVE AnalyticsIInv'
    OBVIOUS
  <2>1. CASE Deliver
    BY <2>1, Standstill DEF Deliver
  <2>2. CASE UNCHANGED analytics
    BY <2>2, Standstill
  <2>3. QED
    BY <2>1, <2>2, KpiStep, AbcAgingStep, ReplenishStep, ForecastStep, CompareStep
       DEF AnalyticsNext
<1>2. QED
  BY AnalyticsStarts, <1>1, PTL DEF AnalyticsSpec

-----------------------------------------------------------------------------
(***************************************************************************)
(* The calculators: theorems                                               *)
(***************************************************************************)

AmountsOf == [s \in SkuIds |-> Amount(s)]

\* The amounts are natural numbers.
LEMMA AmountsTyped ==
    ASSUME Shape
    PROVE  /\ Len(sheets) \in Nat /\ SkuIds = 1..Len(sheets)
           /\ AmountTable(AmountsOf, Len(sheets))
           /\ IsFiniteSet(SkuIds) /\ Cardinality(SkuIds) = Len(sheets)
<1>1. PICK n \in Nat : sheets \in [1..n -> Sheet]
  BY DEF Shape
<1>2. SkuIds = 1..n
  BY <1>1 DEF SkuIds
<1>3. Len(sheets) = n
  <2>1. sheets \in Seq(Sheet)
    BY <1>1
  <2>2. DOMAIN sheets = 1..Len(sheets) /\ Len(sheets) \in Nat
    BY <2>1
  <2>3. QED
    BY <1>2, <2>2 DEF SkuIds
<1>4. IsFiniteSet(SkuIds) /\ Cardinality(SkuIds) = n
  BY <1>2, FS_Interval
<1>5. ASSUME NEW s \in SkuIds
      PROVE  Amount(s) \in Nat
  <2>1. /\ sheets[s].cost \in Nat \union {None}
        /\ sheets[s].daily \in [0..LongestPeriod - 1 -> Int]
    BY <1>1, <1>2 DEF Sheet
  <2>2. Period0 \in SUBSET (0..LongestPeriod - 1) /\ IsFiniteSet(Period0)
    <3>1. LongestPeriod \in Nat /\ asked.days \in 0..LongestPeriod
      BY AnalyticsAssumption DEF Shape, Question
    <3>2. asked.days - 1 \in Int /\ asked.days - 1 <= LongestPeriod - 1
      BY <3>1
    <3>3. Period0 \in SUBSET (0..LongestPeriod - 1)
      BY <3>1, <3>2 DEF Period0
    <3>4. IsFiniteSet(Period0)
      BY <3>2, FS_Interval DEF Period0
    <3>5. QED
      BY <3>3, <3>4
  <2>3. Ints(sheets[s].daily, Period0)
    BY <2>1, <2>2 DEF Ints
  <2>4. OutQty(s) \in Int
    BY <2>2, <2>3, TotalType DEF OutQty
  <2>5. Positive(OutQty(s)) \in Nat
    BY <2>4 DEF Positive
  <2> HIDE DEF Period0
  <2>6. CASE sheets[s].cost = None
    BY <2>6 DEF Amount
  <2>7. CASE sheets[s].cost \in Nat
    <3>1. \A x, y \in Nat : x * y \in Nat
      OBVIOUS
    <3>2. Positive(OutQty(s)) * sheets[s].cost \in Nat
      BY <2>5, <2>7, <3>1
    <3>3. QED
      BY <3>2 DEF Amount
  <2>8. QED
    BY <2>1, <2>6, <2>7
<1>6. AmountTable(AmountsOf, n)
  BY <1>2, <1>5 DEF AmountTable, AmountsOf, Nats
<1>7. QED
  BY <1>2, <1>3, <1>4, <1>6

LEMMA RunningIs ==
    ASSUME NEW s \in SkuIds
    PROVE  Running(s) = Total(AmountsOf, UpTo(AmountsOf, SkuIds, s))
<1>1. \A t \in SkuIds : AmountsOf[t] = Amount(t)
  BY DEF AmountsOf
<1>2. {t \in SkuIds : t = s \/ Ahead(t, s)} = UpTo(AmountsOf, SkuIds, s)
  BY <1>1 DEF UpTo, Ahead, Outsells
<1>3. QED
  BY <1>2 DEF Running, AmountsOf

\* The A SKUs, and the A and B SKUs, are those within the two limits.
LEMMA ClassesAreLimits ==
    ASSUME Shape
    PROVE  /\ AmountTotal \in Nat
           /\ ThresholdA * AmountTotal \in Nat /\ ThresholdB * AmountTotal \in Nat
           /\ {s \in SkuIds : AbcClass(s) = "A"}
                 = Within(AmountsOf, SkuIds, ThresholdA * AmountTotal)
           /\ {s \in SkuIds : AbcClass(s) \in {"A", "B"}}
                 = Within(AmountsOf, SkuIds, ThresholdB * AmountTotal)
<1> DEFINE lowA == ThresholdA * AmountTotal
           lowB == ThresholdB * AmountTotal
           Run(s) == Total(AmountsOf, UpTo(AmountsOf, SkuIds, s))
<1>1. IsFiniteSet(SkuIds) /\ Nats(AmountsOf, SkuIds)
  BY AmountsTyped DEF AmountTable
<1>2. AmountTotal \in Nat
  BY <1>1, TotalType DEF AmountTotal, Sum, AmountsOf
<1>3. lowA \in Nat /\ lowB \in Nat /\ lowA <= lowB
  <2>1. \A x, y, z \in Nat : x * z \in Nat /\ (x <= y => x * z <= y * z)
    OBVIOUS
  <2>2. ThresholdA \in Nat /\ ThresholdB \in Nat /\ ThresholdA <= ThresholdB
    BY AnalyticsAssumption
  <2>3. QED
    BY <1>2, <2>1, <2>2
<1>4. \A s \in SkuIds : UpTo(AmountsOf, SkuIds, s) \in SUBSET SkuIds
  BY DEF UpTo
<1>5. \A s \in SkuIds : Run(s) \in Nat
  BY <1>1, <1>4, TotalMonotone
<1>6. \A s \in SkuIds : /\ Amount(s) \in Nat /\ AmountsOf[s] = Amount(s)
                        /\ Running(s) = Run(s)
  BY <1>1, RunningIs DEF Nats, AmountsOf
<1>7. \A s \in SkuIds :
         AbcClass(s) = IF Amount(s) = 0 THEN "C"
                       ELSE IF 100 * Run(s) <= lowA THEN "A"
                       ELSE IF 100 * Run(s) <= lowB THEN "B" ELSE "C"
  BY <1>6 DEF AbcClass
<1> HIDE DEF lowA, lowB, Run
<1>8. \A s \in SkuIds : AbcClass(s) = "A" <=> Amount(s) > 0 /\ 100 * Run(s) <= lowA
  BY <1>6, <1>7
<1>9. \A s \in SkuIds :
         AbcClass(s) \in {"A", "B"} <=> Amount(s) > 0 /\ 100 * Run(s) <= lowB
  <2> SUFFICES ASSUME NEW s \in SkuIds
               PROVE  AbcClass(s) \in {"A", "B"} <=> Amount(s) > 0 /\ 100 * Run(s) <= lowB
    OBVIOUS
  <2>1. 100 * Run(s) <= lowA => 100 * Run(s) <= lowB
    BY <1>3, <1>5
  <2>2. QED
    BY <1>6, <1>7, <2>1
<1>10. QED
  BY <1>2, <1>3, <1>6, <1>8, <1>9 DEF Within, lowA, lowB, Run

LEMMA ShapeRanks == Shape => AbcRanksByAmount
<1> SUFFICES ASSUME Shape PROVE AbcRanksByAmount
  OBVIOUS
<1> DEFINE a == AmountsOf
           A == {s \in SkuIds : AbcClass(s) = "A"}
           AB == {s \in SkuIds : AbcClass(s) \in {"A", "B"}}
           sold == {s \in SkuIds : Amount(s) > 0}
           Fills(S, percent) ==
                /\ 100 * AmountOf(S) <= percent * AmountTotal
                /\ \A s \in sold \ S :
                      (\A t \in sold \ S : Amount(t) <= Amount(s))
                         => 100 * (AmountOf(S) + Amount(s)) > percent * AmountTotal
<1>1. /\ Len(sheets) \in Nat /\ SkuIds = 1..Len(sheets) /\ AmountTable(a, Len(sheets))
      /\ \A s \in SkuIds : a[s] = Amount(s) /\ Amount(s) \in Nat
  BY AmountsTyped DEF AmountTable, Nats, AmountsOf
<1>2. \A S : AmountOf(S) = Total(a, S)
  BY DEF AmountOf, AmountsOf
<1>3. ASSUME NEW percent, percent * AmountTotal \in Nat, NEW S,
             S = Within(a, SkuIds, percent * AmountTotal)
      PROVE  Fills(S, percent)
  <2> DEFINE limit == percent * AmountTotal
  <2>1. limit \in Nat
    BY <1>3
  <2> HIDE DEF limit
  <2>2. S = Within(a, SkuIds, limit)
    BY <1>3 DEF limit
  <2>3. /\ 100 * Total(a, S) <= limit
        /\ \A s \in SkuIds \ S :
              a[s] > 0 /\ (\A t \in SkuIds \ S : a[t] <= a[s])
                 => 100 * (Total(a, S) + a[s]) > limit
    BY <1>1, <2>1, <2>2, WithinFills
  <2>4. ASSUME NEW s \in sold \ S, \A t \in sold \ S : Amount(t) <= Amount(s)
        PROVE  100 * (AmountOf(S) + Amount(s)) > limit
    <3>1. a[s] > 0 /\ s \in SkuIds \ S /\ a[s] = Amount(s) /\ Amount(s) \in Nat
      BY <1>1
    <3>2. \A t \in SkuIds \ S : a[t] <= a[s]
      BY <1>1, <2>4, <3>1
    <3>3. QED
      BY <1>2, <2>3, <3>1, <3>2
  <2>5. 100 * AmountOf(S) <= limit
    BY <1>2, <2>3
  <2>6. QED
    BY <2>4, <2>5 DEF limit
<1>4. Fills(A, ThresholdA) /\ Fills(AB, ThresholdB)
  BY <1>3, ClassesAreLimits
<1>5. AB \subseteq sold
  <2> SUFFICES ASSUME NEW s \in SkuIds, AbcClass(s) \in {"A", "B"}
               PROVE  Amount(s) > 0
    OBVIOUS
  <2>1. Amount(s) # 0
    BY DEF AbcClass
  <2>2. Amount(s) \in Nat
    BY <1>1
  <2>3. QED
    BY <2>1, <2>2
<1>6. ASSUME NEW s \in SkuIds, NEW t \in SkuIds, Amount(s) > Amount(t)
      PROVE  Worse[AbcClass(s)] <= Worse[AbcClass(t)]
  <2> DEFINE Run(x) == Total(a, UpTo(a, SkuIds, x))
  <2>1. Run(s) <= Run(t)
    <3>1. Outsells(a, s, t)
      BY <1>1, <1>6 DEF Outsells
    <3>2. QED
      BY <1>1, <3>1, RunningGrows
  <2>2. Run(s) \in Nat /\ Run(t) \in Nat
    <3>1. IsFiniteSet(SkuIds) /\ Nats(a, SkuIds)
      BY AmountsTyped DEF AmountTable
    <3>2. UpTo(a, SkuIds, s) \in SUBSET SkuIds /\ UpTo(a, SkuIds, t) \in SUBSET SkuIds
      BY DEF UpTo
    <3>3. QED
      BY <3>1, <3>2, TotalMonotone
  <2>3. Running(s) = Run(s) /\ Running(t) = Run(t)
    BY RunningIs
  <2> HIDE DEF Run
  <2>4. Amount(s) > 0
    BY <1>1, <1>6
  <2>5. /\ ThresholdA * AmountTotal \in Nat /\ ThresholdB * AmountTotal \in Nat
    BY ClassesAreLimits
  <2>6. /\ AbcClass(t) = "A" => AbcClass(s) = "A"
        /\ AbcClass(t) = "B" => AbcClass(s) \in {"A", "B"}
    <3> DEFINE lowA == ThresholdA * AmountTotal
               lowB == ThresholdB * AmountTotal
    <3>1. /\ 100 * Run(t) <= lowA => 100 * Run(s) <= lowA
          /\ 100 * Run(t) <= lowB => 100 * Run(s) <= lowB
      BY <2>1, <2>2, <2>5
    <3>2. AbcClass(s) = IF Amount(s) = 0 THEN "C"
                        ELSE IF 100 * Run(s) <= lowA THEN "A"
                        ELSE IF 100 * Run(s) <= lowB THEN "B" ELSE "C"
      BY <2>3 DEF AbcClass
    <3>3. AbcClass(t) = IF Amount(t) = 0 THEN "C"
                        ELSE IF 100 * Run(t) <= lowA THEN "A"
                        ELSE IF 100 * Run(t) <= lowB THEN "B" ELSE "C"
      BY <2>3 DEF AbcClass
    <3> HIDE DEF lowA, lowB
    <3>4. QED
      BY <2>4, <3>1, <3>2, <3>3
  <2>7. AbcClass(s) \in {"A", "B", "C"} /\ AbcClass(t) \in {"A", "B", "C"}
    BY DEF AbcClass
  <2>8. Worse["A"] = 1 /\ Worse["B"] = 2 /\ Worse["C"] = 3
    BY DEF Worse
  <2>9. QED
    BY <2>6, <2>7, <2>8
<1>7. QED
  BY <1>4, <1>5, <1>6 DEF AbcRanksByAmount

\* formula-spec 4, for any number of SKUs, amounts and thresholds: the classes
\* follow the amounts and fill their shares of all sales.
THEOREM ClassesFollowAmounts == AnalyticsSpec => []AbcRanksByAmount
<1>1. AnalyticsIInv => AbcRanksByAmount
  BY ShapeRanks DEF AnalyticsIInv
<1>2. QED
  BY <1>1, AnalyticsInvariance, PTL

-----------------------------------------------------------------------------
LEMMA AmountTotalZero ==
    ASSUME Shape
    PROVE  AmountTotal = 0 <=> {s \in SkuIds : Amount(s) = 0} = SkuIds
<1>1. IsFiniteSet(SkuIds) /\ Nats(AmountsOf, SkuIds)
  BY AmountsTyped DEF AmountTable
<1>2. Total(AmountsOf, SkuIds) = 0 <=> \A s \in SkuIds : AmountsOf[s] = 0
  BY <1>1, TotalZero
<1>3. AmountTotal = Total(AmountsOf, SkuIds) /\ \A s \in SkuIds : AmountsOf[s] = Amount(s)
  BY DEF AmountTotal, Sum, AmountsOf
<1>4. QED
  BY <1>2, <1>3

\* There are weeks when there are days.
LEMMA WeeksOfDays ==
    ASSUME Shape
    PROVE  Forecast = {s \in SkuIds : sheets[s].replayed /\ asked.days > 0}
<1>1. asked.days \in Nat
  BY AnalyticsAssumption DEF Shape, Question
<1>2. Period0 = {} <=> ~(asked.days > 0)
  <2>1. asked.days > 0 => 0 \in Period0
    BY <1>1 DEF Period0
  <2>2. asked.days = 0 => Period0 = {}
    BY DEF Period0
  <2>3. QED
    BY <1>1, <2>1, <2>2
<1>3. Weeks = {} <=> Period0 = {}
  BY DEF Weeks
<1>4. QED
  BY <1>2, <1>3 DEF Forecast

LEMMA NothingIsSilent == AnalyticsIInv => LeftOutIsNamed
<1> SUFFICES ASSUME AnalyticsIInv, stage = "done" PROVE LeftOutIsNamed
  BY DEF LeftOutIsNamed
<1>1. Shape
  BY DEF AnalyticsIInv
<1>2. /\ Len(sheets) \in Nat /\ SkuIds = 1..Len(sheets) /\ IsFiniteSet(SkuIds)
      /\ Cardinality(SkuIds) = Len(sheets)
  BY <1>1, AmountsTyped
<1>3. SkuIds = {} <=> sheets = << >>
  <2>1. sheets \in Seq(Sheet)
    BY <1>1 DEF Shape
  <2>2. Len(sheets) = 0 <=> sheets = << >>
    BY <2>1, EmptySeq
  <2>3. \A n \in Nat : 1..n = {} <=> n = 0
    OBVIOUS
  <2>4. QED
    BY <1>2, <2>2, <2>3
<1>4. /\ Stands(KpiFigures) /\ Stands(AbcAgingFigures)
      /\ Stands(ReplFigures) /\ Stands(ForecastFigures)
      /\ figures["DEVIATION"].null => figures["DEVIATION"].reason # None
  BY DEF AnalyticsIInv, FiguresInv
<1>5. /\ \A f \in KpiNames : figures[f] = KpiFigures[f]
      /\ \A f \in {"CLASSIFIED", "AVG_AGE", "STALE_AMOUNT"} : figures[f] = AbcAgingFigures[f]
      /\ \A f \in ReplNames : figures[f] = ReplFigures[f]
      /\ \A f \in {"NEXT_WEEK", "MAPE"} : figures[f] = ForecastFigures[f]
  BY <1>4, DomainsApart DEF Stands
<1>6. /\ Named("UNIT_COST_MISSING") = CostWarned
      /\ Named("NO_OUTFLOW") = {s \in SkuIds : Amount(s) = 0}
      /\ Named("DATE_MISSING") = Undated /\ Named("PARAM_MISSING") = Unparameterised
      /\ <<"BENCHMARK_UNAVAILABLE", 0>> \in warned <=> figures["DEVIATION"].null
  BY DEF AnalyticsIInv, WarnedInv
<1>7. ASSUME NEW f \in Names, figures[f].null, figures[f].reason = None
      PROVE  f \in ReplNames /\ sheets = << >>
  <2>1. ~Reasoned(figures[f])
    BY <1>7 DEF Reasoned
  <2>2. \A g \in KpiNames : Reasoned(figures[g])
    BY <1>5, KpiReasoned
  <2>3. \A g \in {"CLASSIFIED", "AVG_AGE", "STALE_AMOUNT"} : Reasoned(figures[g])
    BY <1>5, AbcAgingReasoned
  <2>4. \A g \in {"NEXT_WEEK", "MAPE"} : Reasoned(figures[g])
    BY <1>5, ForecastReasoned
  <2>5. Reasoned(figures["DEVIATION"])
    BY <1>4 DEF Reasoned
  <2>6. f \in ReplNames
    BY <2>1, <2>2, <2>3, <2>4, <2>5 DEF Names
  <2>7. SkuIds # {} => Reasoned(figures[f])
    BY <1>5, <2>6, ReplReasoned
  <2>8. QED
    BY <1>3, <2>1, <2>6, <2>7
<1>8. ASSUME NEW s \in SkuIds, ValueOf(s) = None
      PROVE  s \in Named("UNIT_COST_MISSING")
  <2>1. sheets[s] \in Sheet
    BY <1>1, <1>2 DEF Shape, SkuIds
  <2>2. sheets[s].closing \in Int /\ sheets[s].cost \in Nat \union {None}
    BY <2>1 DEF Sheet
  <2>3. None \notin Int
    BY AnalyticsAssumption
  <2>4. \A x \in Int, y \in Nat : x * y \in Int
    OBVIOUS
  <2>5. sheets[s].closing # 0 /\ sheets[s].cost = None
    BY <1>8, <2>2, <2>3, <2>4 DEF ValueOf
  <2>6. s \in Unpriced
    BY <2>5 DEF Unpriced
  <2>7. QED
    BY <1>6, <2>6 DEF CostWarned
<1> DEFINE sample == {s \in SkuIds : InStock(s)} \ Named("DATE_MISSING")
<1>9. sample = Aged
  BY <1>6 DEF Aged, Undated
<1>10. figures["AVG_AGE"].count =
          Sum(LAMBDA s : IF s \in sample THEN Len(sheets[s].stock) ELSE 0)
  <2> DEFINE rows == [s \in SkuIds |-> IF s \in Aged THEN Len(sheets[s].stock) ELSE 0]
  <2>1. figures["AVG_AGE"].count = IF Aged = {} THEN 0 ELSE Total(rows, SkuIds)
    BY <1>5, AbcAgingReasoned DEF AgingRows, Sum
  <2>2. Aged = {} => Total(rows, SkuIds) = 0
    <3>1. SUFFICES ASSUME Aged = {} PROVE Total(rows, SkuIds) = 0
      OBVIOUS
    <3>2. \A s \in SkuIds : rows[s] = 0
      BY <3>1
    <3>3. Nats(rows, SkuIds)
      BY <3>2 DEF Nats
    <3> HIDE DEF rows
    <3>4. QED
      BY <1>2, <3>2, <3>3, TotalZero
  <2>3. rows = [s \in SkuIds |-> IF s \in sample THEN Len(sheets[s].stock) ELSE 0]
    BY <1>9
  <2>4. Total(rows, SkuIds)
           = Sum(LAMBDA s : IF s \in sample THEN Len(sheets[s].stock) ELSE 0)
    BY <2>3 DEF Sum
  <2> HIDE DEF rows, sample
  <2>5. QED
    BY <2>1, <2>2, <2>4
<1>11. ASSUME asked.days > 0
       PROVE  figures["SUGGESTED_QTY"].count + Cardinality(Named("PARAM_MISSING"))
                 = Len(sheets)
  <2> DEFINE U == Unparameterised
  <2>1. asked.days # 0
    BY <1>1, <1>11, AnalyticsAssumption DEF Shape, Question
  <2>2. figures["SUGGESTED_QTY"].count = IF SkuIds \ U = {} THEN 0
                                         ELSE Cardinality(SkuIds \ U)
    BY <1>3, <1>5, <2>1, ReplReasoned DEF ReplNames
  <2>3. U \in SUBSET SkuIds
    BY DEF Unparameterised
  <2> HIDE DEF U
  <2>4. IsFiniteSet(U) /\ Cardinality(U) \in Nat /\ SkuIds \cap U = U
    BY <1>2, <2>3, FS_Subset, FS_CardinalityType
  <2>5. Cardinality(SkuIds \ U) = Cardinality(SkuIds) - Cardinality(U)
    <3>1. Cardinality(SkuIds \ U) = Cardinality(SkuIds) - Cardinality(SkuIds \cap U)
      BY <1>2, FS_Difference
    <3>2. QED
      BY <2>4, <3>1
  <2>6. Cardinality({}) = 0
    BY FS_EmptySet
  <2>7. figures["SUGGESTED_QTY"].count = Cardinality(SkuIds \ U)
    BY <2>2, <2>6
  <2>8. QED
    BY <1>2, <1>6, <2>4, <2>5, <2>7 DEF U
<1>12. figures["CLASSIFIED"].reason # None
          <=> Named("NO_OUTFLOW") = SkuIds /\ sheets # << >>
  BY <1>1, <1>5, <1>6, AbcAgingReasoned, AmountTotalZero
<1>13. ASSUME asked.days > 0
       PROVE  figures["NEXT_WEEK"].count
                 = Len(sheets) - Cardinality({s \in SkuIds : ~sheets[s].replayed})
  <2> DEFINE still == {s \in SkuIds : ~sheets[s].replayed}
  <2>1. figures["NEXT_WEEK"].count = IF Forecast = {} THEN 0 ELSE Cardinality(Forecast)
    BY <1>5, ForecastReasoned
  <2>2. figures["NEXT_WEEK"].count = Cardinality(Forecast)
    BY <2>1, FS_EmptySet
  <2>3. Forecast = SkuIds \ still /\ SkuIds \cap still = still
    BY <1>1, <1>13, WeeksOfDays
  <2> HIDE DEF still
  <2>4. Cardinality(SkuIds \ still) = Cardinality(SkuIds) - Cardinality(SkuIds \cap still)
    BY <1>2, FS_Difference
  <2>5. QED
    BY <1>2, <2>2, <2>3, <2>4 DEF still
<1>14. \A s \in sample : sheets[s].stock # << >>
  BY <1>9 DEF Aged
<1> HIDE DEF sample
<1>15. (figures["DEVIATION"].null) <=> <<"BENCHMARK_UNAVAILABLE", 0>> \in warned
  BY <1>6
<1>16. QED
  BY <1>7, <1>8, <1>10, <1>11, <1>12, <1>13, <1>14, <1>15 DEF LeftOutIsNamed, sample

\* For any SKUs, requests and benchmarks: a SKU left out of the value, the ages
\* or the replenishment is named by the warning of that figure, the forecast
\* leaves out those with a snapshot only, and no figure but those of the
\* replenishment of no SKU is null without a reason.
THEOREM NothingLeftUnsaid == AnalyticsSpec => []LeftOutIsNamed
BY NothingIsSilent, AnalyticsInvariance, PTL
=============================================================================
