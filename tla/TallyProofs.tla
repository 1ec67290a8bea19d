---------------------------- MODULE TallyProofs ----------------------------
(***************************************************************************)
(* What rewriting one row does to a column sum.                            *)
(***************************************************************************)
EXTENDS Tally, FiniteSetTheorems, WellFoundedInduction, TLAPS

\* A row's units: key k at n units.
RowUnits(k, n) == {k} \X (1 .. n)

\* A row that holds n units contributes n to the sum.
LEMMA RowUnitsCount ==
  ASSUME NEW k, NEW n \in Nat
  PROVE  IsFiniteSet(RowUnits(k, n)) /\ Cardinality(RowUnits(k, n)) = n
<1>1. IsFiniteSet({k}) /\ Cardinality({k}) = 1
  BY FS_Singleton
<1>2. IsFiniteSet(1 .. n) /\ Cardinality(1 .. n) = n
  BY FS_Interval
<1>3. /\ IsFiniteSet({k} \X (1 .. n))
      /\ Cardinality({k} \X (1 .. n)) = Cardinality({k}) * Cardinality(1 .. n)
  BY <1>1, <1>2, FS_Product
<1> QED
  BY <1>1, <1>2, <1>3 DEF RowUnits

\* All the units a column may have.
LEMMA AllUnitsFinite ==
  ASSUME NEW K, IsFiniteSet(K), NEW cap \in Nat
  PROVE  IsFiniteSet(K \X (1 .. cap))
<1>1. 1 \in Int /\ cap \in Int
  OBVIOUS
<1>2. IsFiniteSet(1 .. cap)
  BY <1>1, FS_Interval
<1> QED
  BY <1>2, FS_Product

\* The units of a finite column are finite, so its sum is a natural number:
\* the SQL sum of nonnegative amounts is never negative.
LEMMA TotalIsNat ==
  ASSUME NEW K, IsFiniteSet(K), NEW cap \in Nat, NEW f \in [K -> Int]
  PROVE  IsFiniteSet(Units(f, cap)) /\ Total(f, cap) \in Nat
<1>1. IsFiniteSet(K \X (1 .. cap))
  BY AllUnitsFinite
<1>2. Units(f, cap) \in SUBSET (K \X (1 .. cap))
  BY DEF Units
<1>3. IsFiniteSet(Units(f, cap))
  BY <1>1, <1>2, FS_Subset
<1> QED
  BY <1>3, FS_CardinalityType DEF Total

\* A column of zeros sums to zero: the ledger of a new wallet.
LEMMA TotalOfZeros ==
  ASSUME NEW K, NEW cap \in Nat
  PROVE  Total([k \in K |-> 0], cap) = 0
<1>1. Units([k \in K |-> 0], cap) = {}
  BY DEF Units
<1> QED
  BY <1>1, FS_EmptySet DEF Total

\* Rewriting one row changes the sum by the difference of its two amounts:
\* what one ledger write does to SUM(amount).
LEMMA TotalUpdate ==
  ASSUME NEW K, IsFiniteSet(K), NEW cap \in Nat,
         NEW f \in [K -> Int], NEW g \in [K -> Int], NEW k \in K,
         f[k] \in 0 .. cap, g[k] \in 0 .. cap,
         \A j \in K \ {k} : g[j] = f[j]
  PROVE  Total(g, cap) = Total(f, cap) - f[k] + g[k]
<1> DEFINE Rest == { u \in (K \ {k}) \X (1 .. cap) : u[2] <= f[u[1]] }
<1>1. IsFiniteSet(Rest)
  <2>1. IsFiniteSet(K \X (1 .. cap))
    BY AllUnitsFinite
  <2>2. Rest \in SUBSET (K \X (1 .. cap))
    OBVIOUS
  <2> QED
    BY <2>1, <2>2, FS_Subset
<1>2. ASSUME NEW h \in [K -> Int], h[k] \in 0 .. cap,
             \A j \in K \ {k} : h[j] = f[j]
      PROVE  Total(h, cap) = Cardinality(Rest) + h[k]
  <2>1. Units(h, cap) = Rest \cup RowUnits(k, h[k])
    <3>1. ASSUME NEW u \in Units(h, cap)
          PROVE  u \in Rest \cup RowUnits(k, h[k])
      <4>1. u \in K \X (1 .. cap) /\ u[2] <= h[u[1]]
        BY DEF Units
      <4>2. CASE u[1] = k
        BY <4>1, <4>2 DEF RowUnits
      <4>3. CASE u[1] # k
        BY <4>1, <4>3, <1>2
      <4> QED
        BY <4>2, <4>3
    <3>2. ASSUME NEW u \in Rest
          PROVE  u \in Units(h, cap)
      BY <1>2 DEF Units
    <3>3. ASSUME NEW u \in RowUnits(k, h[k])
          PROVE  u \in Units(h, cap)
      BY <1>2 DEF Units, RowUnits
    <3> QED
      BY <3>1, <3>2, <3>3
  <2>2. Rest \cap RowUnits(k, h[k]) = {}
    BY DEF RowUnits
  <2>3. IsFiniteSet(RowUnits(k, h[k])) /\ Cardinality(RowUnits(k, h[k])) = h[k]
    BY <1>2, RowUnitsCount
  <2>4. /\ Cardinality(Rest \cup RowUnits(k, h[k]))
             = Cardinality(Rest) + Cardinality(RowUnits(k, h[k]))
                 - Cardinality(Rest \cap RowUnits(k, h[k]))
    BY <1>1, <2>3, FS_Union
  <2>5. Cardinality(Rest) \in Nat /\ Cardinality({}) = 0
    BY <1>1, FS_CardinalityType, FS_EmptySet
  <2>6. Cardinality(Units(h, cap)) = Cardinality(Rest) + h[k] - 0
    BY <2>1, <2>2, <2>3, <2>4, <2>5
  <2> QED
    BY <2>5, <2>6, <1>2 DEF Total
<1>3. Total(f, cap) = Cardinality(Rest) + f[k]
  BY <1>2
<1>4. Total(g, cap) = Cardinality(Rest) + g[k]
  BY <1>2
<1>5. Cardinality(Rest) \in Nat
  BY <1>1, FS_CardinalityType
<1> QED
  BY <1>3, <1>4, <1>5

\* Two columns that agree have the same sum: a write to other rows of the
\* ledger leaves it alone.
LEMMA TotalUnchanged ==
  ASSUME NEW K, NEW cap, NEW f \in [K -> Int], NEW g \in [K -> Int],
         \A j \in K : g[j] = f[j]
  PROVE  Total(g, cap) = Total(f, cap)
<1>1. g = f
  OBVIOUS
<1> QED
  BY <1>1

\* A column of larger amounts has a larger sum.
LEMMA TotalMonotone ==
  ASSUME NEW K, IsFiniteSet(K), NEW cap \in Nat,
         NEW f \in [K -> Int], NEW g \in [K -> Int],
         \A k \in K : f[k] <= g[k]
  PROVE  Total(f, cap) <= Total(g, cap)
<1>1. IsFiniteSet(Units(g, cap))
  BY TotalIsNat
<1>2. Units(f, cap) \in SUBSET Units(g, cap)
  BY DEF Units
<1> QED
  BY <1>1, <1>2, FS_Subset DEF Total

-----------------------------------------------------------------------------
(* Sums without a bound known beforehand.                                    *)

\* A nonempty set of naturals has a least element.
LEMMA LeastNatural ==
  ASSUME NEW S \in SUBSET Nat, S # {}
  PROVE  \E x \in S : \A y \in S : x <= y
<1> DEFINE R == OpToRel(<, Nat)
<1>1. IsWellFoundedOn(R, Nat) BY NatLessThanWellFounded
<1>2. \A x, y \in Nat : <<x, y>> \in R <=> x < y BY DEF OpToRel
<1> HIDE DEF R
<1>3. PICK x \in S : \A y \in S : ~ (<<y, x>> \in R) BY <1>1, WFMin
<1>4. ASSUME NEW y \in S PROVE x <= y
  <2>1. x \in Nat /\ y \in Nat OBVIOUS
  <2>2. ~ (y < x) BY <1>2, <1>3, <2>1
  <2> QED BY <2>1, <2>2
<1> QED BY <1>4

\* A finite column of naturals has a bound: by the least number of rows of a
\* column that has none.
LEMMA BoundExists ==
  ASSUME NEW K, IsFiniteSet(K), NEW f \in [K -> Nat]
  PROVE  \E b \in Nat : \A k \in K : f[k] <= b
<1> DEFINE Open(J) == ~ \E b \in Nat : \A k \in J : f[k] <= b
           N == {n \in Nat : \E J \in SUBSET K : Cardinality(J) = n /\ Open(J)}
<1> SUFFICES ASSUME Open(K) PROVE FALSE OBVIOUS
<1>1. ASSUME NEW J \in SUBSET K PROVE IsFiniteSet(J) /\ Cardinality(J) \in Nat
  BY FS_Subset, FS_CardinalityType
<1>2. Cardinality(K) \in N BY <1>1
<1>3. N \in SUBSET Nat /\ N # {} BY <1>2
<1> HIDE DEF N
<1>4. PICK n \in N : \A m \in N : n <= m BY <1>3, LeastNatural
<1>5. PICK J \in SUBSET K : Cardinality(J) = n /\ Open(J) BY <1>4 DEF N
<1>6. J # {}
  <2> SUFFICES ASSUME J = {} PROVE FALSE OBVIOUS
  <2>1. 0 \in Nat /\ \A k \in J : f[k] <= 0 OBVIOUS
  <2> QED BY <1>5, <2>1
<1>7. PICK j \in J : TRUE BY <1>6
<1>8. Cardinality(J \ {j}) = n - 1 /\ n - 1 \in Nat
  <2>1. Cardinality(J \ {j}) = n - 1 BY <1>1, <1>5, <1>7, FS_RemoveElement
  <2>2. Cardinality(J \ {j}) \in Nat BY <1>1
  <2> QED BY <2>1, <2>2
<1>9. ~ Open(J \ {j})
  <2>1. n - 1 \in Nat /\ n \in Nat /\ ~(n <= n - 1) BY <1>3, <1>8
  <2>2. n - 1 \notin N BY <1>4, <2>1
  <2> QED BY <1>8, <2>1, <2>2 DEF N
<1>10. PICK b \in Nat : \A k \in J \ {j} : f[k] <= b BY <1>9
<1>11. f[j] \in Nat BY <1>7
<1>12. b + f[j] \in Nat /\ \A k \in J : f[k] <= b + f[j]
  <2>1. ASSUME NEW k \in J PROVE f[k] <= b + f[j]
    <3>1. f[k] \in Nat OBVIOUS
    <3>2. CASE k = j BY <3>1, <3>2, <1>11
    <3>3. CASE k # j BY <3>1, <3>3, <1>10, <1>11
    <3> QED BY <3>2, <3>3
  <2> QED BY <2>1, <1>11
<1> QED BY <1>5, <1>12

\* The highest entry is one.
LEMMA HighestBounds ==
  ASSUME NEW K, IsFiniteSet(K), NEW f \in [K -> Nat]
  PROVE  Highest(f) \in Nat /\ \A k \in K : f[k] <= Highest(f)
<1> DEFINE V == {f[k] : k \in DOMAIN f} \cup {0}
           B == {b \in Nat : \A k \in K : f[k] <= b}
<1>1. B \in SUBSET Nat /\ B # {} BY BoundExists
<1>2. PICK b \in B : \A c \in B : b <= c BY <1>1, LeastNatural
<1>3. b \in V
  <2> SUFFICES ASSUME b \notin V PROVE FALSE OBVIOUS
  <2>1. b \in Nat /\ b # 0 BY <1>1
  <2>2. b - 1 \in Nat /\ ~(b <= b - 1) BY <2>1
  <2>3. ASSUME NEW k \in K PROVE f[k] <= b - 1
    <3>1. f[k] \in Nat /\ f[k] # b /\ f[k] <= b BY <1>2
    <3> QED BY <2>1, <3>1
  <2>4. b - 1 \in B BY <2>2, <2>3
  <2> HIDE DEF B
  <2> QED BY <1>2, <2>2, <2>4
<1>4. \E n \in V : \A k \in DOMAIN f : f[k] <= n BY <1>2, <1>3
<1>5. V \in SUBSET Nat OBVIOUS
<1> QED BY <1>4, <1>5 DEF Highest

\* A bound that no entry exceeds cuts nothing off.
LEMMA SummedIsTotal ==
  ASSUME NEW K, IsFiniteSet(K), NEW f \in [K -> Nat], NEW cap \in Nat,
         \A k \in K : f[k] <= cap
  PROVE  Summed(f) = Total(f, cap)
<1>1. Highest(f) \in Nat /\ \A k \in K : f[k] <= Highest(f) BY HighestBounds
<1>2. PICK h : h = Highest(f) OBVIOUS
<1>3. Units(f, h) = Units(f, cap)
  <2>1. ASSUME NEW k \in K, NEW n \in Int  PROVE f[k] \in Nat /\ f[k] <= h /\ f[k] <= cap
    BY <1>1, <1>2
  <2>2. ASSUME NEW k \in K, NEW n \in Int, 1 <= n, n <= f[k]
        PROVE  n \in 1 .. h /\ n \in 1 .. cap
    BY <1>1, <1>2, <2>1, <2>2
  <2>3. ASSUME NEW u \in Units(f, h) PROVE u \in Units(f, cap)
    <3>1. u \in K \X (1 .. h) /\ u[2] <= f[u[1]] BY DEF Units
    <3>2. u[1] \in K /\ u[2] \in Int /\ 1 <= u[2] /\ u = <<u[1], u[2]>> BY <3>1, <1>1, <1>2
    <3>3. u[2] \in 1 .. cap BY <3>1, <3>2, <2>2
    <3> QED BY <3>1, <3>2, <3>3 DEF Units
  <2>4. ASSUME NEW u \in Units(f, cap) PROVE u \in Units(f, h)
    <3>1. u \in K \X (1 .. cap) /\ u[2] <= f[u[1]] BY DEF Units
    <3>2. u[1] \in K /\ u[2] \in Int /\ 1 <= u[2] /\ u = <<u[1], u[2]>> BY <3>1
    <3>3. u[2] \in 1 .. h BY <3>1, <3>2, <2>2
    <3> QED BY <3>1, <3>2, <3>3 DEF Units
  <2> QED BY <2>3, <2>4
<1> QED BY <1>2, <1>3 DEF Summed, Total

LEMMA SummedIsNat ==
  ASSUME NEW K, IsFiniteSet(K), NEW f \in [K -> Nat]
  PROVE  Summed(f) \in Nat
<1>1. Highest(f) \in Nat BY HighestBounds
<1>2. f \in [K -> Int] OBVIOUS
<1> QED BY <1>1, <1>2, TotalIsNat DEF Summed

LEMMA SummedZeros ==
  ASSUME NEW K, IsFiniteSet(K), NEW f \in [K -> Nat], \A k \in K : f[k] = 0
  PROVE  Summed(f) = 0
<1>1. f = [k \in K |-> 0] OBVIOUS
<1>2. Summed(f) = Total(f, 0) BY SummedIsTotal
<1> QED BY <1>1, <1>2, TotalOfZeros

\* Rewriting one row changes the sum by the difference.
LEMMA SummedUpdate ==
  ASSUME NEW K, IsFiniteSet(K), NEW f \in [K -> Nat], NEW g \in [K -> Nat], NEW k \in K,
         \A j \in K \ {k} : g[j] = f[j]
  PROVE  Summed(g) = Summed(f) - f[k] + g[k]
<1>1. PICK a \in Nat : \A j \in K : f[j] <= a BY BoundExists
<1>2. PICK b \in Nat : \A j \in K : g[j] <= b BY BoundExists
<1>3. a + b \in Nat OBVIOUS
<1>4. \A j \in K : f[j] <= a + b /\ g[j] <= a + b
  <2>1. ASSUME NEW j \in K PROVE f[j] <= a + b /\ g[j] <= a + b
    <3>1. f[j] \in Nat /\ g[j] \in Nat OBVIOUS
    <3> QED BY <1>1, <1>2, <3>1
  <2> QED BY <2>1
<1>5. Summed(f) = Total(f, a + b) /\ Summed(g) = Total(g, a + b)
  BY <1>3, <1>4, SummedIsTotal
<1>6. f[k] \in 0 .. a + b /\ g[k] \in 0 .. a + b
  <2>1. f[k] \in Nat /\ g[k] \in Nat OBVIOUS
  <2> QED BY <1>4, <2>1
<1>7. f \in [K -> Int] /\ g \in [K -> Int] OBVIOUS
<1> QED BY <1>3, <1>5, <1>6, <1>7, TotalUpdate

\* A column that is nowhere lower has no lower sum.
LEMMA SummedMonotone ==
  ASSUME NEW K, IsFiniteSet(K), NEW f \in [K -> Nat], NEW g \in [K -> Nat],
         \A k \in K : f[k] <= g[k]
  PROVE  Summed(f) <= Summed(g)
<1>1. PICK b \in Nat : \A j \in K : g[j] <= b BY BoundExists
<1>2. \A j \in K : f[j] <= b
  <2>1. ASSUME NEW j \in K PROVE f[j] <= b
    <3>1. f[j] \in Nat /\ g[j] \in Nat OBVIOUS
    <3> QED BY <1>1, <3>1
  <2> QED BY <2>1
<1>3. Summed(f) = Total(f, b) /\ Summed(g) = Total(g, b) BY <1>1, <1>2, SummedIsTotal
<1>4. f \in [K -> Int] /\ g \in [K -> Int] OBVIOUS
<1> QED BY <1>3, <1>4, TotalMonotone

\* A column split over disjoint rows.
LEMMA SummedDisjoint ==
  ASSUME NEW K, IsFiniteSet(K), NEW f \in [K -> Nat], NEW g \in [K -> Nat],
         NEW h \in [K -> Nat],
         \A k \in K : g[k] = 0 \/ h[k] = 0,
         \A k \in K : f[k] = g[k] + h[k]
  PROVE  Summed(f) = Summed(g) + Summed(h)
<1>1. PICK b \in Nat : \A j \in K : f[j] <= b BY BoundExists
<1>2. \A j \in K : g[j] <= b /\ h[j] <= b
  <2>1. ASSUME NEW j \in K PROVE g[j] <= b /\ h[j] <= b
    <3>1. f[j] \in Nat /\ g[j] \in Nat /\ h[j] \in Nat /\ f[j] <= b BY <1>1
    <3> QED BY <3>1
  <2> QED BY <2>1
<1>3. /\ Summed(f) = Total(f, b) /\ Summed(g) = Total(g, b) /\ Summed(h) = Total(h, b)
  BY <1>1, <1>2, SummedIsTotal
<1>4. f \in [K -> Int] /\ g \in [K -> Int] /\ h \in [K -> Int] OBVIOUS
<1> DEFINE F == Units(f, b)  G == Units(g, b)  H == Units(h, b)
<1>5. F = G \cup H
  <2>1. ASSUME NEW k \in K, NEW n \in 1 .. b  PROVE n <= f[k] <=> n <= g[k] \/ n <= h[k]
    <3>1. f[k] \in Nat /\ g[k] \in Nat /\ h[k] \in Nat OBVIOUS
    <3> QED BY <3>1
  <2> QED BY <2>1 DEF Units
<1>6. G \cap H = {}
  <2>1. ASSUME NEW k \in K, NEW n \in 1 .. b  PROVE ~(n <= g[k] /\ n <= h[k])
    <3>1. g[k] = 0 \/ h[k] = 0 OBVIOUS
    <3> QED BY <3>1
  <2> QED BY <2>1 DEF Units
<1>7. IsFiniteSet(G) /\ IsFiniteSet(H) BY <1>4, TotalIsNat
<1> HIDE DEF F, G, H
<1>8. Cardinality(F) = Cardinality(G) + Cardinality(H) - Cardinality({})
  BY <1>5, <1>6, <1>7, FS_Union
<1>9. Cardinality({}) = 0 /\ Cardinality(G) \in Nat /\ Cardinality(H) \in Nat
  BY <1>7, FS_EmptySet, FS_CardinalityType
<1>10. Cardinality(F) = Cardinality(G) + Cardinality(H) BY <1>8, <1>9
<1> QED BY <1>3, <1>10 DEF Total, F, G, H

\* Rows of at most c each.
LEMMA SummedAtMost ==
  ASSUME NEW K, IsFiniteSet(K), NEW f \in [K -> Nat], NEW c \in Nat,
         \A k \in K : f[k] <= c
  PROVE  Summed(f) <= Cardinality(K) * c
<1>1. Summed(f) = Total(f, c) BY SummedIsTotal
<1>2. IsFiniteSet(1 .. c) /\ Cardinality(1 .. c) = c BY FS_Interval
<1>3. IsFiniteSet(K \X (1 .. c)) /\ Cardinality(K \X (1 .. c)) = Cardinality(K) * c
  BY <1>2, FS_Product
<1>4. Units(f, c) \in SUBSET (K \X (1 .. c)) BY DEF Units
<1> QED BY <1>1, <1>3, <1>4, FS_Subset DEF Total

\* Induction over the naturals, for a set.
LEMMA EveryNatural ==
  ASSUME NEW S \in SUBSET Nat, 0 \in S, \A n \in S : n + 1 \in S
  PROVE  \A n \in Nat : n \in S
<1> DEFINE Rest == Nat \ S
<1> SUFFICES ASSUME Rest # {} PROVE FALSE OBVIOUS
<1>1. Rest \in SUBSET Nat OBVIOUS
<1> HIDE DEF Rest
<1>2. PICK m \in Rest : \A y \in Rest : m <= y BY <1>1, LeastNatural
<1>3. m \in Nat /\ m \notin S BY <1>2 DEF Rest
<1>4. m # 0 BY <1>3
<1>5. m - 1 \in Nat /\ ~(m <= m - 1) BY <1>3, <1>4
<1>6. m - 1 \in S BY <1>2, <1>5 DEF Rest
<1>7. (m - 1) + 1 = m BY <1>3
<1> QED BY <1>3, <1>6, <1>7
=============================================================================
