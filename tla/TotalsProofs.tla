----------------------------- MODULE TotalsProofs -----------------------------
(***************************************************************************)
(* How a total changes when one element comes, goes or changes its value,  *)
(* and what bounds it.                                                     *)
(***************************************************************************)
EXTENDS Totals, FiniteSetTheorems, TLAPS

\* One element contributes its value.
LEMMA UnitsOfOne ==
    ASSUME NEW x, NEW n \in Nat
    PROVE  IsFiniteSet({x} \X (1..n)) /\ Cardinality({x} \X (1..n)) = n
<1>1. IsFiniteSet({x}) /\ Cardinality({x}) = 1
  BY FS_Singleton
<1>2. IsFiniteSet(1..n) /\ Cardinality(1..n) = n
  <2>1. IsFiniteSet(1..n) /\ Cardinality(1..n) = IF 1 > n THEN 0 ELSE n - 1 + 1
    BY FS_Interval
  <2>. QED
    BY <2>1
<1>3. IsFiniteSet({x} \X (1..n)) /\ Cardinality({x} \X (1..n)) = 1 * n
  <2>. DEFINE A == {x}
              B == 1..n
  <2>1. /\ IsFiniteSet(A) /\ Cardinality(A) = 1
        /\ IsFiniteSet(B) /\ Cardinality(B) = n
    BY <1>1, <1>2
  <2>. HIDE DEF A, B
  <2>2. IsFiniteSet(A \X B) /\ Cardinality(A \X B) = Cardinality(A) * Cardinality(B)
    BY <2>1, FS_Product
  <2>3. IsFiniteSet(A \X B) /\ Cardinality(A \X B) = 1 * n
    BY <2>1, <2>2
  <2>. QED
    BY <2>3 DEF A, B
<1>. QED
  BY <1>3

\* The units of f are those of x and those of the others.
LEMMA UnitsSplit ==
    ASSUME NEW S, NEW f \in [S -> Nat], NEW x \in S
    PROVE  LET rest == [y \in S \ {x} |-> f[y]]
           IN  /\ Units(f) = Units(rest) \cup ({x} \X (1..f[x]))
               /\ Units(rest) \cap ({x} \X (1..f[x])) = {}
<1>. DEFINE rest == [y \in S \ {x} |-> f[y]]
<1>1. DOMAIN f = S /\ DOMAIN rest = S \ {x} /\ \A y \in S \ {x} : rest[y] = f[y]
  OBVIOUS
<1>. HIDE DEF rest
<1>2. \A u : u \in Units(f) <=> \E y \in S : u \in {y} \X (1..f[y])
  BY <1>1 DEF Units
<1>3. \A u : u \in Units(rest) <=> \E y \in S \ {x} : u \in {y} \X (1..f[y])
  BY <1>1 DEF Units
<1>4. Units(f) = Units(rest) \cup ({x} \X (1..f[x]))
  BY <1>2, <1>3
<1>5. Units(rest) \cap ({x} \X (1..f[x])) = {}
  BY <1>3
<1>. QED
  BY <1>4, <1>5 DEF rest

\* The total of f is the value of x and the total of the others.
THEOREM TotalSplit ==
    ASSUME NEW S, NEW f \in [S -> Nat], NEW x \in S
    PROVE  LET rest == [y \in S \ {x} |-> f[y]]
           IN  /\ IsFiniteSet(Units(f)) <=> IsFiniteSet(Units(rest))
               /\ IsFiniteSet(Units(f)) =>
                     Total(rest) \in Nat /\ Total(f) = Total(rest) + f[x]
<1>. DEFINE rest == [y \in S \ {x} |-> f[y]]
            mine == {x} \X (1..f[x])
<1>1. Units(f) = Units(rest) \cup mine /\ Units(rest) \cap mine = {}
  BY UnitsSplit
<1>2. IsFiniteSet(mine) /\ Cardinality(mine) = f[x] /\ f[x] \in Nat
  BY UnitsOfOne
<1>. HIDE DEF rest, mine
<1>3. IsFiniteSet(Units(rest)) => IsFiniteSet(Units(f))
  BY <1>1, <1>2, FS_Union
<1>4. IsFiniteSet(Units(f)) => IsFiniteSet(Units(rest))
  BY <1>1, FS_Subset
<1>5. ASSUME IsFiniteSet(Units(f))
      PROVE  Total(rest) \in Nat /\ Total(f) = Total(rest) + f[x]
  <2>1. IsFiniteSet(Units(rest)) /\ Cardinality(Units(rest)) \in Nat
    BY <1>4, <1>5, FS_CardinalityType
  <2>2. Cardinality(Units(rest) \cup mine)
          = Cardinality(Units(rest)) + Cardinality(mine) - Cardinality(Units(rest) \cap mine)
    BY <1>2, <2>1, FS_Union
  <2>3. Cardinality(Units(rest) \cap mine) = 0
    BY <1>1, FS_EmptySet
  <2>. QED
    BY <1>1, <1>2, <2>1, <2>2, <2>3 DEF Total
<1>. QED
  BY <1>3, <1>4, <1>5 DEF rest

\* A total without units.
THEOREM TotalZero ==
    ASSUME NEW S, NEW f, DOMAIN f = S, \A x \in S : f[x] = 0
    PROVE  IsFiniteSet(Units(f)) /\ Total(f) = 0
<1>1. Units(f) = {}
  BY DEF Units
<1>. QED
  BY <1>1, FS_EmptySet DEF Total

\* The value of x changes.
THEOREM TotalChange ==
    ASSUME NEW S, NEW f \in [S -> Nat], NEW x \in S, NEW n \in Nat, IsFiniteSet(Units(f))
    PROVE  LET g == [f EXCEPT ![x] = n]
           IN  /\ IsFiniteSet(Units(g))
               /\ Total(f) \in Nat /\ Total(g) \in Nat
               /\ Total(g) = (Total(f) - f[x]) + n
<1>. DEFINE g == [f EXCEPT ![x] = n]
            rest == [y \in S \ {x} |-> f[y]]
<1>1. g \in [S -> Nat] /\ g[x] = n /\ f[x] \in Nat /\ [y \in S \ {x} |-> g[y]] = rest
  OBVIOUS
<1>. HIDE DEF g, rest
<1>2. IsFiniteSet(Units(rest)) /\ Total(rest) \in Nat /\ Total(f) = Total(rest) + f[x]
  BY TotalSplit DEF rest
<1>3. IsFiniteSet(Units(g)) /\ Total(g) = Total(rest) + n
  BY <1>1, <1>2, TotalSplit
<1>. QED
  BY <1>1, <1>2, <1>3 DEF g

\* The value of x goes up by one.
LEMMA TotalIncrement ==
    ASSUME NEW S, NEW f \in [S -> Nat], NEW x \in S, IsFiniteSet(Units(f))
    PROVE  LET g == [f EXCEPT ![x] = f[x] + 1]
           IN  /\ IsFiniteSet(Units(g)) /\ g \in [S -> Nat]
               /\ Total(f) \in Nat /\ Total(g) = Total(f) + 1
<1>. DEFINE g == [f EXCEPT ![x] = f[x] + 1]
<1>1. f[x] \in Nat /\ f[x] + 1 \in Nat /\ g \in [S -> Nat]
  OBVIOUS
<1>2. PICK n \in Nat : n = f[x] + 1
  BY <1>1
<1>3. g = [f EXCEPT ![x] = n]
  BY <1>2
<1>. HIDE DEF g
<1>4. /\ IsFiniteSet(Units([f EXCEPT ![x] = n])) /\ Total(f) \in Nat
      /\ Total([f EXCEPT ![x] = n]) = (Total(f) - f[x]) + n
  BY TotalChange
<1>5. Total(f) \in Nat /\ Total(g) = (Total(f) - f[x]) + n
  BY <1>3, <1>4
<1>6. Total(g) = Total(f) + 1
  BY <1>1, <1>2, <1>5
<1>. QED
  BY <1>1, <1>3, <1>4, <1>6 DEF g

\* A function with values up to n, zero outside a finite part P of its domain,
\* adds up to at most n for each element of P.
LEMMA TotalBounded ==
    ASSUME NEW S, NEW f \in [S -> Nat], NEW P, IsFiniteSet(P), NEW n \in Nat,
           \A x \in S : f[x] > 0 => x \in P /\ f[x] <= n
    PROVE  Total(f) \in Nat /\ Total(f) <= Cardinality(P) * n
<1>1. IsFiniteSet(1..n) /\ Cardinality(1..n) = n
  <2>1. IsFiniteSet(1..n) /\ Cardinality(1..n) = IF 1 > n THEN 0 ELSE n - 1 + 1
    BY FS_Interval
  <2>. QED
    BY <2>1
<1>2. IsFiniteSet(P \X (1..n)) /\ Cardinality(P \X (1..n)) = Cardinality(P) * n
  BY <1>1, FS_Product
<1>3. Units(f) \subseteq P \X (1..n)
  <2>1. ASSUME NEW x \in S, NEW m \in 1..f[x] PROVE x \in P /\ m \in 1..n
    BY <2>1
  <2>. QED
    BY <2>1 DEF Units
<1>4. IsFiniteSet(Units(f)) /\ Cardinality(Units(f)) <= Cardinality(P \X (1..n))
  BY <1>2, <1>3, FS_Subset
<1>. QED
  BY <1>2, <1>4, FS_CardinalityType DEF Total

=============================================================================
