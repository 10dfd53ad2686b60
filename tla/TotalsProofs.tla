---------------------------- MODULE TotalsProofs ----------------------------
(***************************************************************************)
(* How a total changes when one point of the summed function changes, or    *)
(* when a point is added to its domain; and what the length of a list       *)
(* without repetitions counts.                                              *)
(***************************************************************************)
EXTENDS Totals, Integers, Sequences, FunctionTheorems, FiniteSetTheorems,
        WellFoundedInduction, TLAPS

(***************************************************************************)
(* A function with natural values on a finite domain has finitely many      *)
(* units, so its total is a natural number.                                 *)
(***************************************************************************)
LEMMA UnitsFinite ==
  ASSUME NEW S, IsFiniteSet(S), NEW f \in [S -> Nat]
  PROVE  IsFiniteSet(Units(f)) /\ Total(f) \in Nat
<1> DEFINE col == [x \in S |-> {x} \X (1..f[x])]
           Cols == {{x} \X (1..f[x]) : x \in DOMAIN f}
<1>1. col \in Surjection(S, Cols)
  BY DEF Surjection
<1>2. IsFiniteSet(Cols)
  BY <1>1, FS_Surjection
<1>3. ASSUME NEW C \in Cols PROVE IsFiniteSet(C)
  <2>1. PICK x \in S : C = {x} \X (1..f[x])
    BY <1>3
  <2>2. IsFiniteSet({x})
    BY FS_Singleton
  <2>3. 1 \in Int /\ f[x] \in Int
    OBVIOUS
  <2>4. IsFiniteSet(1..f[x])
    BY <2>3, FS_Interval
  <2> QED BY <2>1, <2>2, <2>4, FS_Product
<1>4. IsFiniteSet(UNION Cols)
  <2> HIDE DEF Cols
  <2> QED BY <1>2, <1>3, FS_UNION
<1> QED BY <1>4, FS_CardinalityType DEF Units, Total

(***************************************************************************)
(* Raising one point by d raises the total by d.                            *)
(***************************************************************************)
LEMMA TotalRaise ==
  ASSUME NEW S, IsFiniteSet(S), NEW f \in [S -> Nat], NEW g \in [S -> Nat],
         NEW a \in S, NEW d \in Nat,
         g[a] = f[a] + d, \A x \in S \ {a} : g[x] = f[x]
  PROVE  Total(g) = Total(f) + d
<1> DEFINE New == {a} \X ((f[a] + 1)..(f[a] + d))
<1>1. Units(g) = Units(f) \cup New
  <2>1. ASSUME NEW u \in Units(g) PROVE u \in Units(f) \cup New
    <3>1. PICK x \in S, i \in Nat : i \in 1..g[x] /\ u = <<x, i>>
      BY DEF Units
    <3>2. CASE x = a /\ i > f[a]
      BY <3>1, <3>2
    <3>3. CASE ~(x = a /\ i > f[a])
      <4>1. i \in 1..f[x]
        BY <3>1, <3>3
      <4> QED BY <3>1, <4>1 DEF Units
    <3> QED BY <3>2, <3>3
  <2>2. ASSUME NEW u \in Units(f) PROVE u \in Units(g)
    <3>1. PICK x \in S, i \in Nat : i \in 1..f[x] /\ u = <<x, i>>
      BY DEF Units
    <3>2. i \in 1..g[x]
      BY <3>1
    <3> QED BY <3>1, <3>2 DEF Units
  <2>3. ASSUME NEW u \in New PROVE u \in Units(g)
    <3>1. PICK i \in (f[a] + 1)..(f[a] + d) : u = <<a, i>>
      BY <2>3
    <3>2. i \in 1..g[a]
      BY <3>1
    <3> QED BY <3>1, <3>2 DEF Units
  <2> QED BY <2>1, <2>2, <2>3
<1>2. Units(f) \cap New = {}
  <2> SUFFICES ASSUME NEW u \in Units(f), u \in New PROVE FALSE
    BY Zenon
  <2>1. PICK x \in S, i \in Nat : i \in 1..f[x] /\ u = <<x, i>>
    BY DEF Units
  <2>2. PICK j \in (f[a] + 1)..(f[a] + d) : u = <<a, j>>
    OBVIOUS
  <2> QED BY <2>1, <2>2
<1>3. IsFiniteSet(New) /\ Cardinality(New) = d
  <2> DEFINE lo == f[a] + 1
             hi == f[a] + d
  <2>1. /\ lo \in Int /\ hi \in Int
        /\ (IF lo > hi THEN 0 ELSE hi - lo + 1) = d
    OBVIOUS
  <2>2. IsFiniteSet({a}) /\ Cardinality({a}) = 1
    BY FS_Singleton
  <2> HIDE DEF lo, hi
  <2>3. IsFiniteSet(lo..hi) /\ Cardinality(lo..hi) = d
    BY <2>1, FS_Interval
  <2>4. /\ IsFiniteSet({a} \X (lo..hi))
        /\ Cardinality({a} \X (lo..hi)) = Cardinality({a}) * Cardinality(lo..hi)
    BY <2>2, <2>3, FS_Product
  <2>5. Cardinality({a} \X (lo..hi)) = d
    BY <2>2, <2>3, <2>4
  <2> QED BY <2>4, <2>5 DEF lo, hi
<1>4. IsFiniteSet(Units(f)) /\ Total(f) \in Nat
  BY UnitsFinite
<1> HIDE DEF New
<1>5. Cardinality(Units(f) \cup New)
        = Cardinality(Units(f)) + Cardinality(New) - Cardinality(Units(f) \cap New)
  BY <1>3, <1>4, FS_Union
<1>6. Cardinality({}) = 0
  BY FS_EmptySet
<1>7. Cardinality(Units(f)) \in Nat
  BY <1>4 DEF Total
<1>8. Cardinality(Units(f) \cup New) = Cardinality(Units(f)) + d - 0
  BY <1>2, <1>3, <1>5, <1>6
<1>9. Cardinality(Units(f) \cup New) = Cardinality(Units(f)) + d
  BY <1>6, <1>7, <1>8
<1> QED BY <1>1, <1>9 DEF Total

(***************************************************************************)
(* Lowering one point by d, which it holds, lowers the total by d; and no   *)
(* point exceeds the total.                                                 *)
(***************************************************************************)
LEMMA TotalLower ==
  ASSUME NEW S, IsFiniteSet(S), NEW f \in [S -> Nat], NEW g \in [S -> Nat],
         NEW a \in S, NEW d \in Nat,
         d <= f[a], g[a] = f[a] - d, \A x \in S \ {a} : g[x] = f[x]
  PROVE  Total(g) = Total(f) - d /\ Total(f) >= d
<1>1. f[a] = g[a] + d /\ \A x \in S \ {a} : f[x] = g[x]
  OBVIOUS
<1>2. Total(f) = Total(g) + d
  BY <1>1, TotalRaise
<1>3. Total(g) \in Nat /\ Total(f) \in Nat
  BY UnitsFinite
<1> QED BY <1>2, <1>3

(***************************************************************************)
(* Moving n from one point to another keeps every value in range and the    *)
(* total unchanged.                                                         *)
(***************************************************************************)
LEMMA MoveKeepsRange ==
  ASSUME NEW S, NEW M \in Nat, NEW f \in [S -> 0..M], NEW p \in S, NEW q \in S, p # q,
         NEW n \in Nat, n <= f[p], f[q] + n <= M,
         NEW g, g = [f EXCEPT ![p] = @ - n, ![q] = @ + n]
  PROVE  /\ g \in [S -> 0..M]
         /\ g[p] = f[p] - n /\ g[q] = f[q] + n
         /\ \A r \in S \ {p, q} : g[r] = f[r]
<1>1. g[p] = f[p] - n /\ g[q] = f[q] + n /\ \A r \in S \ {p, q} : g[r] = f[r]
  OBVIOUS
<1>2. f[p] - n \in 0..M /\ f[q] + n \in 0..M
  OBVIOUS
<1>3. DOMAIN g = S /\ g = [r \in S |-> g[r]]
  OBVIOUS
<1>4. \A r \in S : g[r] \in 0..M
  BY <1>1, <1>2
<1> QED BY <1>1, <1>3, <1>4

LEMMA TotalMove ==
  ASSUME NEW S, IsFiniteSet(S), NEW f \in [S -> Nat], NEW p \in S, NEW q \in S, p # q,
         NEW n \in Nat, n <= f[p],
         NEW g \in [S -> Nat], g[p] = f[p] - n, g[q] = f[q] + n,
         \A r \in S \ {p, q} : g[r] = f[r]
  PROVE  Total(g) = Total(f)
<1> DEFINE paid == [r \in S |-> IF r = p THEN f[p] - n ELSE f[r]]
<1>1. paid \in [S -> Nat]
  OBVIOUS
<1>2. paid[p] = f[p] - n /\ \A r \in S \ {p} : paid[r] = f[r]
  OBVIOUS
<1>3. g[q] = paid[q] + n /\ \A r \in S \ {q} : g[r] = paid[r]
  OBVIOUS
<1> HIDE DEF paid
<1>4. Total(paid) = Total(f) - n
  BY <1>1, <1>2, TotalLower
<1>5. Total(g) = Total(paid) + n
  BY <1>1, <1>3, TotalRaise
<1>6. Total(f) \in Nat
  BY UnitsFinite
<1> QED BY <1>4, <1>5, <1>6

(***************************************************************************)
(* Adding a point outside the domain adds its value.                        *)
(***************************************************************************)
LEMMA TotalExtend ==
  ASSUME NEW S, IsFiniteSet(S), NEW f \in [S -> Nat], NEW T,
         NEW b \in T, b \notin S, S \subseteq T, \A x \in T : x \in S \/ x = b,
         NEW g \in [T -> Nat], \A x \in S : g[x] = f[x]
  PROVE  Total(g) = Total(f) + g[b]
<1> DEFINE New == {b} \X (1..g[b])
<1>1. Units(g) = Units(f) \cup New
  <2>1. ASSUME NEW u \in Units(g) PROVE u \in Units(f) \cup New
    <3>1. PICK x \in T, i \in Nat : i \in 1..g[x] /\ u = <<x, i>>
      BY DEF Units
    <3> QED BY <3>1 DEF Units
  <2>2. ASSUME NEW u \in Units(f) PROVE u \in Units(g)
    <3>1. PICK x \in S, i \in Nat : i \in 1..f[x] /\ u = <<x, i>>
      BY DEF Units
    <3> QED BY <3>1 DEF Units
  <2>3. ASSUME NEW u \in New PROVE u \in Units(g)
    BY <2>3 DEF Units
  <2> QED BY <2>1, <2>2, <2>3
<1>2. Units(f) \cap New = {}
  <2> SUFFICES ASSUME NEW u \in Units(f), u \in New PROVE FALSE
    BY Zenon
  <2>1. PICK x \in S, i \in Nat : i \in 1..f[x] /\ u = <<x, i>>
    BY DEF Units
  <2> QED BY <2>1
<1>3. IsFiniteSet(New) /\ Cardinality(New) = g[b]
  <2>1. IsFiniteSet({b}) /\ Cardinality({b}) = 1
    BY FS_Singleton
  <2> DEFINE n == g[b]
  <2>2. 1 \in Int /\ n \in Int /\ (IF 1 > n THEN 0 ELSE n - 1 + 1) = n
    OBVIOUS
  <2> HIDE DEF n
  <2>3. IsFiniteSet(1..n) /\ Cardinality(1..n) = n
    BY <2>2, FS_Interval
  <2>4. /\ IsFiniteSet({b} \X (1..n))
        /\ Cardinality({b} \X (1..n)) = Cardinality({b}) * Cardinality(1..n)
    BY <2>1, <2>3, FS_Product
  <2>5. Cardinality({b} \X (1..n)) = n
    BY <2>1, <2>2, <2>3, <2>4
  <2> QED BY <2>4, <2>5 DEF n
<1>4. IsFiniteSet(Units(f)) /\ Total(f) \in Nat
  BY UnitsFinite
<1> HIDE DEF New
<1>5. Cardinality(Units(f) \cup New)
        = Cardinality(Units(f)) + Cardinality(New) - Cardinality(Units(f) \cap New)
  BY <1>3, <1>4, FS_Union
<1>6. Cardinality({}) = 0 /\ g[b] \in Nat
  BY FS_EmptySet
<1>7. Cardinality(Units(f)) \in Nat
  BY <1>4 DEF Total
<1>8. Cardinality(Units(f) \cup New) = Cardinality(Units(f)) + g[b] - 0
  BY <1>2, <1>3, <1>5, <1>6
<1>9. Cardinality(Units(f) \cup New) = Cardinality(Units(f)) + g[b]
  BY <1>6, <1>7, <1>8
<1> QED BY <1>1, <1>9 DEF Total

(***************************************************************************)
(* The total of a function that is zero everywhere is zero.                 *)
(***************************************************************************)
LEMMA TotalZero ==
  ASSUME NEW S, NEW f \in [S -> Nat], \A x \in S : f[x] = 0
  PROVE  Total(f) = 0
<1>1. Units(f) = {}
  <2> SUFFICES ASSUME NEW u \in Units(f) PROVE FALSE
    OBVIOUS
  <2>1. PICK x \in S, i \in Nat : i \in 1..f[x] /\ u = <<x, i>>
    BY DEF Units
  <2> QED BY <2>1
<1> QED BY <1>1, FS_EmptySet DEF Total

-----------------------------------------------------------------------------
(* Comparing totals *)

(***************************************************************************)
(* A function that is nowhere above both of two others has a total no       *)
(* larger than theirs together.                                             *)
(***************************************************************************)
LEMMA TotalCover ==
  ASSUME NEW S, IsFiniteSet(S), NEW f \in [S -> Nat], NEW g \in [S -> Nat], NEW h \in [S -> Nat],
         \A x \in S : h[x] <= f[x] \/ h[x] <= g[x]
  PROVE  Total(h) <= Total(f) + Total(g)
<1>1. Units(h) \subseteq Units(f) \cup Units(g)
  <2> SUFFICES ASSUME NEW u \in Units(h) PROVE u \in Units(f) \cup Units(g)
    OBVIOUS
  <2>1. PICK x \in S, i \in Nat : i \in 1..h[x] /\ u = <<x, i>>
    BY DEF Units
  <2>2. i \in 1..f[x] \/ i \in 1..g[x]
    BY <2>1
  <2> QED BY <2>1, <2>2 DEF Units
<1>2. /\ IsFiniteSet(Units(f)) /\ IsFiniteSet(Units(g))
      /\ Total(f) \in Nat /\ Total(g) \in Nat /\ Total(h) \in Nat
  BY UnitsFinite
<1> DEFINE both == Units(f) \cap Units(g)
<1>3. IsFiniteSet(both)
  BY <1>2, FS_Intersection
<1>4. Cardinality(both) \in Nat
  BY <1>3, FS_CardinalityType
<1>5. /\ IsFiniteSet(Units(f) \cup Units(g))
      /\ Cardinality(Units(f) \cup Units(g)) = Total(f) + Total(g) - Cardinality(both)
  BY <1>2, FS_Union DEF Total
<1>6. Total(h) <= Cardinality(Units(f) \cup Units(g))
  BY <1>1, <1>5, FS_Subset DEF Total
<1> QED BY <1>2, <1>4, <1>5, <1>6

(* A function nowhere above another has a total no larger. *)
LEMMA TotalMonotone ==
  ASSUME NEW S, IsFiniteSet(S), NEW f \in [S -> Nat], NEW h \in [S -> Nat],
         \A x \in S : h[x] <= f[x]
  PROVE  Total(h) <= Total(f)
<1> DEFINE none == [x \in S |-> 0]
<1>1. none \in [S -> Nat] /\ Total(none) = 0
  BY TotalZero
<1>2. \A x \in S : h[x] <= f[x] \/ h[x] <= none[x]
  OBVIOUS
<1> HIDE DEF none
<1>3. Total(h) <= Total(f) + Total(none) /\ Total(f) \in Nat
  BY <1>1, <1>2, TotalCover, UnitsFinite
<1> QED BY <1>1, <1>3

-----------------------------------------------------------------------------
(* Counting up: what holds of 0 and passes from each number to the next     *)

(* A set of natural numbers that is not empty has a least member. *)
LEMMA LeastNat ==
  ASSUME NEW T \in SUBSET Nat, T # {}
  PROVE  \E m \in T : \A n \in T : m <= n
<1> DEFINE R == {p \in Nat \X Nat : p[1] < p[2]}
<1>1. IsWellFoundedOn(R, Nat)
  BY NatLessThanWellFounded DEF OpToRel
<1>2. PICK m \in T : \A n \in T : <<n, m>> \notin R
  <2> HIDE DEF R
  <2> QED BY <1>1, WFMin
<1>3. ASSUME NEW n \in T PROVE m <= n
  <2>1. <<n, m>> \in Nat \X Nat /\ ~(n < m)
    BY <1>2
  <2> QED BY <2>1
<1> QED BY <1>3

(***************************************************************************)
(* Induction up to n, with a set in place of a predicate: the provers have  *)
(* no instances of the theorems that take an operator.                      *)
(***************************************************************************)
LEMMA CountUp ==
  ASSUME NEW n \in Nat, NEW S, 0 \in S, \A i \in 0..n : i < n /\ i \in S => i + 1 \in S
  PROVE  0..n \subseteq S
<1> DEFINE T == (0..n) \ S
<1> SUFFICES ASSUME T # {} PROVE FALSE
  OBVIOUS
<1>1. T \in SUBSET Nat
  OBVIOUS
<1>2. PICK m \in T : \A k \in T : m <= k
  <2> HIDE DEF T
  <2> QED BY <1>1, LeastNat
<1>3. m \in 1..n
  BY <1>2
<1>4. m - 1 \in 0..n /\ m - 1 < n /\ m - 1 \notin T
  BY <1>2, <1>3
<1>5. m - 1 + 1 \in S
  BY <1>4
<1> QED BY <1>3, <1>5

(***************************************************************************)
(* A step taken n times from a start has its sequence of results: what a    *)
(* recursive function over 0..n needs to exist.                             *)
(***************************************************************************)
Runs(g, n, V, start, step) ==
  /\ g \in [0..n -> V] /\ g[0] = start
  /\ \A i \in 1..n : g[i] = step[<<i, g[i - 1]>>]

LEMMA Iterates ==
  ASSUME NEW n \in Nat, NEW V, NEW start \in V, NEW step \in [(1..n) \X V -> V]
  PROVE  \E g : Runs(g, n, V, start, step)
<1> DEFINE S == {m \in 0..n : \E g : Runs(g, m, V, start, step)}
<1>1. 0 \in S
  <2>1. Runs([i \in 0..0 |-> start], 0, V, start, step)
    BY DEF Runs
  <2> QED BY <2>1
<1>2. ASSUME NEW i \in 0..n, i < n, i \in S PROVE i + 1 \in S
  <2>1. PICK g : Runs(g, i, V, start, step)
    BY <1>2
  <2> DEFINE h == [j \in 0..(i + 1) |-> IF j = i + 1 THEN step[<<i + 1, g[i]>>] ELSE g[j]]
  <2>2. <<i + 1, g[i]>> \in (1..n) \X V
    BY <1>2, <2>1 DEF Runs
  <2>3. h \in [0..(i + 1) -> V] /\ h[0] = start
    BY <2>1, <2>2 DEF Runs
  <2>4. ASSUME NEW j \in 1..(i + 1) PROVE h[j] = step[<<j, h[j - 1]>>]
    <3>1. CASE j = i + 1
      <4>1. h[j] = step[<<i + 1, g[i]>>] /\ h[j - 1] = g[i] /\ j = i + 1
        BY <1>2, <3>1
      <4> HIDE DEF h
      <4> QED BY <4>1
    <3>2. CASE j # i + 1
      <4>1. j \in 1..i /\ h[j] = g[j] /\ h[j - 1] = g[j - 1]
        BY <1>2, <2>4, <3>2
      <4> HIDE DEF h
      <4> QED BY <2>1, <4>1 DEF Runs
    <3> QED BY <3>1, <3>2
  <2>5. Runs(h, i + 1, V, start, step)
    BY <2>3, <2>4 DEF Runs
  <2> QED BY <1>2, <2>5
<1>3. 0..n \subseteq S
  <2> HIDE DEF S
  <2> QED BY <1>1, <1>2, CountUp
<1> QED BY <1>3

(* And it has only one. *)
LEMMA RunsOnce ==
  ASSUME NEW n \in Nat, NEW V, NEW start, NEW step,
         NEW g, Runs(g, n, V, start, step),
         NEW h, DOMAIN h = 0..n, h[0] = start, \A i \in 1..n : h[i] = step[<<i, h[i - 1]>>]
  PROVE  \A i \in 0..n : h[i] = g[i]
<1> DEFINE S == {i \in 0..n : h[i] = g[i]}
<1>1. 0 \in S
  BY DEF Runs
<1>2. ASSUME NEW i \in 0..n, i < n, i \in S PROVE i + 1 \in S
  <2>1. i + 1 \in 1..n /\ i + 1 - 1 = i
    BY <1>2
  <2>2. h[i + 1] = step[<<i + 1, h[i]>>] /\ g[i + 1] = step[<<i + 1, g[i]>>]
    BY <2>1 DEF Runs
  <2> QED BY <1>2, <2>1, <2>2
<1>3. 0..n \subseteq S
  <2> HIDE DEF S
  <2> QED BY <1>1, <1>2, CountUp
<1> QED BY <1>3

-----------------------------------------------------------------------------
(* Adding up *)

(* The total of a pointwise sum. *)
LEMMA TotalSum ==
  ASSUME NEW S, IsFiniteSet(S), NEW f \in [S -> Nat], NEW g \in [S -> Nat], NEW h \in [S -> Nat],
         \A x \in S : h[x] = f[x] + g[x]
  PROVE  Total(h) = Total(f) + Total(g)
<1> DEFINE up == [u \in Units(g) |-> <<u[1], f[u[1]] + u[2]>>]
           Up == {<<u[1], f[u[1]] + u[2]>> : u \in Units(g)}
<1>0. \A u : u \in Units(g) <=> \E x \in S, i \in Nat : i >= 1 /\ i <= g[x] /\ u = <<x, i>>
  <2>1. ASSUME NEW u \in Units(g) PROVE \E x \in S, i \in Nat : i >= 1 /\ i <= g[x] /\ u = <<x, i>>
    <3>1. PICK x \in S : \E i \in 1..g[x] : u = <<x, i>>
      BY DEF Units
    <3> QED BY <3>1
  <2>2. ASSUME NEW x \in S, NEW i \in Nat, i >= 1, i <= g[x] PROVE <<x, i>> \in Units(g)
    <3>1. i \in 1..g[x]
      BY <2>2
    <3> QED BY <3>1 DEF Units
  <2> QED BY <2>1, <2>2
<1>1. up \in Bijection(Units(g), Up)
  <2>1. up \in Surjection(Units(g), Up)
    BY DEF Surjection
  <2>2. ASSUME NEW u \in Units(g), NEW v \in Units(g), up[u] = up[v] PROVE u = v
    <3>1. PICK x \in S, i \in Nat : u = <<x, i>>
      BY <1>0
    <3>2. PICK y \in S, j \in Nat : v = <<y, j>>
      BY <1>0
    <3>3. x = y /\ f[x] + i = f[y] + j
      BY <2>2, <3>1, <3>2
    <3> QED BY <3>1, <3>2, <3>3
  <2> QED BY <2>1, <2>2 DEF Bijection, Injection, IsInjective
<1>2. IsFiniteSet(Units(g)) /\ IsFiniteSet(Units(f)) /\ Total(f) \in Nat /\ Total(g) \in Nat
  BY UnitsFinite
<1>3. IsFiniteSet(Up) /\ Cardinality(Up) = Total(g)
  <2>1. ExistsBijection(Units(g), Up)
    <3> HIDE DEF up, Up
    <3> QED BY <1>1 DEF ExistsBijection
  <2> HIDE DEF Up
  <2> QED BY <1>2, <2>1, FS_Bijection DEF Total
<1>4. Units(h) = Units(f) \cup Up
  <2>1. ASSUME NEW w \in Units(h) PROVE w \in Units(f) \cup Up
    <3>1. PICK x \in S, i \in Nat : i \in 1..h[x] /\ w = <<x, i>>
      BY DEF Units
    <3>2. CASE i <= f[x]
      <4>1. i \in 1..f[x]
        BY <3>1, <3>2
      <4> QED BY <3>1, <4>1 DEF Units
    <3>3. CASE ~(i <= f[x])
      <4>1. <<x, i - f[x]>> \in Units(g)
        BY <1>0, <3>1, <3>3
      <4>2. w = <<<<x, i - f[x]>>[1], f[<<x, i - f[x]>>[1]] + <<x, i - f[x]>>[2]>>
        BY <3>1
      <4> QED BY <4>1, <4>2
    <3> QED BY <3>2, <3>3
  <2>2. ASSUME NEW w \in Units(f) PROVE w \in Units(h)
    <3>1. PICK x \in S, i \in Nat : i \in 1..f[x] /\ w = <<x, i>>
      BY DEF Units
    <3>2. i \in 1..h[x]
      BY <3>1
    <3> QED BY <3>1, <3>2 DEF Units
  <2>3. ASSUME NEW w \in Up PROVE w \in Units(h)
    <3>1. PICK u \in Units(g) : w = <<u[1], f[u[1]] + u[2]>>
      BY <2>3
    <3>2. PICK x \in S, i \in Nat : i >= 1 /\ i <= g[x] /\ u = <<x, i>>
      BY <1>0
    <3>3. w = <<x, f[x] + i>> /\ f[x] + i \in 1..h[x]
      BY <3>1, <3>2
    <3> QED BY <3>3 DEF Units
  <2> QED BY <2>1, <2>2, <2>3
<1>5. Units(f) \cap Up = {}
  <2> SUFFICES ASSUME NEW w \in Units(f), w \in Up PROVE FALSE
    BY Zenon
  <2>1. PICK x \in S, i \in Nat : i \in 1..f[x] /\ w = <<x, i>>
    BY DEF Units
  <2>2. PICK u \in Units(g) : w = <<u[1], f[u[1]] + u[2]>>
    OBVIOUS
  <2>3. PICK y \in S, j \in Nat : j >= 1 /\ u = <<y, j>>
    BY <1>0
  <2>4. x = y /\ i = f[x] + j
    BY <2>1, <2>2, <2>3
  <2> QED BY <2>1, <2>3, <2>4
<1> HIDE DEF Up
<1>6. Cardinality(Units(h)) = Cardinality(Units(f)) + Cardinality(Up) - Cardinality({})
  BY <1>2, <1>3, <1>4, <1>5, FS_Union
<1>7. Cardinality({}) = 0
  BY FS_EmptySet
<1> QED BY <1>2, <1>3, <1>6, <1>7 DEF Total

-----------------------------------------------------------------------------
(* Lists that name nobody twice *)

Distinct(s) == \A i, j \in 1..Len(s) : s[i] = s[j] => i = j

LEMMA DistinctAppend ==
  ASSUME NEW S, NEW s \in Seq(S), NEW p \in S, Distinct(s), \A i \in 1..Len(s) : s[i] # p
  PROVE  Distinct(Append(s, p))
<1>1. /\ Append(s, p) \in Seq(S) /\ Len(Append(s, p)) = Len(s) + 1 /\ Len(s) \in Nat
      /\ Append(s, p)[Len(s) + 1] = p
      /\ \A i \in 1..Len(s) : Append(s, p)[i] = s[i] /\ s[i] # p
  OBVIOUS
<1>2. ASSUME NEW i \in 1..(Len(s) + 1), NEW j \in 1..(Len(s) + 1),
             Append(s, p)[i] = Append(s, p)[j]
      PROVE  i = j
  <2>1. CASE i \in 1..Len(s) /\ j \in 1..Len(s)
    BY <1>1, <1>2, <2>1 DEF Distinct
  <2>2. CASE i = Len(s) + 1 \/ j = Len(s) + 1
    BY <1>1, <1>2, <2>2
  <2> QED BY <1>1, <2>1, <2>2
<1> QED BY <1>1, <1>2 DEF Distinct

(* Such a list is as long as the set of its elements. *)
LEMMA DistinctCount ==
  ASSUME NEW S, NEW s \in Seq(S), Distinct(s)
  PROVE  Cardinality({s[i] : i \in 1..Len(s)}) = Len(s)
<1> DEFINE E == {s[i] : i \in 1..Len(s)}
<1>1. s \in [1..Len(s) -> E] /\ Len(s) \in Nat
  OBVIOUS
<1>2. s \in Injection(1..Len(s), E) /\ s \in Surjection(1..Len(s), E)
  BY <1>1 DEF Distinct, Injection, IsInjective, Surjection
<1>3. ExistsBijection(1..Len(s), E)
  BY <1>2 DEF ExistsBijection, Bijection
<1> QED BY <1>1, <1>3, FS_CountingElements

(***************************************************************************)
(* A total taken one member after the other.                                *)
(***************************************************************************)
UpTo(v, m) == [i \in DOMAIN v |-> IF i <= m THEN v[i] ELSE 0]

LEMMA TotalUpTo ==
  ASSUME NEW n, NEW v, n \in Nat, v \in [1..n -> Nat]
  PROVE  /\ Total(UpTo(v, 0)) = 0
         /\ Total(UpTo(v, n)) = Total(v)
         /\ \A m \in 0..n : Total(UpTo(v, m)) \in Nat
         /\ \A m \in 1..n : Total(UpTo(v, m)) = Total(UpTo(v, m - 1)) + v[m]
<1>1. IsFiniteSet(1..n)
  BY FS_Interval
<1>2. \A m : UpTo(v, m) \in [1..n -> Nat]
  BY DEF UpTo
<1>3. \A m : Total(UpTo(v, m)) \in Nat
  BY <1>1, <1>2, UnitsFinite
<1>4. Total(UpTo(v, 0)) = 0
  <2>1. \A i \in 1..n : UpTo(v, 0)[i] = 0
    BY DEF UpTo
  <2> QED BY <1>2, <2>1, TotalZero
<1>5. UpTo(v, n) = v
  BY DEF UpTo
<1>6. ASSUME NEW m, m \in 1..n PROVE Total(UpTo(v, m)) = Total(UpTo(v, m - 1)) + v[m]
  <2> DEFINE dom == 1..n
             d == v[m]
             f == UpTo(v, m - 1)
             g == UpTo(v, m)
  <2>1. f \in [dom -> Nat] /\ g \in [dom -> Nat] /\ m \in dom /\ d \in Nat
    BY <1>2, <1>6
  <2>2. g[m] = f[m] + d /\ \A i \in dom \ {m} : g[i] = f[i]
    BY <1>6 DEF UpTo
  <2>3. IsFiniteSet(dom)
    BY <1>1
  <2> HIDE DEF dom, d, f, g
  <2>4. Total(g) = Total(f) + d
    BY ONLY <2>1, <2>2, <2>3, TotalRaise
  <2> QED BY <2>4 DEF d, f, g
<1> QED BY <1>3, <1>4, <1>5, <1>6

(* What is drawn from a supply, one portion after the other, is missing.    *)
LEMMA DrawnDown ==
  ASSUME NEW n, NEW left, NEW v, n \in Nat, left \in [0..n -> Nat], v \in [1..n -> Nat],
         \A i \in 1..n : left[i] = left[i - 1] - v[i]
  PROVE  left[n] = left[0] - Total(v) /\ Total(v) \in Nat /\ Total(v) <= left[0]
<1>1. /\ Total(UpTo(v, 0)) = 0 /\ Total(UpTo(v, n)) = Total(v)
      /\ \A m \in 0..n : Total(UpTo(v, m)) \in Nat
      /\ \A m \in 1..n : Total(UpTo(v, m)) = Total(UpTo(v, m - 1)) + v[m]
  BY TotalUpTo
<1> DEFINE Met == {m \in 0..n : Total(UpTo(v, m)) = left[0] - left[m]}
<1>2. 0 \in Met
  BY <1>1
<1>3. ASSUME NEW m \in 0..n, m < n, m \in Met PROVE m + 1 \in Met
  <2>1. m + 1 \in 1..n /\ m + 1 - 1 = m /\ m + 1 \in 0..n /\ 0 \in 0..n
    BY <1>3
  <2>2. Total(UpTo(v, m + 1)) = Total(UpTo(v, m)) + v[m + 1] /\ Total(UpTo(v, m)) = left[0] - left[m]
    BY <1>1, <1>3, <2>1
  <2>3. left[m + 1] = left[m] - v[m + 1] /\ v[m + 1] \in Nat /\ left[m] \in Nat /\ left[0] \in Nat
    BY <2>1
  <2> QED BY <2>1, <2>2, <2>3
<1>4. 0..n \subseteq Met
  <2> HIDE DEF Met
  <2> QED BY <1>2, <1>3, CountUp
<1>5. Total(v) = left[0] - left[n] /\ n \in 0..n /\ 0 \in 0..n
  <2>1. n \in 0..n /\ 0 \in 0..n
    OBVIOUS
  <2>2. n \in Met
    <3> HIDE DEF Met
    <3> QED BY <1>4, <2>1
  <2> QED BY <1>1, <2>1, <2>2
<1>6. left[0] \in Nat /\ left[n] \in Nat /\ Total(v) \in Nat
  BY <1>1, <1>5
<1> QED BY <1>5, <1>6

(* The same amounts, given to other names, come to the same total. *)
LEMMA TotalRelabel ==
  ASSUME NEW S, NEW T, IsFiniteSet(T), NEW v \in [T -> Nat], NEW w \in [S -> Nat],
         NEW name \in Injection(T, S),
         \A t \in T : w[name[t]] = v[t],
         \A x \in S : (\A t \in T : name[t] # x) => w[x] = 0
  PROVE  Total(w) = Total(v)
<1> DEFINE B == [u \in Units(v) |-> <<name[u[1]], u[2]>>]
<1>0. name \in [T -> S] /\ \A t, u \in T : name[t] = name[u] => t = u
  BY DEF Injection, IsInjective
<1>1. \A u : u \in Units(v) <=> \E t \in T, i \in Nat : i >= 1 /\ i <= v[t] /\ u = <<t, i>>
  BY DEF Units
<1>2. \A u : u \in Units(w) <=> \E x \in S, i \in Nat : i >= 1 /\ i <= w[x] /\ u = <<x, i>>
  BY DEF Units
<1>3. B \in [Units(v) -> Units(w)]
  <2> SUFFICES ASSUME NEW u \in Units(v) PROVE <<name[u[1]], u[2]>> \in Units(w)
    OBVIOUS
  <2>1. PICK t \in T, i \in Nat : i >= 1 /\ i <= v[t] /\ u = <<t, i>>
    BY <1>1
  <2>2. name[t] \in S /\ i <= w[name[t]] /\ <<name[u[1]], u[2]>> = <<name[t], i>>
    BY <1>0, <2>1
  <2> QED BY <1>2, <2>1, <2>2
<1>4. ASSUME NEW a \in Units(v), NEW b \in Units(v), B[a] = B[b] PROVE a = b
  <2>1. PICK t \in T, i \in Nat : a = <<t, i>>
    BY <1>1
  <2>2. PICK u \in T, j \in Nat : b = <<u, j>>
    BY <1>1
  <2>3. name[t] = name[u] /\ i = j
    BY <1>4, <2>1, <2>2
  <2> QED BY <1>0, <2>1, <2>2, <2>3
<1>5. ASSUME NEW b \in Units(w) PROVE \E a \in Units(v) : B[a] = b
  <2>1. PICK x \in S, i \in Nat : i >= 1 /\ i <= w[x] /\ b = <<x, i>>
    BY <1>2
  <2>2. PICK t \in T : name[t] = x
    BY <2>1
  <2>3. <<t, i>> \in Units(v)
    BY <1>1, <2>1, <2>2
  <2> QED BY <2>1, <2>2, <2>3
<1>6. B \in Bijection(Units(v), Units(w))
  <2> HIDE DEF B
  <2> QED BY <1>3, <1>4, <1>5, Fun_IsBij
<1>7. IsFiniteSet(Units(v))
  BY UnitsFinite
<1>8. ExistsBijection(Units(v), Units(w))
  <2> HIDE DEF B
  <2> QED BY <1>6 DEF ExistsBijection
<1> QED BY <1>7, <1>8, FS_Bijection DEF Total

-----------------------------------------------------------------------------
(* The sums of the community modules *)

(* What MapThenSumSet(LAMBDA x : f[x], S) unfolds to: one point after the   *)
(* other is taken away.  Amounts may be negative.                           *)
Summed(f, S) ==
  (CHOOSE sum : sum = [s \in SUBSET S |->
     IF s = {} THEN 0 ELSE LET x == CHOOSE x \in s : TRUE IN f[x] + sum[s \ {x}]])[S]

Above(f, S) == [x \in S |-> IF f[x] > 0 THEN f[x] ELSE 0]
Below(f, S) == [x \in S |-> IF f[x] < 0 THEN -f[x] ELSE 0]
Net(f, S) == Total(Above(f, S)) - Total(Below(f, S))

LEMMA NetSplits ==
  ASSUME NEW S, IsFiniteSet(S), NEW f, \A x \in S : f[x] \in Int, NEW a \in S
  PROVE  Net(f, S) = f[a] + Net(f, S \ {a}) /\ Net(f, S \ {a}) \in Int
<1> DEFINE R == S \ {a}
<1>1. IsFiniteSet(R) /\ a \notin R /\ R \subseteq S /\ \A x \in S : x \in R \/ x = a
  BY FS_RemoveElement
<1>2. /\ Above(f, S) \in [S -> Nat] /\ Above(f, R) \in [R -> Nat]
      /\ Below(f, S) \in [S -> Nat] /\ Below(f, R) \in [R -> Nat]
  BY DEF Above, Below
<1>3. /\ \A x \in R : Above(f, S)[x] = Above(f, R)[x]
      /\ \A x \in R : Below(f, S)[x] = Below(f, R)[x]
      /\ Above(f, S)[a] - Below(f, S)[a] = f[a]
      /\ Above(f, S)[a] \in Nat /\ Below(f, S)[a] \in Nat
  BY DEF Above, Below
<1> HIDE DEF R
<1>4. Total(Above(f, S)) = Total(Above(f, R)) + Above(f, S)[a]
  BY <1>1, <1>2, <1>3, TotalExtend
<1>5. Total(Below(f, S)) = Total(Below(f, R)) + Below(f, S)[a]
  BY <1>1, <1>2, <1>3, TotalExtend
<1>6. Total(Above(f, R)) \in Nat /\ Total(Below(f, R)) \in Nat
  BY <1>1, <1>2, UnitsFinite
<1>7. Net(f, S) = f[a] + Net(f, R) /\ Net(f, R) \in Int
  BY <1>3, <1>4, <1>5, <1>6 DEF Net
<1> QED BY <1>7 DEF R

(***************************************************************************)
(* The sum that takes one point after the other is that of the units, in    *)
(* whichever order the points are chosen.                                   *)
(***************************************************************************)
LEMMA SummedIsNet ==
  ASSUME NEW S, IsFiniteSet(S), NEW f, \A x \in S : f[x] \in Int
  PROVE  Summed(f, S) = Net(f, S)
<1> DEFINE Rec(sum) == [s \in SUBSET S |->
             IF s = {} THEN 0 ELSE LET x == CHOOSE x \in s : TRUE IN f[x] + sum[s \ {x}]]
           net == [s \in SUBSET S |-> Net(f, s)]
<1>1. Net(f, {}) = 0
  <2>1. Above(f, {}) \in [{} -> Nat] /\ Below(f, {}) \in [{} -> Nat]
    BY DEF Above, Below
  <2>2. Total(Above(f, {})) = 0 /\ Total(Below(f, {})) = 0
    BY <2>1, TotalZero
  <2> QED BY <2>2 DEF Net
<1>2. ASSUME NEW s \in SUBSET S, NEW x \in s
      PROVE  Net(f, s) = f[x] + Net(f, s \ {x})
  <2>1. IsFiniteSet(s) /\ \A y \in s : f[y] \in Int
    BY FS_Subset
  <2> QED BY <2>1, NetSplits
<1>3. net = Rec(net)
  <2>1. ASSUME NEW s \in SUBSET S, s # {}
        PROVE  net[s] = f[CHOOSE x \in s : TRUE] + net[s \ {CHOOSE x \in s : TRUE}]
    <3>1. (CHOOSE x \in s : TRUE) \in s
      BY <2>1
    <3> QED BY <1>2, <3>1
  <2> QED BY <1>1, <2>1
<1>4. ASSUME NEW sum, sum = Rec(sum) PROVE sum = net
  <2> DEFINE n == Cardinality(S)
             Done == {i \in Nat : \A s \in SUBSET S : Cardinality(s) <= i => sum[s] = net[s]}
  <2>1. n \in Nat /\ \A s \in SUBSET S : IsFiniteSet(s) /\ Cardinality(s) \in 0..n
    BY FS_CardinalityType, FS_Subset
  <2>2. 0 \in Done
    <3>1. ASSUME NEW s \in SUBSET S, Cardinality(s) <= 0 PROVE s = {}
      BY <2>1, <3>1, FS_EmptySet
    <3>2. sum[{}] = 0
      BY <1>4
    <3> QED BY <1>1, <3>1, <3>2
  <2>3. ASSUME NEW i \in Nat, i \in Done PROVE i + 1 \in Done
    <3>1. ASSUME NEW s \in SUBSET S, Cardinality(s) <= i + 1 PROVE sum[s] = net[s]
      <4>1. CASE s = {}
        <5>1. sum[{}] = 0 /\ net[{}] = 0
          BY <1>1, <1>4
        <5> QED BY <4>1, <5>1
      <4>2. CASE s # {}
        <5> DEFINE x == CHOOSE x \in s : TRUE
        <5>1. x \in s
          BY <4>2
        <5> HIDE DEF x
        <5>2. Cardinality(s \ {x}) = Cardinality(s) - 1 /\ Cardinality(s) \in Nat
          BY <2>1, <5>1, FS_RemoveElement, FS_CardinalityType
        <5>6. Cardinality(s \ {x}) <= i
          BY <3>1, <5>2
        <5>3. sum[s \ {x}] = net[s \ {x}]
          BY <2>3, <5>6
        <5>4. sum[s] = f[x] + sum[s \ {x}]
          BY <1>4, <4>2 DEF x
        <5>5. net[s] = f[x] + net[s \ {x}]
          BY <1>2, <5>1
        <5> QED BY <5>3, <5>4, <5>5
      <4> QED BY <4>1, <4>2
    <3>2. i + 1 \in Nat
      OBVIOUS
    <3> QED BY <3>1, <3>2
  <2>4. 0..n \subseteq Done
    <3> HIDE DEF n, Done
    <3> QED BY <2>1, <2>2, <2>3, CountUp
  <2>5. ASSUME NEW s \in SUBSET S PROVE sum[s] = net[s]
    <3>1. Cardinality(s) \in Nat /\ Cardinality(s) \in Done
      BY <2>1, <2>4
    <3>2. Cardinality(s) <= Cardinality(s)
      BY <3>1
    <3>3. \A t \in SUBSET S : Cardinality(t) <= Cardinality(s) => sum[t] = net[t]
      BY <3>1
    <3> HIDE DEF net
    <3> QED BY <3>2, <3>3
  <2>6. sum = [s \in SUBSET S |-> sum[s]]
    BY <1>4
  <2> QED BY <2>5, <2>6
<1>5. (CHOOSE sum : sum = Rec(sum)) = net
  <2> HIDE DEF Rec, net
  <2> QED BY <1>3, <1>4
<1>6. Summed(f, S) = (CHOOSE sum : sum = Rec(sum))[S]
  BY DEF Summed
<1> QED BY <1>5, <1>6

(* One point changes, in either direction. *)
LEMMA SummedShift ==
  ASSUME NEW S, IsFiniteSet(S), NEW f, NEW g, NEW a \in S, NEW d \in Int,
         \A x \in S : f[x] \in Int, g[a] = f[a] + d, \A x \in S \ {a} : g[x] = f[x]
  PROVE  Summed(g, S) = Summed(f, S) + d
<1>1. \A x \in S : g[x] \in Int
  OBVIOUS
<1>2. Net(f, S) = f[a] + Net(f, S \ {a}) /\ Net(f, S \ {a}) \in Int
  BY NetSplits
<1>3. Net(g, S) = g[a] + Net(g, S \ {a})
  BY <1>1, NetSplits
<1>4. Above(f, S \ {a}) = Above(g, S \ {a}) /\ Below(f, S \ {a}) = Below(g, S \ {a})
  BY DEF Above, Below
<1>5. Net(f, S \ {a}) = Net(g, S \ {a})
  BY <1>4 DEF Net
<1>6. Summed(f, S) = Net(f, S) /\ Summed(g, S) = Net(g, S)
  BY <1>1, SummedIsNet
<1> QED BY <1>2, <1>3, <1>5, <1>6

LEMMA SummedZero ==
  ASSUME NEW S, IsFiniteSet(S), NEW f, \A x \in S : f[x] = 0
  PROVE  Summed(f, S) = 0
<1>1. Above(f, S) \in [S -> Nat] /\ Below(f, S) \in [S -> Nat]
  BY DEF Above, Below
<1>2. \A x \in S : Above(f, S)[x] = 0 /\ Below(f, S)[x] = 0
  BY DEF Above, Below
<1>3. Total(Above(f, S)) = 0 /\ Total(Below(f, S)) = 0
  BY <1>1, <1>2, TotalZero
<1>4. Summed(f, S) = Net(f, S)
  BY SummedIsNet
<1> QED BY <1>3, <1>4 DEF Net

(* A sum is that of the values at its points, whatever they are elsewhere.  *)
LEMMA SummedSame ==
  ASSUME NEW S, IsFiniteSet(S), NEW f, NEW g, \A x \in S : f[x] \in Int /\ g[x] = f[x]
  PROVE  Summed(g, S) = Summed(f, S)
<1>1. Above(f, S) = Above(g, S) /\ Below(f, S) = Below(g, S)
  BY DEF Above, Below
<1>2. Summed(f, S) = Net(f, S) /\ Summed(g, S) = Net(g, S)
  BY SummedIsNet
<1> QED BY <1>1, <1>2 DEF Net

LEMMA SummedMore ==
  ASSUME NEW S, IsFiniteSet(S), NEW b, b \notin S, NEW f, \A x \in S \cup {b} : f[x] \in Int
  PROVE  Summed(f, S \cup {b}) = Summed(f, S) + f[b] /\ Summed(f, S) \in Int
<1> DEFINE T == S \cup {b}
<1>1. IsFiniteSet(T) /\ b \in T /\ T \ {b} = S
  BY FS_AddElement
<1> HIDE DEF T
<1>2. \A x \in T : f[x] \in Int
  BY DEF T
<1>3. Net(f, T) = f[b] + Net(f, S) /\ Net(f, S) \in Int
  BY <1>1, <1>2, NetSplits
<1>4. Summed(f, T) = Net(f, T) /\ Summed(f, S) = Net(f, S)
  BY <1>1, <1>2, SummedIsNet
<1>5. f[b] \in Int
  OBVIOUS
<1> QED BY <1>3, <1>4, <1>5 DEF T

LEMMA SummedIsInt ==
  ASSUME NEW S, IsFiniteSet(S), NEW f, \A x \in S : f[x] \in Int
  PROVE  Summed(f, S) \in Int
<1>1. Above(f, S) \in [S -> Nat] /\ Below(f, S) \in [S -> Nat]
  BY DEF Above, Below
<1>2. Total(Above(f, S)) \in Nat /\ Total(Below(f, S)) \in Nat
  BY <1>1, UnitsFinite
<1> QED BY <1>2, SummedIsNet DEF Net

LEMMA SummedNat ==
  ASSUME NEW S, IsFiniteSet(S), NEW f, \A x \in S : f[x] \in Nat
  PROVE  Summed(f, S) \in Nat
<1>1. Above(f, S) \in [S -> Nat] /\ Below(f, S) \in [S -> Nat] /\ \A x \in S : Below(f, S)[x] = 0
  BY DEF Above, Below
<1>2. Total(Above(f, S)) \in Nat /\ Total(Below(f, S)) = 0
  BY <1>1, UnitsFinite, TotalZero
<1>3. Summed(f, S) = Net(f, S)
  BY SummedIsNet
<1> QED BY <1>2, <1>3 DEF Net

(* Points under other names, the others adding nothing, have the same sum. *)
LEMMA SummedRelabel ==
  ASSUME NEW S, IsFiniteSet(S), NEW T, IsFiniteSet(T), NEW name \in Injection(T, S), NEW f, NEW g,
         \A t \in T : f[t] \in Int /\ g[name[t]] = f[t],
         \A x \in S : g[x] \in Int,
         \A x \in S : (\A t \in T : name[t] # x) => g[x] = 0
  PROVE  Summed(g, S) = Summed(f, T)
<1>1. /\ Above(g, S) \in [S -> Nat] /\ Below(g, S) \in [S -> Nat]
      /\ Above(f, T) \in [T -> Nat] /\ Below(f, T) \in [T -> Nat]
  BY DEF Above, Below
<1>2. name \in [T -> S]
  BY DEF Injection
<1>3. /\ \A t \in T : Above(g, S)[name[t]] = Above(f, T)[t] /\ Below(g, S)[name[t]] = Below(f, T)[t]
      /\ \A x \in S : (\A t \in T : name[t] # x) => Above(g, S)[x] = 0 /\ Below(g, S)[x] = 0
  BY <1>2 DEF Above, Below
<1>4. Total(Above(g, S)) = Total(Above(f, T))
  BY <1>1, <1>3, TotalRelabel
<1>5. Total(Below(g, S)) = Total(Below(f, T))
  BY <1>1, <1>3, TotalRelabel
<1> QED BY <1>4, <1>5, SummedIsNet DEF Net

(* Names that are all used, each once, are as many as what they name. *)
LEMMA SameCount ==
  ASSUME NEW T, IsFiniteSet(T), NEW S, NEW name \in [T -> S],
         \A t, u \in T : name[t] = name[u] => t = u,
         \A x \in S : \E t \in T : name[t] = x
  PROVE  IsFiniteSet(S) /\ Cardinality(S) = Cardinality(T) /\ name \in Injection(T, S)
<1>1. name \in Bijection(T, S)
  BY Fun_IsBij
<1>2. name \in Injection(T, S)
  BY <1>1 DEF Bijection
<1> QED BY <1>1, <1>2, FS_Bijection DEF ExistsBijection

(* A finite set of numbers has a bound. *)
LEMMA FiniteBounded ==
  ASSUME NEW S \in SUBSET Nat, IsFiniteSet(S)
  PROVE  \E m \in Nat : \A x \in S : x <= m
<1> DEFINE n == Cardinality(S)
<1>1. n \in Nat /\ \E b : b \in Bijection(1..n, S)
  BY FS_CardinalityType DEF ExistsBijection
<1>2. PICK b : b \in Bijection(1..n, S)
  BY <1>1
<1>3. /\ \A i \in 1..n : b[i] \in S
      /\ \A x \in S : \E i \in 1..n : b[i] = x
  BY <1>2 DEF Bijection, Injection, Surjection
<1> DEFINE B == {k \in 0..n : \E m \in Nat : \A i \in 1..k : b[i] <= m}
<1> HIDE DEF n
<1>4. 0 \in B
  BY <1>1
<1>5. ASSUME NEW k \in 0..n, k < n, k \in B PROVE k + 1 \in B
  <2>1. PICK m \in Nat : \A i \in 1..k : b[i] <= m
    BY <1>5
  <2>2. k + 1 \in 1..n /\ b[k + 1] \in Nat
    <3>1. k + 1 \in 1..n
      BY <1>1, <1>5
    <3>2. b[k + 1] \in S
      BY <1>3, <3>1
    <3> QED BY <3>1, <3>2
  <2>3. m + b[k + 1] \in Nat /\ \A i \in 1..(k + 1) : b[i] <= m + b[k + 1]
    <3>1. ASSUME NEW i \in 1..(k + 1) PROVE b[i] <= m + b[k + 1]
      <4>1. CASE i = k + 1
        BY <2>1, <2>2, <4>1
      <4>2. CASE i # k + 1
        <5>1. i \in 1..k /\ i \in 1..n
          BY <1>1, <4>2
        <5>2. b[i] \in Nat /\ b[i] <= m
          BY <1>3, <2>1, <5>1
        <5> QED BY <2>1, <2>2, <5>2
      <4> QED BY <4>1, <4>2
    <3> QED BY <2>1, <2>2, <3>1
  <2>4. k + 1 \in 0..n
    BY <1>1, <1>5
  <2> QED BY <2>3, <2>4
<1>6. n \in B
  <2>1. 0..n \subseteq B
    <3> HIDE DEF B
    <3> QED BY <1>1, <1>4, <1>5, CountUp
  <2>2. n \in 0..n
    BY <1>1
  <2> QED BY <2>1, <2>2
<1>7. PICK m \in Nat : \A i \in 1..n : b[i] <= m
  BY <1>6
<1> QED BY <1>3, <1>7
=============================================================================
