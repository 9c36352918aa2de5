-------------------------- MODULE TotalsTheorems ---------------------------
(***************************************************************************)
(* Laws of Total, the sum of a function of amounts.                        *)
(***************************************************************************)
EXTENDS Totals, Integers, FiniteSetTheorems, TLAPS

(* The units of f are the pairs of an x and a number up to f[x].           *)
LEMMA UnitsElement ==
  ASSUME NEW S, NEW f \in [S -> Nat], NEW x \in S, NEW i
  PROVE  <<x, i>> \in Units(f) <=> i \in 1..f[x]
BY DEF Units

LEMMA UnitsPairs ==
  ASSUME NEW S, NEW f \in [S -> Nat], NEW u \in Units(f)
  PROVE  /\ u = <<u[1], u[2]>>
         /\ u[1] \in S
         /\ u[2] \in 1..f[u[1]]
BY DEF Units

LEMMA UnitsFinite ==
  ASSUME NEW S, IsFiniteSet(S), NEW f \in [S -> Nat]
  PROVE  IsFiniteSet(Units(f))
<1> DEFINE T == {{x} \X (1..f[x]) : x \in S}
           g == [x \in S |-> {x} \X (1..f[x])]
<1>1. IsFiniteSet(T)
  <2>1. g \in Surjection(S, T)
    BY DEF Surjection
  <2> QED BY <2>1, FS_Surjection
<1>2. ASSUME NEW U \in T PROVE IsFiniteSet(U)
  <2>1. PICK x \in S : U = {x} \X (1..f[x])
    BY <1>2
  <2>2. 1 \in Int /\ f[x] \in Int
    OBVIOUS
  <2>3. IsFiniteSet({x})
    BY FS_Singleton
  <2>4. IsFiniteSet(1..f[x])
    BY <2>2, FS_Interval
  <2> QED BY <2>1, <2>3, <2>4, FS_Product
<1>3. IsFiniteSet(UNION T)
  BY <1>1, <1>2, FS_UNION
<1>4. Units(f) = UNION T
  BY DEF Units
<1> QED BY <1>3, <1>4

(* A sum of amounts is an amount.                                          *)
THEOREM TotalNat ==
  ASSUME NEW S, IsFiniteSet(S), NEW f \in [S -> Nat]
  PROVE  Total(f) \in Nat
BY UnitsFinite, FS_CardinalityType DEF Total

(* Sums add up pointwise: the units of h are those of f and, above them,   *)
(* as many as g has.                                                       *)
THEOREM TotalAdd ==
  ASSUME NEW S, IsFiniteSet(S),
         NEW f \in [S -> Nat], NEW g \in [S -> Nat], NEW h \in [S -> Nat],
         \A x \in S : h[x] = f[x] + g[x]
  PROVE  Total(h) = Total(f) + Total(g)
<1> DEFINE Above == Units(h) \ Units(f)
           lift  == [u \in Units(g) |-> <<u[1], f[u[1]] + u[2]>>]
<1>1. IsFiniteSet(Units(f)) /\ IsFiniteSet(Units(g)) /\ IsFiniteSet(Units(h))
  BY UnitsFinite
<1>2. Units(f) \subseteq Units(h)
  <2> SUFFICES ASSUME NEW u \in Units(f) PROVE u \in Units(h)
    OBVIOUS
  <2>1. u = <<u[1], u[2]>> /\ u[1] \in S /\ u[2] \in 1..f[u[1]]
    BY UnitsPairs
  <2>2. u[2] \in 1..h[u[1]]
    BY <2>1, SMT
  <2> QED BY <2>1, <2>2, UnitsElement
<1>3. Cardinality(Above) = Total(h) - Total(f)
  <2>1. Units(h) \cap Units(f) = Units(f)
    BY <1>2
  <2>2. Cardinality(Above) =
          Cardinality(Units(h)) - Cardinality(Units(h) \cap Units(f))
    BY <1>1, FS_Difference
  <2> QED BY <2>1, <2>2 DEF Total
<1>4. lift \in Bijection(Units(g), Above)
  <2>1. ASSUME NEW u \in Units(g) PROVE lift[u] \in Above
    <3>1. u[1] \in S /\ u[2] \in 1..g[u[1]]
      BY UnitsPairs
    <3>2. /\ f[u[1]] + u[2] \in 1..h[u[1]]
          /\ f[u[1]] + u[2] \notin 1..f[u[1]]
      BY <3>1, SMT
    <3> QED BY <3>1, <3>2, UnitsElement
  <2>2. ASSUME NEW u \in Units(g), NEW w \in Units(g), lift[u] = lift[w]
        PROVE  u = w
    <3>1. /\ u = <<u[1], u[2]>> /\ u[1] \in S /\ u[2] \in 1..g[u[1]]
          /\ w = <<w[1], w[2]>> /\ w[1] \in S /\ w[2] \in 1..g[w[1]]
      BY UnitsPairs
    <3>2. u[1] = w[1] /\ f[u[1]] + u[2] = f[w[1]] + w[2]
      BY <2>2
    <3>3. u[2] = w[2]
      BY <3>1, <3>2, SMT
    <3> QED BY <3>1, <3>2, <3>3
  <2>3. ASSUME NEW v \in Above PROVE \E u \in Units(g) : lift[u] = v
    <3>1. v = <<v[1], v[2]>> /\ v[1] \in S /\ v[2] \in 1..h[v[1]]
      BY UnitsPairs
    <3>2. v[2] \notin 1..f[v[1]]
      BY <3>1, UnitsElement
    <3>3. /\ v[2] - f[v[1]] \in 1..g[v[1]]
          /\ f[v[1]] + (v[2] - f[v[1]]) = v[2]
      BY <3>1, <3>2, SMT
    <3> DEFINE u == <<v[1], v[2] - f[v[1]]>>
    <3>4. u \in Units(g)
      BY <3>1, <3>3, UnitsElement
    <3>5. lift[u] = <<v[1], v[2]>>
      BY <3>3, <3>4
    <3> QED BY <3>1, <3>4, <3>5
  <2>4. lift \in [Units(g) -> Above]
    BY <2>1
  <2> HIDE DEF lift, Above
  <2> QED BY <2>2, <2>3, <2>4 DEF Bijection, Injection, Surjection, IsInjective
<1>5. Cardinality(Above) = Total(g)
  BY <1>1, <1>4, FS_Bijection DEF ExistsBijection, Total
<1>6. Total(f) \in Nat /\ Total(g) \in Nat /\ Total(h) \in Nat
  BY TotalNat
<1> QED BY <1>3, <1>5, <1>6, SMT

(* Nothing sums to nothing, and only nothing does.                         *)
THEOREM TotalZero ==
  ASSUME NEW S, IsFiniteSet(S), NEW f \in [S -> Nat]
  PROVE  Total(f) = 0 <=> \A x \in S : f[x] = 0
<1>1. Total(f) = 0 <=> Units(f) = {}
  BY UnitsFinite, FS_EmptySet DEF Total
<1>2. ASSUME Units(f) = {}, NEW x \in S PROVE f[x] = 0
  <2>1. f[x] \in Nat /\ ~(1 \in 1..f[x])
    BY <1>2, UnitsElement
  <2> QED BY <2>1, SMT
<1>3. ASSUME \A x \in S : f[x] = 0, NEW u \in Units(f) PROVE FALSE
  <2>1. u[1] \in S /\ u[2] \in 1..f[u[1]]
    BY UnitsPairs
  <2> QED BY <1>3, <2>1, SMT
<1> QED BY <1>1, <1>2, <1>3

(* Smaller parts have a smaller sum.                                       *)
THEOREM TotalMonotone ==
  ASSUME NEW S, IsFiniteSet(S), NEW f \in [S -> Nat], NEW g \in [S -> Nat],
         \A x \in S : f[x] <= g[x]
  PROVE  Total(f) <= Total(g)
<1> DEFINE d == [x \in S |-> g[x] - f[x]]
<1>1. d \in [S -> Nat] /\ \A x \in S : g[x] = f[x] + d[x]
  OBVIOUS
<1> HIDE DEF d
<1>2. Total(g) = Total(f) + Total(d)
  BY <1>1, TotalAdd
<1>3. Total(f) \in Nat /\ Total(d) \in Nat
  BY <1>1, TotalNat
<1> QED BY <1>2, <1>3

(* Numbers up to k * n, written as a multiple of k and a rest in 1..k.     *)
LEMMA RestBound ==
  ASSUME NEW k \in Nat \ {0}, NEW n \in Nat, NEW a \in 0..(n - 1), NEW r \in 1..k
  PROVE  a * k + r \in 1..(k * n)
<1>1. a * k \in Nat /\ k * n \in Nat
  BY SMT
<1>2. (a + 1) * k <= n * k
  BY SMT
<1>3. (a + 1) * k = a * k + k /\ n * k = k * n
  BY SMT
<1> DEFINE x == a * k
           y == k * n
<1>4. x \in Nat /\ y \in Nat /\ x + k <= y
  BY <1>1, <1>2, <1>3
<1> HIDE DEF x, y
<1>5. x + r \in 1..y
  BY <1>4, SMT
<1> QED BY <1>5 DEF x, y

LEMMA RestUnique ==
  ASSUME NEW k \in Nat \ {0}, NEW a \in Nat, NEW b \in Nat,
         NEW r \in 1..k, NEW s \in 1..k, a * k + r = b * k + s
  PROVE  a = b /\ r = s
<1>1. ASSUME NEW c \in Nat, NEW d \in Nat, c < d PROVE c * k + k <= d * k
  <2>1. (c + 1) * k <= d * k
    BY <1>1, SMT
  <2>2. (c + 1) * k = c * k + k
    BY SMT
  <2> QED BY <2>1, <2>2
<1>2. a * k \in Nat /\ b * k \in Nat
  BY SMT
<1>3. ~(a < b)
  <2> SUFFICES ASSUME a < b PROVE FALSE
    OBVIOUS
  <2>1. a * k + k <= b * k
    BY <1>1
  <2> DEFINE x == a * k
             y == b * k
  <2>2. x \in Nat /\ y \in Nat /\ x + k <= y /\ x + r = y + s
    BY <1>2, <2>1
  <2> HIDE DEF x, y
  <2> QED BY <2>2, SMT
<1>4. ~(b < a)
  <2> SUFFICES ASSUME b < a PROVE FALSE
    OBVIOUS
  <2>1. b * k + k <= a * k
    BY <1>1
  <2> DEFINE x == a * k
             y == b * k
  <2>2. x \in Nat /\ y \in Nat /\ y + k <= x /\ x + r = y + s
    BY <1>2, <2>1
  <2> HIDE DEF x, y
  <2> QED BY <2>2, SMT
<1>5. a = b
  BY <1>3, <1>4
<1> QED BY <1>2, <1>5

LEMMA RestExists ==
  ASSUME NEW k \in Nat \ {0}, NEW n \in Nat, NEW m \in 1..(k * n)
  PROVE  \E a \in 0..(n - 1), r \in 1..k : m = a * k + r
<1> DEFINE a == (m - 1) \div k
           r == (m - 1) - k * a + 1
<1>1. k * n \in Nat
  BY SMT
<1>2. m - 1 \in Nat /\ m - 1 < k * n
  BY <1>1
<1>3. a \in Nat /\ k * a <= m - 1 /\ m - 1 < k * a + k
  BY <1>2, SMT
<1> HIDE DEF a
<1>4. k * a \in Nat /\ k * a = a * k
  BY <1>3, SMT
<1>5. r \in 1..k /\ m = a * k + r
  <2> DEFINE x == k * a
  <2>1. x \in Nat /\ x <= m - 1 /\ m - 1 < x + k /\ x = a * k
    BY <1>3, <1>4
  <2> HIDE DEF x
  <2>2. (m - 1) - x + 1 \in 1..k /\ m = x + ((m - 1) - x + 1)
    BY <1>2, <2>1, SMT
  <2> QED BY <2>1, <2>2 DEF x
<1>6. a < n
  <2> SUFFICES ASSUME n <= a PROVE FALSE
    BY <1>3
  <2>1. k * n <= k * a
    BY <1>3, SMT
  <2> QED BY <1>1, <1>2, <1>3, <1>4, <2>1
<1> QED BY <1>3, <1>5, <1>6

(* Multiplying every part multiplies the sum: the units of k * f are k     *)
(* copies of those of f.                                                   *)
THEOREM TotalScale ==
  ASSUME NEW S, IsFiniteSet(S), NEW f \in [S -> Nat], NEW k \in Nat
  PROVE  Total([x \in S |-> k * f[x]]) = k * Total(f)
<1> DEFINE h == [x \in S |-> k * f[x]]
<1>1. h \in [S -> Nat]
  <2>1. ASSUME NEW x \in S PROVE k * f[x] \in Nat
    BY SMT
  <2> QED BY <2>1
<1>2. Total(f) \in Nat
  BY TotalNat
<1>3. CASE k = 0
  <2>1. \A x \in S : h[x] = 0
    BY <1>3, SMT
  <2> HIDE DEF h
  <2>2. Total(h) = 0
    BY <1>1, <2>1, TotalZero
  <2>3. k * Total(f) = 0
    BY <1>2, <1>3, SMT
  <2> QED BY <2>2, <2>3 DEF h
<1>4. CASE k # 0
  <2> DEFINE Copies == (1..k) \X Units(f)
             place  == [c \in Copies |-> <<c[2][1], (c[2][2] - 1) * k + c[1]>>]
  <2>0. k \in Nat \ {0}
    BY <1>4
  <2>1. ASSUME NEW c \in Copies
        PROVE  /\ c = <<c[1], c[2]>> /\ c[1] \in 1..k
               /\ c[2] = <<c[2][1], c[2][2]>> /\ c[2][1] \in S
               /\ c[2][2] - 1 \in 0..(f[c[2][1]] - 1)
    <3>1. c = <<c[1], c[2]>> /\ c[1] \in 1..k /\ c[2] \in Units(f)
      OBVIOUS
    <3>2. /\ c[2] = <<c[2][1], c[2][2]>> /\ c[2][1] \in S
          /\ c[2][2] \in 1..f[c[2][1]]
      BY <3>1, UnitsPairs
    <3>3. f[c[2][1]] \in Nat
      BY <3>2
    <3> QED BY <3>1, <3>2, <3>3, SMT
  <2>2. ASSUME NEW c \in Copies PROVE place[c] \in Units(h)
    <3>1. (c[2][2] - 1) * k + c[1] \in 1..(k * f[c[2][1]])
      BY <2>0, <2>1, RestBound
    <3>2. h[c[2][1]] = k * f[c[2][1]]
      BY <2>1
    <3> HIDE DEF h
    <3> QED BY <1>1, <2>1, <3>1, <3>2, UnitsElement
  <2>3. ASSUME NEW c \in Copies, NEW d \in Copies, place[c] = place[d]
        PROVE  c = d
    <3>1. /\ c[2][1] = d[2][1]
          /\ (c[2][2] - 1) * k + c[1] = (d[2][2] - 1) * k + d[1]
      BY <2>3
    <3>2. /\ c[2][2] - 1 \in Nat /\ d[2][2] - 1 \in Nat
          /\ c[1] \in 1..k /\ d[1] \in 1..k
          /\ c[2][2] \in Int /\ d[2][2] \in Int
      <4>1. ASSUME NEW e \in Copies PROVE e[2][2] \in Int
        <5>1. e[2] \in Units(f)
          OBVIOUS
        <5> QED BY <5>1, UnitsPairs
      <4> QED BY <2>1, <4>1
    <3>3. c[2][2] - 1 = d[2][2] - 1 /\ c[1] = d[1]
      <4> DEFINE i == c[2][2] - 1
                 j == d[2][2] - 1
      <4>1. /\ i \in Nat /\ j \in Nat /\ c[1] \in 1..k /\ d[1] \in 1..k
            /\ i * k + c[1] = j * k + d[1]
        BY <3>1, <3>2
      <4> HIDE DEF i, j, Copies, place
      <4>2. i = j /\ c[1] = d[1]
        BY <2>0, <4>1, RestUnique
      <4> QED BY <4>2 DEF i, j
    <3>4. c[2][2] = d[2][2]
      BY <3>2, <3>3
    <3> HIDE DEF place
    <3> QED BY <2>1, <3>1, <3>3, <3>4
  <2>4. ASSUME NEW u \in Units(h) PROVE \E c \in Copies : place[c] = u
    <3>1. u = <<u[1], u[2]>> /\ u[1] \in S /\ u[2] \in 1..h[u[1]]
      BY <1>1, UnitsPairs
    <3>2. f[u[1]] \in Nat /\ u[2] \in 1..(k * f[u[1]])
      BY <3>1
    <3>3. PICK a \in 0..(f[u[1]] - 1), r \in 1..k : u[2] = a * k + r
      BY <2>0, <3>2, RestExists
    <3> DEFINE c == <<r, <<u[1], a + 1>>>>
    <3>4. a + 1 \in 1..f[u[1]] /\ (a + 1) - 1 = a
      BY <3>2
    <3>5. <<u[1], a + 1>> \in Units(f)
      BY <3>1, <3>4, UnitsElement
    <3>6. c \in Copies
      BY <3>5
    <3>7. place[c] = <<u[1], a * k + r>>
      BY <3>4, <3>6
    <3> QED BY <3>1, <3>3, <3>6, <3>7
  <2>5. place \in [Copies -> Units(h)]
    BY <2>2
  <2>6. IsFiniteSet(1..k) /\ Cardinality(1..k) = k
    <3>1. IsFiniteSet(1..k)
          /\ Cardinality(1..k) = IF 1 > k THEN 0 ELSE k - 1 + 1
      BY FS_Interval
    <3> QED BY <2>0, <3>1, SMT
  <2>7. IsFiniteSet(Copies) /\ Cardinality(Copies) = k * Total(f)
    <3>1. IsFiniteSet(Units(f))
      BY UnitsFinite
    <3> QED BY <2>6, <3>1, FS_Product DEF Total
  <2> HIDE DEF place, Copies, h
  <2>8. place \in Bijection(Copies, Units(h))
    BY <2>3, <2>4, <2>5 DEF Bijection, Injection, Surjection, IsInjective
  <2>9. Cardinality(Units(h)) = Cardinality(Copies)
    BY <2>7, <2>8, FS_Bijection DEF ExistsBijection
  <2> QED BY <2>7, <2>9 DEF Total, h
<1> QED BY <1>3, <1>4

(* A sum with one part is that part.                                       *)
THEOREM TotalSingle ==
  ASSUME NEW S, IsFiniteSet(S), NEW p \in S, NEW a \in Nat
  PROVE  Total([x \in S |-> IF x = p THEN a ELSE 0]) = a
<1> DEFINE f == [x \in S |-> IF x = p THEN a ELSE 0]
<1>1. f \in [S -> Nat]
  OBVIOUS
<1>2. Units(f) = {p} \X (1..a)
  <2>1. ASSUME NEW u \in Units(f) PROVE u \in {p} \X (1..a)
    <3>1. u = <<u[1], u[2]>> /\ u[1] \in S /\ u[2] \in 1..f[u[1]]
      BY <1>1, UnitsPairs
    <3>2. u[1] = p
      BY <3>1, SMT
    <3> QED BY <3>1, <3>2
  <2>2. ASSUME NEW u \in {p} \X (1..a) PROVE u \in Units(f)
    <3>1. u = <<u[1], u[2]>> /\ u[1] = p /\ u[2] \in 1..f[p]
      OBVIOUS
    <3> QED BY <1>1, <3>1, UnitsElement
  <2> QED BY <2>1, <2>2
<1>3. IsFiniteSet({p}) /\ Cardinality({p}) = 1
  BY FS_Singleton
<1>4. IsFiniteSet(1..a) /\ Cardinality(1..a) = a
  <2>1. IsFiniteSet(1..a)
        /\ Cardinality(1..a) = IF 1 > a THEN 0 ELSE a - 1 + 1
    BY FS_Interval
  <2> QED BY <2>1, SMT
<1>5. Cardinality({p} \X (1..a)) = Cardinality({p}) * Cardinality(1..a)
  BY <1>3, <1>4, FS_Product
<1>6. Cardinality({p} \X (1..a)) = a
  BY <1>3, <1>4, <1>5, SMT
<1> QED BY <1>2, <1>6 DEF Total

(* Counting the members of a set.                                          *)
THEOREM TotalCount ==
  ASSUME NEW S, IsFiniteSet(S), NEW T, T \subseteq S
  PROVE  Total([x \in S |-> IF x \in T THEN 1 ELSE 0]) = Cardinality(T)
<1> DEFINE f == [x \in S |-> IF x \in T THEN 1 ELSE 0]
<1>1. f \in [S -> Nat]
  OBVIOUS
<1>2. Units(f) = T \X {1}
  <2>1. ASSUME NEW u \in Units(f) PROVE u \in T \X {1}
    <3>1. u = <<u[1], u[2]>> /\ u[1] \in S /\ u[2] \in 1..f[u[1]]
      BY <1>1, UnitsPairs
    <3>2. u[1] \in T /\ u[2] = 1
      BY <3>1, SMT
    <3> QED BY <3>1, <3>2
  <2>2. ASSUME NEW u \in T \X {1} PROVE u \in Units(f)
    <3>1. u = <<u[1], u[2]>> /\ u[1] \in S /\ u[2] \in 1..f[u[1]]
      OBVIOUS
    <3> QED BY <1>1, <3>1, UnitsElement
  <2> QED BY <2>1, <2>2
<1>3. IsFiniteSet(T) /\ Cardinality(T) \in Nat
  BY FS_Subset, FS_CardinalityType
<1>4. IsFiniteSet({1}) /\ Cardinality({1}) = 1
  BY FS_Singleton
<1>5. Cardinality(T \X {1}) = Cardinality(T) * Cardinality({1})
  BY <1>3, <1>4, FS_Product
<1>6. Cardinality(T \X {1}) = Cardinality(T)
  BY <1>3, <1>4, <1>5, SMT
<1> QED BY <1>2, <1>6 DEF Total

(* Changing one part changes the sum by the difference.                    *)
THEOREM TotalExcept ==
  ASSUME NEW S, IsFiniteSet(S), NEW f \in [S -> Nat], NEW p \in S,
         NEW a \in Nat
  PROVE  Total([f EXCEPT ![p] = a]) = Total(f) - f[p] + a
<1> DEFINE rest == [f EXCEPT ![p] = 0]
           old  == [x \in S |-> IF x = p THEN f[p] ELSE 0]
           new  == [x \in S |-> IF x = p THEN a ELSE 0]
           g    == [f EXCEPT ![p] = a]
<1>1. /\ rest \in [S -> Nat] /\ old \in [S -> Nat] /\ new \in [S -> Nat]
      /\ g \in [S -> Nat]
  OBVIOUS
<1>2. /\ \A x \in S : f[x] = rest[x] + old[x]
      /\ \A x \in S : g[x] = rest[x] + new[x]
  BY SMT
<1>3. Total(old) = f[p] /\ Total(new) = a
  BY TotalSingle
<1> HIDE DEF rest, old, new, g
<1>4. Total(f) = Total(rest) + Total(old) /\ Total(g) = Total(rest) + Total(new)
  BY <1>1, <1>2, TotalAdd
<1>5. Total(rest) \in Nat /\ f[p] \in Nat
  BY <1>1, TotalNat
<1>6. Total(g) = Total(f) - f[p] + a
  BY <1>3, <1>4, <1>5, SMT
<1> QED BY <1>6 DEF g
=============================================================================
