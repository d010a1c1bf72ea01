---------------------------- MODULE FiniteLemmas ----------------------------
(***************************************************************************)
(* Facts about finite sets that several proofs need: totals over a set      *)
(* (the Router's sums), smallest and largest members, sets numbered alike,  *)
(* and counting up and down.                                                *)
(***************************************************************************)
EXTENDS Integers, FiniteSets, FiniteSetsExt, FiniteSetTheorems, WellFoundedInduction, TLAPS

\* The sum of f over S, as the models write it.
TotalOf(f, S) == MapThenSumSet(LAMBDA x : f[x], S)

\* g is the sum of f over each subset of S.
Additive(g, f, S) ==
  /\ g \in [SUBSET S -> Int]
  /\ g[{}] = 0
  /\ \A U \in SUBSET S : \A x \in U : g[U] = f[x] + g[U \ {x}]

\* Every nonempty family of subsets of a finite set has a member with no smaller one in
\* it: the form of induction over a finite set used below.
LEMMA MinimalSet ==
  ASSUME NEW S, IsFiniteSet(S), NEW T, T \subseteq SUBSET S, T # {}
  PROVE  \E U \in T : \A V \in T : ~(V \subseteq U /\ V # U)
<1>1. IsWellFoundedOn(StrictSubsetOrdering(S), FiniteSubsetsOf(S))
  BY FS_StrictSubsetOrderingWellFounded
<1>2. T \subseteq FiniteSubsetsOf(S)
  BY FS_Subset DEF FiniteSubsetsOf
<1>3. PICK U \in T : \A V \in T : <<V, U>> \notin StrictSubsetOrdering(S)
  <2> HIDE DEF StrictSubsetOrdering, FiniteSubsetsOf
  <2> QED BY <1>1, <1>2, WFMin
<1> QED BY <1>3 DEF StrictSubsetOrdering

\* There are such partial sums.
LEMMA AdditiveExists ==
  ASSUME NEW S, IsFiniteSet(S), NEW f, \A x \in S : f[x] \in Int
  PROVE  \E g : Additive(g, f, S)
<1> DEFINE Bad == {U \in SUBSET S : ~\E g : Additive(g, f, U)}
<1>1. SUFFICES ASSUME Bad # {} PROVE FALSE
  OBVIOUS
<1>2. PICK U \in Bad : \A V \in Bad : ~(V \subseteq U /\ V # U)
  <2>1. Bad \subseteq SUBSET S
    OBVIOUS
  <2> HIDE DEF Bad
  <2> QED BY <1>1, <2>1, MinimalSet
<1>3. CASE U = {}
  <2>1. Additive([V \in SUBSET {} |-> 0], f, {})
    BY DEF Additive
  <2> QED BY <1>3, <2>1
<1>4. CASE U # {}
  <2>1. PICK x \in U : TRUE
    BY <1>4
  <2>2. PICK h : Additive(h, f, U \ {x})
    BY <1>2, <2>1
  <2> DEFINE g == [V \in SUBSET U |-> IF x \in V THEN f[x] + h[V \ {x}] ELSE h[V]]
  <2>3. g \in [SUBSET U -> Int]
    BY <2>1, <2>2 DEF Additive
  <2>4. g[{}] = 0
    BY <2>1, <2>2 DEF Additive
  <2>5. ASSUME NEW V \in SUBSET U, NEW y \in V PROVE g[V] = f[y] + g[V \ {y}]
    <3>1. CASE y = x
      BY <3>1, <2>1, <2>2 DEF Additive
    <3>2. CASE y # x /\ x \notin V
      BY <3>2, <2>1, <2>2 DEF Additive
    <3>3. CASE y # x /\ x \in V
      <4>1. h[(V \ {x}) \ {y}] = h[(V \ {y}) \ {x}]
        <5>1. (V \ {x}) \ {y} = (V \ {y}) \ {x}
          OBVIOUS
        <5> QED BY <5>1
      <4>2. h[V \ {x}] = f[y] + h[(V \ {x}) \ {y}]
        BY <3>3, <2>2 DEF Additive
      <4>3. g[V] = f[x] + h[V \ {x}] /\ g[V \ {y}] = f[x] + h[(V \ {y}) \ {x}]
        BY <3>3
      <4>4. h[(V \ {x}) \ {y}] \in Int
        BY <3>3, <2>2 DEF Additive
      <4>5. f[x] \in Int /\ f[y] \in Int
        OBVIOUS
      <4> HIDE DEF g
      <4> QED BY <4>1, <4>2, <4>3, <4>4, <4>5
    <3> QED BY <3>1, <3>2, <3>3
  <2>6. Additive(g, f, U)
    BY <2>3, <2>4, <2>5 DEF Additive
  <2> QED BY <2>6
<1> QED BY <1>3, <1>4

\* They are the totals: the order in which the library takes the elements is immaterial.
LEMMA SumIsAdditive ==
  ASSUME NEW S, IsFiniteSet(S), NEW f, NEW g, Additive(g, f, S)
  PROVE  TotalOf(f, S) = g[S]
<1> DEFINE Rec(h) == h = [s \in SUBSET S |->
             IF s = {} THEN 0 
             ELSE f[CHOOSE x \in s : TRUE] + h[s \ {CHOOSE x \in s : TRUE}]]
<1> DEFINE iter == CHOOSE h : Rec(h)
<1>1. TotalOf(f, S) = iter[S]
  BY DEF TotalOf, MapThenSumSet, MapThenFoldSet
<1>2. Rec(g)
  BY DEF Additive
<1>3. Rec(iter)
  <2> HIDE DEF Rec
  <2> QED BY <1>2
<1> HIDE DEF iter
<1> DEFINE Bad == {U \in SUBSET S : iter[U] # g[U]}
<1>4. SUFFICES ASSUME Bad # {} PROVE FALSE
  BY <1>1
<1>5. PICK U \in Bad : \A V \in Bad : ~(V \subseteq U /\ V # U)
  <2>1. Bad \subseteq SUBSET S
    OBVIOUS
  <2> HIDE DEF Bad
  <2> QED BY <1>4, <2>1, MinimalSet
<1>6. CASE U = {}
  BY <1>6, <1>2, <1>3
<1>7. CASE U # {}
  <2> DEFINE x == CHOOSE x \in U : TRUE
  <2>1. x \in U
    BY <1>7
  <2>2. iter[U \ {x}] = g[U \ {x}]
    BY <2>1, <1>5
  <2>3. iter[U] = f[x] + iter[U \ {x}] /\ g[U] = f[x] + g[U \ {x}]
    BY <1>2, <1>3, <1>7
  <2> QED BY <2>2, <2>3
<1> QED BY <1>6, <1>7

-----------------------------------------------------------------------------
\* Nothing adds up to zero.
LEMMA TotalOfNone == ASSUME NEW f PROVE TotalOf(f, {}) = 0
<1>1. Additive([V \in SUBSET {} |-> 0], f, {})
  BY DEF Additive
<1> QED BY <1>1, SumIsAdditive, FS_EmptySet

\* A member contributes its own amount.
LEMMA TotalWithout ==
  ASSUME NEW S, IsFiniteSet(S), NEW f, \A x \in S : f[x] \in Int, NEW y \in S
  PROVE  TotalOf(f, S) = f[y] + TotalOf(f, S \ {y})
<1>1. PICK g : Additive(g, f, S)
  BY AdditiveExists
<1> DEFINE h == [V \in SUBSET (S \ {y}) |-> g[V]]
<1>2. Additive(h, f, S \ {y})
  BY <1>1 DEF Additive
<1>3. TotalOf(f, S \ {y}) = h[S \ {y}]
  <2> HIDE DEF h
  <2> QED BY <1>2, FS_RemoveElement, SumIsAdditive
<1>4. TotalOf(f, S) = g[S]
  BY <1>1, SumIsAdditive
<1> QED BY <1>1, <1>3, <1>4 DEF Additive

\* A new member adds its amount.
LEMMA TotalWith ==
  ASSUME NEW S, IsFiniteSet(S), NEW f, NEW y, y \notin S, \A x \in S \cup {y} : f[x] \in Int
  PROVE  TotalOf(f, S \cup {y}) = f[y] + TotalOf(f, S)
<1>1. IsFiniteSet(S \cup {y}) /\ (S \cup {y}) \ {y} = S
  BY FS_AddElement
<1> QED BY <1>1, TotalWithout

\* What the members contribute decides.
LEMMA TotalAgrees ==
  ASSUME NEW S, IsFiniteSet(S), NEW f, NEW h, \A x \in S : f[x] \in Int /\ h[x] = f[x]
  PROVE  TotalOf(h, S) = TotalOf(f, S)
<1>1. PICK g : Additive(g, f, S)
  BY AdditiveExists
<1>2. Additive(g, h, S)
  BY <1>1 DEF Additive
<1> QED BY <1>1, <1>2, SumIsAdditive

\* Amounts that are not negative have a total that is not.
LEMMA TotalIsNat ==
  ASSUME NEW S, IsFiniteSet(S), NEW f, \A x \in S : f[x] \in Nat
  PROVE  TotalOf(f, S) \in Nat
<1>1. PICK g : Additive(g, f, S)
  BY AdditiveExists
<1> DEFINE Bad == {U \in SUBSET S : g[U] \notin Nat}
<1>2. SUFFICES ASSUME Bad # {} PROVE FALSE
  BY <1>1, SumIsAdditive
<1>3. PICK U \in Bad : \A V \in Bad : ~(V \subseteq U /\ V # U)
  <2>1. Bad \subseteq SUBSET S
    OBVIOUS
  <2> HIDE DEF Bad
  <2> QED BY <1>2, <2>1, MinimalSet
<1>4. PICK x \in U : TRUE
  <2>1. g[{}] \in Nat
    BY <1>1 DEF Additive
  <2>2. U # {}
    BY <2>1
  <2> QED BY <2>2
<1>5. g[U \ {x}] \in Nat
  BY <1>3, <1>4
<1> QED BY <1>1, <1>3, <1>4, <1>5 DEF Additive

-----------------------------------------------------------------------------
\* A finite set that is not empty has a member where f is least.
LEMMA LeastMember ==
  ASSUME NEW S, IsFiniteSet(S), S # {}, NEW f, \A x \in S : f[x] \in Int
  PROVE  \E m \in S : \A x \in S : f[m] <= f[x]
<1> DEFINE Bad == {U \in SUBSET S : U # {} /\ ~\E m \in U : \A x \in U : f[m] <= f[x]}
<1>1. SUFFICES ASSUME Bad # {} PROVE FALSE
  OBVIOUS
<1>2. PICK U \in Bad : \A V \in Bad : ~(V \subseteq U /\ V # U)
  <2>1. Bad \subseteq SUBSET S
    OBVIOUS
  <2> HIDE DEF Bad
  <2> QED BY <1>1, <2>1, MinimalSet
<1>3. PICK x \in U : TRUE
  OBVIOUS
<1>4. CASE U \ {x} = {}
  BY <1>3, <1>4
<1>5. CASE U \ {x} # {}
  <2>1. PICK m \in U \ {x} : \A y \in U \ {x} : f[m] <= f[y]
    <3>1. U \ {x} \in SUBSET S /\ U \ {x} \subseteq U /\ U \ {x} # U
      BY <1>3
    <3>2. U \ {x} \notin Bad
      <4> HIDE DEF Bad
      <4> QED BY <1>2, <3>1
    <3> QED BY <1>5, <3>1, <3>2
  <2>2. f[m] \in Int /\ f[x] \in Int
    BY <1>3, <2>1
  <2>3. CASE f[m] <= f[x]
    BY <2>1, <2>3
  <2>4. CASE f[x] <= f[m]
    <3>1. \A y \in U : f[x] <= f[y]
      BY <2>1, <2>2, <2>4
    <3> QED BY <3>1, <1>3
  <2> QED BY <2>2, <2>3, <2>4
<1> QED BY <1>4, <1>5

\* A finite set of numbers that is not empty has a largest one.
LEMMA LargestNumber ==
  ASSUME NEW S, IsFiniteSet(S), S # {}, S \subseteq Int
  PROVE  \E m \in S : \A x \in S : x <= m
<1> DEFINE f == [y \in S |-> -y]
<1>1. \A x \in S : f[x] \in Int
  OBVIOUS
<1>2. PICK m \in S : \A x \in S : f[m] <= f[x]
  <2> HIDE DEF f
  <2> QED BY <1>1, LeastMember
<1>3. \A x \in S : -m <= -x
  BY <1>2
<1>4. m \in Int /\ \A x \in S : x \in Int
  OBVIOUS
<1> QED BY <1>3, <1>4
\* The last so many of a finite set of numbers are so many, or all of it.
LEMMA LastOnes ==
  ASSUME NEW S \in SUBSET Int, IsFiniteSet(S), NEW size \in Nat,
         NEW T, T = {i \in S : Cardinality({j \in S : j > i}) < size}
  PROVE  T = S \/ Cardinality(T) >= size
<1> DEFINE after(i) == {j \in S : j > i}
           R == S \ T
           m == Cardinality(S)
           rank == [i \in R |-> Cardinality(after(i))]
<1>1. ASSUME NEW i \in S
      PROVE  IsFiniteSet(after(i)) /\ Cardinality(after(i)) \in Nat /\ Cardinality(after(i)) < m
  <2>1. after(i) \in SUBSET (S \ {i})
    OBVIOUS
  <2>2. IsFiniteSet(S \ {i}) /\ Cardinality(S \ {i}) = m - 1 /\ m \in Nat
    BY FS_RemoveElement, FS_CardinalityType
  <2> HIDE DEF after
  <2>3. IsFiniteSet(after(i)) /\ Cardinality(after(i)) <= m - 1
    BY <2>1, <2>2, FS_Subset
  <2> QED BY <2>2, <2>3, FS_CardinalityType
<1>2. ASSUME NEW i \in S, NEW k \in S, i < k
      PROVE  Cardinality(after(k)) < Cardinality(after(i))
  <2>1. after(k) \in SUBSET (after(i) \ {k}) /\ k \in after(i)
    <3>1. i \in Int /\ k \in Int /\ \A j \in S : j \in Int
      OBVIOUS
    <3>2. \A j \in S : j > k => j > i /\ j # k
      BY <1>2, <3>1
    <3> QED BY <1>2, <3>2
  <2> HIDE DEF after
  <2>2. IsFiniteSet(after(i)) /\ Cardinality(after(i)) \in Nat /\ Cardinality(after(k)) \in Nat
    BY <1>1
  <2>3. IsFiniteSet(after(i) \ {k}) /\ Cardinality(after(i) \ {k}) = Cardinality(after(i)) - 1
    BY <2>1, <2>2, FS_RemoveElement
  <2>4. Cardinality(after(k)) <= Cardinality(after(i) \ {k})
    BY <2>1, <2>3, FS_Subset
  <2> QED BY <2>2, <2>3, <2>4
<1>3. m \in Nat /\ T \in SUBSET S /\ R \in SUBSET S
  BY FS_CardinalityType
<1>4. \A i \in R : Cardinality(after(i)) >= size
  BY <1>1
<1> SUFFICES ASSUME T # S PROVE Cardinality(T) >= size
  OBVIOUS
<1>5. m > size
  <2>1. PICK i \in R : TRUE
    OBVIOUS
  <2> HIDE DEF after, m
  <2> QED BY <1>1, <1>3, <1>4, <2>1
<1>6. IsFiniteSet(size..(m - 1)) /\ Cardinality(size..(m - 1)) = m - size
  <2> HIDE DEF m
  <2>1. size \in Int /\ m - 1 \in Int /\ ~(size > m - 1)
    BY <1>3, <1>5
  <2>2. IsFiniteSet(size..(m - 1)) /\ Cardinality(size..(m - 1)) = (m - 1) - size + 1
    BY <2>1, FS_Interval
  <2> QED BY <1>3, <2>2
<1>7. rank \in Injection(R, size..(m - 1))
  <2>1. rank \in [R -> size..(m - 1)]
    <3> HIDE DEF after, m
    <3>1. ASSUME NEW i \in R PROVE Cardinality(after(i)) \in size..(m - 1)
      BY <1>1, <1>3, <1>4
    <3> QED BY <3>1
  <2>2. ASSUME NEW i \in R, NEW k \in R, rank[i] = rank[k] PROVE i = k
    <3>1. i \in S /\ k \in S /\ i \in Int /\ k \in Int
      BY <1>3
    <3>2. Cardinality(after(i)) = Cardinality(after(k))
      BY <2>2
    <3> HIDE DEF after
    <3>3. ~(i < k) /\ ~(k < i)
      BY <1>1, <1>2, <3>1, <3>2
    <3> QED BY <3>1, <3>3
  <2> HIDE DEF rank
  <2> QED BY <2>1, <2>2 DEF Injection, IsInjective
<1>8. Cardinality(R) <= m - size
  <2> HIDE DEF rank, R, m
  <2> QED BY <1>6, <1>7, FS_Injection
<1>9. Cardinality(T) = m - Cardinality(R) /\ Cardinality(R) \in Nat
  <2>1. T = S \ R /\ S \cap R = R /\ IsFiniteSet(R)
    BY <1>3, FS_Subset
  <2> HIDE DEF R
  <2> QED BY <2>1, FS_Difference, FS_CardinalityType
<1> HIDE DEF R, m
<1>10. Cardinality(T) \in Int
  BY <1>3, <1>9
<1> QED BY <1>3, <1>8, <1>9, <1>10

\* If the totals are in a proportion, so is some member.
LEMMA SomeAbove ==
  ASSUME NEW S, IsFiniteSet(S), NEW f, NEW g, \A x \in S : f[x] \in Nat /\ g[x] \in Nat,
         NEW p \in Nat, NEW q \in Nat, q * TotalOf(f, S) > p * TotalOf(g, S)
  PROVE  \E x \in S : q * f[x] > p * g[x]
<1> DEFINE Bad == {U \in SUBSET S : q * TotalOf(f, U) > p * TotalOf(g, U)}
<1>1. S \in Bad /\ Bad \subseteq SUBSET S
  OBVIOUS
<1>2. PICK U \in Bad : \A V \in Bad : ~(V \subseteq U /\ V # U)
  <2> HIDE DEF Bad
  <2> QED BY <1>1, MinimalSet
<1>3. U \in SUBSET S /\ q * TotalOf(f, U) > p * TotalOf(g, U)
  OBVIOUS
<1>4. IsFiniteSet(U)
  BY <1>3, FS_Subset
<1>5. U # {}
  <2> SUFFICES ASSUME U = {} PROVE FALSE
    OBVIOUS
  <2>1. TotalOf(f, U) = 0 /\ TotalOf(g, U) = 0
    BY TotalOfNone
  <2>2. q * 0 = 0 /\ p * 0 = 0
    OBVIOUS
  <2> QED BY <1>3, <2>1, <2>2
<1>6. PICK x \in U : TRUE
  BY <1>5
<1> DEFINE W == U \ {x}
<1>7. W \in SUBSET S /\ W \subseteq U /\ W # U /\ IsFiniteSet(W)
  BY <1>3, <1>4, <1>6, FS_RemoveElement
<1>8. ~(q * TotalOf(f, W) > p * TotalOf(g, W))
  BY <1>2, <1>7
<1>9. /\ \A y \in U : f[y] \in Int /\ g[y] \in Int
      /\ TotalOf(f, U) = f[x] + TotalOf(f, W) /\ TotalOf(g, U) = g[x] + TotalOf(g, W)
  <2>1. \A y \in U : f[y] \in Int /\ g[y] \in Int
    BY <1>3
  <2> QED BY <1>4, <1>6, <2>1, TotalWithout
<1>10. TotalOf(f, W) \in Nat /\ TotalOf(g, W) \in Nat /\ f[x] \in Nat /\ g[x] \in Nat
  <2>1. \A y \in W : f[y] \in Nat /\ g[y] \in Nat
    BY <1>7
  <2> HIDE DEF W
  <2> QED BY <1>3, <1>7, <2>1, TotalIsNat
<1> HIDE DEF W
<1>11. /\ q * (f[x] + TotalOf(f, W)) = q * f[x] + q * TotalOf(f, W)
       /\ p * (g[x] + TotalOf(g, W)) = p * g[x] + p * TotalOf(g, W)
       /\ q * f[x] \in Int /\ q * TotalOf(f, W) \in Int
       /\ p * g[x] \in Int /\ p * TotalOf(g, W) \in Int
  BY <1>10
<1>12. q * f[x] > p * g[x]
  BY <1>3, <1>8, <1>9, <1>11
<1> QED BY <1>3, <1>12

\* a / b is above c / d, which is no less than e / h.
LEMMA Proportions ==
  ASSUME NEW a \in Nat, NEW b \in Nat, NEW c \in Nat, NEW d \in Nat, NEW e \in Nat,
         NEW h \in Nat, d > 0, h > 0, a * d > c * b, c * h >= e * d
  PROVE  a * h > e * b
<1>1. /\ a * d \in Nat /\ c * b \in Nat /\ c * h \in Nat /\ e * d \in Nat
      /\ a * h \in Nat /\ e * b \in Nat
  OBVIOUS
<1>2. (a * d) * h > (c * b) * h
  BY <1>1
<1>3. (c * h) * b >= (e * d) * b
  BY <1>1
<1>4. /\ (a * d) * h = d * (a * h) /\ (c * b) * h = (c * h) * b
      /\ (e * d) * b = d * (e * b)
  OBVIOUS
<1>5. d * (a * h) > d * (e * b)
  <2>1. /\ d * (a * h) \in Int /\ d * (e * b) \in Int
        /\ (c * h) * b \in Int
    BY <1>1
  <2> QED BY <1>2, <1>3, <1>4, <2>1
<1>6. ASSUME a * h <= e * b PROVE FALSE
  <2>1. d * (a * h) <= d * (e * b)
    BY <1>1, <1>6
  <2> QED BY <1>1, <1>5, <2>1
<1> QED BY <1>1, <1>6

\* The whole quotient is at least k exactly if k divisors fit.
LEMMA QuotientAtLeast ==
  ASSUME NEW x \in Nat, NEW d \in Nat, d > 0, NEW k \in Nat
  PROVE  /\ x \div d \in Nat
         /\ x \div d >= k <=> x >= k * d
<1> DEFINE q == x \div d
           r == x % d
<1>1. q \in Int /\ r \in 0..(d - 1) /\ x = d * q + r
  OBVIOUS
<1> HIDE DEF q, r
<1>2. ASSUME q >= k PROVE x >= k * d
  <2>1. d * q >= d * k /\ d * k = k * d /\ d * q \in Int /\ k * d \in Int
    BY <1>1, <1>2
  <2> QED BY <1>1, <2>1
<1>3. ASSUME q < k PROVE x < k * d
  <2>1. d * (q + 1) <= d * k /\ d * (q + 1) = d * q + d /\ d * k = k * d
    BY <1>1, <1>3
  <2>2. d * q \in Int /\ k * d \in Int
    BY <1>1
  <2> QED BY <1>1, <2>1, <2>2
<1>4. q >= 0
  <2> SUFFICES ASSUME q < 0 PROVE FALSE
    BY <1>1
  <2>1. d * (q + 1) <= 0 /\ d * (q + 1) = d * q + d /\ d * q \in Int
    BY <1>1
  <2> QED BY <1>1, <2>1
<1>5. k * d \in Int
  OBVIOUS
<1> QED BY <1>1, <1>2, <1>3, <1>4, <1>5 DEF q

\* A quotient does not fall when more is divided by less.
LEMMA QuotientGrows ==
  ASSUME NEW x \in Nat, NEW y \in Nat, NEW d \in Nat, NEW e \in Nat,
         0 < e, e <= d, x <= y
  PROVE  /\ x \div d \in Nat /\ y \div e \in Nat
         /\ x \div d <= y \div e
<1> DEFINE k == x \div d
<1>1. k \in Nat
  BY QuotientAtLeast
<1>2. x >= k * d
  <2>1. x \div d >= k
    BY <1>1
  <2> HIDE DEF k
  <2> QED BY <1>1, <2>1, QuotientAtLeast
<1> HIDE DEF k
<1>3. k * e <= k * d /\ k * e \in Nat /\ k * d \in Nat
  BY <1>1
<1>4. y >= k * e
  BY <1>2, <1>3
<1>5. y \div e >= k /\ y \div e \in Nat
  BY <1>1, <1>4, QuotientAtLeast
<1> QED BY <1>1, <1>5 DEF k

-----------------------------------------------------------------------------
\* What Max and Min return.
LEMMA MaxIsLargest ==
  ASSUME NEW S \in SUBSET Int, IsFiniteSet(S), S # {}
  PROVE  Max(S) \in S /\ \A x \in S : x <= Max(S)
<1>1. PICK m \in S : \A x \in S : x <= m
  BY LargestNumber
<1>2. \A x \in S : m >= x
  BY <1>1
<1>3. Max(S) \in S /\ \A x \in S : Max(S) >= x
  BY <1>2 DEF Max
<1>4. Max(S) \in Int /\ \A x \in S : x \in Int
  BY <1>3
<1> QED BY <1>3, <1>4

LEMMA MinIsLeast ==
  ASSUME NEW S \in SUBSET Int, IsFiniteSet(S), S # {}
  PROVE  Min(S) \in S /\ \A x \in S : Min(S) <= x
<1> DEFINE f == [x \in S |-> x]
<1>1. PICK m \in S : \A x \in S : f[m] <= f[x]
  <2>1. \A x \in S : f[x] \in Int
    OBVIOUS
  <2> HIDE DEF f
  <2> QED BY <2>1, LeastMember
<1>2. \A x \in S : m <= x
  BY <1>1
<1> QED BY <1>2 DEF Min

\* The largest and the smallest of the numbers a function takes on a finite set.
LEMMA MaxOfImage ==
  ASSUME NEW S, IsFiniteSet(S), S # {}, NEW f, \A x \in S : f[x] \in Int
  PROVE  /\ Max({f[x] : x \in S}) \in Int
         /\ \E x \in S : Max({f[y] : y \in S}) = f[x]
         /\ \A x \in S : f[x] <= Max({f[y] : y \in S})
<1> DEFINE g == [x \in S |-> - f[x]]
           T == {f[x] : x \in S}
<1>1. PICK m \in S : \A x \in S : g[m] <= g[x]
  <2>1. \A x \in S : g[x] \in Int
    OBVIOUS
  <2> HIDE DEF g
  <2> QED BY <2>1, LeastMember
<1>2. \A x \in S : f[m] >= f[x]
  BY <1>1
<1>3. f[m] \in T /\ \A y \in T : f[m] >= y
  BY <1>2
<1>4. \A y \in T : y \in Int
  OBVIOUS
<1>5. Max(T) \in T /\ \A y \in T : Max(T) >= y
  <2> HIDE DEF T
  <2> QED BY <1>3 DEF Max
<1> HIDE DEF T
<1>6. Max(T) = f[m]
  BY <1>3, <1>4, <1>5
<1> QED BY <1>2, <1>6 DEF T

LEMMA MinOfImage ==
  ASSUME NEW S, IsFiniteSet(S), S # {}, NEW f, \A x \in S : f[x] \in Int
  PROVE  /\ Min({f[x] : x \in S}) \in Int
         /\ \E x \in S : Min({f[y] : y \in S}) = f[x]
         /\ \A x \in S : Min({f[y] : y \in S}) <= f[x]
<1> DEFINE T == {f[x] : x \in S}
<1>1. PICK m \in S : \A x \in S : f[m] <= f[x]
  BY LeastMember
<1>3. f[m] \in T /\ \A y \in T : f[m] <= y
  BY <1>1
<1>4. \A y \in T : y \in Int
  OBVIOUS
<1>5. Min(T) \in T /\ \A y \in T : Min(T) <= y
  <2> HIDE DEF T
  <2> QED BY <1>3 DEF Min
<1> HIDE DEF T
<1>6. Min(T) = f[m]
  BY <1>3, <1>4, <1>5
<1> QED BY <1>1, <1>6 DEF T

\* A finite set that is not empty has a first member by three numbers in turn.
LEMMA FirstInOrder ==
  ASSUME NEW S, IsFiniteSet(S), S # {}, NEW f, NEW g, NEW h,
         \A x \in S : f[x] \in Int /\ g[x] \in Int /\ h[x] \in Int
  PROVE  \E m \in S : \A x \in S :
           \/ f[m] < f[x]
           \/ f[m] = f[x] /\ g[m] < g[x]
           \/ f[m] = f[x] /\ g[m] = g[x] /\ h[m] <= h[x]
<1>1. PICK a \in S : \A x \in S : f[a] <= f[x]
  BY LeastMember
<1> DEFINE A == {x \in S : f[x] = f[a]}
<1>2. IsFiniteSet(A) /\ A # {} /\ A \subseteq S
  <2>1. A \in SUBSET S /\ a \in A
    OBVIOUS
  <2> HIDE DEF A
  <2> QED BY <2>1, FS_Subset
<1>3. PICK b \in A : \A x \in A : g[b] <= g[x]
  <2> HIDE DEF A
  <2>1. \A x \in A : g[x] \in Int
    BY <1>2
  <2> QED BY <1>2, <2>1, LeastMember
<1> DEFINE B == {x \in A : g[x] = g[b]}
<1>4. IsFiniteSet(B) /\ B # {} /\ B \subseteq A
  <2> HIDE DEF A
  <2>1. B \in SUBSET A /\ b \in B
    BY <1>3
  <2> HIDE DEF B
  <2> QED BY <1>2, <2>1, FS_Subset
<1>5. PICK c \in B : \A x \in B : h[c] <= h[x]
  <2> HIDE DEF A, B
  <2>1. \A x \in B : h[x] \in Int
    BY <1>2, <1>4
  <2> QED BY <1>4, <2>1, LeastMember
<1>6. c \in S /\ f[c] = f[a] /\ g[c] = g[b]
  OBVIOUS
<1>7. ASSUME NEW x \in S
      PROVE  \/ f[c] < f[x]
             \/ f[c] = f[x] /\ g[c] < g[x]
             \/ f[c] = f[x] /\ g[c] = g[x] /\ h[c] <= h[x]
  <2>1. CASE x \notin A
    <3>1. f[x] # f[a]
      BY <2>1
    <3> QED BY <1>1, <1>6, <3>1
  <2>2. CASE x \in A /\ x \notin B
    <3>1. f[x] = f[a] /\ g[x] # g[b] /\ g[b] <= g[x] /\ b \in S
      BY <2>2, <1>3
    <3> QED BY <1>6, <3>1
  <2>3. CASE x \in B
    <3>1. f[x] = f[a] /\ g[x] = g[b] /\ h[c] <= h[x]
      BY <2>3, <1>5
    <3> QED BY <1>6, <3>1
  <2> QED BY <2>1, <2>2, <2>3
<1> QED BY <1>6, <1>7
\* Members with different numbers have all ranks, from none below to all others below.
LEMMA RankIsTaken ==
  ASSUME NEW S, IsFiniteSet(S), NEW f, \A x \in S : f[x] \in Int,
         \A x, y \in S : f[x] = f[y] => x = y, NEW k \in 0..(Cardinality(S) - 1)
  PROVE  \E x \in S, B \in SUBSET S :
           Cardinality(B) = k /\ \A y \in S : y \in B <=> f[y] < f[x]
<1> DEFINE below(x) == {y \in S : f[y] < f[x]}
           m == Cardinality(S)
           rank == [x \in S |-> Cardinality(below(x))]
<1>1. m \in Nat
  BY FS_CardinalityType
<1>2. ASSUME NEW x \in S
      PROVE  IsFiniteSet(below(x)) /\ Cardinality(below(x)) \in 0..(m - 1)
  <2>1. below(x) \in SUBSET (S \ {x})
    OBVIOUS
  <2>2. IsFiniteSet(S \ {x}) /\ Cardinality(S \ {x}) = m - 1
    BY FS_RemoveElement
  <2> HIDE DEF below, m
  <2>3. IsFiniteSet(below(x)) /\ Cardinality(below(x)) <= m - 1
    BY <2>1, <2>2, FS_Subset
  <2> QED BY <1>1, <2>3, FS_CardinalityType
<1>3. ASSUME NEW x \in S, NEW y \in S, f[x] < f[y]
      PROVE  Cardinality(below(x)) < Cardinality(below(y))
  <2>1. f[x] \in Int /\ f[y] \in Int /\ \A z \in S : f[z] \in Int
    OBVIOUS
  <2>2. below(x) \in SUBSET (below(y) \ {x}) /\ x \in below(y)
    <3>1. \A z \in S : f[z] < f[x] => f[z] < f[y] /\ z # x
      BY <1>3, <2>1
    <3> QED BY <1>3, <3>1
  <2> HIDE DEF below, m
  <2>3. /\ IsFiniteSet(below(y)) /\ Cardinality(below(y)) \in Int
        /\ Cardinality(below(x)) \in Int
    BY <1>1, <1>2
  <2>4. IsFiniteSet(below(y) \ {x}) /\ Cardinality(below(y) \ {x}) = Cardinality(below(y)) - 1
    BY <2>2, <2>3, FS_RemoveElement
  <2>5. Cardinality(below(x)) <= Cardinality(below(y) \ {x})
    BY <2>2, <2>4, FS_Subset
  <2> QED BY <2>3, <2>4, <2>5
<1>4. rank \in Injection(S, 0..(m - 1))
  <2>1. rank \in [S -> 0..(m - 1)]
    <3> HIDE DEF below, m
    <3> QED BY <1>2
  <2>2. ASSUME NEW x \in S, NEW y \in S, rank[x] = rank[y] PROVE x = y
    <3>1. Cardinality(below(x)) = Cardinality(below(y))
      BY <2>2
    <3> HIDE DEF below, m
    <3>2. Cardinality(below(x)) \in Int /\ f[x] \in Int /\ f[y] \in Int
      BY <1>1, <1>2
    <3>3. ~(f[x] < f[y]) /\ ~(f[y] < f[x])
      BY <1>3, <3>1, <3>2
    <3> QED BY <3>2, <3>3
  <2> HIDE DEF rank
  <2> QED BY <2>1, <2>2 DEF Injection, IsInjective
<1>5. IsFiniteSet(0..(m - 1)) /\ Cardinality(0..(m - 1)) = m
  <2> HIDE DEF m
  <2>1. 0 \in Int /\ m - 1 \in Int
    BY <1>1
  <2>2. IsFiniteSet(0..(m - 1)) /\ Cardinality(0..(m - 1)) = IF 0 > m - 1 THEN 0 ELSE m - 1 - 0 + 1
    BY <2>1, FS_Interval
  <2> QED BY <1>1, <2>2
<1>6. rank \in Surjection(S, 0..(m - 1))
  <2> HIDE DEF rank
  <2> QED BY <1>4, <1>5, FS_Injection
<1>7. PICK x \in S : rank[x] = k
  <2> HIDE DEF rank
  <2> QED BY <1>6 DEF Surjection
<1>8. below(x) \in SUBSET S /\ Cardinality(below(x)) = k
  BY <1>7
<1> QED BY <1>8

\* Numbered alike, sets are of one size.
LEMMA SameSize ==
  ASSUME NEW X, IsFiniteSet(X), NEW Z, NEW f,
         \A x \in X : f[x] \in Z, \A z \in Z : \E x \in X : f[x] = z,
         \A x, y \in X : f[x] = f[y] => x = y
  PROVE  Cardinality(Z) = Cardinality(X)
<1> DEFINE h == [x \in X |-> f[x]]
<1>1. h \in Bijection(X, Z)
  BY DEF Bijection, Injection, Surjection, IsInjective
<1>2. ExistsBijection(X, Z)
  BY <1>1 DEF ExistsBijection
<1> QED BY <1>2, FS_Bijection

\* Counting up: what holds of zero and goes from one number to the next holds of all.
LEMMA CountingUp ==
  ASSUME NEW N \in Nat, NEW G, 0 \in G, \A n \in 0..(N - 1) : n \in G => n + 1 \in G
  PROVE  0..N \subseteq G
<1> DEFINE Bad == {n \in 0..N : n \notin G}
           f == [n \in Bad |-> n]
<1>1. SUFFICES ASSUME Bad # {} PROVE FALSE
  OBVIOUS
<1>2. IsFiniteSet(Bad)
  <2>1. IsFiniteSet(0..N) /\ Bad \in SUBSET (0..N)
    BY FS_Interval
  <2> HIDE DEF Bad
  <2> QED BY <2>1, FS_Subset
<1>3. PICK m \in Bad : \A n \in Bad : m <= n
  <2>1. \A n \in Bad : f[n] \in Int
    OBVIOUS
  <2>2. PICK m \in Bad : \A n \in Bad : f[m] <= f[n]
    <3> HIDE DEF f, Bad
    <3> QED BY <1>1, <1>2, <2>1, LeastMember
  <2> QED BY <2>2
<1>4. m \in 1..N
  BY <1>3
<1>5. m - 1 \in 0..(N - 1) /\ m - 1 \notin Bad
  BY <1>3, <1>4
<1> QED BY <1>4, <1>5, <1>3

\* Counting down.
LEMMA CountingDown ==
  ASSUME NEW N \in Nat, NEW G,
         \A n \in 0..N : (\A k \in (n + 1)..N : k \in G) => n \in G
  PROVE  0..N \subseteq G
<1> DEFINE Bad == {n \in 0..N : n \notin G}
<1>1. SUFFICES ASSUME Bad # {} PROVE FALSE
  OBVIOUS
<1>2. IsFiniteSet(Bad)
  <2>1. IsFiniteSet(0..N) /\ Bad \in SUBSET (0..N)
    BY FS_Interval
  <2> HIDE DEF Bad
  <2> QED BY <2>1, FS_Subset
<1>3. PICK m \in Bad : \A n \in Bad : n <= m
  <2>1. Bad \subseteq Int
    OBVIOUS
  <2> HIDE DEF Bad
  <2> QED BY <1>1, <1>2, <2>1, LargestNumber
<1>4. m \in 0..N /\ m \notin G
  BY <1>3
<1>5. \A k \in (m + 1)..N : k \in G
  <2> SUFFICES ASSUME NEW k \in (m + 1)..N, k \notin G PROVE FALSE
    OBVIOUS
  <2>1. k \in 0..N
    BY <1>4
  <2>2. k \in Bad
    BY <2>1
  <2>3. k <= m
    BY <1>3, <2>2
  <2> QED BY <2>1, <2>3, <1>4
<1> QED BY <1>4, <1>5
=============================================================================
