------------------------------ MODULE Counting ------------------------------
(* Induction over the natural numbers, in a form in which it can be cited: *)
(* what is proved of every number is that it belongs to a set; and what    *)
(* counting has to do with order: least numbers and sorting.               *)
EXTENDS Integers, FiniteSets, FiniteSetTheorems, FunctionTheorems, WellFoundedInduction, TLAPS

(* A set of natural numbers has a least one: the numbers below its members *)
(* make finite sets, and inclusion of finite sets is well-founded.         *)
LEMMA LeastNumber ==
  ASSUME NEW S, S \subseteq Nat, S # {}
  PROVE  \E m \in S : \A k \in S : m <= k
<1>1. PICK n \in Nat : n \in S
  OBVIOUS
<1> DEFINE U == 0..n
           Below(m) == {j \in U : j < m}
           T == {Below(m) : m \in S \cap U}
<1>2. IsFiniteSet(U)
  BY <1>1, FS_Interval
<1>3. T \subseteq FiniteSubsetsOf(U)
  <2>1. \A m \in S \cap U : Below(m) \subseteq U /\ IsFiniteSet(Below(m))
    BY <1>2, FS_Subset, Zenon
  <2> QED BY <2>1 DEF FiniteSubsetsOf
<1>4. Below(n) \in T
  BY <1>1
<1>5. IsWellFoundedOn(StrictSubsetOrdering(U), FiniteSubsetsOf(U))
  BY FS_StrictSubsetOrderingWellFounded
<1>6. \E x \in T : \A y \in T : ~(<<y, x>> \in StrictSubsetOrdering(U))
  <2> HIDE DEF T
  <2> QED BY <1>3, <1>4, <1>5, WFMin
<1>7. PICK m \in S \cap U : \A y \in T : ~(<<y, Below(m)>> \in StrictSubsetOrdering(U))
  BY <1>6
<1>8. \A k \in S : m <= k
  <2> SUFFICES ASSUME NEW k \in S, k < m PROVE FALSE
    OBVIOUS
  <2>1. k \in S \cap U
    BY <1>1, <1>7
  <2>2. Below(k) \in T
    BY <2>1
  <2>3. Below(k) \subseteq Below(m) /\ Below(k) # Below(m)
    <3>1. k \in Below(m) /\ k \notin Below(k)
      BY <2>1
    <3>2. \A j \in Below(k) : j \in Below(m)
      BY <2>1, <1>7
    <3> QED BY <3>1, <3>2
  <2>4. Below(k) \subseteq U /\ Below(m) \subseteq U
    OBVIOUS
  <2>5. <<Below(k), Below(m)>> \in StrictSubsetOrdering(U)
    <3> HIDE DEF Below
    <3> QED BY <2>3, <2>4 DEF StrictSubsetOrdering
  <2> QED BY <1>7, <2>2, <2>5
<1> QED BY <1>7, <1>8

(* A set that holds 0 and with each number the next holds all of them.     *)
LEMMA Induction ==
  ASSUME NEW S, 0 \in S, \A n \in Nat : n \in S => n + 1 \in S
  PROVE  Nat \subseteq S
<1> SUFFICES ASSUME NEW x \in Nat, x \notin S PROVE FALSE
  OBVIOUS
<1>1. PICK m \in Nat \ S : \A k \in Nat \ S : m <= k
  <2>1. Nat \ S \subseteq Nat /\ Nat \ S # {}
    OBVIOUS
  <2> QED BY <2>1, LeastNumber
<1>2. m # 0 /\ m - 1 \in Nat /\ m - 1 \in S
  BY <1>1
<1> QED BY <1>1, <1>2

StepFunctions(A) == [Nat \X A -> A]

Recursion(f, A, a, G) ==
  /\ f \in [Nat -> A]
  /\ f[0] = a
  /\ \A n \in Nat : f[n + 1] = G[<<n, f[n]>>]

(* A function defined by recursion over the numbers exists: beginnings of  *)
(* it exist and agree with each other.                                     *)
LEMMA RecursiveFunction ==
  ASSUME NEW A, NEW a \in A, NEW G \in StepFunctions(A)
  PROVE  \E f : Recursion(f, A, a, G)
<1> USE DEF StepFunctions
<1> DEFINE Begins(f, n) == /\ f[0] = a
                           /\ \A i \in 0..(n - 1) : f[i + 1] = G[<<i, f[i]>>]
           S == {n \in Nat : \E f \in [0..n -> A] : Begins(f, n)}
<1>1. Nat \subseteq S
  <2>1. 0 \in S
    <3>1. [i \in 0..0 |-> a] \in [0..0 -> A] /\ Begins([i \in 0..0 |-> a], 0)
      OBVIOUS
    <3> QED BY <3>1
  <2>2. ASSUME NEW n \in Nat, n \in S PROVE n + 1 \in S
    <3>1. PICK f \in [0..n -> A] : Begins(f, n)
      BY <2>2
    <3> DEFINE g == [i \in 0..(n + 1) |-> IF i = n + 1 THEN G[<<n, f[n]>>] ELSE f[i]]
    <3>2. g \in [0..(n + 1) -> A]
      <4>1. f[n] \in A
        BY <3>1
      <4>2. G[<<n, f[n]>>] \in A
        BY <4>1
      <4> QED BY <4>2
    <3>3. g[0] = a
      BY <3>1
    <3>4. ASSUME NEW i \in 0..n PROVE g[i + 1] = G[<<i, g[i]>>]
      <4>1. CASE i = n
        <5>1. g[n + 1] = G[<<n, f[n]>>] /\ g[n] = f[n]
          OBVIOUS
        <5> HIDE DEF g
        <5> QED BY <4>1, <5>1
      <4>2. CASE i < n
        <5>1. i \in 0..(n - 1) /\ i + 1 \in 0..n /\ i # n + 1 /\ i + 1 # n + 1
          BY <4>2
        <5>2. g[i + 1] = f[i + 1] /\ g[i] = f[i]
          BY <5>1
        <5> QED BY <5>1, <5>2, <3>1
      <4> QED BY <4>1, <4>2
    <3>5. Begins(g, n + 1)
      <4>1. 0..((n + 1) - 1) = 0..n
        OBVIOUS
      <4> HIDE DEF g
      <4> QED BY <3>3, <3>4, <4>1
    <3> HIDE DEF g, Begins
    <3> QED BY <3>2, <3>5
  <2> HIDE DEF S
  <2> QED BY <2>1, <2>2, Induction
<1>2. ASSUME NEW f, NEW g, NEW m \in Nat, NEW n \in Nat, m <= n, Begins(f, m), Begins(g, n)
      PROVE  f[m] = g[m]
  <2> DEFINE E == {i \in Nat : i <= m => f[i] = g[i]}
  <2>1. 0 \in E
    BY <1>2
  <2>2. ASSUME NEW i \in Nat, i \in E PROVE i + 1 \in E
    <3> SUFFICES ASSUME i + 1 <= m PROVE f[i + 1] = g[i + 1]
      OBVIOUS
    <3>1. i \in 0..(m - 1) /\ i \in 0..(n - 1)
      BY <1>2
    <3>2. f[i] = g[i]
      BY <2>2, <3>1
    <3> QED BY <3>1, <3>2, <1>2
  <2>3. Nat \subseteq E
    <3> HIDE DEF E
    <3> QED BY <2>1, <2>2, Induction
  <2> QED BY <2>3
<1> DEFINE h(n) == CHOOSE f \in [0..n -> A] : Begins(f, n)
           F == [n \in Nat |-> h(n)[n]]
<1>3. ASSUME NEW n \in Nat PROVE h(n) \in [0..n -> A] /\ Begins(h(n), n)
  <2>1. \E f \in [0..n -> A] : Begins(f, n)
    BY <1>1
  <2> HIDE DEF Begins
  <2> QED BY <2>1
<1>4. F \in [Nat -> A]
  <2>1. \A n \in Nat : h(n)[n] \in A
    <3> HIDE DEF h
    <3> QED BY <1>3
  <2> HIDE DEF h
  <2> QED BY <2>1
<1>5. F[0] = a
  <2> HIDE DEF h
  <2> QED BY <1>3
<1>6. ASSUME NEW n \in Nat PROVE F[n + 1] = G[<<n, F[n]>>]
  <2>1. Begins(h(n), n) /\ Begins(h(n + 1), n + 1)
    <3>1. n + 1 \in Nat
      OBVIOUS
    <3> HIDE DEF h, Begins
    <3> QED BY <1>3, <3>1
  <2>2. h(n)[n] = h(n + 1)[n]
    <3> HIDE DEF h, Begins
    <3>1. n \in Nat /\ n + 1 \in Nat /\ n <= n + 1
      OBVIOUS
    <3> QED BY <2>1, <3>1, <1>2
  <2>3. n \in 0..((n + 1) - 1)
    OBVIOUS
  <2>4. h(n + 1)[n + 1] = G[<<n, h(n + 1)[n]>>]
    <3> HIDE DEF h
    <3> QED BY <2>1, <2>3
  <2> HIDE DEF h
  <2> QED BY <2>2, <2>4
<1> QED
  <2> HIDE DEF F
  <2>1. Recursion(F, A, a, G)
    BY <1>4, <1>5, <1>6 DEF Recursion
  <2> QED BY <2>1

-----------------------------------------------------------------------------

(* A finite set of numbers has a least one, for the same reason.           *)
LEMMA FiniteMinimum ==
  ASSUME NEW S, IsFiniteSet(S), S \subseteq Int, S # {}
  PROVE  \E m \in S : \A k \in S : m <= k
<1> DEFINE Below(m) == {j \in S : j < m}
           T == {Below(m) : m \in S}
<1>1. T \subseteq FiniteSubsetsOf(S)
  <2>1. \A m \in S : Below(m) \subseteq S /\ IsFiniteSet(Below(m))
    BY FS_Subset, Zenon
  <2> QED BY <2>1 DEF FiniteSubsetsOf
<1>2. T # {}
  OBVIOUS
<1>3. IsWellFoundedOn(StrictSubsetOrdering(S), FiniteSubsetsOf(S))
  BY FS_StrictSubsetOrderingWellFounded
<1>4. \E x \in T : \A y \in T : ~(<<y, x>> \in StrictSubsetOrdering(S))
  <2> HIDE DEF T
  <2> QED BY <1>1, <1>2, <1>3, WFMin
<1>5. PICK m \in S : \A y \in T : ~(<<y, Below(m)>> \in StrictSubsetOrdering(S))
  BY <1>4
<1>6. \A k \in S : m <= k
  <2> SUFFICES ASSUME NEW k \in S, k < m PROVE FALSE
    OBVIOUS
  <2>1. Below(k) \in T
    OBVIOUS
  <2>2. Below(k) \subseteq Below(m) /\ Below(k) # Below(m)
    <3>1. k \in Below(m) /\ k \notin Below(k)
      OBVIOUS
    <3>2. \A j \in Below(k) : j \in Below(m)
      OBVIOUS
    <3> QED BY <3>1, <3>2
  <2>3. Below(k) \subseteq S /\ Below(m) \subseteq S
    OBVIOUS
  <2>4. <<Below(k), Below(m)>> \in StrictSubsetOrdering(S)
    <3> HIDE DEF Below
    <3> QED BY <2>2, <2>3 DEF StrictSubsetOrdering
  <2> QED BY <1>5, <2>1, <2>4
<1> QED BY <1>6

(* What a quotient leaves over.                                            *)
LEMMA Quotient ==
  ASSUME NEW a \in Nat, NEW n \in Nat \ {0}
  PROVE  a \div n \in Nat /\ n * (a \div n) <= a /\ a < n * (a \div n) + n
OBVIOUS

(* What is mapped one to one is no more than what it is mapped to.         *)
LEMMA OneToOne ==
  ASSUME NEW S, NEW T, IsFiniteSet(T), NEW f \in [S -> T], \A x, y \in S : f[x] = f[y] => x = y
  PROVE  /\ IsFiniteSet(S) /\ Cardinality(S) <= Cardinality(T)
         /\ (\A t \in T : \E x \in S : f[x] = t) => Cardinality(S) = Cardinality(T)
<1>1. f \in Injection(S, T)
  BY DEF Injection, IsInjective
<1>2. (\A t \in T : \E x \in S : f[x] = t) => f \in Surjection(S, T)
  BY DEF Surjection
<1> QED BY <1>1, <1>2, FS_Injection

(* What is mapped onto is no more than what is mapped.                     *)
LEMMA Onto ==
  ASSUME NEW S, NEW T, IsFiniteSet(S), NEW f \in [S -> T], \A t \in T : \E x \in S : f[x] = t
  PROVE  IsFiniteSet(T) /\ Cardinality(T) <= Cardinality(S)
<1>1. f \in Surjection(S, T)
  BY DEF Surjection
<1> QED BY <1>1, FS_Surjection

(* How many of the first n of s are at most d.                             *)
CountUpTo(n, s, d) == Cardinality({i \in 1..n : s[i] <= d})

(* The numbers of v, as many of each, in ascending order.                  *)
Sorts(s, n, R, v) ==
  /\ \A i, j \in 1..n : i < j => s[i] <= s[j]
  /\ \A d \in R : CountUpTo(n, s, d) = CountUpTo(n, v, d)

(* Numbers can be put in ascending order: in the k-th place comes the      *)
(* least of them that at least k do not exceed.                            *)
LEMMA SortingExists ==
  ASSUME NEW n \in Nat \ {0}, NEW R, IsFiniteSet(R), R \subseteq Int, NEW v \in [1..n -> R],
         \A r \in R : \E i \in 1..n : v[i] = r
  PROVE  \E s \in [1..n -> R] : Sorts(s, n, R, v)
<1> DEFINE C(d) == CountUpTo(n, v, d)
           E(k) == {d \in R : C(d) >= k}
<1>1. \A d \in R : C(d) \in 0..n
  <2> SUFFICES ASSUME NEW d \in R PROVE C(d) \in 0..n
    OBVIOUS
  <2>1. IsFiniteSet(1..n) /\ Cardinality(1..n) = n
    BY FS_Interval
  <2>2. {i \in 1..n : v[i] <= d} \in SUBSET (1..n)
    OBVIOUS
  <2>3. C(d) <= n
    BY <2>1, <2>2, FS_Subset DEF CountUpTo
  <2>4. C(d) \in Nat
    BY <2>1, <2>2, FS_Subset, FS_CardinalityType DEF CountUpTo
  <2> HIDE DEF C
  <2> QED BY <2>3, <2>4
<1>2. \A c, d \in R : c <= d => C(c) <= C(d)
  <2> SUFFICES ASSUME NEW c \in R, NEW d \in R, c <= d PROVE C(c) <= C(d)
    OBVIOUS
  <2>1. IsFiniteSet({i \in 1..n : v[i] <= d})
    <3>1. IsFiniteSet(1..n)
      BY FS_Interval
    <3> QED BY <3>1, FS_Subset
  <2>2. {i \in 1..n : v[i] <= c} \subseteq {i \in 1..n : v[i] <= d}
    <3>1. \A r \in R : r <= c => r <= d
      OBVIOUS
    <3> QED BY <3>1
  <2> QED BY <2>1, <2>2, FS_Subset DEF CountUpTo
<1>3. \A k \in 1..n : E(k) # {}
  <2> SUFFICES ASSUME NEW k \in 1..n PROVE \E d \in R : C(d) >= k
    OBVIOUS
  <2> DEFINE N == {-r : r \in R}
  <2>1. \E m \in N : \A x \in N : m <= x
    <3>1. IsFiniteSet(N)
      <4> DEFINE f == [r \in R |-> -r]
      <4>1. f \in [R -> N] /\ \A t \in N : \E x \in R : f[x] = t
        OBVIOUS
      <4> HIDE DEF f, N
      <4> QED BY <4>1, Onto
    <3>2. N \subseteq Int
      OBVIOUS
    <3>3. N # {}
      <4>1. v[1] \in R
        OBVIOUS
      <4> QED BY <4>1
    <3> HIDE DEF N
    <3> QED BY <3>1, <3>2, <3>3, FiniteMinimum
  <2>2. PICK d \in R : \A r \in R : r <= d
    <3>1. PICK d \in R : \A x \in N : -d <= x
      BY <2>1
    <3>2. \A r \in R : -d <= -r
      BY <3>1
    <3>3. \A r \in R : r <= d
      BY <3>2
    <3> QED BY <3>3
  <2>3. {i \in 1..n : v[i] <= d} = 1..n
    BY <2>2
  <2>4. C(d) = n
    <3>1. Cardinality(1..n) = n
      BY FS_Interval
    <3> QED BY <2>3, <3>1 DEF CountUpTo
  <2> HIDE DEF C
  <2> QED BY <2>4
<1>4. \A k \in 1..n : \E m \in E(k) : \A x \in E(k) : m <= x
  <2> SUFFICES ASSUME NEW k \in 1..n PROVE \E m \in E(k) : \A x \in E(k) : m <= x
    OBVIOUS
  <2>1. IsFiniteSet(E(k)) /\ E(k) \subseteq Int
    BY FS_Subset
  <2>2. E(k) # {}
    BY <1>3
  <2> HIDE DEF E
  <2> QED BY <2>1, <2>2, FiniteMinimum
<1> DEFINE s == [k \in 1..n |-> CHOOSE m \in E(k) : \A x \in E(k) : m <= x]
<1>5. \A k \in 1..n : s[k] \in E(k) /\ \A x \in E(k) : s[k] <= x
  BY <1>4
<1> HIDE DEF s
<1>6. \A k \in 1..n : s[k] \in R /\ C(s[k]) >= k
  BY <1>5
<1>7. \A k \in 1..n, d \in R : s[k] <= d <=> k <= C(d)
  <2> SUFFICES ASSUME NEW k \in 1..n, NEW d \in R PROVE s[k] <= d <=> k <= C(d)
    OBVIOUS
  <2>1. ASSUME s[k] <= d PROVE k <= C(d)
    <3>1. C(s[k]) <= C(d) /\ C(s[k]) >= k /\ C(d) \in 0..n /\ C(s[k]) \in 0..n
      BY <1>1, <1>2, <1>6, <2>1
    <3> HIDE DEF C
    <3> QED BY <3>1
  <2>2. ASSUME k <= C(d) PROVE s[k] <= d
    <3>1. d \in E(k)
      <4>1. C(d) >= k
        <5>1. C(d) \in 0..n
          BY <1>1
        <5> HIDE DEF C
        <5> QED BY <2>2, <5>1
      <4> HIDE DEF C
      <4> QED BY <4>1
    <3> QED BY <1>5, <3>1
  <2> QED BY <2>1, <2>2
<1> HIDE DEF C
<1>8. \A i, j \in 1..n : i < j => s[i] <= s[j]
  <2> SUFFICES ASSUME NEW i \in 1..n, NEW j \in 1..n, i < j PROVE s[i] <= s[j]
    OBVIOUS
  <2>1. s[j] \in R /\ C(s[j]) >= j /\ C(s[j]) \in 0..n
    BY <1>1, <1>6
  <2>2. i <= C(s[j])
    BY <2>1
  <2> QED BY <1>7, <2>1, <2>2
<1>9. \A d \in R : CountUpTo(n, s, d) = C(d)
  <2> SUFFICES ASSUME NEW d \in R PROVE CountUpTo(n, s, d) = C(d)
    OBVIOUS
  <2>1. C(d) \in 0..n
    BY <1>1
  <2>2. {i \in 1..n : s[i] <= d} = 1..C(d)
    <3>1. \A i \in 1..n : s[i] <= d <=> i <= C(d)
      BY <1>7
    <3> QED BY <2>1, <3>1
  <2>3. Cardinality(1..C(d)) = C(d)
    BY <2>1, FS_Interval
  <2> QED BY <2>2, <2>3 DEF CountUpTo
<1>10. s \in [1..n -> R]
  BY <1>6 DEF s
<1> QED BY <1>8, <1>9, <1>10 DEF C, Sorts

-----------------------------------------------------------------------------
(* Folds.                                                                  *)

Greatest(s) == CHOOSE x \in s : \A y \in s : x >= y

(* The numbers up to k + 1 are k + 1 and those up to k. *)
LEMMA GreatestUpTo ==
  ASSUME NEW k \in Nat
  PROVE  /\ 1..(k + 1) # {} /\ Greatest(1..(k + 1)) = k + 1
         /\ (1..(k + 1)) \ {k + 1} = 1..k
<1>1. k + 1 \in 1..(k + 1) /\ \A y \in 1..(k + 1) : k + 1 >= y
  OBVIOUS
<1>2. \A x \in 1..(k + 1) : (\A y \in 1..(k + 1) : x >= y) => x = k + 1
  BY <1>1
<1>3. Greatest(1..(k + 1)) = k + 1
  BY <1>1, <1>2 DEF Greatest
<1>4. (1..(k + 1)) \ {k + 1} = 1..k
  OBVIOUS
<1> QED BY <1>1, <1>3, <1>4

LEMMA GreatestIs ==
  ASSUME NEW s, s \subseteq Int, NEW m \in s, \A y \in s : m >= y
  PROVE  Greatest(s) = m
<1>1. \A x \in s : (\A y \in s : x >= y) => x = m
  <2> SUFFICES ASSUME NEW x \in s, \A y \in s : x >= y PROVE x = m
    OBVIOUS
  <2>1. x >= m /\ m >= x /\ x \in Int /\ m \in Int
    OBVIOUS
  <2> QED BY <2>1
<1> QED BY <1>1, Zenon DEF Greatest

(* A fold over the sets of places exists: what a set comes to is found by  *)
(* taking its greatest place off.                                          *)
IsFold(f, n, A, base, G) ==
  /\ f \in [SUBSET (1..n) -> A]
  /\ \A s \in SUBSET (1..n) :
       f[s] = IF s = {} THEN base ELSE G[<<f[s \ {Greatest(s)}], Greatest(s)>>]

LEMMA FoldExists ==
  ASSUME NEW n \in Nat, NEW A, NEW base \in A, NEW G \in [A \X (1..n) -> A]
  PROVE  \E f : IsFold(f, n, A, base, G)
<1> DEFINE P == SUBSET (1..n)
           B == [P -> A]
           next(k, F) == [s \in P |-> IF k + 1 \in s THEN G[<<F[s \ {k + 1}], k + 1>>] ELSE F[s]]
           H == [p \in Nat \X B |-> next(p[1], p[2])]
           start == [s \in P |-> base]
<1>1. start \in B
  OBVIOUS
<1>2. H \in StepFunctions(B)
  <2>1. ASSUME NEW k \in Nat, NEW F \in B PROVE next(k, F) \in B
    <3>1. ASSUME NEW s \in P PROVE (IF k + 1 \in s THEN G[<<F[s \ {k + 1}], k + 1>>] ELSE F[s]) \in A
      <4>1. s \ {k + 1} \in P /\ F[s] \in A
        OBVIOUS
      <4>2. F[s \ {k + 1}] \in A
        BY <4>1
      <4>3. k + 1 \in s => <<F[s \ {k + 1}], k + 1>> \in A \X (1..n)
        BY <4>2
      <4> HIDE DEF P, B
      <4> QED BY <4>1, <4>3
    <3> QED BY <3>1
  <2>2. \A p \in Nat \X B : next(p[1], p[2]) \in B
    <3> HIDE DEF next, B
    <3> QED BY <2>1
  <2> HIDE DEF next, B
  <2> QED BY <2>2 DEF StepFunctions
<1>3. PICK T : Recursion(T, B, start, H)
  <2> HIDE DEF H, B, start
  <2> QED BY <1>1, <1>2, RecursiveFunction
<1>4. \A k \in Nat : T[k] \in B
  BY <1>3 DEF Recursion
<1>5. ASSUME NEW k \in Nat, NEW s \in P
      PROVE  T[k + 1][s] = IF k + 1 \in s THEN G[<<T[k][s \ {k + 1}], k + 1>>] ELSE T[k][s]
  <2>1. T[k + 1] = H[<<k, T[k]>>] /\ T[k] \in B
    BY <1>3, <1>4 DEF Recursion
  <2>2. H[<<k, T[k]>>] = next(k, T[k])
    <3> HIDE DEF next, B
    <3> QED BY <2>1
  <2> QED BY <2>1, <2>2
<1> DEFINE Right(f, s) == f[s] = IF s = {} THEN base ELSE G[<<f[s \ {Greatest(s)}], Greatest(s)>>]
           E == {k \in Nat : \A s \in P : s \subseteq 1..k => Right(T[k], s)}
<1>6. Nat \subseteq E
  <2>1. 0 \in E
    <3>1. ASSUME NEW s \in P, s \subseteq 1..0 PROVE s = {} /\ T[0][s] = base
      BY <1>3, <3>1 DEF Recursion
    <3> QED BY <3>1
  <2>2. ASSUME NEW k \in Nat, k \in E PROVE k + 1 \in E
    <3> SUFFICES ASSUME NEW s \in P, s \subseteq 1..(k + 1) PROVE Right(T[k + 1], s)
      OBVIOUS
    <3>1. CASE k + 1 \in s
      <4>1. Greatest(s) = k + 1 /\ s # {}
        <5>1. s \subseteq Int /\ \A y \in s : k + 1 >= y
          OBVIOUS
        <5> QED BY <3>1, <5>1, GreatestIs
      <4>2. s \ {k + 1} \in P /\ k + 1 \notin s \ {k + 1}
        OBVIOUS
      <4>3. T[k + 1][s] = G[<<T[k][s \ {k + 1}], k + 1>>]
        BY <1>5, <3>1
      <4>4. T[k + 1][s \ {k + 1}] = T[k][s \ {k + 1}]
        BY <1>5, <4>2, Zenon
      <4> QED BY <4>1, <4>3, <4>4, Zenon
    <3>2. CASE k + 1 \notin s
      <4>1. s \subseteq 1..k
        BY <3>2
      <4>2. Right(T[k], s) /\ T[k + 1][s] = T[k][s]
        BY <1>5, <2>2, <3>2, <4>1
      <4>3. s \ {Greatest(s)} \in P /\ k + 1 \notin s \ {Greatest(s)}
        BY <3>2
      <4>4. T[k + 1][s \ {Greatest(s)}] = T[k][s \ {Greatest(s)}]
        BY <1>5, <4>3, Zenon
      <4> QED BY <4>2, <4>4, Zenon
    <3> QED BY <3>1, <3>2
  <2> HIDE DEF E
  <2> QED BY <2>1, <2>2, Induction
<1>7. \A s \in P : Right(T[n], s)
  BY <1>6
<1>8. T[n] \in B
  BY <1>4
<1>9. IsFold(T[n], n, A, base, G)
  BY <1>7, <1>8 DEF IsFold
<1> QED BY <1>9

LEMMA GreatestIsThere ==
  ASSUME NEW n \in Nat, NEW s \in SUBSET (1..n), s # {}
  PROVE  Greatest(s) \in s /\ \A y \in s : Greatest(s) >= y
<1> DEFINE Gaps == {n - x : x \in s}
<1>1. Gaps \subseteq Nat /\ Gaps # {}
  <2>1. \A x \in s : n - x \in Nat
    OBVIOUS
  <2>2. PICK x \in s : n - x \in Gaps
    OBVIOUS
  <2> QED BY <2>1, <2>2
<1>2. PICK gap \in Gaps : \A g \in Gaps : gap <= g
  <2> HIDE DEF Gaps
  <2> QED BY <1>1, LeastNumber
<1>3. PICK m \in s : gap = n - m
  BY <1>2
<1>4. \A y \in s : m >= y
  <2> SUFFICES ASSUME NEW y \in s PROVE m >= y
    OBVIOUS
  <2>1. gap <= n - y
    BY <1>2
  <2> QED BY <1>3, <2>1
<1> QED BY <1>4, Zenon DEF Greatest

(* What a fold leaves after each place, one after the other.               *)
Iterates(h, n, A, base, G) ==
  /\ h \in [0..n -> A] /\ h[0] = base
  /\ \A k \in 0..(n - 1) : h[k + 1] = G[<<h[k], k + 1>>]

FoldsUp(f, n, A, base, G) ==
  /\ f[1..0] = base
  /\ \A k \in 0..(n - 1) : f[1..k] \in A => f[1..(k + 1)] = G[<<f[1..k], k + 1>>]

StepsOf(f, n) == [k \in 0..n |-> f[1..k]]

LEMMA FoldIterates ==
  ASSUME NEW n \in Nat, NEW A, NEW base \in A, NEW G \in [A \X (1..n) -> A], NEW f,
         FoldsUp(f, n, A, base, G)
  PROVE  Iterates(StepsOf(f, n), n, A, base, G)
<1>0. /\ f[1..0] = base
      /\ \A k \in 0..(n - 1) : f[1..k] \in A => f[1..(k + 1)] = G[<<f[1..k], k + 1>>]
  BY DEF FoldsUp
<1> DEFINE E == {k \in Nat : k <= n => f[1..k] \in A}
<1>1. 0 \in E
  BY <1>0
<1>2. ASSUME NEW k \in Nat, k \in E PROVE k + 1 \in E
  <2> SUFFICES ASSUME k + 1 <= n PROVE f[1..(k + 1)] \in A
    OBVIOUS
  <2>1. k \in 0..(n - 1) /\ k + 1 \in 1..n /\ f[1..k] \in A
    BY <1>2
  <2>2. <<f[1..k], k + 1>> \in A \X (1..n)
    BY <2>1
  <2>3. f[1..(k + 1)] = G[<<f[1..k], k + 1>>]
    BY <1>0, <2>1
  <2> QED BY <2>2, <2>3
<1>3. \A k \in 0..n : f[1..k] \in A
  <2>1. Nat \subseteq E
    <3> HIDE DEF E
    <3> QED BY <1>1, <1>2, Induction
  <2> QED BY <2>1
<1>4. \A k \in 0..(n - 1) : k \in 0..n /\ k + 1 \in 0..n
  OBVIOUS
<1>5. \A k \in 0..(n - 1) : f[1..(k + 1)] = G[<<f[1..k], k + 1>>]
  BY <1>0, <1>3, <1>4
<1> DEFINE h == [k \in 0..n |-> f[1..k]]
<1>6. \A k \in 0..n : h[k] = f[1..k]
  OBVIOUS
<1>7. h \in [0..n -> A]
  BY <1>3
<1>8. 0 \in 0..n /\ n \in 0..n
  OBVIOUS
<1> HIDE DEF h
<1>9. Iterates(h, n, A, base, G)
  BY <1>0, <1>4, <1>5, <1>6, <1>7, <1>8, Zenon DEF Iterates
<1> QED BY <1>9 DEF h, StepsOf

-----------------------------------------------------------------------------
(* Ascending orders.                                                       *)

Ascends(ids, n, S) ==
  ids \in [1..n -> S] /\ \A i, j \in 1..n : i < j => ids[i] < ids[j]

(* A finite set of numbers can be put in ascending order: in the k-th      *)
(* place comes the number that k of them do not exceed.                    *)
LEMMA AscendingExists ==
  ASSUME NEW S, IsFiniteSet(S), S \subseteq Int
  PROVE  \E ids : Ascends(ids, Cardinality(S), S)
<1> DEFINE n == Cardinality(S)
           Upto(x) == {y \in S : y <= x}
           rank(x) == Cardinality(Upto(x))
<1>0. \A x \in S : x \in Int
  OBVIOUS
<1>1. n \in Nat
  BY FS_CardinalityType
<1>2. ASSUME NEW x \in S
      PROVE  x \in Upto(x) /\ IsFiniteSet(Upto(x)) /\ rank(x) \in 1..n
  <2>1. x \in Upto(x) /\ Upto(x) \subseteq S
    OBVIOUS
  <2> HIDE DEF Upto
  <2>2. IsFiniteSet(Upto(x)) /\ rank(x) <= n
    BY <2>1, FS_Subset
  <2>3. rank(x) \in Nat /\ rank(x) # 0
    BY <2>1, <2>2, FS_CardinalityType, FS_EmptySet
  <2> HIDE DEF n, rank
  <2> QED BY <1>1, <2>1, <2>2, <2>3
<1>3. ASSUME NEW x \in S, NEW y \in S, x < y PROVE rank(x) < rank(y)
  <2>1. Upto(x) \subseteq Upto(y) /\ y \notin Upto(x)
    <3>1. x \in Int /\ y \in Int
      BY <1>0
    <3>2. \A z \in Int : z <= x => z <= y
      BY <1>3, <3>1
    <3>3. ~(y <= x)
      BY <1>3, <3>1
    <3> QED BY <1>0, <3>2, <3>3
  <2>2. Upto(x) # Upto(y)
    BY <1>2, <2>1
  <2> HIDE DEF Upto
  <2>3. rank(x) <= rank(y) /\ rank(x) # rank(y)
    BY <1>2, <2>1, <2>2, FS_Subset
  <2> HIDE DEF rank
  <2> QED BY <1>1, <1>2, <2>3
<1> HIDE DEF n, rank
<1> DEFINE f == [x \in S |-> rank(x)]
<1>4. f \in [S -> 1..n] /\ \A x \in S : f[x] = rank(x)
  BY <1>2
<1>5. \A x, y \in S : f[x] = f[y] => x = y
  <2> SUFFICES ASSUME NEW x \in S, NEW y \in S, rank(x) = rank(y) PROVE x = y
    BY <1>4
  <2>1. x = y \/ x < y \/ y < x
    BY <1>0
  <2>2. rank(x) \in Int
    <3>1. rank(x) \in 1..n
      BY <1>2
    <3> QED BY <1>1, <3>1
  <2>3. ~(rank(x) < rank(y)) /\ ~(rank(y) < rank(x))
    BY <2>2
  <2> QED BY <1>3, <2>1, <2>3
<1> HIDE DEF f
<1>6. f \in Surjection(S, 1..n)
  <2>1. f \in Injection(S, 1..n)
    BY <1>4, <1>5 DEF Injection, IsInjective
  <2>2. IsFiniteSet(1..n) /\ Cardinality(1..n) = n
    BY <1>1, FS_Interval
  <2>3. Cardinality(S) = Cardinality(1..n)
    BY <2>2 DEF n
  <2> QED BY <2>1, <2>2, <2>3, FS_Injection
<1>7. \A k \in 1..n : \E x \in S : rank(x) = k
  BY <1>4, <1>6 DEF Surjection
<1> DEFINE at(k) == CHOOSE x \in S : rank(x) = k
           ids == [k \in 1..n |-> at(k)]
<1>8. \A k \in 1..n : at(k) \in S /\ rank(at(k)) = k
  BY <1>7, Zenon
<1> HIDE DEF at
<1>9. ids \in [1..n -> S] /\ \A k \in 1..n : ids[k] = at(k)
  BY <1>8
<1> HIDE DEF ids
<1>10. ASSUME NEW i \in 1..n, NEW j \in 1..n, i < j PROVE ids[i] < ids[j]
  <2>1. at(i) \in S /\ at(j) \in S /\ rank(at(i)) = i /\ rank(at(j)) = j
    BY <1>8
  <2>2. i \in Int /\ j \in Int /\ i # j /\ ~(j < i)
    BY <1>1, <1>10
  <2>3. at(i) # at(j) /\ ~(at(j) < at(i))
    BY <1>3, <2>1, <2>2
  <2>4. at(i) \in Int /\ at(j) \in Int
    BY <1>0, <2>1
  <2> QED BY <1>9, <2>3, <2>4
<1> QED BY <1>9, <1>10, Zenon DEF Ascends, n

(* and every number is in such an order.                                   *)
Reaches(ids, n, S) == \A x \in S : \E i \in 1..n : ids[i] = x

LEMMA AscendingIsOnto ==
  ASSUME NEW S, IsFiniteSet(S), S \subseteq Int, NEW ids, Ascends(ids, Cardinality(S), S)
  PROVE  Reaches(ids, Cardinality(S), S)
<1> DEFINE n == Cardinality(S)
<1>1. n \in Nat
  BY FS_CardinalityType
<1>2. ids \in [1..n -> S] /\ \A i, j \in 1..n : i < j => ids[i] < ids[j]
  BY DEF Ascends
<1> HIDE DEF n
<1>3. \A i, j \in 1..n : ids[i] = ids[j] => i = j
  <2> SUFFICES ASSUME NEW i \in 1..n, NEW j \in 1..n, i # j PROVE ids[i] # ids[j]
    OBVIOUS
  <2>1. i < j \/ j < i
    OBVIOUS
  <2>2. ids[i] \in Int /\ ids[j] \in Int
    BY <1>2
  <2> QED BY <1>2, <2>1, <2>2
<1>4. ids \in Injection(1..n, S)
  BY <1>2, <1>3 DEF Injection, IsInjective
<1>5. IsFiniteSet(1..n) /\ Cardinality(1..n) = n
  BY <1>1, FS_Interval
<1>6. ids \in Surjection(1..n, S)
  BY <1>4, <1>5, FS_Injection DEF n
<1> QED BY <1>6 DEF Surjection, Reaches, n

=============================================================================
