------------------------------ MODULE Induction -----------------------------
(***************************************************************************)
(* Induction for the theorems about what the loops and the recursive       *)
(* functions of the other modules compute.  What is to hold of every       *)
(* number is given as the set of the numbers of which it holds: a set can  *)
(* be handed to a lemma, where the provers cannot take a predicate.        *)
(***************************************************************************)
EXTENDS Integers, FiniteSetTheorems, WellFoundedInduction, TLAPS

\* A set with 0 and every successor holds every number: a least number outside
\* would have no predecessor.
LEMMA SetInduction ==
  ASSUME NEW S, 0 \in S, \A n \in Nat : n \in S => n + 1 \in S
  PROVE  \A n \in Nat : n \in S
<1> DEFINE less == OpToRel(<, Nat)
           left == Nat \ S
<1>1. IsWellFoundedOn(less, Nat)
  BY NatLessThanWellFounded, Zenon
<1>2. less = {pair \in Nat \X Nat : pair[1] < pair[2]}
  BY DEF OpToRel
<1>3. SUFFICES ASSUME left # {} PROVE FALSE
  OBVIOUS
<1>4. left \subseteq Nat
  OBVIOUS
<1> HIDE DEF less, left
<1>5. PICK least \in left : \A n \in left : <<n, least>> \notin less
  BY <1>1, <1>3, <1>4, WFMin
<1>6. \A n \in left : ~ (n < least)
  <2> TAKE n \in left
  <2>1. <<n, least>> \in Nat \X Nat /\ <<n, least>> \notin less
    BY <1>4, <1>5
  <2> QED
    BY <1>2, <2>1
<1>7. least \in Nat /\ least # 0 /\ least \notin S
  BY <1>4 DEF left
<1>8. least - 1 \in left
  BY <1>7 DEF left
<1> QED
  BY <1>6, <1>7, <1>8

\* The same up to a bound.
LEMMA IntervalInduction ==
  ASSUME NEW N \in Nat, NEW S, 0 \in S, \A n \in 0..N - 1 : n \in S => n + 1 \in S
  PROVE  \A n \in 0..N : n \in S
<1> DEFINE good == {n \in Nat : n <= N => n \in S}
<1>1. 0 \in good
  OBVIOUS
<1>2. \A n \in Nat : n \in good => n + 1 \in good
  <2> TAKE n \in Nat
  <2> SUFFICES ASSUME n \in good, n + 1 <= N PROVE n + 1 \in S
    OBVIOUS
  <2>1. n \in 0..N - 1 /\ n \in S
    OBVIOUS
  <2> QED
    BY <2>1
<1> HIDE DEF good
<1>3. \A n \in Nat : n \in good
  BY <1>1, <1>2, SetInduction
<1> QED
  BY <1>3 DEF good

\* What follows from holding of all smaller numbers holds of all numbers.
LEMMA StrongInduction ==
  ASSUME NEW S, \A n \in Nat : (\A m \in 0..n - 1 : m \in S) => n \in S
  PROVE  \A n \in Nat : n \in S
<1> DEFINE good == {n \in Nat : \A m \in 0..n : m \in S}
<1>1. 0 \in good
  <2>1. 0..0 - 1 = {}
    OBVIOUS
  <2> QED
    BY <2>1
<1>2. ASSUME NEW n \in Nat, n \in good
      PROVE  n + 1 \in good
  <2>1. n + 1 \in S
    <3>1. \A m \in 0..(n + 1) - 1 : m \in S
      BY <1>2
    <3> QED
      BY <3>1
  <2> QED
    BY <1>2, <2>1
<1> HIDE DEF good
<1>3. \A n \in Nat : n \in good
  BY <1>1, <1>2, SetInduction
<1> QED
  BY <1>3 DEF good

LEMMA LeastElement ==
  ASSUME NEW S \in SUBSET Nat, S # {}
  PROVE  \E least \in S : \A n \in S : least <= n
<1> DEFINE above == {n \in Nat : n \notin S}
<1> SUFFICES ASSUME \A least \in S : \E n \in S : n < least
             PROVE  FALSE
  OBVIOUS
<1>1. ASSUME NEW n \in Nat, \A m \in 0..n - 1 : m \in above
      PROVE  n \in above
  BY <1>1
<1> HIDE DEF above
<1>2. \A n \in Nat : n \in above
  BY <1>1, StrongInduction
<1> QED
  BY <1>2 DEF above

-----------------------------------------------------------------------------
\* A function with a first value and a rule for the next one exists.
Rules(N, S) == [S \X (1..N) -> S]

Follows(f, N, S, base, rule) ==
  /\ f \in [0..N -> S] /\ f[0] = base
  /\ \A n \in 1..N : f[n] = rule[<<f[n - 1], n>>]

LEMMA RecursiveFunction ==
  ASSUME NEW N \in Nat, NEW S, NEW base \in S, NEW step \in Rules(N, S)
  PROVE  \E f : Follows(f, N, S, base, step)
<1> USE DEF Rules, Follows
<1> DEFINE Upto(f, m) == /\ f \in [0..m -> S] /\ f[0] = base
                         /\ \A n \in 1..m : f[n] = step[<<f[n - 1], n>>]
           good == {m \in 0..N : \E f : Upto(f, m)}
<1>1. 0 \in good
  <2>1. Upto([n \in 0..0 |-> base], 0)
    OBVIOUS
  <2> HIDE DEF Upto
  <2> QED
    BY <2>1
<1>2. ASSUME NEW m \in 0..N - 1, m \in good
      PROVE  m + 1 \in good
  <2> SUFFICES \E f : Upto(f, m + 1)
    OBVIOUS
  <2>1. PICK f : Upto(f, m)
    BY <1>2
  <2> DEFINE g == [n \in 0..m + 1 |-> IF n <= m THEN f[n] ELSE step[<<f[m], m + 1>>]]
  <2>2. step[<<f[m], m + 1>>] \in S
    <3>1. f[m] \in S /\ m + 1 \in 1..N
      BY <2>1
    <3> QED
      BY <3>1
  <2>3. g \in [0..m + 1 -> S]
    BY <2>1, <2>2
  <2>4. \A n \in 1..m + 1 : g[n] = step[<<g[n - 1], n>>]
    <3> TAKE n \in 1..m + 1
    <3>1. n - 1 \in 0..m /\ g[n - 1] = f[n - 1]
      OBVIOUS
    <3>2. CASE n = m + 1
      BY <3>1, <3>2
    <3>3. CASE n # m + 1
      <4>1. n \in 1..m /\ g[n] = f[n]
        BY <3>3
      <4> QED
        BY <2>1, <3>1, <4>1
    <3> QED
      BY <3>2, <3>3
  <2>5. g[0] = base
    BY <2>1
  <2> QED
    BY <2>3, <2>4, <2>5
<1>3. N \in good
  <2> HIDE DEF good
  <2> QED
    BY <1>1, <1>2, IntervalInduction
<1> QED
  BY <1>3

-----------------------------------------------------------------------------
\* Twice as many sets when there is one element more.
LEMMA PowerOfTwo ==
  ASSUME NEW n \in Nat
  PROVE  2 ^ n \in Nat /\ 2 ^ n > 0 /\ 2 ^ (n + 1) = 2 * 2 ^ n
<1> DEFINE without == SUBSET (0..n - 1)
           with == {s \union {n} : s \in without}
           add == [s \in without |-> s \union {n}]
<1>1. /\ IsFiniteSet(0..n - 1) /\ Cardinality(0..n - 1) = n
      /\ IsFiniteSet(0..n) /\ Cardinality(0..n) = n + 1
  BY FS_Interval
<1>2. /\ IsFiniteSet(without) /\ Cardinality(without) = 2 ^ n
      /\ Cardinality(SUBSET (0..n)) = 2 ^ (n + 1)
  BY <1>1, FS_SUBSET
<1>3. add \in Bijection(without, with)
  <2>1. \A s, t \in without : s \union {n} = t \union {n} => s = t
    <3> TAKE s, t \in without
    <3>1. n \notin s /\ n \notin t
      OBVIOUS
    <3> QED
      BY <3>1
  <2>2. add \in [without -> with]
    OBVIOUS
  <2>3. \A s \in without : add[s] = s \union {n}
    OBVIOUS
  <2>4. \A t \in with : \E s \in without : add[s] = t
    BY <2>3
  <2> HIDE DEF add, with, without
  <2>5. \A s, t \in without : add[s] = add[t] => s = t
    BY <2>1, <2>3
  <2> QED
    BY <2>2, <2>4, <2>5 DEF Injection, Surjection, Bijection, IsInjective
<1>4. IsFiniteSet(with) /\ Cardinality(with) = Cardinality(without)
  <2>1. ExistsBijection(without, with)
    BY <1>3 DEF ExistsBijection
  <2> QED
    BY <1>2, <2>1, FS_Bijection
<1>5. without \intersect with = {}
  <2>1. \A s \in without : n \notin s
    OBVIOUS
  <2> QED
    BY <2>1
<1>6. SUBSET (0..n) = without \union with
  <2>1. ASSUME NEW s \in SUBSET (0..n) PROVE s \in without \union with
    <3>1. CASE n \in s
      <4>1. s \ {n} \in without /\ s = (s \ {n}) \union {n}
        BY <3>1
      <4> QED
        BY <4>1
    <3>2. CASE n \notin s
      BY <3>2
    <3> QED
      BY <3>1, <3>2
  <2>2. without \union with \subseteq SUBSET (0..n)
    <3>1. 0..n - 1 \subseteq 0..n /\ n \in 0..n
      OBVIOUS
    <3> QED
      BY <3>1, Zenon
  <2> QED
    BY <2>1, <2>2
<1> HIDE DEF without, with
<1>7. /\ Cardinality(without) \in Nat
      /\ Cardinality(without \union with)
           = Cardinality(without) + Cardinality(with) - Cardinality(without \intersect with)
  BY <1>2, <1>4, FS_Union, FS_CardinalityType
<1>8. 2 ^ (n + 1) = 2 * 2 ^ n /\ 2 ^ n \in Nat
  <2>1. Cardinality(without \intersect with) = 0
    BY <1>5, FS_EmptySet
  <2>2. Cardinality(without \union with) = 2 ^ (n + 1)
    BY <1>2, <1>6
  <2> QED
    BY <1>2, <1>4, <1>7, <2>1, <2>2
<1>9. 2 ^ n # 0
  <2>1. {} \in without
    BY DEF without
  <2> QED
    BY <1>2, <2>1, FS_EmptySet
<1> QED
  BY <1>8, <1>9

LEMMA Quotient ==
  ASSUME NEW m \in Nat \ {0}, NEW k \in Int, NEW e \in 0..m - 1
  PROVE  (m * k + e) \div m = k /\ (m * k + e) % m = e
<1> DEFINE q == (m * k + e) \div m
           r == (m * k + e) % m
<1>1. q \in Int /\ r \in 0..m - 1 /\ m * k + e = m * q + r
  OBVIOUS
<1> HIDE DEF q, r
<1>2. m * (k - q) = r - e
  BY <1>1
<1>3. k - q >= 1 => m * (k - q) >= m
  BY <1>1
<1>4. k - q <= -1 => m * (k - q) <= -m
  BY <1>1
<1>5. k - q = 0
  BY <1>1, <1>2, <1>3, <1>4
<1>6. k = q /\ r = e
  BY <1>1, <1>2, <1>5
<1> QED
  BY <1>6 DEF q, r

\* Exponents add up.
LEMMA PowerSum ==
  ASSUME NEW m \in Nat, NEW n \in Nat
  PROVE  2 ^ (m + n) = 2 ^ m * 2 ^ n
<1> DEFINE good == {k \in Nat : 2 ^ (m + k) = 2 ^ m * 2 ^ k}
<1>1. 0 \in good
  <2>1. 2 ^ m \in Nat /\ 2 ^ 0 = 1 /\ m + 0 = m
    BY PowerOfTwo
  <2> QED
    BY <2>1
<1>2. ASSUME NEW k \in Nat, k \in good
      PROVE  k + 1 \in good
  <2> DEFINE a == 2 ^ m
             b == 2 ^ k
             c == 2 ^ (k + 1)
             d == 2 ^ (m + k)
             e == 2 ^ (m + (k + 1))
  <2>1. a \in Nat /\ b \in Nat /\ c = 2 * b
    BY PowerOfTwo
  <2>2. d = a * b
    BY <1>2
  <2>3. e = 2 * d
    <3>1. m + k \in Nat /\ (m + k) + 1 = m + (k + 1)
      OBVIOUS
    <3>2. 2 ^ ((m + k) + 1) = 2 * d
      BY <3>1, PowerOfTwo
    <3> QED
      BY <3>1, <3>2
  <2> HIDE DEF a, b, c, d, e
  <2>4. e = a * c
    BY <2>1, <2>2, <2>3
  <2> QED
    BY <2>4 DEF a, c, e
<1> HIDE DEF good
<1>3. n \in good
  BY <1>1, <1>2, SetInduction
<1> QED
  BY <1>3 DEF good

\* Dividing by a product is dividing twice.
LEMMA DivideTwice ==
  ASSUME NEW n \in Nat, NEW a \in Nat \ {0}, NEW b \in Nat \ {0}
  PROVE  n \div (a * b) = (n \div a) \div b
<1> DEFINE q == n \div a
           r == n % a
           p == q \div b
           s == q % b
<1>1. /\ n = a * q + r /\ q \in Nat /\ r \in 0..a - 1
      /\ q = b * p + s /\ p \in Nat /\ s \in 0..b - 1
  OBVIOUS
<1> HIDE DEF q, r, p, s
<1>2. n = (a * b) * p + (a * s + r) /\ a * s + r \in 0..a * b - 1
  <2>1. a * q = (a * b) * p + a * s
    BY <1>1
  <2>2. a * s + r >= 0 /\ a * s <= a * (b - 1) /\ a * (b - 1) = a * b - a
    BY <1>1
  <2>3. a * s \in Int /\ a * b \in Int /\ (a * b) * p \in Int
    BY <1>1
  <2> QED
    BY <1>1, <2>1, <2>2, <2>3
<1>3. a * b \in Nat \ {0}
  OBVIOUS
<1>4. n \div (a * b) = p
  BY <1>1, <1>2, <1>3, Quotient
<1> QED
  BY <1>4 DEF p, q
=============================================================================
