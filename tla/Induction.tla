------------------------------ MODULE Induction -----------------------------
(***************************************************************************)
(* Induction over the naturals, in a form the provers can use: over a set  *)
(* instead of a predicate, and what follows from it for functions that are *)
(* defined by recursion on a number, the powers of two among them.         *)
(***************************************************************************)
EXTENDS Powers, Integers, WellFoundedInduction, TLAPS

\* A set of naturals has a least element
LEMMA LeastNat ==
  ASSUME NEW S \in SUBSET Nat, S # {}
  PROVE  \E n \in S : \A m \in S : n <= m
<1>1. \E R : IsWellFoundedOn(R, Nat) /\ \A m, n \in Nat : m < n => <<m, n>> \in R
  <2>1. \A m, n \in Nat : m < n => <<m, n>> \in OpToRel(<, Nat)
    BY DEF OpToRel
  <2> QED
    BY <2>1, NatLessThanWellFounded, Zenon
<1>2. PICK R : IsWellFoundedOn(R, Nat) /\ \A m, n \in Nat : m < n => <<m, n>> \in R
  BY <1>1
<1>3. PICK n \in S : \A m \in S : ~ (<<m, n>> \in R)
  <2>1. IsWellFoundedOn(R, Nat) /\ S \subseteq Nat /\ S # {}
    BY <1>2
  <2> QED
    BY <2>1, WFMin, Zenon
<1>4. \A m \in S : ~ (m < n) /\ m \in Nat /\ n \in Nat
  BY <1>2, <1>3
<1> QED
  BY <1>3, <1>4

\* Induction, for a set instead of a predicate
LEMMA SetInduction ==
  ASSUME NEW S, 0 \in S, \A n \in Nat : n \in S => n + 1 \in S
  PROVE  Nat \subseteq S
<1> SUFFICES ASSUME NEW k \in Nat, k \notin S PROVE FALSE
  OBVIOUS
<1> DEFINE T == Nat \ S
<1>1. T # {} /\ T \in SUBSET Nat
  OBVIOUS
<1>2. PICK n \in T : \A m \in T : n <= m
  <2> HIDE DEF T
  <2> QED
    BY <1>1, LeastNat
<1>3. n # 0 /\ n - 1 \in Nat /\ n - 1 \notin T
  BY <1>2
<1>4. (n - 1) + 1 = n
  BY <1>2
<1> QED
  BY <1>2, <1>3, <1>4

\* Induction from m up to n
LEMMA IntervalInduction ==
  ASSUME NEW m \in Nat, NEW n \in Nat, NEW S,
         m \in S, \A j \in m .. n : j # n /\ j \in S => j + 1 \in S
  PROVE  m .. n \subseteq S
<1> DEFINE T == { k \in Nat : m + k <= n => m + k \in S }
<1>1. 0 \in T
  OBVIOUS
<1>2. ASSUME NEW k \in Nat, k \in T
      PROVE  k + 1 \in T
  <2> SUFFICES ASSUME m + (k + 1) <= n
               PROVE  m + (k + 1) \in S
    OBVIOUS
  <2>1. m + k \in m .. n /\ m + k # n /\ m + k \in S
    BY <1>2
  <2>2. (m + k) + 1 \in S
    BY <2>1
  <2> QED
    BY <2>2
<1>3. Nat \subseteq T
  <2> HIDE DEF T
  <2> QED
    BY <1>1, <1>2, SetInduction
<1>4. ASSUME NEW j \in m .. n
      PROVE  j \in S
  <2>1. j - m \in T
    BY <1>3
  <2>2. m + (j - m) = j
    OBVIOUS
  <2> QED
    BY <2>1, <2>2
<1> QED
  BY <1>4

\* g is the function defined on m .. n by recursion from v
SolvesRecursion(g, V, v, m, n, step) ==
  /\ g \in [m .. n -> V]
  /\ g[m] = v
  /\ \A j \in m + 1 .. n : g[j] = step[j][g[j - 1]]

\* A recursion has a solution: from v, step[j][x] is the value at j when x
\* is the one before
LEMMA Recursion ==
  ASSUME NEW V, NEW v \in V, NEW m \in Nat, NEW n \in Nat, m <= n,
         NEW step \in [m + 1 .. n -> [V -> V]]
  PROVE  \E g : SolvesRecursion(g, V, v, m, n, step)
<1> DEFINE Solution(k) ==
             \E g \in [m .. k -> V] :
               g[m] = v /\ \A j \in m + 1 .. k : g[j] = step[j][g[j - 1]]
           S == { k \in m .. n : Solution(k) }
<1>1. m \in S
  <2> DEFINE g == [j \in m .. m |-> v]
  <2>1. g \in [m .. m -> V] /\ g[m] = v /\ \A j \in m + 1 .. m : FALSE
    OBVIOUS
  <2> HIDE DEF g
  <2>2. Solution(m)
    BY <2>1
  <2> QED
    BY <2>2
<1>2. ASSUME NEW k \in m .. n, k # n, k \in S
      PROVE  k + 1 \in S
  <2>1. PICK g \in [m .. k -> V] :
               g[m] = v /\ \A j \in m + 1 .. k : g[j] = step[j][g[j - 1]]
    BY <1>2
  <2> DEFINE h == [j \in m .. k + 1 |-> IF j <= k THEN g[j] ELSE step[j][g[k]]]
  <2>2. k + 1 \in m + 1 .. n /\ k \in m .. k /\ k + 1 \in m .. n
    BY <1>2
  <2>3. \A j \in m .. k + 1 : j <= k => h[j] = g[j]
    OBVIOUS
  <2>4. h[k + 1] = step[k + 1][g[k]]
    BY <2>2
  <2>5. step[k + 1][g[k]] \in V
    BY <2>2
  <2>6. h \in [m .. k + 1 -> V]
    <3> SUFFICES ASSUME NEW j \in m .. k + 1
                 PROVE  (IF j <= k THEN g[j] ELSE step[j][g[k]]) \in V
      OBVIOUS
    <3>1. CASE j <= k
      BY <3>1
    <3>2. CASE j = k + 1
      BY <3>2, <2>5
    <3> QED
      BY <3>1, <3>2
  <2> HIDE DEF h
  <2>7. h[m] = v
    BY <2>1, <2>2, <2>3
  <2>8. ASSUME NEW j \in m + 1 .. k + 1
        PROVE  h[j] = step[j][h[j - 1]]
    <3>1. j - 1 \in m .. k + 1 /\ j - 1 <= k
      OBVIOUS
    <3>2. h[j - 1] = g[j - 1]
      BY <3>1, <2>3
    <3>3. CASE j <= k
      BY <3>2, <3>3, <2>1, <2>3
    <3>4. CASE j = k + 1
      BY <3>2, <3>4, <2>4
    <3> QED
      BY <3>3, <3>4
  <2>9. Solution(k + 1)
    BY <2>6, <2>7, <2>8
  <2> HIDE DEF Solution
  <2> QED
    BY <2>2, <2>9
<1>3. m .. n \subseteq S
  <2> HIDE DEF S
  <2> QED
    BY <1>1, <1>2, IntervalInduction
<1>4. n \in m .. n
  OBVIOUS
<1> HIDE DEF Solution
<1>5. Solution(n)
  BY <1>3, <1>4
<1> QED
  BY <1>5 DEF Solution, SolvesRecursion

\* Recursion without an end: a function that goes from a number to the next by
\* a step
Runs(g, V, v, step) ==
  /\ g \in [Nat -> V]
  /\ g[0] = v
  /\ \A n \in Nat : g[n + 1] = step[n + 1][g[n]]

LEMMA EndlessRecursion ==
  ASSUME NEW V, NEW v \in V, NEW step \in [Nat \ {0} -> [V -> V]]
  PROVE  \E g : Runs(g, V, v, step)
<1> DEFINE part(m) == [n \in 0 + 1 .. m |-> step[n]]
           Power(m, f) == /\ f \in [0 .. m -> V]
                          /\ f[0] = v
                          /\ \A n \in 1 .. m : f[n] = step[n][f[n - 1]]
           power == [m \in Nat |-> CHOOSE f : Power(m, f)]
           g == [m \in Nat |-> power[m][m]]
<1>1. ASSUME NEW m \in Nat
      PROVE  \E f : Power(m, f)
  <2> DEFINE st == part(m)
  <2>1. st \in [0 + 1 .. m -> [V -> V]]
    OBVIOUS
  <2>2. \A n \in 1 .. m : st[n] = step[n]
    OBVIOUS
  <2> HIDE DEF st
  <2>3. 0 \in Nat /\ 0 <= m
    OBVIOUS
  <2>4. PICK f : SolvesRecursion(f, V, v, 0, m, st)
    BY <2>1, <2>3, Recursion
  <2>5. f \in [0 .. m -> V] /\ f[0] = v
    BY <2>4 DEF SolvesRecursion
  <2>6. ASSUME NEW n \in 1 .. m
        PROVE  f[n] = step[n][f[n - 1]]
    <3>1. n \in 0 + 1 .. m
      OBVIOUS
    <3> QED
      BY <3>1, <2>2, <2>4 DEF SolvesRecursion
  <2> QED
    BY <2>5, <2>6
<1>2. \A m \in Nat : Power(m, power[m])
  BY <1>1
<1> HIDE DEF power
\* All of them agree
<1>3. ASSUME NEW m \in Nat, NEW k \in 0 .. m
      PROVE  power[m][k] = power[k][k]
  <2> DEFINE S == { j \in 0 .. k : power[m][j] = power[k][j] }
  <2>1. 0 \in S
    BY <1>2
  <2>2. ASSUME NEW j \in 0 .. k, j # k, j \in S
        PROVE  j + 1 \in S
    <3>1. j + 1 \in 1 .. m /\ j + 1 \in 1 .. k /\ (j + 1) - 1 = j /\ j + 1 \in 0 .. k
      BY <2>2
    <3>2. power[m][j + 1] = step[j + 1][power[m][j]] /\ power[k][j + 1] = step[j + 1][power[k][j]]
      BY <1>2, <3>1
    <3> QED
      BY <2>2, <3>1, <3>2
  <2> HIDE DEF S
  <2>3. 0 .. k \subseteq S
    <3>1. 0 \in Nat /\ k \in Nat
      OBVIOUS
    <3> QED
      BY <2>1, <2>2, <3>1, IntervalInduction
  <2> QED
    BY <2>3 DEF S
<1>4. \A m \in Nat : g[m] \in V
  BY <1>2
<1>5. g[0] = v
  BY <1>2
<1>6. ASSUME NEW n \in Nat
      PROVE  g[n + 1] = step[n + 1][g[n]]
  <2>1. power[n + 1][n + 1] = step[n + 1][power[n + 1][n]]
    <3>1. n + 1 \in 1 .. n + 1 /\ (n + 1) - 1 = n
      OBVIOUS
    <3> QED
      BY <1>2, <3>1
  <2>2. power[n + 1][n] = power[n][n]
    <3>1. n + 1 \in Nat /\ n \in 0 .. n + 1
      OBVIOUS
    <3> QED
      BY <1>3, <3>1
  <2> QED
    BY <2>1, <2>2
<1>7. g \in [Nat -> V]
  BY <1>4
<1> HIDE DEF g
<1>8. Runs(g, V, v, step)
  BY <1>5, <1>6, <1>7 DEF Runs
<1> QED
  BY <1>8

LEMMA PowerOf2Is ==
  /\ PowerOf2[0] = 1
  /\ \A n \in Nat : PowerOf2[n + 1] = 2 * PowerOf2[n]
  /\ \A n \in Nat : PowerOf2[n] \in Nat /\ PowerOf2[n] > 0
<1> DEFINE Twice(f, n) == IF n = 0 THEN 1 ELSE 2 * f[n - 1]
           Positive == Nat \ {0}
           step == [n \in Nat \ {0} |-> [x \in Positive |-> 2 * x]]
<1>1. PICK g : Runs(g, Positive, 1, step)
  <2>1. step \in [Nat \ {0} -> [Positive -> Positive]] /\ 1 \in Positive
    OBVIOUS
  <2> HIDE DEF step, Positive
  <2> QED
    BY <2>1, EndlessRecursion
<1>2. g \in [Nat -> Positive] /\ g[0] = 1 /\ \A n \in Nat : g[n + 1] = 2 * g[n]
  <2>1. \A n \in Nat, x \in Positive : step[n + 1][x] = 2 * x
    OBVIOUS
  <2> HIDE DEF step, Positive
  <2> QED
    BY <1>1, <2>1 DEF Runs
<1> HIDE DEF Positive
<1>3. \A n \in Nat : g[n] = Twice(g, n)
  <2> SUFFICES ASSUME NEW n \in Nat, n # 0
               PROVE  g[n] = 2 * g[n - 1]
    BY <1>2
  <2>1. n - 1 \in Nat /\ (n - 1) + 1 = n
    OBVIOUS
  <2> QED
    BY <1>2, <2>1
<1>4. g = [n \in Nat |-> Twice(g, n)]
  <2>1. g = [n \in Nat |-> g[n]]
    BY <1>2
  <2> HIDE DEF Twice
  <2> QED
    BY <1>3, <2>1
<1>5. PowerOf2 = CHOOSE f : f = [n \in Nat |-> Twice(f, n)]
  BY DEF PowerOf2
<1>6. PowerOf2 = [n \in Nat |-> Twice(PowerOf2, n)]
  <2> HIDE DEF Twice
  <2> QED
    BY <1>4, <1>5, Zenon
<1>7. \A n \in Nat : PowerOf2[n] = Twice(PowerOf2, n)
  <2> HIDE DEF Twice
  <2> QED
    BY <1>6
<1>8. PowerOf2[0] = 1
  BY <1>7
<1>9. ASSUME NEW n \in Nat
       PROVE  PowerOf2[n + 1] = 2 * PowerOf2[n]
  <2>1. n + 1 \in Nat /\ n + 1 # 0 /\ (n + 1) - 1 = n
    OBVIOUS
  <2>2. PowerOf2[n + 1] = Twice(PowerOf2, n + 1)
    <3> HIDE DEF Twice
    <3> QED
      BY <1>7, <2>1
  <2> QED
    BY <2>1, <2>2
<1>10. Nat \subseteq { n \in Nat : PowerOf2[n] \in Nat \ {0} }
  <2> DEFINE S == { n \in Nat : PowerOf2[n] \in Nat \ {0} }
  <2>1. 0 \in S
    BY <1>8
  <2>2. ASSUME NEW n \in Nat, n \in S
        PROVE  n + 1 \in S
    BY <2>2, <1>9
  <2> HIDE DEF S
  <2>3. Nat \subseteq S
    BY <2>1, <2>2, SetInduction
  <2> QED
    BY <2>3 DEF S
<1> QED
  BY <1>8, <1>9, <1>10

\* A number is below its power
LEMMA PowerOf2Above == \A n \in Nat : PowerOf2[n] > n
<1> DEFINE S == { n \in Nat : PowerOf2[n] > n }
<1>1. 0 \in S
  BY PowerOf2Is
<1>2. ASSUME NEW n \in Nat, n \in S
      PROVE  n + 1 \in S
  BY <1>2, PowerOf2Is
<1> HIDE DEF S
<1>3. Nat \subseteq S
  BY <1>1, <1>2, SetInduction
<1> QED
  BY <1>3 DEF S

\* The quotient and the rest are known by what they are
LEMMA DivModUnique ==
  ASSUME NEW p \in Nat, p > 0, NEW q \in Nat, NEW r \in Nat, r < p
  PROVE  (q * p + r) \div p = q /\ (q * p + r) % p = r
<1> DEFINE t == q * p + r
           d == t \div p
           m == t % p
<1>1. t \in Nat
  OBVIOUS
<1>2. d \in Nat /\ m \in 0 .. p - 1 /\ t = p * d + m
  BY <1>1
<1> HIDE DEF d, m
<1>3. p * d + m = q * p + r
  BY <1>2
<1>4. ~ (d < q)
  <2> SUFFICES ASSUME d < q PROVE FALSE
    OBVIOUS
  <2>1. PICK e \in Nat : q = d + 1 + e
    <3>1. q - d - 1 \in Nat /\ q = d + 1 + (q - d - 1)
      BY <1>2
    <3> QED
      BY <3>1
  <2>2. q * p = p * d + p + e * p /\ e * p \in Nat /\ p * d \in Nat
    BY <2>1, <1>2
  <2> QED
    BY <2>2, <1>2, <1>3
<1>5. ~ (q < d)
  <2> SUFFICES ASSUME q < d PROVE FALSE
    OBVIOUS
  <2>1. PICK e \in Nat : d = q + 1 + e
    <3>1. d - q - 1 \in Nat /\ d = q + 1 + (d - q - 1)
      BY <1>2
    <3> QED
      BY <3>1
  <2>2. p * d = q * p + p + e * p /\ e * p \in Nat /\ q * p \in Nat
    BY <2>1, <1>2
  <2> QED
    BY <2>2, <1>2, <1>3
<1>6. d = q
  BY <1>2, <1>4, <1>5
<1>7. m = r
  <2>1. p * q = q * p /\ p * q \in Nat
    OBVIOUS
  <2> QED
    BY <1>2, <1>3, <1>6, <2>1
<1> QED
  BY <1>6, <1>7 DEF d, m

\* Among the powers up to one that is large enough there is a first
LEMMA LeastPower ==
  ASSUME NEW words \in Nat, NEW need \in Nat, need > 1, need <= words + 1
  PROVE  \E l \in 1 .. words : /\ need <= PowerOf2[l]
                               /\ \A k \in 0 .. (l - 1) : need > PowerOf2[k]
<1> DEFINE Enough == { l \in 1 .. words : need <= PowerOf2[l] }
<1>1. words \in Enough
  <2>1. PowerOf2[words] \in Nat /\ PowerOf2[words] > words
    BY PowerOf2Is, PowerOf2Above
  <2> QED
    BY <2>1
<1>2. PICK m \in Enough : \A k \in Enough : m <= k
  <2>1. Enough \in SUBSET Nat /\ Enough # {}
    BY <1>1
  <2> HIDE DEF Enough
  <2> QED
    BY <2>1, LeastNat
<1>3. \A k \in 0 .. (m - 1) : need > PowerOf2[k]
  <2> SUFFICES ASSUME NEW k \in 0 .. (m - 1)
               PROVE  need > PowerOf2[k]
    OBVIOUS
  <2>1. CASE k = 0
    BY <2>1, PowerOf2Is
  <2>2. CASE k # 0
    <3>1. k \in 1 .. words /\ k < m
      BY <1>2, <2>2
    <3>2. k \notin Enough
      BY <1>2, <3>1
    <3> QED
      BY <3>1, <3>2, PowerOf2Is
  <2> QED
    BY <2>1, <2>2
<1> QED
  BY <1>2, <1>3
=============================================================================
