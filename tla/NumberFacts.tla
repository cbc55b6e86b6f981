---------------------------- MODULE NumberFacts ----------------------------
(***************************************************************************)
(* Facts about numbers that several proofs rest on: division by a number   *)
(* that is not known, and induction and recursion, stated with sets and    *)
(* functions in place of operators, as the provers need them.              *)
(***************************************************************************)
EXTENDS Integers, WellFoundedInduction, TLAPS

\* A multiple grows with its factor.
LEMMA Grows ==
  ASSUME NEW s \in Nat, NEW b \in Int, NEW c \in Int, b < c
  PROVE  b * s + s <= c * s
<1> DEFINE d == c - (b + 1)
<1>1. d \in Nat /\ c = (b + 1) + d
  OBVIOUS
<1>2. d * s >= 0
  BY <1>1, SMT
<1>3. c * s = (b + 1) * s + d * s /\ (b + 1) * s = b * s + s
  BY <1>1, SMT
<1>4. b * s \in Int /\ c * s \in Int /\ d * s \in Int
  BY <1>1, SMT
<1> HIDE DEF d
<1> QED BY <1>2, <1>3, <1>4

\* The quotient and the remainder of a division make up the number.
LEMMA Divided ==
  ASSUME NEW n \in Nat, NEW b \in Nat \ {0}
  PROVE  /\ n \div b \in Nat /\ n % b \in 0 .. b - 1
         /\ n = (n % b) + b * (n \div b)
OBVIOUS

\* A quotient is below the factor its number is below of.
LEMMA QuotientBound ==
  ASSUME NEW b \in Nat \ {0}, NEW m \in Nat, NEW n \in 0 .. b * m - 1
  PROVE  n \div b \in 0 .. m - 1
<1> DEFINE q == n \div b
<1>1. n \in Nat /\ b * m \in Nat
  BY SMT
<1>2. q \in Nat /\ n % b \in 0 .. b - 1 /\ n = (n % b) + b * q
  BY <1>1, Divided
<1>3. ~(m <= q)
  <2> SUFFICES ASSUME m <= q PROVE FALSE
    OBVIOUS
  <2>1. m < q + 1
    BY <1>2
  <2>2. m * b + b <= (q + 1) * b
    BY <1>2, <2>1, Grows
  <2>3. (q + 1) * b = b * q + b /\ m * b = b * m /\ b * q \in Nat
    BY <1>2, SMT
  <2> HIDE DEF q
  <2> QED BY <1>1, <1>2, <2>2, <2>3
<1> HIDE DEF q
<1>4. q \in 0 .. m - 1
  BY <1>2, <1>3
<1> QED BY <1>4 DEF q

\* Quotient and remainder are the only numbers that make up another.
LEMMA DividedUniquely ==
  ASSUME NEW b \in Nat \ {0}, NEW r \in 0 .. b - 1, NEW q \in Nat
  PROVE  (r + b * q) % b = r /\ (r + b * q) \div b = q
<1> DEFINE n == r + b * q
           r2 == n % b
           q2 == n \div b
<1>1. b * q \in Nat /\ n \in Nat
  BY SMT
<1>2. q2 \in Nat /\ r2 \in 0 .. b - 1 /\ n = r2 + b * q2
  BY <1>1, Divided, Zenon
<1> HIDE DEF r2, q2
<1>3. r + b * q = r2 + b * q2 /\ b * q2 \in Nat
  BY <1>1, <1>2, SMT
<1>4. \A k, m \in Nat : k < m => b * k + b <= b * m
  <2> SUFFICES ASSUME NEW k \in Nat, NEW m \in Nat, k < m PROVE b * k + b <= b * m
    OBVIOUS
  <2>1. k * b + b <= m * b
    BY Grows
  <2> QED BY <2>1, SMT
<1>5. q = q2
  BY <1>1, <1>2, <1>3, <1>4
<1>6. r = r2
  BY <1>1, <1>2, <1>3, <1>5
<1> QED BY <1>5, <1>6 DEF r2, q2

\* A number below twice the modulus wraps around at most once.
LEMMA WrapsOnce ==
  ASSUME NEW m \in Nat \ {0}, NEW a \in 0 .. m + m - 1
  PROVE  a % m = IF a < m THEN a ELSE a - m
<1>1. CASE a < m
  <2>1. a \in 0 .. m - 1 /\ 0 \in Nat /\ a = a + m * 0
    BY <1>1
  <2>2. a % m = a
    BY <2>1, DividedUniquely
  <2> QED BY <1>1, <2>2
<1>2. CASE ~(a < m)
  <2> DEFINE r == a - m
  <2>1. r \in 0 .. m - 1 /\ 1 \in Nat /\ a = r + m * 1
    BY <1>2
  <2> HIDE DEF r
  <2>2. a % m = r
    BY <2>1, DividedUniquely
  <2> QED BY <1>2, <2>2 DEF r
<1> QED BY <1>1, <1>2

\* A set that holds zero and the successor of each number it holds has them all.
LEMMA SetInduction ==
  ASSUME NEW S, 0 \in S, \A n \in Nat : n \in S => n + 1 \in S
  PROVE  Nat \subseteq S
<1> DEFINE R == {p \in Nat \X Nat : p[1] < p[2]}
           T == Nat \ S
<1> SUFFICES ASSUME T # {} PROVE FALSE
  OBVIOUS
<1>1. IsWellFoundedOn(R, Nat)
  BY NatLessThanWellFounded DEF OpToRel
<1>2. T \subseteq Nat
  OBVIOUS
<1> HIDE DEF R, T
<1>3. PICK x \in T : \A y \in T : <<y, x>> \notin R
  BY <1>1, <1>2, WFMin
<1>4. x \in Nat /\ x \notin S
  BY DEF T
<1>5. x - 1 \in Nat /\ (x - 1) + 1 = x
  BY <1>4
<1>6. x - 1 \in T
  BY <1>4, <1>5 DEF T
<1>7. <<x - 1, x>> \in R
  BY <1>4, <1>5 DEF R
<1> QED BY <1>3, <1>6, <1>7

\* The same from any number up to another.
LEMMA UpTo ==
  ASSUME NEW m \in Int, NEW n \in Int, NEW S, m \in S,
         \A i \in m .. n - 1 : i \in S => i + 1 \in S
  PROVE  m .. n \subseteq S
<1> DEFINE T == {k \in Nat : m + k <= n => m + k \in S}
<1>1. 0 \in T
  OBVIOUS
<1>2. ASSUME NEW k \in Nat, k \in T PROVE k + 1 \in T
  <2> SUFFICES ASSUME m + (k + 1) <= n PROVE m + (k + 1) \in S
    OBVIOUS
  <2>1. m + k \in m .. n - 1 /\ m + k \in S
    BY <1>2
  <2> QED BY <2>1
<1> HIDE DEF T
<1>3. Nat \subseteq T
  BY <1>1, <1>2, SetInduction
<1>4. ASSUME NEW i \in m .. n PROVE i \in S
  <2>1. i - m \in Nat /\ m + (i - m) = i /\ i <= n
    OBVIOUS
  <2>2. i - m \in T
    BY <1>3, <2>1
  <2> QED BY <2>1, <2>2 DEF T
<1> QED BY <1>4

\* What makes a function's next value of its last one, and the functions that it
\* makes from m on.
Rules(m, n, B) == [(m + 1 .. n) \X B -> B]
Follows(f, m, n, b, g) == f[m] = b /\ \A i \in m + 1 .. n : f[i] = g[<<i, f[i - 1]>>]

\* There is a function that has b at m and follows g from there to n.
LEMMA Recursion ==
  ASSUME NEW m \in Int, NEW n \in Int, m <= n, NEW B, NEW b \in B,
         NEW g \in Rules(m, n, B)
  PROVE  \E f \in [m .. n -> B] : Follows(f, m, n, b, g)
<1> USE DEF Rules, Follows
<1> DEFINE S == {k \in m .. n : \E f \in [m .. k -> B] : Follows(f, m, k, b, g)}
<1>1. m \in S
  <2> DEFINE f == [i \in m .. m |-> b]
  <2>1. f \in [m .. m -> B] /\ Follows(f, m, m, b, g)
    OBVIOUS
  <2> QED BY <2>1
<1>2. ASSUME NEW k \in m .. n - 1, k \in S PROVE k + 1 \in S
  <2>1. PICK f \in [m .. k -> B] : Follows(f, m, k, b, g)
    BY <1>2
  <2> DEFINE h == [i \in m .. k + 1 |-> IF i = k + 1 THEN g[<<i, f[k]>>] ELSE f[i]]
  <2>2. k + 1 \in m .. n /\ f[k] \in B
    OBVIOUS
  <2>3. h \in [m .. k + 1 -> B]
    BY <2>2
  <2>4. \A i \in m .. k : h[i] = f[i]
    OBVIOUS
  <2>5. h[k + 1] = g[<<k + 1, h[k]>>]
    BY <2>4
  <2>6. Follows(h, m, k + 1, b, g)
    <3>1. h[m] = b
      BY <2>1, <2>4
    <3>2. ASSUME NEW i \in m + 1 .. k + 1 PROVE h[i] = g[<<i, h[i - 1]>>]
      <4>1. CASE i = k + 1
        BY <2>5, <4>1
      <4>2. CASE i # k + 1
        <5>1. i \in m + 1 .. k /\ i \in m .. k /\ i - 1 \in m .. k
          BY <4>2
        <5> HIDE DEF h
        <5> QED BY <2>1, <2>4, <5>1
      <4> QED BY <4>1, <4>2
    <3> QED BY <3>1, <3>2
  <2> HIDE DEF h
  <2> QED BY <2>2, <2>3, <2>6
<1> HIDE DEF S
<1>3. m .. n \subseteq S
  BY <1>1, <1>2, UpTo
<1>4. n \in m .. n
  OBVIOUS
<1> QED BY <1>3, <1>4 DEF S
=============================================================================
