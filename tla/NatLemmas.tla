------------------------------ MODULE NatLemmas ------------------------------
(***************************************************************************)
(* Facts about natural numbers that the proofs about the components share: *)
(* quotients and remainders, by which likwid numbers threads and walks     *)
(* through CPU lists, and least elements.                                  *)
(***************************************************************************)
EXTENDS Integers, WellFoundedInduction, TLAPS

\* Quotient and remainder.
LEMMA DivMod ==
  ASSUME NEW a \in Nat, NEW n \in Nat \ {0}
  PROVE  a \div n \in Nat /\ a % n \in 0 .. n - 1 /\ a = n * (a \div n) + (a % n)
  OBVIOUS

\* Multiplication is monotone.
LEMMA MulMono ==
  ASSUME NEW a \in Nat, NEW b \in Nat, NEW c \in Nat, a <= b
  PROVE  a * c \in Nat /\ b * c \in Nat /\ a * c <= b * c /\ c * a <= c * b
  OBVIOUS

\* Quotient and remainder are unique.
LEMMA DivUnique ==
  ASSUME NEW n \in Nat \ {0}, NEW q \in Nat, NEW p \in Nat, NEW r \in 0 .. n - 1, NEW s \in 0 .. n - 1,
         n * q + r = n * p + s
  PROVE  q = p /\ r = s
<1>1. CASE q < p
  <2>1. (q + 1) * n <= p * n
    BY <1>1, MulMono
  <2> QED BY <2>1
<1>2. CASE p < q
  <2>1. (p + 1) * n <= q * n
    BY <1>2, MulMono
  <2> QED BY <2>1
<1> QED BY <1>1, <1>2

\* Counting modulo n: the remainder grows by one and starts again at 0.
LEMMA ModSucc ==
  ASSUME NEW a \in Nat, NEW n \in Nat \ {0}
  PROVE  (a + 1) % n = IF a % n = n - 1 THEN 0 ELSE (a % n) + 1
<1> DEFINE q == a \div n
           r == a % n
           p == (a + 1) \div n
           s == (a + 1) % n
<1>1. q \in Nat /\ r \in 0 .. n - 1 /\ a = n * q + r
  BY DivMod
<1>2. p \in Nat /\ s \in 0 .. n - 1 /\ a + 1 = n * p + s
  <2> DEFINE b == a + 1
  <2>1. b \in Nat
    OBVIOUS
  <2> HIDE DEF b
  <2>2. b \div n \in Nat /\ b % n \in 0 .. n - 1 /\ b = n * (b \div n) + (b % n)
    BY <2>1, DivMod
  <2> QED BY <2>2 DEF b
<1> HIDE DEF q, r, p, s
<1>3. CASE r = n - 1
  <2>1. q + 1 \in Nat /\ 0 \in 0 .. n - 1 /\ n * p + s = n * (q + 1) + 0
    BY <1>1, <1>2, <1>3
  <2>2. s = 0
    BY <1>2, <2>1, DivUnique
  <2> QED BY <1>3, <2>2 DEF r, s
<1>4. CASE r # n - 1
  <2>1. r + 1 \in 0 .. n - 1 /\ n * p + s = n * q + (r + 1)
    BY <1>1, <1>2, <1>4
  <2>2. s = r + 1
    BY <1>1, <1>2, <2>1, DivUnique
  <2> QED BY <1>4, <2>2 DEF r, s
<1> QED BY <1>3, <1>4

\* A set of naturals that is not empty has a least element.
LEMMA LeastNatural ==
  ASSUME NEW S, S \subseteq Nat, S # {}
  PROVE  \E x \in S : \A y \in S : x <= y
<1>1. PICK x \in S : \A y \in S : ~(<<y, x>> \in OpToRel(<, Nat))
  BY NatLessThanWellFounded, WFMin
<1>2. ASSUME NEW y \in S PROVE x <= y
  <2>1. ~(y < x)
    BY <1>1 DEF OpToRel
  <2> QED BY <2>1
<1> QED BY <1>2
=============================================================================
