--------------------------- MODULE RemainderLemmas ---------------------------
(***************************************************************************)
(* What the proofs need to know of % and \div for a divisor that is not a  *)
(* numeral: counters that wrap, addresses rounded up to an alignment.      *)
(***************************************************************************)
EXTENDS Integers, TLAPS

(* A number below the modulus is its own remainder.                        *)
LEMMA RemainderOfSmall ==
    ASSUME NEW n \in Nat, NEW m \in Nat, n < m
    PROVE  n % m = n
  OBVIOUS

LEMMA RemainderRange ==
    ASSUME NEW n \in Nat, NEW m \in Nat \ {0}
    PROVE  n % m \in 0 .. m - 1
  OBVIOUS

LEMMA Division ==
    ASSUME NEW n \in Nat, NEW m \in Nat \ {0}
    PROVE  n = m * (n \div m) + (n % m) /\ n \div m \in Nat
  OBVIOUS

LEMMA MultipleGrows ==
    ASSUME NEW m \in Nat \ {0}, NEW d \in Int, d >= 1
    PROVE  m * d >= m
  OBVIOUS

(* Quotient and remainder are unique.                                      *)
LEMMA RemainderUnique ==
    ASSUME NEW m \in Nat \ {0}, NEW q \in Nat, NEW r \in 0 .. m - 1
    PROVE  (m * q + r) % m = r
  <1> DEFINE n == m * q + r
             p == n \div m
             s == n % m
  <1>1. n \in Nat
    OBVIOUS
  <1>2. n = m * p + s /\ s \in 0 .. m - 1 /\ p \in Nat
    BY <1>1, Division, RemainderRange
  <1>3. m * q + r = m * p + s
    BY <1>2
  <1> HIDE DEF n, p, s
  <1>4. CASE q = p
    BY <1>2, <1>3, <1>4 DEF s, n
  <1>5. CASE q > p
    <2>1. m * (q - p) >= m
      BY <1>2, <1>5, MultipleGrows
    <2>2. m * (q - p) = m * q - m * p
      BY <1>2
    <2> QED
      BY <1>2, <1>3, <2>1, <2>2
  <1>6. CASE p > q
    <2>1. m * (p - q) >= m
      BY <1>2, <1>6, MultipleGrows
    <2>2. m * (p - q) = m * p - m * q
      BY <1>2
    <2> QED
      BY <1>2, <1>3, <2>1, <2>2
  <1> QED
    BY <1>2, <1>4, <1>5, <1>6

(* A counter that wraps at every increment counts modulo its width.        *)
LEMMA RemainderOfNext ==
    ASSUME NEW n \in Nat, NEW m \in Nat \ {0}
    PROVE  ((n % m) + 1) % m = (n + 1) % m
  <1> DEFINE q == n \div m
             r == n % m
  <1>1. n = m * q + r /\ r \in 0 .. m - 1 /\ q \in Nat
    BY Division, RemainderRange
  <1> HIDE DEF q, r
  <1>2. CASE r + 1 < m
    <2>1. (m * q + (r + 1)) % m = r + 1 /\ (m * 0 + (r + 1)) % m = r + 1
      BY <1>1, <1>2, RemainderUnique
    <2>2. n + 1 = m * q + (r + 1) /\ r + 1 = m * 0 + (r + 1)
      BY <1>1
    <2> QED
      BY <2>1, <2>2 DEF r
  <1>3. CASE r + 1 = m
    <2>1. (m * (q + 1) + 0) % m = 0 /\ (m * 1 + 0) % m = 0
      BY <1>1, RemainderUnique
    <2>2. n + 1 = m * (q + 1) + 0 /\ r + 1 = m * 1 + 0
      BY <1>1, <1>3
    <2> QED
      BY <2>1, <2>2 DEF r
  <1> QED
    BY <1>1, <1>2, <1>3

(* Adding what is missing to the next multiple gives a multiple.           *)
LEMMA RoundUpIsMultiple ==
    ASSUME NEW n \in Nat, NEW m \in Nat \ {0}
    PROVE  (n + ((m - (n % m)) % m)) % m = 0
  <1> DEFINE q == n \div m
             r == n % m
  <1>1. n = m * q + r /\ r \in 0 .. m - 1 /\ q \in Nat
    BY Division, RemainderRange
  <1> HIDE DEF q, r
  <1>2. CASE r = 0
    <2>1. (m * q + 0) % m = 0 /\ (m * 1 + 0) % m = 0
      BY <1>1, RemainderUnique
    <2>2. n = m * q + 0 /\ m - r = m * 1 + 0 /\ n + 0 = n
      BY <1>1, <1>2
    <2> QED
      BY <2>1, <2>2 DEF r
  <1>3. CASE r > 0
    <2>1. (m - r) % m = m - r
      BY <1>1, <1>3, RemainderOfSmall
    <2>2. (m * (q + 1) + 0) % m = 0
      BY <1>1, RemainderUnique
    <2>3. n + (m - r) = m * (q + 1) + 0
      BY <1>1
    <2> QED
      BY <2>1, <2>2, <2>3 DEF r
  <1> QED
    BY <1>1, <1>2, <1>3
=============================================================================
