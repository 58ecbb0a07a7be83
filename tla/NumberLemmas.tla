---------------------------- MODULE NumberLemmas ----------------------------
(***************************************************************************)
(* What several proofs need of numbers: the least element of a set, for    *)
(* the definitions that choose it and for arguments by the least counter-  *)
(* example; and the arithmetic modulo n.                                   *)
(***************************************************************************)
EXTENDS Integers, WellFoundedInduction, TLAPS

(* A non-empty set of naturals has a least element.                        *)
LEMMA LeastNatural ==
  ASSUME NEW S, S \subseteq Nat, S # {}
  PROVE  \E k \in S : \A l \in S : k <= l
<1>1. PICK k \in S : \A l \in S : ~(<<l, k>> \in OpToRel(<, Nat))
  BY NatLessThanWellFounded, WFMin
<1>2. ASSUME NEW l \in S, l < k
      PROVE  <<l, k>> \in OpToRel(<, Nat)
  <2>1. <<l, k>> \in Nat \X Nat /\ <<l, k>>[1] < <<l, k>>[2]
    BY <1>2
  <2> QED
    BY <2>1 DEF OpToRel
<1>3. \A l \in S : ~(l < k)
  BY <1>1, <1>2, Zenon
<1> QED
  BY <1>3

-----------------------------------------------------------------------------
(* Numbers modulo n.                                                         *)

(* Division with remainder.                                                  *)
LEMMA Division ==
  ASSUME NEW n \in Nat, n > 0, NEW x \in Int
  PROVE  x % n \in 0 .. n - 1 /\ \E q \in Int : x = n * q + (x % n)
<1>1. x \div n \in Int /\ x % n \in 0 .. n - 1 /\ x = n * (x \div n) + (x % n)
  OBVIOUS
<1> QED
  BY <1>1

(* A remainder is unique.                                                    *)
LEMMA OneRemainder ==
  ASSUME NEW n \in Nat, n > 0, NEW q \in Int, NEW r \in 0 .. n - 1, NEW s \in 0 .. n - 1,
         n * q + r = s
  PROVE  r = s
<1>1. CASE q = 0
  BY <1>1
<1>2. CASE q >= 1
  <2>1. n * q >= n
    BY <1>2
  <2> QED
    BY <2>1
<1>3. CASE q <= -1
  <2>1. \A p \in Int : p >= 1 => n * p >= n
    OBVIOUS
  <2>2. n * (-q) >= n
    BY <1>3, <2>1
  <2>3. n * q = -(n * (-q))
    OBVIOUS
  <2> QED
    BY <2>2, <2>3
<1> QED
  BY <1>1, <1>2, <1>3

(* Numbers that differ by a multiple of n are congruent, and only these.     *)
LEMMA Congruent ==
  ASSUME NEW n \in Nat, n > 0, NEW x \in Int, NEW y \in Int
  PROVE  x % n = y % n <=> \E k \in Int : x = y + n * k
<1>1. PICK a \in Int : x = n * a + (x % n)
  BY Division
<1>2. PICK b \in Int : y = n * b + (y % n)
  BY Division
<1> DEFINE r == x % n
           s == y % n
<1>3. r \in 0 .. n - 1 /\ s \in 0 .. n - 1 /\ x = n * a + r /\ y = n * b + s
  BY <1>1, <1>2, Division
<1> HIDE DEF r, s
<1>4. ASSUME r = s PROVE \E k \in Int : x = y + n * k
  <2>1. x = y + n * (a - b)
    BY <1>3, <1>4
  <2> QED
    BY <2>1
<1>5. ASSUME NEW k \in Int, x = y + n * k PROVE r = s
  <2>1. n * (a - b - k) + r = s
    BY <1>3, <1>5
  <2>2. a - b - k \in Int
    OBVIOUS
  <2> QED
    BY <1>3, <2>1, <2>2, OneRemainder
<1> QED
  BY <1>4, <1>5 DEF r, s

(* A summand or a factor may be reduced first.                               *)
LEMMA SumReduced ==
  ASSUME NEW n \in Nat, n > 0, NEW s \in Int, NEW t \in Int
  PROVE  ((s % n) + t) % n = (s + t) % n
<1> DEFINE r == s % n
<1>1. PICK q \in Int : s = n * q + r
  BY Division
<1>2. r \in Int
  BY Division
<1> HIDE DEF r
<1>3. s + t = (r + t) + n * q
  BY <1>1, <1>2
<1>4. (s + t) % n = (r + t) % n
  <2> DEFINE x == s + t
             y == r + t
  <2>1. x \in Int /\ y \in Int /\ x = y + n * q
    BY <1>2, <1>3
  <2> HIDE DEF x, y
  <2>2. x % n = y % n
    BY <2>1, Congruent, Zenon
  <2> QED
    BY <2>2 DEF x, y
<1> QED
  BY <1>4 DEF r

(* A product may be reduced factor by factor.                                *)
LEMMA ProductReduced ==
  ASSUME NEW n \in Nat, n > 0, NEW s \in Int, NEW t \in Int
  PROVE  ((s % n) * t) % n = (s * t) % n
<1> DEFINE r == s % n
<1>1. PICK q \in Int : s = n * q + r
  BY Division
<1>2. r \in Int
  BY Division
<1> HIDE DEF r
<1>3. s * t = r * t + n * (q * t)
  BY <1>1, <1>2
<1>4. (s * t) % n = (r * t) % n
  <2> DEFINE x == s * t
             y == r * t
             k == q * t
  <2>1. x \in Int /\ y \in Int /\ k \in Int /\ x = y + n * k
    BY <1>2, <1>3
  <2> HIDE DEF x, y, k
  <2>2. x % n = y % n
    BY <2>1, Congruent, Zenon
  <2> QED
    BY <2>2 DEF x, y
<1> QED
  BY <1>4 DEF r

-----------------------------------------------------------------------------
(* Primes.                                                                   *)

Prime(n) == n \in Nat /\ n > 1 /\ \A d \in 2 .. n - 1 : n % d # 0

(* A non-empty set of numbers below a prime that contains, with a number,    *)
(* the remainder by it unless that is zero, contains 1.                      *)
LEMMA OneIsLeast ==
  ASSUME NEW n, Prime(n), NEW S, S \subseteq 1 .. n - 1, S # {},
         \A k \in S : n % k # 0 => n % k \in S
  PROVE  1 \in S
<1>1. n \in Nat /\ S \subseteq Nat
  BY DEF Prime
<1>2. PICK k \in S : \A l \in S : k <= l
  BY <1>1, LeastNatural
<1>3. k \in Nat /\ 1 <= k /\ k <= n - 1
  BY <1>1
<1>4. n % k < k
  BY <1>1, <1>3, Division
<1>5. n % k \in Int
  BY <1>1, <1>3, Division
<1>6. n % k = 0
  BY <1>2, <1>3, <1>4, <1>5
<1>7. ~(k \in 2 .. n - 1)
  BY <1>6 DEF Prime
<1> QED
  BY <1>1, <1>3, <1>7

(* The remainder n % k of n is n less a multiple of k.                       *)
LEMMA RemainderTimes ==
  ASSUME NEW n \in Nat, NEW k \in Nat, n > 0, k > 0, NEW b \in Int
  PROVE  \E c \in Int : (n % k) * b = n * b - c * (k * b)
<1>1. PICK c \in Int : n = k * c + (n % k)
  BY Division
<1> DEFINE r == n % k
<1>2. r \in Int /\ n = k * c + r
  BY <1>1, Division
<1> HIDE DEF r
<1>3. r * b = n * b - c * (k * b)
  BY <1>2
<1> QED
  BY <1>3 DEF r

(* The product of two numbers that a prime does not divide is not divided    *)
(* by it.                                                                    *)
LEMMA NoZeroDivisors ==
  ASSUME NEW n, Prime(n), NEW a \in 1 .. n - 1, NEW b \in 1 .. n - 1
  PROVE  (a * b) % n # 0
<1> DEFINE S == {k \in 1 .. n - 1 : (k * b) % n = 0}
<1>1. n \in Nat /\ n > 0 /\ b \in Int
  BY DEF Prime
<1>2. SUFFICES ASSUME a \in S PROVE FALSE
  BY DEF Prime
<1>3. ASSUME NEW k \in S, n % k # 0
      PROVE  n % k \in S
  <2>1. k \in Nat /\ k > 0 /\ k <= n - 1 /\ (k * b) % n = 0
    BY <1>1
  <2> DEFINE r == n % k
  <2>2. r \in 0 .. k - 1
    BY <1>1, <2>1, Division
  <2>3. r \in 1 .. n - 1
    BY <1>1, <1>3, <2>1, <2>2
  <2>4. PICK c \in Int : r * b = n * b - c * (k * b)
    BY <1>1, <2>1, RemainderTimes
  <2> HIDE DEF r
  <2>5. PICK e \in Int : k * b = 0 + n * e
    <3> DEFINE x == k * b
    <3>1. x \in Int /\ 0 \in Int /\ x % n = 0 % n
      BY <1>1, <2>1
    <3> HIDE DEF x
    <3>2. \E e \in Int : x = 0 + n * e
      BY <1>1, <3>1, Congruent, Zenon
    <3> QED
      BY <3>2 DEF x
  <2>6. r * b = 0 + n * (b - c * e)
    <3>1. c * (n * e) = n * (c * e)
      BY <1>1
    <3>2. n * b - n * (c * e) = n * (b - c * e)
      BY <1>1
    <3>3. c * (k * b) = c * (n * e)
      BY <1>1, <2>5
    <3>4. r * b = n * b - n * (c * e)
      BY <2>4, <3>1, <3>3
    <3> QED
      BY <1>1, <3>2, <3>4
  <2>7. (r * b) % n = 0
    <3> DEFINE x == r * b
               y == b - c * e
    <3>1. x \in Int /\ y \in Int /\ 0 \in Int /\ x = 0 + n * y
      BY <1>1, <2>2, <2>6
    <3> HIDE DEF x, y
    <3>2. x % n = 0 % n
      BY <1>1, <3>1, Congruent, Zenon
    <3>3. 0 % n = 0
      BY <1>1
    <3> QED
      BY <3>2, <3>3 DEF x
  <2> QED
    BY <2>3, <2>7 DEF r
<1>4. 1 \in S
  <2> HIDE DEF S
  <2>1. S \subseteq 1 .. n - 1
    BY DEF S
  <2> QED
    BY <1>2, <1>3, <2>1, OneIsLeast
<1>5. 1 * b = b /\ b % n = b /\ b # 0
  BY <1>1
<1> QED
  BY <1>4, <1>5

(* Modulo a prime every number but zero has an inverse.                      *)
LEMMA InverseExists ==
  ASSUME NEW n, Prime(n), NEW a \in 1 .. n - 1
  PROVE  \E t \in 0 .. n - 1 : (a * t) % n = 1
<1> DEFINE S == {k \in 1 .. n - 1 : \E u \in Int : (a * u) % n = k}
<1>1. n \in Nat /\ n > 0 /\ a \in Int
  BY DEF Prime
<1>2. a \in S
  <2>1. (a * 1) % n = a
    BY <1>1
  <2> QED
    BY <2>1
<1>3. ASSUME NEW k \in S, n % k # 0
      PROVE  n % k \in S
  <2>1. k \in Nat /\ k > 0 /\ k <= n - 1
    BY <1>1
  <2>2. PICK u \in Int : (a * u) % n = k
    OBVIOUS
  <2> DEFINE r == n % k
  <2>3. r \in 0 .. k - 1
    BY <1>1, <2>1, Division
  <2>4. r \in 1 .. n - 1
    BY <1>1, <1>3, <2>1, <2>3
  <2>5. PICK c \in Int : r * 1 = n * 1 - c * (k * 1)
    BY <1>1, <2>1, RemainderTimes
  <2> HIDE DEF r
  <2>6. PICK e \in Int : a * u = k + n * e
    <3> DEFINE x == a * u
    <3>1. x \in Int /\ k \in Int /\ x % n = k % n
      BY <1>1, <2>1, <2>2
    <3> HIDE DEF x
    <3>2. \E e \in Int : x = k + n * e
      BY <1>1, <2>1, <3>1, Congruent, Zenon
    <3> QED
      BY <3>2 DEF x
  <2>7. a * (-(c * u)) = r + n * (-(1 + c * e))
    <3>1. a * (-(c * u)) = -(c * (a * u))
      BY <1>1
    <3>2. c * (a * u) = c * k + n * (c * e)
      <4>1. c * (k + n * e) = c * k + c * (n * e)
        BY <1>1, <2>1
      <4>2. c * (n * e) = n * (c * e)
        BY <1>1
      <4> QED
        BY <2>6, <4>1, <4>2
    <3>3. n * (-(1 + c * e)) = -n - n * (c * e)
      BY <1>1
    <3>4. r = n - c * k
      BY <1>1, <2>1, <2>3, <2>5
    <3> DEFINE x == c * k
               y == n * (c * e)
    <3>5. x \in Int /\ y \in Int
      BY <1>1, <2>1
    <3>6. a * (-(c * u)) = -(x + y) /\ r = n - x /\ n * (-(1 + c * e)) = -n - y
      BY <3>1, <3>2, <3>3, <3>4
    <3> HIDE DEF x, y
    <3> QED
      BY <1>1, <3>5, <3>6
  <2>8. (a * (-(c * u))) % n = r
    <3> DEFINE v == -(c * u)
               x == a * v
               y == -(1 + c * e)
    <3>1. v \in Int /\ x \in Int /\ y \in Int /\ r \in Int /\ x = r + n * y
      BY <1>1, <2>4, <2>7
    <3> HIDE DEF v, x, y
    <3>2. x % n = r % n
      BY <1>1, <3>1, Congruent, Zenon
    <3>3. r % n = r
      BY <1>1, <2>4
    <3> QED
      BY <3>2, <3>3 DEF x, v
  <2>9. -(c * u) \in Int
    BY <1>1
  <2>10. \E v \in Int : (a * v) % n = r
    BY <2>8, <2>9
  <2>11. r \in S
    BY <2>4, <2>10
  <2> QED
    BY <2>11 DEF r
<1>4. 1 \in S
  <2> HIDE DEF S
  <2>1. S \subseteq 1 .. n - 1
    BY DEF S
  <2> QED
    BY <1>2, <1>3, <2>1, OneIsLeast
<1>5. PICK u \in Int : (a * u) % n = 1
  BY <1>4
<1>6. (a * (u % n)) % n = 1
  <2>1. ((u % n) * a) % n = (u * a) % n
    BY <1>1, ProductReduced
  <2>2. (u % n) * a = a * (u % n) /\ u * a = a * u
    <3>1. u % n \in Int
      BY <1>1, Division
    <3> QED
      BY <1>1, <3>1
  <2> QED
    BY <1>5, <2>1, <2>2
<1>7. u % n \in 0 .. n - 1
  BY <1>1, Division
<1> QED
  BY <1>6, <1>7

-----------------------------------------------------------------------------
(* Loops.                                                                  *)

(* Induction along a range, over the set of the numbers that are good.       *)
LEMMA RangeInduction ==
  ASSUME NEW first \in Int, NEW last \in Int, NEW Good, first \in Good,
         \A i \in first .. last - 1 : i \in Good => i + 1 \in Good
  PROVE  first .. last \subseteq Good
<1> DEFINE Bad == {d \in Nat : first + d \in first .. last /\ first + d \notin Good}
<1>1. SUFFICES ASSUME Bad # {} PROVE FALSE
  <2>1. ASSUME NEW i \in first .. last, i \notin Good PROVE FALSE
    <3>1. i - first \in Nat /\ first + (i - first) = i
      OBVIOUS
    <3> QED
      BY <1>1, <2>1, <3>1
  <2> QED
    BY <2>1
<1>2. PICK d \in Bad : \A e \in Bad : d <= e
  BY <1>1, LeastNatural
<1>3. d # 0
  BY <1>2
<1>4. d - 1 \in Nat /\ first + (d - 1) \in first .. last - 1 /\ d - 1 \notin Bad
  BY <1>2, <1>3
<1>5. first + (d - 1) \in Good
  BY <1>4
<1>6. (first + (d - 1)) + 1 \in Good
  BY <1>4, <1>5
<1> QED
  BY <1>2, <1>6

\* The values of a loop: the first is a, and each round takes one to the next.
Runs(s, a, round, first, last) ==
  s = [i \in first .. last |-> IF i = first THEN a ELSE round[i - 1][s[i - 1]]]

(* A loop has its values.                                                    *)
LEMMA LoopRuns ==
  ASSUME NEW A, NEW a \in A, NEW first \in Int, NEW last \in Int, first <= last,
         NEW round \in [first .. last - 1 -> [A -> A]]
  PROVE  \E s \in [first .. last -> A] : Runs(s, a, round, first, last)
<1> DEFINE Good == {k \in first .. last : \E s \in [first .. k -> A] : Runs(s, a, round, first, k)}
<1>1. first \in Good
  <2> DEFINE s == [i \in first .. first |-> a]
  <2>1. s \in [first .. first -> A] /\ Runs(s, a, round, first, first)
    BY DEF Runs
  <2> HIDE DEF s
  <2>2. first \in first .. last /\ \E v \in [first .. first -> A] : Runs(v, a, round, first, first)
    BY <2>1
  <2> QED
    BY <2>2
<1>2. ASSUME NEW k \in first .. last - 1, k \in Good
      PROVE  k + 1 \in Good
  <2>1. PICK s \in [first .. k -> A] : Runs(s, a, round, first, k)
    BY <1>2
  <2> DEFINE t == [i \in first .. k + 1 |-> IF i = k + 1 THEN round[k][s[k]] ELSE s[i]]
  <2>2. round[k][s[k]] \in A
    BY <1>2, <2>1
  <2>3. t \in [first .. k + 1 -> A]
    BY <1>2, <2>1, <2>2
  <2>4. ASSUME NEW i \in first .. k + 1
        PROVE  t[i] = IF i = first THEN a ELSE round[i - 1][t[i - 1]]
    <3>1. CASE i = k + 1
      BY <1>2, <3>1
    <3>2. CASE i # k + 1
      <4>1. i \in first .. k /\ t[i] = s[i] /\ (i # first => t[i - 1] = s[i - 1])
        BY <1>2, <3>2
      <4>2. s[i] = IF i = first THEN a ELSE round[i - 1][s[i - 1]]
        BY <2>1, <4>1 DEF Runs
      <4> QED
        BY <4>1, <4>2
    <3> QED
      BY <3>1, <3>2
  <2>5. Runs(t, a, round, first, k + 1)
    BY <2>4 DEF Runs
  <2>6. k + 1 \in first .. last
    BY <1>2
  <2> HIDE DEF t
  <2>7. \E v \in [first .. k + 1 -> A] : Runs(v, a, round, first, k + 1)
    BY <2>3, <2>5
  <2> QED
    BY <2>6, <2>7
<1>3. first .. last \subseteq Good
  <2> HIDE DEF Good
  <2> QED
    BY <1>1, <1>2, RangeInduction
<1>4. last \in first .. last
  OBVIOUS
<1> QED
  BY <1>3, <1>4
=============================================================================
