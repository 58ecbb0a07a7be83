--------------------------- MODULE RingcipProofs ---------------------------
(***************************************************************************)
(* Proofs about the membership and authentication proofs, for every prime  *)
(* order, context, base, ring, member and draw.                            *)
(*                                                                         *)
(* First why the one-out-of-many proof of ring_impl.h works: a proof for   *)
(* one's own entry satisfies the equations of the verifier, one that       *)
(* satisfies them opens the entry it was made for, and it has the bytes    *)
(* get_size counts.  The loops of the code are recursive functions here:   *)
(* LoopRuns gives a loop its values, RangeInduction carries a fact from    *)
(* round to round, and from the section on congruence on the arithmetic is *)
(* modulo q.  Then, from there, what the callers may rely on.              *)
(***************************************************************************)
EXTENDS Ringcip, NumberLemmas, FiniteSetTheorems


-----------------------------------------------------------------------------
(* The loops.                                                                *)

\* What SumOf chooses: the values of its loop.
Adds(w, first, last, s) ==
  s = [i \in first .. last |-> IF i = first THEN 0 ELSE (s[i - 1] + w[i - 1]) % q]

(* The loop that adds has its values, and the sum is the last of them.       *)
LEMMA SumRuns ==
  ASSUME NEW first \in Int, NEW last \in Int, first <= last,
         NEW w, \A i \in first .. last - 1 : w[i] \in Int
  PROVE  \E s : Adds(w, first, last, s) /\ SumOf(w, first, last) = s[last]
<1> DEFINE round == [i \in first .. last - 1 |-> [v \in Int |-> (v + w[i]) % q]]
<1>1. round \in [first .. last - 1 -> [Int -> Int]]
  BY FieldAssumption
<1> HIDE DEF round
<1>2. PICK s \in [first .. last -> Int] :
        Runs(s, 0, round, first, last)
  <2>1. 0 \in Int
    OBVIOUS
  <2> QED
    BY <1>1, <2>1, LoopRuns, Zenon
<1>3. ASSUME NEW i \in first .. last
      PROVE  s[i] = IF i = first THEN 0 ELSE (s[i - 1] + w[i - 1]) % q
  <2>1. s[i] = IF i = first THEN 0 ELSE round[i - 1][s[i - 1]]
    BY <1>2 DEF Runs
  <2>2. ASSUME i # first PROVE round[i - 1][s[i - 1]] = (s[i - 1] + w[i - 1]) % q
    <3>1. i - 1 \in first .. last - 1 /\ s[i - 1] \in Int
      BY <2>2
    <3> QED
      BY <3>1 DEF round
  <2> QED
    BY <2>1, <2>2
<1>4. Adds(w, first, last, s)
  BY <1>2, <1>3 DEF Runs, Adds
<1>5. Adds(w, first, last, CHOOSE v : Adds(w, first, last, v))
  BY <1>4, Zenon
<1>6. SumOf(w, first, last) = (CHOOSE v : Adds(w, first, last, v))[last]
  BY DEF SumOf, Adds
<1> QED
  BY <1>5, <1>6

(* A sum of nothing is 0.                                                    *)
LEMMA SumEmpty ==
  ASSUME NEW first \in Int, NEW w
  PROVE  SumOf(w, first, first) = 0
<1>1. PICK s : Adds(w, first, first, s) /\ SumOf(w, first, first) = s[first]
  BY SumRuns
<1> QED
  BY <1>1 DEF Adds

(* Another round adds a term.                                                *)
LEMMA SumStep ==
  ASSUME NEW first \in Int, NEW last \in Int, first <= last,
         NEW w, \A i \in first .. last : w[i] \in Int
  PROVE  SumOf(w, first, last + 1) = (SumOf(w, first, last) + w[last]) % q
<1>1. PICK s : Adds(w, first, last, s) /\ SumOf(w, first, last) = s[last]
  BY SumRuns
<1>2. PICK t : Adds(w, first, last + 1, t) /\ SumOf(w, first, last + 1) = t[last + 1]
  <2>1. last + 1 \in Int /\ first <= last + 1 /\ \A i \in first .. (last + 1) - 1 : w[i] \in Int
    OBVIOUS
  <2> QED
    BY <2>1, SumRuns
<1> DEFINE Good == {i \in first .. last : s[i] = t[i]}
<1>3. first \in Good
  BY <1>1, <1>2 DEF Adds
<1>4. ASSUME NEW i \in first .. last - 1, i \in Good PROVE i + 1 \in Good
  <2>1. s[i + 1] = (s[i] + w[i]) % q
    BY <1>1 DEF Adds
  <2>2. t[i + 1] = (t[i] + w[i]) % q
    BY <1>2 DEF Adds
  <2> QED
    BY <1>4, <2>1, <2>2
<1>5. first .. last \subseteq Good
  <2> HIDE DEF Good
  <2> QED
    BY <1>3, <1>4, RangeInduction
<1>6. s[last] = t[last]
  BY <1>5
<1>7. t[last + 1] = (t[last] + w[last]) % q
  BY <1>2 DEF Adds
<1> QED
  BY <1>1, <1>2, <1>6, <1>7

(* Sums of integers are integers.                                            *)
LEMMA SumIsInt ==
  ASSUME NEW first \in Int, NEW last \in Int, first <= last,
         NEW w, \A i \in first .. last - 1 : w[i] \in Int
  PROVE  \A i \in first .. last : SumOf(w, first, i) \in Int
<1> DEFINE Good == {i \in first .. last : SumOf(w, first, i) \in Int}
<1>1. first \in Good
  BY SumEmpty
<1>2. ASSUME NEW i \in first .. last - 1, i \in Good PROVE i + 1 \in Good
  <2>1. SumOf(w, first, i + 1) = (SumOf(w, first, i) + w[i]) % q
    BY SumStep
  <2> QED
    BY <1>2, <2>1, FieldAssumption
<1>3. first .. last \subseteq Good
  <2> HIDE DEF Good
  <2> QED
    BY <1>1, <1>2, RangeInduction
<1> QED
  BY <1>3

\* What ProductOf chooses.
Multiplies(w, last, p) ==
  p = [i \in 0 .. last |-> IF i = 0 THEN 1 ELSE (p[i - 1] * w[i - 1]) % q]

(* The loop that multiplies has its values, and the product is the last.     *)
LEMMA ProductRuns ==
  ASSUME NEW last \in Nat, NEW w, \A i \in 0 .. last - 1 : w[i] \in Int
  PROVE  \E p : Multiplies(w, last, p) /\ ProductOf(w, last) = p[last]
<1> DEFINE round == [i \in 0 .. last - 1 |-> [v \in Int |-> (v * w[i]) % q]]
<1>1. round \in [0 .. last - 1 -> [Int -> Int]]
  BY FieldAssumption
<1> HIDE DEF round
<1>2. PICK p \in [0 .. last -> Int] :
        Runs(p, 1, round, 0, last)
  <2>1. 0 \in Int /\ 1 \in Int /\ last \in Int /\ 0 <= last
    OBVIOUS
  <2> QED
    BY <1>1, <2>1, LoopRuns, Zenon
<1>3. ASSUME NEW i \in 0 .. last
      PROVE  p[i] = IF i = 0 THEN 1 ELSE (p[i - 1] * w[i - 1]) % q
  <2>1. p[i] = IF i = 0 THEN 1 ELSE round[i - 1][p[i - 1]]
    BY <1>2 DEF Runs
  <2>2. ASSUME i # 0 PROVE round[i - 1][p[i - 1]] = (p[i - 1] * w[i - 1]) % q
    <3>1. i - 1 \in 0 .. last - 1 /\ p[i - 1] \in Int
      BY <2>2
    <3> QED
      BY <3>1 DEF round
  <2> QED
    BY <2>1, <2>2
<1>4. Multiplies(w, last, p)
  BY <1>2, <1>3 DEF Runs, Multiplies
<1>5. Multiplies(w, last, CHOOSE v : Multiplies(w, last, v))
  BY <1>4, Zenon
<1>6. ProductOf(w, last) = (CHOOSE v : Multiplies(w, last, v))[last]
  BY DEF ProductOf, Multiplies
<1> QED
  BY <1>5, <1>6

(* A product of nothing is 1.                                                *)
LEMMA ProductEmpty ==
  ASSUME NEW w
  PROVE  ProductOf(w, 0) = 1
<1>1. PICK p : Multiplies(w, 0, p) /\ ProductOf(w, 0) = p[0]
  BY ProductRuns
<1> QED
  BY <1>1 DEF Multiplies

(* Another round multiplies by a factor.                                     *)
LEMMA ProductStep ==
  ASSUME NEW last \in Nat, NEW w, \A i \in 0 .. last : w[i] \in Int
  PROVE  ProductOf(w, last + 1) = (ProductOf(w, last) * w[last]) % q
<1>1. PICK p : Multiplies(w, last, p) /\ ProductOf(w, last) = p[last]
  BY ProductRuns
<1>2. PICK r : Multiplies(w, last + 1, r) /\ ProductOf(w, last + 1) = r[last + 1]
  <2>1. last + 1 \in Nat /\ \A i \in 0 .. (last + 1) - 1 : w[i] \in Int
    OBVIOUS
  <2> QED
    BY <2>1, ProductRuns
<1> DEFINE Good == {i \in 0 .. last : p[i] = r[i]}
<1>3. 0 \in Good
  BY <1>1, <1>2 DEF Multiplies
<1>4. ASSUME NEW i \in 0 .. last - 1, i \in Good PROVE i + 1 \in Good
  <2>1. p[i + 1] = (p[i] * w[i]) % q
    BY <1>1 DEF Multiplies
  <2>2. r[i + 1] = (r[i] * w[i]) % q
    BY <1>2 DEF Multiplies
  <2> QED
    BY <1>4, <2>1, <2>2
<1>5. 0 .. last \subseteq Good
  <2> HIDE DEF Good
  <2> QED
    BY <1>3, <1>4, RangeInduction
<1>6. p[last] = r[last]
  BY <1>5
<1>7. r[last + 1] = (r[last] * w[last]) % q
  BY <1>2 DEF Multiplies
<1> QED
  BY <1>1, <1>2, <1>6, <1>7

(* Products of integers are integers.                                        *)
LEMMA ProductIsInt ==
  ASSUME NEW last \in Nat, NEW w, \A i \in 0 .. last - 1 : w[i] \in Int
  PROVE  \A i \in 0 .. last : ProductOf(w, i) \in Int
<1> DEFINE Good == {i \in 0 .. last : ProductOf(w, i) \in Int}
<1>1. 0 \in Good
  BY ProductEmpty
<1>2. ASSUME NEW i \in 0 .. last - 1, i \in Good PROVE i + 1 \in Good
  <2>1. ProductOf(w, i + 1) = (ProductOf(w, i) * w[i]) % q
    BY ProductStep
  <2> QED
    BY <1>2, <2>1, FieldAssumption
<1>3. 0 .. last \subseteq Good
  <2> HIDE DEF Good
  <2> QED
    BY <1>1, <1>2, RangeInduction
<1> QED
  BY <1>3

-----------------------------------------------------------------------------
(* Digits.                                                                   *)

\* What Capacity chooses.
Counts(n, m, s) == s = [i \in 0 .. m |-> IF i = 0 THEN 1 ELSE s[i - 1] * n]

(* The loop over tmpN has its values.                                        *)
LEMMA CapacityRuns ==
  ASSUME NEW n \in Nat, NEW m \in Nat
  PROVE  \E s : Counts(n, m, s) /\ Capacity(n, m) = s[m]
<1> DEFINE round == [i \in 0 .. m - 1 |-> [v \in Nat |-> v * n]]
<1>1. round \in [0 .. m - 1 -> [Nat -> Nat]]
  OBVIOUS
<1> HIDE DEF round
<1>2. PICK s \in [0 .. m -> Nat] : Runs(s, 1, round, 0, m)
  <2>1. 0 \in Int /\ 1 \in Nat /\ m \in Int /\ 0 <= m
    OBVIOUS
  <2> QED
    BY <1>1, <2>1, LoopRuns, Zenon
<1>3. ASSUME NEW i \in 0 .. m
      PROVE  s[i] = IF i = 0 THEN 1 ELSE s[i - 1] * n
  <2>1. s[i] = IF i = 0 THEN 1 ELSE round[i - 1][s[i - 1]]
    BY <1>2 DEF Runs
  <2>2. ASSUME i # 0 PROVE round[i - 1][s[i - 1]] = s[i - 1] * n
    <3>1. i - 1 \in 0 .. m - 1 /\ s[i - 1] \in Nat
      BY <2>2
    <3> QED
      BY <3>1 DEF round
  <2> QED
    BY <2>1, <2>2
<1>4. Counts(n, m, s)
  BY <1>2, <1>3 DEF Runs, Counts
<1>5. Counts(n, m, CHOOSE v : Counts(n, m, v))
  BY <1>4, Zenon
<1>6. Capacity(n, m) = (CHOOSE v : Counts(n, m, v))[m]
  BY DEF Capacity, Counts
<1> QED
  BY <1>5, <1>6

(* Another digit is n times the capacity.                                    *)
LEMMA CapacityGrows ==
  ASSUME NEW n \in Nat
  PROVE  /\ Capacity(n, 0) = 1
         /\ \A m \in Nat : Capacity(n, m + 1) = Capacity(n, m) * n
<1>1. Capacity(n, 0) = 1
  <2>1. PICK s : Counts(n, 0, s) /\ Capacity(n, 0) = s[0]
    BY CapacityRuns
  <2> QED
    BY <2>1 DEF Counts
<1>2. ASSUME NEW m \in Nat PROVE Capacity(n, m + 1) = Capacity(n, m) * n
  <2>1. PICK s : Counts(n, m, s) /\ Capacity(n, m) = s[m]
    BY CapacityRuns
  <2>2. PICK t : Counts(n, m + 1, t) /\ Capacity(n, m + 1) = t[m + 1]
    BY CapacityRuns
  <2> DEFINE Good == {i \in 0 .. m : s[i] = t[i]}
  <2>3. 0 \in Good
    BY <2>1, <2>2 DEF Counts
  <2>4. ASSUME NEW i \in 0 .. m - 1, i \in Good PROVE i + 1 \in Good
    <3>1. s[i + 1] = s[i] * n
      BY <2>1 DEF Counts
    <3>2. t[i + 1] = t[i] * n
      BY <2>2 DEF Counts
    <3> QED
      BY <2>4, <3>1, <3>2
  <2>5. 0 .. m \subseteq Good
    <3> HIDE DEF Good
    <3> QED
      BY <2>3, <2>4, RangeInduction
  <2>6. s[m] = t[m]
    BY <2>5
  <2>7. t[m + 1] = t[m] * n
    BY <2>2 DEF Counts
  <2> QED
    BY <2>1, <2>2, <2>6, <2>7
<1> QED
  BY <1>1, <1>2

\* What is left of num after j digits were taken from it.
Takes(n, j, num, rem) == rem = [i \in 0 .. j |-> IF i = 0 THEN num ELSE rem[i - 1] \div n]

Rest(j, n, num) == (CHOOSE rem : Takes(n, j, num, rem))[j]

(* The loop of get_jth has its values.                                       *)
LEMMA RestRuns ==
  ASSUME NEW n \in Nat, n > 0, NEW j \in Nat, NEW num \in Nat
  PROVE  \E rem : Takes(n, j, num, rem) /\ Rest(j, n, num) = rem[j]
<1> DEFINE round == [i \in 0 .. j - 1 |-> [v \in Nat |-> v \div n]]
<1>1. round \in [0 .. j - 1 -> [Nat -> Nat]]
  OBVIOUS
<1> HIDE DEF round
<1>2. PICK s \in [0 .. j -> Nat] : Runs(s, num, round, 0, j)
  <2>1. 0 \in Int /\ j \in Int /\ 0 <= j
    OBVIOUS
  <2> QED
    BY <1>1, <2>1, LoopRuns, Zenon
<1>3. ASSUME NEW i \in 0 .. j
      PROVE  s[i] = IF i = 0 THEN num ELSE s[i - 1] \div n
  <2>1. s[i] = IF i = 0 THEN num ELSE round[i - 1][s[i - 1]]
    BY <1>2 DEF Runs
  <2>2. ASSUME i # 0 PROVE round[i - 1][s[i - 1]] = s[i - 1] \div n
    <3>1. i - 1 \in 0 .. j - 1 /\ s[i - 1] \in Nat
      BY <2>2
    <3> QED
      BY <3>1 DEF round
  <2> QED
    BY <2>1, <2>2
<1>4. Takes(n, j, num, s)
  BY <1>2, <1>3 DEF Runs, Takes
<1>5. Takes(n, j, num, CHOOSE v : Takes(n, j, num, v))
  BY <1>4, Zenon
<1> QED
  BY <1>5 DEF Rest

(* Another round divides what is left by n.                                  *)
LEMMA RestShrinks ==
  ASSUME NEW n \in Nat, n > 0, NEW num \in Nat
  PROVE  /\ Rest(0, n, num) = num
         /\ \A j \in Nat : Rest(j + 1, n, num) = Rest(j, n, num) \div n
<1>1. Rest(0, n, num) = num
  <2>1. PICK s : Takes(n, 0, num, s) /\ Rest(0, n, num) = s[0]
    BY RestRuns
  <2> QED
    BY <2>1 DEF Takes
<1>2. ASSUME NEW j \in Nat PROVE Rest(j + 1, n, num) = Rest(j, n, num) \div n
  <2>1. PICK s : Takes(n, j, num, s) /\ Rest(j, n, num) = s[j]
    BY RestRuns
  <2>2. PICK t : Takes(n, j + 1, num, t) /\ Rest(j + 1, n, num) = t[j + 1]
    BY RestRuns
  <2> DEFINE Good == {i \in 0 .. j : s[i] = t[i]}
  <2>3. 0 \in Good
    BY <2>1, <2>2 DEF Takes
  <2>4. ASSUME NEW i \in 0 .. j - 1, i \in Good PROVE i + 1 \in Good
    <3>1. s[i + 1] = s[i] \div n
      BY <2>1 DEF Takes
    <3>2. t[i + 1] = t[i] \div n
      BY <2>2 DEF Takes
    <3> QED
      BY <2>4, <3>1, <3>2
  <2>5. 0 .. j \subseteq Good
    <3> HIDE DEF Good
    <3> QED
      BY <2>3, <2>4, RangeInduction
  <2>6. s[j] = t[j]
    BY <2>5
  <2>7. t[j + 1] = t[j] \div n
    BY <2>2 DEF Takes
  <2> QED
    BY <2>1, <2>2, <2>6, <2>7
<1> QED
  BY <1>1, <1>2

(* A digit is what the division of the rest leaves.                          *)
LEMMA GetJth ==
  ASSUME NEW n \in Nat, n > 0, NEW j \in Nat, NEW num \in Nat
  PROVE  get_jth(j, n, num) = Rest(j, n, num) - (Rest(j, n, num) \div n) * n
BY DEF get_jth, Rest, Takes

(* Digits are below n, and the rest is the next rest with its digit.         *)
LEMMA DigitAndRest ==
  ASSUME NEW n \in Nat, n > 0, NEW j \in Nat, NEW num \in Nat
  PROVE  /\ Rest(j, n, num) \in Nat
         /\ get_jth(j, n, num) \in 0 .. n - 1
         /\ Rest(j, n, num) = Rest(j + 1, n, num) * n + get_jth(j, n, num)
<1> DEFINE Good == {i \in 0 .. j : Rest(i, n, num) \in Nat}
<1>1. 0 \in Good
  BY RestShrinks
<1>2. ASSUME NEW i \in 0 .. j - 1, i \in Good PROVE i + 1 \in Good
  <2>1. Rest(i + 1, n, num) = Rest(i, n, num) \div n
    BY RestShrinks
  <2> QED
    BY <1>2, <2>1
<1>3. 0 .. j \subseteq Good
  <2> HIDE DEF Good
  <2> QED
    BY <1>1, <1>2, RangeInduction
<1>4. Rest(j, n, num) \in Nat
  BY <1>3
<1>5. Rest(j + 1, n, num) = Rest(j, n, num) \div n
  BY RestShrinks
<1>6. get_jth(j, n, num) = Rest(j, n, num) - (Rest(j, n, num) \div n) * n
  BY GetJth
<1>7. ASSUME NEW r \in Nat PROVE r - (r \div n) * n \in 0 .. n - 1
  OBVIOUS
<1> DEFINE r == Rest(j, n, num)
           y == (r \div n) * n
<1>8. y \in Int
  BY <1>4
<1>9. get_jth(j, n, num) \in 0 .. n - 1
  BY <1>4, <1>6, <1>7
<1>10. r = y + get_jth(j, n, num)
  <2>1. r \in Nat /\ get_jth(j, n, num) = r - y
    BY <1>4, <1>6
  <2> HIDE DEF r, y
  <2> QED
    BY <1>8, <2>1
<1> QED
  BY <1>4, <1>5, <1>9, <1>10

(* Two numbers that m digits can express are equal if these digits are.      *)
LEMMA DigitsTell ==
  ASSUME NEW n \in Nat, n > 0, NEW m \in Nat, NEW t \in Nat, NEW u \in Nat,
         t < Capacity(n, m), u < Capacity(n, m),
         \A j \in 0 .. m - 1 : get_jth(j, n, t) = get_jth(j, n, u)
  PROVE  t = u
<1>1. ASSUME NEW v \in Nat, v < Capacity(n, m)
      PROVE  Rest(m, n, v) = 0
  <2> DEFINE Good == {i \in 0 .. m : Capacity(n, i) \in Nat /\ Rest(i, n, v) * Capacity(n, i) <= v}
  <2>1. 0 \in Good
    <3>1. Capacity(n, 0) = 1 /\ Rest(0, n, v) = v /\ v * 1 <= v
      BY CapacityGrows, RestShrinks
    <3> QED
      BY <3>1
  <2>2. ASSUME NEW i \in 0 .. m - 1, i \in Good PROVE i + 1 \in Good
    <3> DEFINE c == Capacity(n, i)
               r == Rest(i, n, v)
               s == Rest(i + 1, n, v)
               d == get_jth(i, n, v)
    <3>1. c \in Nat /\ r \in Nat /\ s \in Nat /\ d \in Nat /\ r = s * n + d /\ r * c <= v
      BY <2>2, DigitAndRest
    <3>2. Capacity(n, i + 1) = c * n
      BY CapacityGrows
    <3> HIDE DEF c, r, s, d
    <3>3. r * c = s * (c * n) + d * c
      BY <3>1
    <3>4. d * c \in Nat /\ s * (c * n) \in Nat /\ r * c \in Nat /\ c * n \in Nat
      BY <3>1
    <3>5. s * (c * n) <= v
      BY <3>1, <3>3, <3>4
    <3> QED
      BY <3>2, <3>4, <3>5 DEF s
  <2>3. 0 .. m \subseteq Good
    <3> HIDE DEF Good
    <3> QED
      BY <2>1, <2>2, RangeInduction
  <2> DEFINE c == Capacity(n, m)
             r == Rest(m, n, v)
  <2>4. c \in Nat /\ r \in Nat /\ r * c <= v /\ v < c
    BY <1>1, <2>3, DigitAndRest
  <2> HIDE DEF c, r
  <2>5. ASSUME r >= 1 PROVE FALSE
    <3>1. (r - 1) * c \in Nat
      BY <2>4, <2>5
    <3>2. (r - 1) * c = r * c - c
      BY <2>4
    <3> QED
      BY <2>4, <3>1, <3>2
  <2>6. r = 0
    BY <2>4, <2>5
  <2> QED
    BY <2>6 DEF r
<1> DEFINE Good == {d \in 0 .. m : Rest(m - d, n, t) = Rest(m - d, n, u)}
<1>2. 0 \in Good
  BY <1>1
<1>3. ASSUME NEW d \in 0 .. m - 1, d \in Good PROVE d + 1 \in Good
  <2> DEFINE i == m - (d + 1)
  <2>1. i \in Nat /\ i \in 0 .. m - 1 /\ i + 1 = m - d
    BY <1>3
  <2>2. ASSUME NEW v \in Nat
        PROVE  Rest(i, n, v) = Rest(i + 1, n, v) * n + get_jth(i, n, v)
    <3>1. i \in Nat
      BY <2>1
    <3> HIDE DEF i
    <3> QED
      BY <3>1, DigitAndRest
  <2>3. Rest(i + 1, n, t) = Rest(i + 1, n, u)
    BY <1>3, <2>1
  <2>4. get_jth(i, n, t) = get_jth(i, n, u)
    BY <2>1
  <2> HIDE DEF i
  <2>5. Rest(i, n, t) = Rest(i, n, u)
    BY <2>2, <2>3, <2>4
  <2>6. d + 1 \in 0 .. m
    BY <1>3
  <2> QED
    BY <2>5, <2>6 DEF i
<1>4. 0 .. m \subseteq Good
  <2> HIDE DEF Good
  <2> QED
    BY <1>2, <1>3, RangeInduction
<1>5. Rest(0, n, t) = Rest(0, n, u)
  <2>1. m \in 0 .. m /\ m - m = 0
    OBVIOUS
  <2> QED
    BY <1>4, <2>1
<1> QED
  BY <1>5, RestShrinks

-----------------------------------------------------------------------------
(* Congruence.                                                               *)

\* The multiples of the order.
Multiples == {q * k : k \in Int}

\* x and y are the same modulo q.
x \cong y == x - y \in Multiples

(* The order is a prime as NumberLemmas has it.                              *)
LEMMA OrderIsPrime == Prime(q) /\ q \in Nat /\ q > 0
BY FieldAssumption DEF Prime

(* Multiples of q add up to multiples.                                       *)
LEMMA MultiplesAdd ==
  ASSUME NEW x \in Multiples, NEW y \in Multiples
  PROVE  x + y \in Multiples /\ x - y \in Multiples /\ x \in Int
<1>1. PICK k \in Int : x = q * k
  BY DEF Multiples
<1>2. PICK l \in Int : y = q * l
  BY DEF Multiples
<1>3. q \in Int
  BY OrderIsPrime
<1>4. x + y = q * (k + l) /\ x - y = q * (k - l) /\ k + l \in Int /\ k - l \in Int
  BY <1>1, <1>2, <1>3
<1>5. x \in Int
  BY <1>1, <1>3
<1> QED
  BY <1>4, <1>5 DEF Multiples

(* What is multiplied with a multiple is a multiple.                         *)
LEMMA MultiplesTimes ==
  ASSUME NEW x \in Multiples, NEW c \in Int
  PROVE  c * x \in Multiples
<1>1. PICK k \in Int : x = q * k
  BY DEF Multiples
<1>2. q \in Int
  BY OrderIsPrime
<1>3. c * x = q * (c * k) /\ c * k \in Int
  BY <1>1, <1>2
<1> QED
  BY <1>3 DEF Multiples

(* Numbers have the same remainder if they are congruent.                    *)
LEMMA SameRemainder ==
  ASSUME NEW x \in Int, NEW y \in Int
  PROVE  x % q = y % q <=> x \cong y
<1>1. x % q = y % q <=> \E k \in Int : x = y + q * k
  BY OrderIsPrime, Congruent, Zenon
<1>2. \A k \in Int : x = y + q * k <=> x - y = q * k
  BY OrderIsPrime
<1> QED
  BY <1>1, <1>2 DEF \cong, Multiples

(* A number is congruent to itself,                                          *)
LEMMA CongReflexive ==
  ASSUME NEW x \in Int
  PROVE  x \cong x
BY SameRemainder

(* and to its remainder.                                                     *)
LEMMA CongReduced ==
  ASSUME NEW x \in Int
  PROVE  x % q \in Int /\ x % q \in Scalars /\ x % q \cong x
<1>1. x % q \in 0 .. q - 1
  BY OrderIsPrime
<1>2. \A r \in 0 .. q - 1 : r \in Int /\ r % q = r
  BY OrderIsPrime
<1>3. x % q \in Int /\ (x % q) % q = x % q
  BY <1>1, <1>2
<1> QED
  BY <1>1, <1>3, SameRemainder DEF Scalars

(* Congruence is symmetric,                                                  *)
LEMMA CongSymmetric ==
  ASSUME NEW x \in Int, NEW y \in Int, x \cong y
  PROVE  y \cong x
BY SameRemainder

(* and transitive.                                                           *)
LEMMA CongTransitive ==
  ASSUME NEW x \in Int, NEW y \in Int, NEW z \in Int, x \cong y, y \cong z
  PROVE  x \cong z
<1>1. x % q = y % q /\ y % q = z % q
  BY SameRemainder
<1> QED
  BY <1>1, SameRemainder

(* Congruent numbers have congruent sums and differences,                    *)
LEMMA CongSum ==
  ASSUME NEW x \in Int, NEW y \in Int, NEW u \in Int, NEW v \in Int, x \cong y, u \cong v
  PROVE  x + u \cong y + v /\ x - u \cong y - v
<1>1. x - y \in Multiples /\ u - v \in Multiples
  BY DEF \cong
<1>2. (x - y) + (u - v) \in Multiples /\ (x - y) - (u - v) \in Multiples
  BY <1>1, MultiplesAdd
<1>3. (x + u) - (y + v) = (x - y) + (u - v) /\ (x - u) - (y - v) = (x - y) - (u - v)
  OBVIOUS
<1> QED
  BY <1>2, <1>3 DEF \cong

(* and congruent products.                                                   *)
LEMMA CongProduct ==
  ASSUME NEW x \in Int, NEW y \in Int, NEW u \in Int, NEW v \in Int, x \cong y, u \cong v
  PROVE  x * u \cong y * v
<1>1. x - y \in Multiples /\ u - v \in Multiples
  BY DEF \cong
<1>2. u * (x - y) \in Multiples /\ y * (u - v) \in Multiples
  BY <1>1, MultiplesTimes
<1>3. u * (x - y) + y * (u - v) \in Multiples
  BY <1>2, MultiplesAdd
<1>4. x * u - y * v = u * (x - y) + y * (u - v)
  OBVIOUS
<1> QED
  BY <1>3, <1>4 DEF \cong

-----------------------------------------------------------------------------
(* Sums and products, modulo q.                                              *)

(* Another round adds a term, up to a multiple of q.                         *)
LEMMA SumCongStep ==
  ASSUME NEW first \in Int, NEW last \in Int, first <= last,
         NEW w, \A i \in first .. last : w[i] \in Int
  PROVE  /\ SumOf(w, first, last) \in Int /\ SumOf(w, first, last + 1) \in Int
         /\ SumOf(w, first, last + 1) \cong SumOf(w, first, last) + w[last]
<1>1. SumOf(w, first, last) \in Int
  BY SumIsInt
<1>2. SumOf(w, first, last + 1) = (SumOf(w, first, last) + w[last]) % q
  BY SumStep
<1>3. w[last] \in Int /\ SumOf(w, first, last) + w[last] \in Int
  BY <1>1
<1> QED
  BY <1>1, <1>2, <1>3, CongReduced

(* A sum of combinations is the combination of the sums.                     *)
LEMMA SumsCombine ==
  ASSUME NEW first \in Int, NEW last \in Int, first <= last, NEW c \in Int, NEW d \in Int,
         NEW w, NEW v, NEW y,
         \A i \in first .. last - 1 :
           /\ w[i] \in Int /\ v[i] \in Int /\ y[i] \in Int
           /\ y[i] \cong c * w[i] + d * v[i]
  PROVE  SumOf(y, first, last) \cong c * SumOf(w, first, last) + d * SumOf(v, first, last)
<1> DEFINE Good == {i \in first .. last :
                      SumOf(y, first, i) \cong c * SumOf(w, first, i) + d * SumOf(v, first, i)}
<1>1. first \in Good
  <2>1. SumOf(y, first, first) = 0 /\ SumOf(w, first, first) = 0 /\ SumOf(v, first, first) = 0
    BY SumEmpty
  <2>2. 0 = c * 0 + d * 0 /\ 0 \cong 0
    BY CongReflexive
  <2> QED
    BY <2>1, <2>2
<1>2. ASSUME NEW i \in first .. last - 1, i \in Good PROVE i + 1 \in Good
  <2> DEFINE a  == SumOf(y, first, i)
             b  == SumOf(w, first, i)
             e  == SumOf(v, first, i)
             a1 == SumOf(y, first, i + 1)
             b1 == SumOf(w, first, i + 1)
             e1 == SumOf(v, first, i + 1)
             yi == y[i]
             wi == w[i]
             vi == v[i]
  <2>1. /\ a \in Int /\ b \in Int /\ e \in Int /\ a1 \in Int /\ b1 \in Int /\ e1 \in Int
        /\ a1 \cong a + yi /\ b1 \cong b + wi /\ e1 \cong e + vi
    <3>1. /\ i \in Int /\ first <= i
          /\ \A k \in first .. i : y[k] \in Int /\ w[k] \in Int /\ v[k] \in Int
      OBVIOUS
    <3>2. a \in Int /\ a1 \in Int /\ a1 \cong a + yi
      BY <3>1, SumCongStep
    <3>3. b \in Int /\ b1 \in Int /\ b1 \cong b + wi
      BY <3>1, SumCongStep
    <3>4. e \in Int /\ e1 \in Int /\ e1 \cong e + vi
      BY <3>1, SumCongStep
    <3> QED
      BY <3>2, <3>3, <3>4
  <2>2. a \cong c * b + d * e
    BY <1>2
  <2>3. yi \in Int /\ wi \in Int /\ vi \in Int /\ yi \cong c * wi + d * vi
    OBVIOUS
  <2> HIDE DEF a, b, e, a1, b1, e1, yi, wi, vi
  <2>4. /\ a1 - (a + yi) \in Multiples /\ b1 - (b + wi) \in Multiples /\ e1 - (e + vi) \in Multiples
        /\ a - (c * b + d * e) \in Multiples /\ yi - (c * wi + d * vi) \in Multiples
    BY <2>1, <2>2, <2>3 DEF \cong
  <2>5. c * (b1 - (b + wi)) \in Multiples /\ d * (e1 - (e + vi)) \in Multiples
    BY <2>4, MultiplesTimes
  <2>6. (((a1 - (a + yi)) + (a - (c * b + d * e))) + (yi - (c * wi + d * vi)))
          - (c * (b1 - (b + wi)) + d * (e1 - (e + vi))) \in Multiples
    BY <2>4, <2>5, MultiplesAdd
  <2>7. a1 - (c * b1 + d * e1)
          = (((a1 - (a + yi)) + (a - (c * b + d * e))) + (yi - (c * wi + d * vi)))
            - (c * (b1 - (b + wi)) + d * (e1 - (e + vi)))
    BY <2>1, <2>3
  <2>8. a1 \cong c * b1 + d * e1
    BY <2>6, <2>7 DEF \cong
  <2> QED
    BY <2>8 DEF a1, b1, e1
<1>3. first .. last \subseteq Good
  <2> HIDE DEF Good
  <2> QED
    BY <1>1, <1>2, RangeInduction
<1>4. last \in first .. last
  OBVIOUS
<1> QED
  BY <1>3, <1>4

(* Another round multiplies by a factor, up to a multiple of q.              *)
LEMMA ProductCongStep ==
  ASSUME NEW last \in Nat, NEW w, \A i \in 0 .. last : w[i] \in Int
  PROVE  /\ ProductOf(w, last) \in Int /\ ProductOf(w, last + 1) \in Int
         /\ ProductOf(w, last + 1) \cong ProductOf(w, last) * w[last]
<1>1. ProductOf(w, last) \in Int
  BY ProductIsInt
<1>2. ProductOf(w, last + 1) = (ProductOf(w, last) * w[last]) % q
  BY ProductStep
<1>3. w[last] \in Int /\ ProductOf(w, last) * w[last] \in Int
  BY <1>1
<1> QED
  BY <1>1, <1>2, <1>3, CongReduced

-----------------------------------------------------------------------------
(* Powers.                                                                   *)

(* The product depends on the factors only.                                  *)
LEMMA ProductSame ==
  ASSUME NEW last \in Nat, NEW w, NEW v,
         \A i \in 0 .. last - 1 : w[i] \in Int /\ v[i] = w[i]
  PROVE  ProductOf(v, last) = ProductOf(w, last)
<1> DEFINE Good == {i \in 0 .. last : ProductOf(v, i) = ProductOf(w, i)}
<1>1. 0 \in Good
  BY ProductEmpty
<1>2. ASSUME NEW i \in 0 .. last - 1, i \in Good PROVE i + 1 \in Good
  <2>1. i \in Nat /\ \A k \in 0 .. i : w[k] \in Int /\ v[k] \in Int
    OBVIOUS
  <2>2. ProductOf(w, i + 1) = (ProductOf(w, i) * w[i]) % q
    BY <2>1, ProductStep
  <2>3. ProductOf(v, i + 1) = (ProductOf(v, i) * v[i]) % q
    BY <2>1, ProductStep
  <2> QED
    BY <1>2, <2>2, <2>3
<1>3. 0 .. last \subseteq Good
  <2> HIDE DEF Good
  <2> QED
    BY <1>1, <1>2, RangeInduction
<1> QED
  BY <1>3

(* The next power is x times the power.                                      *)
LEMMA PowerStep ==
  ASSUME NEW x \in Int, NEW m \in Nat
  PROVE  Power(x, m + 1) = (Power(x, m) * x) % q
<1> DEFINE w == [j \in 0 .. m - 1 |-> x]
           v == [j \in 0 .. (m + 1) - 1 |-> x]
<1>1. \A i \in 0 .. m : v[i] = x
  OBVIOUS
<1>2. \A i \in 0 .. m - 1 : w[i] \in Int /\ v[i] = w[i]
  OBVIOUS
<1>3. Power(x, m) = ProductOf(w, m) /\ Power(x, m + 1) = ProductOf(v, m + 1)
  BY DEF Power
<1> HIDE DEF w, v
<1>4. ProductOf(v, m) = ProductOf(w, m)
  BY <1>2, ProductSame
<1>5. ProductOf(v, m + 1) = (ProductOf(v, m) * v[m]) % q
  BY <1>1, ProductStep
<1>6. v[m] = x
  BY <1>1
<1> QED
  BY <1>3, <1>4, <1>5, <1>6

(* Powers are integers, and start with 1.                                    *)
LEMMA Powers ==
  ASSUME NEW x \in Int
  PROVE  /\ Power(x, 0) = 1
         /\ \A m \in Nat : Power(x, m) \in Int /\ Power(x, m + 1) \cong Power(x, m) * x
<1>1. Power(x, 0) = 1
  BY ProductEmpty DEF Power
<1>2. ASSUME NEW m \in Nat PROVE Power(x, m) \in Int
  <2> DEFINE w == [j \in 0 .. m - 1 |-> x]
  <2>1. \A i \in 0 .. m - 1 : w[i] \in Int
    OBVIOUS
  <2>2. Power(x, m) = ProductOf(w, m)
    BY DEF Power
  <2> HIDE DEF w
  <2>3. m \in 0 .. m
    OBVIOUS
  <2> QED
    BY <2>1, <2>2, <2>3, ProductIsInt
<1>3. ASSUME NEW m \in Nat PROVE Power(x, m + 1) \cong Power(x, m) * x
  <2>1. Power(x, m) * x \in Int
    BY <1>2
  <2> QED
    BY <2>1, PowerStep, CongReduced
<1> QED
  BY <1>1, <1>2, <1>3

(* No power of a scalar is 0 but that of 0.                                  *)
LEMMA PowerNotZero ==
  ASSUME NEW x \in Scalars \ {0}, NEW m \in Nat
  PROVE  Power(x, m) \in Scalars \ {0}
<1> DEFINE Good == {i \in 0 .. m : Power(x, i) \in Scalars \ {0}}
<1>1. x \in Int /\ x \in 1 .. q - 1
  BY OrderIsPrime DEF Scalars
<1>2. 0 \in Good
  <2>1. Power(x, 0) = 1
    BY <1>1, Powers
  <2>2. 1 \in Scalars \ {0} /\ 0 \in 0 .. m
    BY FieldAssumption DEF Scalars
  <2> QED
    BY <2>1, <2>2
<1>3. ASSUME NEW i \in 0 .. m - 1, i \in Good PROVE i + 1 \in Good
  <2>1. Power(x, i + 1) = (Power(x, i) * x) % q
    BY <1>1, PowerStep
  <2>2. Power(x, i) \in 1 .. q - 1
    BY <1>3, OrderIsPrime DEF Scalars
  <2>3. (Power(x, i) * x) % q # 0
    BY <1>1, <2>2, OrderIsPrime, NoZeroDivisors
  <2>4. Power(x, i) * x \in Int
    BY <1>1, <2>2
  <2>5. (Power(x, i) * x) % q \in Scalars
    BY <2>4, CongReduced
  <2> QED
    BY <2>1, <2>3, <2>5
<1>4. 0 .. m \subseteq Good
  <2> HIDE DEF Good
  <2> QED
    BY <1>2, <1>3, RangeInduction
<1> QED
  BY <1>4

-----------------------------------------------------------------------------
(* The product of the linear factors.                                        *)

\* p[j] are the coefficients of the product of the first j of m factors
\* alpha + delta x.
Factors(p, alpha, delta, m) ==
  /\ \A j \in 0 .. m, d \in 0 .. m : p[j][d] \in Int
  /\ \A j \in 0 .. m - 1 : alpha[j] \in Int /\ delta[j] \in Int
  /\ \A d \in 0 .. m : p[0][d] = IF d = 0 THEN 1 ELSE 0
  /\ \A j \in 0 .. m - 1, d \in 0 .. m :
       p[j + 1][d] = (p[j][d] * alpha[j] + IF d = 0 THEN 0 ELSE p[j][d - 1] * delta[j]) % q

(* The product of j factors has no coefficient above the j-th.               *)
LEMMA DegreeBound ==
  ASSUME NEW m \in Nat, NEW p, NEW alpha, NEW delta, Factors(p, alpha, delta, m)
  PROVE  \A j \in 0 .. m : \A d \in j + 1 .. m : p[j][d] = 0
<1> DEFINE Good == {j \in 0 .. m : \A d \in j + 1 .. m : p[j][d] = 0}
<1>1. 0 \in Good
  BY DEF Factors
<1>2. ASSUME NEW j \in 0 .. m - 1, j \in Good PROVE j + 1 \in Good
  <2> SUFFICES ASSUME NEW d \in (j + 1) + 1 .. m PROVE p[j + 1][d] = 0
    OBVIOUS
  <2>1. p[j][d] = 0 /\ p[j][d - 1] = 0
    BY <1>2
  <2>2. d \in 0 .. m /\ d # 0
    OBVIOUS
  <2>3. p[j + 1][d] = (p[j][d] * alpha[j] + p[j][d - 1] * delta[j]) % q
    BY <2>2 DEF Factors
  <2>4. alpha[j] \in Int /\ delta[j] \in Int
    BY DEF Factors
  <2>5. 0 * alpha[j] + 0 * delta[j] = 0
    BY <2>4
  <2>6. 0 % q = 0
    BY OrderIsPrime
  <2> QED
    BY <2>1, <2>3, <2>5, <2>6
<1>3. 0 .. m \subseteq Good
  <2> HIDE DEF Good
  <2> QED
    BY <1>1, <1>2, RangeInduction
<1> QED
  BY <1>3

(* The leading coefficient is the product of the deltas.                     *)
LEMMA LeadingCoefficient ==
  ASSUME NEW m \in Nat, NEW p, NEW alpha, NEW delta, Factors(p, alpha, delta, m)
  PROVE  p[m][m] \cong ProductOf(delta, m)
<1> DEFINE Good == {j \in 0 .. m : p[j][j] \cong ProductOf(delta, j)}
<1>1. 0 \in Good
  <2>1. p[0][0] = 1 /\ ProductOf(delta, 0) = 1
    BY ProductEmpty DEF Factors
  <2>2. 1 \cong 1
    BY CongReflexive
  <2> QED
    BY <2>1, <2>2
<1>2. ASSUME NEW j \in 0 .. m - 1, j \in Good PROVE j + 1 \in Good
  <2> DEFINE P  == ProductOf(delta, j)
             P1 == ProductOf(delta, j + 1)
             a  == p[j][j]
             e  == delta[j]
             b  == p[j][j + 1]
             c  == alpha[j]
             a1 == p[j + 1][j + 1]
  <2>1. j \in Nat /\ \A i \in 0 .. j : delta[i] \in Int
    BY DEF Factors
  <2>2. P \in Int /\ P1 \in Int /\ P1 \cong P * e
    BY <2>1, ProductCongStep
  <2>3. /\ j \in 0 .. m /\ j + 1 \in 0 .. m /\ j + 1 # 0 /\ (j + 1) - 1 = j
        /\ j + 1 \in j + 1 .. m
    OBVIOUS
  <2>4. a \in Int /\ e \in Int /\ b \in Int /\ c \in Int /\ a1 \in Int
    BY <2>3 DEF Factors
  <2>5. a1 = (b * c + a * e) % q
    BY <2>3 DEF Factors
  <2>6. b = 0
    BY <2>3, DegreeBound
  <2>7. a \cong P
    BY <1>2
  <2> HIDE DEF P, P1, a, b, c, e, a1
  <2>8. b * c + a * e = a * e /\ a * e \in Int /\ P * e \in Int
    BY <2>2, <2>4, <2>6
  <2>9. a1 \cong a * e
    BY <2>5, <2>8, CongReduced
  <2>10. a * e \cong P * e
    BY <2>2, <2>4, <2>7, CongReflexive, CongProduct
  <2>11. a1 \cong P * e
    BY <2>4, <2>8, <2>9, <2>10, CongTransitive
  <2>12. P * e \cong P1
    BY <2>2, <2>8, CongSymmetric
  <2>13. a1 \cong P1
    BY <2>2, <2>4, <2>8, <2>11, <2>12, CongTransitive
  <2> QED
    BY <2>13 DEF P1, a1
<1>3. 0 .. m \subseteq Good
  <2> HIDE DEF Good
  <2> QED
    BY <1>1, <1>2, RangeInduction
<1>4. m \in 0 .. m
  OBVIOUS
<1> QED
  BY <1>3, <1>4

\* The terms of the value at x of the polynomial with coefficients p[j].
Terms(p, j, x, m) == [d \in 0 .. m |-> p[j][d] * Power(x, d)]

(* The value of a product of factors, added term by term.                    *)
LEMMA TermsAdded ==
  ASSUME NEW m \in Nat, NEW p, NEW alpha, NEW delta, Factors(p, alpha, delta, m),
         NEW x \in Int, NEW j \in 0 .. m, NEW i \in 0 .. m
  PROVE  /\ SumOf(Terms(p, j, x, m), 0, 0) = 0
         /\ SumOf(Terms(p, j, x, m), 0, i) \in Int /\ SumOf(Terms(p, j, x, m), 0, i + 1) \in Int
         /\ SumOf(Terms(p, j, x, m), 0, i + 1)
              \cong SumOf(Terms(p, j, x, m), 0, i) + p[j][i] * Power(x, i)
<1> DEFINE w == Terms(p, j, x, m)
<1>1. \A k \in 0 .. m : w[k] = p[j][k] * Power(x, k) /\ w[k] \in Int
  <2>1. \A k \in 0 .. m : p[j][k] \in Int /\ Power(x, k) \in Int
    BY Powers DEF Factors
  <2> QED
    BY <2>1 DEF Terms
<1>2. /\ 0 \in Int /\ i \in Int /\ 0 <= i /\ (\A k \in 0 .. i : w[k] \in Int)
      /\ w[i] = p[j][i] * Power(x, i)
  BY <1>1
<1> HIDE DEF w
<1>3. SumOf(w, 0, i) \in Int /\ SumOf(w, 0, i + 1) \in Int /\ SumOf(w, 0, i + 1) \cong SumOf(w, 0, i) + w[i]
  BY <1>2, SumCongStep
<1>4. SumOf(w, 0, 0) = 0
  BY SumEmpty
<1> QED
  BY <1>2, <1>3, <1>4 DEF w

(* One more factor multiplies the value.                                     *)
LEMMA FactorValue ==
  ASSUME NEW m \in Nat, NEW p, NEW alpha, NEW delta, Factors(p, alpha, delta, m),
         NEW x \in Int, NEW j \in 0 .. m - 1, NEW i \in 0 .. m
  PROVE  SumOf(Terms(p, j + 1, x, m), 0, i + 1)
           \cong alpha[j] * SumOf(Terms(p, j, x, m), 0, i + 1)
                 + (delta[j] * x) * SumOf(Terms(p, j, x, m), 0, i)
<1> DEFINE F(k) == SumOf(Terms(p, j + 1, x, m), 0, k)
           E(k) == SumOf(Terms(p, j, x, m), 0, k)
           a    == alpha[j]
           c    == delta[j]
           Good == {k \in 0 .. m : F(k + 1) \cong a * E(k + 1) + (c * x) * E(k)}
<1>1. a \in Int /\ c \in Int /\ j \in 0 .. m /\ j + 1 \in 0 .. m
  BY DEF Factors
<1>2. \A k \in 0 .. m : /\ F(k) \in Int /\ E(k) \in Int /\ F(k + 1) \in Int /\ E(k + 1) \in Int
                        /\ F(k + 1) \cong F(k) + p[j + 1][k] * Power(x, k)
                        /\ E(k + 1) \cong E(k) + p[j][k] * Power(x, k)
  BY <1>1, TermsAdded
<1>3. E(0) = 0 /\ F(0) = 0
  BY <1>1, TermsAdded
<1>4. \A k \in 0 .. m : p[j][k] \in Int /\ p[j + 1][k] \in Int /\ Power(x, k) \in Int
  <2>1. \A k \in 0 .. m : Power(x, k) \in Int
    BY Powers
  <2>2. \A k \in 0 .. m : p[j][k] \in Int /\ p[j + 1][k] \in Int
    BY <1>1 DEF Factors
  <2> QED
    BY <2>1, <2>2
<1>5. /\ p[j + 1][0] \cong p[j][0] * a
      /\ \A k \in 1 .. m : p[j + 1][k] \cong p[j][k] * a + p[j][k - 1] * c
  <2>1. p[j + 1][0] = (p[j][0] * a + 0) % q
    BY DEF Factors
  <2>2. p[j][0] * a \in Int /\ p[j][0] * a + 0 = p[j][0] * a
    BY <1>1, <1>4
  <2>3. ASSUME NEW k \in 1 .. m PROVE p[j + 1][k] \cong p[j][k] * a + p[j][k - 1] * c
    <3>1. k \in 0 .. m /\ k # 0 /\ k - 1 \in 0 .. m
      OBVIOUS
    <3>2. p[j + 1][k] = (p[j][k] * a + p[j][k - 1] * c) % q
      BY <3>1 DEF Factors
    <3>3. p[j][k] * a + p[j][k - 1] * c \in Int
      BY <1>1, <1>4, <3>1
    <3> QED
      BY <3>2, <3>3, CongReduced
  <2> QED
    BY <2>1, <2>2, <2>3, CongReduced
<1>6. 0 \in Good
  <2> DEFINE F1 == F(1)
             E1 == E(1)
             b  == p[j + 1][0]
             b0 == p[j][0]
  <2>1. /\ F1 \in Int /\ E1 \in Int /\ b \in Int /\ b0 \in Int
        /\ F1 \cong 0 + b * 1 /\ E1 \cong 0 + b0 * 1 /\ b \cong b0 * a
    <3>1. 0 \in 0 .. m /\ 0 + 1 = 1 /\ Power(x, 0) = 1
      BY Powers
    <3> QED
      BY <1>2, <1>3, <1>4, <1>5, <3>1
  <2> HIDE DEF F1, E1, b, b0, F, E, a, c
  <2>2. F1 - (0 + b * 1) \in Multiples /\ E1 - (0 + b0 * 1) \in Multiples /\ b - b0 * a \in Multiples
    BY <2>1 DEF \cong
  <2>3. a * (E1 - (0 + b0 * 1)) \in Multiples
    BY <1>1, <2>2, MultiplesTimes
  <2>4. ((F1 - (0 + b * 1)) + (b - b0 * a)) - a * (E1 - (0 + b0 * 1)) \in Multiples
    BY <2>2, <2>3, MultiplesAdd
  <2>5. F1 - (a * E1 + (c * x) * 0) = ((F1 - (0 + b * 1)) + (b - b0 * a)) - a * (E1 - (0 + b0 * 1))
    BY <1>1, <2>1
  <2>6. F1 \cong a * E1 + (c * x) * 0
    BY <2>4, <2>5 DEF \cong
  <2>7. F(0 + 1) = F1 /\ E(0 + 1) = E1
    BY DEF F1, E1
  <2> QED
    BY <1>3, <2>6, <2>7
<1>7. ASSUME NEW l \in 0 .. m - 1, l \in Good PROVE l + 1 \in Good
  <2> DEFINE k  == l + 1
             F2 == F(k + 1)
             F1 == F(k)
             E2 == E(k + 1)
             E1 == E(k)
             E0 == E(l)
             X1 == Power(x, k)
             X0 == Power(x, l)
             b  == p[j + 1][k]
             b1 == p[j][k]
             b0 == p[j][l]
  <2>1. k \in 0 .. m /\ k \in 1 .. m /\ l \in 0 .. m /\ k - 1 = l /\ l \in Nat
    OBVIOUS
  <2>2. /\ F2 \in Int /\ F1 \in Int /\ E2 \in Int /\ E1 \in Int /\ E0 \in Int
        /\ X1 \in Int /\ X0 \in Int /\ b \in Int /\ b1 \in Int /\ b0 \in Int
    BY <1>2, <1>4, <2>1
  <2>3. F2 \cong F1 + b * X1 /\ E2 \cong E1 + b1 * X1 /\ E1 \cong E0 + b0 * X0
    BY <1>2, <2>1
  <2>4. b \cong b1 * a + b0 * c
    BY <1>5, <2>1
  <2>5. X1 \cong X0 * x
    BY <2>1, Powers
  <2>6. F1 \cong a * E1 + (c * x) * E0
    BY <1>7
  <2> HIDE DEF k, F2, F1, E2, E1, E0, X1, X0, b, b1, b0, F, E, a, c
  <2>7. /\ F2 - (F1 + b * X1) \in Multiples /\ E2 - (E1 + b1 * X1) \in Multiples
        /\ E1 - (E0 + b0 * X0) \in Multiples /\ b - (b1 * a + b0 * c) \in Multiples
        /\ X1 - X0 * x \in Multiples /\ F1 - (a * E1 + (c * x) * E0) \in Multiples
    BY <2>3, <2>4, <2>5, <2>6 DEF \cong
  <2>8. b0 * c \in Int /\ c * x \in Int
    BY <1>1, <2>2
  <2>9. /\ a * (E2 - (E1 + b1 * X1)) \in Multiples /\ (c * x) * (E1 - (E0 + b0 * X0)) \in Multiples
        /\ X1 * (b - (b1 * a + b0 * c)) \in Multiples /\ (b0 * c) * (X1 - X0 * x) \in Multiples
    BY <1>1, <2>2, <2>7, <2>8, MultiplesTimes
  <2> DEFINE u1 == F2 - (F1 + b * X1)
             u2 == F1 - (a * E1 + (c * x) * E0)
             u3 == a * (E2 - (E1 + b1 * X1))
             u4 == (c * x) * (E1 - (E0 + b0 * X0))
             u5 == X1 * (b - (b1 * a + b0 * c))
             u6 == (b0 * c) * (X1 - X0 * x)
  <2>10. F2 - (a * E2 + (c * x) * E1) = (u1 + u2 + u5 + u6) - (u3 + u4)
    BY <1>1, <2>2
  <2>11. /\ u1 \in Multiples /\ u2 \in Multiples /\ u3 \in Multiples
         /\ u4 \in Multiples /\ u5 \in Multiples /\ u6 \in Multiples
    BY <2>7, <2>9
  <2> HIDE DEF u1, u2, u3, u4, u5, u6
  <2>12. (u1 + u2 + u5 + u6) - (u3 + u4) \in Multiples
    BY <2>11, MultiplesAdd
  <2>13. F2 \cong a * E2 + (c * x) * E1
    BY <2>10, <2>12 DEF \cong
  <2> QED
    BY <2>1, <2>13 DEF F2, E2, E1, k
<1>8. 0 .. m \subseteq Good
  <2> HIDE DEF Good
  <2> QED
    BY <1>6, <1>7, RangeInduction
<1> QED
  BY <1>8

(* The product of the values of the factors is the value of the product:     *)
(* its terms below m, and the leading one.                                   *)
LEMMA ProductValue ==
  ASSUME NEW m \in Nat, NEW p, NEW alpha, NEW delta, Factors(p, alpha, delta, m),
         NEW x \in Int, NEW f, \A j \in 0 .. m - 1 : f[j] \in Int /\ f[j] \cong alpha[j] + delta[j] * x
  PROVE  /\ ProductOf(f, m) \in Int /\ ProductOf(delta, m) \in Int
         /\ ProductOf(f, m) \cong SumOf(Terms(p, m, x, m), 0, m) + ProductOf(delta, m) * Power(x, m)
<1> DEFINE E(j, i) == SumOf(Terms(p, j, x, m), 0, i)
           Good == {j \in 0 .. m : E(j, m + 1) \cong ProductOf(f, j)}
<1>1. \A j \in 0 .. m - 1 : f[j] \in Int /\ alpha[j] \in Int /\ delta[j] \in Int
  BY DEF Factors
<1>2. 0 \in Good
  <2> DEFINE One == {i \in 0 .. m : E(0, i + 1) \cong 1}
  <2>1. \A i \in 0 .. m : /\ p[0][i] = IF i = 0 THEN 1 ELSE 0
                          /\ Power(x, i) \in Int
    <3>1. \A i \in 0 .. m : Power(x, i) \in Int
      BY Powers
    <3> QED
      BY <3>1 DEF Factors
  <2>2. /\ E(0, 0) = 0
        /\ \A i \in 0 .. m : /\ E(0, i) \in Int /\ E(0, i + 1) \in Int
                             /\ E(0, i + 1) \cong E(0, i) + p[0][i] * Power(x, i)
    <3>1. 0 \in 0 .. m
      OBVIOUS
    <3> QED
      BY <3>1, TermsAdded
  <2> HIDE DEF E
  <2>3. 0 \in One
    <3>1. 0 \in 0 .. m /\ Power(x, 0) = 1 /\ 0 + 1 * 1 = 1
      BY Powers
    <3> QED
      BY <2>1, <2>2, <3>1
  <2>4. ASSUME NEW i \in 0 .. m - 1, i \in One PROVE i + 1 \in One
    <3> DEFINE k == i + 1
    <3>1. k \in 0 .. m /\ k # 0
      OBVIOUS
    <3>2. /\ p[0][k] * Power(x, k) = 0 /\ E(0, k) \in Int /\ E(0, k + 1) \in Int
          /\ E(0, k + 1) \cong E(0, k) + p[0][k] * Power(x, k)
      BY <2>1, <2>2, <3>1
    <3>3. E(0, k) + 0 = E(0, k) /\ E(0, k) \cong 1 /\ 1 \in Int
      BY <2>4, <3>2
    <3> HIDE DEF k
    <3>4. E(0, k + 1) \cong E(0, k)
      BY <3>2, <3>3
    <3>5. E(0, k + 1) \cong 1
      BY <3>2, <3>3, <3>4, CongTransitive
    <3> QED
      BY <3>1, <3>5 DEF k
  <2>5. 0 .. m \subseteq One
    <3> HIDE DEF One
    <3> QED
      BY <2>3, <2>4, RangeInduction
  <2>6. E(0, m + 1) \cong 1
    BY <2>5
  <2> QED
    BY <2>6, ProductEmpty
<1>3. ASSUME NEW j \in 0 .. m - 1, j \in Good PROVE j + 1 \in Good
  <2> DEFINE E2 == E(j + 1, m + 1)
             E1 == E(j, m + 1)
             E0 == E(j, m)
             P  == ProductOf(f, j)
             P1 == ProductOf(f, j + 1)
             fj == f[j]
             a  == alpha[j]
             c  == delta[j]
  <2>1. m \in 0 .. m /\ j \in 0 .. m /\ j + 1 \in 0 .. m /\ j \in Nat /\ m \in j + 1 .. m
    OBVIOUS
  <2>2. E2 \cong a * E1 + (c * x) * E0
    BY <2>1, FactorValue
  <2>3. E2 \in Int /\ E1 \in Int /\ E0 \in Int /\ E1 \cong E0 + p[j][m] * Power(x, m)
    BY <2>1, TermsAdded
  <2>4. p[j][m] * Power(x, m) = 0
    <3>1. p[j][m] = 0
      BY <2>1, DegreeBound
    <3>2. Power(x, m) \in Int
      BY Powers
    <3> QED
      BY <3>1, <3>2
  <2>5. P \in Int /\ P1 \in Int /\ P1 \cong P * fj
    <3>1. \A i \in 0 .. j : f[i] \in Int
      BY <1>1
    <3> QED
      BY <2>1, <3>1, ProductCongStep
  <2>6. fj \in Int /\ a \in Int /\ c \in Int /\ fj \cong a + c * x
    BY <1>1
  <2>7. E1 \cong P
    BY <1>3
  <2> HIDE DEF E2, E1, E0, P, P1, fj, a, c, E
  <2>8. /\ E2 - (a * E1 + (c * x) * E0) \in Multiples /\ E1 - (E0 + 0) \in Multiples
        /\ E1 - P \in Multiples /\ P1 - P * fj \in Multiples /\ fj - (a + c * x) \in Multiples
    BY <2>2, <2>3, <2>4, <2>5, <2>6, <2>7 DEF \cong
  <2>9. c * x \in Int /\ a + c * x \in Int
    BY <2>6
  <2> DEFINE u1 == E2 - (a * E1 + (c * x) * E0)
             u2 == (c * x) * (E1 - (E0 + 0))
             u3 == (a + c * x) * (E1 - P)
             u4 == P1 - P * fj
             u5 == P * (fj - (a + c * x))
  <2>10. /\ u1 \in Multiples /\ u2 \in Multiples /\ u3 \in Multiples /\ u4 \in Multiples /\ u5 \in Multiples
    BY <2>5, <2>8, <2>9, MultiplesTimes
  <2>11. E2 - P1 = (u1 + u3) - (u2 + u4 + u5)
    BY <2>3, <2>5, <2>6
  <2> HIDE DEF u1, u2, u3, u4, u5
  <2>12. (u1 + u3) - (u2 + u4 + u5) \in Multiples
    BY <2>10, MultiplesAdd
  <2>13. E2 \cong P1
    BY <2>11, <2>12 DEF \cong
  <2> QED
    BY <2>1, <2>13 DEF E2, P1
<1>4. 0 .. m \subseteq Good
  <2> HIDE DEF Good
  <2> QED
    BY <1>2, <1>3, RangeInduction
<1> DEFINE F  == ProductOf(f, m)
           D  == ProductOf(delta, m)
           E1 == E(m, m + 1)
           E0 == E(m, m)
           X  == Power(x, m)
           b  == p[m][m]
<1>5. m \in 0 .. m
  OBVIOUS
<1>6. E1 \cong F
  BY <1>4, <1>5
<1>7. F \in Int /\ D \in Int /\ X \in Int /\ b \in Int
  <2>1. F \in Int
    BY <1>1, <1>5, ProductIsInt
  <2>2. D \in Int
    BY <1>1, <1>5, ProductIsInt
  <2>3. X \in Int
    BY Powers
  <2>4. b \in Int
    BY <1>5 DEF Factors
  <2> QED
    BY <2>1, <2>2, <2>3, <2>4
<1>8. E1 \in Int /\ E0 \in Int /\ E1 \cong E0 + b * X
  BY <1>5, TermsAdded
<1>9. b \cong D
  BY LeadingCoefficient
<1>10. F \cong E0 + D * X
  <2> HIDE DEF F, D, E1, E0, X, b, E
  <2>1. E1 - F \in Multiples /\ E1 - (E0 + b * X) \in Multiples /\ b - D \in Multiples
    BY <1>6, <1>8, <1>9 DEF \cong
  <2>2. X * (b - D) \in Multiples
    BY <1>7, <2>1, MultiplesTimes
  <2>3. ((E1 - (E0 + b * X)) + X * (b - D)) - (E1 - F) \in Multiples
    BY <2>1, <2>2, MultiplesAdd
  <2>4. F - (E0 + D * X) = ((E1 - (E0 + b * X)) + X * (b - D)) - (E1 - F)
    BY <1>7, <1>8
  <2> QED
    BY <2>3, <2>4 DEF \cong
<1> QED
  BY <1>7, <1>10

\* The factors of p_t.
Alpha(par, a, m, t) == [j \in 0 .. m - 1 |-> a[j][get_jth(j, par.n, t)]]

\* And their other halves, the bits.
Deltas(par, index, m, t) == [j \in 0 .. m - 1 |-> Delta(par, index, j, get_jth(j, par.n, t))]

\* The two indices, m digits in base n and the masks of a proof.
Indexed(par, m, index, t) ==
  /\ par.n \in Nat /\ par.n > 0 /\ m \in Nat /\ index \in Nat /\ t \in Nat
  /\ index < Capacity(par.n, m) /\ t < Capacity(par.n, m)

\* Masks are integers.
Masked(par, m, a) == \A j \in 0 .. m - 1, i \in 0 .. par.n - 1 : a[j][i] \in Int

(* The factors of p_t are a mask and a bit.                                  *)
LEMMA FactorsAreInts ==
  ASSUME NEW par, NEW m, NEW index, NEW t, Indexed(par, m, index, t), NEW a, Masked(par, m, a)
  PROVE  \A j \in 0 .. m - 1 :
           Alpha(par, a, m, t)[j] \in Int /\ Deltas(par, index, m, t)[j] \in {0, 1}
<1> SUFFICES ASSUME NEW j \in 0 .. m - 1
    PROVE  Alpha(par, a, m, t)[j] \in Int /\ Deltas(par, index, m, t)[j] \in {0, 1}
  OBVIOUS
<1>1. get_jth(j, par.n, t) \in 0 .. par.n - 1
  <2>1. par.n \in Nat /\ par.n > 0 /\ j \in Nat /\ t \in Nat
    BY DEF Indexed
  <2> QED
    BY <2>1, DigitAndRest
<1> QED
  BY <1>1 DEF Alpha, Deltas, Masked, Delta

\* The products of the first factors, as the code multiplies them.
Expands(p, alpha, delta, m) ==
  p = [j \in 0 .. m |->
        IF j = 0 THEN [d \in 0 .. m |-> IF d = 0 THEN 1 ELSE 0]
        ELSE [d \in 0 .. m |->
               (p[j - 1][d] * alpha[j - 1] + IF d = 0 THEN 0 ELSE p[j - 1][d - 1] * delta[j - 1]) % q]]

(* The loop that multiplies the factors in has its values.                   *)
LEMMA ExpansionRuns ==
  ASSUME NEW m \in Nat, NEW alpha, NEW delta,
         \A j \in 0 .. m - 1 : alpha[j] \in Int /\ delta[j] \in Int
  PROVE  \E p : Expands(p, alpha, delta, m)
<1> DEFINE Poly  == [0 .. m -> Int]
           next(j, v) ==
             [d \in 0 .. m |-> (v[d] * alpha[j] + IF d = 0 THEN 0 ELSE v[d - 1] * delta[j]) % q]
           round == [j \in 0 .. m - 1 |-> [v \in Poly |-> next(j, v)]]
           one   == [d \in 0 .. m |-> IF d = 0 THEN 1 ELSE 0]
<1>1. ASSUME NEW j \in 0 .. m - 1, NEW v \in Poly PROVE next(j, v) \in Poly
  <2> SUFFICES ASSUME NEW d \in 0 .. m
      PROVE  (v[d] * alpha[j] + (IF d = 0 THEN 0 ELSE v[d - 1] * delta[j])) % q \in Int
    OBVIOUS
  <2>1. v[d] \in Int /\ (d # 0 => v[d - 1] \in Int)
    OBVIOUS
  <2>2. v[d] * alpha[j] + (IF d = 0 THEN 0 ELSE v[d - 1] * delta[j]) \in Int
    BY <2>1
  <2> QED
    BY <2>2, CongReduced
<1>2. round \in [0 .. m - 1 -> [Poly -> Poly]]
  <2> HIDE DEF next, Poly
  <2> QED
    BY <1>1
<1>3. one \in Poly
  OBVIOUS
<1> HIDE DEF round, one, next, Poly
<1>4. PICK p \in [0 .. m -> Poly] : Runs(p, one, round, 0, m)
  <2>1. 0 \in Int /\ m \in Int /\ 0 <= m
    OBVIOUS
  <2> QED
    BY <1>2, <1>3, <2>1, LoopRuns, Zenon
<1>5. ASSUME NEW j \in 0 .. m
      PROVE  p[j] = IF j = 0 THEN one ELSE next(j - 1, p[j - 1])
  <2>1. p[j] = IF j = 0 THEN one ELSE round[j - 1][p[j - 1]]
    BY <1>4 DEF Runs
  <2>2. ASSUME j # 0 PROVE round[j - 1][p[j - 1]] = next(j - 1, p[j - 1])
    <3>1. j - 1 \in 0 .. m - 1 /\ p[j - 1] \in Poly
      BY <2>2
    <3> QED
      BY <3>1 DEF round
  <2> QED
    BY <2>1, <2>2
<1>6. p = [j \in 0 .. m |-> IF j = 0 THEN one ELSE next(j - 1, p[j - 1])]
  BY <1>5
<1>7. Expands(p, alpha, delta, m)
  BY <1>6 DEF Expands, one, next
<1> QED
  BY <1>7

(* The prover's coefficients are those of the product of the factors.        *)
LEMMA CoefficientsExpand ==
  ASSUME NEW par, NEW m, NEW index, NEW t, Indexed(par, m, index, t), NEW a, Masked(par, m, a)
  PROVE  \E p : /\ Factors(p, Alpha(par, a, m, t), Deltas(par, index, m, t), m)
                /\ Coefficients(par, index, a, m, t) = p[m]
<1> DEFINE alpha == Alpha(par, a, m, t)
           delta == Deltas(par, index, m, t)
           own(j) == get_jth(j, par.n, t)
           Coeffs(v) ==
             v = [j \in 0 .. m |->
                   IF j = 0 THEN [d \in 0 .. m |-> IF d = 0 THEN 1 ELSE 0]
                   ELSE [d \in 0 .. m |->
                          (v[j - 1][d] * a[j - 1][own(j - 1)]
                           + IF d = 0 THEN 0
                             ELSE v[j - 1][d - 1] * Delta(par, index, j - 1, own(j - 1))) % q]]
           p == CHOOSE v : Coeffs(v)
<1>1. m \in Nat /\ \A j \in 0 .. m - 1 : alpha[j] \in Int /\ delta[j] \in Int
  <2>1. \A j \in 0 .. m - 1 : alpha[j] \in Int /\ delta[j] \in {0, 1}
    BY FactorsAreInts
  <2> HIDE DEF alpha, delta
  <2> QED
    BY <2>1 DEF Indexed
<1>2. ASSUME NEW v PROVE Coeffs(v) <=> Expands(v, alpha, delta, m)
  <2>1. \A j \in 0 .. m : j # 0 => /\ alpha[j - 1] = a[j - 1][own(j - 1)]
                                  /\ delta[j - 1] = Delta(par, index, j - 1, own(j - 1))
    BY <1>1 DEF Alpha, Deltas
  <2> HIDE DEF alpha, delta, own
  <2> QED
    BY <2>1 DEF Expands
<1>3. Expands(p, alpha, delta, m) /\ Coefficients(par, index, a, m, t) = p[m]
  <2>1. \E v : Expands(v, alpha, delta, m)
    <3> HIDE DEF alpha, delta
    <3> QED
      BY <1>1, ExpansionRuns
  <2>2. Coefficients(par, index, a, m, t) = p[m]
    BY DEF Coefficients
  <2> HIDE DEF Coeffs, alpha, delta
  <2>3. Coeffs(p)
    BY <1>2, <2>1, Zenon
  <2> QED
    BY <1>2, <2>2, <2>3
<1>4. Factors(p, alpha, delta, m)
  <2> HIDE DEF p, alpha, delta
  <2>1. \A d \in 0 .. m : p[0][d] = IF d = 0 THEN 1 ELSE 0
    BY <1>1, <1>3 DEF Expands
  <2>2. \A j \in 0 .. m - 1, d \in 0 .. m :
          p[j + 1][d] = (p[j][d] * alpha[j] + IF d = 0 THEN 0 ELSE p[j][d - 1] * delta[j]) % q
    <3> SUFFICES ASSUME NEW j \in 0 .. m - 1, NEW d \in 0 .. m
        PROVE  p[j + 1][d] = (p[j][d] * alpha[j] + IF d = 0 THEN 0 ELSE p[j][d - 1] * delta[j]) % q
      OBVIOUS
    <3> DEFINE k == j + 1
    <3>1. k \in 0 .. m /\ k # 0 /\ k - 1 = j
      BY <1>1
    <3> HIDE DEF k
    <3>2. p[k] = [e \in 0 .. m |->
                   (p[k - 1][e] * alpha[k - 1]
                    + IF e = 0 THEN 0 ELSE p[k - 1][e - 1] * delta[k - 1]) % q]
      BY <1>3, <3>1 DEF Expands
    <3> QED
      BY <3>1, <3>2 DEF k
  <2> DEFINE Good == {j \in 0 .. m : \A d \in 0 .. m : p[j][d] \in Int}
  <2>3. 0 \in Good
    BY <1>1, <2>1
  <2>4. ASSUME NEW j \in 0 .. m - 1, j \in Good PROVE j + 1 \in Good
    <3> SUFFICES ASSUME NEW d \in 0 .. m PROVE p[j + 1][d] \in Int
      BY <1>1
    <3>1. p[j][d] * alpha[j] \in Int /\ (d # 0 => p[j][d - 1] * delta[j] \in Int)
      BY <1>1, <2>4
    <3>2. p[j][d] * alpha[j] + (IF d = 0 THEN 0 ELSE p[j][d - 1] * delta[j]) \in Int
      BY <3>1
    <3> QED
      BY <2>2, <3>2, CongReduced
  <2>5. 0 .. m \subseteq Good
    <3> HIDE DEF Good
    <3> QED
      BY <1>1, <2>3, <2>4, RangeInduction
  <2> QED
    BY <1>1, <2>1, <2>2, <2>5 DEF Factors
<1> QED
  BY <1>3, <1>4

(* The leading coefficient of p_t tells whether t is the index.              *)
LEMMA DeltasTell ==
  ASSUME NEW par, NEW m, NEW index, NEW t, Indexed(par, m, index, t)
  PROVE  ProductOf(Deltas(par, index, m, t), m) = IF t = index THEN 1 ELSE 0
<1> DEFINE delta == Deltas(par, index, m, t)
<1>1. \A j \in 0 .. m - 1 :
        delta[j] = IF get_jth(j, par.n, index) = get_jth(j, par.n, t) THEN 1 ELSE 0
  BY DEF Deltas, Delta
<1>2. m \in Nat /\ m \in 0 .. m /\ \A j \in 0 .. m - 1 : delta[j] \in Int
  BY <1>1 DEF Indexed
<1> HIDE DEF delta
<1>3. ASSUME NEW j \in 0 .. m - 1
      PROVE  ProductOf(delta, j) \in Int /\ ProductOf(delta, j + 1) = (ProductOf(delta, j) * delta[j]) % q
  <2>1. j \in Nat /\ j \in 0 .. m /\ \A i \in 0 .. j : delta[i] \in Int
    BY <1>2
  <2> QED
    BY <1>2, <2>1, ProductStep, ProductIsInt
<1>4. 1 % q = 1 /\ 0 % q = 0
  BY FieldAssumption
<1>5. CASE t = index
  <2> DEFINE Good == {j \in 0 .. m : ProductOf(delta, j) = 1}
  <2>1. 0 \in Good
    BY <1>2, ProductEmpty
  <2>2. ASSUME NEW j \in 0 .. m - 1, j \in Good PROVE j + 1 \in Good
    <3>1. delta[j] = 1
      BY <1>1, <1>5
    <3> QED
      BY <1>2, <1>3, <1>4, <2>2, <3>1
  <2>3. 0 .. m \subseteq Good
    <3> HIDE DEF Good
    <3> QED
      BY <1>2, <2>1, <2>2, RangeInduction
  <2> QED
    BY <1>2, <1>5, <2>3 DEF delta
<1>6. CASE t # index
  <2>1. PICK j \in 0 .. m - 1 : get_jth(j, par.n, index) # get_jth(j, par.n, t)
    BY <1>6, DigitsTell DEF Indexed
  <2> DEFINE Good == {i \in j + 1 .. m : ProductOf(delta, i) = 0}
  <2>2. j + 1 \in Good
    <3>1. delta[j] = 0 /\ ProductOf(delta, j) * 0 = 0
      BY <1>1, <1>3, <2>1
    <3> QED
      BY <1>2, <1>3, <1>4, <3>1
  <2>3. ASSUME NEW i \in j + 1 .. m - 1, i \in Good PROVE i + 1 \in Good
    <3>1. i \in 0 .. m - 1 /\ 0 * delta[i] = 0
      BY <1>2
    <3> QED
      BY <1>2, <1>3, <1>4, <2>3, <3>1
  <2>4. j + 1 .. m \subseteq Good
    <3>1. j + 1 \in Int /\ m \in Int
      BY <1>2
    <3> HIDE DEF Good
    <3> QED
      BY <2>2, <2>3, <3>1, RangeInduction
  <2>5. m \in j + 1 .. m
    BY <1>2
  <2> QED
    BY <1>6, <2>4, <2>5 DEF delta
<1> QED
  BY <1>5, <1>6

-----------------------------------------------------------------------------
(* The value of the ring.                                                    *)

\* The terms of the value at x of the polynomial with coefficients v.
AtX(v, x, m) == [j \in 0 .. m - 1 |-> v[j] * Power(x, j)]

(* The terms of a value are integers, and so is the value.                   *)
LEMMA AtXEntries ==
  ASSUME NEW m \in Nat, NEW x \in Int, NEW v, \A j \in 0 .. m - 1 : v[j] \in Int
  PROVE  /\ \A j \in 0 .. m - 1 : AtX(v, x, m)[j] \in Int /\ AtX(v, x, m)[j] = v[j] * Power(x, j)
         /\ SumOf(AtX(v, x, m), 0, m) \in Int
<1> DEFINE w == AtX(v, x, m)
<1>1. \A j \in 0 .. m - 1 : Power(x, j) \in Int
  BY Powers
<1>2. \A j \in 0 .. m - 1 : w[j] \in Int /\ w[j] = v[j] * Power(x, j)
  BY <1>1 DEF AtX
<1>3. 0 \in Int /\ m \in Int /\ 0 <= m /\ m \in 0 .. m
  OBVIOUS
<1> HIDE DEF w
<1>4. SumOf(w, 0, m) \in Int
  BY <1>2, <1>3, SumIsInt
<1> QED
  BY <1>2, <1>4 DEF w

(* Values are linear in the coefficients.                                    *)
LEMMA ValuesCombine ==
  ASSUME NEW m \in Nat, NEW x \in Int, NEW c \in Int, NEW d \in Int, NEW y, NEW v, NEW u,
         \A j \in 0 .. m - 1 : /\ y[j] \in Int /\ v[j] \in Int /\ u[j] \in Int
                               /\ y[j] \cong c * v[j] + d * u[j]
  PROVE  SumOf(AtX(y, x, m), 0, m) \cong c * SumOf(AtX(v, x, m), 0, m) + d * SumOf(AtX(u, x, m), 0, m)
<1> DEFINE ys == AtX(y, x, m)
           vs == AtX(v, x, m)
           us == AtX(u, x, m)
<1>1. ASSUME NEW j \in 0 .. m - 1
      PROVE  /\ ys[j] \in Int /\ vs[j] \in Int /\ us[j] \in Int
             /\ ys[j] \cong c * vs[j] + d * us[j]
  <2> DEFINE yj == y[j]
             vj == v[j]
             uj == u[j]
             X  == Power(x, j)
  <2>1. yj \in Int /\ vj \in Int /\ uj \in Int /\ X \in Int /\ yj \cong c * vj + d * uj
    BY Powers
  <2>2. ys[j] = yj * X /\ vs[j] = vj * X /\ us[j] = uj * X
    BY DEF AtX
  <2> HIDE DEF yj, vj, uj, X, ys, vs, us
  <2>3. X * (yj - (c * vj + d * uj)) \in Multiples
    BY <2>1, MultiplesTimes DEF \cong
  <2>4. yj * X - (c * (vj * X) + d * (uj * X)) = X * (yj - (c * vj + d * uj))
    BY <2>1
  <2>5. yj * X \cong c * (vj * X) + d * (uj * X)
    BY <2>3, <2>4 DEF \cong
  <2>6. yj * X \in Int /\ vj * X \in Int /\ uj * X \in Int
    BY <2>1
  <2> QED
    BY <2>2, <2>5, <2>6
<1>2. 0 \in Int /\ m \in Int /\ 0 <= m
  OBVIOUS
<1> HIDE DEF ys, vs, us
<1>3. SumOf(ys, 0, m) \cong c * SumOf(vs, 0, m) + d * SumOf(us, 0, m)
  BY <1>1, <1>2, SumsCombine
<1> QED
  BY <1>3 DEF ys, vs, us

\* The entries of a ring of N at one generator, and polynomials for them.
Entries(C, P, N, m) == \A t \in 0 .. N - 1 : C[t] \in Int /\ \A j \in 0 .. m - 1 : P[t][j] \in Int

\* The ring weighted with W, and with the j-th coefficients.
Weighted(C, W, N) == [t \in 0 .. N - 1 |-> C[t] * W[t]]

Column(C, P, N, j) == [t \in 0 .. N - 1 |-> C[t] * P[t][j]]

\* The columns, summed over the first i entries.
Columns(C, P, N, m, i) == [j \in 0 .. m - 1 |-> SumOf(Column(C, P, N, j), 0, i)]

(* Another entry of the ring adds it times its weight.                       *)
LEMMA WeightedSum ==
  ASSUME NEW N \in Nat, NEW C, NEW W, \A t \in 0 .. N - 1 : C[t] \in Int /\ W[t] \in Int
  PROVE  /\ SumOf(Weighted(C, W, N), 0, 0) = 0
         /\ \A i \in 0 .. N : SumOf(Weighted(C, W, N), 0, i) \in Int
         /\ \A i \in 0 .. N - 1 :
              SumOf(Weighted(C, W, N), 0, i + 1) \cong SumOf(Weighted(C, W, N), 0, i) + C[i] * W[i]
<1> DEFINE w == Weighted(C, W, N)
<1>1. \A t \in 0 .. N - 1 : w[t] \in Int /\ w[t] = C[t] * W[t]
  BY DEF Weighted
<1> HIDE DEF w
<1>2. 0 \in Int /\ N \in Int /\ 0 <= N
  OBVIOUS
<1>3. \A i \in 0 .. N : SumOf(w, 0, i) \in Int
  BY <1>1, <1>2, SumIsInt
<1>4. ASSUME NEW i \in 0 .. N - 1
      PROVE  SumOf(w, 0, i + 1) \cong SumOf(w, 0, i) + C[i] * W[i]
  <2>1. i \in Int /\ 0 <= i /\ \A k \in 0 .. i : w[k] \in Int
    BY <1>1
  <2>2. SumOf(w, 0, i + 1) \cong SumOf(w, 0, i) + w[i]
    BY <1>2, <2>1, SumCongStep
  <2> QED
    BY <1>1, <2>2
<1>5. SumOf(w, 0, 0) = 0
  BY SumEmpty
<1> QED
  BY <1>3, <1>4, <1>5 DEF w

(* And so it does in every column of the Q.                                  *)
LEMMA ColumnSum ==
  ASSUME NEW N \in Nat, NEW m \in Nat, NEW C, NEW P, Entries(C, P, N, m), NEW j \in 0 .. m - 1
  PROVE  /\ Columns(C, P, N, m, 0)[j] = 0
         /\ \A i \in 0 .. N : Columns(C, P, N, m, i)[j] \in Int
         /\ \A i \in 0 .. N - 1 :
              Columns(C, P, N, m, i + 1)[j] \cong Columns(C, P, N, m, i)[j] + C[i] * P[i][j]
<1> DEFINE W == [t \in 0 .. N - 1 |-> P[t][j]]
<1>1. \A t \in 0 .. N - 1 : C[t] \in Int /\ W[t] \in Int /\ W[t] = P[t][j]
  BY DEF Entries
<1>2. Column(C, P, N, j) = Weighted(C, W, N)
  BY DEF Column, Weighted
<1> HIDE DEF W
<1>3. \A i \in Int : Columns(C, P, N, m, i)[j] = SumOf(Weighted(C, W, N), 0, i)
  BY <1>2 DEF Columns
<1>4. /\ SumOf(Weighted(C, W, N), 0, 0) = 0
      /\ \A i \in 0 .. N : SumOf(Weighted(C, W, N), 0, i) \in Int
      /\ \A i \in 0 .. N - 1 :
           SumOf(Weighted(C, W, N), 0, i + 1) \cong SumOf(Weighted(C, W, N), 0, i) + C[i] * W[i]
  BY <1>1, WeightedSum
<1> QED
  BY <1>1, <1>3, <1>4

(* The values of the columns grow by an entry times the value of its         *)
(* polynomial.                                                               *)
LEMMA ColumnsValue ==
  ASSUME NEW N \in Nat, NEW m \in Nat, NEW C, NEW P, Entries(C, P, N, m), NEW x \in Int
  PROVE  /\ SumOf(AtX(Columns(C, P, N, m, 0), x, m), 0, m) \cong 0
         /\ \A i \in 0 .. N : SumOf(AtX(Columns(C, P, N, m, i), x, m), 0, m) \in Int
         /\ \A i \in 0 .. N - 1 :
              SumOf(AtX(Columns(C, P, N, m, i + 1), x, m), 0, m)
                \cong 1 * SumOf(AtX(Columns(C, P, N, m, i), x, m), 0, m) + C[i] * SumOf(AtX(P[i], x, m), 0, m)
<1> DEFINE U(i) == Columns(C, P, N, m, i)
<1>1. \A j \in 0 .. m - 1 :
        /\ U(0)[j] = 0
        /\ \A i \in 0 .. N : U(i)[j] \in Int
        /\ \A i \in 0 .. N - 1 : U(i + 1)[j] \cong U(i)[j] + C[i] * P[i][j]
  BY ColumnSum
<1>2. \A i \in 0 .. N - 1 : C[i] \in Int /\ \A j \in 0 .. m - 1 : P[i][j] \in Int
  BY DEF Entries
<1> HIDE DEF U
<1>3. \A i \in 0 .. N : SumOf(AtX(U(i), x, m), 0, m) \in Int
  BY <1>1, AtXEntries
<1>4. SumOf(AtX(U(0), x, m), 0, m) \cong 0
  <2> DEFINE u == U(0)
             s == SumOf(AtX(u, x, m), 0, m)
  <2>1. 0 * 0 + 0 * 0 = 0 /\ 0 \cong 0
    BY CongReflexive
  <2>2. \A j \in 0 .. m - 1 : u[j] \in Int /\ u[j] = 0
    BY <1>1
  <2> HIDE DEF u
  <2>3. \A j \in 0 .. m - 1 : u[j] \in Int /\ u[j] \cong 0 * u[j] + 0 * u[j]
    BY <2>1, <2>2
  <2>4. s \cong 0 * s + 0 * s
    BY <2>3, ValuesCombine
  <2>5. s \in Int
    BY <2>2, AtXEntries
  <2> HIDE DEF s
  <2>6. 0 * s + 0 * s = 0
    BY <2>5
  <2> QED
    BY <2>4, <2>6 DEF s, u
<1>5. ASSUME NEW i \in 0 .. N - 1
      PROVE  SumOf(AtX(U(i + 1), x, m), 0, m)
               \cong 1 * SumOf(AtX(U(i), x, m), 0, m) + C[i] * SumOf(AtX(P[i], x, m), 0, m)
  <2> DEFINE u1 == U(i + 1)
             u0 == U(i)
             v  == P[i]
             c  == C[i]
  <2>1. i + 1 \in 0 .. N /\ i \in 0 .. N /\ c \in Int /\ 1 \in Int
    BY <1>2
  <2>2. \A j \in 0 .. m - 1 : /\ u1[j] \in Int /\ u0[j] \in Int /\ v[j] \in Int
                              /\ u1[j] \cong u0[j] + c * v[j]
    BY <1>1, <1>2, <2>1
  <2> HIDE DEF u1, u0, v, c
  <2>3. \A j \in 0 .. m - 1 : 1 * u0[j] = u0[j]
    BY <2>2
  <2>4. \A j \in 0 .. m - 1 : /\ u1[j] \in Int /\ u0[j] \in Int /\ v[j] \in Int
                              /\ u1[j] \cong 1 * u0[j] + c * v[j]
    BY <2>2, <2>3
  <2>5. SumOf(AtX(u1, x, m), 0, m) \cong 1 * SumOf(AtX(u0, x, m), 0, m) + c * SumOf(AtX(v, x, m), 0, m)
    BY <2>1, <2>4, ValuesCombine
  <2> QED
    BY <2>5 DEF u1, u0, v, c
<1> QED
  BY <1>3, <1>4, <1>5 DEF U

\* The f of a proof, with the ones for digit 0, for the challenge x.
Answers(par, m, index, a, x, F) ==
  \A j \in 0 .. m - 1, i \in 0 .. par.n - 1 :
    F[j][i] \in Int /\ F[j][i] \cong a[j][i] + Delta(par, index, j, i) * x

\* What the verifier weights an entry of the ring with.
Weight(par, m, F, t) == ProductOf([j \in 0 .. m - 1 |-> F[j][get_jth(j, par.n, t)]], m)

(* The verifier's weight of an entry is the value of its polynomial, and the *)
(* entry at the index has the highest power as well.                         *)
LEMMA WeightValue ==
  ASSUME NEW par, NEW m, NEW index, NEW t, Indexed(par, m, index, t), NEW a, Masked(par, m, a),
         NEW x \in Int, NEW F, Answers(par, m, index, a, x, F)
  PROVE  /\ Weight(par, m, F, t) \in Int
         /\ \A j \in 0 .. m - 1 : Coefficients(par, index, a, m, t)[j] \in Int
         /\ Weight(par, m, F, t)
              \cong SumOf(AtX(Coefficients(par, index, a, m, t), x, m), 0, m)
                    + (IF t = index THEN 1 ELSE 0) * Power(x, m)
<1> DEFINE alpha == Alpha(par, a, m, t)
           delta == Deltas(par, index, m, t)
           f     == [j \in 0 .. m - 1 |-> F[j][get_jth(j, par.n, t)]]
           c     == Coefficients(par, index, a, m, t)
<1>1. PICK p : Factors(p, alpha, delta, m) /\ c = p[m]
  BY CoefficientsExpand
<1>2. m \in Nat /\ 0 \in Int /\ m \in Int /\ 0 <= m /\ 1 \in Int
  BY DEF Indexed
<1>3. \A j \in 0 .. m - 1 : alpha[j] \in Int /\ delta[j] \in Int
  <2>1. \A j \in 0 .. m - 1 : alpha[j] \in Int /\ delta[j] \in {0, 1}
    BY FactorsAreInts
  <2> HIDE DEF alpha, delta
  <2> QED
    BY <2>1
<1>4. ASSUME NEW j \in 0 .. m - 1
      PROVE  f[j] \in Int /\ f[j] \cong alpha[j] + delta[j] * x
  <2> DEFINE i == get_jth(j, par.n, t)
  <2>1. i \in 0 .. par.n - 1
    <3>1. par.n \in Nat /\ par.n > 0 /\ j \in Nat /\ t \in Nat
      BY <1>2 DEF Indexed
    <3> QED
      BY <3>1, DigitAndRest
  <2>2. f[j] = F[j][i] /\ alpha[j] = a[j][i] /\ delta[j] = Delta(par, index, j, i)
    BY DEF Alpha, Deltas
  <2> HIDE DEF i, f, alpha, delta
  <2>3. F[j][i] \in Int /\ F[j][i] \cong a[j][i] + Delta(par, index, j, i) * x
    BY <2>1 DEF Answers
  <2> QED
    BY <2>2, <2>3
<1>5. ProductOf(delta, m) = IF t = index THEN 1 ELSE 0
  BY DeltasTell
<1>6. Weight(par, m, F, t) = ProductOf(f, m)
  BY DEF Weight
<1> HIDE DEF alpha, delta, f, c
<1>7. /\ ProductOf(f, m) \in Int /\ ProductOf(delta, m) \in Int
      /\ ProductOf(f, m) \cong SumOf(Terms(p, m, x, m), 0, m) + ProductOf(delta, m) * Power(x, m)
  BY <1>1, <1>2, <1>4, ProductValue
<1>8. \A j \in 0 .. m - 1 : c[j] \in Int
  <2>1. \A j \in 0 .. m : p[m][j] \in Int
    BY <1>1, <1>2 DEF Factors
  <2> QED
    BY <1>1, <1>2, <2>1
<1>9. SumOf(AtX(c, x, m), 0, m) \in Int /\ \A j \in 0 .. m - 1 : AtX(c, x, m)[j] \in Int /\ AtX(c, x, m)[j] = c[j] * Power(x, j)
  BY <1>2, <1>8, AtXEntries
<1>10. SumOf(Terms(p, m, x, m), 0, m) \in Int /\ Power(x, m) \in Int
  <2>1. m \in 0 .. m
    BY <1>2
  <2> QED
    BY <1>1, <1>2, <2>1, TermsAdded, Powers
<1>11. SumOf(Terms(p, m, x, m), 0, m) \cong SumOf(AtX(c, x, m), 0, m)
  <2> DEFINE y == Terms(p, m, x, m)
             w == AtX(c, x, m)
  <2>1. \A j \in 0 .. m - 1 : y[j] = c[j] * Power(x, j)
    BY <1>1, <1>2 DEF Terms
  <2>2. \A j \in 0 .. m - 1 : w[j] \in Int /\ y[j] = w[j]
    BY <1>9, <2>1
  <2> DEFINE s == SumOf(w, 0, m)
  <2>3. s \in Int
    BY <1>9
  <2> HIDE DEF y, w
  <2>4. ASSUME NEW j \in 0 .. m - 1
        PROVE  w[j] \in Int /\ w[j] \in Int /\ y[j] \in Int /\ y[j] \cong 1 * w[j] + 0 * w[j]
    <3>1. w[j] \in Int /\ y[j] = w[j] /\ 1 * w[j] + 0 * w[j] = w[j]
      BY <2>2
    <3> QED
      BY <3>1, CongReflexive
  <2>5. SumOf(y, 0, m) \cong 1 * s + 0 * s
    BY <1>2, <2>4, SumsCombine
  <2> HIDE DEF s
  <2>6. 1 * s + 0 * s = s
    BY <2>3
  <2> QED
    BY <2>5, <2>6 DEF s, w, y
<1>12. ProductOf(f, m) \cong SumOf(AtX(c, x, m), 0, m) + (IF t = index THEN 1 ELSE 0) * Power(x, m)
  <2> DEFINE s == SumOf(Terms(p, m, x, m), 0, m)
             u == SumOf(AtX(c, x, m), 0, m)
             e == ProductOf(delta, m) * Power(x, m)
  <2>1. s \in Int /\ u \in Int /\ e \in Int /\ s \cong u
    BY <1>7, <1>9, <1>10, <1>11
  <2>2. e = (IF t = index THEN 1 ELSE 0) * Power(x, m)
    BY <1>5
  <2>3. ProductOf(f, m) \cong s + e
    BY <1>7
  <2> HIDE DEF s, u, e
  <2>4. e \cong e
    BY <2>1, CongReflexive
  <2>5. s + e \cong u + e
    BY <2>1, <2>4, CongSum
  <2>6. ProductOf(f, m) \cong u + e
    <3>1. s + e \in Int /\ u + e \in Int
      BY <2>1
    <3> QED
      BY <1>7, <2>3, <2>5, <3>1, CongTransitive
  <2> QED
    BY <2>2, <2>6 DEF u
<1> QED
  BY <1>6, <1>7, <1>8, <1>12 DEF c

\* W are the values at x of the polynomials, the index with the highest power.
Valued(P, W, N, m, index, x) ==
  \A t \in 0 .. N - 1 :
    W[t] \in Int /\ W[t] \cong SumOf(AtX(P[t], x, m), 0, m) + (IF t = index THEN 1 ELSE 0) * Power(x, m)

(* The ring weighted with the verifier's weights is the value of its columns *)
(* and, with the highest power, the entry at the index.                      *)
LEMMA WeightedValue ==
  ASSUME NEW N \in Nat, NEW m \in Nat, NEW C, NEW P, Entries(C, P, N, m), NEW x \in Int,
         NEW W, NEW index \in 0 .. N - 1, Valued(P, W, N, m, index, x)
  PROVE  SumOf(Weighted(C, W, N), 0, N)
           \cong SumOf(AtX(Columns(C, P, N, m, N), x, m), 0, m) + C[index] * Power(x, m)
<1> DEFINE S(i) == SumOf(Weighted(C, W, N), 0, i)
           V(i) == SumOf(AtX(Columns(C, P, N, m, i), x, m), 0, m)
           v(i) == SumOf(AtX(P[i], x, m), 0, m)
           X    == Power(x, m)
           K(i) == IF index < i THEN C[index] ELSE 0
           e(i) == IF i = index THEN 1 ELSE 0
           Good == {i \in 0 .. N : S(i) \cong V(i) + K(i) * X}
<1>1. \A t \in 0 .. N - 1 : C[t] \in Int /\ \A j \in 0 .. m - 1 : P[t][j] \in Int
  BY DEF Entries
<1>2. X \in Int /\ \A i \in 0 .. N : K(i) \in Int
  <2>1. X \in Int
    BY Powers
  <2>2. C[index] \in Int
    BY <1>1
  <2>3. \A i \in 0 .. N : K(i) \in Int
    BY <2>2
  <2> QED
    BY <2>1, <2>3
<1>3. \A t \in 0 .. N - 1 : W[t] \in Int /\ W[t] \cong v(t) + e(t) * X
  BY DEF Valued
<1>4. \A t \in 0 .. N - 1 : v(t) \in Int
  BY <1>1, AtXEntries
<1>5. /\ S(0) = 0 /\ \A i \in 0 .. N : S(i) \in Int
      /\ \A i \in 0 .. N - 1 : S(i + 1) \cong S(i) + C[i] * W[i]
  BY <1>1, <1>3, WeightedSum
<1>6. /\ V(0) \cong 0 /\ \A i \in 0 .. N : V(i) \in Int
      /\ \A i \in 0 .. N - 1 : V(i + 1) \cong 1 * V(i) + C[i] * v(i)
  BY ColumnsValue
<1> HIDE DEF S, V, v, X
<1>7. 0 \in Good
  <2>1. 0 \in 0 .. N /\ K(0) = 0 /\ V(0) \in Int /\ S(0) = 0
    BY <1>5, <1>6
  <2>2. 0 \cong V(0)
    BY <1>6, <2>1, CongSymmetric
  <2>3. V(0) + 0 * X = V(0)
    BY <1>2, <2>1
  <2> QED
    BY <2>1, <2>2, <2>3
<1>8. ASSUME NEW i \in 0 .. N - 1, i \in Good PROVE i + 1 \in Good
  <2> DEFINE c  == C[i]
             w  == W[i]
             d  == e(i)
             k0 == K(i)
             k1 == K(i + 1)
             u1 == S(i + 1) - (S(i) + c * w)
             u2 == V(i + 1) - (1 * V(i) + c * v(i))
             u3 == w - (v(i) + d * X)
             u4 == S(i) - (V(i) + k0 * X)
  <2>1. /\ i \in 0 .. N /\ i + 1 \in 0 .. N /\ c \in Int /\ w \in Int /\ d \in Int /\ k0 \in Int
        /\ k1 \in Int
    BY <1>1, <1>2, <1>3
  <2>2. k1 = k0 + c * d
    BY <1>1
  <2>3. S(i) \in Int /\ S(i + 1) \in Int /\ V(i) \in Int /\ V(i + 1) \in Int /\ v(i) \in Int
    BY <1>4, <1>5, <1>6, <2>1
  <2>4. u1 \in Multiples /\ u2 \in Multiples /\ u3 \in Multiples /\ u4 \in Multiples
    BY <1>3, <1>5, <1>6, <1>8 DEF \cong
  <2>5. c * u3 \in Multiples
    BY <2>1, <2>4, MultiplesTimes
  <2>6. (u1 - u2) + (c * u3 + u4) \in Multiples
    <3> HIDE DEF u1, u2, u3, u4, c
    <3>1. u1 - u2 \in Multiples /\ c * u3 + u4 \in Multiples
      BY <2>4, <2>5, MultiplesAdd
    <3> QED
      BY <3>1, MultiplesAdd
  <2>7. S(i + 1) - (V(i + 1) + k1 * X) = (u1 - u2) + (c * u3 + u4)
    <3> DEFINE s0 == S(i)
               s1 == S(i + 1)
               v0 == V(i)
               v1 == V(i + 1)
               y  == v(i)
    <3>1. /\ s0 \in Int /\ s1 \in Int /\ v0 \in Int /\ v1 \in Int /\ y \in Int
      BY <2>3
    <3> HIDE DEF c, w, d, k0, k1, s0, s1, v0, v1, y
    <3>2. s1 - (v1 + (k0 + c * d) * X)
            = ((s1 - (s0 + c * w)) - (v1 - (1 * v0 + c * y)))
              + (c * (w - (y + d * X)) + (s0 - (v0 + k0 * X)))
      BY <1>2, <2>1, <3>1
    <3> QED
      BY <2>2, <3>2 DEF s0, s1, v0, v1, y
  <2>8. S(i + 1) \cong V(i + 1) + k1 * X
    BY <2>6, <2>7 DEF \cong
  <2> QED
    BY <2>1, <2>8
<1>9. 0 .. N \subseteq Good
  <2> HIDE DEF Good
  <2> QED
    BY <1>7, <1>8, RangeInduction
<1>10. S(N) \cong V(N) + K(N) * X
  BY <1>9
<1>11. K(N) = C[index]
  OBVIOUS
<1> QED
  BY <1>10, <1>11 DEF S, V, X

(* The verifier's side of the equation of a generator: the columns cancel,   *)
(* what stays is the entry at the index and the masks.                       *)
LEMMA RingValue ==
  ASSUME NEW N \in Nat, NEW m \in Nat, NEW C, NEW P, Entries(C, P, N, m), NEW x \in Int,
         NEW W, NEW index \in 0 .. N - 1, Valued(P, W, N, m, index, x),
         NEW h, NEW R,
         \A j \in 0 .. m - 1 :
           /\ h[j] \in Int /\ R[j] \in Int
           /\ R[j] \cong h[j] + SumOf(Column(C, P, N, j), 0, N)
  PROVE  /\ SumOf(Weighted(C, W, N), 0, N) \in Int
         /\ SumOf(AtX(R, x, m), 0, m) \in Int /\ SumOf(AtX(h, x, m), 0, m) \in Int
         /\ SumOf(Weighted(C, W, N), 0, N) - SumOf(AtX(R, x, m), 0, m)
              \cong C[index] * Power(x, m) - SumOf(AtX(h, x, m), 0, m)
<1> DEFINE S   == SumOf(Weighted(C, W, N), 0, N)
           col == Columns(C, P, N, m, N)
           V   == SumOf(AtX(col, x, m), 0, m)
           T   == SumOf(AtX(R, x, m), 0, m)
           H   == SumOf(AtX(h, x, m), 0, m)
           B   == C[index] * Power(x, m)
<1>1. S \cong V + B
  BY WeightedValue
<1>2. N \in 0 .. N /\ 1 \in Int
  OBVIOUS
<1>3. \A j \in 0 .. m - 1 : col[j] \in Int /\ col[j] = SumOf(Column(C, P, N, j), 0, N)
  <2>1. \A j \in 0 .. m - 1 : col[j] \in Int
    BY <1>2, ColumnSum
  <2>2. \A j \in 0 .. m - 1 : col[j] = SumOf(Column(C, P, N, j), 0, N)
    BY DEF Columns
  <2> QED
    BY <2>1, <2>2
<1>4. /\ \A t \in 0 .. N - 1 : C[t] \in Int /\ W[t] \in Int
      /\ B \in Int
  <2>1. \A t \in 0 .. N - 1 : C[t] \in Int /\ W[t] \in Int
    BY DEF Entries, Valued
  <2>2. Power(x, m) \in Int
    BY Powers
  <2>3. C[index] \in Int
    BY <2>1
  <2> QED
    BY <2>1, <2>2, <2>3
<1>5. S \in Int
  BY <1>2, <1>4, WeightedSum
<1> HIDE DEF col
<1>6. V \in Int /\ T \in Int /\ H \in Int
  BY <1>3, AtXEntries
<1>7. T \cong 1 * H + 1 * V
  <2>1. ASSUME NEW j \in 0 .. m - 1
        PROVE  /\ R[j] \in Int /\ h[j] \in Int /\ col[j] \in Int
               /\ R[j] \cong 1 * h[j] + 1 * col[j]
    <3>1. h[j] \in Int /\ R[j] \in Int /\ R[j] \cong h[j] + SumOf(Column(C, P, N, j), 0, N)
      OBVIOUS
    <3>2. col[j] \in Int /\ col[j] = SumOf(Column(C, P, N, j), 0, N)
      BY <1>3
    <3>3. h[j] = 1 * h[j] /\ col[j] = 1 * col[j]
      BY <3>1, <3>2
    <3> QED
      BY <3>1, <3>2, <3>3
  <2> QED
    BY <1>2, <2>1, ValuesCombine
<1> HIDE DEF S, V, T, H, B
<1>8. S - T \cong B - H
  <2> DEFINE u1 == S - (V + B)
             u2 == T - (1 * H + 1 * V)
  <2>1. u1 \in Multiples /\ u2 \in Multiples
    BY <1>1, <1>7 DEF \cong
  <2>2. (S - T) - (B - H) = u1 - u2
    BY <1>4, <1>5, <1>6
  <2> HIDE DEF u1, u2
  <2>3. u1 - u2 \in Multiples
    BY <2>1, MultiplesAdd
  <2> QED
    BY <2>2, <2>3 DEF \cong
<1> QED
  BY <1>5, <1>6, <1>8 DEF S, T, H, B

-----------------------------------------------------------------------------
(* What the prover writes.                                                   *)

\* The arguments and the draws of a prover: a ring of N, which m digits cover.
Honest(par, ring, N, index, m, r, x) ==
  /\ par.n \in Nat /\ par.n > 1 /\ par.topic_size \in Nat /\ m \in Nat /\ N \in Nat
  /\ DOMAIN ring = 0 .. N - 1 /\ index \in 0 .. N - 1 /\ N <= Capacity(par.n, m)
  /\ \A t \in 0 .. N - 1, g \in Generators(par) : ring[t][g] \in Int
  /\ r.A \in Int /\ r.B \in Int /\ r.C \in Int /\ r.D \in Int /\ x \in Int
  /\ \A j \in 0 .. m - 1 : r.rho[j] \in Int /\ \A i \in 1 .. par.n - 1 : r.a[j][i] \in Int

(* The capacity is a number.                                                 *)
LEMMA CapacityIsNat ==
  ASSUME NEW n \in Nat, NEW m \in Nat
  PROVE  Capacity(n, m) \in Nat
<1> DEFINE Good == {i \in 0 .. m : Capacity(n, i) \in Nat}
<1>1. 0 \in Good
  BY CapacityGrows
<1>2. ASSUME NEW i \in 0 .. m - 1, i \in Good PROVE i + 1 \in Good
  <2>1. Capacity(n, i + 1) = Capacity(n, i) * n /\ Capacity(n, i) \in Nat
    BY <1>2, CapacityGrows
  <2> QED
    BY <2>1
<1>3. 0 .. m \subseteq Good
  <2> HIDE DEF Good
  <2> QED
    BY <1>1, <1>2, RangeInduction
<1> QED
  BY <1>3

(* The entries of a ring that is covered have numbers of m digits.           *)
LEMMA HonestIndexed ==
  ASSUME NEW par, NEW ring, NEW N, NEW index, NEW m, NEW r, NEW x,
         Honest(par, ring, N, index, m, r, x), NEW t \in 0 .. N - 1
  PROVE  Indexed(par, m, index, t)
<1>1. Capacity(par.n, m) \in Nat
  <2>1. par.n \in Nat /\ m \in Nat
    BY DEF Honest
  <2> QED
    BY <2>1, CapacityIsNat
<1> QED
  BY <1>1 DEF Honest, Indexed

(* Of the digits that are not 0, all deltas of a place but at most one are 0.*)
LEMMA OneDigit ==
  ASSUME NEW n \in Nat, n > 1, NEW d \in 0 .. n - 1,
         NEW w, \A i \in 1 .. n - 1 : w[i] = IF d = i THEN 1 ELSE 0
  PROVE  SumOf(w, 1, n) \in Int /\ SumOf(w, 1, n) \cong 1 - IF d = 0 THEN 1 ELSE 0
<1> DEFINE k(i) == IF d # 0 /\ d < i THEN 1 ELSE 0
           Good == {i \in 1 .. n : SumOf(w, 1, i) \cong k(i)}
<1>1. \A i \in 1 .. n - 1 : w[i] \in Int
  OBVIOUS
<1>2. 1 \in Good
  <2>1. SumOf(w, 1, 1) = 0 /\ k(1) = 0
    BY SumEmpty
  <2>2. 0 \cong 0
    BY CongReflexive
  <2> QED
    BY <2>1, <2>2
<1>3. ASSUME NEW i \in 1 .. n - 1, i \in Good PROVE i + 1 \in Good
  <2>1. 1 \in Int /\ i \in Int /\ 1 <= i /\ \A e \in 1 .. i : w[e] \in Int
    BY <1>1
  <2>2. /\ SumOf(w, 1, i) \in Int /\ SumOf(w, 1, i + 1) \in Int
        /\ SumOf(w, 1, i + 1) \cong SumOf(w, 1, i) + w[i]
    BY <2>1, SumCongStep
  <2>3. SumOf(w, 1, i) \cong k(i) /\ w[i] \cong w[i]
    BY <1>1, <1>3, CongReflexive
  <2>4. k(i) \in Int /\ w[i] \in Int /\ k(i) + w[i] = k(i + 1)
    BY <1>1
  <2> HIDE DEF k
  <2>5. SumOf(w, 1, i) + w[i] \cong k(i) + w[i]
    BY <2>2, <2>3, <2>4, CongSum
  <2>6. SumOf(w, 1, i) + w[i] \in Int /\ k(i) + w[i] \in Int
    BY <2>2, <2>4
  <2>7. SumOf(w, 1, i + 1) \cong k(i) + w[i]
    BY <2>2, <2>5, <2>6, CongTransitive
  <2>8. i + 1 \in 1 .. n
    OBVIOUS
  <2> QED
    BY <2>4, <2>7, <2>8
<1>4. 1 .. n \subseteq Good
  <2> HIDE DEF Good
  <2> QED
    BY <1>2, <1>3, RangeInduction
<1>5. n \in 1 .. n /\ 1 \in Int /\ n \in Int /\ 1 <= n
  OBVIOUS
<1>6. SumOf(w, 1, n) \cong k(n)
  BY <1>4, <1>5
<1>7. SumOf(w, 1, n) \in Int
  BY <1>1, <1>5, SumIsInt
<1>8. k(n) = 1 - IF d = 0 THEN 1 ELSE 0
  OBVIOUS
<1> QED
  BY <1>6, <1>7, <1>8

(* The masks of a place sum up to 0, the first is the one that sees to it.   *)
LEMMA MasksOf ==
  ASSUME NEW par, NEW ring, NEW N, NEW index, NEW m, NEW r, NEW x,
         Honest(par, ring, N, index, m, r, x), NEW j \in 0 .. m - 1
  PROVE  /\ SumOf(r.a[j], 1, par.n) \in Int
         /\ \A i \in 0 .. par.n - 1 : Masks(par, m, r)[j][i] \in Int
         /\ Masks(par, m, r)[j][0] \cong 0 - SumOf(r.a[j], 1, par.n)
         /\ \A i \in 1 .. par.n - 1 : Masks(par, m, r)[j][i] = r.a[j][i]
<1> DEFINE n == par.n
           w == r.a[j]
           a == Masks(par, m, r)
<1>1. n \in Nat /\ n > 1 /\ m \in Nat /\ \A i \in 1 .. n - 1 : w[i] \in Int
  BY DEF Honest
<1>2. \A i \in 0 .. n - 1 : a[j][i] = IF i = 0 THEN (- SumOf(w, 1, n)) % q ELSE w[i]
  BY <1>1 DEF Masks, Positions, Digits
<1> HIDE DEF n, w, a
<1>3. SumOf(w, 1, n) \in Int
  <2>1. 1 \in Int /\ n \in Int /\ 1 <= n /\ n \in 1 .. n
    BY <1>1
  <2> QED
    BY <1>1, <2>1, SumIsInt
<1>4. - SumOf(w, 1, n) = 0 - SumOf(w, 1, n) /\ 0 - SumOf(w, 1, n) \in Int
  BY <1>3
<1>5. (0 - SumOf(w, 1, n)) % q \in Int /\ (0 - SumOf(w, 1, n)) % q \cong 0 - SumOf(w, 1, n)
  BY <1>4, CongReduced
<1>6. 0 \in 0 .. n - 1 /\ \A i \in 1 .. n - 1 : i \in 0 .. n - 1 /\ i # 0
  BY <1>1
<1>7. a[j][0] = (0 - SumOf(w, 1, n)) % q /\ \A i \in 1 .. n - 1 : a[j][i] = w[i]
  BY <1>2, <1>4, <1>6
<1>8. \A i \in 0 .. n - 1 : a[j][i] \in Int
  <2>1. \A i \in 0 .. n - 1 : i = 0 \/ i \in 1 .. n - 1
    BY <1>1
  <2> QED
    BY <1>1, <1>5, <1>7, <2>1
<1> QED
  BY <1>3, <1>5, <1>7, <1>8 DEF n, w, a

\* The deltas of a place that are not of digit 0.
DeltaOf(par, index, j) == [i \in 1 .. par.n - 1 |-> Delta(par, index, j, i)]

(* The deltas of a place are bits, and those that are not of digit 0 sum up  *)
(* to 1 less the first.                                                      *)
LEMMA DeltasOf ==
  ASSUME NEW par, NEW ring, NEW N, NEW index, NEW m, NEW r, NEW x,
         Honest(par, ring, N, index, m, r, x), NEW j \in 0 .. m - 1
  PROVE  /\ \A i \in 0 .. par.n - 1 : Delta(par, index, j, i) \in {0, 1}
         /\ SumOf(DeltaOf(par, index, j), 1, par.n) \in Int
         /\ SumOf(DeltaOf(par, index, j), 1, par.n) \cong 1 - Delta(par, index, j, 0)
<1> DEFINE n == par.n
           d == get_jth(j, n, index)
           w == DeltaOf(par, index, j)
<1>1. n \in Nat /\ n > 1 /\ m \in Nat /\ j \in Nat /\ index \in Nat
  BY DEF Honest
<1>2. d \in 0 .. n - 1
  <2> HIDE DEF n
  <2>1. n > 0
    BY <1>1
  <2> QED
    BY <1>1, <2>1, DigitAndRest
<1>3. \A i \in 0 .. n - 1 : Delta(par, index, j, i) = IF d = i THEN 1 ELSE 0
  BY DEF Delta
<1>4. \A i \in 1 .. n - 1 : w[i] = Delta(par, index, j, i)
  BY DEF DeltaOf
<1> HIDE DEF n, d, w
<1>5. \A i \in 1 .. n - 1 : w[i] = IF d = i THEN 1 ELSE 0
  BY <1>1, <1>3, <1>4
<1>6. SumOf(w, 1, n) \in Int /\ SumOf(w, 1, n) \cong 1 - IF d = 0 THEN 1 ELSE 0
  BY <1>1, <1>2, <1>5, OneDigit
<1>7. Delta(par, index, j, 0) = IF d = 0 THEN 1 ELSE 0
  BY <1>1, <1>3
<1> QED
  BY <1>3, <1>6, <1>7 DEF w, n

(* The f of a proof for its own challenge, also those that are not sent.     *)
LEMMA AllFValue ==
  ASSUME NEW par, NEW ring, NEW N, NEW index, NEW m, NEW r, NEW x,
         Honest(par, ring, N, index, m, r, x), NEW mine, NEW topic
  PROVE  Answers(par, m, index, Masks(par, m, r), x,
                 AllF(par, CompleteProof(par, ring, index, mine, topic, m, r, x), m, x))
<1> DEFINE n == par.n
           a == Masks(par, m, r)
           shown == CompleteProof(par, ring, index, mine, topic, m, r, x)
           F == AllF(par, shown, m, x)
<1> SUFFICES ASSUME NEW j \in 0 .. m - 1, NEW i \in 0 .. n - 1
    PROVE  F[j][i] \in Int /\ F[j][i] \cong a[j][i] + Delta(par, index, j, i) * x
  BY DEF Answers
<1> DEFINE f == shown.f[j]
           D(k) == Delta(par, index, j, k)
           w == DeltaOf(par, index, j)
           v == r.a[j]
<1>1. n \in Nat /\ n > 1 /\ m \in Nat /\ x \in Int
  BY DEF Honest
<1>2. \A k \in 1 .. n - 1 : f[k] = (D(k) * x + a[j][k]) % q
  <2>1. f = [k \in Digits(par) \ {0} |-> (D(k) * x + a[j][k]) % q]
    BY DEF CompleteProof, Positions
  <2>2. \A k \in 1 .. n - 1 : k \in Digits(par) \ {0}
    BY <1>1 DEF Digits
  <2> HIDE DEF f
  <2> QED
    BY <2>1, <2>2
<1>3. F[j][i] = IF i = 0 THEN (x - SumOf(f, 1, n)) % q ELSE f[i]
  BY DEF AllF, Positions, Digits
<1>4. /\ SumOf(v, 1, n) \in Int
      /\ \A k \in 0 .. n - 1 : a[j][k] \in Int
      /\ a[j][0] \cong 0 - SumOf(v, 1, n)
      /\ \A k \in 1 .. n - 1 : a[j][k] = v[k]
  BY MasksOf
<1>5. /\ \A k \in 0 .. n - 1 : D(k) \in {0, 1}
      /\ SumOf(w, 1, n) \in Int
      /\ SumOf(w, 1, n) \cong 1 - D(0)
  BY DeltasOf
<1>6. \A k \in 1 .. n - 1 : w[k] = D(k)
  BY DEF DeltaOf
<1> HIDE DEF n, a, shown, F, f, D, w, v
<1>7. \A k \in 1 .. n - 1 : k \in 0 .. n - 1 /\ D(k) \in Int /\ a[j][k] \in Int
  BY <1>1, <1>4, <1>5
<1>8. ASSUME NEW k \in 1 .. n - 1
      PROVE  /\ w[k] \in Int /\ v[k] \in Int /\ f[k] \in Int
             /\ f[k] \cong x * w[k] + 1 * v[k] /\ f[k] \cong a[j][k] + D(k) * x
  <2> DEFINE s == D(k) * x + a[j][k]
             dk == D(k)
             ak == a[j][k]
  <2>1. dk \in Int /\ ak \in Int /\ x \in Int
    BY <1>1, <1>7
  <2>2. f[k] = s % q /\ w[k] = dk /\ v[k] = ak
    BY <1>2, <1>4, <1>6
  <2>3. s = dk * x + ak
    OBVIOUS
  <2> HIDE DEF s, dk, ak
  <2>4. s \in Int /\ s = x * dk + 1 * ak /\ s = ak + dk * x
    BY <2>1, <2>3
  <2>5. s % q \in Int /\ s % q \cong s
    BY <2>4, CongReduced
  <2>6. /\ w[k] \in Int /\ v[k] \in Int /\ f[k] \in Int
        /\ f[k] \cong x * w[k] + 1 * v[k] /\ f[k] \cong ak + dk * x
    BY <2>1, <2>2, <2>4, <2>5
  <2> QED
    BY <2>6 DEF ak, dk
<1>9. CASE i # 0
  <2>1. i \in 1 .. n - 1
    BY <1>1, <1>9
  <2> QED
    BY <1>3, <1>8, <1>9, <2>1 DEF D
<1>10. CASE i = 0
  <2> DEFINE S == SumOf(f, 1, n)
             W == SumOf(w, 1, n)
             V == SumOf(v, 1, n)
             b == a[j][0]
             e == D(0)
  <2>1. 1 \in Int /\ n \in Int /\ 1 <= n /\ n \in 1 .. n
    BY <1>1
  <2>2. S \cong x * W + 1 * V
    BY <1>1, <1>8, <2>1, SumsCombine
  <2>3. S \in Int
    BY <1>8, <2>1, SumIsInt
  <2>4. /\ W \in Int /\ V \in Int /\ W \cong 1 - e /\ b \cong 0 - V /\ b \in Int /\ e \in Int
    <3>1. 0 \in 0 .. n - 1
      BY <1>1
    <3> QED
      BY <1>4, <1>5, <3>1
  <2>5. F[j][0] = (x - S) % q
    BY <1>3, <1>10
  <2> HIDE DEF S, W, V, b, e
  <2>6. x - S \cong b + e * x
    <3> DEFINE u1 == S - (x * W + 1 * V)
               u2 == W - (1 - e)
               u3 == b - (0 - V)
    <3>1. u1 \in Multiples /\ u2 \in Multiples /\ u3 \in Multiples
      BY <2>2, <2>4 DEF \cong
    <3>2. x * u2 \in Multiples
      BY <1>1, <3>1, MultiplesTimes
    <3>3. 0 - (u1 + x * u2) - u3 = (x - S) - (b + e * x)
      BY <1>1, <2>3, <2>4
    <3> HIDE DEF u1, u2, u3
    <3>4. u1 + x * u2 \in Multiples
      BY <3>1, <3>2, MultiplesAdd
    <3>5. (u1 + x * u2) + u3 \in Multiples
      BY <3>1, <3>4, MultiplesAdd
    <3>6. (-1) * ((u1 + x * u2) + u3) \in Multiples
      <4>1. -1 \in Int
        OBVIOUS
      <4> QED
        BY <3>5, <4>1, MultiplesTimes
    <3>7. u1 + x * u2 \in Int /\ u3 \in Int
      BY <3>1, <3>4, MultiplesAdd
    <3>8. (-1) * ((u1 + x * u2) + u3) = 0 - (u1 + x * u2) - u3
      BY <3>7
    <3> QED
      BY <3>3, <3>6, <3>8 DEF \cong
  <2>7. x - S \in Int /\ b + e * x \in Int
    BY <1>1, <2>3, <2>4
  <2>8. F[j][0] \in Int /\ F[j][0] \cong b + e * x
    <3>1. (x - S) % q \in Int /\ (x - S) % q \cong x - S
      BY <2>7, CongReduced
    <3> QED
      BY <2>5, <2>6, <2>7, <3>1, CongTransitive
  <2>9. F[j][i] = F[j][0] /\ a[j][i] = b /\ D(i) = e
    BY <1>10 DEF b, e
  <2> QED
    BY <2>8, <2>9 DEF D
<1> QED
  BY <1>9, <1>10 DEF F, a, D

(* A line through reduced coefficients.                                      *)
LEMMA ReducedLine ==
  ASSUME NEW s \in Int, NEW t \in Int, NEW x \in Int
  PROVE  /\ (s % q) * x + (t % q) \in Int /\ s * x + t \in Int
         /\ (s % q) * x + (t % q) \cong s * x + t
<1> DEFINE u == s % q
           v == t % q
<1>1. u \in Int /\ u \cong s /\ v \in Int /\ v \cong t /\ x \cong x
  BY CongReduced, CongReflexive
<1> HIDE DEF u, v
<1>2. u * x \cong s * x
  BY <1>1, CongProduct
<1>3. u * x \in Int /\ s * x \in Int
  BY <1>1
<1>4. u * x + v \cong s * x + t
  BY <1>1, <1>2, <1>3, CongSum
<1>5. u * x + v \in Int /\ s * x + t \in Int
  BY <1>1, <1>3
<1> QED
  BY <1>4, <1>5 DEF u, v

(* The digits open for the challenge of the proof.                           *)
LEMMA DigitsOpen ==
  ASSUME NEW par, NEW ring, NEW N, NEW index, NEW m, NEW r, NEW x,
         Honest(par, ring, N, index, m, r, x), NEW mine, NEW topic
  PROVE  DigitEquation(par, CompleteProof(par, ring, index, mine, topic, m, r, x), m, x)
<1> DEFINE a == Masks(par, m, r)
           shown == CompleteProof(par, ring, index, mine, topic, m, r, x)
           F == AllF(par, shown, m, x)
           A == shown.points.A
           B == shown.points.B
<1>1. /\ par.n \in Nat /\ m \in Nat /\ x \in Int /\ r.A \in Int /\ r.B \in Int
  BY DEF Honest
<1>2. /\ B.h = r.B /\ A.h = r.A /\ shown.zA = (x * r.B + r.A) % q
  BY DEF CompleteProof, DigitCommitments, Commitment
<1>3. \A j \in Positions(m), i \in Digits(par) :
        B.at[j][i] = Delta(par, index, j, i) % q /\ A.at[j][i] = a[j][i] % q
  BY DEF CompleteProof, DigitCommitments, Commitment
<1>4. Answers(par, m, index, a, x, F)
  BY AllFValue
<1>5. (B.h * x + A.h) % q = shown.zA
  <2>1. r.B * x = x * r.B
    BY <1>1
  <2> QED
    BY <1>2, <2>1
<1>6. ASSUME NEW j \in Positions(m), NEW i \in Digits(par)
      PROVE  (B.at[j][i] * x + A.at[j][i]) % q = F[j][i] % q
  <2> DEFINE d == Delta(par, index, j, i)
             b == a[j][i]
             f == F[j][i]
  <2>1. j \in 0 .. m - 1 /\ i \in 0 .. par.n - 1
    BY DEF Positions, Digits
  <2>2. d \in {0, 1}
    BY <2>1, DeltasOf
  <2>3. b \in Int
    BY <2>1, MasksOf
  <2>4. f \in Int /\ f \cong b + d * x
    BY <1>4, <2>1 DEF Answers
  <2>5. B.at[j][i] = d % q /\ A.at[j][i] = b % q
    BY <1>3
  <2> HIDE DEF a, shown, F, A, B, d, b, f
  <2>6. d \in Int
    BY <2>2
  <2>7. /\ (d % q) * x + (b % q) \in Int /\ d * x + b \in Int
        /\ (d % q) * x + (b % q) \cong d * x + b
    BY <1>1, <2>3, <2>6, ReducedLine
  <2>8. f \in Int /\ f \cong d * x + b
    <3>1. d * x \in Int
      BY <1>1, <2>6
    <3>2. d * x + b = b + d * x
      BY <2>3, <3>1
    <3> QED
      BY <2>4, <3>2
  <2> DEFINE y == (d % q) * x + (b % q)
             z == d * x + b
  <2>9. y \in Int /\ z \in Int /\ y \cong z /\ f \cong z
    BY <2>7, <2>8
  <2> HIDE DEF y, z
  <2>10. y % q = f % q
    <3>1. y % q = z % q /\ f % q = z % q
      BY <2>8, <2>9, SameRemainder
    <3> QED
      BY <3>1
  <2> QED
    BY <2>5, <2>10 DEF f, y
<1> QED
  BY <1>5, <1>6 DEF DigitEquation, Opens

(* What the f of a bit gives in the last equation.                           *)
LEMMA BitValue ==
  ASSUME NEW f \in Int, NEW b \in Int, NEW d \in {0, 1}, NEW x \in Int, f \cong b + d * x
  PROVE  (((b * (1 - 2 * d)) % q) * x + ((- (b * b)) % q)) % q = (f * (x - f)) % q
<1> DEFINE y == b + d * x
           s == b * (1 - 2 * d)
           t == - (b * b)
<1>1. y \in Int /\ x - f \in Int /\ x - y \in Int /\ s \in Int /\ t \in Int
  OBVIOUS
<1>2. y * (x - y) = s * x + t
  <2>1. CASE d = 0
    <3>1. y = b /\ s = b
      BY <2>1
    <3>2. b * (x - b) = b * x + t
      OBVIOUS
    <3> QED
      BY <3>1, <3>2
  <2>2. CASE d = 1
    <3>1. y = b + x /\ s = - b
      BY <2>2
    <3>2. (b + x) * (x - (b + x)) = (- b) * x + t
      OBVIOUS
    <3> QED
      BY <3>1, <3>2
  <2> QED
    BY <2>1, <2>2
<1> HIDE DEF y, s, t
<1>3. f \cong y
  BY DEF y
<1>4. f * (x - f) \cong y * (x - y)
  <2>1. x - f \cong x - y
    BY <1>1, <1>3, CongReflexive, CongSum
  <2> QED
    BY <1>1, <1>3, <2>1, CongProduct
<1>5. /\ (s % q) * x + (t % q) \in Int /\ s * x + t \in Int
      /\ (s % q) * x + (t % q) \cong s * x + t
  BY <1>1, ReducedLine
<1> DEFINE u == (s % q) * x + (t % q)
           z == s * x + t
           w == f * (x - f)
<1>6. w \in Int
  BY <1>1
<1>7. u \in Int /\ z \in Int /\ u \cong z /\ w \cong z
  BY <1>2, <1>4, <1>5
<1> HIDE DEF u, z, w
<1>8. u % q = z % q /\ w % q = z % q
  BY <1>6, <1>7, SameRemainder
<1> QED
  BY <1>8 DEF s, t, u, w

(* And so do the bits.                                                       *)
LEMMA BitsOpen ==
  ASSUME NEW par, NEW ring, NEW N, NEW index, NEW m, NEW r, NEW x,
         Honest(par, ring, N, index, m, r, x), NEW mine, NEW topic
  PROVE  BitEquation(par, CompleteProof(par, ring, index, mine, topic, m, r, x), m, x)
<1> DEFINE a == Masks(par, m, r)
           shown == CompleteProof(par, ring, index, mine, topic, m, r, x)
           F == AllF(par, shown, m, x)
           C == shown.points.C
           D == shown.points.D
           bit(j, i) == Delta(par, index, j, i)
<1>1. /\ par.n \in Nat /\ m \in Nat /\ x \in Int /\ r.C \in Int /\ r.D \in Int
  BY DEF Honest
<1>2. /\ C.h = r.C /\ D.h = r.D /\ shown.zC = (x * r.C + r.D) % q
  BY DEF CompleteProof, DigitCommitments, Commitment
<1>3. \A j \in Positions(m), i \in Digits(par) :
        /\ C.at[j][i] = (a[j][i] * (1 - 2 * bit(j, i))) % q
        /\ D.at[j][i] = (- (a[j][i] * a[j][i])) % q
  BY DEF CompleteProof, DigitCommitments, Commitment
<1>4. Answers(par, m, index, a, x, F)
  BY AllFValue
<1>5. (C.h * x + D.h) % q = shown.zC
  <2>1. r.C * x = x * r.C
    BY <1>1
  <2> QED
    BY <1>2, <2>1
<1>6. ASSUME NEW j \in Positions(m), NEW i \in Digits(par)
      PROVE  (C.at[j][i] * x + D.at[j][i]) % q = (F[j][i] * (x - F[j][i])) % q
  <2> DEFINE d == bit(j, i)
             b == a[j][i]
             f == F[j][i]
  <2>1. j \in 0 .. m - 1 /\ i \in 0 .. par.n - 1
    BY DEF Positions, Digits
  <2>2. d \in {0, 1}
    BY <2>1, DeltasOf
  <2>3. b \in Int
    BY <2>1, MasksOf
  <2>4. f \in Int /\ f \cong b + d * x
    BY <1>4, <2>1 DEF Answers
  <2>5. C.at[j][i] = (b * (1 - 2 * d)) % q /\ D.at[j][i] = (- (b * b)) % q
    BY <1>3
  <2> HIDE DEF a, shown, F, C, D, d, b, f
  <2>6. x \in Int
    BY <1>1
  <2>7. (((b * (1 - 2 * d)) % q) * x + ((- (b * b)) % q)) % q = (f * (x - f)) % q
    BY <2>2, <2>3, <2>4, <2>6, BitValue, Zenon
  <2> QED
    BY <2>5, <2>7 DEF f
<1> QED
  BY <1>5, <1>6 DEF BitEquation, Opens

(* The ring has as many entries as it has indices.                           *)
LEMMA CardinalityOfRange ==
  ASSUME NEW N \in Nat
  PROVE  Cardinality(0 .. N - 1) = N
<1>1. 0 \in Int /\ N - 1 \in Int
  OBVIOUS
<1> QED
  BY <1>1, FS_Interval

\* The exponent of generator g in what the verifier compares with g^z.
Left(par, shown, ring, m, x, g) ==
  LET f == AllF(par, shown, m, x)
      weight(t) == ProductOf([j \in Positions(m) |-> f[j][get_jth(j, par.n, t)]], m)
  IN (SumOf([t \in DOMAIN ring |-> ring[t][g] * weight(t)], 0, Cardinality(DOMAIN ring))
      - SumOf([j \in Positions(m) |-> shown.Q[j][g] * Power(x, j)], 0, m)) % q

\* The masks of generator g, of which the topic has none.
MaskOf(topic, m, r, g) == [j \in 0 .. m - 1 |-> IF g = topic THEN 0 ELSE r.rho[j]]

(* What is left of a generator: the entry at the index, with the highest     *)
(* power, and the masks.                                                     *)
LEMMA LeftValue ==
  ASSUME NEW par, NEW ring, NEW N, NEW index, NEW m, NEW r, NEW x,
         Honest(par, ring, N, index, m, r, x), NEW mine, NEW topic, NEW g \in Generators(par)
  PROVE  LET L == Left(par, CompleteProof(par, ring, index, mine, topic, m, r, x), ring, m, x, g)
             H == SumOf(AtX(MaskOf(topic, m, r, g), x, m), 0, m)
         IN  /\ L \in Scalars /\ H \in Int
             /\ L \cong ring[index][g] * Power(x, m) - H
<1> DEFINE a == Masks(par, m, r)
           shown == CompleteProof(par, ring, index, mine, topic, m, r, x)
           F == AllF(par, shown, m, x)
           C == [t \in 0 .. N - 1 |-> ring[t][g]]
           P == [t \in 0 .. N - 1 |-> Coefficients(par, index, a, m, t)]
           W == [t \in 0 .. N - 1 |-> Weight(par, m, F, t)]
           h == MaskOf(topic, m, r, g)
           R == [j \in 0 .. m - 1 |-> shown.Q[j][g]]
<1>1. /\ N \in Nat /\ m \in Nat /\ x \in Int /\ DOMAIN ring = 0 .. N - 1 /\ index \in 0 .. N - 1
      /\ \A t \in 0 .. N - 1 : ring[t][g] \in Int
      /\ \A j \in 0 .. m - 1 : r.rho[j] \in Int
  BY DEF Honest
<1>2. Cardinality(DOMAIN ring) = N
  BY <1>1, CardinalityOfRange
<1>3. Masked(par, m, a)
  BY MasksOf DEF Masked
<1>4. Answers(par, m, index, a, x, F)
  BY AllFValue
<1>5. ASSUME NEW t \in 0 .. N - 1
      PROVE  /\ W[t] \in Int /\ \A j \in 0 .. m - 1 : P[t][j] \in Int
             /\ W[t] \cong SumOf(AtX(P[t], x, m), 0, m) + (IF t = index THEN 1 ELSE 0) * Power(x, m)
  <2>1. Indexed(par, m, index, t)
    BY HonestIndexed
  <2>2. W[t] = Weight(par, m, F, t) /\ P[t] = Coefficients(par, index, a, m, t)
    OBVIOUS
  <2> HIDE DEF W, P, F, a
  <2> QED
    BY <1>1, <1>3, <1>4, <2>1, <2>2, WeightValue
<1>6. Entries(C, P, N, m)
  <2>1. \A t \in 0 .. N - 1 : C[t] \in Int
    BY <1>1
  <2> HIDE DEF C, P
  <2> QED
    BY <1>5, <2>1 DEF Entries
<1>7. Valued(P, W, N, m, index, x)
  <2> HIDE DEF P, W
  <2> QED
    BY <1>5 DEF Valued
<1>8. ASSUME NEW j \in 0 .. m - 1
      PROVE  R[j] = ((IF g = topic THEN 0 ELSE r.rho[j]) + SumOf(Column(C, P, N, j), 0, N)) % q
  <2> DEFINE p == [t \in DOMAIN ring |-> Coefficients(par, index, a, m, t)]
  <2>1. shown.Q = Q(par, ring, index, topic, a, m, r)
    BY DEF CompleteProof
  <2>2. Q(par, ring, index, topic, a, m, r)[j][g]
          = ((IF g = topic THEN 0 ELSE r.rho[j])
             + SumOf([t \in DOMAIN ring |-> ring[t][g] * p[t][j]], 0, Cardinality(DOMAIN ring))) % q
    BY DEF Q, Positions
  <2>3. [t \in DOMAIN ring |-> ring[t][g] * p[t][j]] = Column(C, P, N, j)
    BY <1>1 DEF Column
  <2>4. R[j] = shown.Q[j][g]
    OBVIOUS
  <2> HIDE DEF R, shown, p, C, P
  <2> QED
    BY <1>2, <2>1, <2>2, <2>3, <2>4
<1>9. ASSUME NEW j \in 0 .. m - 1
      PROVE  /\ h[j] \in Int /\ R[j] \in Int
             /\ R[j] \cong h[j] + SumOf(Column(C, P, N, j), 0, N)
  <2> DEFINE s == SumOf(Column(C, P, N, j), 0, N)
  <2>1. h[j] \in Int /\ h[j] = IF g = topic THEN 0 ELSE r.rho[j]
    BY <1>1 DEF MaskOf
  <2>2. s \in Int
    <3>1. Columns(C, P, N, m, N)[j] \in Int
      <4>1. N \in 0 .. N
        BY <1>1
      <4> HIDE DEF C, P
      <4> QED
        BY <1>1, <1>6, <4>1, ColumnSum
    <3>2. Columns(C, P, N, m, N)[j] = s
      BY DEF Columns
    <3> QED
      BY <3>1, <3>2
  <2>3. R[j] = (h[j] + s) % q
    <3> HIDE DEF h, R, s, C, P
    <3>1. R[j] = ((IF g = topic THEN 0 ELSE r.rho[j]) + s) % q
      BY <1>8 DEF s
    <3> QED
      BY <2>1, <3>1
  <2> HIDE DEF h, R, s
  <2>4. h[j] + s \in Int
    BY <2>1, <2>2
  <2>5. (h[j] + s) % q \in Int /\ (h[j] + s) % q \cong h[j] + s
    BY <2>4, CongReduced
  <2> QED
    BY <2>1, <2>3, <2>5 DEF s
<1> DEFINE S == SumOf(Weighted(C, W, N), 0, N)
           T == SumOf(AtX(R, x, m), 0, m)
           H == SumOf(AtX(h, x, m), 0, m)
<1>10. Left(par, shown, ring, m, x, g) = (S - T) % q
  <2> DEFINE weight(t) == ProductOf([j \in Positions(m) |-> F[j][get_jth(j, par.n, t)]], m)
  <2>1. [t \in DOMAIN ring |-> ring[t][g] * weight(t)] = Weighted(C, W, N)
    BY <1>1 DEF Weighted, Weight, Positions
  <2>2. [j \in Positions(m) |-> shown.Q[j][g] * Power(x, j)] = AtX(R, x, m)
    BY DEF AtX, Positions
  <2>3. Left(par, shown, ring, m, x, g)
          = (SumOf([t \in DOMAIN ring |-> ring[t][g] * weight(t)], 0, Cardinality(DOMAIN ring))
             - SumOf([j \in Positions(m) |-> shown.Q[j][g] * Power(x, j)], 0, m)) % q
    BY DEF Left
  <2> HIDE DEF shown, F, C, W, R, weight
  <2> QED
    BY <1>2, <2>1, <2>2, <2>3
<1>11. S \in Int /\ T \in Int /\ H \in Int /\ S - T \cong C[index] * Power(x, m) - H
  <2> HIDE DEF C, P, W, h, R
  <2> QED
    BY <1>1, <1>6, <1>7, <1>9, RingValue
<1>12. C[index] = ring[index][g] /\ Power(x, m) \in Int /\ ring[index][g] \in Int
  BY <1>1, Powers
<1> HIDE DEF shown, C, S, T, H
<1>13. S - T \in Int /\ (S - T) % q \in Scalars /\ (S - T) % q \in Int /\ (S - T) % q \cong S - T
  <2>1. S - T \in Int
    BY <1>11
  <2> QED
    BY <2>1, CongReduced
<1>14. ring[index][g] * Power(x, m) - H \in Int
  <2>1. ring[index][g] * Power(x, m) \in Int
    BY <1>12
  <2> QED
    BY <1>11, <2>1
<1>15. (S - T) % q \cong ring[index][g] * Power(x, m) - H
  BY <1>11, <1>12, <1>13, <1>14, CongTransitive
<1> QED
  BY <1>10, <1>11, <1>13, <1>15 DEF shown, H

\* The topics there are: none, or one that is not the first generator.
TopicOf(par, topic) == par.topic_size \in Nat /\ (topic = NoTopic \/ topic \in Generators(par) \ {0})

(* The exponents in a proof are for the generators without the topic, the    *)
(* first of them for the first generator.                                    *)
LEMMA GeneratorsSigned ==
  ASSUME NEW par, NEW topic, TopicOf(par, topic)
  PROVE  /\ Cardinality(Generators(par) \ {topic})
              = IF topic = NoTopic THEN par.topic_size + 1 ELSE par.topic_size
         /\ \A k \in 1 .. Cardinality(Generators(par) \ {topic}) :
              GeneratorAt(topic, k) \in Generators(par) \ {topic}
         /\ 1 \in 1 .. Cardinality(Generators(par) \ {topic})
         /\ GeneratorAt(topic, 1) = 0
<1> DEFINE ts == par.topic_size
<1>1. ts \in Nat /\ Generators(par) = 0 .. ts
  BY DEF TopicOf, Generators
<1>2. IsFiniteSet(0 .. ts) /\ Cardinality(0 .. ts) = ts + 1
  <2>1. 0 \in Int /\ ts \in Int /\ ~(0 > ts) /\ ts - 0 + 1 = ts + 1
    BY <1>1
  <2> HIDE DEF ts
  <2> QED
    BY <2>1, FS_Interval
<1>3. CASE topic = NoTopic
  <2>1. topic \notin 0 .. ts
    BY <1>1, <1>3 DEF NoTopic
  <2>2. (0 .. ts) \ {topic} = 0 .. ts
    BY <2>1
  <2>3. Cardinality(Generators(par) \ {topic}) = ts + 1
    BY <1>1, <1>2, <2>2
  <2>4. ASSUME NEW k \in 1 .. ts + 1 PROVE GeneratorAt(topic, k) \in (0 .. ts) \ {topic}
    <3>1. GeneratorAt(topic, k) = k - 1
      BY <1>3 DEF GeneratorAt, NoTopic
    <3> QED
      BY <1>1, <2>2, <3>1
  <2>5. 1 \in 1 .. ts + 1 /\ GeneratorAt(topic, 1) = 0
    BY <1>1, <1>3 DEF GeneratorAt, NoTopic
  <2> HIDE DEF ts
  <2> QED
    BY <1>1, <1>3, <2>3, <2>4, <2>5 DEF ts
<1>4. CASE topic # NoTopic
  <2>1. topic \in 1 .. ts
    BY <1>1, <1>4 DEF TopicOf
  <2>2. Cardinality((0 .. ts) \ {topic}) = ts
    <3> DEFINE G == 0 .. ts
               c == Cardinality(G)
    <3>1. topic \in G /\ IsFiniteSet(G) /\ c = ts + 1
      BY <1>1, <1>2, <2>1
    <3> HIDE DEF ts, G
    <3>2. Cardinality(G \ {topic}) = c - 1
      BY <3>1, FS_RemoveElement
    <3> HIDE DEF c
    <3>3. c - 1 = ts
      BY <1>1, <3>1
    <3> QED
      BY <3>2, <3>3 DEF G
  <2>3. ASSUME NEW k \in 1 .. ts PROVE GeneratorAt(topic, k) \in (0 .. ts) \ {topic}
    <3> HIDE DEF ts
    <3>1. topic \in Int /\ 0 < topic /\ topic <= ts /\ k \in Int /\ 1 <= k /\ k <= ts
      BY <1>1, <2>1
    <3>2. CASE topic < k
      <4>1. GeneratorAt(topic, k) = k
        BY <3>1, <3>2 DEF GeneratorAt
      <4> QED
        BY <1>1, <3>1, <3>2, <4>1
    <3>3. CASE ~(topic < k)
      <4>1. GeneratorAt(topic, k) = k - 1
        BY <3>1, <3>3 DEF GeneratorAt
      <4> QED
        BY <1>1, <3>1, <3>3, <4>1
    <3> QED
      BY <3>2, <3>3
  <2>4. 1 \in 1 .. ts /\ GeneratorAt(topic, 1) = 0
    <3> HIDE DEF ts
    <3> QED
      BY <1>1, <2>1 DEF GeneratorAt
  <2> HIDE DEF ts
  <2> QED
    BY <1>1, <1>4, <2>2, <2>3, <2>4 DEF ts
<1> QED
  BY <1>3, <1>4

(* The equation of a generator that is signed: the entry and the value of    *)
(* the prover agree, times the highest power.                                *)
LEMMA SignedValue ==
  ASSUME NEW par, NEW ring, NEW N, NEW index, NEW m, NEW r, NEW x,
         Honest(par, ring, N, index, m, r, x), NEW mine, NEW topic,
         NEW g \in Generators(par), g # topic, mine[g] \in Int
  PROVE  Left(par, CompleteProof(par, ring, index, mine, topic, m, r, x), ring, m, x, g)
             = Answer(mine, g, m, r, x)
           <=> ring[index][g] * Power(x, m) \cong mine[g] * Power(x, m)
<1> DEFINE L == Left(par, CompleteProof(par, ring, index, mine, topic, m, r, x), ring, m, x, g)
           H == SumOf(AtX(MaskOf(topic, m, r, g), x, m), 0, m)
           c == ring[index][g] * Power(x, m)
           v == mine[g] * Power(x, m)
<1>1. L \in Scalars /\ H \in Int /\ L \cong c - H
  BY LeftValue
<1>2. c \in Int /\ v \in Int
  <2>1. x \in Int /\ m \in Nat /\ ring[index][g] \in Int
    BY DEF Honest
  <2>2. Power(x, m) \in Int
    BY <2>1, Powers
  <2> QED
    BY <2>1, <2>2
<1>3. Answer(mine, g, m, r, x) = (v - H) % q
  <2>1. AtX(MaskOf(topic, m, r, g), x, m) = [j \in Positions(m) |-> r.rho[j] * Power(x, j)]
    BY DEF AtX, MaskOf, Positions
  <2> QED
    BY <2>1 DEF Answer
<1> HIDE DEF L, H, c, v
<1>4. L \in Int /\ L % q = L
  BY <1>1, FieldAssumption DEF Scalars
<1>5. c - H \in Int /\ v - H \in Int
  BY <1>1, <1>2
<1>6. L = (c - H) % q
  BY <1>1, <1>4, <1>5, SameRemainder
<1>7. (c - H) % q = (v - H) % q <=> c - H \cong v - H
  BY <1>5, SameRemainder
<1>8. (c - H) - (v - H) = c - v
  BY <1>1, <1>2
<1>9. c - H \cong v - H <=> c \cong v
  BY <1>8 DEF \cong
<1> QED
  BY <1>3, <1>6, <1>7, <1>9 DEF L, c, v

(* Nothing is left of the topic when the entry has the nullifier taken off.  *)
LEMMA TopicVanishes ==
  ASSUME NEW par, NEW ring, NEW N, NEW index, NEW m, NEW r, NEW x,
         Honest(par, ring, N, index, m, r, x), NEW mine, NEW topic \in Generators(par),
         ring[index][topic] = 0
  PROVE  Left(par, CompleteProof(par, ring, index, mine, topic, m, r, x), ring, m, x, topic) = 0
<1> DEFINE L == Left(par, CompleteProof(par, ring, index, mine, topic, m, r, x), ring, m, x, topic)
           h == MaskOf(topic, m, r, topic)
           H == SumOf(AtX(h, x, m), 0, m)
           c == ring[index][topic] * Power(x, m)
<1>1. L \in Scalars /\ H \in Int /\ L \cong c - H
  BY LeftValue
<1>2. m \in Nat /\ x \in Int
  BY DEF Honest
<1>3. c = 0
  <2>1. Power(x, m) \in Int
    BY <1>2, Powers
  <2> QED
    BY <2>1
<1>4. \A j \in 0 .. m - 1 : h[j] = 0
  BY DEF MaskOf
<1> HIDE DEF L, h, c
<1>5. H \cong 0 * H + 0 * H
  <2>1. 0 \cong 0 * 0 + 0 * 0
    BY CongReflexive
  <2>2. \A j \in 0 .. m - 1 : /\ h[j] \in Int /\ h[j] \in Int /\ h[j] \in Int
                              /\ h[j] \cong 0 * h[j] + 0 * h[j]
    BY <1>4, <2>1
  <2>3. 0 \in Int
    OBVIOUS
  <2> QED
    BY <1>2, <2>2, <2>3, ValuesCombine
<1> HIDE DEF H
<1>6. 0 * H + 0 * H = 0 /\ 0 - H \in Int /\ 0 \in Int
  BY <1>1
<1>7. H \cong 0 /\ 0 \cong 0
  BY <1>5, <1>6, CongReflexive
<1>8. 0 - H \cong 0 - 0 /\ 0 - 0 = 0
  BY <1>1, <1>6, <1>7, CongSum
<1>9. L \in Int /\ L % q = L /\ 0 % q = 0
  BY <1>1, FieldAssumption DEF Scalars
<1>10. L \cong 0
  BY <1>1, <1>3, <1>6, <1>8, <1>9, CongTransitive
<1>11. L % q = 0 % q
  BY <1>6, <1>9, <1>10, SameRemainder
<1> QED
  BY <1>9, <1>11 DEF L

(* A factor that is not zero may be cancelled, under the same summand.       *)
LEMMA Cancelled ==
  ASSUME NEW a \in Scalars \ {0}, NEW u \in Scalars, NEW v \in Scalars, NEW c \in Int,
         (a * u + c) % q = (a * v + c) % q
  PROVE  u = v
<1>1. q \in Nat /\ q > 0 /\ a \in Int /\ u \in Int /\ v \in Int
  BY FieldAssumption DEF Scalars
<1>2. PICK k \in Int : a * u + c = (a * v + c) + q * k
  <2> DEFINE x == a * u + c
             y == a * v + c
  <2>1. x \in Int /\ y \in Int /\ x % q = y % q
    BY <1>1
  <2> HIDE DEF x, y
  <2>2. \E k \in Int : x = y + q * k
    BY <1>1, <2>1, Congruent, Zenon
  <2> QED
    BY <2>2 DEF x, y
<1>3. ASSUME NEW s \in Scalars, NEW t \in Scalars, NEW e \in Int, s > t, a * (s - t) = 0 + q * e
      PROVE  FALSE
  <2> DEFINE d == s - t
  <2>1. d \in 1 .. q - 1 /\ a \in 1 .. q - 1
    BY <1>1, <1>3 DEF Scalars
  <2>2. (a * d) % q # 0
    BY <2>1, OrderIsPrime, NoZeroDivisors
  <2>3. (a * d) % q = 0
    <3> DEFINE x == a * d
    <3>1. x \in Int /\ 0 \in Int /\ x = 0 + q * e
      BY <1>1, <1>3, <2>1
    <3> HIDE DEF x
    <3>2. x % q = 0 % q
      BY <1>1, <1>3, <3>1, Congruent, Zenon
    <3>3. 0 % q = 0
      BY <1>1
    <3> QED
      BY <3>2, <3>3 DEF x
  <2> QED
    BY <2>2, <2>3
<1>4. a * (u - v) = 0 + q * k
  <2>1. a * (u - v) = a * u - a * v
    BY <1>1
  <2> DEFINE x == a * u
             y == a * v
  <2>2. x \in Int /\ y \in Int /\ q * k \in Int
    BY <1>1, <1>2
  <2>3. x + c = (y + c) + q * k /\ a * (u - v) = x - y
    BY <1>2, <2>1
  <2> HIDE DEF x, y
  <2> QED
    BY <2>2, <2>3
<1>5. a * (v - u) = 0 + q * (-k)
  <2>1. a * (v - u) = -(a * (u - v)) /\ q * (-k) = -(q * k)
    BY <1>1
  <2> QED
    BY <1>1, <1>4, <2>1
<1>6. ~(u > v)
  BY <1>3, <1>4
<1>7. ~(v > u)
  <2>1. -k \in Int
    OBVIOUS
  <2> QED
    BY <1>3, <1>5, <2>1
<1> QED
  BY <1>1, <1>6, <1>7


(* The equation of the ring, generator by generator.                         *)
LEMMA RingEquationIs ==
  ASSUME NEW par, NEW ring, NEW index, NEW m, NEW r, NEW x, NEW mine, NEW topic
  PROVE  LET shown == CompleteProof(par, ring, index, mine, topic, m, r, x)
         IN RingEquation(par, shown, ring, topic, m, x)
              <=> /\ \A k \in 1 .. Cardinality(Generators(par) \ {topic}) :
                       Left(par, shown, ring, m, x, GeneratorAt(topic, k))
                         = Answer(mine, GeneratorAt(topic, k), m, r, x)
                  /\ topic \in Generators(par) => Left(par, shown, ring, m, x, topic) = 0
<1> DEFINE shown == CompleteProof(par, ring, index, mine, topic, m, r, x)
<1>1. \A k \in 1 .. Cardinality(Generators(par) \ {topic}) :
        shown.z[k] = Answer(mine, GeneratorAt(topic, k), m, r, x)
  BY DEF CompleteProof
<1> HIDE DEF shown
<1>2. RingEquation(par, shown, ring, topic, m, x)
        <=> /\ \A k \in 1 .. Cardinality(Generators(par) \ {topic}) :
                 Left(par, shown, ring, m, x, GeneratorAt(topic, k)) = shown.z[k]
            /\ topic \in Generators(par) => Left(par, shown, ring, m, x, topic) = 0
  BY DEF RingEquation, Left
<1> QED
  BY <1>1, <1>2 DEF shown

(* A proof for one's own entry verifies with its challenge.                  *)
LEMMA ProofVerifies ==
  ASSUME NEW par, NEW ring, NEW N, NEW index, NEW m, NEW r, NEW x,
         Honest(par, ring, N, index, m, r, x), NEW mine, NEW topic, TopicOf(par, topic),
         \A g \in Generators(par) \ {topic} : mine[g] \in Int /\ ring[index][g] = mine[g] % q,
         topic \in Generators(par) => ring[index][topic] = 0
  PROVE  Verifies(par, CompleteProof(par, ring, index, mine, topic, m, r, x), ring, topic, m, x)
<1> DEFINE shown == CompleteProof(par, ring, index, mine, topic, m, r, x)
<1>1. DigitEquation(par, shown, m, x) /\ BitEquation(par, shown, m, x)
  BY DigitsOpen, BitsOpen
<1>2. ASSUME NEW g \in Generators(par) \ {topic}
      PROVE  Left(par, shown, ring, m, x, g) = Answer(mine, g, m, r, x)
  <2> DEFINE v == mine[g]
             X == Power(x, m)
  <2>1. x \in Int /\ m \in Nat
    BY DEF Honest
  <2>2. X \in Int /\ v \in Int
    BY <2>1, Powers
  <2>3. ring[index][g] = v % q
    OBVIOUS
  <2> HIDE DEF v, X
  <2>4. v % q \in Int /\ v % q \cong v /\ X \cong X
    BY <2>2, CongReduced, CongReflexive
  <2>5. (v % q) * X \cong v * X
    BY <2>2, <2>4, CongProduct
  <2>6. ring[index][g] * Power(x, m) \cong mine[g] * Power(x, m)
    BY <2>3, <2>5 DEF v, X
  <2> HIDE DEF shown
  <2>7. g # topic /\ g \in Generators(par) /\ mine[g] \in Int
    OBVIOUS
  <2> QED
    BY <2>6, <2>7, SignedValue DEF shown
<1>3. topic \in Generators(par) => Left(par, shown, ring, m, x, topic) = 0
  BY TopicVanishes
<1>4. \A k \in 1 .. Cardinality(Generators(par) \ {topic}) :
        GeneratorAt(topic, k) \in Generators(par) \ {topic}
  BY GeneratorsSigned
<1>5. RingEquation(par, shown, ring, topic, m, x)
  <2> HIDE DEF shown
  <2>1. \A k \in 1 .. Cardinality(Generators(par) \ {topic}) :
          Left(par, shown, ring, m, x, GeneratorAt(topic, k))
            = Answer(mine, GeneratorAt(topic, k), m, r, x)
    BY <1>2, <1>4
  <2> QED
    BY <1>3, <2>1, RingEquationIs DEF shown
<1> QED
  BY <1>1, <1>5 DEF Verifies

(* And a proof that verifies with its challenge was made for an entry with   *)
(* the prover's first exponent.                                              *)
LEMMA VerifiedOpens ==
  ASSUME NEW par, NEW ring, NEW N, NEW index, NEW m, NEW r, NEW x \in Scalars \ {0},
         Honest(par, ring, N, index, m, r, x), NEW mine, NEW topic, TopicOf(par, topic),
         mine[0] \in Scalars, ring[index][0] \in Scalars,
         Verifies(par, CompleteProof(par, ring, index, mine, topic, m, r, x), ring, topic, m, x)
  PROVE  ring[index][0] = mine[0]
<1> DEFINE shown == CompleteProof(par, ring, index, mine, topic, m, r, x)
           X == Power(x, m)
           c == ring[index][0]
           v == mine[0]
<1>1. RingEquation(par, shown, ring, topic, m, x)
  BY DEF Verifies
<1>2. 1 \in 1 .. Cardinality(Generators(par) \ {topic}) /\ GeneratorAt(topic, 1) = 0
  BY GeneratorsSigned
<1>3. 0 \in Generators(par) /\ 0 # topic
  BY DEF TopicOf, Generators, NoTopic
<1>4. Left(par, shown, ring, m, x, 0) = Answer(mine, 0, m, r, x)
  <2>1. \A k \in 1 .. Cardinality(Generators(par) \ {topic}) :
          Left(par, shown, ring, m, x, GeneratorAt(topic, k))
            = Answer(mine, GeneratorAt(topic, k), m, r, x)
    BY <1>1, RingEquationIs
  <2> HIDE DEF shown
  <2> QED
    BY <1>2, <2>1
<1>5. m \in Nat /\ c \in Int /\ v \in Int /\ c \in Scalars /\ v \in Scalars
  BY DEF Honest, Scalars
<1>6. c * X \cong v * X
  BY <1>3, <1>4, <1>5, SignedValue
<1>7. X \in Scalars \ {0} /\ X \in Int
  <2>1. X \in Scalars \ {0}
    BY <1>5, PowerNotZero
  <2> QED
    BY <2>1 DEF Scalars
<1> HIDE DEF X, c, v
<1>8. c * X \in Int /\ v * X \in Int
  BY <1>5, <1>7
<1>9. (c * X) % q = (v * X) % q
  BY <1>6, <1>8, SameRemainder
<1>10. X * c + 0 = c * X /\ X * v + 0 = v * X
  BY <1>5, <1>7
<1>11. (X * c + 0) % q = (X * v + 0) % q
  BY <1>9, <1>10
<1> QED
  <2>1. c = v
    <3> DEFINE zero == 0
    <3>1. zero \in Int /\ (X * c + zero) % q = (X * v + zero) % q
      BY <1>11
    <3> HIDE DEF zero
    <3> QED
      BY <1>5, <1>7, <3>1, Cancelled, Zenon
  <2> QED
    BY <2>1 DEF c, v

-----------------------------------------------------------------------------
(* What a proof takes.                                                       *)

(* There are four points in front.                                           *)
LEMMA FourPoints ==
  Cardinality({"A", "B", "C", "D"}) = 4
<1>1. IsFiniteSet({"A"}) /\ Cardinality({"A"}) = 1
  BY FS_Singleton
<1>2. IsFiniteSet({"A", "B"}) /\ Cardinality({"A", "B"}) = 2
  <2>1. {"A", "B"} = {"A"} \cup {"B"} /\ "B" \notin {"A"}
    OBVIOUS
  <2> QED
    BY <1>1, <2>1, FS_AddElement
<1>3. IsFiniteSet({"A", "B", "C"}) /\ Cardinality({"A", "B", "C"}) = 3
  <2>1. {"A", "B", "C"} = {"A", "B"} \cup {"C"} /\ "C" \notin {"A", "B"}
    OBVIOUS
  <2> QED
    BY <1>2, <2>1, FS_AddElement
<1>4. {"A", "B", "C", "D"} = {"A", "B", "C"} \cup {"D"} /\ "D" \notin {"A", "B", "C"}
  OBVIOUS
<1> QED
  BY <1>3, <1>4, FS_AddElement

(* The scalars f that are sent are m rows of n - 1.                          *)
LEMMA RowsSent ==
  ASSUME NEW n \in Nat, n > 0, NEW m \in Nat, NEW f,
         DOMAIN f = 0 .. m - 1, \A j \in 0 .. m - 1 : DOMAIN f[j] = 1 .. n - 1
  PROVE  Cardinality(UNION {{j} \X DOMAIN f[j] : j \in DOMAIN f}) = m * (n - 1)
<1> DEFINE I == 0 .. m - 1
           J == 1 .. n - 1
           k == n - 1
<1>1. UNION {{j} \X DOMAIN f[j] : j \in DOMAIN f} = I \X J
  <2>1. {{j} \X DOMAIN f[j] : j \in DOMAIN f} = {{j} \X J : j \in I}
    OBVIOUS
  <2> HIDE DEF I, J
  <2>2. UNION {{j} \X J : j \in I} = I \X J
    OBVIOUS
  <2> QED
    BY <2>1, <2>2
<1>2. IsFiniteSet(I) /\ Cardinality(I) = m
  <2>1. 0 \in Int /\ m - 1 \in Int
    OBVIOUS
  <2> QED
    BY <2>1, FS_Interval
<1>3. IsFiniteSet(J) /\ Cardinality(J) = k
  <2>1. 1 \in Int /\ n - 1 \in Int
    OBVIOUS
  <2> QED
    BY <2>1, FS_Interval
<1> HIDE DEF I, J
<1>4. Cardinality(I \X J) = Cardinality(I) * Cardinality(J)
  BY <1>2, <1>3, FS_Product
<1>5. Cardinality(I \X J) = m * k
  BY <1>2, <1>3, <1>4
<1> QED
  BY <1>1, <1>5

(* The bytes of a proof, whoever made it and for what.                       *)
LEMMA BytesOf ==
  ASSUME NEW par, par.n \in Nat, par.n > 0, NEW m \in Nat,
         NEW ring, NEW index, NEW r, NEW x, NEW mine, NEW topic, TopicOf(par, topic)
  PROVE  BytesWritten(CompleteProof(par, ring, index, mine, topic, m, r, x))
           = 33 * (4 + m) + 32 * (m * (par.n - 1) + 2
               + IF topic = NoTopic THEN par.topic_size + 1 ELSE par.topic_size)
<1> DEFINE shown == CompleteProof(par, ring, index, mine, topic, m, r, x)
           c == Cardinality(Generators(par) \ {topic})
           e == IF topic = NoTopic THEN par.topic_size + 1 ELSE par.topic_size
           s == UNION {{j} \X DOMAIN shown.f[j] : j \in DOMAIN shown.f}
<1>1. DOMAIN shown.points = {"A", "B", "C", "D"}
  BY DEF CompleteProof, DigitCommitments
<1>2. DOMAIN shown.Q = 0 .. m - 1
  BY DEF CompleteProof, Q, Positions
<1>3. DOMAIN shown.f = 0 .. m - 1 /\ \A j \in 0 .. m - 1 : DOMAIN shown.f[j] = 1 .. par.n - 1
  <2>1. Digits(par) \ {0} = 1 .. par.n - 1
    BY DEF Digits
  <2>2. DOMAIN shown.f = Positions(m) /\ \A j \in Positions(m) : DOMAIN shown.f[j] = Digits(par) \ {0}
    BY DEF CompleteProof
  <2> HIDE DEF shown
  <2> QED
    BY <2>1, <2>2 DEF Positions
<1>4. DOMAIN shown.z = 1 .. c
  BY DEF CompleteProof
<1>5. c = e /\ e \in Nat
  <2>1. c = e
    BY GeneratorsSigned, Zenon
  <2>2. e \in Nat
    BY DEF TopicOf
  <2> QED
    BY <2>1, <2>2, Zenon
<1> HIDE DEF shown, c
<1>6. Cardinality(DOMAIN shown.Q) = m /\ Cardinality(s) = m * (par.n - 1)
  <2>1. Cardinality(s) = m * (par.n - 1)
    BY <1>3, RowsSent
  <2> QED
    BY <1>2, <2>1, CardinalityOfRange
<1>7. Cardinality(DOMAIN shown.z) = e
  <2>1. 1 \in Int /\ e \in Int
    BY <1>5
  <2> HIDE DEF e
  <2>2. Cardinality(1 .. e) = IF 1 > e THEN 0 ELSE e - 1 + 1
    BY <2>1, FS_Interval
  <2> QED
    BY <1>4, <1>5, <2>2
<1>8. Cardinality(DOMAIN shown.points) = 4
  BY <1>1, FourPoints
<1>9. BytesWritten(shown)
        = 33 * (Cardinality(DOMAIN shown.points) + Cardinality(DOMAIN shown.Q))
          + 32 * (Cardinality(s) + 2 + Cardinality(DOMAIN shown.z))
  BY DEF BytesWritten
<1> HIDE DEF s, e
<1> QED
  BY <1>6, <1>7, <1>8, <1>9 DEF shown, e

-----------------------------------------------------------------------------
(* Authentication proofs.                                                    *)

Signed == outcome \in {"signature", "authentic", "refuted"}

\* A signature has an r, and is by the key that made keeps.
SignatureMade ==
  /\ made.own \in Scalars \ {0} /\ made.spk \in Scalars \ {0} /\ made.x \in Scalars \ {0}
  /\ \E r \in Scalars : proof = [R |-> r, s |-> (made.x * made.own + r) % q]

AuthInv == (Signed => SignatureMade) /\ AuthenticMeansOwnKey

(* A signature answers one key under its own challenge, and its own key      *)
(* under no other.                                                           *)
LEMMA AuthEquation ==
  ASSUME SignatureMade, NEW spk \in {made.spk, made.own}, NEW x \in Scalars,
         spk = made.own \/ x = made.x
  PROVE  AuthHolds(spk, x) <=> spk = made.own /\ x = made.x
<1>1. PICK r \in Scalars : proof = [R |-> r, s |-> (made.x * made.own + r) % q]
  BY DEF SignatureMade
<1> DEFINE own == made.own
           y   == made.x
<1>2. /\ q \in Nat /\ r \in Int /\ x \in Int /\ x \in Scalars
      /\ own \in Scalars \ {0} /\ own \in Int /\ y \in Scalars \ {0} /\ y \in Int
      /\ spk \in Scalars /\ spk \in Int
  BY FieldAssumption DEF SignatureMade, Scalars
<1>3. AuthHolds(spk, x) <=> (x * spk + r) % q = (y * own + r) % q
  BY <1>1 DEF AuthHolds
<1>4. spk = own \/ x = y
  OBVIOUS
<1> HIDE DEF own, y
<1>5. ASSUME (x * spk + r) % q = (y * own + r) % q
      PROVE  spk = own /\ x = y
  <2>1. CASE spk = own
    <3>1. (own * x + r) % q = (own * y + r) % q
      <4>1. x * spk = own * x /\ y * own = own * y
        BY <1>2, <2>1
      <4> QED
        BY <1>5, <4>1
    <3> QED
      BY <1>2, <2>1, <3>1, Cancelled
  <2>2. CASE x = y
    <3>1. (y * spk + r) % q = (y * own + r) % q
      BY <1>5, <2>2
    <3> QED
      BY <1>2, <2>2, <3>1, Cancelled
  <2> QED
    BY <1>4, <2>1, <2>2
<1>6. spk = own /\ x = y => (x * spk + r) % q = (y * own + r) % q
  OBVIOUS
<1> QED
  BY <1>3, <1>5, <1>6 DEF own, y

(* The verdict on a signature is right.                                      *)
LEMMA AuthVerdict ==
  ASSUME SignatureMade, AuthVerify, UNCHANGED <<made, proof>>
  PROVE  SignatureMade' /\ AuthenticMeansOwnKey'
<1>1. PICK spk \in {made.spk, made.own}, chal \in Chals :
        LET same == AuthHashInput(spk, chal, proof.R) = AuthHashInput(made.spk, made.chal, proof.R)
        IN  /\ spk = made.own \/ chal = made.chal
            /\ \E x \in IF same THEN {made.x} ELSE Scalars \ {made.x} :
                 /\ query'   = [spk |-> spk, chal |-> chal]
                 /\ outcome' = IF AuthHolds(spk, x) THEN "authentic" ELSE "refuted"
  BY DEF AuthVerify
<1> DEFINE same == spk = made.spk /\ chal = made.chal
<1>2. PICK x \in Scalars :
        /\ same <=> x = made.x
        /\ spk = made.own \/ chal = made.chal
        /\ query'   = [spk |-> spk, chal |-> chal]
        /\ outcome' = IF AuthHolds(spk, x) THEN "authentic" ELSE "refuted"
  BY <1>1 DEF AuthHashInput, SignatureMade
<1>3. spk = made.own \/ x = made.x
  BY <1>2
<1>4. AuthHolds(spk, x) <=> spk = made.own /\ same
  BY <1>2, <1>3, AuthEquation
<1>5. made' = made /\ SignatureMade'
  BY DEF SignatureMade
<1>6. outcome' = "authentic" <=> AuthHolds(spk, x)
  BY <1>2
<1>7. query' = [spk |-> made.own, chal |-> made.chal] <=> spk = made.own /\ chal = made.chal
  BY <1>2
<1>8. outcome' = "authentic"
        <=> query' = [spk |-> made.own, chal |-> made.chal] /\ made.spk = made.own
  BY <1>4, <1>6, <1>7
<1> QED
  BY <1>5, <1>8 DEF AuthenticMeansOwnKey

(* A signature that was made is by the key that is kept.                     *)
LEMMA AuthSigned ==
  ASSUME AuthProve
  PROVE  (Signed => SignatureMade)' /\ AuthenticMeansOwnKey'
<1>1. PICK d \in Members, name \in Names, spk \in Keys, chal \in Chals :
        AuthProof(d, name, spk, chal)
  BY DEF AuthProve
<1>2. PICK r \in Scalars, x \in Scalars :
        \/ outcome' = "refused"
        \/ /\ ~Overflows(d, name) /\ r # 0 /\ x # 0
           /\ proof'   = [R |-> r, s |-> (x * ssk[d][name] + r) % q]
           /\ made'    = [own |-> ssk[d][name], spk |-> spk, chal |-> chal, x |-> x]
           /\ outcome' = "signature"
  BY <1>1 DEF AuthProof
<1>3. q \in Nat /\ \A e \in Members, n \in Names : ssk[e][n] \in Nat \ {0}
  BY FieldAssumption, ServiceKeysAssumption
<1>4. CASE outcome' = "refused"
  BY <1>4 DEF Signed, AuthenticMeansOwnKey
<1>5. CASE /\ ~Overflows(d, name) /\ r # 0 /\ x # 0
           /\ proof'   = [R |-> r, s |-> (x * ssk[d][name] + r) % q]
           /\ made'    = [own |-> ssk[d][name], spk |-> spk, chal |-> chal, x |-> x]
           /\ outcome' = "signature"
  <2>1. ssk[d][name] \in Scalars \ {0}
    BY <1>3, <1>5 DEF Overflows, Scalars
  <2>2. spk \in Scalars \ {0}
    BY <1>3 DEF Keys
  <2>3. /\ made'.own = ssk[d][name] /\ made'.spk = spk /\ made'.x = x
        /\ proof' = [R |-> r, s |-> (made'.x * made'.own + r) % q]
    BY <1>5
  <2>4. SignatureMade'
    BY <1>5, <2>1, <2>2, <2>3 DEF SignatureMade
  <2> QED
    BY <1>5, <2>4 DEF Signed, AuthenticMeansOwnKey
<1> QED
  BY <1>2, <1>4, <1>5

(* The calls about membership give no signature and no verdict on one.       *)
LEMMA NothingSigned ==
  ASSUME prove_memmpk \/ verify_memmpk \/ prove_DBPoE_memmpk \/ verify_DBPoE_memmpk
  PROVE  (Signed => SignatureMade)' /\ AuthenticMeansOwnKey'
<1>1. outcome' \in {"refused", "aborted", "proof", "accepted", "rejected"}
  BY DEF prove_memmpk, verify_memmpk, prove_DBPoE_memmpk, verify_DBPoE_memmpk,
     CreateProof, VerifyProof
<1> QED
  BY <1>1 DEF Signed, AuthenticMeansOwnKey

(* An authentication proof verifies for the challenge and the key it was     *)
(* made for, if that key is the prover's own, and otherwise not: for every   *)
(* prime order and whatever the keys, the draws and the hashes are.          *)
THEOREM AuthenticIsOwnKey == Spec => []AuthenticMeansOwnKey
<1>1. Init => AuthInv
  BY DEF Init, AuthInv, Signed, AuthenticMeansOwnKey
<1>2. AuthInv /\ [Next]_vars => AuthInv'
  <2> SUFFICES ASSUME AuthInv, [Next]_vars PROVE AuthInv'
    OBVIOUS
  <2>1. CASE prove_memmpk \/ verify_memmpk \/ prove_DBPoE_memmpk \/ verify_DBPoE_memmpk
    BY <2>1, NothingSigned DEF AuthInv
  <2>2. CASE auth_prove \/ DBPoE_auth_prove
    BY <2>2, AuthSigned DEF AuthInv, auth_prove, DBPoE_auth_prove
  <2>3. CASE auth_verify \/ DBPoE_auth_verify
    BY <2>3, AuthVerdict DEF AuthInv, Signed, auth_verify, DBPoE_auth_verify
  <2>4. CASE UNCHANGED vars
    BY <2>4 DEF vars, AuthInv, Signed, SignatureMade, AuthenticMeansOwnKey
  <2> QED
    BY <2>1, <2>2, <2>3, <2>4 DEF Next
<1>3. AuthInv => AuthenticMeansOwnKey
  BY DEF AuthInv
<1> QED
  BY <1>1, <1>2, <1>3, PTL DEF Spec

-----------------------------------------------------------------------------
(* Membership proofs: what is hashed.                                        *)

\* The topic and the nullifier a caller can have.
Topical(topic, nullifier) ==
  IF ctx.topic_size = 0 THEN topic = NoTopic /\ nullifier = 0
  ELSE topic \in Generators(ctx) \ {0} /\ nullifier \in Nullifiers

(* Keys are scalars that tell members apart.                                 *)
LEMMA KeyOf ==
  ASSUME ctx \in Contexts, NEW d \in Members, NEW g \in Generators(ctx)
  PROVE  /\ mpk(d)[g] = vals[d][g] /\ vals[d][g] \in Scalars \ {0}
         /\ \A e \in Members : vals[d][g] = vals[e][g] => d = e
<1>1. CASE ctx.topic_size = 0
  <2>1. Generators(ctx) = {0}
    BY <1>1 DEF Generators
  <2>2. mpk(d)[g] = vals[d][g]
    BY <1>1, <2>1 DEF mpk, gen_mpk
  <2> QED
    BY <2>2, KeysAssumption
<1>2. CASE ctx.topic_size # 0
  <2>1. mpk(d)[g] = vals[d][g]
    BY <1>2 DEF mpk, gen_DBPoE_mpk
  <2> QED
    BY <2>1, KeysAssumption
<1> QED
  BY <1>1, <1>2

(* Nullifiers are scalars, and not 0.                                        *)
LEMMA NullifierIsScalar ==
  ASSUME ctx \in Contexts, NEW topic, NEW nullifier, Topical(topic, nullifier)
  PROVE  nullifier \in Scalars /\ (ctx.topic_size # 0 => nullifier # 0)
<1>1. 0 \in Scalars
  BY FieldAssumption DEF Scalars
<1> QED
  BY <1>1, KeysAssumption DEF Topical, Nullifiers

(* There is always the first generator.                                      *)
LEMMA FirstGenerator ==
  ASSUME ctx \in Contexts
  PROVE  0 \in Generators(ctx) /\ ctx.topic_size \in Nat
BY InputsAssumption DEF Generators

\* One exponent of an identity with the nullifier taken off.
Exponent(d, g, topic, nullifier) == (vals[d][g] - IF g = topic THEN nullifier ELSE 0) % q

(* A scalar is its own remainder.                                            *)
LEMMA Reduced ==
  ASSUME NEW s \in Scalars
  PROVE  s % q = s /\ (s - 0) % q = s
BY FieldAssumption DEF Scalars

(* Differences from one scalar are different.                                *)
LEMMA Differences ==
  ASSUME NEW v \in Scalars, NEW s \in Scalars, NEW t \in Scalars, (v - s) % q = (v - t) % q
  PROVE  s = t
<1>1. q \in Nat /\ q > 0 /\ v \in Int /\ s \in Int /\ t \in Int /\ v - s \in Int /\ v - t \in Int
  BY FieldAssumption DEF Scalars
<1>2. PICK k \in Int : v - s = (v - t) + q * k
  <2> DEFINE x == v - s
             y == v - t
  <2>1. q \in Nat /\ q > 0 /\ x \in Int /\ y \in Int /\ x % q = y % q
    BY <1>1
  <2> HIDE DEF x, y
  <2>2. \E k \in Int : x = y + q * k
    BY <2>1, Congruent, Zenon
  <2> QED
    BY <2>2 DEF x, y
<1>3. q * k + s = t
  <2> DEFINE z == q * k
  <2>1. z \in Int /\ v - s = (v - t) + z
    BY <1>1, <1>2
  <2> HIDE DEF z
  <2>2. z + s = t
    BY <1>1, <2>1
  <2> QED
    BY <2>2 DEF z
<1> QED
  BY <1>1, <1>3, OneRemainder DEF Scalars

(* The commitments have an exponent for every entry and generator.           *)
LEMMA ExponentsOf ==
  ASSUME ctx \in Contexts, NEW ring \in Rings, NEW topic, NEW nullifier
  PROVE  /\ Len(ring) \in Nat /\ \A t \in 1 .. Len(ring) : ring[t] \in Members
         /\ DOMAIN cints(ring, topic, nullifier) = 0 .. Len(ring) - 1
         /\ \A t \in 0 .. Len(ring) - 1, g \in Generators(ctx) :
              cints(ring, topic, nullifier)[t][g] = Exponent(ring[t + 1], g, topic, nullifier)
<1>1. ring \in Seq(Members)
  BY InputsAssumption
<1>2. Len(ring) \in Nat /\ \A t \in 1 .. Len(ring) : ring[t] \in Members
  BY <1>1
<1>3. DOMAIN cints(ring, topic, nullifier) = 0 .. Len(ring) - 1
  BY DEF cints
<1>4. ASSUME NEW t \in 0 .. Len(ring) - 1, NEW g \in Generators(ctx)
      PROVE  cints(ring, topic, nullifier)[t][g] = Exponent(ring[t + 1], g, topic, nullifier)
  <2>1. ring[t + 1] \in Members
    BY <1>2
  <2>2. mpk(ring[t + 1])[g] = vals[ring[t + 1]][g]
    BY <2>1, KeyOf
  <2>3. cints(ring, topic, nullifier)[t][g]
          = (mpk(ring[t + 1])[g] - IF g = topic THEN nullifier ELSE 0) % q
    BY DEF cints
  <2> QED
    BY <2>2, <2>3 DEF Exponent
<1> QED
  BY <1>2, <1>3, <1>4

(* The exponents that are hashed fix ring, topic and nullifier.              *)
LEMMA HashBinds ==
  ASSUME ctx \in Contexts, NEW ring \in Rings, NEW other \in Rings, Len(other) > 0,
         NEW topic, NEW nullifier, Topical(topic, nullifier),
         NEW topic2, NEW nullifier2, Topical(topic2, nullifier2),
         cints(ring, topic, nullifier) = cints(other, topic2, nullifier2)
  PROVE  ring = other /\ topic = topic2 /\ nullifier = nullifier2
<1>1. /\ Len(ring) \in Nat /\ Len(other) \in Nat
      /\ 0 .. Len(ring) - 1 = 0 .. Len(other) - 1
      /\ \A t \in 1 .. Len(ring) : ring[t] \in Members
      /\ \A t \in 1 .. Len(other) : other[t] \in Members
  BY ExponentsOf
<1>2. Len(ring) = Len(other)
  <2>1. 0 \in 0 .. Len(other) - 1 /\ Len(other) - 1 \in 0 .. Len(other) - 1
    BY <1>1
  <2>2. Len(ring) - 1 \in 0 .. Len(ring) - 1
    BY <1>1, <2>1
  <2> QED
    BY <1>1, <2>1, <2>2
<1>3. ASSUME NEW t \in 0 .. Len(ring) - 1, NEW g \in Generators(ctx)
      PROVE  Exponent(ring[t + 1], g, topic, nullifier) = Exponent(other[t + 1], g, topic2, nullifier2)
  <2>1. t \in 0 .. Len(other) - 1
    BY <1>1
  <2>2. cints(ring, topic, nullifier)[t][g] = Exponent(ring[t + 1], g, topic, nullifier)
    BY ExponentsOf
  <2>3. cints(other, topic2, nullifier2)[t][g] = Exponent(other[t + 1], g, topic2, nullifier2)
    BY <2>1, ExponentsOf
  <2> QED
    BY <2>2, <2>3
<1>4. ASSUME NEW t \in 1 .. Len(ring) PROVE ring[t] = other[t]
  <2>1. 0 # topic /\ 0 # topic2
    BY FirstGenerator DEF Topical, NoTopic, Generators
  <2>2. t - 1 \in 0 .. Len(ring) - 1 /\ (t - 1) + 1 = t /\ 0 \in Generators(ctx)
    BY <1>1, FirstGenerator
  <2>3. Exponent(ring[t], 0, topic, nullifier) = Exponent(other[t], 0, topic2, nullifier2)
    BY <1>3, <2>2
  <2>4. ring[t] \in Members /\ other[t] \in Members
    BY <1>1, <1>2
  <2>5. vals[ring[t]][0] \in Scalars /\ vals[other[t]][0] \in Scalars
    BY <2>2, <2>4, KeyOf
  <2>6. (vals[ring[t]][0] - 0) % q = (vals[other[t]][0] - 0) % q
    BY <2>1, <2>3 DEF Exponent
  <2>7. vals[ring[t]][0] = vals[other[t]][0]
    BY <2>5, <2>6, Reduced
  <2> QED
    BY <2>2, <2>4, <2>7, KeyOf
<1>5. ring = other
  <2>1. ring \in Seq(Members) /\ other \in Seq(Members)
    BY InputsAssumption
  <2> QED
    BY <1>2, <1>4, <2>1
<1> DEFINE d == ring[1]
<1>6. d \in Members /\ \A g \in Generators(ctx) :
        Exponent(d, g, topic, nullifier) = Exponent(d, g, topic2, nullifier2)
  <2>1. 1 \in 1 .. Len(ring) /\ 0 \in 0 .. Len(ring) - 1 /\ 0 + 1 = 1
    BY <1>1, <1>2
  <2> QED
    BY <1>1, <1>3, <1>5, <2>1
<1> HIDE DEF d
<1>7. CASE ctx.topic_size = 0
  BY <1>5, <1>7 DEF Topical
<1>8. CASE ctx.topic_size # 0
  <2>1. /\ topic \in Generators(ctx) /\ topic2 \in Generators(ctx)
        /\ nullifier \in Scalars \ {0} /\ nullifier2 \in Scalars \ {0} /\ 0 \in Scalars
    BY <1>8, NullifierIsScalar, FieldAssumption DEF Topical, Scalars
  <2> DEFINE v == vals[d][topic]
  <2>2. v \in Scalars
    BY <1>6, <2>1, KeyOf
  <2>3. (v - nullifier) % q = (v - IF topic = topic2 THEN nullifier2 ELSE 0) % q
    BY <1>6, <2>1 DEF Exponent
  <2> HIDE DEF v
  <2>4. topic = topic2
    <3> SUFFICES ASSUME topic # topic2 PROVE FALSE
      OBVIOUS
    <3>1. (v - nullifier) % q = (v - 0) % q
      BY <2>3
    <3> QED
      BY <2>1, <2>2, <3>1, Differences
  <2>5. nullifier = nullifier2
    <3>1. (v - nullifier) % q = (v - nullifier2) % q
      BY <2>3, <2>4
    <3> QED
      BY <2>1, <2>2, <3>1, Differences
  <2> QED
    BY <1>5, <2>4, <2>5
<1> QED
  BY <1>7, <1>8

-----------------------------------------------------------------------------
(* Membership proofs: what is verified.                                      *)

\* A proof was made by the prover's code, for the arguments that made keeps.
ProofMade ==
  /\ made.ring \in Rings /\ made.m \in 1 .. ctx.m /\ made.index \in 0 .. Len(made.ring) - 1
  /\ Covers(made.m, made.ring)
  /\ made.by \in Members
  /\ made.x \in Scalars \ {0}
  /\ Topical(made.topic, made.nullifier)
  /\ ctx.topic_size # 0 => made.nullifier = vals[made.by][made.topic]
  /\ \E r \in Draws(ctx, made.m) :
       proof = CompleteProof(ctx, cints(made.ring, made.topic, made.nullifier), made.index,
                             vals[made.by], made.topic, made.m, r, made.x)

\* The verdicts are right.
Judged == VerifiedMeansSameArguments /\ VerifiedMeansOwnEntry /\ HonestProofsVerify

MembershipInv ==
  /\ ctx \in Contexts
  /\ Proved => ProofMade
  /\ Judged

(* The equation of the digits holds for one challenge only: the exponent of  *)
(* h in B is not zero.                                                       *)
LEMMA OneChallenge ==
  ASSUME ctx \in Contexts, ProofMade, NEW x \in Scalars, DigitEquation(ctx, proof, made.m, x)
  PROVE  x = made.x
<1>1. PICK r \in Draws(ctx, made.m) :
        proof = CompleteProof(ctx, cints(made.ring, made.topic, made.nullifier), made.index,
                              vals[made.by], made.topic, made.m, r, made.x)
  BY DEF ProofMade
<1>2. /\ proof.points.B.h = r.B /\ proof.points.A.h = r.A
      /\ proof.zA = (made.x * r.B + r.A) % q
  BY <1>1 DEF CompleteProof, DigitCommitments, Commitment
<1>3. (proof.points.B.h * x + proof.points.A.h) % q = proof.zA
  BY DEF DigitEquation, Opens
<1>4. r.B \in Scalars \ {0} /\ r.A \in Scalars /\ made.x \in Scalars
  BY DrawsAssumption DEF ProofMade
<1>5. r.A \in Int /\ made.x * r.B = r.B * made.x
  BY <1>4, FieldAssumption DEF Scalars
<1>6. (r.B * x + r.A) % q = (r.B * made.x + r.A) % q
  BY <1>2, <1>3, <1>5
<1> QED
  BY <1>4, <1>5, <1>6, Cancelled

(* The proof at hand, with the draws it was made with.                       *)
LEMMA ProofAtHand ==
  ASSUME ctx \in Contexts, ProofMade
  PROVE  /\ TopicOf(ctx, made.topic)
         /\ \E r : LET ring == cints(made.ring, made.topic, made.nullifier) IN
              /\ proof = CompleteProof(ctx, ring, made.index, vals[made.by], made.topic,
                                       made.m, r, made.x)
              /\ Honest(ctx, ring, Len(made.ring), made.index, made.m, r, made.x)
<1> DEFINE ring == cints(made.ring, made.topic, made.nullifier)
<1>1. PICK r \in Draws(ctx, made.m) :
        proof = CompleteProof(ctx, ring, made.index, vals[made.by], made.topic, made.m, r, made.x)
  BY DEF ProofMade
<1>2. /\ ctx.n \in Nat /\ ctx.n > 1 /\ ctx.topic_size \in Nat /\ ctx.m \in Nat
      /\ made.m \in 1 .. ctx.m
  BY InputsAssumption DEF ProofMade
<1>3. made.m \in Nat
  BY <1>2
<1>4. /\ Len(made.ring) \in Nat /\ DOMAIN ring = 0 .. Len(made.ring) - 1
      /\ \A t \in 1 .. Len(made.ring) : made.ring[t] \in Members
      /\ \A t \in 0 .. Len(made.ring) - 1, g \in Generators(ctx) :
           ring[t][g] = Exponent(made.ring[t + 1], g, made.topic, made.nullifier)
  BY ExponentsOf DEF ProofMade
<1>5. ASSUME NEW t \in 0 .. Len(made.ring) - 1, NEW g \in Generators(ctx)
      PROVE  ring[t][g] \in Int
  <2> DEFINE v == vals[made.ring[t + 1]][g]
             s == v - (IF g = made.topic THEN made.nullifier ELSE 0)
  <2>1. t + 1 \in 1 .. Len(made.ring)
    BY <1>4
  <2>2. v \in Scalars
    BY <1>4, <2>1, KeyOf
  <2>3. made.nullifier \in Scalars
    BY NullifierIsScalar DEF ProofMade
  <2>4. v \in Int /\ made.nullifier \in Int
    BY <2>2, <2>3 DEF Scalars
  <2>5. ring[t][g] = s % q
    BY <1>4 DEF Exponent
  <2> HIDE DEF v
  <2>6. s \in Int
    BY <2>4
  <2> HIDE DEF s, ring
  <2> QED
    BY <2>5, <2>6, CongReduced
<1>6. /\ {r.A, r.B, r.C, r.D} \subseteq Scalars
      /\ r.rho \in [Positions(made.m) -> Scalars]
      /\ r.a \in [Positions(made.m) -> [1 .. ctx.n - 1 -> Scalars]]
  BY <1>2, DrawsAssumption
<1>7. /\ r.A \in Int /\ r.B \in Int /\ r.C \in Int /\ r.D \in Int /\ made.x \in Int
      /\ \A j \in 0 .. made.m - 1 :
           r.rho[j] \in Int /\ \A i \in 1 .. ctx.n - 1 : r.a[j][i] \in Int
  <2>1. Scalars \subseteq Int
    BY DEF Scalars
  <2> QED
    BY <1>6, <2>1 DEF Positions, ProofMade
<1>8. made.index \in 0 .. Len(made.ring) - 1 /\ Len(made.ring) <= Capacity(ctx.n, made.m)
  <2>1. Capacity(ctx.n, made.m) \in Nat
    BY <1>2, <1>3, CapacityIsNat
  <2> QED
    BY <1>4, <2>1 DEF ProofMade, Covers
<1> HIDE DEF ring
<1>9. Honest(ctx, ring, Len(made.ring), made.index, made.m, r, made.x)
  BY <1>2, <1>3, <1>4, <1>5, <1>7, <1>8 DEF Honest
<1>10. TopicOf(ctx, made.topic)
  BY <1>2 DEF ProofMade, Topical, TopicOf
<1> QED
  BY <1>1, <1>9, <1>10 DEF ring

(* The entry at the index, in exponents.                                     *)
LEMMA EntryAtHand ==
  ASSUME ctx \in Contexts, ProofMade
  PROVE  /\ made.ring[made.index + 1] \in Members
         /\ \A g \in Generators(ctx) :
              cints(made.ring, made.topic, made.nullifier)[made.index][g]
                = Exponent(made.ring[made.index + 1], g, made.topic, made.nullifier)
<1> DEFINE ring == made.ring
           index == made.index
           topic == made.topic
           nullifier == made.nullifier
<1>1. index \in 0 .. Len(ring) - 1 /\ ring \in Rings
  BY DEF ProofMade
<1> HIDE DEF ring, index, topic, nullifier
<1>2. /\ Len(ring) \in Nat
      /\ \A t \in 1 .. Len(ring) : ring[t] \in Members
      /\ \A t \in 0 .. Len(ring) - 1, g \in Generators(ctx) :
           cints(ring, topic, nullifier)[t][g] = Exponent(ring[t + 1], g, topic, nullifier)
  BY <1>1, ExponentsOf
<1>3. index + 1 \in 1 .. Len(ring)
  BY <1>1, <1>2
<1>4. /\ ring[index + 1] \in Members
      /\ \A g \in Generators(ctx) :
           cints(ring, topic, nullifier)[index][g] = Exponent(ring[index + 1], g, topic, nullifier)
  BY <1>1, <1>2, <1>3
<1> QED
  BY <1>4 DEF ring, index, topic, nullifier

(* A proof for one's own entry verifies with its challenge,                  *)
LEMMA OwnEntryVerifies ==
  ASSUME ctx \in Contexts, ProofMade, OwnEntry
  PROVE  Verifies(ctx, proof, cints(made.ring, made.topic, made.nullifier), made.topic,
                  made.m, made.x)
<1> DEFINE ring == cints(made.ring, made.topic, made.nullifier)
           v == vals[made.by]
<1>1. PICK r :
        /\ proof = CompleteProof(ctx, ring, made.index, v, made.topic, made.m, r, made.x)
        /\ Honest(ctx, ring, Len(made.ring), made.index, made.m, r, made.x)
  BY ProofAtHand
<1>2. TopicOf(ctx, made.topic)
  BY ProofAtHand
<1>3. \A g \in Generators(ctx) :
        ring[made.index][g] = (v[g] - IF g = made.topic THEN made.nullifier ELSE 0) % q
  BY EntryAtHand DEF OwnEntry, Exponent
<1>4. \A g \in Generators(ctx) : v[g] \in Scalars
  BY KeyOf DEF ProofMade
<1> HIDE DEF ring, v
<1>5. ASSUME NEW g \in Generators(ctx) \ {made.topic}
      PROVE  v[g] \in Int /\ ring[made.index][g] = v[g] % q
  <2>1. v[g] \in Int
    BY <1>4 DEF Scalars
  <2>2. v[g] - 0 = v[g]
    BY <2>1
  <2>3. ring[made.index][g] = (v[g] - 0) % q
    BY <1>3
  <2> QED
    BY <2>1, <2>2, <2>3
<1>6. ASSUME made.topic \in Generators(ctx)
      PROVE  ring[made.index][made.topic] = 0
  <2> DEFINE n == made.nullifier
  <2>1. ctx.topic_size # 0
    BY <1>6 DEF ProofMade, Topical, Generators, NoTopic
  <2>2. n = v[made.topic]
    BY <2>1 DEF ProofMade, v
  <2>3. n \in Int
    BY <1>4, <1>6, <2>2 DEF Scalars
  <2>4. ring[made.index][made.topic] = (n - n) % q
    BY <1>3, <1>6, <2>2
  <2> HIDE DEF n
  <2>5. n - n = 0 /\ 0 % q = 0
    BY <2>3, FieldAssumption
  <2> QED
    BY <2>4, <2>5
<1>7. Verifies(ctx, CompleteProof(ctx, ring, made.index, v, made.topic, made.m, r, made.x),
               ring, made.topic, made.m, made.x)
  BY <1>1, <1>2, <1>5, <1>6, ProofVerifies
<1> QED
  BY <1>1, <1>7 DEF ring

(* and for no other.                                                         *)
LEMMA VerifiedIsOwn ==
  ASSUME ctx \in Contexts, ProofMade,
         Verifies(ctx, proof, cints(made.ring, made.topic, made.nullifier), made.topic,
                  made.m, made.x)
  PROVE  OwnEntry
<1> DEFINE ring == cints(made.ring, made.topic, made.nullifier)
           v == vals[made.by]
           d == made.ring[made.index + 1]
<1>1. PICK r :
        /\ proof = CompleteProof(ctx, ring, made.index, v, made.topic, made.m, r, made.x)
        /\ Honest(ctx, ring, Len(made.ring), made.index, made.m, r, made.x)
  BY ProofAtHand
<1>2. TopicOf(ctx, made.topic) /\ made.x \in Scalars \ {0}
  BY ProofAtHand DEF ProofMade
<1>3. 0 \in Generators(ctx) /\ 0 # made.topic
  BY FirstGenerator, <1>2 DEF TopicOf, NoTopic
<1>4. d \in Members /\ ring[made.index][0] = Exponent(d, 0, made.topic, made.nullifier)
  BY <1>3, EntryAtHand
<1>5. vals[d][0] \in Scalars /\ v[0] \in Scalars /\ (vals[d][0] = v[0] => d = made.by)
  BY <1>3, <1>4, KeyOf DEF ProofMade
<1>6. ring[made.index][0] = vals[d][0]
  <2>1. (vals[d][0] - 0) % q = vals[d][0]
    BY <1>5, Reduced
  <2> QED
    BY <1>3, <1>4, <2>1 DEF Exponent
<1>7. Verifies(ctx, CompleteProof(ctx, ring, made.index, v, made.topic, made.m, r, made.x),
               ring, made.topic, made.m, made.x)
  BY <1>1
<1> HIDE DEF ring, v, d
<1>8. ring[made.index][0] = v[0]
  BY <1>1, <1>2, <1>5, <1>6, <1>7, VerifiedOpens
<1> QED
  BY <1>5, <1>6, <1>8 DEF OwnEntry, d

(* The prover makes a proof for what it was called with, or none.            *)
LEMMA ProofCreated ==
  ASSUME ctx \in Contexts, ctx' = ctx, NEW by \in Members, NEW ring \in Rings,
         NEW m \in 1 .. ctx.m + 1, NEW index \in 0 .. Len(ring), NEW chal,
         NEW topic, NEW nullifier, Topical(topic, nullifier),
         ctx.topic_size # 0 => nullifier = vals[by][topic],
         CreateProof(by, index, ring, m, topic, nullifier, chal)
  PROVE  (Proved => ProofMade)' /\ Judged'
<1>1. CASE outcome' \in {"refused", "aborted"}
  BY <1>1 DEF Proved, Judged, VerifiedMeansSameArguments, VerifiedMeansOwnEntry, HonestProofsVerify
<1>2. CASE outcome' \notin {"refused", "aborted"}
  <2>1. ArgChecks(ring, index, m) /\ Covers(m, ring) /\ outcome' = "proof"
    BY <1>2 DEF CreateProof
  <2>2. PICK r \in Draws(ctx, m), x \in Scalars \ {0} :
          /\ proof' = CompleteProof(ctx, cints(ring, topic, nullifier), index,
                                    vals[by], topic, m, r, x)
          /\ made'  = [by |-> by, index |-> index, ring |-> ring, m |-> m, topic |-> topic,
                       nullifier |-> nullifier, chal |-> chal, x |-> x]
    BY <1>2 DEF CreateProof
  <2>3. /\ made'.by = by /\ made'.by \in Members /\ made'.index = index /\ made'.ring = ring /\ made'.m = m
        /\ made'.topic = topic /\ made'.nullifier = nullifier /\ made'.x = x
    BY <2>2
  <2>4. m \in 1 .. ctx.m /\ index \in 0 .. Len(ring) - 1
    <3>1. Len(ring) \in Nat /\ ctx.m \in Nat
      BY ExponentsOf, InputsAssumption
    <3> QED
      BY <2>1, <3>1 DEF ArgChecks
  <2>5. Topical(made.topic, made.nullifier)'
    BY <2>3 DEF Topical, Generators, Nullifiers
  <2>6. cints(made.ring, made.topic, made.nullifier)' = cints(ring, topic, nullifier)
    BY <2>3 DEF cints, mpk, gen_mpk, gen_DBPoE_mpk, Generators
  <2>7. Covers(made.m, made.ring)' /\ (ctx.topic_size # 0 => made.nullifier = vals[made.by][made.topic])'
    BY <2>1, <2>3 DEF Covers
  <2>8. ProofMade'
    BY <2>2, <2>3, <2>4, <2>5, <2>6, <2>7 DEF ProofMade
  <2> QED
    BY <2>1, <2>8 DEF Judged, VerifiedMeansSameArguments, VerifiedMeansOwnEntry, HonestProofsVerify
<1> QED
  BY <1>1, <1>2

(* Acceptance means that the challenge is that of the proof, and so is what  *)
(* was hashed.                                                               *)
LEMMA AcceptedIsSame ==
  ASSUME ctx \in Contexts, ProofMade, NEW ring \in Rings, NEW topic, NEW nullifier, NEW chal,
         Topical(topic, nullifier), NEW x \in Challenges(ring, topic, nullifier, chal),
         Verifies(ctx, proof, cints(ring, topic, nullifier), topic, made.m, x)
  PROVE  /\ x = made.x
         /\ [ring |-> ring, topic |-> topic, nullifier |-> nullifier, chal |-> chal]
              = [ring |-> made.ring, topic |-> made.topic,
                 nullifier |-> made.nullifier, chal |-> made.chal]
<1>1. made.x \in Scalars
  BY DEF ProofMade
<1>2. x \in Scalars
  BY <1>1 DEF Challenges
<1>3. x = made.x
  BY <1>2, OneChallenge DEF Verifies
<1>4. HashInput(cints(ring, topic, nullifier), chal)
        = HashInput(cints(made.ring, made.topic, made.nullifier), made.chal)
  BY <1>3 DEF Challenges
<1>5. /\ cints(ring, topic, nullifier) = cints(made.ring, made.topic, made.nullifier)
      /\ chal = made.chal
  BY <1>4 DEF HashInput
<1>6. made.ring \in Rings /\ Len(made.ring) > 0 /\ Topical(made.topic, made.nullifier)
  <2>1. Len(made.ring) \in Nat
    BY ExponentsOf DEF ProofMade
  <2> QED
    BY <2>1 DEF ProofMade
<1>7. ring = made.ring /\ topic = made.topic /\ nullifier = made.nullifier
  BY <1>5, <1>6, HashBinds
<1> QED
  BY <1>3, <1>5, <1>7

(* The verdict is right: on a proof for another entry, over other arguments, *)
(* and on an honest one.                                                     *)
LEMMA Verdict ==
  ASSUME ctx \in Contexts, ProofMade, NEW ring \in Rings, NEW topic, NEW nullifier, NEW chal,
         Topical(topic, nullifier), UNCHANGED <<ctx, made, proof>>,
         VerifyProof(ring, topic, nullifier, chal)
  PROVE  Judged'
<1> DEFINE args == [ring |-> ring, topic |-> topic, nullifier |-> nullifier, chal |-> chal]
           own  == [ring |-> made.ring, topic |-> made.topic,
                    nullifier |-> made.nullifier, chal |-> made.chal]
<1>1. query' = args /\ (SameArguments' <=> args = own) /\ (OwnEntry' <=> OwnEntry)
  BY DEF VerifyProof, SameArguments, OwnEntry
<1>2. ASSUME outcome' = "accepted" PROVE args = own /\ OwnEntry
  <2>1. PICK x \in Challenges(ring, topic, nullifier, chal) :
          Verifies(ctx, proof, cints(ring, topic, nullifier), topic, made.m, x)
    BY <1>2 DEF VerifyProof
  <2>2. x = made.x /\ args = own
    BY <2>1, AcceptedIsSame
  <2>3. ring = made.ring /\ topic = made.topic /\ nullifier = made.nullifier
    BY <2>2
  <2>4. Verifies(ctx, proof, cints(made.ring, made.topic, made.nullifier), made.topic,
                 made.m, made.x)
    BY <2>1, <2>2, <2>3
  <2> QED
    BY <2>2, <2>4, VerifiedIsOwn
<1>3. ASSUME outcome' = "rejected", args = own, OwnEntry PROVE FALSE
  <2>1. ring = made.ring /\ topic = made.topic /\ nullifier = made.nullifier /\ chal = made.chal
    BY <1>3
  <2>2. Covers(made.m, ring)
    BY <2>1 DEF ProofMade
  <2>3. PICK x \in Challenges(ring, topic, nullifier, chal) :
          ~Verifies(ctx, proof, cints(ring, topic, nullifier), topic, made.m, x)
    BY <1>3, <2>2 DEF VerifyProof
  <2>4. x = made.x
    BY <2>1, <2>3 DEF Challenges
  <2>5. Verifies(ctx, proof, cints(made.ring, made.topic, made.nullifier), made.topic,
                 made.m, made.x)
    BY <1>3, OwnEntryVerifies
  <2> QED
    BY <2>1, <2>3, <2>4, <2>5
<1> HIDE DEF args, own
<1> QED
  BY <1>1, <1>2, <1>3
  DEF Judged, VerifiedMeansSameArguments, VerifiedMeansOwnEntry, HonestProofsVerify

(* Topics that pass the check are topical.                                   *)
LEMMA CheckedTopic ==
  ASSUME ctx \in Contexts
  PROVE  /\ ctx.topic_size = 0 => Topical(NoTopic, 0)
         /\ \A topic \in Generators(ctx) : ctx.topic_size > 0 /\ TopicCheck(topic) =>
              \A nullifier \in Nullifiers : Topical(topic, nullifier)
BY InputsAssumption DEF Topical, TopicCheck, Generators

(* The calls of the prover keep the invariant,                               *)
LEMMA ProveKeeps ==
  ASSUME MembershipInv, prove_memmpk \/ prove_DBPoE_memmpk
  PROVE  MembershipInv'
<1>1. ctx \in Contexts /\ ctx' = ctx /\ ctx.topic_size \in Nat
  BY FirstGenerator DEF MembershipInv, prove_memmpk, prove_DBPoE_memmpk
<1>2. (Proved => ProofMade)' /\ Judged'
  <2>1. CASE prove_memmpk
    <3>1. PICK by \in Members, ring \in Rings, m \in 1 .. ctx.m + 1, chal \in Chals :
            \E index \in 0 .. Len(ring) : CreateProof(by, index, ring, m, NoTopic, 0, chal)
      BY <2>1 DEF prove_memmpk
    <3>2. Topical(NoTopic, 0) /\ ctx.topic_size = 0
      BY <1>1, <2>1, CheckedTopic DEF prove_memmpk
    <3> QED
      BY <1>1, <3>1, <3>2, ProofCreated
  <2>2. CASE prove_DBPoE_memmpk
    <3>1. PICK topic \in Generators(ctx) :
            \/ outcome' = "aborted"
            \/ /\ TopicCheck(topic)
               /\ \E by \in Members, ring \in Rings, m \in 1 .. ctx.m + 1, chal \in Chals :
                    \E index \in 0 .. Len(ring) :
                      CreateProof(by, index, ring, m, topic, vals[by][topic], chal)
      BY <2>2 DEF prove_DBPoE_memmpk
    <3>2. CASE outcome' = "aborted"
      BY <3>2
      DEF Proved, Judged, VerifiedMeansSameArguments, VerifiedMeansOwnEntry, HonestProofsVerify
    <3>3. CASE outcome' # "aborted"
      <4>1. TopicCheck(topic) /\ ctx.topic_size > 0
        BY <2>2, <3>1, <3>3 DEF prove_DBPoE_memmpk
      <4>2. PICK by \in Members, ring \in Rings, m \in 1 .. ctx.m + 1, chal \in Chals :
              \E index \in 0 .. Len(ring) :
                CreateProof(by, index, ring, m, topic, vals[by][topic], chal)
        BY <3>1, <3>3
      <4>3. vals[by][topic] \in Nullifiers
        BY DEF Nullifiers
      <4>4. Topical(topic, vals[by][topic])
        BY <1>1, <4>1, <4>3, CheckedTopic
      <4> QED
        BY <1>1, <4>2, <4>4, ProofCreated
    <3> QED
      BY <3>2, <3>3
  <2> QED
    BY <2>1, <2>2
<1> QED
  BY <1>1, <1>2 DEF MembershipInv

(* a proof stays what it is,                                                 *)
LEMMA ProofKept ==
  ASSUME ProofMade, UNCHANGED <<ctx, made, proof>>
  PROVE  ProofMade'
<1>1. Topical(made.topic, made.nullifier)'
  BY DEF ProofMade, Topical, Generators, Nullifiers
<1>2. cints(made.ring, made.topic, made.nullifier)' = cints(made.ring, made.topic, made.nullifier)
  BY DEF cints, mpk, gen_mpk, gen_DBPoE_mpk, Generators
<1>3. Covers(made.m, made.ring)'
  BY DEF ProofMade, Covers
<1> QED
  BY <1>1, <1>2, <1>3 DEF ProofMade

(* and so do the calls of the verifier.                                      *)
LEMMA VerifyKeeps ==
  ASSUME MembershipInv, verify_memmpk \/ verify_DBPoE_memmpk
  PROVE  MembershipInv'
<1>1. /\ ctx \in Contexts /\ outcome = "proof" /\ UNCHANGED <<ctx, made, proof>>
      /\ ctx.topic_size \in Nat
  BY FirstGenerator DEF MembershipInv, verify_memmpk, verify_DBPoE_memmpk
<1>2. ProofMade
  BY <1>1 DEF MembershipInv, Proved
<1>3. ProofMade'
  BY <1>1, <1>2, ProofKept
<1>4. Judged'
  <2>1. CASE verify_memmpk
    <3>1. PICK ring \in Rings, chal \in Chals : VerifyProof(ring, NoTopic, 0, chal)
      BY <2>1 DEF verify_memmpk
    <3>2. Topical(NoTopic, 0)
      BY <1>1, <2>1, CheckedTopic DEF verify_memmpk
    <3> QED
      BY <1>1, <1>2, <3>1, <3>2, Verdict
  <2>2. CASE verify_DBPoE_memmpk
    <3>1. PICK topic \in Generators(ctx) :
            \/ outcome' = "aborted"
            \/ /\ TopicCheck(topic)
               /\ \E ring \in Rings, nullifier \in Nullifiers, chal \in Chals :
                    VerifyProof(ring, topic, nullifier, chal)
      BY <2>2 DEF verify_DBPoE_memmpk
    <3>2. CASE outcome' = "aborted"
      BY <3>2
      DEF Judged, VerifiedMeansSameArguments, VerifiedMeansOwnEntry, HonestProofsVerify
    <3>3. CASE outcome' # "aborted"
      <4>1. TopicCheck(topic) /\ ctx.topic_size > 0
        BY <2>2, <3>1, <3>3 DEF verify_DBPoE_memmpk
      <4>2. PICK ring \in Rings, nullifier \in Nullifiers, chal \in Chals :
              VerifyProof(ring, topic, nullifier, chal)
        BY <3>1, <3>3
      <4>3. Topical(topic, nullifier)
        BY <1>1, <4>1, CheckedTopic
      <4> QED
        BY <1>1, <1>2, <4>2, <4>3, Verdict
    <3> QED
      BY <3>2, <3>3
  <2> QED
    BY <2>1, <2>2
<1> QED
  BY <1>1, <1>3, <1>4 DEF MembershipInv

(* The calls about authentication come with no proof and no verdict on one.  *)
LEMMA NothingProved ==
  ASSUME ctx \in Contexts, auth_prove \/ auth_verify \/ DBPoE_auth_prove \/ DBPoE_auth_verify
  PROVE  MembershipInv'
<1>1. ctx' = ctx /\ outcome' \in {"refused", "signature", "authentic", "refuted"}
  BY DEF auth_prove, auth_verify, DBPoE_auth_prove, DBPoE_auth_verify,
     AuthProve, AuthProof, AuthVerify
<1> QED
  BY <1>1 DEF MembershipInv, Proved, Judged, VerifiedMeansSameArguments,
     VerifiedMeansOwnEntry, HonestProofsVerify

(* Every proof that is looked at was made by the code, and every verdict on  *)
(* one is right: for every prime order, context, ring, key and draw.         *)
THEOREM MembershipIsJudged == Spec => []MembershipInv
<1>1. Init => MembershipInv
  BY DEF Init, MembershipInv, Proved, Judged, VerifiedMeansSameArguments,
     VerifiedMeansOwnEntry, HonestProofsVerify
<1>2. MembershipInv /\ [Next]_vars => MembershipInv'
  <2> SUFFICES ASSUME MembershipInv, [Next]_vars PROVE MembershipInv'
    OBVIOUS
  <2>1. CASE prove_memmpk \/ prove_DBPoE_memmpk
    BY <2>1, ProveKeeps
  <2>2. CASE verify_memmpk \/ verify_DBPoE_memmpk
    BY <2>2, VerifyKeeps
  <2>3. CASE auth_prove \/ auth_verify \/ DBPoE_auth_prove \/ DBPoE_auth_verify
    BY <2>3, NothingProved DEF MembershipInv
  <2>4. CASE UNCHANGED vars
    <3>1. UNCHANGED <<ctx, made, proof, query, outcome>>
      BY <2>4 DEF vars
    <3>2. Proved' => ProofMade'
      BY <3>1, ProofKept DEF MembershipInv, Proved
    <3>3. Judged'
      BY <3>1 DEF MembershipInv, Judged, VerifiedMeansSameArguments, VerifiedMeansOwnEntry,
         HonestProofsVerify, SameArguments, OwnEntry
    <3> QED
      BY <3>1, <3>2, <3>3 DEF MembershipInv
  <2> QED
    BY <2>1, <2>2, <2>3, <2>4 DEF Next
<1> QED
  BY <1>1, <1>2, PTL DEF Spec

(* A proof for one's own entry is never rejected over the arguments it was   *)
(* made for.                                                                 *)
THEOREM HonestIsVerified == Spec => []HonestProofsVerify
<1>1. MembershipInv => HonestProofsVerify
  BY DEF MembershipInv, Judged
<1> QED
  BY <1>1, MembershipIsJudged, PTL

(* A proof that is accepted was made for the prover's own entry.             *)
THEOREM VerifiedIsOwnEntry == Spec => []VerifiedMeansOwnEntry
<1>1. MembershipInv => VerifiedMeansOwnEntry
  BY DEF MembershipInv, Judged
<1> QED
  BY <1>1, MembershipIsJudged, PTL

(* A proof is accepted over no other ring, for no other message or topic and *)
(* with no other nullifier than those it was made for.                       *)
THEOREM VerifiedIsSameArguments == Spec => []VerifiedMeansSameArguments
<1>1. MembershipInv => VerifiedMeansSameArguments
  BY DEF MembershipInv, Judged
<1> QED
  BY <1>1, MembershipIsJudged, PTL

(* A proof has as many bytes as get_size told the caller to allocate.        *)
THEOREM ProofIsAsLong == Spec => []ProofFillsItsBuffer
<1>1. MembershipInv => ProofFillsItsBuffer
  <2> SUFFICES ASSUME ctx \in Contexts, ProofMade
      PROVE  BytesWritten(proof) = IF ctx.topic_size = 0 THEN zero_mcom_get_size(ctx, made.m)
                                   ELSE zero_mcom_DBPoE_get_size(ctx, made.m)
    BY DEF MembershipInv, ProofFillsItsBuffer
  <2> DEFINE n  == ctx.n
             m  == made.m
             ts == ctx.topic_size
             k  == m * (n - 1)
             e  == IF made.topic = NoTopic THEN ts + 1 ELSE ts
  <2>1. n \in Nat /\ n > 0 /\ m \in Nat /\ ts \in Nat
    BY InputsAssumption DEF ProofMade
  <2>2. PICK r :
          proof = CompleteProof(ctx, cints(made.ring, made.topic, made.nullifier), made.index,
                                vals[made.by], made.topic, made.m, r, made.x)
    BY DEF ProofMade
  <2>3. TopicOf(ctx, made.topic)
    BY ProofAtHand
  <2>4. made.topic = NoTopic <=> ts = 0
    BY <2>1 DEF ProofMade, Topical, Generators, NoTopic
  <2> HIDE DEF m, e
  <2>5. BytesWritten(proof) = 33 * (4 + m) + 32 * (m * (n - 1) + 2 + e)
    BY <2>1, <2>2, <2>3, BytesOf DEF m, e
  <2>6. k \in Int
    BY <2>1
  <2>7. CASE ts = 0
    <3>1. e = 1
      BY <2>4, <2>7 DEF e
    <3>2. zero_mcom_get_size(ctx, m) = 33 * (4 + m) + 32 * (3 + k)
      BY DEF zero_mcom_get_size
    <3> HIDE DEF k
    <3>3. BytesWritten(proof) = 33 * (4 + m) + 32 * (k + 2 + e)
      BY <2>5 DEF k
    <3> QED
      BY <2>1, <2>6, <2>7, <3>1, <3>2, <3>3 DEF m
  <2>8. CASE ts # 0
    <3>1. e = ts
      BY <2>4, <2>8 DEF e
    <3>2. zero_mcom_DBPoE_get_size(ctx, m) = 33 * (4 + m) + 32 * (2 + ts + k)
      BY DEF zero_mcom_DBPoE_get_size
    <3> HIDE DEF k
    <3>3. BytesWritten(proof) = 33 * (4 + m) + 32 * (k + 2 + e)
      BY <2>5 DEF k
    <3> QED
      BY <2>1, <2>6, <2>8, <3>1, <3>2, <3>3 DEF m
  <2> QED
    BY <2>7, <2>8
<1> QED
  BY <1>1, MembershipIsJudged, PTL
=============================================================================
