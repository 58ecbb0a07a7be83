----------------------------- MODULE KeysProofs -----------------------------
(***************************************************************************)
(* Proofs about keys and signatures, for every group of prime order: a     *)
(* secret key and its public key stay a pair; ECDSA signatures verify and  *)
(* give back the key of their signer, over a field of fewer than 2 N       *)
(* elements; signatures of any number of signers verify, where of a point  *)
(* and its negative one has a square y.                                    *)
(***************************************************************************)
EXTENDS KeyPair, Ecdsa, Aggsig, NumberLemmas

-----------------------------------------------------------------------------
(* Scalars and points.                                                       *)

LEMMA Order ==
  ASSUME PrimeOrder
  PROVE  N \in Nat /\ N > 0 /\ N > 2 /\ 0 \in Scalar /\ 0 % N = 0 /\ 1 % N = 1
BY DEF PrimeOrder, Scalar

LEMMA OrderIsPrime ==
  ASSUME PrimeOrder
  PROVE  Prime(N)
BY DEF PrimeOrder, Prime

LEMMA Reduced ==
  ASSUME PrimeOrder, NEW s \in Int
  PROVE  s % N \in Scalar /\ (s \in Scalar => s % N = s)
<1>1. N \in Nat /\ N > 2
  BY Order
<1> QED
  BY <1>1 DEF Scalar

LEMMA PointIsNumber ==
  ASSUME PrimeOrder, NEW key \in Points
  PROVE  key \in Nat /\ key \in Scalar /\ key # 0 /\ key < N /\ key % N = key
<1>1. N \in Nat /\ N > 2
  BY Order
<1> QED
  BY <1>1 DEF Points, Scalar

LEMMA ScalarIsPoint ==
  ASSUME PrimeOrder, NEW s \in Scalar, s # 0
  PROVE  s \in Points
BY Order DEF Scalar, Points

LEMMA Negative ==
  ASSUME PrimeOrder, NEW key \in Points
  PROVE  scalar_negate(key) = N - key /\ scalar_negate(key) \in Points
<1>1. N \in Nat /\ N > 2
  BY Order
<1> QED
  BY <1>1 DEF Points, scalar_negate

LEMMA ProductIsPoint ==
  ASSUME PrimeOrder, NEW s \in Points, NEW t \in Points
  PROVE  (s * t) % N \in Points
<1>1. (s * t) % N # 0
  BY OrderIsPrime, NoZeroDivisors DEF Points
<1>2. s * t \in Int
  BY PointIsNumber
<1> QED
  BY <1>1, <1>2, Reduced, ScalarIsPoint

LEMMA Inverse ==
  ASSUME PrimeOrder, NEW s \in Points
  PROVE  scalar_inverse(s) \in Points /\ (s * scalar_inverse(s)) % N = 1
<1> DEFINE t == CHOOSE u \in Scalar : (s * u) % N = 1
<1>1. \E u \in Scalar : (s * u) % N = 1
  BY OrderIsPrime, InverseExists DEF Points, Scalar
<1>2. t \in Scalar /\ (s * t) % N = 1
  BY <1>1
<1>3. scalar_inverse(s) = t
  BY PointIsNumber DEF scalar_inverse
<1> HIDE DEF t
<1>4. (s * 0) % N = 0
  BY Order, PointIsNumber
<1>5. t # 0
  BY <1>2, <1>4
<1> QED
  BY <1>2, <1>3, <1>5, ScalarIsPoint

LEMMA BytesOfScalar ==
  ASSUME PrimeOrder, NEW s \in Scalar
  PROVE  ~Overflow(s) /\ scalar_set_b32(s) = s
BY Order, Reduced DEF Overflow, scalar_set_b32, Scalar

LEMMA ValidKey ==
  ASSUME PrimeOrder, NEW bytes \in Nat
  PROVE  ec_seckey_verify(bytes) <=> bytes \in Points
<1>1. N \in Nat /\ N > 2
  BY Order
<1> QED
  BY <1>1 DEF ec_seckey_verify, Overflow, scalar_set_b32, Points

LEMMA TheOneIs ==
  ASSUME NEW points, NEW point \in points, \A p \in points : p = point
  PROVE  TheOne(points) = point
BY DEF TheOne

(* A point is found by x and the parity of y.                                *)
LEMMA PointOver ==
  ASSUME Coordinates, NEW point \in Points, NEW odd \in BOOLEAN, odd <=> is_odd(Y[point])
  PROVE  point_set_xo_var(X[point], odd) = point
<1> DEFINE points == {p \in Points : X[p] = X[point] /\ (is_odd(Y[p]) <=> odd)}
<1>1. point \in points
  OBVIOUS
<1>2. \A p \in points : p = point
  BY DEF Coordinates
<1>3. TheOne(points) = point
  BY <1>1, <1>2, TheOneIs
<1> QED
  BY <1>3 DEF point_set_xo_var

-----------------------------------------------------------------------------
(* A secret key and its public key.                                          *)

\* Three kinds of states: before the keys are made, in use, and after a failure.
PairInv ==
  \/ answers = <<>> /\ seckey \in Nat /\ pubkey = 0
  \/ answers = <<TRUE, TRUE>> /\ seckey \in Points /\ pubkey = seckey
  \/ answers = <<FALSE, FALSE>> /\ pubkey = 0 /\ ~ec_seckey_verify(seckey)

\* What the calls for both keys have to give.
Fit(secret, public) ==
  \/ /\ secret.ret = TRUE /\ public.ret = TRUE
     /\ secret.key \in Points /\ public.key = secret.key
  \/ /\ secret.ret = FALSE /\ public.ret = FALSE
     /\ secret.key = 0 /\ public.key = 0

LEMMA FitKeeps ==
  ASSUME PrimeOrder, NEW secret, NEW public, Fit(secret, public), Become(secret, public)
  PROVE  PairInv'
<1>1. ~ec_seckey_verify(0)
  BY Order DEF ec_seckey_verify, scalar_set_b32
<1> QED
  BY <1>1 DEF Fit, Become, PairInv, ec_seckey_verify, Overflow, scalar_set_b32

(* The same answer for both keys, and a point or a failure.                  *)
LEMMA AnswersFit ==
  ASSUME NEW ret \in BOOLEAN, NEW key, ret => key \in Points
  PROVE  Fit(Answer(ret, key), Answer(ret, key))
<1>1. CASE ret = TRUE
  BY <1>1 DEF Fit, Answer
<1>2. CASE ret = FALSE
  BY <1>2 DEF Fit, Answer
<1> QED
  BY <1>1, <1>2

-----------------------------------------------------------------------------
(* One lemma for each change of a key.                                       *)

LEMMA NegateFits ==
  ASSUME PrimeOrder, NEW key \in Points
  PROVE  /\ Fit(ec_privkey_negate(key), ec_pubkey_negate(key))
         /\ Fit(ec_privkey_tweak_neg(key), ec_pubkey_negate(key))
<1> DEFINE other == scalar_negate(key)
<1>1. other \in Points /\ key # 0 /\ ~Overflow(key) /\ scalar_set_b32(key) = key
  BY Negative, PointIsNumber, BytesOfScalar
<1> HIDE DEF other
<1>2. ec_privkey_negate(key) = Answer(TRUE, other)
  BY <1>1 DEF other, ec_privkey_negate
<1>3. ec_pubkey_negate(key) = Answer(TRUE, other)
  BY <1>1 DEF other, ec_pubkey_negate, pubkey_load
<1>4. ec_privkey_tweak_neg(key) = Answer(TRUE, other)
  BY <1>1 DEF other, ec_privkey_tweak_neg
<1> QED
  BY <1>1, <1>2, <1>3, <1>4, AnswersFit

LEMMA TweakAddFits ==
  ASSUME PrimeOrder, NEW key \in Points, NEW tweak \in Nat
  PROVE  Fit(ec_privkey_tweak_add(key, tweak), ec_pubkey_tweak_add(key, tweak))
<1> DEFINE t   == scalar_set_b32(tweak)
           sum == (key + t) % N
           ret == ~Overflow(tweak) /\ sum # 0
<1>1. scalar_set_b32(key) = key /\ key \in Nat /\ key # 0 /\ t \in Scalar
  BY PointIsNumber, BytesOfScalar, Reduced DEF scalar_set_b32
<1> HIDE DEF t
<1>2. sum \in Scalar
  BY <1>1, Order, Reduced DEF Scalar
<1>3. ec_privkey_tweak_add(key, tweak) = Answer(ret, sum)
  BY <1>1 DEF t, ec_privkey_tweak_add
<1>4. ec_pubkey_tweak_add(key, tweak) = Answer(ret, sum)
  <2>1. (~Overflow(tweak) /\ pubkey_load(key) /\ sum # 0) = ret
    BY <1>1 DEF pubkey_load
  <2> QED
    BY <2>1 DEF t, ec_pubkey_tweak_add
<1>5. ret => sum \in Points
  BY <1>2, ScalarIsPoint
<1>6. ret \in BOOLEAN
  OBVIOUS
<1> HIDE DEF sum, ret
<1> QED
  BY <1>3, <1>4, <1>5, <1>6, AnswersFit

LEMMA TweakMulFits ==
  ASSUME PrimeOrder, NEW key \in Points, NEW tweak \in Nat
  PROVE  Fit(ec_privkey_tweak_mul(key, tweak), ec_pubkey_tweak_mul(key, tweak))
<1> DEFINE t       == scalar_set_b32(tweak)
           product == (key * t) % N
           ret     == ~Overflow(tweak) /\ t # 0
<1>1. scalar_set_b32(key) = key /\ key # 0 /\ t \in Scalar
  BY PointIsNumber, BytesOfScalar, Reduced DEF scalar_set_b32
<1> HIDE DEF t
<1>2. ec_privkey_tweak_mul(key, tweak) = Answer(ret, product)
  BY <1>1 DEF t, ec_privkey_tweak_mul
<1>3. ec_pubkey_tweak_mul(key, tweak) = Answer(ret, product)
  <2>1. (~Overflow(tweak) /\ pubkey_load(key) /\ t # 0) = ret
    BY <1>1 DEF pubkey_load
  <2> QED
    BY <2>1 DEF t, ec_pubkey_tweak_mul
<1>4. ret => product \in Points
  BY <1>1, ScalarIsPoint, ProductIsPoint
<1>5. ret \in BOOLEAN
  OBVIOUS
<1> HIDE DEF product, ret
<1> QED
  BY <1>2, <1>3, <1>4, <1>5, AnswersFit

LEMMA InvertFits ==
  ASSUME PrimeOrder, NEW key \in Points
  PROVE  Fit(ec_privkey_tweak_inv(key), ec_pubkey_create(ec_privkey_tweak_inv(key).key))
<1> DEFINE inverse == scalar_inverse(key)
<1>1. scalar_set_b32(key) = key /\ ~Overflow(key)
  BY PointIsNumber, BytesOfScalar
<1>2. inverse \in Points
  BY Inverse
<1>3. ec_privkey_tweak_inv(key) = [ret |-> TRUE, key |-> inverse]
  BY <1>1 DEF ec_privkey_tweak_inv, Answer
<1> HIDE DEF inverse
<1>4. scalar_set_b32(inverse) = inverse /\ ~Overflow(inverse) /\ inverse # 0
  BY <1>2, PointIsNumber, BytesOfScalar
<1>5. ec_pubkey_create(inverse) = [ret |-> TRUE, key |-> inverse]
  BY <1>4 DEF ec_pubkey_create, Answer
<1> QED
  BY <1>2, <1>3, <1>5 DEF Fit

(* The sum of three keys, as the loop adds them.                             *)
LEMMA SumOfThree ==
  ASSUME NEW a, NEW b, NEW c
  PROVE  SumOf(<<a, b, c>>) = (((((0 + a) % N) + b) % N) + c) % N
<1> DEFINE terms == <<a, b, c>>
           s1 == (0 + a) % N
           s2 == (s1 + b) % N
           s3 == (s2 + c) % N
           Turn(f, i) == IF i = 0 THEN 0 ELSE (f[i - 1] + terms[i]) % N
           Is(f) == f = [i \in 0 .. 3 |-> Turn(f, i)]
           sums  == [i \in 0 .. 3 |-> IF i = 0 THEN 0 ELSE IF i = 1 THEN s1 ELSE IF i = 2 THEN s2 ELSE s3]
           sum   == CHOOSE f : Is(f)
<1>1. Len(terms) = 3
  OBVIOUS
<1>2. Is(sums)
  <2>1. ASSUME NEW i \in 0 .. 3 PROVE sums[i] = Turn(sums, i)
    <3> i = 0 \/ i = 1 \/ i = 2 \/ i = 3
      OBVIOUS
    <3> QED
      OBVIOUS
  <2> QED
    BY <2>1
<1>3. Is(sum)
  BY <1>2
<1> HIDE DEF sum
<1>4. sum[0] = 0 /\ sum[1] = s1 /\ sum[2] = s2 /\ sum[3] = s3
  <2>1. \A i \in 0 .. 3 : sum[i] = Turn(sum, i)
    BY <1>3
  <2> QED
    BY <2>1
<1>5. SumOf(terms) = sum[3]
  BY <1>1 DEF SumOf, sum
<1> QED
  BY <1>4, <1>5

LEMMA CombineFits ==
  ASSUME PrimeOrder, NEW key \in Points, NEW one \in Points, NEW other \in Points
  PROVE  Fit(ec_privkey_tweak_add(key, (one + other) % N), ec_pubkey_combine(<<one, key, other>>))
<1> DEFINE t   == (one + other) % N
           sum == (key + t) % N
           ret == sum # 0
<1>1. N \in Nat /\ N > 0 /\ key \in Nat /\ one \in Nat /\ other \in Nat /\ scalar_set_b32(key) = key
  BY Order, PointIsNumber, BytesOfScalar
<1>2. /\ t \in Scalar /\ scalar_set_b32(t) = t /\ ~Overflow(t)
      /\ one + other \in Int /\ one + key \in Int
  BY <1>1, Reduced, BytesOfScalar
<1>3. sum \in Scalar
  BY <1>1, <1>2, Reduced DEF Scalar
<1>4. SumOf(<<one, key, other>>) = sum
  <2>1. SumOf(<<one, key, other>>) = (((((0 + one) % N) + key) % N) + other) % N
    BY SumOfThree
  <2>2. (((0 + one) % N) + key) % N = (one + key) % N
    BY <1>1, PointIsNumber
  <2>3. (((one + key) % N) + other) % N = ((one + key) + other) % N
    <3> DEFINE both == one + key
    <3>1. both \in Int /\ other \in Int /\ N \in Nat /\ N > 0
      BY <1>1, <1>2
    <3> HIDE DEF both
    <3>2. ((both % N) + other) % N = (both + other) % N
      BY <3>1, SumReduced, Zenon
    <3> QED
      BY <3>2 DEF both
  <2>4. (t + key) % N = ((one + other) + key) % N
    <3> DEFINE both == one + other
    <3>1. both \in Int /\ key \in Int /\ N \in Nat /\ N > 0
      BY <1>1, <1>2
    <3> HIDE DEF both
    <3>2. ((both % N) + key) % N = (both + key) % N
      BY <3>1, SumReduced, Zenon
    <3> QED
      BY <3>2 DEF both
  <2>5. sum = (t + key) % N
    BY <1>1, <1>2 DEF Scalar
  <2>6. (one + other) + key = (one + key) + other
    BY <1>1
  <2> HIDE DEF sum, t
  <2> QED
    BY <2>1, <2>2, <2>3, <2>4, <2>5, <2>6
<1> HIDE DEF t
<1>5. ec_privkey_tweak_add(key, t) = Answer(ret, sum)
  <2>1. (~Overflow(t) /\ sum # 0) = ret
    BY <1>2
  <2> QED
    BY <1>1, <1>2, <2>1 DEF ec_privkey_tweak_add
<1>6. ec_pubkey_combine(<<one, key, other>>) = Answer(ret, sum)
  BY <1>4 DEF ec_pubkey_combine
<1>7. ret => sum \in Points
  BY <1>3, ScalarIsPoint
<1>8. ret \in BOOLEAN
  OBVIOUS
<1> HIDE DEF sum, ret
<1>9. Fit(ec_privkey_tweak_add(key, t), ec_pubkey_combine(<<one, key, other>>))
  BY <1>5, <1>6, <1>7, <1>8, AnswersFit
<1> QED
  BY <1>9 DEF t

(* Bytes of a public key are read as the key.                                *)
LEMMA SendFits ==
  ASSUME PrimeOrder, Coordinates, NEW key \in Points, NEW input,
         \/ input = eckey_pubkey_serialize(key, TRUE)
         \/ input = eckey_pubkey_serialize(key, FALSE)
         \/ input = [eckey_pubkey_serialize(key, FALSE)
                       EXCEPT !.prefix = 6 + IF is_odd(Y[key]) THEN 1 ELSE 0]
  PROVE  Fit([ret |-> TRUE, key |-> key], ec_pubkey_parse(input))
<1>1. CASE input = eckey_pubkey_serialize(key, TRUE)
  <2>1. /\ input.size = 33 /\ input.prefix \in {2, 3} /\ input.x = X[key]
        /\ input.prefix = 3 <=> is_odd(Y[key])
    BY <1>1 DEF eckey_pubkey_serialize
  <2>2. point_set_xo_var(input.x, input.prefix = 3) = key
    BY <2>1, PointOver
  <2>3. eckey_pubkey_parse(input) = key
    BY <2>1, <2>2 DEF eckey_pubkey_parse
  <2> QED
    BY <2>3, PointIsNumber DEF ec_pubkey_parse, Answer, Fit
<1>2. CASE input # eckey_pubkey_serialize(key, TRUE)
  <2> DEFINE points ==
        {p \in Points : /\ X[p] = input.x /\ Y[p] = input.y
                        /\ input.prefix # 4 => (is_odd(input.y) <=> input.prefix = 7)}
  <2>1. /\ input.size = 65 /\ input.prefix \in {4, 6, 7} /\ input.x = X[key] /\ input.y = Y[key]
        /\ input.prefix # 4 => (is_odd(Y[key]) <=> input.prefix = 7)
    BY <1>2 DEF eckey_pubkey_serialize
  <2>2. key \in points /\ \A p \in points : p = key
    BY <2>1 DEF Coordinates
  <2>3. TheOne(points) = key
    BY <2>2, TheOneIs
  <2>4. eckey_pubkey_parse(input) = key
    BY <2>1, <2>3 DEF eckey_pubkey_parse
  <2> QED
    BY <2>4, PointIsNumber DEF ec_pubkey_parse, Answer, Fit
<1> QED
  BY <1>1, <1>2

-----------------------------------------------------------------------------
LEMMA CreateKeeps ==
  ASSUME PrimeOrder, PairInv, Create
  PROVE  PairInv'
<1>1. answers = <<>> /\ seckey \in Nat /\ seckey' = seckey
  BY DEF PairInv, Create
<1>2. CASE ec_seckey_verify(seckey)
  <2>1. seckey \in Points /\ scalar_set_b32(seckey) = seckey
    BY <1>1, <1>2, ValidKey, PointIsNumber, BytesOfScalar
  <2>2. answers' = <<TRUE, TRUE>> /\ pubkey' = seckey
    BY <1>2, <2>1 DEF Create, ec_pubkey_create, ec_seckey_verify, Answer
  <2> QED
    BY <1>1, <2>1, <2>2 DEF PairInv
<1>3. CASE ~ec_seckey_verify(seckey)
  <2>1. answers' = <<FALSE, FALSE>> /\ pubkey' = 0
    BY <1>3 DEF Create, ec_pubkey_create, ec_seckey_verify, Answer
  <2> QED
    BY <1>1, <1>3, <2>1 DEF PairInv, ec_seckey_verify
<1> QED
  BY <1>2, <1>3

LEMMA InUseKeys ==
  ASSUME PairInv, InUse
  PROVE  seckey \in Points /\ pubkey = seckey
BY DEF PairInv, InUse

LEMMA PairKept ==
  ASSUME PrimeOrder, Coordinates, Bytes \subseteq Nat, PairInv, [PairNext]_pairVars
  PROVE  PairInv'
<1>1. CASE Create
  BY <1>1, CreateKeeps
<1>2. CASE Negate
  BY <1>2, InUseKeys, NegateFits, FitKeeps DEF Negate
<1>3. CASE TweakAdd
  BY <1>3, InUseKeys, TweakAddFits, FitKeeps DEF TweakAdd
<1>4. CASE TweakMul
  BY <1>4, InUseKeys, TweakMulFits, FitKeeps DEF TweakMul
<1>5. CASE Invert
  BY <1>5, InUseKeys, InvertFits, FitKeeps DEF Invert
<1>6. CASE Combine
  BY <1>6, InUseKeys, CombineFits, FitKeeps DEF Combine
<1>7. CASE Send
  BY <1>7, InUseKeys, SendFits, FitKeeps DEF Send
<1>8. CASE UNCHANGED pairVars
  BY <1>8 DEF PairInv, pairVars, ec_seckey_verify
<1> QED
  BY <1>1, <1>2, <1>3, <1>4, <1>5, <1>6, <1>7, <1>8 DEF PairNext

\* KeysArePaired: whatever sequence of calls changes a secret key and its public key,
\* in any group of prime order, both calls succeed or both fail, and the keys belong
\* together until one fails.
THEOREM KeysArePaired ==
  ASSUME PrimeOrder, Coordinates, Bytes \subseteq Nat
  PROVE  PairInit /\ [][PairNext]_pairVars => []KeysStayAPair
<1>1. PairInit => PairInv
  BY DEF PairInit, PairInv
<1>2. PairInv /\ [PairNext]_pairVars => PairInv'
  BY PairKept
<1>3. PairInv => KeysStayAPair
  <2>1. CASE answers = <<>>
    BY <2>1 DEF KeysStayAPair
  <2>2. CASE answers = <<TRUE, TRUE>> /\ seckey \in Points /\ pubkey = seckey
    BY <2>2 DEF KeysStayAPair
  <2>3. CASE answers = <<FALSE, FALSE>> /\ pubkey = 0 /\ ~ec_seckey_verify(seckey)
    BY <2>3 DEF KeysStayAPair
  <2> QED
    BY <2>1, <2>2, <2>3 DEF PairInv
<1> QED
  BY <1>1, <1>2, <1>3, PTL

-----------------------------------------------------------------------------
(* Signatures.                                                               *)

\* The nonces for which r is zero.
XIsOrder(bytes) == scalar_set_b32(bytes) \in Points /\ X[scalar_set_b32(bytes)] = N

\* Bytes are numbers, and a nonce function draws a sequence of them, no such nonces.
Inputs ==
  /\ Secrets \subseteq Nat /\ Messages \subseteq Nat
  /\ \A draws \in Draws : draws \in Seq(Nat) /\ \A i \in DOMAIN draws : ~XIsOrder(draws[i])

-----------------------------------------------------------------------------
(* Equations modulo N.                                                       *)

(* s k = a for s = a / k.                                                    *)
LEMMA Quotient ==
  ASSUME PrimeOrder, NEW k \in Points, NEW a \in Int
  PROVE  (((scalar_inverse(k) * a) % N) * k) % N = a % N
<1> DEFINE i == scalar_inverse(k)
<1>1. i \in Int /\ k \in Int /\ (k * i) % N = 1 /\ N \in Nat /\ N > 0
  BY Order, Inverse, PointIsNumber
<1> HIDE DEF i
<1>2. i * a \in Int /\ k * i \in Int /\ (i * a) * k = (k * i) * a
  BY <1>1
<1>3. (((i * a) % N) * k) % N = ((i * a) * k) % N
  BY <1>1, <1>2, ProductReduced, Zenon
<1>4. (((k * i) % N) * a) % N = ((k * i) * a) % N
  BY <1>1, <1>2, ProductReduced, Zenon
<1>5. ((k * i) % N) * a = a
  BY <1>1
<1> QED
  BY <1>2, <1>3, <1>4, <1>5 DEF i

(* a / s = q when s q = a.                                                   *)
LEMMA Divided ==
  ASSUME PrimeOrder, NEW s \in Points, NEW q \in Points, NEW a \in Int, (s * q) % N = a % N
  PROVE  (scalar_inverse(s) * a) % N = q
<1> DEFINE i == scalar_inverse(s)
<1>1. i \in Int /\ s \in Int /\ q \in Int /\ (s * i) % N = 1 /\ N \in Nat /\ N > 0 /\ q % N = q
  BY Order, Inverse, PointIsNumber
<1> HIDE DEF i
<1>2. s * q \in Int /\ s * i \in Int /\ (s * q) * i = (s * i) * q
  BY <1>1
<1>3. ((a % N) * i) % N = (a * i) % N
  BY <1>1, ProductReduced, Zenon
<1>4. (((s * q) % N) * i) % N = ((s * q) * i) % N
  BY <1>1, <1>2, ProductReduced, Zenon
<1>5. (((s * i) % N) * q) % N = ((s * i) * q) % N
  BY <1>1, <1>2, ProductReduced, Zenon
<1>6. ((s * i) % N) * q = q
  BY <1>1
<1>7. a * i = i * a
  BY <1>1
<1>8. (i * a) % N = q
  BY <1>1, <1>2, <1>3, <1>4, <1>5, <1>6, <1>7
<1> QED
  BY <1>8 DEF i

(* (-s)(-q) = s q.                                                           *)
LEMMA BothNegative ==
  ASSUME PrimeOrder, NEW s \in Points, NEW q \in Points
  PROVE  ((N - s) * (N - q)) % N = (s * q) % N
<1>1. s \in Int /\ q \in Int /\ N \in Nat /\ N > 0
  BY Order, PointIsNumber
<1> DEFINE x == (N - s) * (N - q)
           y == s * q
           k == N - s - q
<1>2. x \in Int /\ y \in Int /\ k \in Int /\ x = y + N * k
  BY <1>1
<1> HIDE DEF x, y, k
<1>3. x % N = y % N
  BY <1>1, <1>2, Congruent, Zenon
<1> QED
  BY <1>3 DEF x, y

(* The key from the point q: (s q - m) / r, when s q = m + r key.            *)
LEMMA Recovered ==
  ASSUME PrimeOrder, NEW r \in Points, NEW s \in Points, NEW q \in Points, NEW key \in Points,
         NEW m \in Int, (s * q) % N = (m + r * key) % N
  PROVE  ((scalar_inverse(r) * s) * q - scalar_inverse(r) * m) % N = key
<1> DEFINE i == scalar_inverse(r)
           a == s * q - m
<1>1. i \in Int /\ r \in Int /\ s \in Int /\ q \in Int /\ key \in Int /\ N \in Nat /\ N > 0
  BY Order, Inverse, PointIsNumber
<1>2. (i * s) * q - i * m = i * a
  BY <1>1
<1>3. (r * key) % N = a % N
  <2> DEFINE rk == r * key
             sq == s * q
  <2>1. sq \in Int /\ rk \in Int /\ m + rk \in Int
    BY <1>1
  <2>2. sq % N = (m + rk) % N
    OBVIOUS
  <2>3. a = sq - m
    OBVIOUS
  <2> HIDE DEF a, rk, sq
  <2>4. PICK k \in Int : sq = (m + rk) + N * k
    <3> DEFINE b == m + rk
    <3>1. N \in Nat /\ N > 0 /\ sq \in Int /\ b \in Int /\ sq % N = b % N
      BY <1>1, <2>1, <2>2
    <3> HIDE DEF b
    <3>2. \E k \in Int : sq = b + N * k
      BY <3>1, Congruent
    <3> QED
      BY <3>2 DEF b
  <2>5. a = rk + N * k /\ a \in Int
    BY <1>1, <2>1, <2>3, <2>4
  <2>6. a % N = rk % N
    BY <1>1, <2>1, <2>5, Congruent, Zenon
  <2> QED
    BY <2>6 DEF rk
<1>4. a \in Int
  BY <1>1
<1> HIDE DEF a
<1>5. (i * a) % N = key
  BY <1>3, <1>4, Divided
<1> HIDE DEF i
<1> QED
  BY <1>2, <1>5 DEF i

-----------------------------------------------------------------------------
(* Signatures.  One that was made belongs to a point q: its nonce or the     *)
(* negative of that.                                                         *)

RecidOf(q) == (IF Overflow(X[q]) THEN 2 ELSE 0) + (IF is_odd(Y[q]) THEN 1 ELSE 0)

Belongs(signature, q, key, m) ==
  /\ q \in Points /\ X[q] # N /\ signature.s \in Points
  /\ signature = [r |-> X[q] % N, s |-> signature.s, recid |-> RecidOf(q)]
  /\ (signature.s * q) % N = (m + (X[q] % N) * key) % N

(* r is the x of a point, or what is left of it above N.                     *)
LEMMA Abscissa ==
  ASSUME PrimeOrder, Negatives, NEW q \in Points, X[q] # N
  PROVE  /\ X[q] % N \in Points
         /\ Overflow(X[q]) => X[q] = (X[q] % N) + N /\ X[q] % N < FieldSize - N
         /\ ~Overflow(X[q]) => X[q] = X[q] % N
<1>1. N \in Nat /\ N > 2 /\ FieldSize \in Nat /\ FieldSize < 2 * N
  BY Order DEF Negatives
<1>2. X[q] \in 1 .. FieldSize - 1 /\ X[q] # N
  BY DEF Negatives
<1> DEFINE x == X[q]
<1> HIDE DEF x
<1>3. x \in 1 .. FieldSize - 1 /\ x # N
  BY <1>2 DEF x
<1>4. x < N => x % N = x
  BY <1>1, <1>3
<1>5. x >= N => x % N = x - N
  BY <1>1, <1>3
<1> QED
  BY <1>1, <1>3, <1>4, <1>5 DEF x, Overflow, Points

LEMMA NegativePoint ==
  ASSUME PrimeOrder, Negatives, NEW q \in Points
  PROVE  N - q \in Points /\ X[N - q] = X[q] /\ (is_odd(Y[N - q]) <=> ~is_odd(Y[q]))
<1>1. N - q \in Points
  BY Negative
<1> DEFINE y == Y[q]
<1>2. X[N - q] = X[q] /\ Y[N - q] = FieldSize - y /\ y \in 1 .. FieldSize - 1 /\ FieldSize \in Nat /\ FieldSize % 2 = 1
  BY DEF Negatives
<1> HIDE DEF y
<1>3. (FieldSize - y) % 2 = 1 <=> ~(y % 2 = 1)
  BY <1>2
<1> QED
  BY <1>1, <1>2, <1>3 DEF is_odd, y

(* The other form of a signature belongs to the other point.                 *)
LEMMA OtherForm ==
  ASSUME PrimeOrder, Negatives, NEW signature, NEW q, NEW key \in Points, NEW m \in Scalar,
         Belongs(signature, q, key, m),
         NEW other, other = [r |-> signature.r, s |-> N - signature.s, recid |-> other.recid],
         other.recid = IF signature.recid % 2 = 1 THEN signature.recid - 1 ELSE signature.recid + 1
  PROVE  Belongs(other, N - q, key, m)
<1>1. q \in Points /\ X[q] # N /\ signature.s \in Points /\ N - signature.s \in Points
  BY Negative DEF Belongs
<1>2. N - q \in Points /\ X[N - q] = X[q] /\ (is_odd(Y[N - q]) <=> ~is_odd(Y[q]))
  BY <1>1, NegativePoint
<1>3. ((N - signature.s) * (N - q)) % N = (signature.s * q) % N
  BY <1>1, BothNegative
<1>4. other.recid = RecidOf(N - q)
  BY <1>2 DEF Belongs, RecidOf
<1> QED
  BY <1>1, <1>2, <1>3, <1>4 DEF Belongs

-----------------------------------------------------------------------------
(* Making a signature.                                                       *)

\* What a signature is made from, before its s is made low.
First(key, m, nonce) ==
  [r |-> X[nonce] % N,
   s |-> (scalar_inverse(nonce) * ((X[nonce] % N) * key + m)) % N,
   recid |-> RecidOf(nonce)]

LEMMA FirstBelongs ==
  ASSUME PrimeOrder, Negatives, NEW key \in Points, NEW m \in Scalar, NEW nonce \in Points,
         X[nonce] # N, First(key, m, nonce).s # 0
  PROVE  Belongs(First(key, m, nonce), nonce, key, m)
<1> DEFINE r == X[nonce] % N
           a == r * key + m
           s == (scalar_inverse(nonce) * a) % N
<1>1. r \in Int /\ key \in Int /\ m \in Int /\ a \in Int /\ a = m + r * key
  <2>1. r \in Int /\ key \in Int /\ m \in Int
    BY Abscissa, PointIsNumber DEF Scalar
  <2> HIDE DEF r
  <2> QED
    BY <2>1
<1>2. scalar_inverse(nonce) * a \in Int /\ s # 0
  <2>1. s # 0
    BY DEF First
  <2>2. scalar_inverse(nonce) \in Int
    BY Inverse, PointIsNumber
  <2> HIDE DEF a, s
  <2> QED
    BY <1>1, <2>1, <2>2
<1>3. s \in Points
  BY <1>2, Reduced, ScalarIsPoint
<1>4. (s * nonce) % N = (m + r * key) % N
  <2> HIDE DEF a
  <2>1. (((scalar_inverse(nonce) * a) % N) * nonce) % N = a % N
    BY <1>1, Quotient, Zenon
  <2> QED
    BY <1>1, <2>1
<1>5. First(key, m, nonce) = [r |-> r, s |-> s, recid |-> RecidOf(nonce)]
  BY DEF First
<1> HIDE DEF r, s, a
<1>6. First(key, m, nonce).s = s
  BY <1>5
<1> QED
  BY <1>3, <1>4, <1>5, <1>6 DEF Belongs, r

LEMMA SignBelongs ==
  ASSUME PrimeOrder, Negatives, NEW key \in Points, NEW m \in Scalar, NEW nonce \in Points,
         X[nonce] # N, ecdsa_sig_sign(key, m, nonce) # NoSig
  PROVE  \E q : Belongs(ecdsa_sig_sign(key, m, nonce), q, key, m)
<1> DEFINE first == First(key, m, nonce)
           over  == Overflow(X[nonce])
           odd   == is_odd(Y[nonce])
           high  == scalar_is_high(first.s)
           low   == IF high THEN scalar_negate(first.s) ELSE first.s
           made_ == ecdsa_sig_sign(key, m, nonce)
           Recid(b) == (IF over THEN 2 ELSE 0) + (IF b THEN 1 ELSE 0)
<1>1. /\ first.r = X[nonce] % N
      /\ first.s = (scalar_inverse(nonce) * ((X[nonce] % N) * key + m)) % N
      /\ first.recid = Recid(odd)
  BY DEF First, RecidOf
<1>2. /\ first.s # 0
      /\ made_ = [r |-> first.r, s |-> low, recid |-> Recid(odd # high)]
  BY <1>1 DEF ecdsa_sig_sign, scalar_set_b32
<1>3. Belongs(first, nonce, key, m)
  BY <1>2, FirstBelongs
<1>4. first.s \in Points /\ first = [r |-> first.r, s |-> first.s, recid |-> first.recid]
  BY <1>3 DEF Belongs
<1>5. over \in BOOLEAN /\ odd \in BOOLEAN /\ high \in BOOLEAN
  BY DEF Overflow, is_odd, scalar_is_high
<1> HIDE DEF first, over, odd, high, made_
<1>6. CASE ~high
  <2>1. Recid(odd # high) = Recid(odd)
    BY <1>5, <1>6
  <2>2. low = first.s
    BY <1>6
  <2> HIDE DEF Recid, low
  <2>3. made_ = first
    BY <1>1, <1>2, <1>4, <2>1, <2>2
  <2> QED
    BY <1>3, <2>3 DEF made_
<1>7. CASE high
  <2>1. /\ Recid(odd # high) = Recid(~odd)
        /\ Recid(~odd) = IF Recid(odd) % 2 = 1 THEN Recid(odd) - 1 ELSE Recid(odd) + 1
    <3>1. (odd # high) = ~odd
      BY <1>5, <1>7
    <3>2. CASE odd
      <4>1. Recid(odd) = (IF over THEN 2 ELSE 0) + 1 /\ Recid(~odd) = (IF over THEN 2 ELSE 0) + 0
        BY <3>2
      <4> QED
        BY <1>5, <3>1, <4>1
    <3>3. CASE ~odd
      <4>1. Recid(odd) = (IF over THEN 2 ELSE 0) + 0 /\ Recid(~odd) = (IF over THEN 2 ELSE 0) + 1
        BY <3>3
      <4> QED
        BY <1>5, <3>1, <4>1
    <3> QED
      BY <3>2, <3>3
  <2>2. made_ = [r |-> first.r, s |-> N - first.s, recid |-> Recid(odd # high)]
    BY <1>2, <1>4, <1>7, Negative
  <2> HIDE DEF Recid
  <2>3. /\ made_ = [r |-> first.r, s |-> N - first.s, recid |-> made_.recid]
        /\ made_.recid = IF first.recid % 2 = 1 THEN first.recid - 1 ELSE first.recid + 1
    BY <1>1, <2>1, <2>2
  <2>4. nonce \in Points
    OBVIOUS
  <2>5. Belongs(made_, N - nonce, key, m)
    BY <1>3, <2>3, OtherForm
  <2> QED
    BY <2>5 DEF made_
<1> QED
  BY <1>6, <1>7

-----------------------------------------------------------------------------
(* Using a signature.                                                        *)

LEMMA OneIsLow ==
  ASSUME PrimeOrder, NEW s \in Points
  PROVE  scalar_is_high(N - s) <=> ~scalar_is_high(s)
<1>1. N \in Nat /\ N > 2 /\ N % 2 = 1
  BY DEF PrimeOrder
<1> QED
  BY <1>1 DEF Points, scalar_is_high

LEMMA BelongsVerifies ==
  ASSUME PrimeOrder, Negatives, NEW signature, NEW q, NEW key \in Points, NEW m \in Scalar,
         Belongs(signature, q, key, m)
  PROVE  ecdsa_sig_verify(signature.r, signature.s, key, m)
<1> DEFINE r == signature.r
           s == signature.s
           a == m + r * key
<1>1. q \in Points /\ X[q] # N /\ s \in Points /\ r = X[q] % N /\ (s * q) % N = a % N
  BY DEF Belongs
<1>2. r \in Points /\ r # 0 /\ s # 0 /\ q # 0
  BY <1>1, Abscissa, PointIsNumber
<1>3. a \in Int
  BY <1>2, PointIsNumber DEF Scalar
<1>4. X[q] = r \/ (r < FieldSize - N /\ X[q] = r + N)
  BY <1>1, Abscissa
<1>5. (scalar_inverse(s) * a) % N = q
  <2> HIDE DEF r, s, a
  <2> QED
    BY <1>1, <1>3, Divided
<1> QED
  BY <1>2, <1>4, <1>5 DEF ecdsa_sig_verify

LEMMA BelongsRecovers ==
  ASSUME PrimeOrder, Coordinates, Negatives, NEW signature, NEW q, NEW key \in Points,
         NEW m \in Scalar, Belongs(signature, q, key, m)
  PROVE  ecdsa_sig_recover(signature.r, signature.s, m, signature.recid) = key
<1> DEFINE r     == signature.r
           s     == signature.s
           recid == signature.recid
           over  == recid \in {2, 3}
           x     == IF over THEN r + N ELSE r
           odd   == recid % 2 = 1
<1>1. /\ q \in Points /\ X[q] # N /\ s \in Points /\ r = X[q] % N /\ recid = RecidOf(q)
      /\ (s * q) % N = (m + r * key) % N
  BY DEF Belongs
<1>2. r \in Points /\ r # 0 /\ s # 0 /\ q # 0
  BY <1>1, Abscissa, PointIsNumber
<1>3. over <=> Overflow(X[q])
  BY <1>1 DEF RecidOf
<1>4. odd \in BOOLEAN /\ (odd <=> is_odd(Y[q]))
  BY <1>1 DEF RecidOf
<1>5. x = X[q] /\ (over => ~(r >= FieldSize - N))
  <2>1. N \in Nat /\ FieldSize \in Nat /\ r \in Nat
    BY <1>2, Order, PointIsNumber DEF Negatives
  <2>2. /\ Overflow(X[q]) => X[q] = r + N /\ r < FieldSize - N
        /\ ~Overflow(X[q]) => X[q] = r
    BY <1>1, Abscissa
  <2> HIDE DEF over, r
  <2> QED
    BY <1>3, <2>1, <2>2
<1>6. point_set_xo_var(x, odd) = q
  <2> HIDE DEF x, odd
  <2> QED
    BY <1>1, <1>4, <1>5, PointOver
<1>7. ((scalar_inverse(r) * s) * q - scalar_inverse(r) * m) % N = key
  <2>1. m \in Int
    BY Order DEF Scalar
  <2> HIDE DEF r, s
  <2> QED
    BY <1>1, <1>2, <2>1, Recovered
<1> QED
  BY <1>2, <1>5, <1>6, <1>7 DEF ecdsa_sig_recover

(* All that SignaturesVerify says of a signature.                            *)
LEMMA BelongsIsUseful ==
  ASSUME PrimeOrder, Coordinates, Negatives, NEW signature, NEW q, NEW key \in Points,
         NEW msg \in Nat, Belongs(signature, q, key, scalar_set_b32(msg))
  PROVE  LET normalized == ecdsa_signature_normalize(signature)
         IN /\ ecdsa_verify(normalized, msg, key)
            /\ ecdsa_verify(signature, msg, key) <=> normalized = signature
            /\ ecdsa_recover(signature, msg) = [ret |-> TRUE, key |-> key]
<1> DEFINE m == scalar_set_b32(msg)
           s == signature.s
           normalized == ecdsa_signature_normalize(signature)
           other == [r |-> signature.r, s |-> N - s,
                     recid |-> IF signature.recid % 2 = 1 THEN signature.recid - 1
                               ELSE signature.recid + 1]
<1>1. m \in Scalar /\ pubkey_load(key) /\ s \in Points /\ key # 0
  BY Reduced, PointIsNumber DEF scalar_set_b32, pubkey_load, Belongs
<1>2. ecdsa_sig_verify(signature.r, s, key, m)
  <2> HIDE DEF m
  <2> QED
    BY <1>1, BelongsVerifies DEF m
<1>3. ecdsa_recover(signature, msg) = [ret |-> TRUE, key |-> key]
  <2>1. ecdsa_sig_recover(signature.r, signature.s, m, signature.recid) = key
    <3> HIDE DEF m
    <3> QED
      BY <1>1, BelongsRecovers DEF m
  <2> QED
    BY <1>1, <2>1 DEF ecdsa_recover, Answer
<1>4. CASE ~scalar_is_high(s)
  <2>1. normalized = signature
    BY <1>4 DEF ecdsa_signature_normalize
  <2>2. ecdsa_verify(signature, msg, key)
    BY <1>1, <1>2, <1>4 DEF ecdsa_verify
  <2> QED
    BY <1>3, <2>1, <2>2
<1>5. CASE scalar_is_high(s)
  <2>1. normalized = [signature EXCEPT !.s = N - s] /\ ~scalar_is_high(N - s)
    BY <1>1, <1>5, Negative, OneIsLow DEF ecdsa_signature_normalize
  <2>2. Belongs(other, N - q, key, m)
    <3>1. /\ other = [r |-> signature.r, s |-> N - signature.s, recid |-> other.recid]
          /\ other.recid = IF signature.recid % 2 = 1 THEN signature.recid - 1
                           ELSE signature.recid + 1
      OBVIOUS
    <3>2. q \in Points
      BY DEF Belongs
    <3> HIDE DEF other, m
    <3> QED
      BY <1>1, <3>1, <3>2, OtherForm DEF m
  <2>3. ecdsa_sig_verify(other.r, other.s, key, m)
    <3> HIDE DEF other, m
    <3> QED
      BY <1>1, <2>2, BelongsVerifies
  <2>4. normalized.r = signature.r /\ normalized.s = N - s
    BY <2>1 DEF Belongs
  <2>5. ecdsa_verify(normalized, msg, key)
    BY <1>1, <2>1, <2>3, <2>4 DEF ecdsa_verify
  <2>6. ~ecdsa_verify(signature, msg, key)
    BY <1>5 DEF ecdsa_verify
  <2>7. normalized # signature
    BY <1>5, <2>1, <2>4
  <2> QED
    BY <1>3, <2>5, <2>6, <2>7
<1> QED
  BY <1>4, <1>5

-----------------------------------------------------------------------------
\* A signature that was made belongs to a point; nothing is kept of another one.
EcdsaInv ==
  \/ made = FALSE /\ sig = NoSig
  \/ /\ made = TRUE /\ signed # <<>>
     /\ signed[1] \in Points /\ signed[2] \in Nat
     /\ \E q : Belongs(sig, q, signed[1], scalar_set_b32(signed[2]))

LEMMA SignKeeps ==
  ASSUME PrimeOrder, Negatives, Inputs, Sign
  PROVE  EcdsaInv'
<1>1. PICK secret \in Secrets, msg \in Messages, draws \in Draws :
        /\ sig' = ecdsa_sign(secret, msg, draws).sig
        /\ made' = ecdsa_sign(secret, msg, draws).ret
        /\ signed' = <<secret, msg>>
  BY DEF Sign, ecdsa_sign_recoverable
<1> DEFINE m    == scalar_set_b32(msg)
           Signature(i) == ecdsa_sig_sign(scalar_set_b32(secret), m, scalar_set_b32(draws[i]))
           Good(i) == ~Overflow(draws[i]) /\ scalar_set_b32(draws[i]) # 0 /\ Signature(i) # NoSig
           good == {i \in DOMAIN draws : Good(i)}
           first == CHOOSE i \in good : \A j \in good : i <= j
<1>2. secret \in Nat /\ msg \in Nat /\ draws \in Seq(Nat) /\ m \in Scalar
  BY Reduced DEF Inputs, scalar_set_b32
<1>3. CASE ~ec_seckey_verify(secret) \/ good = {}
  <2>1. ecdsa_sign(secret, msg, draws) = [ret |-> FALSE, sig |-> NoSig]
    BY <1>3 DEF ecdsa_sign
  <2> QED
    BY <1>1, <2>1 DEF EcdsaInv
<1>4. CASE ec_seckey_verify(secret) /\ good # {}
  <2>1. ecdsa_sign(secret, msg, draws) = [ret |-> TRUE, sig |-> Signature(first)]
    BY <1>4 DEF ecdsa_sign
  <2>2. secret \in Points /\ scalar_set_b32(secret) = secret
    BY <1>2, <1>4, ValidKey, PointIsNumber, BytesOfScalar
  <2>3. first \in good
    <3>1. good \subseteq Nat
      BY <1>2
    <3> HIDE DEF good
    <3> QED
      BY <1>4, <3>1, LeastNatural
  <2>4. draws[first] \in Nat /\ Good(first)
    BY <1>2, <2>3
  <2> DEFINE nonce == scalar_set_b32(draws[first])
  <2> HIDE DEF first
  <2>5. nonce \in Points
    BY <2>4, Reduced, ScalarIsPoint DEF scalar_set_b32
  <2>6. X[nonce] # N
    BY <2>3, <2>5 DEF Inputs, XIsOrder
  <2>7. Signature(first) = ecdsa_sig_sign(secret, m, nonce) /\ Signature(first) # NoSig
    BY <2>2, <2>4
  <2>8. \E q : Belongs(Signature(first), q, secret, m)
    <3> HIDE DEF nonce, m
    <3> QED
      BY <1>2, <2>2, <2>5, <2>6, <2>7, SignBelongs
  <2>9. sig' = Signature(first) /\ made' = TRUE
    BY <1>1, <2>1
  <2> HIDE DEF Signature, m
  <2> QED
    BY <1>1, <1>2, <2>2, <2>8, <2>9 DEF EcdsaInv, m
<1> QED
  BY <1>3, <1>4

LEMMA StoreKeeps ==
  ASSUME PrimeOrder, Negatives, EcdsaInv, Store
  PROVE  EcdsaInv'
<1>1. PICK q : Belongs(sig, q, signed[1], scalar_set_b32(signed[2]))
  BY DEF EcdsaInv, Store
<1>2. sig.r \in Scalar /\ sig.s \in Scalar
  BY <1>1, Abscissa, PointIsNumber DEF Belongs
<1>3. ~Overflow(sig.r) /\ ~Overflow(sig.s)
  BY <1>2, BytesOfScalar
<1>4. sig = [r |-> sig.r, s |-> sig.s, recid |-> sig.recid]
  BY <1>1 DEF Belongs
<1>5. sig' = sig /\ made' = TRUE /\ signed' = signed
  BY <1>3, <1>4 DEF Store, recoverable_signature_parse_compact
<1> QED
  BY <1>5 DEF EcdsaInv, Store

LEMMA FlipKeeps ==
  ASSUME PrimeOrder, Negatives, EcdsaInv, Flip
  PROVE  EcdsaInv'
<1>1. made = TRUE /\ signed # <<>> /\ signed[1] \in Points /\ signed[2] \in Nat
  BY DEF EcdsaInv, Flip
<1> DEFINE m == scalar_set_b32(signed[2])
<1>2. PICK q : Belongs(sig, q, signed[1], m)
  BY DEF EcdsaInv, Flip
<1>3. m \in Scalar
  BY <1>1, Reduced DEF scalar_set_b32
<1>4. sig.s \in Points /\ q \in Points /\ sig = [r |-> sig.r, s |-> sig.s, recid |-> sig.recid]
  BY <1>2 DEF Belongs
<1>5. scalar_negate(sig.s) = N - sig.s
  BY <1>4, Negative
<1>6. /\ sig' = [r |-> sig.r, s |-> N - sig.s, recid |-> sig'.recid]
      /\ sig'.recid = IF sig.recid % 2 = 1 THEN sig.recid - 1 ELSE sig.recid + 1
  <2>1. sig' = [sig EXCEPT !.s = scalar_negate(sig.s),
                           !.recid = IF sig.recid % 2 = 1 THEN sig.recid - 1 ELSE sig.recid + 1]
    BY DEF Flip
  <2> QED
    BY <1>4, <1>5, <2>1
<1> HIDE DEF m
<1>7. Belongs(sig', N - q, signed[1], m)
  BY <1>1, <1>2, <1>3, <1>4, <1>6, OtherForm
<1>8. signed' = signed /\ made' = TRUE
  BY <1>1 DEF Flip
<1> QED
  BY <1>1, <1>7, <1>8 DEF EcdsaInv, m

LEMMA UsefulSignature ==
  ASSUME PrimeOrder, Coordinates, Negatives, EcdsaInv
  PROVE  SignaturesVerify
<1>1. CASE made = FALSE /\ sig = NoSig
  <2>1. \A public : ~ecdsa_verify(sig, 0, public)
    BY <1>1 DEF NoSig, ecdsa_verify, ecdsa_sig_verify
  <2>2. ecdsa_sig_recover(sig.r, sig.s, scalar_set_b32(0), sig.recid) = 0
    BY <1>1 DEF NoSig, ecdsa_sig_recover
  <2>3. ~ecdsa_recover(sig, 0).ret
    BY <2>2 DEF ecdsa_recover, Answer
  <2> QED
    BY <1>1, <2>1, <2>3 DEF SignaturesVerify
<1>2. CASE ~(made = FALSE /\ sig = NoSig)
  <2>1. made = TRUE /\ signed[1] \in Points /\ signed[2] \in Nat
    BY <1>2 DEF EcdsaInv
  <2>2. PICK q : Belongs(sig, q, signed[1], scalar_set_b32(signed[2]))
    BY <1>2 DEF EcdsaInv
  <2>3. ec_pubkey_create(signed[1]) = [ret |-> TRUE, key |-> signed[1]]
    BY <2>1, PointIsNumber, BytesOfScalar DEF ec_pubkey_create, Answer
  <2>4. /\ ecdsa_verify(ecdsa_signature_normalize(sig), signed[2], signed[1])
        /\ ecdsa_verify(sig, signed[2], signed[1]) <=> ecdsa_signature_normalize(sig) = sig
        /\ ecdsa_recover(sig, signed[2]) = [ret |-> TRUE, key |-> signed[1]]
    BY <2>1, <2>2, BelongsIsUseful
  <2> QED
    BY <2>1, <2>3, <2>4 DEF SignaturesVerify
<1> QED
  BY <1>1, <1>2

\* SignaturesAlwaysVerify: in any group of prime order whose field has fewer than twice
\* as many elements, whatever the nonce function draws except a nonce whose x is N
\* itself (Inputs; then r is 0, ecdsa_impl.h:285), a signature that was made
\* verifies after it is normalised, only one of its two forms verifies as it is, and
\* both give back the key of the signer, for every x, those above N included.
THEOREM SignaturesAlwaysVerify ==
  ASSUME PrimeOrder, Coordinates, Negatives, Inputs
  PROVE  EcdsaInit /\ [][EcdsaNext]_ecdsaVars => []SignaturesVerify
<1>1. EcdsaInit => EcdsaInv
  BY DEF EcdsaInit, EcdsaInv
<1>2. EcdsaInv /\ [EcdsaNext]_ecdsaVars => EcdsaInv'
  <2> SUFFICES ASSUME EcdsaInv, [EcdsaNext]_ecdsaVars PROVE EcdsaInv'
    OBVIOUS
  <2>1. CASE Sign
    BY <2>1, SignKeeps
  <2>2. CASE Store
    BY <2>2, StoreKeeps
  <2>3. CASE Flip
    BY <2>3, FlipKeeps
  <2>4. CASE UNCHANGED ecdsaVars
    BY <2>4 DEF EcdsaInv, ecdsaVars
  <2> QED
    BY <2>1, <2>2, <2>3, <2>4 DEF EcdsaNext
<1>3. EcdsaInv => SignaturesVerify
  BY UsefulSignature
<1> QED
  BY <1>1, <1>2, <1>3, PTL

-----------------------------------------------------------------------------
(* Sums of any number of scalars.                                            *)

\* The partial sums of a sequence, as the loop has them.
PartialSums(sums, terms) ==
  /\ sums[0] = 0
  /\ \A i \in 1 .. Len(terms) : sums[i] = (sums[i - 1] + terms[i]) % N

LEMMA SumHasSums ==
  ASSUME PrimeOrder, NEW terms, Len(terms) \in Nat, \A i \in 1 .. Len(terms) : terms[i] \in Int
  PROVE  \E sums \in [0 .. Len(terms) -> Scalar] :
           PartialSums(sums, terms) /\ SumOf(terms) = sums[Len(terms)]
<1> DEFINE n     == Len(terms)
           add   == [k \in 0 .. n - 1 |-> [s \in Scalar |-> (s + terms[k + 1]) % N]]
           Is(f) == f = [i \in 0 .. n |-> IF i = 0 THEN 0 ELSE (f[i - 1] + terms[i]) % N]
           sum   == CHOOSE f : Is(f)
<1>1. n \in Nat /\ 0 \in Scalar /\ N \in Nat
  BY Order
<1>2. add \in [0 .. n - 1 -> [Scalar -> Scalar]]
  <2>1. ASSUME NEW k \in 0 .. n - 1, NEW s \in Scalar PROVE (s + terms[k + 1]) % N \in Scalar
    <3>1. k + 1 \in 1 .. n
      BY <1>1
    <3>2. s + terms[k + 1] \in Int
      BY <1>1, <3>1 DEF Scalar
    <3> QED
      BY <3>2, Reduced
  <2> QED
    BY <2>1
<1>3. PICK sums \in [0 .. n -> Scalar] : Runs(sums, 0, add, 0, n)
  <2>1. 0 \in Int /\ n \in Int /\ 0 <= n
    BY <1>1
  <2> HIDE DEF n, add
  <2> QED
    BY <1>1, <1>2, <2>1, LoopRuns, Zenon
<1>4. ASSUME NEW i \in 1 .. n PROVE sums[i] = (sums[i - 1] + terms[i]) % N
  <2>1. i \in 0 .. n /\ i # 0 /\ i - 1 \in 0 .. n - 1 /\ i - 1 \in 0 .. n /\ (i - 1) + 1 = i
    BY <1>1
  <2>2. sums[i - 1] \in Scalar
    BY <1>3, <2>1
  <2>3. sums[i] = add[i - 1][sums[i - 1]]
    BY <1>3, <2>1, Zenon DEF Runs
  <2> QED
    BY <2>1, <2>2, <2>3
<1>5. sums[0] = 0
  BY <1>1, <1>3 DEF Runs
<1>6. sums = [i \in 0 .. n |-> sums[i]]
  BY <1>3
<1>7. Is(sums)
  <2>1. \A i \in 0 .. n : sums[i] = IF i = 0 THEN 0 ELSE (sums[i - 1] + terms[i]) % N
    BY <1>1, <1>4, <1>5
  <2> QED
    BY <1>6, <2>1
<1>8. Is(sum)
  BY <1>7
<1> HIDE DEF sum
<1>9. \A i \in 0 .. n : sum[i] = IF i = 0 THEN 0 ELSE (sum[i - 1] + terms[i]) % N
  BY <1>8
<1> DEFINE Good == {i \in 0 .. n : sum[i] = sums[i]}
<1>10. 0 \in Good
  BY <1>1, <1>5, <1>9
<1>11. ASSUME NEW i \in 0 .. n - 1, i \in Good PROVE i + 1 \in Good
  <2>1. i + 1 \in 1 .. n /\ i + 1 \in 0 .. n /\ i + 1 # 0 /\ (i + 1) - 1 = i
    BY <1>1
  <2>2. sum[i + 1] = (sum[i] + terms[i + 1]) % N /\ sums[i + 1] = (sums[i] + terms[i + 1]) % N
    BY <1>4, <1>9, <2>1
  <2> QED
    BY <1>11, <2>1, <2>2
<1>12. 0 .. n \subseteq Good
  <2>1. 0 \in Int /\ n \in Int
    BY <1>1
  <2> HIDE DEF Good
  <2> QED
    BY <1>10, <1>11, <2>1, RangeInduction
<1>13. sum[n] = sums[n]
  BY <1>1, <1>12
<1>14. SumOf(terms) = sum[n]
  BY DEF SumOf, sum
<1> QED
  BY <1>3, <1>4, <1>5, <1>13, <1>14 DEF PartialSums

LEMMA SumIsScalar ==
  ASSUME PrimeOrder, NEW terms, Len(terms) \in Nat, \A i \in 1 .. Len(terms) : terms[i] \in Int
  PROVE  SumOf(terms) \in Scalar
<1>1. PICK sums \in [0 .. Len(terms) -> Scalar] : SumOf(terms) = sums[Len(terms)]
  BY SumHasSums
<1> QED
  BY <1>1

\* d is a and c times b.
InProportion(a, b, c, d) == d % N = (a + c * b) % N

LEMMA PartOfProportion ==
  ASSUME PrimeOrder, NEW a \in Int, NEW b \in Int, NEW c \in Int, NEW d \in Int,
         InProportion(a, b, c, d)
  PROVE  \E k \in Int : d = (a + c * b) + N * k
<1> DEFINE e == a + c * b
<1>1. N \in Nat /\ N > 0 /\ e \in Int /\ d % N = e % N
  BY Order DEF InProportion
<1> HIDE DEF e
<1>2. \E k \in Int : d = e + N * k
  BY <1>1, Congruent
<1> QED
  BY <1>2 DEF e

(* One step of two sums that are in proportion.                              *)
LEMMA Proportion ==
  ASSUME PrimeOrder, NEW a \in Int, NEW b \in Int, NEW d \in Int, NEW x \in Int, NEW y \in Int,
         NEW z \in Int, NEW c \in Int,
         InProportion(a, b, c, d), InProportion(x, y, c, z)
  PROVE  InProportion((a + x) % N, (b + y) % N, c, (d + z) % N)
<1> DEFINE ax == (a + x) % N
           by == (b + y) % N
           dz == (d + z) % N
<1>1. N \in Nat /\ N > 0 /\ N \in Int
  BY Order
<1>2. a + x \in Int /\ b + y \in Int /\ d + z \in Int /\ a + c * b \in Int /\ x + c * y \in Int
  OBVIOUS
<1>3. ax \in Int /\ by \in Int /\ dz \in Int
  BY <1>1, <1>2
<1>4. PICK p \in Int : a + x = N * p + ax
  BY <1>1, <1>2, Division
<1>5. PICK q \in Int : b + y = N * q + by
  BY <1>1, <1>2, Division
<1>6. PICK r \in Int : d + z = N * r + dz
  BY <1>1, <1>2, Division
<1>7. PICK k \in Int : d = (a + c * b) + N * k
  BY PartOfProportion
<1>8. PICK l \in Int : z = (x + c * y) + N * l
  BY PartOfProportion
<1> DEFINE m == k + l - r + p + c * q
           u == ax + c * by
<1> HIDE DEF ax, by, dz
<1>9. m \in Int /\ u \in Int
  BY <1>3
<1>10. dz = u + N * m
  <2>1. dz = (d + z) - N * r
    BY <1>1, <1>3, <1>6
  <2>2. d + z = (a + x) + c * (b + y) + N * (k + l)
    BY <1>1, <1>7, <1>8
  <2>3. (a + x) + c * (b + y) = u + N * (p + c * q)
    <3>1. (a + x) + c * (b + y) = (N * p + ax) + c * (N * q + by)
      BY <1>4, <1>5
    <3> QED
      BY <1>1, <1>3, <3>1
  <2>4. (k + l) - r + (p + c * q) = m
    OBVIOUS
  <2> QED
    BY <1>1, <1>3, <1>9, <2>1, <2>2, <2>3, <2>4
<1> HIDE DEF m, u
<1>11. dz % N = u % N
  <2>1. \E j \in Int : dz = u + N * j
    BY <1>9, <1>10, Zenon
  <2>2. dz \in Int /\ u \in Int /\ N \in Nat /\ N > 0
    BY <1>1, <1>3, <1>9
  <2> QED
    BY <2>1, <2>2, Congruent, Zenon
<1> QED
  BY <1>11 DEF dz, u, ax, by, InProportion

\* Each of n terms of h is that of f and c times that of g.
Linear(n, f, c, g, h) ==
  /\ Len(f) = n /\ Len(g) = n /\ Len(h) = n
  /\ \A i \in 1 .. n : f[i] \in Int /\ g[i] \in Int /\ h[i] \in Int /\ InProportion(f[i], g[i], c, h[i])

(* The sum of terms that are in proportion.                                  *)
LEMMA SumIsLinear ==
  ASSUME PrimeOrder, NEW n \in Nat, NEW f, NEW g, NEW h, NEW c \in Int, Linear(n, f, c, g, h)
  PROVE  SumOf(h) = (SumOf(f) + c * SumOf(g)) % N
<1>0. /\ Len(f) = n /\ Len(g) = n /\ Len(h) = n
      /\ \A i \in 1 .. n : /\ f[i] \in Int /\ g[i] \in Int /\ h[i] \in Int
                            /\ InProportion(f[i], g[i], c, h[i])
  BY DEF Linear
<1>1. PICK sf \in [0 .. n -> Scalar] : PartialSums(sf, f) /\ SumOf(f) = sf[n]
  BY <1>0, SumHasSums
<1>2. PICK sg \in [0 .. n -> Scalar] : PartialSums(sg, g) /\ SumOf(g) = sg[n]
  BY <1>0, SumHasSums
<1>3. PICK sh \in [0 .. n -> Scalar] : PartialSums(sh, h) /\ SumOf(h) = sh[n]
  BY <1>0, SumHasSums
<1>4. N \in Nat /\ N > 0
  BY Order
<1> DEFINE Good == {i \in 0 .. n : sh[i] % N = (sf[i] + c * sg[i]) % N}
<1>5. 0 \in Good
  BY <1>1, <1>2, <1>3, <1>4 DEF PartialSums
<1>6. ASSUME NEW i \in 0 .. n - 1, i \in Good PROVE i + 1 \in Good
  <2>1. i + 1 \in 1 .. n /\ i + 1 \in 0 .. n /\ i \in 0 .. n /\ (i + 1) - 1 = i
    OBVIOUS
  <2>2. sf[i] \in Int /\ sg[i] \in Int /\ sh[i] \in Int
    BY <1>1, <1>2, <1>3, <1>4, <2>1 DEF Scalar
  <2>3. /\ sf[i + 1] = (sf[i] + f[i + 1]) % N
        /\ sg[i + 1] = (sg[i] + g[i + 1]) % N
        /\ sh[i + 1] = (sh[i] + h[i + 1]) % N
    BY <1>0, <1>1, <1>2, <1>3, <2>1 DEF PartialSums
  <2> DEFINE a == sf[i]
             b == sg[i]
             d == sh[i]
             x == f[i + 1]
             y == g[i + 1]
             z == h[i + 1]
  <2>4. a \in Int /\ b \in Int /\ d \in Int /\ x \in Int /\ y \in Int /\ z \in Int
    BY <1>0, <2>1, <2>2
  <2>5. InProportion(a, b, c, d) /\ InProportion(x, y, c, z)
    BY <1>0, <1>6, <2>1 DEF InProportion
  <2> HIDE DEF a, b, d, x, y, z
  <2>6. InProportion((a + x) % N, (b + y) % N, c, (d + z) % N)
    BY <2>4, <2>5, Proportion, Zenon
  <2> QED
    BY <2>1, <2>3, <2>6 DEF InProportion, a, b, d, x, y, z
<1>7. 0 .. n \subseteq Good
  <2>1. 0 \in Int /\ n \in Int
    OBVIOUS
  <2> HIDE DEF Good
  <2> QED
    BY <1>5, <1>6, <2>1, RangeInduction
<1>8. sh[n] % N = (sf[n] + c * sg[n]) % N
  BY <1>7
<1>9. sh[n] % N = sh[n]
  <2>1. sh[n] \in Scalar /\ sh[n] \in Int
    BY <1>3, <1>4 DEF Scalar
  <2> QED
    BY <2>1, Reduced
<1> QED
  BY <1>1, <1>2, <1>3, <1>8, <1>9

(* The sum of the negatives.                                                 *)
LEMMA SumIsNegated ==
  ASSUME PrimeOrder, NEW n \in Nat, NEW g, NEW h, Len(g) = n, Len(h) = n,
         \A i \in 1 .. n : g[i] \in Int /\ h[i] = scalar_negate(g[i])
  PROVE  SumOf(h) = scalar_negate(SumOf(g))
<1>1. N \in Nat /\ N > 0
  BY Order
<1>2. \A i \in 1 .. n : /\ g[i] \in Int /\ h[i] \in Int
                        /\ h[i] % N = (g[i] + (-2) * g[i]) % N
  <2> SUFFICES ASSUME NEW i \in 1 .. n
               PROVE  g[i] \in Int /\ h[i] \in Int /\ h[i] % N = (g[i] + (-2) * g[i]) % N
    OBVIOUS
  <2> DEFINE x == g[i]
  <2>1. x \in Int /\ h[i] = (-x) % N
    BY DEF scalar_negate
  <2> HIDE DEF x
  <2>2. -x \in Int /\ x + (-2) * x = -x
    BY <2>1
  <2>3. ((-x) % N) % N = (-x) % N /\ (-x) % N \in Int
    <3> DEFINE y == -x
    <3>1. y \in Int
      BY <2>2
    <3> HIDE DEF y
    <3>2. (y % N) % N = y % N /\ y % N \in Int
      BY <1>1, <3>1
    <3> QED
      BY <3>2 DEF y
  <2>4. h[i] \in Int /\ h[i] % N = (x + (-2) * x) % N
    BY <2>1, <2>2, <2>3
  <2> QED
    BY <2>1, <2>4 DEF x
<1>3. SumOf(h) = (SumOf(g) + (-2) * SumOf(g)) % N
  <2> DEFINE c == -2
  <2>1. c \in Int
    OBVIOUS
  <2>2. \A i \in 1 .. n : /\ g[i] \in Int /\ g[i] \in Int /\ h[i] \in Int
                          /\ h[i] % N = (g[i] + c * g[i]) % N
    BY <1>2
  <2> HIDE DEF c
  <2>3. Linear(n, g, c, g, h)
    BY <2>2 DEF Linear, InProportion
  <2>4. SumOf(h) = (SumOf(g) + c * SumOf(g)) % N
    BY <2>1, <2>3, SumIsLinear
  <2> QED
    BY <2>4 DEF c
<1>4. SumOf(g) \in Int
  <2>1. SumOf(g) \in Scalar
    BY SumIsScalar
  <2> QED
    BY <1>1, <2>1 DEF Scalar
<1>5. SumOf(g) + (-2) * SumOf(g) = -SumOf(g)
  BY <1>4
<1> QED
  BY <1>3, <1>5 DEF scalar_negate

LEMMA EitherOrder ==
  ASSUME PrimeOrder, NEW s \in Int, NEW x \in Int, NEW v \in Int
  PROVE  (((s + v) % N) + x) % N = (((s + x) % N) + v) % N
<1> DEFINE sv == s + v
           sx == s + x
<1>1. N \in Nat /\ N > 0 /\ sv \in Int /\ sx \in Int /\ sv + x = sx + v
  BY Order
<1> HIDE DEF sv, sx
<1>2. ((sv % N) + x) % N = (sv + x) % N
  BY <1>1, SumReduced, Zenon
<1>3. ((sx % N) + v) % N = (sx + v) % N
  BY <1>1, SumReduced, Zenon
<1> QED
  BY <1>1, <1>2, <1>3 DEF sv, sx

(* One term that was zero is put in.                                         *)
LEMMA SumGrows ==
  ASSUME PrimeOrder, NEW n \in Nat, NEW g, NEW h, NEW k \in 1 .. n, NEW v \in Int,
         Len(g) = n, Len(h) = n, g[k] = 0, h[k] = v,
         \A i \in 1 .. n : g[i] \in Int /\ (i # k => h[i] = g[i])
  PROVE  SumOf(h) = (SumOf(g) + v) % N
<1>1. N \in Nat /\ N > 0
  BY Order
<1>2. \A i \in 1 .. n : h[i] \in Int
  OBVIOUS
<1>3. PICK sg \in [0 .. n -> Scalar] : PartialSums(sg, g) /\ SumOf(g) = sg[n]
  BY SumHasSums
<1>4. PICK sh \in [0 .. n -> Scalar] : PartialSums(sh, h) /\ SumOf(h) = sh[n]
  BY <1>2, SumHasSums
<1> DEFINE Good == {i \in 0 .. n : sh[i] = IF i < k THEN sg[i] ELSE (sg[i] + v) % N}
<1>5. 0 \in Good
  BY <1>3, <1>4 DEF PartialSums
<1>6. ASSUME NEW i \in 0 .. n - 1, i \in Good PROVE i + 1 \in Good
  <2>1. i + 1 \in 1 .. n /\ i + 1 \in 0 .. n /\ i \in 0 .. n /\ (i + 1) - 1 = i /\ i \in Int
    OBVIOUS
  <2>2. sg[i] \in Scalar /\ sh[i] \in Scalar /\ sg[i] \in Int
    BY <1>1, <1>3, <1>4, <2>1 DEF Scalar
  <2>3. /\ sg[i + 1] = (sg[i] + g[i + 1]) % N
        /\ sh[i + 1] = (sh[i] + h[i + 1]) % N
    BY <1>3, <1>4, <2>1 DEF PartialSums
  <2>4. CASE i + 1 < k
    BY <1>6, <2>1, <2>3, <2>4
  <2>5. CASE i + 1 = k
    <3>1. sg[i + 1] = sg[i] /\ sh[i] = sg[i]
      <4>1. sg[i] + g[i + 1] = sg[i]
        BY <2>2, <2>5
      <4> QED
        BY <1>6, <2>1, <2>2, <2>3, <2>5, <4>1, Reduced
    <3> QED
      BY <2>1, <2>3, <2>5, <3>1
  <2>6. CASE i + 1 > k
    <3> DEFINE s == sg[i]
               x == g[i + 1]
    <3>1. s \in Int /\ x \in Int /\ h[i + 1] = x /\ sh[i] = (s + v) % N
      BY <1>6, <2>1, <2>2, <2>6
    <3> HIDE DEF s, x
    <3>2. (((s + v) % N) + x) % N = (((s + x) % N) + v) % N
      BY <3>1, EitherOrder
    <3>3. sh[i + 1] = (sg[i + 1] + v) % N
      BY <2>3, <3>1, <3>2 DEF s, x
    <3> QED
      BY <2>1, <2>6, <3>3
  <2> QED
    BY <2>1, <2>4, <2>5, <2>6
<1>7. 0 .. n \subseteq Good
  <2>1. 0 \in Int /\ n \in Int
    OBVIOUS
  <2> HIDE DEF Good
  <2> QED
    BY <1>5, <1>6, <2>1, RangeInduction
<1> QED
  BY <1>3, <1>4, <1>7

-----------------------------------------------------------------------------
(* Signatures of several signers.                                            *)

\* There are signers with valid keys, Invalid is no scalar, and a hash is a number.
AggsigInputs ==
  /\ Seckeys \in Seq(Points) /\ Seckeys # <<>>
  /\ Invalid \in Nat /\ Overflow(Invalid)
  /\ RandomBytes \subseteq Nat /\ Extras \subseteq Scalar
  /\ \A x \in Nat, msg \in Texts \cup {1}, keys \in Seq(Nat) : Digest(x, msg, keys) \in Nat

LEMMA TermsHaveLength ==
  ASSUME NEW n \in Nat, NEW f, f = [i \in 1 .. n |-> f[i]]
  PROVE  Len(f) = n
OBVIOUS

LEMMA SignersAre ==
  ASSUME PrimeOrder, AggsigInputs
  PROVE  /\ Len(Seckeys) \in Nat /\ Len(Seckeys) > 0 /\ Signers = 1 .. Len(Seckeys)
         /\ Pubkeys = Seckeys /\ Pubkeys \in Seq(Nat)
         /\ \A i \in Signers : /\ Seckeys[i] \in Points /\ Seckeys[i] \in Int
                               /\ ~Overflow(Seckeys[i]) /\ scalar_set_b32(Seckeys[i]) = Seckeys[i]
<1>1. Seckeys \in Seq(Points) /\ Seckeys # <<>>
  BY DEF AggsigInputs
<1>2. Len(Seckeys) \in Nat /\ Len(Seckeys) > 0 /\ Signers = 1 .. Len(Seckeys)
  BY <1>1 DEF Signers
<1>3. \A i \in Signers : Seckeys[i] \in Points
  BY <1>1 DEF Signers
<1>4. \A key \in Points : /\ key \in Int /\ key \in Nat /\ ~Overflow(key) /\ scalar_set_b32(key) = key
                          /\ ec_pubkey_create(key).key = key
  <2> SUFFICES ASSUME NEW key \in Points
               PROVE  /\ key \in Int /\ key \in Nat /\ ~Overflow(key) /\ scalar_set_b32(key) = key
                      /\ ec_pubkey_create(key).key = key
    OBVIOUS
  <2>1. key \in Nat /\ key \in Scalar /\ key # 0
    BY PointIsNumber
  <2>2. ~Overflow(key) /\ scalar_set_b32(key) = key
    BY <2>1, BytesOfScalar
  <2> QED
    BY <2>1, <2>2 DEF ec_pubkey_create, Answer
<1>5. Pubkeys = Seckeys
  <2>1. Pubkeys = [i \in Signers |-> Seckeys[i]]
    BY <1>3, <1>4 DEF Pubkeys
  <2>2. Seckeys = [i \in Signers |-> Seckeys[i]]
    BY <1>1 DEF Signers
  <2> QED
    BY <2>1, <2>2
<1>6. Pubkeys \in Seq(Nat)
  <2>1. \A i \in 1 .. Len(Seckeys) : Seckeys[i] \in Nat
    BY <1>2, <1>3, <1>4
  <2>2. Seckeys = [i \in 1 .. Len(Seckeys) |-> Seckeys[i]]
    BY <1>1
  <2> QED
    BY <1>2, <1>5, <2>1, <2>2
<1> QED
  BY <1>2, <1>3, <1>4, <1>5, <1>6

(* Of a point and its negative, one has a square y; it is found by x.        *)
LEMMA Turned ==
  ASSUME PrimeOrder, Squares, NEW p \in Points
  PROVE  /\ scalar_negate(p) = N - p /\ N - p \in Points /\ x_of(N - p) = x_of(p)
         /\ has_quad_y(N - p) <=> ~has_quad_y(p)
<1>1. scalar_negate(p) = N - p /\ N - p \in Points
  BY Negative
<1>2. p # 0 /\ N - p # 0
  BY <1>1, PointIsNumber
<1>3. X[N - p] = X[p] /\ (IsQuad(Y[N - p]) <=> ~IsQuad(Y[p]))
  BY DEF Squares
<1> QED
  BY <1>1, <1>2, <1>3 DEF x_of, has_quad_y

LEMMA FoundByX ==
  ASSUME PrimeOrder, Squares, NEW p \in Points
  PROVE  point_set_xquad(x_of(p)) = IF has_quad_y(p) THEN p ELSE N - p
<1> DEFINE found == {q \in Points : X[q] = X[p] /\ IsQuad(Y[q])}
           one   == IF has_quad_y(p) THEN p ELSE N - p
<1>1. /\ p # 0 /\ N - p # 0 /\ N - p \in Points /\ x_of(N - p) = x_of(p)
      /\ has_quad_y(N - p) <=> ~has_quad_y(p)
  BY Turned, PointIsNumber
<1>2. x_of(p) = X[p] /\ X[N - p] = X[p]
  BY <1>1 DEF x_of
<1>3. (has_quad_y(p) <=> IsQuad(Y[p])) /\ (has_quad_y(N - p) <=> IsQuad(Y[N - p]))
  BY <1>1 DEF has_quad_y
<1>4. one \in found
  BY <1>1, <1>2, <1>3
<1>5. ASSUME NEW q \in found PROVE q = one
  <2>1. q \in {p, N - p} /\ IsQuad(Y[q])
    BY DEF Squares
  <2> QED
    BY <1>1, <1>3, <2>1
<1>6. TheOne(found) = one
  <2> HIDE DEF found, one
  <2> QED
    BY <1>4, <1>5, TheOneIs
<1> QED
  BY <1>2, <1>6 DEF point_set_xquad

\* The points that are meant by their x.
Quads == {p \in Points : has_quad_y(p)}

LEMMA QuadIsMeant ==
  ASSUME PrimeOrder, Squares, NEW p \in Quads
  PROVE  /\ p \in Points /\ p \in Scalar /\ p \in Int /\ p # 0 /\ has_quad_y(p)
         /\ p % N = p /\ point_set_xquad(x_of(p)) = p
BY FoundByX, PointIsNumber DEF Quads

LEMMA NonceIsQuad ==
  ASSUME PrimeOrder, Squares, NEW draw \in Nat, scalar_set_b32(draw) # 0
  PROVE  aggsig_generate_nonce_single(draw) \in Quads
<1> DEFINE nonce == scalar_set_b32(draw)
<1>1. nonce \in Scalar
  BY Reduced DEF scalar_set_b32
<1>2. nonce \in Points
  BY <1>1, ScalarIsPoint
<1> HIDE DEF nonce
<1>3. scalar_negate(nonce) = N - nonce /\ N - nonce \in Points /\ (has_quad_y(N - nonce) <=> ~has_quad_y(nonce))
  BY <1>2, Turned
<1> QED
  BY <1>2, <1>3 DEF nonce, aggsig_generate_nonce_single, Quads

(* Coordinates are numbers, and so are hashes.                               *)
LEMMA HashIsNumber ==
  ASSUME PrimeOrder, Coordinates, AggsigInputs, NEW p \in Scalar, NEW q \in Scalar,
         NEW msg \in Texts \cup {1}, NEW i \in Signers, NEW key \in Scalar
  PROVE  /\ compute_sighash(x_of(p), msg, i) \in Nat
         /\ compute_sighash_single(p, key, msg) \in Scalar /\ x_of(p) \in Nat
<1>1. N \in Nat /\ Scalar \subseteq Nat
  BY Order DEF Scalar
<1>2. x_of(p) \in Nat
  <2>1. CASE p = 0
    BY <2>1 DEF x_of
  <2>2. CASE p # 0
    <3>1. p \in Points
      BY <2>2, ScalarIsPoint
    <3> QED
      BY <2>2, <3>1 DEF x_of, Coordinates
  <2> QED
    BY <2>1, <2>2
<1>3. Append(Pubkeys, i) \in Seq(Nat) /\ <<key>> \in Seq(Nat)
  <2>1. i \in Nat /\ Pubkeys \in Seq(Nat) /\ key \in Nat
    BY <1>1, SignersAre
  <2> QED
    BY <2>1
<1>4. \A x \in Nat, keys \in Seq(Nat) : Digest(x, msg, keys) \in Nat
  BY DEF AggsigInputs
<1>5. compute_sighash(x_of(p), msg, i) \in Nat
  BY <1>2, <1>3, <1>4 DEF compute_sighash
<1>6. Digest(x_of(p), msg, <<key>>) \in Nat
  BY <1>2, <1>3, <1>4
<1>7. compute_sighash_single(p, key, msg) \in Scalar
  BY <1>6, Reduced DEF compute_sighash_single, scalar_set_b32
<1> QED
  BY <1>2, <1>5, <1>7

-----------------------------------------------------------------------------
(* With a context.                                                           *)

\* The nonces as they were drawn: a signer who signed has negated his when the sum
\* does not have the square y.
Original ==
  [i \in Signers |-> IF progress[i] = "SIGNED" /\ ~has_quad_y(pubnonce_sum)
                     THEN scalar_negate(secnonce[i]) ELSE secnonce[i]]

\* What i has signed, with the nonce he still has.
IsPart(i) ==
  /\ parts[i].msg \in Texts
  /\ ~Overflow(compute_sighash(x_of(pubnonce_sum), parts[i].msg, i))
  /\ parts[i].s = (Seckeys[i] * compute_sighash(x_of(pubnonce_sum), parts[i].msg, i) + secnonce[i]) % N

\* The signature of all is of the parts there are, and nothing can be changed any more.
IsOfAll ==
  /\ combined.of = parts /\ combined.x = x_of(pubnonce_sum)
  /\ combined.s = SumOf([i \in Signers |-> parts[i].s])
  /\ pubnonce_sum = 0 \/ has_quad_y(pubnonce_sum)

ContextInv ==
  /\ progress \in [Signers -> {"UNKNOWN", "OURS", "SIGNED"}]
  /\ secnonce \in [Signers -> Scalar] /\ pubnonce_sum \in Scalar
  /\ DOMAIN parts = Signers /\ disturbed \in BOOLEAN
  /\ \A i \in Signers : progress[i] = "UNKNOWN" => secnonce[i] = 0
  /\ \A i \in Signers : parts[i] # <<>> => progress[i] = "SIGNED"
  /\ \A i \in Signers : progress[i] = "SIGNED" =>
       IsPart(i) /\ \A j \in Signers : progress[j] # "UNKNOWN"
  /\ ~disturbed => SumOf(Original) = pubnonce_sum
  /\ combined # <<>> /\ (\A i \in Signers : combined.of[i] # <<>>) => IsOfAll

LEMMA OriginalTerms ==
  ASSUME PrimeOrder, AggsigInputs, ContextInv
  PROVE  /\ Len(Original) = Len(Seckeys) /\ Len(secnonce) = Len(Seckeys)
         /\ \A i \in Signers : Original[i] \in Int /\ secnonce[i] \in Int
<1>1. Signers = 1 .. Len(Seckeys) /\ Len(Seckeys) \in Nat
  BY SignersAre
<1>2. \A i \in Signers : secnonce[i] \in Scalar
  BY DEF ContextInv
<1>3. Scalar \subseteq Int /\ \A s \in Scalar : scalar_negate(s) \in Int
  BY Order DEF Scalar, scalar_negate
<1>4. \A i \in Signers : Original[i] \in Int /\ secnonce[i] \in Int
  BY <1>2, <1>3 DEF Original
<1>5. Original = [i \in Signers |-> Original[i]]
  BY DEF Original
<1>6. secnonce = [i \in Signers |-> secnonce[i]]
  BY DEF ContextInv
<1>7. Len(Original) = Len(Seckeys) /\ Len(secnonce) = Len(Seckeys)
  <2> HIDE DEF Original
  <2> QED
    BY <1>1, <1>5, <1>6, TermsHaveLength
<1> QED
  BY <1>4, <1>7

LEMMA ContextStarts ==
  ASSUME PrimeOrder, AggsigInputs, AggsigInit
  PROVE  ContextInv
<1> DEFINE n     == Len(Seckeys)
           zeros == [i \in Signers |-> 0]
<1>1. n \in Nat /\ Signers = 1 .. n /\ 0 \in Scalar /\ N \in Nat /\ N > 0
  BY SignersAre, Order
<1>2. /\ progress = [i \in Signers |-> "UNKNOWN"] /\ secnonce = zeros /\ pubnonce_sum = 0
      /\ parts = [i \in Signers |-> <<>>] /\ combined = <<>> /\ disturbed = FALSE
  BY DEF AggsigInit, aggsig_context_create
<1>3. Original = zeros
  BY <1>2 DEF Original
<1>4. SumOf(zeros) = 0
  <2>1. zeros = [i \in 1 .. n |-> zeros[i]] /\ \A i \in 1 .. n : zeros[i] = 0
    BY <1>1
  <2> HIDE DEF n, zeros
  <2>2. Len(zeros) = n
    BY <1>1, <2>1, TermsHaveLength
  <2>3. 0 \in Int /\ \A i \in 1 .. n : /\ zeros[i] \in Int
                                       /\ zeros[i] % N = (zeros[i] + 0 * zeros[i]) % N
    BY <2>1
  <2>4. \A i \in 1 .. n : zeros[i] \in Int /\ zeros[i] = scalar_negate(zeros[i])
    BY <1>1, <2>1 DEF scalar_negate
  <2>5. PICK sums \in [0 .. n -> Scalar] : PartialSums(sums, zeros) /\ SumOf(zeros) = sums[n]
    BY <1>1, <2>2, <2>4, SumHasSums
  <2> DEFINE Good == {i \in 0 .. n : sums[i] = 0}
  <2>6. 0 \in Good
    BY <1>1, <2>5 DEF PartialSums
  <2>7. ASSUME NEW i \in 0 .. n - 1, i \in Good PROVE i + 1 \in Good
    <3>1. i + 1 \in 1 .. n /\ i + 1 \in 0 .. n /\ (i + 1) - 1 = i
      BY <1>1
    <3>2. sums[i + 1] = (sums[i] + zeros[i + 1]) % N
      BY <2>2, <2>5, <3>1 DEF PartialSums
    <3>3. sums[i + 1] = (0 + 0) % N
      BY <2>1, <2>7, <3>1, <3>2
    <3> QED
      BY <1>1, <3>1, <3>3
  <2>8. 0 .. n \subseteq Good
    <3>1. 0 \in Int /\ n \in Int
      BY <1>1
    <3> HIDE DEF Good
    <3> QED
      BY <2>6, <2>7, <3>1, RangeInduction
  <2> QED
    BY <1>1, <2>5, <2>8
<1> QED
  BY <1>1, <1>2, <1>3, <1>4 DEF ContextInv

(* A nonce is drawn before anybody has signed.                               *)
LEMMA DrawKeeps ==
  ASSUME PrimeOrder, Coordinates, Squares, AggsigInputs, ContextInv,
         NEW index \in Signers, aggsig_generate_nonce(index)
  PROVE  ContextInv'
<1>1. PICK draw \in RandomBytes :
        /\ scalar_set_b32(draw) # 0
        /\ secnonce' = [secnonce EXCEPT ![index] = aggsig_generate_nonce_single(draw)]
        /\ pubnonce_sum' = (pubnonce_sum + aggsig_generate_nonce_single(draw)) % N
  BY DEF aggsig_generate_nonce
<1> DEFINE nonce == aggsig_generate_nonce_single(draw)
<1>2. /\ progress[index] = "UNKNOWN" /\ progress' = [progress EXCEPT ![index] = "OURS"]
      /\ parts' = parts /\ combined' = combined /\ disturbed' = disturbed
  BY DEF aggsig_generate_nonce
<1>3. nonce \in Scalar /\ nonce \in Int
  <2>1. draw \in Nat
    BY DEF AggsigInputs
  <2> QED
    BY <1>1, <2>1, NonceIsQuad, QuadIsMeant
<1> HIDE DEF nonce
<1>4. /\ secnonce' = [secnonce EXCEPT ![index] = nonce]
      /\ pubnonce_sum' = (pubnonce_sum + nonce) % N
  BY <1>1 DEF nonce
<1>5. /\ N \in Nat /\ N > 0 /\ Scalar \subseteq Int /\ pubnonce_sum \in Int
      /\ pubnonce_sum + nonce \in Int
  BY <1>3, Order DEF Scalar, ContextInv
<1>6. /\ progress' \in [Signers -> {"UNKNOWN", "OURS", "SIGNED"}]
      /\ secnonce' \in [Signers -> Scalar] /\ pubnonce_sum' \in Scalar
      /\ \A i \in Signers : progress'[i] = "UNKNOWN" => secnonce'[i] = 0
  BY <1>2, <1>3, <1>4, <1>5, Reduced DEF ContextInv
<1>7. \A i \in Signers : progress[i] # "SIGNED" /\ parts[i] = <<>> /\ progress'[i] # "SIGNED"
  BY <1>2 DEF ContextInv
<1>8. ~disturbed' => SumOf(Original') = pubnonce_sum'
  <2>1. Original = [i \in Signers |-> secnonce[i]] /\ Original' = [i \in Signers |-> secnonce'[i]]
    BY <1>7 DEF Original
  <2> DEFINE n == Len(Seckeys)
             g == Original
             h == Original'
  <2>2. n \in Nat /\ Signers = 1 .. n /\ Len(g) = n
    BY SignersAre, OriginalTerms
  <2>3. /\ h = [i \in 1 .. n |-> h[i]] /\ g[index] = 0 /\ h[index] = nonce
        /\ \A i \in 1 .. n : g[i] \in Int /\ (i # index => h[i] = g[i])
    BY <1>2, <1>4, <1>5, <2>1, <2>2 DEF ContextInv
  <2> HIDE DEF n, g, h
  <2>4. Len(h) = n
    BY <2>2, <2>3, TermsHaveLength
  <2>5. SumOf(h) = (SumOf(g) + nonce) % N
    BY <1>3, <2>2, <2>3, <2>4, SumGrows
  <2> QED
    BY <1>2, <1>4, <2>5 DEF ContextInv, g, h
<1>9. ~(combined' # <<>> /\ (\A i \in Signers : combined'.of[i] # <<>>))
  <2> SUFFICES ASSUME combined # <<>>, \A i \in Signers : combined.of[i] # <<>> PROVE FALSE
    BY <1>2
  <2>1. combined.of = parts
    BY DEF ContextInv, IsOfAll
  <2> QED
    BY <1>7, <2>1
<1> QED
  BY <1>2, <1>6, <1>7, <1>8, <1>9 DEF ContextInv

(* A part is made, or a call fails.                                          *)
LEMMA PartKeeps ==
  ASSUME PrimeOrder, Coordinates, Squares, AggsigInputs, ContextInv,
         NEW index \in Signers, NEW msg \in Texts, NEW secret \in {Seckeys[index], Invalid},
         aggsig_partial_sign(index, msg, secret)
  PROVE  ContextInv'
<1> DEFINE nonce   == IF has_quad_y(pubnonce_sum) THEN secnonce[index] ELSE scalar_negate(secnonce[index])
           sighash == compute_sighash(x_of(pubnonce_sum), msg, index)
           failed  == Overflow(sighash) \/ Overflow(secret)
           s       == (scalar_set_b32(secret) * scalar_set_b32(sighash) + nonce) % N
<1>1. /\ CanSign(index) /\ secnonce' = [secnonce EXCEPT ![index] = nonce]
      /\ disturbed' = (disturbed \/ (failed /\ nonce # secnonce[index]))
      /\ pubnonce_sum' = pubnonce_sum /\ combined' = combined
  BY DEF aggsig_partial_sign
<1>2. failed => progress' = progress /\ parts' = parts
  BY DEF aggsig_partial_sign
<1>3. ~failed => /\ progress' = [progress EXCEPT ![index] = "SIGNED"]
                 /\ parts' = [parts EXCEPT ![index] = [s |-> s, msg |-> msg]]
  BY DEF aggsig_partial_sign
<1>4. progress[index] = "OURS" /\ \A i \in Signers : progress[i] # "UNKNOWN"
  BY <1>1 DEF CanSign
<1>5. parts[index] = <<>>
  BY <1>4 DEF ContextInv
<1>6. secnonce[index] \in Scalar /\ nonce \in Scalar /\ nonce \in Int /\ secnonce[index] \in Int
  <2>1. secnonce[index] \in Scalar
    BY DEF ContextInv
  <2>2. N \in Nat /\ Scalar \subseteq Int
    BY Order DEF Scalar
  <2>3. -secnonce[index] \in Int
    BY <2>1, <2>2
  <2>4. scalar_negate(secnonce[index]) \in Scalar
    BY <2>3, Reduced DEF scalar_negate
  <2> QED
    BY <2>1, <2>2, <2>4
<1>7. ~(combined' # <<>> /\ (\A i \in Signers : combined'.of[i] # <<>>))
  <2> SUFFICES ASSUME combined # <<>>, \A i \in Signers : combined.of[i] # <<>> PROVE FALSE
    BY <1>1
  <2>1. combined.of = parts
    BY DEF ContextInv, IsOfAll
  <2> QED
    BY <1>5, <2>1
<1>8. sighash \in Nat
  BY HashIsNumber DEF ContextInv
<1>9. /\ secnonce' \in [Signers -> Scalar] /\ pubnonce_sum' \in Scalar /\ disturbed' \in BOOLEAN
      /\ \A i \in Signers : i # index => secnonce'[i] = secnonce[i]
      /\ secnonce'[index] = nonce
  BY <1>1, <1>6 DEF ContextInv
<1>10. CASE failed
  <2>1. ~disturbed' => ~disturbed /\ secnonce' = secnonce
    BY <1>1, <1>10 DEF ContextInv
  <2>2. progress' = progress /\ parts' = parts
    BY <1>2, <1>10
  <2>3. ~disturbed' => SumOf(Original') = pubnonce_sum'
    <3> SUFFICES ASSUME ~disturbed' PROVE SumOf(Original') = pubnonce_sum'
      OBVIOUS
    <3>1. Original' = Original
      BY <1>1, <2>1, <2>2 DEF Original
    <3> QED
      BY <1>1, <2>1, <3>1 DEF ContextInv
  <2>4. ASSUME NEW i \in Signers, progress'[i] = "SIGNED" PROVE IsPart(i)'
    <3>1. i # index /\ IsPart(i)
      BY <1>4, <2>2, <2>4 DEF ContextInv
    <3> QED
      BY <1>1, <1>9, <2>2, <3>1 DEF IsPart
  <2> HIDE DEF failed, nonce
  <2> QED
    BY <1>4, <1>7, <1>9, <2>2, <2>3, <2>4 DEF ContextInv
<1>11. CASE ~failed
  <2>1. secret = Seckeys[index] /\ scalar_set_b32(secret) = secret /\ secret \in Int
    <3>1. ~Overflow(secret)
      BY <1>11
    <3>2. secret = Seckeys[index]
      BY <3>1 DEF AggsigInputs
    <3> QED
      BY <3>2, SignersAre
  <2>2. ~Overflow(sighash) /\ scalar_set_b32(sighash) = sighash
    <3>1. ~Overflow(sighash)
      BY <1>11
    <3>2. sighash \in Scalar
      <4> HIDE DEF sighash
      <4> QED
        BY <1>8, <3>1, Order DEF Overflow, Scalar
    <3> HIDE DEF sighash
    <3> QED
      BY <3>1, <3>2, BytesOfScalar
  <2>3. s = (Seckeys[index] * sighash + nonce) % N
    BY <2>1, <2>2
  <2>4. /\ progress' = [progress EXCEPT ![index] = "SIGNED"]
        /\ parts' = [parts EXCEPT ![index] = [s |-> s, msg |-> msg]]
    BY <1>3, <1>11
  <2>5. disturbed' = disturbed
    <3> HIDE DEF s, nonce
    <3> QED
      BY <1>1, <1>11 DEF ContextInv
  <2>6. IsPart(index)'
    <3>1. parts'[index].s = s /\ parts'[index].msg = msg
      <4> HIDE DEF s
      <4> QED
        BY <2>4 DEF ContextInv
    <3> HIDE DEF s, nonce
    <3> QED
      BY <1>1, <1>9, <2>2, <2>3, <3>1 DEF IsPart
  <2>7. ASSUME NEW i \in Signers, progress'[i] = "SIGNED", i # index PROVE IsPart(i)'
    <3> HIDE DEF s, nonce
    <3>1. progress[i] = "SIGNED" /\ parts'[i] = parts[i] /\ IsPart(i)
      BY <2>4, <2>7 DEF ContextInv
    <3> QED
      BY <1>1, <1>9, <2>7, <3>1 DEF IsPart
  <2>8. Original' = Original
    <3>1. Original'[index] = Original[index]
      <4>1. scalar_negate(scalar_negate(secnonce[index])) = secnonce[index]
        <5>1. secnonce[index] \in 0 .. N - 1 /\ N \in Nat /\ N > 0
          BY <1>6, Order DEF Scalar
        <5> QED
          BY <5>1 DEF scalar_negate
      <4>2. progress'[index] = "SIGNED" /\ progress[index] # "SIGNED"
        BY <1>4, <2>4 DEF ContextInv
      <4> QED
        BY <1>1, <1>9, <4>1, <4>2 DEF Original
    <3>2. ASSUME NEW i \in Signers, i # index PROVE Original'[i] = Original[i]
      <4> HIDE DEF s, nonce
      <4>1. progress'[i] = progress[i]
        BY <2>4, <3>2 DEF ContextInv
      <4> QED
        BY <1>1, <1>9, <3>2, <4>1 DEF Original
    <3>3. Original = [i \in Signers |-> Original[i]] /\ Original' = [i \in Signers |-> Original'[i]]
      BY DEF Original
    <3> QED
      BY <3>1, <3>2, <3>3
  <2>9. ~disturbed' => SumOf(Original') = pubnonce_sum'
    BY <1>1, <2>5, <2>8 DEF ContextInv
  <2>10. /\ progress' \in [Signers -> {"UNKNOWN", "OURS", "SIGNED"}] /\ DOMAIN parts' = Signers
         /\ \A i \in Signers : progress'[i] # "UNKNOWN"
         /\ \A i \in Signers : parts'[i] # <<>> => progress'[i] = "SIGNED"
    <3> HIDE DEF s
    <3>1. \A i \in Signers : i # index => parts'[i] = parts[i] /\ progress'[i] = progress[i]
      BY <2>4 DEF ContextInv
    <3>2. progress'[index] = "SIGNED"
      BY <2>4 DEF ContextInv
    <3> QED
      BY <1>4, <2>4, <3>1, <3>2 DEF ContextInv
  <2> HIDE DEF s, nonce, failed, sighash
  <2> QED
    BY <1>7, <1>9, <2>6, <2>7, <2>9, <2>10 DEF ContextInv
<1> QED
  BY <1>10, <1>11

(* The parts are added, and the sum of the nonces gets its square y.         *)
LEMMA CombineKeeps ==
  ASSUME PrimeOrder, Coordinates, Squares, AggsigInputs, ContextInv, aggsig_combine_signatures
  PROVE  ContextInv'
<1> DEFINE turned == IF has_quad_y(pubnonce_sum) THEN pubnonce_sum ELSE scalar_negate(pubnonce_sum)
<1>1. /\ pubnonce_sum' = turned
      /\ combined' = [x |-> x_of(pubnonce_sum),
                      s |-> SumOf([i \in Signers |-> IF parts[i] = <<>> THEN 0 ELSE parts[i].s]),
                      of |-> parts]
      /\ disturbed' = (disturbed \/ (pubnonce_sum' # pubnonce_sum /\ \E i \in Signers : parts[i] = <<>>))
      /\ progress' = progress /\ secnonce' = secnonce /\ parts' = parts
  BY DEF aggsig_combine_signatures
<1>2. N \in Nat /\ N > 0 /\ pubnonce_sum \in Scalar
  BY Order DEF ContextInv
<1>3. /\ turned \in Scalar /\ x_of(turned) = x_of(pubnonce_sum)
      /\ turned = 0 \/ has_quad_y(turned)
      /\ turned # pubnonce_sum => has_quad_y(turned) /\ ~has_quad_y(pubnonce_sum)
  <2>1. CASE pubnonce_sum = 0
    <3>1. scalar_negate(0) = 0
      BY <1>2 DEF scalar_negate
    <3> QED
      BY <1>2, <2>1, <3>1
  <2>2. CASE pubnonce_sum # 0
    <3>1. pubnonce_sum \in Points
      BY <1>2, <2>2, ScalarIsPoint
    <3>2. /\ scalar_negate(pubnonce_sum) = N - pubnonce_sum /\ N - pubnonce_sum \in Points
          /\ x_of(N - pubnonce_sum) = x_of(pubnonce_sum)
          /\ has_quad_y(N - pubnonce_sum) <=> ~has_quad_y(pubnonce_sum)
      BY <3>1, Turned
    <3>3. N - pubnonce_sum \in Scalar
      BY <3>2, PointIsNumber
    <3> QED
      BY <1>2, <3>2, <3>3
  <2> QED
    BY <2>1, <2>2
<1> HIDE DEF turned
<1>4. x_of(pubnonce_sum') = x_of(pubnonce_sum) /\ pubnonce_sum' \in Scalar
  BY <1>1, <1>3
<1>5. \A i \in Signers : IsPart(i) => IsPart(i)'
  BY <1>1, <1>4 DEF IsPart
<1>6. ~disturbed' => SumOf(Original') = pubnonce_sum'
  <2> SUFFICES ASSUME ~disturbed' PROVE SumOf(Original') = pubnonce_sum'
    OBVIOUS
  <2>1. disturbed = FALSE
    BY <1>1 DEF ContextInv
  <2>2. CASE pubnonce_sum' = pubnonce_sum
    <3>1. Original' = Original
      BY <1>1, <2>2 DEF Original
    <3> QED
      BY <2>1, <2>2, <3>1 DEF ContextInv
  <2>3. CASE pubnonce_sum' # pubnonce_sum
    <3>1. \A i \in Signers : progress[i] = "SIGNED"
      BY <1>1, <2>3 DEF ContextInv
    <3>2. has_quad_y(pubnonce_sum') /\ ~has_quad_y(pubnonce_sum)
      BY <1>1, <1>3, <2>3
    <3>3. pubnonce_sum' = scalar_negate(pubnonce_sum)
      BY <1>1, <3>2 DEF turned
    <3>4. Original = [i \in Signers |-> scalar_negate(secnonce[i])]
      BY <3>1, <3>2 DEF Original
    <3>5. Original' = secnonce
      <4>1. Original' = [i \in Signers |-> secnonce[i]]
        BY <1>1, <3>2 DEF Original
      <4> QED
        BY <4>1 DEF ContextInv
    <3> DEFINE n == Len(Seckeys)
               g == Original
               h == secnonce
    <3>6. n \in Nat /\ Signers = 1 .. n /\ Len(g) = n /\ Len(h) = n
      BY SignersAre, OriginalTerms
    <3>7. \A i \in 1 .. n : g[i] \in Int /\ h[i] = scalar_negate(g[i])
      <4> SUFFICES ASSUME NEW i \in Signers PROVE g[i] \in Int /\ h[i] = scalar_negate(g[i])
        BY <3>6
      <4>1. g[i] \in Int /\ g[i] = scalar_negate(h[i])
        BY <3>4, OriginalTerms
      <4>2. h[i] \in 0 .. N - 1
        BY DEF ContextInv, Scalar
      <4> HIDE DEF g, h
      <4>3. scalar_negate(scalar_negate(h[i])) = h[i]
        BY <1>2, <4>2 DEF scalar_negate
      <4> QED
        BY <4>1, <4>3
    <3> HIDE DEF n, g, h
    <3>8. SumOf(h) = scalar_negate(SumOf(g))
      BY <3>6, <3>7, SumIsNegated
    <3>9. SumOf(g) = pubnonce_sum
      BY <2>1 DEF g, ContextInv
    <3> QED
      BY <3>3, <3>5, <3>8, <3>9 DEF h
  <2> QED
    BY <2>2, <2>3
<1>7. ASSUME \A i \in Signers : combined'.of[i] # <<>>
      PROVE  IsOfAll'
  <2>1. combined'.of = parts' /\ combined'.x = x_of(pubnonce_sum')
    BY <1>1, <1>4
  <2>2. \A i \in Signers : parts[i] # <<>>
    BY <1>1, <1>7
  <2>3. [i \in Signers |-> IF parts[i] = <<>> THEN 0 ELSE parts[i].s] = [i \in Signers |-> parts'[i].s]
    BY <1>1, <2>2
  <2>4. combined'.s = SumOf([i \in Signers |-> parts'[i].s])
    BY <1>1, <2>3
  <2> QED
    BY <1>1, <1>3, <2>1, <2>4 DEF IsOfAll
<1>8. disturbed' \in BOOLEAN
  BY <1>1 DEF ContextInv
<1> QED
  BY <1>1, <1>4, <1>5, <1>6, <1>7, <1>8 DEF ContextInv

(* A sum of parts, without what the keys add to it.                          *)
LEMMA LessKeys ==
  ASSUME PrimeOrder, NEW a \in Int, NEW b \in Scalar, NEW d, d = (a + 1 * b) % N
  PROVE  (d - a) % N = b
<1>1. N \in Nat /\ N > 0 /\ b \in Int /\ a + b \in Int /\ a + 1 * b = a + b
  BY Order DEF Scalar
<1> DEFINE e == a + b
<1>2. d = e % N /\ e \in Int
  BY <1>1
<1> HIDE DEF e
<1>3. PICK q \in Int : e = N * q + d
  <2>1. \E q \in Int : e = N * q + (e % N)
    BY <1>1, <1>2, Division
  <2> QED
    BY <1>2, <2>1
<1>4. d \in Int
  BY <1>1, <1>2
<1> DEFINE f == d - a
<1>5. f \in Int /\ f = b + N * (-q) /\ -q \in Int
  <2>1. a + b = N * q + d
    BY <1>3 DEF e
  <2> QED
    BY <1>1, <1>4, <2>1
<1> HIDE DEF f
<1>6. \E k \in Int : f = b + N * k
  BY <1>5, Zenon
<1>7. f % N = b % N
  BY <1>1, <1>5, <1>6, Congruent, Zenon
<1>8. b % N = b
  BY <1>1, Reduced
<1> QED
  BY <1>7, <1>8 DEF f

(* The sum of the parts less what the keys add to them.                      *)
LEMMA SumLessKeys ==
  ASSUME PrimeOrder, NEW n \in Nat, NEW f, NEW g, NEW h, Linear(n, f, 1, g, h)
  PROVE  (SumOf(h) - SumOf(f)) % N = SumOf(g)
<1>1. SumOf(h) = (SumOf(f) + 1 * SumOf(g)) % N
  BY SumIsLinear
<1>2. /\ Len(f) = n /\ Len(g) = n
      /\ \A i \in 1 .. n : f[i] \in Int /\ g[i] \in Int
  BY DEF Linear
<1>3. SumOf(f) \in Scalar /\ SumOf(g) \in Scalar
  BY <1>2, SumIsScalar
<1>4. SumOf(f) \in Int
  BY <1>3, Order DEF Scalar
<1> QED
  BY <1>1, <1>3, <1>4, LessKeys

LEMMA CombinedVerifies ==
  ASSUME PrimeOrder, Coordinates, Squares, AggsigInputs, ContextInv,
         combined # <<>>, ~disturbed, pubnonce_sum # 0, NEW msg \in Texts,
         \A i \in Signers : combined.of[i] # <<>> /\ combined.of[i].msg = msg
  PROVE  aggsig_verify(combined, msg)
<1> DEFINE n == Len(Seckeys)
           sighash(i) == compute_sighash(combined.x, msg, i)
           f == [i \in Signers |-> scalar_set_b32(sighash(i)) * Pubkeys[i]]
           g == secnonce
           h == [i \in Signers |-> parts[i].s]
<1>1. IsOfAll
  BY DEF ContextInv
<1>2. /\ combined.of = parts /\ combined.x = x_of(pubnonce_sum) /\ combined.s = SumOf(h)
      /\ has_quad_y(pubnonce_sum) /\ pubnonce_sum \in Scalar
  BY <1>1 DEF IsOfAll, ContextInv
<1>3. \A i \in Signers : parts[i] # <<>> /\ parts[i].msg = msg
  BY <1>2
<1>4. /\ n \in Nat /\ Signers = 1 .. n /\ Len(g) = n
      /\ N \in Nat /\ N > 0 /\ Scalar \subseteq Int
  BY SignersAre, OriginalTerms, Order DEF Scalar
<1>5. ASSUME NEW i \in Signers
      PROVE  /\ ~Overflow(sighash(i)) /\ f[i] \in Int /\ g[i] \in Int /\ h[i] \in Int
             /\ h[i] % N = (f[i] + g[i]) % N
  <2> DEFINE e == sighash(i)
             k == Seckeys[i]
             s == g[i]
  <2>1. IsPart(i)
    BY <1>3 DEF ContextInv
  <2>2. e \in Nat
    <3>1. compute_sighash(x_of(pubnonce_sum), msg, i) \in Nat
      BY <1>2, HashIsNumber
    <3> QED
      BY <1>2, <3>1
  <2>3. ~Overflow(e) /\ h[i] = (k * e + s) % N
    BY <1>2, <1>3, <2>1 DEF IsPart
  <2>4. k \in Int /\ s \in Int /\ Pubkeys[i] = k
    BY <1>4, SignersAre DEF ContextInv
  <2>5. f[i] = scalar_set_b32(e) * k
    BY <2>4
  <2> HIDE DEF e, k, s, f, g, h
  <2>6. e \in Scalar
    BY <1>4, <2>2, <2>3 DEF Overflow, Scalar
  <2>7. scalar_set_b32(e) = e
    BY <2>6, BytesOfScalar
  <2>8. f[i] \in Int /\ f[i] = k * e
    BY <2>2, <2>4, <2>5, <2>7
  <2> DEFINE a == k * e + s
  <2>9. a \in Int /\ a = f[i] + s
    BY <2>2, <2>4, <2>8
  <2>10. h[i] = a % N
    BY <2>3
  <2> HIDE DEF a
  <2>11. h[i] \in Int /\ h[i] % N = a % N
    <3>1. a % N \in Int /\ (a % N) % N = a % N
      <4>1. N \in Nat /\ N > 0 /\ a \in Int
        BY <1>4, <2>9
      <4> QED
        BY <4>1
    <3> QED
      BY <2>10, <3>1
  <2>12. ~Overflow(sighash(i)) /\ g[i] \in Int
    BY <2>3, <2>4 DEF e, s
  <2>13. h[i] % N = (f[i] + g[i]) % N
    BY <2>9, <2>11 DEF s
  <2> HIDE DEF sighash
  <2> QED
    BY <2>8, <2>11, <2>12, <2>13
<1>6. f = [i \in 1 .. n |-> f[i]] /\ h = [i \in 1 .. n |-> h[i]]
  BY <1>4
<1>7. SumOf(g) = pubnonce_sum
  <2>1. Original = [i \in Signers |-> secnonce[i]]
    BY <1>2 DEF Original
  <2>2. Original = secnonce
    BY <2>1 DEF ContextInv
  <2> QED
    BY <2>2 DEF ContextInv
<1> DEFINE point == (combined.s - SumOf(f)) % N
<1>8. point = pubnonce_sum
  <2> HIDE DEF f, g, h, n, sighash
  <2>1. Len(f) = n /\ Len(h) = n
    BY <1>4, <1>6, TermsHaveLength
  <2>2. \A i \in 1 .. n : /\ f[i] \in Int /\ g[i] \in Int /\ h[i] \in Int
                          /\ h[i] % N = (f[i] + g[i]) % N
    BY <1>4, <1>5
  <2>3. Linear(n, f, 1, g, h)
    BY <1>4, <2>1, <2>2 DEF Linear, InProportion
  <2>4. (SumOf(h) - SumOf(f)) % N = SumOf(g)
    BY <1>4, <2>3, SumLessKeys
  <2> QED
    BY <1>2, <1>7, <2>4
<1> HIDE DEF n, f, g, h
<1>9. combined.x = x_of(point) /\ has_quad_y(point)
  BY <1>2, <1>8
<1>10. \A i \in Signers : ~Overflow(sighash(i))
  BY <1>5
<1> QED
  BY <1>9, <1>10 DEF aggsig_verify, f

-----------------------------------------------------------------------------
(* Without a context.                                                        *)

\* What all signers hash, the nonce that i signs with, and what he signs.
HashOfAll == compute_sighash_single(Total.key, AllKey.key, 1)

SignsWith(i) == IF has_quad_y(Total.key) THEN nonces[i] ELSE scalar_negate(nonces[i])

Single(i) == [x |-> x_of(nonces[i]), s |-> (Seckeys[i] * HashOfAll + SignsWith(i)) % N]

\* The signature of one signer, with the nonce q.
AloneWith(q, key, extra) ==
  [sig   |-> [x |-> x_of(q), s |-> (key * compute_sighash_single(q, key, 1) + q + extra) % N],
   moved |-> extra, key |-> key]

IsAlone == \E q \in Quads, i \in Signers, extra \in Scalar : alone = AloneWith(q, Seckeys[i], extra)

SinglesInv ==
  /\ nonces \in [Signers -> Quads \cup {0}] /\ DOMAIN singles = Signers
  /\ \A i \in Signers : singles[i] # <<>> =>
       /\ \A j \in Signers : nonces[j] # 0
       /\ Total.ret /\ AllKey.ret /\ singles[i] = Single(i)
  /\ total # <<>> =>
       /\ \A i \in Signers : singles[i] # <<>>
       /\ total = [x |-> x_of(Total.key), s |-> SumOf([i \in Signers |-> singles[i].s])]
  /\ alone # <<>> => IsAlone

LEMMA KeyOfAll ==
  ASSUME PrimeOrder, AggsigInputs
  PROVE  SumOf(Pubkeys) \in Scalar
<1>1. Len(Pubkeys) \in Nat /\ \A i \in 1 .. Len(Pubkeys) : Pubkeys[i] \in Int
  BY SignersAre
<1> QED
  BY <1>1, SumIsScalar

(* When all nonces are drawn and the totals are keys.                        *)
LEMMA AllDrawn ==
  ASSUME PrimeOrder, Coordinates, Squares, AggsigInputs,
         nonces \in [Signers -> Quads \cup {0}], \A j \in Signers : nonces[j] # 0,
         Total.ret, AllKey.ret
  PROVE  /\ nonces \in [Signers -> Quads] /\ Len(nonces) = Len(Seckeys)
         /\ Total.key = SumOf(nonces) /\ Total.key \in Points
         /\ AllKey.key = SumOf(Pubkeys) /\ AllKey.key \in Points /\ HashOfAll \in Scalar
<1>1. nonces \in [Signers -> Quads]
  OBVIOUS
<1>2. Len(Seckeys) \in Nat /\ Signers = 1 .. Len(Seckeys)
  BY SignersAre
<1>3. Len(nonces) = Len(Seckeys)
  <2>1. nonces = [i \in 1 .. Len(Seckeys) |-> nonces[i]]
    BY <1>1, <1>2
  <2> QED
    BY <1>2, <2>1, TermsHaveLength
<1>4. SumOf(nonces) \in Scalar
  <2>1. \A i \in 1 .. Len(Seckeys) : nonces[i] \in Int
    BY <1>1, <1>2, QuadIsMeant
  <2> QED
    BY <1>2, <1>3, <2>1, SumIsScalar
<1>5. Total.key = SumOf(nonces) /\ Total.key # 0
  BY DEF Total, ec_pubkey_combine, Answer
<1>6. AllKey.key = SumOf(Pubkeys) /\ AllKey.key # 0
  BY DEF AllKey, ec_pubkey_combine, Answer
<1>7. Total.key \in Scalar /\ Total.key \in Points
  BY <1>4, <1>5, ScalarIsPoint
<1>8. AllKey.key \in Scalar /\ AllKey.key \in Points
  BY <1>6, KeyOfAll, ScalarIsPoint
<1>9. HashOfAll \in Scalar
  <2>1. 1 \in Signers
    BY <1>2, SignersAre
  <2> QED
    BY <1>7, <1>8, <2>1, HashIsNumber DEF HashOfAll
<1> QED
  BY <1>1, <1>3, <1>5, <1>6, <1>7, <1>8, <1>9

LEMMA SignsWithNonce ==
  ASSUME PrimeOrder, Squares, NEW i \in Signers, nonces[i] \in Quads
  PROVE  SignsWith(i) \in Scalar /\ SignsWith(i) \in Int /\ x_of(SignsWith(i)) = x_of(nonces[i])
<1>1. nonces[i] \in Points /\ nonces[i] \in Scalar
  BY QuadIsMeant
<1>2. /\ scalar_negate(nonces[i]) = N - nonces[i] /\ N - nonces[i] \in Points
      /\ x_of(N - nonces[i]) = x_of(nonces[i])
  BY <1>1, Turned
<1>3. N - nonces[i] \in Scalar
  BY <1>2, PointIsNumber
<1>4. SignsWith(i) \in Scalar /\ x_of(SignsWith(i)) = x_of(nonces[i])
  BY <1>1, <1>2, <1>3 DEF SignsWith
<1> QED
  BY <1>4, Order DEF Scalar

-----------------------------------------------------------------------------
(* One lemma for each call.                                                  *)

LEMMA ExportKeeps ==
  ASSUME PrimeOrder, Squares, AggsigInputs, SinglesInv,
         NEW index \in Signers, aggsig_export_secnonce_single(index), alone = <<>>
  PROVE  SinglesInv'
<1>1. PICK draw \in RandomBytes :
        /\ scalar_set_b32(draw) # 0
        /\ nonces' = [nonces EXCEPT ![index] = aggsig_generate_nonce_single(draw)]
  BY DEF aggsig_export_secnonce_single
<1>2. nonces[index] = 0 /\ alone' = alone /\ singles' = singles /\ total' = total
  BY DEF aggsig_export_secnonce_single
<1>3. aggsig_generate_nonce_single(draw) \in Quads
  <2>1. draw \in Nat
    BY DEF AggsigInputs
  <2> QED
    BY <1>1, <2>1, NonceIsQuad
<1>4. nonces' \in [Signers -> Quads \cup {0}]
  BY <1>1, <1>3 DEF SinglesInv
<1>5. \A i \in Signers : singles[i] = <<>>
  BY <1>2 DEF SinglesInv
<1>6. total = <<>>
  BY <1>5 DEF SinglesInv
<1> QED
  BY <1>2, <1>4, <1>5, <1>6 DEF SinglesInv

LEMMA SingleKeeps ==
  ASSUME PrimeOrder, Coordinates, Squares, AggsigInputs, SinglesInv,
         NEW index \in Signers, SignSingle(index), alone = <<>>
  PROVE  SinglesInv'
<1> DEFINE new == aggsig_sign_single(1, Seckeys[index], nonces[index], 0, 0, Total.key, Total.key, AllKey.key)
<1>1. /\ \A i \in Signers : nonces[i] # 0
      /\ Total.ret /\ AllKey.ret /\ singles[index] = <<>>
      /\ singles' = [singles EXCEPT ![index] = new]
      /\ alone' = alone /\ nonces' = nonces /\ total' = total
  BY DEF SignSingle
<1>2. /\ nonces \in [Signers -> Quads] /\ Total.key \in Points /\ HashOfAll \in Scalar
  BY <1>1, AllDrawn DEF SinglesInv
<1>3. new = Single(index)
  <2> DEFINE k == Seckeys[index]
             e == HashOfAll
             s == SignsWith(index)
  <2>1. /\ ~Overflow(k) /\ scalar_set_b32(k) = k /\ k \in Int
        /\ s \in Int /\ e \in Int /\ ~Overflow(0)
    BY <1>2, SignersAre, SignsWithNonce, Order DEF Scalar, Overflow
  <2>2. Total.key # 0 /\ nonces[index] # 0
    BY <1>1, <1>2, PointIsNumber
  <2>3. new = [x |-> x_of(nonces[index]), s |-> (scalar_set_b32(k) * e + s + 0) % N]
    BY <2>1, <2>2 DEF aggsig_sign_single, HashOfAll, SignsWith
  <2>4. scalar_set_b32(k) * e + s + 0 = k * e + s
    <3> HIDE DEF k, e, s
    <3> QED
      BY <2>1
  <2>5. new = [x |-> x_of(nonces[index]), s |-> (k * e + s) % N]
    <3> HIDE DEF k, e, s, new
    <3> QED
      BY <2>3, <2>4
  <2> QED
    BY <2>5 DEF Single
<1> HIDE DEF new
<1>4. Total' = Total /\ HashOfAll' = HashOfAll /\ \A i \in Signers : Single(i)' = Single(i)
  BY <1>1 DEF Total, HashOfAll, Single, SignsWith
<1>5. total = <<>>
  BY <1>1 DEF SinglesInv
<1>6. \A i \in Signers : singles'[i] # <<>> => singles'[i] = Single(i)
  BY <1>1, <1>3 DEF SinglesInv
<1> QED
  BY <1>1, <1>4, <1>5, <1>6 DEF SinglesInv

LEMMA AddKeeps ==
  ASSUME SinglesInv, AddSingles, alone = <<>>
  PROVE  SinglesInv'
<1>1. /\ \A i \in Signers : singles[i] # <<>>
      /\ total' = aggsig_add_signatures_single(singles, Total.key)
      /\ alone' = alone /\ nonces' = nonces /\ singles' = singles
  BY DEF AddSingles
<1>2. total' = [x |-> x_of(Total.key), s |-> SumOf([i \in Signers |-> singles[i].s])]
  BY <1>1 DEF aggsig_add_signatures_single, SinglesInv
<1>3. Total' = Total /\ \A i \in Signers : Single(i)' = Single(i)
  BY <1>1 DEF Total, HashOfAll, Single, SignsWith
<1> QED
  BY <1>1, <1>2, <1>3 DEF SinglesInv

LEMMA AloneKeeps ==
  ASSUME PrimeOrder, Coordinates, Squares, AggsigInputs, SinglesInv, SignAlone
  PROVE  SinglesInv'
<1>1. PICK i \in Signers, nonce \in {0} \cup {nonces[j] : j \in Signers}, draw \in RandomBytes, extra \in Extras :
        /\ scalar_set_b32(draw) # 0
        /\ alone' = [sig |-> aggsig_sign_single(1, Seckeys[i], nonce, draw, extra, 0, 0, Pubkeys[i]),
                     moved |-> extra, key |-> Pubkeys[i]]
  BY DEF SignAlone
<1>2. nonces' = nonces /\ singles' = singles /\ total' = total
  BY DEF SignAlone
<1> DEFINE q == IF nonce = 0 THEN aggsig_generate_nonce_single(draw) ELSE nonce
           k == Seckeys[i]
           e == compute_sighash_single(q, k, 1)
<1>3. q \in Quads
  <2>1. draw \in Nat
    BY DEF AggsigInputs
  <2>2. aggsig_generate_nonce_single(draw) \in Quads
    BY <1>1, <2>1, NonceIsQuad
  <2>3. nonce = 0 \/ nonce \in Quads
    BY DEF SinglesInv
  <2> QED
    BY <2>2, <2>3
<1>4. extra \in Scalar /\ ~Overflow(extra) /\ extra \in Int
  <2>1. extra \in Scalar
    BY DEF AggsigInputs
  <2> QED
    BY <2>1, BytesOfScalar, Order DEF Scalar
<1>5. Pubkeys[i] = k /\ ~Overflow(k) /\ scalar_set_b32(k) = k
  BY SignersAre
<1>6. has_quad_y(q)
  BY <1>3, QuadIsMeant
<1>7. aggsig_sign_single(1, k, nonce, draw, extra, 0, 0, Pubkeys[i])
        = [x |-> x_of(q), s |-> (k * e + q + extra) % N]
  BY <1>4, <1>5, <1>6 DEF aggsig_sign_single
<1> HIDE DEF q, k, e
<1>8. alone' = [sig |-> [x |-> x_of(q), s |-> (k * e + q + extra) % N], moved |-> extra, key |-> k]
  BY <1>1, <1>5, <1>7 DEF k
<1>9. alone' = AloneWith(q, Seckeys[i], extra)
  BY <1>8 DEF AloneWith, e, k
<1>10. IsAlone'
  BY <1>3, <1>4, <1>9 DEF IsAlone
<1>11. Total' = Total /\ \A j \in Signers : Single(j)' = Single(j)
  BY <1>2 DEF Total, HashOfAll, Single, SignsWith
<1> QED
  BY <1>2, <1>10, <1>11 DEF SinglesInv

-----------------------------------------------------------------------------
(* What verifies.                                                            *)

LEMMA PartVerifies ==
  ASSUME PrimeOrder, Coordinates, Squares, AggsigInputs, SinglesInv,
         NEW i \in Signers, singles[i] # <<>>
  PROVE  aggsig_verify_single(singles[i], 1, Total.key, Pubkeys[i], AllKey.key, 0, TRUE)
<1> DEFINE k == Seckeys[i]
           e == HashOfAll
           s == SignsWith(i)
           d == singles[i].s
<1>1. /\ singles[i] = Single(i) /\ nonces \in [Signers -> Quads]
      /\ Total.key \in Points /\ HashOfAll \in Scalar
  BY AllDrawn DEF SinglesInv
<1>2. k \in Int /\ e \in Int /\ Pubkeys[i] = k /\ Total.key # 0
  <2>1. e \in Int
    BY <1>1, Order DEF Scalar
  <2> HIDE DEF e
  <2> QED
    BY <1>1, <2>1, SignersAre, PointIsNumber
<1>3. s \in Scalar /\ s \in Int /\ x_of(s) = x_of(nonces[i])
  BY <1>1, SignsWithNonce
<1>4. d = (k * e + s) % N /\ singles[i].x = x_of(nonces[i])
  BY <1>1 DEF Single
<1> HIDE DEF k, e, s, d
<1>5. (d - e * k - 0) % N = s
  <2> DEFINE a == k * e
  <2>1. a \in Int /\ a = e * k
    BY <1>2
  <2> HIDE DEF a
  <2>2. d = (a + 1 * s) % N
    BY <1>3, <1>4, <2>1 DEF a
  <2>3. (d - a) % N = s
    BY <1>3, <2>1, <2>2, LessKeys
  <2>4. d \in Int
    <3>1. a + 1 * s \in Int
      BY <1>3, <2>1
    <3> HIDE DEF a
    <3> QED
      BY <2>2, <3>1, Order
  <2>5. d - e * k - 0 = d - a
    BY <2>1, <2>4
  <2> QED
    BY <2>3, <2>5
<1>6. compute_sighash_single(Total.key, AllKey.key, 1) = e
  BY DEF e, HashOfAll
<1> QED
  BY <1>2, <1>3, <1>4, <1>5, <1>6 DEF aggsig_verify_single, d

(* The sum of what the signers sign with is the point that is meant.         *)
LEMMA SumIsMeant ==
  ASSUME PrimeOrder, Coordinates, Squares, AggsigInputs, nonces \in [Signers -> Quads],
         Len(nonces) = Len(Seckeys), Total.key = SumOf(nonces), Total.key \in Points
  PROVE  /\ SumOf([i \in Signers |-> SignsWith(i)]) = point_set_xquad(x_of(Total.key))
         /\ point_set_xquad(x_of(Total.key)) \in Quads
         /\ x_of(point_set_xquad(x_of(Total.key))) = x_of(Total.key)
<1> DEFINE h == [i \in Signers |-> SignsWith(i)]
           R == point_set_xquad(x_of(Total.key))
<1>1. R = IF has_quad_y(Total.key) THEN Total.key ELSE N - Total.key
  BY FoundByX
<1>2. /\ scalar_negate(Total.key) = N - Total.key /\ N - Total.key \in Points
      /\ x_of(N - Total.key) = x_of(Total.key)
      /\ has_quad_y(N - Total.key) <=> ~has_quad_y(Total.key)
  BY Turned
<1>3. R \in Quads /\ x_of(R) = x_of(Total.key)
  BY <1>1, <1>2 DEF Quads
<1>4. SumOf(h) = R
  <2>1. CASE has_quad_y(Total.key)
    <3>1. h = [i \in Signers |-> nonces[i]]
      BY <2>1 DEF SignsWith
    <3>2. h = nonces
      BY <3>1
    <3> HIDE DEF h, R
    <3> QED
      BY <1>1, <2>1, <3>2
  <2>2. CASE ~has_quad_y(Total.key)
    <3> DEFINE n == Len(Seckeys)
               g == nonces
    <3>1. n \in Nat /\ Signers = 1 .. n /\ Len(g) = n
      BY SignersAre
    <3>2. \A i \in 1 .. n : g[i] \in Int /\ h[i] = scalar_negate(g[i])
      <4> SUFFICES ASSUME NEW i \in Signers PROVE g[i] \in Int /\ h[i] = scalar_negate(g[i])
        BY <3>1
      <4>1. nonces[i] \in Int
        BY QuadIsMeant
      <4> QED
        BY <2>2, <4>1 DEF SignsWith
    <3>3. h = [i \in 1 .. n |-> h[i]]
      BY <3>1
    <3> HIDE DEF n, g, h, R
    <3>4. Len(h) = n
      BY <3>1, <3>3, TermsHaveLength
    <3>5. SumOf(h) = scalar_negate(SumOf(g))
      BY <3>1, <3>2, <3>4, SumIsNegated
    <3> QED
      BY <1>1, <1>2, <2>2, <3>5 DEF g
  <2> QED
    BY <2>1, <2>2
<1> QED
  BY <1>3, <1>4

LEMMA TotalVerifies ==
  ASSUME PrimeOrder, Coordinates, Squares, AggsigInputs, SinglesInv, total # <<>>
  PROVE  aggsig_verify_single(total, 1, 0, AllKey.key, AllKey.key, 0, FALSE)
<1> DEFINE n == Len(Seckeys)
           e == HashOfAll
           R == point_set_xquad(x_of(Total.key))
           f == [i \in Signers |-> SignsWith(i)]
           h == [i \in Signers |-> singles[i].s]
           all == AllKey.key
           d == total.s
<1>1. /\ \A i \in Signers : singles[i] # <<>> /\ singles[i] = Single(i)
      /\ total.x = x_of(Total.key) /\ d = SumOf(h)
  BY DEF SinglesInv
<1>2. n \in Nat /\ n > 0 /\ Signers = 1 .. n /\ Pubkeys = Seckeys
  BY SignersAre
<1>3. /\ nonces \in [Signers -> Quads] /\ Len(nonces) = n
      /\ Total.key = SumOf(nonces) /\ Total.key \in Points
      /\ all = SumOf(Pubkeys) /\ all \in Points /\ e \in Scalar
  <2>1. 1 \in Signers
    BY <1>2
  <2> QED
    BY <1>1, <2>1, AllDrawn DEF SinglesInv
<1>4. SumOf(f) = R /\ R \in Quads /\ x_of(R) = x_of(Total.key)
  BY <1>3, SumIsMeant
<1>5. e \in Int /\ all \in Int /\ N \in Nat /\ N > 0
  BY <1>3, PointIsNumber, Order DEF Scalar
<1>6. Linear(n, f, e, Pubkeys, h)
  <2> SUFFICES ASSUME NEW i \in Signers
               PROVE  /\ f[i] \in Int /\ Pubkeys[i] \in Int /\ h[i] \in Int
                      /\ InProportion(f[i], Pubkeys[i], e, h[i])
    <3>1. f = [i \in 1 .. n |-> f[i]] /\ h = [i \in 1 .. n |-> h[i]]
      BY <1>2
    <3>2. Len(Pubkeys) = n
      BY <1>2
    <3> HIDE DEF f, h, n, e
    <3>3. Len(f) = n /\ Len(h) = n
      BY <1>2, <3>1, TermsHaveLength
    <3> QED
      BY <1>2, <3>2, <3>3 DEF Linear
  <2> DEFINE k == Seckeys[i]
             s == SignsWith(i)
  <2>1. s \in Int /\ k \in Int /\ Pubkeys[i] = k
    BY <1>2, <1>3, SignersAre, SignsWithNonce
  <2>2. h[i] = (k * e + s) % N /\ f[i] = s
    <3>1. h[i] = singles[i].s /\ f[i] = s
      OBVIOUS
    <3>2. singles[i].s = (k * e + s) % N
      <4>1. singles[i] = Single(i)
        BY <1>1
      <4>2. Single(i).s = (k * e + s) % N
        BY DEF Single
      <4> QED
        BY <4>1, <4>2
    <3> QED
      BY <3>1, <3>2
  <2> HIDE DEF k, s, f, h, e
  <2> DEFINE a == k * e + s
  <2>3. a \in Int /\ a = s + e * k /\ h[i] = a % N
    BY <1>5, <2>1, <2>2
  <2> HIDE DEF a
  <2>4. h[i] \in Int /\ h[i] % N = a % N
    BY <1>5, <2>3
  <2> QED
    BY <2>1, <2>2, <2>3, <2>4 DEF InProportion
<1>7. (d - e * all - 0) % N = R
  <2> DEFINE a == e * all
  <2>1. a \in Int
    BY <1>5
  <2>2. R \in Scalar /\ R \in Int
    BY <1>4, QuadIsMeant
  <2> HIDE DEF f, h, e, R, d, all, n
  <2>3. d = (R + e * all) % N
    BY <1>1, <1>2, <1>3, <1>4, <1>5, <1>6, SumIsLinear
  <2>4. R + e * all = a + 1 * R
    BY <2>1, <2>2
  <2>5. d = (a + 1 * R) % N
    BY <2>3, <2>4
  <2>6. d \in Int
    <3>1. a + 1 * R \in Int
      BY <2>1, <2>2
    <3> QED
      BY <1>5, <2>5, <3>1
  <2>7. d - e * all - 0 = d - a
    BY <2>1, <2>6
  <2> HIDE DEF a
  <2>8. (d - a) % N = R
    BY <2>1, <2>2, <2>5, LessKeys
  <2> QED
    BY <2>7, <2>8
<1>8. compute_sighash_single(R, all, 1) = e
  BY <1>4 DEF compute_sighash_single, HashOfAll
<1>9. has_quad_y(R)
  BY <1>4, QuadIsMeant
<1> HIDE DEF f, h, e, d, all, n
<1> QED
  BY <1>1, <1>4, <1>7, <1>8, <1>9 DEF aggsig_verify_single, d, all

(* Of two scalars, the other one is left.                                    *)
LEMMA OtherIsLeft ==
  ASSUME PrimeOrder, NEW a \in Scalar, NEW b \in Scalar, NEW c,
         c = (((0 + a) % N) + b) % N \/ c = (((0 + b) % N) + a) % N
  PROVE  c \in Scalar /\ (c - a) % N = b
<1>1. N \in Nat /\ N > 0 /\ a \in Int /\ b \in Int /\ a \in 0 .. N - 1 /\ b \in 0 .. N - 1
  BY Order DEF Scalar
<1>2. (0 + a) % N = a /\ (0 + b) % N = b
  BY <1>1
<1>3. c = (a + b) % N
  <2>1. a + b = b + a
    BY <1>1
  <2> QED
    BY <1>2, <2>1
<1>4. c = (a + 1 * b) % N
  BY <1>1, <1>3
<1>5. c \in Scalar
  <2>1. a + b \in Int
    BY <1>1
  <2> QED
    BY <1>3, <2>1, Reduced
<1> QED
  BY <1>1, <1>4, <1>5, LessKeys

LEMMA SumOfTwo ==
  ASSUME PrimeOrder, NEW terms, Len(terms) = 2, terms[1] \in Int, terms[2] \in Int
  PROVE  SumOf(terms) = (((0 + terms[1]) % N) + terms[2]) % N
<1>1. Len(terms) \in Nat /\ \A i \in 1 .. Len(terms) : terms[i] \in Int
  <2>1. \A i \in 1 .. 2 : i = 1 \/ i = 2
    OBVIOUS
  <2> QED
    BY <2>1
<1>2. PICK sums \in [0 .. Len(terms) -> Scalar] :
        PartialSums(sums, terms) /\ SumOf(terms) = sums[Len(terms)]
  BY <1>1, SumHasSums
<1>3. /\ sums[0] = 0 /\ \A i \in 1 .. 2 : sums[i] = (sums[i - 1] + terms[i]) % N
      /\ SumOf(terms) = sums[2]
  BY <1>2 DEF PartialSums
<1>4. sums[1] = (sums[0] + terms[1]) % N /\ sums[2] = (sums[1] + terms[2]) % N
  BY <1>3
<1> QED
  BY <1>3, <1>4

LEMMA PartComesOff ==
  ASSUME PrimeOrder, Coordinates, Squares, AggsigInputs, SinglesInv, total # <<>>,
         Signers = 1 .. 2, NEW i \in Signers
  PROVE  singles[3 - i] \in aggsig_subtract_partial_signature(total, singles[i])
<1> DEFINE j == 3 - i
           T == Total.key
           R == point_set_xquad(x_of(T))
           h == [k \in Signers |-> singles[k].s]
<1>1. i \in {1, 2} /\ j \in Signers /\ (i = 1 => j = 2) /\ (i = 2 => j = 1)
  BY DEF Signers
<1>2. /\ \A k \in Signers : singles[k] # <<>> /\ singles[k] = Single(k)
      /\ total.x = x_of(T) /\ total.s = SumOf(h)
  BY DEF SinglesInv
<1>3. /\ nonces \in [Signers -> Quads] /\ Len(nonces) = Len(Seckeys)
      /\ T = SumOf(nonces) /\ T \in Points /\ HashOfAll \in Scalar
  BY <1>2, AllDrawn DEF SinglesInv
<1>4. Len(Seckeys) = 2
  <2>1. Len(Seckeys) \in Nat /\ 1 .. Len(Seckeys) = 1 .. 2
    BY SignersAre
  <2>2. 2 \in 1 .. Len(Seckeys) /\ Len(Seckeys) \in 1 .. Len(Seckeys)
    BY <2>1, SignersAre
  <2>3. Len(Seckeys) \in 1 .. 2
    BY <2>1, <2>2
  <2> DEFINE n == Len(Seckeys)
  <2>4. n \in Nat /\ n >= 2 /\ n <= 2
    <3> HIDE DEF n
    <3>1. n \in Nat /\ 2 \in 1 .. n /\ n \in 1 .. 2
      BY <2>1, <2>2, <2>3 DEF n
    <3> QED
      BY <3>1
  <2> HIDE DEF n
  <2>5. n = 2
    BY <2>4
  <2> QED
    BY <2>5 DEF n
<1>5. \A k \in Signers : /\ nonces[k] \in Quads /\ nonces[k] \in Scalar /\ nonces[k] \in Int
                         /\ singles[k].s \in Scalar /\ singles[k].s \in Int
                         /\ singles[k].x = x_of(nonces[k])
                         /\ singles[k] = [x |-> singles[k].x, s |-> singles[k].s]
  <2> SUFFICES ASSUME NEW k \in Signers
               PROVE  /\ nonces[k] \in Quads /\ nonces[k] \in Scalar /\ nonces[k] \in Int
                      /\ singles[k].s \in Scalar /\ singles[k].s \in Int
                      /\ singles[k].x = x_of(nonces[k])
                      /\ singles[k] = [x |-> singles[k].x, s |-> singles[k].s]
    OBVIOUS
  <2>1. nonces[k] \in Quads /\ nonces[k] \in Scalar /\ nonces[k] \in Int
    BY <1>3, QuadIsMeant
  <2>2. singles[k] = [x |-> x_of(nonces[k]), s |-> (Seckeys[k] * HashOfAll + SignsWith(k)) % N]
    BY <1>2 DEF Single
  <2>3. Seckeys[k] * HashOfAll + SignsWith(k) \in Int
    <3>1. Seckeys[k] \in Int /\ HashOfAll \in Int /\ SignsWith(k) \in Int
      <4>1. HashOfAll \in Int
        BY <1>3, Order DEF Scalar
      <4> QED
        BY <2>1, <4>1, SignersAre, SignsWithNonce
    <3> QED
      BY <3>1
  <2>4. (Seckeys[k] * HashOfAll + SignsWith(k)) % N \in Scalar
    BY <2>3, Reduced
  <2>5. singles[k].s \in Scalar
    BY <2>2, <2>4
  <2> QED
    BY <2>1, <2>2, <2>5, Order DEF Scalar
<1> HIDE DEF j, T, R, h
<1>6. T \in Scalar /\ (T - nonces[i]) % N = nonces[j]
  <2>1. T = (((0 + nonces[1]) % N) + nonces[2]) % N
    <3>1. nonces[1] \in Int /\ nonces[2] \in Int
      BY <1>5
    <3> QED
      BY <1>3, <1>4, <3>1, SumOfTwo
  <2> QED
    BY <1>1, <1>5, <2>1, OtherIsLeft
<1>7. total.s \in Scalar /\ (total.s - singles[i].s) % N = singles[j].s
  <2>1. h = [k \in 1 .. 2 |-> h[k]] /\ h[1] = singles[1].s /\ h[2] = singles[2].s
    BY DEF h
  <2>2. Len(h) = 2
    BY <2>1, TermsHaveLength
  <2>3. total.s = (((0 + singles[1].s) % N) + singles[2].s) % N
    <3>1. h[1] \in Int /\ h[2] \in Int
      BY <1>5, <2>1
    <3> QED
      BY <1>2, <2>1, <2>2, <3>1, SumOfTwo
  <2> QED
    BY <1>1, <1>5, <2>3, OtherIsLeft
<1>8. point_set_xquad(singles[i].x) = nonces[i]
  BY <1>5, QuadIsMeant
<1>9. nonces[j] \in {(R - nonces[i]) % N, (N - R - nonces[i]) % N}
  <2>1. R = T \/ R = N - T
    BY <1>3, FoundByX DEF R
  <2>2. R = N - T => N - R - nonces[i] = T - nonces[i]
    <3>1. T \in Int /\ N \in Int /\ nonces[i] \in Int
      BY <1>5, <1>6, Order DEF Scalar
    <3> QED
      BY <3>1
  <2> QED
    BY <1>6, <2>1, <2>2
<1>10. has_quad_y(nonces[j])
  BY <1>1, <1>5, QuadIsMeant
<1>11. point_set_xquad(total.x) = R
  BY <1>2 DEF R
<1>12. singles[j] = [x |-> x_of(nonces[j]), s |-> (total.s - singles[i].s) % N]
  BY <1>1, <1>5, <1>7
<1>13. singles[j] \in aggsig_subtract_partial_signature(total, singles[i])
  BY <1>8, <1>9, <1>10, <1>11, <1>12 DEF aggsig_subtract_partial_signature
<1> QED
  BY <1>13 DEF j

LEMMA AloneVerifies ==
  ASSUME PrimeOrder, Coordinates, Squares, AggsigInputs, IsAlone
  PROVE  aggsig_verify_single(alone.sig, 1, 0, alone.key, alone.key, alone.moved, FALSE)
<1>1. PICK q \in Quads, i \in Signers, extra \in Scalar : alone = AloneWith(q, Seckeys[i], extra)
  BY DEF IsAlone
<1> DEFINE k == Seckeys[i]
           e == compute_sighash_single(q, k, 1)
           d == alone.sig.s
<1>2. /\ alone.sig.x = x_of(q) /\ d = (k * e + q + extra) % N
      /\ alone.key = k /\ alone.moved = extra
  BY <1>1 DEF AloneWith
<1>3. q \in Scalar /\ q \in Int /\ has_quad_y(q) /\ point_set_xquad(x_of(q)) = q
  BY QuadIsMeant
<1>4. k \in Points /\ k \in Scalar /\ k \in Int
  BY SignersAre, PointIsNumber
<1>5. e \in Scalar
  BY <1>3, <1>4, HashIsNumber
<1>6. e \in Int /\ extra \in Int
  BY <1>5, Order DEF Scalar
<1> HIDE DEF k, e, d
<1>7. (d - e * k - extra) % N = q
  <2> DEFINE a == e * k + extra
  <2>1. a \in Int /\ k * e + q + extra = a + 1 * q
    BY <1>3, <1>4, <1>6
  <2>2. d = (a + 1 * q) % N
    BY <1>2, <2>1
  <2>3. d \in Int
    <3>1. a + 1 * q \in Int
      BY <1>3, <2>1
    <3> HIDE DEF a
    <3> QED
      BY <2>2, <3>1, Order
  <2>4. d - e * k - extra = d - a
    BY <1>4, <1>6, <2>3
  <2> HIDE DEF a
  <2>5. (d - a) % N = q
    BY <1>3, <2>1, <2>2, LessKeys
  <2> QED
    BY <2>4, <2>5
<1> QED
  BY <1>2, <1>3, <1>7 DEF aggsig_verify_single, d, e

-----------------------------------------------------------------------------

LEMMA AggsigInvHolds ==
  ASSUME PrimeOrder, Coordinates, Squares, AggsigInputs,
         ContextInv, SinglesInv, [AggsigNext]_aggsigVars
  PROVE  ContextInv' /\ SinglesInv'
<1>1. CASE ContextCall
  <2>1. ContextInv'
    <3>1. CASE \E i \in Signers : aggsig_generate_nonce(i)
      BY <3>1, DrawKeeps
    <3>2. CASE \E i \in Signers, msg \in Texts :
                 \E secret \in {Seckeys[i], Invalid} : aggsig_partial_sign(i, msg, secret)
      BY <3>2, PartKeeps
    <3>3. CASE aggsig_combine_signatures
      BY <3>3, CombineKeeps
    <3> QED
      BY <1>1, <3>1, <3>2, <3>3 DEF ContextCall
  <2>2. alone' = alone /\ nonces' = nonces /\ singles' = singles /\ total' = total
    BY <1>1 DEF ContextCall, singleVars
  <2>3. SinglesInv'
    BY <2>2 DEF SinglesInv, IsAlone, Total, Single, SignsWith, HashOfAll
  <2> QED
    BY <2>1, <2>3
<1>2. CASE SingleCall
  <2>1. SinglesInv'
    <3>1. CASE \E i \in Signers : aggsig_export_secnonce_single(i)
      BY <1>2, <3>1, ExportKeeps DEF SingleCall
    <3>2. CASE \E i \in Signers : SignSingle(i)
      BY <1>2, <3>2, SingleKeeps DEF SingleCall
    <3>3. CASE AddSingles
      BY <1>2, <3>3, AddKeeps DEF SingleCall
    <3>4. CASE SignAlone
      BY <3>4, AloneKeeps
    <3> QED
      BY <1>2, <3>1, <3>2, <3>3, <3>4 DEF SingleCall
  <2>2. /\ progress' = progress /\ secnonce' = secnonce /\ pubnonce_sum' = pubnonce_sum
        /\ parts' = parts /\ combined' = combined /\ disturbed' = disturbed
    BY <1>2 DEF SingleCall, contextVars
  <2>3. ContextInv'
    BY <2>2 DEF ContextInv, IsOfAll, IsPart, Original
  <2> QED
    BY <2>1, <2>3
<1>3. CASE UNCHANGED aggsigVars
  <2>1. /\ progress' = progress /\ secnonce' = secnonce /\ pubnonce_sum' = pubnonce_sum
        /\ parts' = parts /\ combined' = combined /\ disturbed' = disturbed
        /\ alone' = alone /\ nonces' = nonces /\ singles' = singles /\ total' = total
    BY <1>3 DEF aggsigVars, contextVars, singleVars
  <2>2. ContextInv'
    BY <2>1 DEF ContextInv, IsOfAll, IsPart, Original
  <2>3. SinglesInv'
    BY <2>1 DEF SinglesInv, IsAlone, Total, Single, SignsWith, HashOfAll
  <2> QED
    BY <2>2, <2>3
<1> QED
  BY <1>1, <1>2, <1>3 DEF AggsigNext

\* AggregatesAlwaysVerify: in any group of prime order where of a point and its negative
\* one has a square y, for any number of signers with any keys, whatever they draw and
\* whatever the hash is, the signatures they make together verify: with a context, in any
\* order and also after calls that failed or combined early and left the signs of the
\* nonces alone; without one each part, the sum of all, and what is left when a part
\* is taken off; and that of one signer, moved by a scalar or not.
THEOREM AggregatesAlwaysVerify ==
  ASSUME PrimeOrder, Coordinates, Squares, AggsigInputs
  PROVE  AggsigInit /\ [][AggsigNext]_aggsigVars => []AggregatesVerify
<1>1. AggsigInit => ContextInv /\ SinglesInv
  BY ContextStarts DEF AggsigInit, SinglesInv
<1>2. ContextInv /\ SinglesInv /\ [AggsigNext]_aggsigVars => (ContextInv /\ SinglesInv)'
  BY AggsigInvHolds
<1>3. ContextInv /\ SinglesInv => AggregatesVerify
  <2> SUFFICES ASSUME ContextInv, SinglesInv PROVE AggregatesVerify
    OBVIOUS
  <2>1. ASSUME combined # <<>>, ~disturbed, pubnonce_sum # 0, NEW msg \in Texts,
               \A i \in Signers : combined.of[i] # <<>> /\ combined.of[i].msg = msg
        PROVE  aggsig_verify(combined, msg)
    BY <2>1, CombinedVerifies
  <2>2. ASSUME NEW i \in Signers, singles[i] # <<>>
        PROVE  aggsig_verify_single(singles[i], 1, Total.key, Pubkeys[i], AllKey.key, 0, TRUE)
    BY <2>2, PartVerifies
  <2>3. ASSUME NEW i \in Signers, total # <<>>, Signers = 1 .. 2
        PROVE  singles[3 - i] \in aggsig_subtract_partial_signature(total, singles[i])
    BY <2>3, PartComesOff
  <2>4. total # <<>> => aggsig_verify_single(total, 1, 0, AllKey.key, AllKey.key, 0, FALSE)
    BY TotalVerifies
  <2>5. alone # <<>> => aggsig_verify_single(alone.sig, 1, 0, alone.key, alone.key, alone.moved, FALSE)
    BY AloneVerifies DEF SinglesInv
  <2> QED
    BY <2>1, <2>2, <2>3, <2>4, <2>5, Zenon DEF AggregatesVerify
<1> QED
  BY <1>1, <1>2, <1>3, PTL
=============================================================================
