----------------------------- MODULE PublicKeys -----------------------------
(***************************************************************************)
(* Secret and public keys of the library (secp256k1.c, eckey_impl.h) over  *)
(* a group of N points.  A point is the multiple of the generator it is, 0 *)
(* for the one at infinity, with coordinates X and Y; module Curve shows   *)
(* that the points of the library add up this way.  32 bytes are a number, *)
(* which need not be less than N or FieldSize.  Memory of a public key     *)
(* that was overwritten with zeros is 0: it has the x that no point has.   *)
(***************************************************************************)
EXTENDS Integers, Sequences, FiniteSets

CONSTANTS
  N,          \* the number of points, a prime
  FieldSize,  \* the characteristic of the field, more than N and less than 2 N
  X, Y        \* the coordinates of the points but the one at infinity

Scalar == 0 .. N - 1

Points == 1 .. N - 1

Overflow(bytes) == bytes >= N

scalar_set_b32(bytes) == bytes % N

scalar_negate(s) == (-s) % N

scalar_inverse(s) == IF s = 0 THEN 0 ELSE CHOOSE t \in Scalar : (s * t) % N = 1

scalar_is_high(s) == s > N \div 2

IsQuad(y) == \E root \in 0 .. FieldSize - 1 : (root * root) % FieldSize = y

has_quad_y(point) == point # 0 /\ IsQuad(Y[point])

\* At infinity the coordinates in memory are zeros.
x_of(point) == IF point = 0 THEN 0 ELSE X[point]

is_odd(y) == y % 2 = 1

\* The only point with x and the given y, 0 if there is none.
TheOne(points) == IF points = {} THEN 0 ELSE CHOOSE point \in points : TRUE

\* What the ge_set_... functions make of an x.
point_set_xo_var(x, odd) == TheOne({p \in Points : X[p] = x /\ (is_odd(Y[p]) <=> odd)})

point_set_xquad(x) == TheOne({p \in Points : X[p] = x /\ IsQuad(Y[p])})

-----------------------------------------------------------------------------
(* Public keys in bytes: 33 with the parity of y in the prefix, or 65 with y,  *)
(* where two of three prefixes give the parity once more.                      *)
eckey_pubkey_parse(input) ==
  IF input.size = 33 /\ input.prefix \in {2, 3} THEN point_set_xo_var(input.x, input.prefix = 3)
  ELSE IF input.size = 65 /\ input.prefix \in {4, 6, 7} THEN
    TheOne({p \in Points : /\ X[p] = input.x /\ Y[p] = input.y
                           /\ input.prefix # 4 => (is_odd(input.y) <=> input.prefix = 7)})
  ELSE 0

eckey_pubkey_serialize(point, compressed) ==
  IF compressed THEN [size |-> 33, prefix |-> IF is_odd(Y[point]) THEN 3 ELSE 2, x |-> X[point]]
  ELSE [size |-> 65, prefix |-> 4, x |-> X[point], y |-> Y[point]]

-----------------------------------------------------------------------------
(* Calls that change a key say whether they succeeded; the key is zeros after *)
(* one that did not.                                                          *)
Answer(ret, key) == [ret |-> ret, key |-> IF ret THEN key ELSE 0]

ec_seckey_verify(seckey) == ~Overflow(seckey) /\ scalar_set_b32(seckey) # 0

ec_pubkey_create(seckey) ==
  Answer(~Overflow(seckey) /\ scalar_set_b32(seckey) # 0, scalar_set_b32(seckey))

ec_pubkey_parse(input) == Answer(eckey_pubkey_parse(input) # 0, eckey_pubkey_parse(input))

pubkey_load(pubkey) == pubkey # 0

\* A secret key is not checked, here and below: it is reduced.
ec_privkey_negate(seckey) == Answer(TRUE, scalar_negate(scalar_set_b32(seckey)))

ec_pubkey_negate(pubkey) == Answer(pubkey_load(pubkey), scalar_negate(pubkey))

ec_privkey_tweak_add(seckey, tweak) ==
  LET sum == (scalar_set_b32(seckey) + scalar_set_b32(tweak)) % N
  IN Answer(~Overflow(tweak) /\ sum # 0, sum)

\* Fault: the sum is not looked at.
ec_pubkey_tweak_addFault(pubkey, tweak) ==
  Answer(~Overflow(tweak) /\ pubkey_load(pubkey), (pubkey + scalar_set_b32(tweak)) % N)

ec_pubkey_tweak_add(pubkey, tweak) ==
  LET sum == (pubkey + scalar_set_b32(tweak)) % N
  IN Answer(~Overflow(tweak) /\ pubkey_load(pubkey) /\ sum # 0, sum)

ec_privkey_tweak_mul(seckey, tweak) ==
  Answer(~Overflow(tweak) /\ scalar_set_b32(tweak) # 0,
         (scalar_set_b32(seckey) * scalar_set_b32(tweak)) % N)

ec_pubkey_tweak_mul(pubkey, tweak) ==
  Answer(~Overflow(tweak) /\ pubkey_load(pubkey) /\ scalar_set_b32(tweak) # 0,
         (pubkey * scalar_set_b32(tweak)) % N)

ec_privkey_tweak_inv(seckey) == Answer(~Overflow(seckey), scalar_inverse(scalar_set_b32(seckey)))

ec_privkey_tweak_neg(seckey) == Answer(~Overflow(seckey), scalar_negate(scalar_set_b32(seckey)))

SumOf(terms) ==
  LET sum[i \in 0 .. Len(terms)] == IF i = 0 THEN 0 ELSE (sum[i - 1] + terms[i]) % N
  IN sum[Len(terms)]

\* Keys that cannot be loaded are not looked for: the caller has none.
ec_pubkey_combine(pubkeys) == Answer(SumOf(pubkeys) # 0, SumOf(pubkeys))

-----------------------------------------------------------------------------
(* What the proofs assume of the group and of the coordinates.                 *)

\* The order of the group is an odd prime.
PrimeOrder == N \in Nat /\ N > 2 /\ \A d \in 2 .. N - 1 : N % d # 0

\* Over one x there are two points at most, with y of different parity.
Coordinates ==
  /\ X \in [Points -> Nat] /\ Y \in [Points -> Nat]
  /\ \A p \in Points, q \in Points :
       X[p] = X[q] /\ (is_odd(Y[p]) <=> is_odd(Y[q])) => p = q

\* Over one x there are a point and its negative only, one of them with a square y.
Squares ==
  \A p \in Points :
    /\ X[N - p] = X[p] /\ (IsQuad(Y[N - p]) <=> ~IsQuad(Y[p]))
    /\ \A q \in Points : X[q] = X[p] => q \in {p, N - p}
=============================================================================
