------------------------------ MODULE KeyPair ------------------------------
(***************************************************************************)
(* A caller that keeps a secret key and its public key, perhaps in two     *)
(* places, and changes both by the calls that the library has for each.    *)
(* It goes on while both calls succeed.                                    *)
(***************************************************************************)
EXTENDS PublicKeys

CONSTANT Bytes  \* bound: the numbers that 32 bytes stand for

VARIABLES seckey, pubkey, answers

pairVars == <<seckey, pubkey, answers>>

PairInit == seckey \in Bytes /\ pubkey = 0 /\ answers = <<>>

\* Either key after a call, and what the calls said.
Become(secret, public) ==
  seckey' = secret.key /\ pubkey' = public.key /\ answers' = <<secret.ret, public.ret>>

Create ==
  /\ answers = <<>>
  /\ pubkey' = ec_pubkey_create(seckey).key
  /\ answers' = <<ec_seckey_verify(seckey), ec_pubkey_create(seckey).ret>>
  /\ UNCHANGED seckey

InUse == answers = <<TRUE, TRUE>>

Negate ==
  InUse /\ \/ Become(ec_privkey_negate(seckey), ec_pubkey_negate(pubkey))
           \/ Become(ec_privkey_tweak_neg(seckey), ec_pubkey_negate(pubkey))

TweakAdd ==
  InUse /\ \E tweak \in Bytes :
    Become(ec_privkey_tweak_add(seckey, tweak), ec_pubkey_tweak_add(pubkey, tweak))

TweakMul ==
  InUse /\ \E tweak \in Bytes :
    Become(ec_privkey_tweak_mul(seckey, tweak), ec_pubkey_tweak_mul(pubkey, tweak))

\* There is no inverse of a public key: it is made again.
Invert ==
  InUse /\ LET inverse == ec_privkey_tweak_inv(seckey)
           IN Become(inverse, ec_pubkey_create(inverse.key))

\* The keys of two others are added, which may cancel each other or all of the sum.
Combine ==
  InUse /\ \E one \in Points, other \in Points :
    Become(ec_privkey_tweak_add(seckey, (one + other) % N), ec_pubkey_combine(<<one, pubkey, other>>))

\* The public key is sent; who sends all of it may repeat the parity in the prefix.
Send ==
  InUse /\ \E compressed \in BOOLEAN, hybrid \in BOOLEAN :
    LET sent   == eckey_pubkey_serialize(pubkey, compressed)
        parity == IF is_odd(Y[pubkey]) THEN 1 ELSE 0
        input  == IF hybrid /\ ~compressed THEN [sent EXCEPT !.prefix = 6 + parity] ELSE sent
    IN Become([ret |-> TRUE, key |-> seckey], ec_pubkey_parse(input))

PairNext == Create \/ Negate \/ TweakAdd \/ TweakMul \/ Invert \/ Combine \/ Send

-----------------------------------------------------------------------------
\* KeysStayAPair: whatever sequence of calls changes a secret key and its public key,
\* the calls for the one succeed when those for the other do, also for tweaks that are
\* no scalars or bring a key to zero, the keys still belong together, and after a
\* failure neither can be used.
KeysStayAPair ==
  answers # <<>> =>
    /\ answers[1] = answers[2]
    /\ IF answers[1] THEN seckey \in Points /\ pubkey = seckey
       ELSE pubkey = 0 /\ ~ec_seckey_verify(seckey)
=============================================================================
