------------------------------- MODULE Ecdsa -------------------------------
(***************************************************************************)
(* ECDSA signatures (ecdsa_impl.h, modules/recovery/main_impl.h and their  *)
(* callers in secp256k1.c): a signature is made, kept, stored in 64 bytes, *)
(* normalised, and changed by somebody else to the other one of its two    *)
(* forms.  The nonce function is external: its draws are any 32 bytes.     *)
(* A scalar keeps the x of a point modulo N only, so that two points may   *)
(* have one r: in groups of the size of the real one nobody ever met them, *)
(* and the lines for them never ran; here they are as frequent as others.  *)
(***************************************************************************)
EXTENDS PublicKeys

CONSTANTS
  Secrets,   \* bound: the 32 bytes of secret keys
  Messages,  \* bound: the 32 bytes of messages
  Draws      \* bound: the sequences that a nonce function draws before it gives up

\* What the proofs assume of negatives: they differ in y only, and neither coordinate
\* is ever zero.
Negatives ==
  /\ FieldSize \in Nat /\ N < FieldSize /\ FieldSize < 2 * N /\ FieldSize % 2 = 1
  /\ X \in [Points -> 1 .. FieldSize - 1] /\ Y \in [Points -> 1 .. FieldSize - 1]
  /\ \A p \in Points : X[N - p] = X[p] /\ Y[N - p] = FieldSize - Y[p]

VARIABLES
  sig,     \* the signature: r, s and, if it was made for recovery, recid
  signed,  \* the secret key and the message it was made for
  made     \* what the call that made it answered

ecdsaVars == <<sig, signed, made>>

NoSig == [r |-> 0, s |-> 0, recid |-> 0]

-----------------------------------------------------------------------------
(* The numbers of a signature.  The result is NoSig when s would be zero.      *)
(* That r is not zero and x less than N are checks of a VERIFY build only; the *)
(* first one fails for the two points with x = N, if the group has them.       *)
ecdsa_sig_sign(seckey, message, nonce) ==
  LET r     == scalar_set_b32(X[nonce])
      recid == [over |-> Overflow(X[nonce]), odd |-> is_odd(Y[nonce])]
      s     == (scalar_inverse(nonce) * (r * seckey + message)) % N
      high  == scalar_is_high(s)
  IN IF s = 0 THEN NoSig
     ELSE [r |-> r, s |-> IF high THEN scalar_negate(s) ELSE s,
           recid |-> (IF recid.over THEN 2 ELSE 0) + (IF recid.odd # high THEN 1 ELSE 0)]

\* The first draw that is a scalar, not zero, and makes a signature.
ecdsa_sign(seckey, msg, draws) ==
  LET Signature(i) ==
        ecdsa_sig_sign(scalar_set_b32(seckey), scalar_set_b32(msg), scalar_set_b32(draws[i]))
      Good(i) == ~Overflow(draws[i]) /\ scalar_set_b32(draws[i]) # 0 /\ Signature(i) # NoSig
      good == {i \in DOMAIN draws : Good(i)}
  IN IF ~ec_seckey_verify(seckey) \/ good = {} THEN [ret |-> FALSE, sig |-> NoSig]
     ELSE [ret |-> TRUE, sig |-> Signature(CHOOSE i \in good : \A j \in good : i <= j)]

ecdsa_sign_recoverable(seckey, msg, draws) == ecdsa_sign(seckey, msg, draws)

\* Fault: only the x that is a scalar itself is looked for.
ecdsa_sig_verifyFault(r, s, pubkey, message) ==
  /\ r # 0 /\ s # 0
  /\ LET pr == (scalar_inverse(s) * (message + r * pubkey)) % N
     IN pr # 0 /\ X[pr] = r

\* The point has x = r, or r + N if that is less than FieldSize.
ecdsa_sig_verify(r, s, pubkey, message) ==
  /\ r # 0 /\ s # 0
  /\ LET pr == (scalar_inverse(s) * (message + r * pubkey)) % N
     IN pr # 0 /\ (X[pr] = r \/ (r < FieldSize - N /\ X[pr] = r + N))

ecdsa_verify(signature, msg, pubkey) ==
  /\ ~scalar_is_high(signature.s)
  /\ pubkey_load(pubkey)
  /\ ecdsa_sig_verify(signature.r, signature.s, pubkey, scalar_set_b32(msg))

\* The key for which the point that recid names is right, 0 if there is none.
ecdsa_sig_recover(r, s, message, recid) ==
  LET over  == recid \in {2, 3}
      nonce == point_set_xo_var(IF over THEN r + N ELSE r, recid % 2 = 1)
      rn    == scalar_inverse(r)
  IN IF r = 0 \/ s = 0 \/ (over /\ r >= FieldSize - N) \/ nonce = 0 THEN 0
     ELSE ((rn * s) * nonce - rn * message) % N

ecdsa_recover(signature, msg) ==
  LET key == ecdsa_sig_recover(signature.r, signature.s, scalar_set_b32(msg), signature.recid)
  IN Answer(key # 0, key)

\* Of both numbers each is refused by itself when it is no scalar.
recoverable_signature_parse_compact(r, s, recid) ==
  IF Overflow(r) \/ Overflow(s) THEN [ret |-> FALSE, sig |-> NoSig]
  ELSE [ret |-> TRUE, sig |-> [r |-> r, s |-> s, recid |-> recid]]

ecdsa_signature_normalize(signature) ==
  IF scalar_is_high(signature.s) THEN [signature EXCEPT !.s = scalar_negate(@)] ELSE signature

-----------------------------------------------------------------------------
EcdsaInit == sig = NoSig /\ signed = <<>> /\ made = FALSE

Sign ==
  signed = <<>> /\ \E seckey \in Secrets, msg \in Messages, draws \in Draws :
    LET result == ecdsa_sign_recoverable(seckey, msg, draws)
    IN sig' = result.sig /\ made' = result.ret /\ signed' = <<seckey, msg>>

\* Stored and read again.
Store ==
  /\ made
  /\ LET result == recoverable_signature_parse_compact(sig.r, sig.s, sig.recid)
     IN sig' = result.sig /\ made' = result.ret
  /\ UNCHANGED signed

\* The other form of a signature, which anybody can make: -s, for the point -R.
Flip ==
  /\ made
  /\ sig' = [sig EXCEPT !.s = scalar_negate(@), !.recid = IF @ % 2 = 1 THEN @ - 1 ELSE @ + 1]
  /\ UNCHANGED <<signed, made>>

EcdsaNext == Sign \/ Store \/ Flip

-----------------------------------------------------------------------------
\* SignaturesVerify: a signature is made with keys only that the library accepts, and
\* whatever is done to it since, it verifies for the key of the signer after it is
\* normalised, only one of its two forms verifies as it is, and the key is recovered
\* from both: with each x there is, those above N included, each sign of y, and
\* either sign of s.  When none was made, nothing is left that verifies.
SignaturesVerify ==
  /\ made => LET pubkey == ec_pubkey_create(signed[1])
             IN /\ pubkey.ret
                /\ ecdsa_verify(ecdsa_signature_normalize(sig), signed[2], pubkey.key)
                /\ ecdsa_verify(sig, signed[2], pubkey.key) <=> ecdsa_signature_normalize(sig) = sig
                /\ ecdsa_recover(sig, signed[2]) = pubkey
  /\ ~made => \A pubkey \in Points : ~ecdsa_verify(sig, 0, pubkey) /\ ~ecdsa_recover(sig, 0).ret
=============================================================================
