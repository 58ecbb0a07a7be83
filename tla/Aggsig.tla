------------------------------- MODULE Aggsig -------------------------------
(***************************************************************************)
(* Schnorr signatures of several signers (modules/aggsig/main_impl.h), in  *)
(* the two ways the module has.  With a context one process holds all      *)
(* nonces, and its signers each make one part.  Without one each signer    *)
(* has an exported nonce, all sign with the total of the public nonces,    *)
(* and a part can be taken off the sum again.                              *)
(* A signature names its nonce by x; the y that is meant is the square.    *)
(* When the sum of the nonces has the other y everyone has to negate his   *)
(* nonce: in a context each call negates what it holds, where it is.       *)
(* Draws of the generator and hashes are external: any 32 bytes.           *)
(***************************************************************************)
EXTENDS PublicKeys

CONSTANTS
  Seckeys,      \* the secret keys of the signers, a sequence
  Invalid,      \* 32 bytes that are no secret key
  Texts,        \* bound: the messages
  RandomBytes,  \* bound: what the generator draws, 32 bytes
  Extras,       \* bound: scalars that a signature is moved by, 0 for none
  Digest(_, _, _)  \* the hash, as 32 bytes, of an x, a message and a sequence of keys and an index

Signers == DOMAIN Seckeys

Pubkeys == [i \in Signers |-> ec_pubkey_create(Seckeys[i]).key]

VARIABLES
  progress, secnonce, pubnonce_sum,  \* the context
  parts,     \* of each signer, the part of a signature and the message, <<>> before it is made
  combined,  \* the signature of all and the parts it is of, <<>> before there is one
  disturbed, \* a sign was changed in a call that failed, or before all parts were made
  alone,     \* the signature of one signer, what it was moved by and his key
  nonces,    \* the exported nonce of each signer, 0 before it is drawn
  singles,   \* the signature of each signer with the total nonce, <<>> before it is made
  total      \* the sum of these signatures, <<>> before it is made

contextVars == <<progress, secnonce, pubnonce_sum, parts, combined, disturbed>>
singleVars  == <<alone, nonces, singles, total>>
aggsigVars  == <<contextVars, singleVars>>

-----------------------------------------------------------------------------
\* A nonce and the point of it, which has a square y.  Whether the draw is a
\* scalar is asked and forgotten.
aggsig_generate_nonce_single(draw) ==
  LET nonce == scalar_set_b32(draw)
  IN IF has_quad_y(nonce) THEN nonce ELSE scalar_negate(nonce)

\* The hashes of all keys and the index of a signer, and of a single signature.
compute_sighash(x, msg, index) == Digest(x, msg, Append(Pubkeys, index))

compute_sighash_single(pubnonce, pubkey, msg) == scalar_set_b32(Digest(x_of(pubnonce), msg, <<pubkey>>))

aggsig_context_create ==
  /\ progress = [i \in Signers |-> "UNKNOWN"] /\ secnonce = [i \in Signers |-> 0]
  /\ pubnonce_sum = 0

\* Draws of zero are repeated.
aggsig_generate_nonce(index) ==
  /\ progress[index] = "UNKNOWN"
  /\ \E draw \in RandomBytes :
       /\ scalar_set_b32(draw) # 0
       /\ secnonce' = [secnonce EXCEPT ![index] = aggsig_generate_nonce_single(draw)]
       /\ pubnonce_sum' = (pubnonce_sum + aggsig_generate_nonce_single(draw)) % N
  /\ progress' = [progress EXCEPT ![index] = "OURS"]
  /\ UNCHANGED <<parts, combined, disturbed>>

\* Fault: whether a nonce was used is not looked at.
CanSignFault(index) == \A i \in Signers : progress[i] # "UNKNOWN"

CanSign(index) ==
  /\ \A i \in Signers : progress[i] # "UNKNOWN"
  /\ progress[index] = "OURS"

\* The nonce is negated in the context before the hash and the key are looked at,
\* and it stays so when one of these is no scalar.
aggsig_partial_sign(index, msg, seckey) ==
  /\ CanSign(index)
  /\ LET nonce   == IF has_quad_y(pubnonce_sum) THEN secnonce[index] ELSE scalar_negate(secnonce[index])
         sighash == compute_sighash(x_of(pubnonce_sum), msg, index)
         failed  == Overflow(sighash) \/ Overflow(seckey)
         s       == (scalar_set_b32(seckey) * scalar_set_b32(sighash) + nonce) % N
     IN /\ secnonce' = [secnonce EXCEPT ![index] = nonce]
        /\ disturbed' = (disturbed \/ (failed /\ nonce # secnonce[index]))
        /\ IF failed THEN UNCHANGED <<progress, parts>>
           ELSE /\ progress' = [progress EXCEPT ![index] = "SIGNED"]
                /\ parts' = [parts EXCEPT ![index] = [s |-> s, msg |-> msg]]
  /\ UNCHANGED <<pubnonce_sum, combined>>

\* The sum of the nonces is negated in the context.  For a part that is not made
\* yet the caller has zeros.
aggsig_combine_signatures ==
  LET s(i) == IF parts[i] = <<>> THEN 0 ELSE parts[i].s
  IN /\ pubnonce_sum' = IF has_quad_y(pubnonce_sum) THEN pubnonce_sum ELSE scalar_negate(pubnonce_sum)
     /\ combined' = [x |-> x_of(pubnonce_sum), s |-> SumOf([i \in Signers |-> s(i)]), of |-> parts]
     /\ disturbed' =
          (disturbed \/ (pubnonce_sum' # pubnonce_sum /\ \E i \in Signers : parts[i] = <<>>))
     /\ UNCHANGED <<progress, secnonce, parts>>

\* The sum s G - e_1 P_1 - ... is the point with x and a square y.
aggsig_verify(sig, msg) ==
  LET sighash(i) == compute_sighash(sig.x, msg, i)
      point == (sig.s - SumOf([i \in Signers |-> scalar_set_b32(sighash(i)) * Pubkeys[i]])) % N
  IN /\ \A i \in Signers : ~Overflow(sighash(i))
     /\ sig.x = x_of(point) /\ has_quad_y(point)

-----------------------------------------------------------------------------
(* Without a context.  0 stands for NULL: no nonce, no key and no scalar.      *)
aggsig_sign_single(msg, seckey, nonce, draw, extra, pubnonce_for_e, pubnonce_total, pubkey_for_e) ==
  LET drawn  == nonce = 0
      own    == IF drawn THEN aggsig_generate_nonce_single(draw) ELSE nonce
      turned == IF drawn THEN FALSE
                ELSE IF pubnonce_total # 0 THEN ~has_quad_y(pubnonce_total) ELSE ~has_quad_y(own)
      secret == IF turned THEN scalar_negate(own) ELSE own
      e      == compute_sighash_single(IF pubnonce_for_e # 0 THEN pubnonce_for_e ELSE own,
                                       pubkey_for_e, msg)
  IN IF Overflow(seckey) \/ Overflow(extra) THEN <<>>
     ELSE [x |-> x_of(own), s |-> (scalar_set_b32(seckey) * e + secret + extra) % N]

aggsig_verify_single(sig, msg, pubnonce, pubkey, pubkey_total, extra_pubkey, is_partial) ==
  LET e     == compute_sighash_single(IF pubnonce # 0 THEN pubnonce ELSE point_set_xquad(sig.x),
                                      pubkey_total, msg)
      point == (sig.s - e * pubkey - extra_pubkey) % N
  IN sig.x = x_of(point) /\ (is_partial \/ has_quad_y(point))

aggsig_add_signatures_single(sigs, pubnonce_total) ==
  [x |-> x_of(pubnonce_total), s |-> SumOf([i \in DOMAIN sigs |-> sigs[i].s])]

\* What may be left of a signature when a part is taken off: the point of the
\* signature is R or -R, and the one that is left has a square y.
aggsig_subtract_partial_signature(sig, part) ==
  LET R    == point_set_xquad(sig.x)
      left == {(R - point_set_xquad(part.x)) % N, (N - R - point_set_xquad(part.x)) % N}
  IN {[x |-> x_of(point), s |-> (sig.s - part.s) % N] : point \in {q \in left : has_quad_y(q)}}

-----------------------------------------------------------------------------
AggsigInit ==
  /\ aggsig_context_create
  /\ parts = [i \in Signers |-> <<>>] /\ combined = <<>> /\ disturbed = FALSE
  /\ alone = <<>> /\ nonces = [i \in Signers |-> 0] /\ singles = [i \in Signers |-> <<>>] /\ total = <<>>

\* A caller goes one of the two ways.
ContextCall ==
  /\ nonces = [i \in Signers |-> 0] /\ alone = <<>>
  /\ \/ \E i \in Signers : aggsig_generate_nonce(i)
     \/ \E i \in Signers, msg \in Texts :
          \E seckey \in {Seckeys[i], Invalid} : aggsig_partial_sign(i, msg, seckey)
     \/ aggsig_combine_signatures
  /\ UNCHANGED singleVars

aggsig_export_secnonce_single(index) ==
  /\ nonces[index] = 0
  /\ \E draw \in RandomBytes :
       /\ scalar_set_b32(draw) # 0
       /\ nonces' = [nonces EXCEPT ![index] = aggsig_generate_nonce_single(draw)]
  /\ UNCHANGED <<alone, singles, total>>

\* The total of the nonces and of the keys, which all signers have; the signers do
\* not go on without both.
Total  == ec_pubkey_combine(nonces)
AllKey == ec_pubkey_combine(Pubkeys)

SignSingle(index) ==
  /\ \A i \in Signers : nonces[i] # 0
  /\ Total.ret /\ AllKey.ret /\ singles[index] = <<>>
  /\ singles' = [singles EXCEPT ![index] =
       aggsig_sign_single(1, Seckeys[index], nonces[index], 0, 0, Total.key, Total.key, AllKey.key)]
  /\ UNCHANGED <<alone, nonces, total>>

AddSingles ==
  /\ \A i \in Signers : singles[i] # <<>>
  /\ total' = aggsig_add_signatures_single(singles, Total.key)
  /\ UNCHANGED <<alone, nonces, singles>>

\* One signer, with a nonce of his own or one that is drawn, and moved by a scalar
\* of which the verifier has the point.
SignAlone ==
  /\ singles = [i \in Signers |-> <<>>]
  /\ \E i \in Signers, nonce \in {0} \cup {nonces[j] : j \in Signers}, draw \in RandomBytes, extra \in Extras :
       /\ scalar_set_b32(draw) # 0
       /\ alone' = [sig |-> aggsig_sign_single(1, Seckeys[i], nonce, draw, extra, 0, 0, Pubkeys[i]),
                    moved |-> extra, key |-> Pubkeys[i]]
  /\ UNCHANGED <<nonces, singles, total>>

SingleCall ==
  /\ \A i \in Signers : progress[i] = "UNKNOWN"
  /\ combined = <<>> /\ alone = <<>>
  /\ \/ \E i \in Signers : aggsig_export_secnonce_single(i) \/ SignSingle(i)
     \/ AddSingles \/ SignAlone
  /\ UNCHANGED contextVars

AggsigNext == ContextCall \/ SingleCall

-----------------------------------------------------------------------------
\* AggregatesVerify: whichever nonces the signers have and in whatever order they
\* sign, the signature they combine verifies when all of them signed the same message,
\* also after calls that failed, or combined what there was, and left the signs of the
\* nonces as they were, and after it is combined again.
\* Without a context every signature verifies by itself as a part, their sum
\* verifies for the sum of the keys, and when a part is taken off the signature of
\* the other signer is among the results; and a signer can do without others.
AggregatesVerify ==
  /\ (combined # <<>> /\ ~disturbed /\ pubnonce_sum # 0) =>
       \A msg \in Texts :
         (\A i \in Signers : combined.of[i] # <<>> /\ combined.of[i].msg = msg) => aggsig_verify(combined, msg)
  /\ \A i \in Signers : singles[i] # <<>> =>
       /\ aggsig_verify_single(singles[i], 1, Total.key, Pubkeys[i], AllKey.key, 0, TRUE)
       /\ total # <<>> /\ Signers = 1 .. 2 =>
            singles[3 - i] \in aggsig_subtract_partial_signature(total, singles[i])
  /\ total # <<>> => aggsig_verify_single(total, 1, 0, AllKey.key, AllKey.key, 0, FALSE)
  /\ alone # <<>> => aggsig_verify_single(alone.sig, 1, 0, alone.key, alone.key, alone.moved, FALSE)
=============================================================================
