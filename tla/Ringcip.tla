------------------------------ MODULE Ringcip ------------------------------
(***************************************************************************)
(* The membership proofs of the C library as its callers see them          *)
(* (main_impl.h): a member proves that an entry of a ring is his, for a    *)
(* message, and somebody verifies that over a ring and a message of his    *)
(* own.  With topics (DBPoE) an identity also holds one value for each     *)
(* topic; a proof for a topic discloses that value, the nullifier.         *)
(* Afterwards the member shows up at a service with another key, derived   *)
(* for the name of that service, and answers its challenges.               *)
(*                                                                         *)
(* Module Registration takes the verdicts for granted: a proof verifies    *)
(* exactly when it was made for one's own entry, over the same ring.  Here *)
(* they are computed.  Provers follow the code; what a service is given    *)
(* may be any ring, message, topic or nullifier.                           *)
(***************************************************************************)
EXTENDS ZeroMcomProof, Sequences

CONSTANTS
  Contexts,   \* parameters of a ringcip context: n, m and topic_size
  Members,    \* users; each has one passkey
  vals,       \* vals[d][0] is d's msk, vals[d][g] its hash with the topics up to g
  Rings,      \* the lists of members a proof is made or verified over
  Chals,      \* the hashes of spk, W and name; challenges of a login
  Names,      \* services
  ssk,        \* ssk[d][name]: the hash of d's msk with a name, as a number
  Draws(_, _) \* the random scalars explored, for a context and an m

\* Keys, hashes and the blinding of B are not 0, keys and hashes do not
\* collide: all of it fails with a probability of some 2^-256.
ASSUME KeysAssumption ==
  \A k \in Contexts : \A g \in Generators(k), d, e \in Members :
    /\ vals[d][g] \in Scalars \ {0}
    /\ vals[d][g] = vals[e][g] => d = e

ASSUME ServiceKeysAssumption == ssk \in [Members -> [Names -> Nat \ {0}]]

ASSUME DrawsAssumption ==
  \A k \in Contexts : \A m \in 1 .. k.m : \A r \in Draws(k, m) :
    /\ {r.A, r.B, r.C, r.D} \subseteq Scalars /\ r.B # 0
    /\ r.rho \in [Positions(m) -> Scalars]
    /\ r.a \in [Positions(m) -> [1 .. k.n - 1 -> Scalars]]

ASSUME InputsAssumption ==
  /\ \A k \in Contexts : k.n \in Nat \ {0, 1} /\ k.m \in Nat /\ k.topic_size \in Nat
  /\ \A ring \in Rings : ring \in Seq(Members)

VARIABLES
  ctx,     \* the context, which prover and verifier have in common
  made,    \* the arguments of the prover, and what came with the proof
  proof,   \* the proof
  query,   \* the arguments of the verifier
  outcome  \* what the last call returned

vars == <<ctx, made, proof, query, outcome>>

NoMade  == [by |-> "none"]
NoProof == [f |-> <<>>]
NoQuery == [ring |-> <<>>]

Init ==
  /\ ctx \in Contexts
  /\ made    = NoMade
  /\ proof   = NoProof
  /\ query   = NoQuery
  /\ outcome = "none"

-----------------------------------------------------------------------------
gen_mpk(d) == [g \in {0} |-> vals[d][0]]

gen_DBPoE_mpk(d) == [g \in Generators(ctx) |-> vals[d][g]]

mpk(d) == IF ctx.topic_size = 0 THEN gen_mpk(d) ELSE gen_DBPoE_mpk(d)

\* The identities with the nullifier taken off; they are the commitments that
\* the proof is about.
cints(ring, topic, nullifier) ==
  [t \in 0 .. Len(ring) - 1 |-> [g \in Generators(ctx) |->
     (mpk(ring[t + 1])[g] - IF g = topic THEN nullifier ELSE 0) % q]]

\* The message is left out of the hash (a fault).
HashInputFault(ring, chal) == <<ring>>

\* What is hashed with the points of the proof.
HashInput(ring, chal) == <<ring, chal>>

Covers(m, ring) == Capacity(ctx.n, m) >= Len(ring)

\* The index is not looked at (a fault).
ArgChecksFault(ring, index, m) == m <= ctx.m

ArgChecks(ring, index, m) == index < Len(ring) /\ m <= ctx.m

\* create_zero_mcom_proof and its DBPoE variant, in the order of their tests.
CreateProof(by, index, ring, m, topic, nullifier, chal) ==
  \/ /\ ~Covers(m, ring)
     /\ outcome' = "refused"
     /\ UNCHANGED <<made, proof>>
  \/ /\ Covers(m, ring)
     /\ ~ArgChecks(ring, index, m)
     /\ outcome' = "aborted"
     /\ UNCHANGED <<made, proof>>
  \/ /\ Covers(m, ring)
     /\ ArgChecks(ring, index, m)
     /\ \E r \in Draws(ctx, m), x \in Scalars \ {0} :
          /\ proof' = CompleteProof(ctx, cints(ring, topic, nullifier), index,
                                    vals[by], topic, m, r, x)
          /\ made'  = [by |-> by, index |-> index, ring |-> ring, m |-> m, topic |-> topic,
                       nullifier |-> nullifier, chal |-> chal, x |-> x]
     /\ outcome' = "proof"

\* A hash over anything else is another challenge.
Challenges(ring, topic, nullifier, chal) ==
  IF HashInput(cints(ring, topic, nullifier), chal)
     = HashInput(cints(made.ring, made.topic, made.nullifier), made.chal)
  THEN {made.x} ELSE Scalars \ {made.x}

VerifyProof(ring, topic, nullifier, chal) ==
  /\ query' = [ring |-> ring, topic |-> topic, nullifier |-> nullifier, chal |-> chal]
  /\ \/ ~Covers(made.m, ring) /\ outcome' = "rejected"
     \/ /\ Covers(made.m, ring)
        /\ \E x \in Challenges(ring, topic, nullifier, chal) :
             outcome' = IF Verifies(ctx, proof, cints(ring, topic, nullifier), topic, made.m, x)
                        THEN "accepted" ELSE "rejected"

-----------------------------------------------------------------------------
prove_memmpk ==
  /\ outcome = "none" /\ ctx.topic_size = 0
  /\ \E by \in Members, ring \in Rings, m \in 1 .. ctx.m + 1, chal \in Chals :
       \E index \in 0 .. Len(ring) : CreateProof(by, index, ring, m, NoTopic, 0, chal)
  /\ UNCHANGED <<ctx, query>>

verify_memmpk ==
  /\ outcome = "proof" /\ ctx.topic_size = 0
  /\ \E ring \in Rings, chal \in Chals : VerifyProof(ring, NoTopic, 0, chal)
  /\ UNCHANGED <<ctx, made, proof>>

\* Topics are numbered from 1, and the last one is not taken.
TopicCheck(topic) == 0 < topic /\ topic < ctx.topic_size

prove_DBPoE_memmpk ==
  /\ outcome = "none" /\ ctx.topic_size > 0
  /\ \E topic \in Generators(ctx) :
       \/ /\ ~TopicCheck(topic)
          /\ outcome' = "aborted"
          /\ UNCHANGED <<made, proof>>
       \/ /\ TopicCheck(topic)
          /\ \E by \in Members, ring \in Rings, m \in 1 .. ctx.m + 1, chal \in Chals :
               \E index \in 0 .. Len(ring) :
                 CreateProof(by, index, ring, m, topic, vals[by][topic], chal)
  /\ UNCHANGED <<ctx, query>>

Nullifiers == {vals[d][g] : d \in Members, g \in Generators(ctx)}

verify_DBPoE_memmpk ==
  /\ outcome = "proof" /\ ctx.topic_size > 0
  /\ \E topic \in Generators(ctx) :
       \/ /\ ~TopicCheck(topic)
          /\ outcome' = "aborted"
          /\ UNCHANGED query
       \/ /\ TopicCheck(topic)
          /\ \E ring \in Rings, nullifier \in Nullifiers, chal \in Chals :
               VerifyProof(ring, topic, nullifier, chal)
  /\ UNCHANGED <<ctx, made, proof>>

-----------------------------------------------------------------------------
(* The authentication proofs.  Points are powers of geng[0].               *)

\* secp256k1_scalar_set_b32 reports a key that is not below the order.
Overflows(d, name) == ssk[d][name] >= q

Keys == {ssk[d][name] : d \in Members, name \in Names} \cap Scalars

\* The challenge is not hashed (a fault).
AuthHashInputFault(spk, chal, R) == <<spk, R>>

AuthHashInput(spk, chal, R) == <<spk, chal, R>>

\* R = g^r and s = x ssk + r.  The key spk that is hashed is the caller's.
AuthProof(d, name, spk, chal) ==
  \E r, x \in Scalars :
    \/ /\ Overflows(d, name) \/ r = 0
       /\ outcome' = "refused"
       /\ UNCHANGED <<made, proof>>
    \/ /\ ~Overflows(d, name) /\ r # 0 /\ x # 0
       /\ proof'   = [R |-> r, s |-> (x * ssk[d][name] + r) % q]
       /\ made'    = [own |-> ssk[d][name], spk |-> spk, chal |-> chal, x |-> x]
       /\ outcome' = "signature"

\* spk^x R = g^s, the last equation of the code.
AuthHolds(spk, x) == (x * spk + proof.R) % q = proof.s

\* The key is the prover's own, or the one that was hashed with the challenge.
\* With any other key and challenge the proof verifies if two hashes happen to
\* be in the right proportion, which is not explored.
AuthVerify ==
  \E spk \in {made.spk, made.own}, chal \in Chals :
    LET same == AuthHashInput(spk, chal, proof.R) = AuthHashInput(made.spk, made.chal, proof.R) IN
    /\ spk = made.own \/ chal = made.chal
    /\ \E x \in IF same THEN {made.x} ELSE Scalars \ {made.x} :
      /\ query'   = [spk |-> spk, chal |-> chal]
      /\ outcome' = IF AuthHolds(spk, x) THEN "authentic" ELSE "refuted"

AuthProve ==
  \E d \in Members, name \in Names, spk \in Keys, chal \in Chals : AuthProof(d, name, spk, chal)

auth_prove ==
  /\ outcome = "none" /\ ctx.topic_size = 0
  /\ AuthProve
  /\ UNCHANGED <<ctx, query>>

auth_verify ==
  /\ outcome = "signature" /\ ctx.topic_size = 0
  /\ AuthVerify
  /\ UNCHANGED <<ctx, made, proof>>

DBPoE_auth_prove ==
  /\ outcome = "none" /\ ctx.topic_size > 0
  /\ AuthProve
  /\ UNCHANGED <<ctx, query>>

DBPoE_auth_verify ==
  /\ outcome = "signature" /\ ctx.topic_size > 0
  /\ AuthVerify
  /\ UNCHANGED <<ctx, made, proof>>

Next ==
  \/ prove_memmpk \/ verify_memmpk \/ prove_DBPoE_memmpk \/ verify_DBPoE_memmpk
  \/ auth_prove \/ auth_verify \/ DBPoE_auth_prove \/ DBPoE_auth_verify

Spec == Init /\ [][Next]_vars
-----------------------------------------------------------------------------
Proved == outcome \in {"proof", "accepted", "rejected"}

OwnEntry == made.ring[made.index + 1] = made.by

SameArguments ==
  query = [ring |-> made.ring, topic |-> made.topic,
           nullifier |-> made.nullifier, chal |-> made.chal]

(* A proof for one's own entry verifies over the ring, message, topic and  *)
(* nullifier it was made for, in every context, for every ring that n^m    *)
(* covers, a power of n or not, every index, mask and challenge.  The      *)
(* prover multiplies polynomials of the digits of the index; the verifier  *)
(* only ever sees their values at x.                                       *)
HonestProofsVerify ==
  outcome = "rejected" => ~(OwnEntry /\ SameArguments)

(* A proof that verifies was made for the prover's own entry: calling the  *)
(* prover with another index of the ring, as a client does that counts     *)
(* revoked identities, yields a proof that everybody rejects.              *)
VerifiedMeansOwnEntry ==
  outcome = "accepted" => OwnEntry

(* A proof is accepted over no other ring, for no other message or topic   *)
(* and with no other nullifier than its own: a member has one nullifier    *)
(* for each topic, and no proof of his shows another one.                  *)
VerifiedMeansSameArguments ==
  outcome = "accepted" => SameArguments

(* A proof fills the buffer that get_size told the caller to allocate, to  *)
(* the last byte, and the verifier reads as much.                          *)
ProofFillsItsBuffer ==
  Proved => BytesWritten(proof) =
    IF ctx.topic_size = 0 THEN zero_mcom_get_size(ctx, made.m)
    ELSE zero_mcom_DBPoE_get_size(ctx, made.m)

(* An authentication proof verifies for the challenge and the key it was   *)
(* made for, provided that key is the prover's own, and otherwise not: a   *)
(* login form that is answered twice, or with the key for another service, *)
(* gets a signature from the library that everybody rejects.               *)
AuthenticMeansOwnKey ==
  outcome \in {"authentic", "refuted"} =>
    (outcome = "authentic" <=> query = [spk |-> made.own, chal |-> made.chal] /\ made.spk = made.own)
=============================================================================
