----------------------------- MODULE Semaphore -----------------------------
(***************************************************************************)
(* The second construction (crypto-snark/src/index.js): a member of a      *)
(* group proves in zero knowledge that his identity is one of its leaves,  *)
(* for a message and in a scope, the name of a service.  The proof shows   *)
(* the root of the group and a nullifier, the hash of scope and secret, by *)
(* which a service knows a member again.  The group changes all the time.  *)
(*                                                                         *)
(* Hashes and keys are terms: they are equal when they were made from the  *)
(* same parts.  Proof system, signatures and the tree of the group come    *)
(* from libraries; the circuit is circuits/semaphore.circom.               *)
(***************************************************************************)
EXTENDS Integers, Sequences, FiniteSets

CONSTANTS
  Secrets,   \* master secrets; index.js uses msk[1] alone for service keys
  Groups,    \* lists of secrets: the members that a group may have
  Texts,     \* names of services, messages and challenges
  Numerals,  \* the texts that toBigInt accepts, decimal or hexadecimal
  toBigInt,  \* the number of each numeral
  bytes,     \* the number of the bytes of each text, of 32 when padded
  MaxDepth,  \* MAX_DEPTH of the compiled circuit
  MaxProofs  \* bound: proofs and signatures that are made

ASSUME TextsAssumption ==
  /\ Numerals \subseteq Texts
  /\ toBigInt \in [Numerals -> Nat] /\ bytes \in [Texts -> Nat]

ASSUME GroupsAssumption ==
  \A g \in Groups : g # <<>> /\ g \in Seq({g[k] : k \in DOMAIN g})

ASSUME BoundsAssumption == MaxDepth \in Nat /\ MaxProofs \in Nat

VARIABLES
  group,     \* the members now
  made,      \* the proofs made so far, each with what it was made from
  signatures \* the signatures made so far, likewise

vars == <<group, made, signatures>>

-----------------------------------------------------------------------------
convertMessage(text) == IF text \in Numerals THEN toBigInt[text] ELSE bytes[text]

Node(left, right) == [left |-> left, right |-> right]

\* The secret scalar of an identity, its public key and its commitment.
secretScalar(key) == [scalar |-> key]
publicKey(key)    == [base |-> secretScalar(key)]
Leaf(key)         == [leaf |-> publicKey(key)]

\* One level of the tree up: a last node without a neighbour goes up as it is.
LevelUp(level) ==
  [k \in 1 .. (Len(level) + 1) \div 2 |->
     IF 2 * k <= Len(level) THEN Node(level[2 * k - 1], level[2 * k]) ELSE level[2 * k - 1]]

\* There are at most as many levels as leaves; the last ones are the root.
Levels(members) ==
  LET level[d \in 0 .. Len(members)] ==
        IF d = 0 THEN [k \in DOMAIN members |-> Leaf(members[k])] ELSE LevelUp(level[d - 1])
  IN level

root(members) == Levels(members)[Len(members)][1]

\* The neighbours of a leaf (places count from 0) and its ancestors, from the
\* bottom; there is none where a node goes up as it is.
MerklePath(members, index) ==
  LET level == Levels(members)
      at[d \in 0 .. Len(members)] == IF d = 0 THEN index ELSE at[d - 1] \div 2
      Beside(d) == IF at[d] % 2 = 1 THEN at[d] - 1 ELSE at[d] + 1
      Neighbour(d) == [sibling |-> level[d][Beside(d) + 1], isRight |-> at[d] % 2 = 1]
      path[d \in 0 .. Len(members)] ==
        IF d = 0 THEN <<>>
        ELSE IF Beside(d - 1) < Len(level[d - 1]) THEN Append(path[d - 1], Neighbour(d - 1))
        ELSE path[d - 1]
  IN path[Len(members)]

\* The sides of a node and its sibling are swapped (a fault).
BinaryMerkleRootFault(leaf, path) ==
  LET node[i \in 0 .. Len(path)] ==
        IF i = 0 THEN leaf ELSE Node(node[i - 1], path[i].sibling)
  IN node[Len(path)]

BinaryMerkleRoot(leaf, path) ==
  LET node[i \in 0 .. Len(path)] ==
        IF i = 0 THEN leaf
        ELSE IF path[i].isRight THEN Node(path[i].sibling, node[i - 1])
        ELSE Node(node[i - 1], path[i].sibling)
  IN node[Len(path)]

\* The nullifier depends on the group (a fault).
CircuitFault(key, path, message, scope) ==
  LET merkleRoot == BinaryMerkleRoot(Leaf(key), path) IN
  [merkleRoot |-> merkleRoot,
   nullifier  |-> [scope |-> merkleRoot, secret |-> secretScalar(key)],
   message    |-> message,
   scope      |-> scope]

\* The public signals that the circuit allows for a secret and a path.
Circuit(key, path, message, scope) ==
  [merkleRoot |-> BinaryMerkleRoot(Leaf(key), path),
   nullifier  |-> [scope |-> scope, secret |-> secretScalar(key)],
   message    |-> message,
   scope      |-> scope]

\* The place of the first leaf that is the member's.
indexOf(msk) ==
  (CHOOSE k \in DOMAIN group : group[k] = msk /\ \A l \in 1 .. k - 1 : group[l] # msk) - 1

\* generateProof throws when the identity is not in the group; a path that
\* is longer than the circuit was compiled for has no witness.
CanProve(msk) ==
  /\ \E k \in DOMAIN group : group[k] = msk
  /\ Len(MerklePath(group, indexOf(msk))) <= MaxDepth

generateProof(msk, message, scope) ==
  Circuit(msk, MerklePath(group, indexOf(msk)), convertMessage(message), convertMessage(scope))

\* The secret key for a service, from which an identity is made.
csk(msk, serviceName) == [secret |-> msk[2], name |-> convertMessage(serviceName), count |-> 100]

createSPK(msk, serviceName) == publicKey(csk(msk, serviceName))

-----------------------------------------------------------------------------
Init ==
  /\ group \in Groups
  /\ made       = {}
  /\ signatures = {}

\* Members are added and taken away: everybody builds the group anew from the
\* list of the day.
NewGroup == group' \in Groups \ {group} /\ UNCHANGED <<made, signatures>>

Record(msk, serviceName, challenge) ==
  made' = made \cup {[by |-> msk, group |-> group, service |-> serviceName, challenge |-> challenge,
                      proof |-> generateProof(msk, challenge, serviceName)]}

proveMem(msk, serviceName, challenge) ==
  /\ CanProve(msk)
  /\ Record(msk, serviceName, challenge)
  /\ UNCHANGED <<group, signatures>>

\* A member proves his master key: always in the scope "1234".
ProveMPKMemb(msk, message) == proveMem(msk, "1234", message)

\* Another key than that of createSPK (a fault).
authProofFault(msk, serviceName, challenge) ==
  /\ signatures' = signatures \cup {[by |-> msk, service |-> serviceName, challenge |-> challenge,
                                     key |-> publicKey([csk(msk, serviceName) EXCEPT !.secret = msk[1]])]}
  /\ UNCHANGED <<group, made>>

authProof(msk, serviceName, challenge) ==
  /\ signatures' = signatures \cup {[by |-> msk, service |-> serviceName, challenge |-> challenge,
                                     key |-> publicKey(csk(msk, serviceName))]}
  /\ UNCHANGED <<group, made>>

Prove ==
  /\ Cardinality(made) + Cardinality(signatures) < MaxProofs
  /\ \E msk \in Secrets, challenge \in Texts :
       \/ ProveMPKMemb(msk, challenge)
       \/ \E serviceName \in Texts : proveMem(msk, serviceName, challenge)

Sign ==
  /\ Cardinality(made) + Cardinality(signatures) < MaxProofs
  /\ \E msk \in Secrets, serviceName, challenge \in Texts : authProof(msk, serviceName, challenge)

Next == NewGroup \/ Prove \/ Sign

Spec == Init /\ [][Next]_vars

-----------------------------------------------------------------------------
(* The verifiers.  They read the group as it is now; a proof made by the   *)
(* circuit and not touched since passes verifyProof.                       *)

\* The scope is not compared (a fault).
verifyMemFault(proof, serviceName, challenge) ==
  /\ proof.merkleRoot = root(group)
  /\ proof.message = convertMessage(challenge)

verifyMem(proof, serviceName, challenge) ==
  /\ proof.merkleRoot = root(group)
  /\ proof.message = convertMessage(challenge)
  /\ proof.scope = convertMessage(serviceName)

\* The scope of the proof is not looked at.
VerifyMPKMemb(proof, message) ==
  /\ proof.merkleRoot = root(group)
  /\ proof.message = convertMessage(message)

\* A challenge is signed as a number, too.
authVerify(spk, signature, challenge) ==
  signature.key = spk /\ convertMessage(signature.challenge) = convertMessage(challenge)

getNullifier(proof) == proof.nullifier

-----------------------------------------------------------------------------
SameText(t, s) == convertMessage(t) = convertMessage(s)

(* A proof verifies as long as the group is the list it was made over, and *)
(* again when it becomes that list again: at every place of a list of any  *)
(* length, also where a node goes up without a neighbour.  It verifies     *)
(* over no other list (not even the same members in another order), for no *)
(* other message, and, except in VerifyMPKMemb, for no other service.      *)
VerifiesOverItsGroupOnly ==
  \A p \in made, serviceName, challenge \in Texts :
    /\ verifyMem(p.proof, serviceName, challenge)
         <=> group = p.group /\ SameText(challenge, p.challenge) /\ SameText(serviceName, p.service)
    /\ VerifyMPKMemb(p.proof, challenge)
         <=> group = p.group /\ SameText(challenge, p.challenge)

(* A service knows a member again by the nullifier, whatever the group was *)
(* and whatever the message, and it takes no two members for one; a member *)
(* has another nullifier at another service (the names "1234" and "0x4d2"  *)
(* are one service).                                                       *)
NullifierNamesTheMember ==
  \A p, r \in made :
    getNullifier(p.proof) = getNullifier(r.proof) <=> p.by = r.by /\ SameText(p.service, r.service)

(* A login signature verifies with the key that was registered for this    *)
(* service, for its own challenge, and with no key of somebody whose       *)
(* secret has another second component: of a string like "123", the second *)
(* character is all that counts.                                           *)
SignatureNamesTheKey ==
  \A s \in signatures, msk \in Secrets, serviceName, challenge \in Texts :
    authVerify(createSPK(msk, serviceName), s, challenge)
      <=> msk[2] = s.by[2] /\ SameText(serviceName, s.service) /\ SameText(challenge, s.challenge)
=============================================================================
