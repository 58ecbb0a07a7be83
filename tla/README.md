# U2SSO: specifications, model checking and proofs

U2SSO is a single sign-on without an identity provider.  A user lists one
master identity in a smart contract, and registers with a service by proving
that *some* active identity of the list is his, without saying which one; the
service remembers the service public key (spk) that comes with the proof and
lets the holder of that key log in.  The repository holds a proof of concept
(a Go client, a Go server, a Solidity contract), the C library of the proofs
(`crypto-dbpoe`, module ringcip of a secp256k1-zkp fork) and a second
construction with SNARKs (`crypto-snark`).

This directory models the system in three layers.

* **The protocol**: which reads and writes each party makes, in which order,
  and what may happen between two of them.  Cryptography appears as the
  verdicts it gives.
* **The proofs**: the algebra of ringcip's proofs, in the exponents of a small
  field, and the Semaphore construction over terms, which say what the verdicts
  are.
* **The arithmetic**: what ringcip calls of secp256k1, first as operations on
  the points of a whole small curve, then as carries between the words and
  limbs of one number, chunks of a hash, and bytes of a memory pool; and the
  library's own keys and signatures, over that curve.

Contents

1. Inventory of the system
2. Modules, and how they correspond to the code
3. Runs: what is checked, with which bounds
4. Fairness
5. Proofs
6. What is only model-checked
7. What the code does otherwise than its documents say
8. Limits of the models
9. Plan

## 1. Inventory of the system

| Component | State | Operations | Talks to |
|---|---|---|---|
| Identity contract (`U2SSO.sol`; `u2ssolib.go` 370-475) | `idList`, `nextIndex` | `addID`, `revokeID`; views `getIDs`, `getState`, `getIDSize`, `getIDIndex`; an identity cut into two numbers and joined again | read by clients and services, changed by transactions |
| `create` command (`clientapp.go` 97-118, `u2ssolib.go` `CreatePasskey`, `LoadPasskey`, `AddIDstoIdR`) | the passkey file; nonce and gas price in hand | draw a passkey, write it, read it back, derive the identity, send `AddID`, look up the index | file system, Ethereum node, contract |
| `register` command (`clientapp.go` 133-212, `RegistrationProof`) | ring size, index, list and proof in hand | read size, index and list; choose m; copy the ring; prove | contract, ringcip; its output is pasted into the signup form |
| `load`, `auth` commands | none | read the passkey; sign a challenge with the service key | ringcip; output is pasted into the login form |
| Service: signup (`server.go` 131-157, 187-269) | `registeredSPK`, a global slice of accounts | hand out a challenge; verify a form and store its spk | contract, ringcip; handlers share the slice |
| Service: login (`server.go` 159-185, 271-338) | `registeredSPK`, `regAuthChallenges` | verify a signature and search the spk | handlers share the slice |
| ringcip membership proofs (`main_impl.h`, `ring_impl.h`) | none | `gen_mpk`, `prove_memmpk`, `verify_memmpk` over a ring of at most n^m entries | called by both sides |
| ringcip keys and authentication | none | `derive_ssk`, `derive_spk`, `auth_prove`, `auth_verify` | called by both sides |
| ringcip DBPoE | none | the same with one generator for each topic (verifier) and a nullifier | not used by the proof of concept |
| crypto-snark (`src/index.js`, `circuits/`) | a Semaphore group | identities, membership and authentication proofs, scopes and nullifiers; two-generator keys | a library |
| secp256k1 group and multiplication (`group_impl.h`, `ecmult*_impl.h`, `generator/`, `commitment/`) | the blinding of a context | sums, negatives, multiples and sums of multiples of points; points from hashes; points as bytes | called by ringcip |
| secp256k1 numbers (`field_*`, `scalar_*`, `hash_impl.h`) | elements, scalars, hash objects, a generator of random bytes | arithmetic in limbs and words, in C and in assembly; inverses and roots; SHA-256, HMAC, RFC 6979 | called by the group |
| secp256k1 keys and ECDSA (`secp256k1.c`, `eckey_impl.h`, `ecdsa_impl.h`, `recovery/`) | none; the caller holds keys and signatures | create, negate, tweak, invert, combine keys; sign, verify, normalize, recover; bytes of keys and signatures | not called by the proof of concept |
| aggregated signatures (`aggsig/main_impl.h`) | a context: nonces, their sum, the progress of each signer | draw nonces, sign a part, combine, verify; the same without a context, and parts taken off a sum | not called by the proof of concept |
| scratch memory (`scratch_impl.h`, `ecmult_impl.h` 592-646, 928-1140) | a stack of frames | frames and objects for batches of points | called by sums of many multiples |

### Where it is hard

* **Reads that are not one snapshot.**  The register command asks the contract
  for its size, then the index of the user, then for every entry one by one;
  the service later does it again.  Identities are added and revoked
  meanwhile, and proof and verification must still be about the same ring.
* **Two loops for one number.**  Client and server compute the parameter m in
  loops of their own with different results where no m is large enough.
* **Handlers without locks.**  `net/http` runs each request in a goroutine;
  all of them use one global slice, which `append` may move.
* **Crashes.**  Every failed call is `log.Fatal`, in the client (with a
  passkey file half made, a transaction sent or not) and in the handlers of
  the server (with every account in memory only).
* **A node between the client and the contract.**  Nonces are read before the
  transaction is sent and the index is looked up before it is in a block.
* **Bytes that become numbers and come back.**  The 33 bytes of an identity are
  two big integers in the contract, which forget leading zeros.  In the SNARK
  construction a name is a number if it reads as one, and so two names may be
  one service.
* **Two computations of one proof.**  The prover multiplies polynomials over
  the digits of an index, in place; the verifier sees their values at one
  point.  Rings need not be a power of n, the index may be another's, and the
  verifier rebuilds ring and message by itself.  The library's tests prove
  index 0 or 1 only, and there is none of DBPoE beside benchmarks.
* **Additions that do not carry.**  Elements are summed and negated with limbs
  that overflow their width; each function counts by hand how large its
  operands may be.  The products of scalars carry by comparisons in macros, and
  the assembly through as many registers as its author found enough.  Random
  inputs hardly ever carry all the way.
* **Cases of the group law that random points never meet.**  The unified
  addition is 0/0 for some pairs; scalars are negated or made odd before they
  are cut into digits; the blinding of a context is renewed with the help of
  the previous one.
* **Two sides of a key.**  The owner of a secret key and those who have the
  public one change each by calls of its own, and must come to the same keys
  and to the same failures.
* **Signs that are fixed in place.**  A Schnorr signature names a nonce by x,
  so that each signer negates his own if the sum of all has the wrong y - in
  the context, before the calls that can fail.  An ECDSA signature has two
  forms and keeps an x modulo the order of the group.
* **Memory that is not asked twice.**  The batches of a long sum are sized by a
  formula, and what the allocator then answers is not looked at.

### What makes each component correct

* Contract: an entry never moves or changes identity, revocation is final, a
  lookup never changes its answer (`IndexStable`, `RevocationFinal`); readers
  get the bytes that were sent, and find them (`ReadersGetTheKeys`,
  `LookupFindsTheKey`).
* create: a listed identity has its passkey in a file, is listed once, what is
  sent is not lost and is listed in the end, what is printed is right
  (`KeyKept`, `ListedOnce`, `SentIsKept`, `SentIsListed`, `AddedMeansListed`,
  `PrintedIndexRight`).
* register and signup: the command fails, and the service refuses, for a
  stated reason only; an accepted ring was active; a covered user gets
  registered (`CommandFailsForAReason`, `RefusedOnlyAfterRevocation`,
  `AcceptedRingWasActive`, `Registers`).
* choice of m: both loops end with the same m wherever a proof can be made
  (`LoopsChooseM`).
* service memory: nobody gets in without a verified proof; who was told of a
  registration has one and can log in (`LoginOnlyIfVerified`,
  `ToldMeansRegistered`, `ToldCanLogIn`, `ImplementsService`).
* membership proofs: a proof for one's own entry verifies, one for another's
  does not, nor does any proof over another ring, message, topic or nullifier
  (`HonestProofsVerify`, `VerifiedMeansOwnEntry`,
  `VerifiedMeansSameArguments`, `ProofFillsItsBuffer`).
* authentication: a signature verifies for the key and challenge it was made
  for, if that key is the signer's own, and otherwise not
  (`AuthenticMeansOwnKey`).
* crypto-snark: a proof is good for its own group, message and service, and its
  nullifier names the member there and nowhere else; a signature names the
  service key (`VerifiesOverItsGroupOnly`, `NullifierNamesTheMember`,
  `SignatureNamesTheKey`).
* group: every sequence of calls gives the point of the textbook, no check of a
  VERIFY build fails, blinding cancels, saved points come back (`RightPoint`,
  `ChecksHold`, `BlindingCancels`, `SavedPointsReload`).
* numbers: words and limbs stand for the number that arithmetic gives, hashes
  are those of the standards, powers have the right exponents
  (`NumbersAreRight`, `DigestIsStandard`, `DrawsDiffer`, `ChainsAreRight`).
* keys: secret and public key stay a pair (`KeysStayAPair`).
* signatures: what is signed verifies and gives back the signer's key, in
  either form (`SignaturesVerify`); parts that are combined verify, in whatever
  order they were made (`AggregatesVerify`); bytes in DER have one reading and
  one writing (`OneEncoding`, a conjunct of `NumbersAreRight`).
* scratch memory: a call that decides on batches has the memory for them
  (`BatchesGetTheirMemory`).

## 2. Modules, and how they correspond to the code

```
The protocol
  IdRegistry <--EXTENDS-- IdEncoding <--EXTENDS-- NumbersProofs
     ^   ^
     |   +---INSTANCE--- Registration --EXTENDS--> RingSize <--EXTENDS-- RingSizeLoops
  INSTANCE                     ^
     |                      EXTENDS
  Enrolment                    |                     Server --INSTANCE--> AccountService
     ^                         |                        ^  (refinement)
  EnrolmentProofs      RegistrationProofs            ServerProofs
                       (and of the loops of RingSizeLoops)

The proofs
  Ringcip --EXTENDS--> ZeroMcomProof                 Semaphore
     ^                                                  ^
  RingcipProofs                                  SemaphoreProofs

All modules of proofs EXTEND the modules they are about and, but for
ServerProofs, NumberLemmas.

The arithmetic of points
  Curve --> Generator --> Multiply --> Group   (EXTENDS)

Keys and signatures
  KeyPair, Ecdsa, Aggsig --EXTENDS--> PublicKeys        Der
     ^       ^
  KeysProofs (EXTENDS KeyPair, Ecdsa and Aggsig)
  MCCurve EXTENDS these callers and Curve: one caller of each

The arithmetic of numbers
  ScalarRegister --INSTANCE--> Scalar4x64 --EXTENDS--> ScalarLimbs
  ElementRegister --INSTANCE--> Field10x26, Field5x52 --EXTENDS--> FieldLimbs
  Hashing --EXTENDS--> Sha256        AdditionChains        Scratch
     ^                                                        ^
     +---- NumbersProofs (EXTENDS IdEncoding, too) -----------+
  MCNumbers EXTENDS IdEncoding, Hashing and Scratch, and has an INSTANCE of the
  others and of Der: one caller of each
```

### The protocol

**IdRegistry** is the contract.  A transaction is an action (`addID`,
`revokeID`), a view function an operator.  `Ids` are the identities as the
contract keeps them, in two words.  Only the deployer's `owner` appears, as
`addID` stores `_owner` of the contract in every entry.  `MaxIds` bounds `Add`.

**IdEncoding** is the way of the 33 bytes of an identity into these two words
and back: `Parts` is `byte32`, `byte33` and `SetBytes` of the writer, `Bytes`
the reader's `Bytes()`, which drops leading zeros, `Joined` what the reader
appends, with the zero it puts back in one of the two places.  `keys` is a
history of what was given to `AddIDstoIdR`.  That nothing is lost depends on the first byte, which
`ge_save_boquila` of the C library makes 8 or 9.

**RingSize** holds the m of each side as a definition; **RingSizeLoops** runs
the two Go loops with their own variables and checks them against it, so that
Registration may compute m in one step.

**Registration** composes the contract with sessions: the register command
(`Start`, `ReadSize`, `FindIndex`, `ListActive`, `ScanEntry`, `Prove`), the
form (`Submit`) and the handler (`PostListActive`, `ScanEntry`, `Verify`).
One remote call is one action.  `pc` is the point a session has reached, `scan`
the local variables of the running `GetallActiveIDfromContract`, `proof` what
verification compares of a proof: m, the ring size, the ring in order.
`Prove` has one disjunct per outcome of `RegistrationProof`, in the order of
its tests: panic on a list shorter than the ring size, refusal when N^m does
not cover the ring, the library's abort on an index past it, a proof on
another's identity that fails its own check, a proof.  `Verify` has the
panic that `net/http` recovers (`dropped`), the refusal and the acceptance.
`Fail` is any `log.Fatal` on the way.

**Enrolment** is the create command, one action per call to the operating
system or the node, against the contract and a pool of pending transactions.
`Interrupt` ends a command anywhere.  The node is not part of the repository
and marked external: it gives the next nonce of an account counting pending
transactions, takes a transaction with the next nonce or a better price for a
pending one (`Take`), and makes blocks (`Mine`) - or it mines inside the call,
as the Ganache of the README does (`instant`).  `sent` is a history: the
commands whose transaction the node took.

**Server** is the memory of `server.go` under concurrent handlers.  The slice
is modelled as Go implements it: `header` is the global variable, `arrays` the
heap.  `append` is `RequestForm` (load the header), `Grow` (allocate and copy,
when full), `Publish` or `Extend` (store the new header) and `Store` (write the
element).  `Submit`, `Verify`, `Compare`, `Assign` are the signup handler:
each turn of its loop reads the global header again, and so does each
assignment.  `LogIn`, `Search` are the login handler.  `Exit` is the end of the
process, after which it is started with an empty slice.  `orderly` is a
history: no restart so far, and no form requested while another was appended
or an account updated.

**AccountService** states what the service promises, without slices or
goroutines: challenges are issued, a user registers on one's own challenge, is
told so after that, and may log in when there is an account.  `Server`'s
`Service` maps the entries of the current array to its table.

### The proofs

**ZeroMcomProof** is the one-out-of-many proof of `ring_impl.h` as operators:
`Coefficients` the polynomials of the ring, `DigitCommitments` and `Q` the
points of the proof, `CompleteProof` all of it for given random scalars and a
given challenge, and `RingEquation`, `DigitEquation`, `BitEquation` the three
comparisons of the verifier.  A point is the vector of its exponents in the
field of q elements; the code never multiplies an identity's generators with
those of the digits, so that these are two kinds of vectors.  The C loops
that add, multiply and take digits are functions that recur on the loop's last
index (`SumOf`, `ProductOf`, `Power`, `Capacity`, `get_jth`).  The plain proof
and the DBPoE one are two copies of the same code; here one set of operators
has the generators and the topic to leave out as parameters.

**Ringcip** calls them as `main_impl.h` does.  A state is one use of the
library: `prove_memmpk` or `prove_DBPoE_memmpk` with any member, index, ring, m
and message, in the order of the tests (`refused` is the return value 0,
`aborted` an ARG_CHECK), then `verify_memmpk` or `verify_DBPoE_memmpk` with any
ring, message, topic and nullifier.  `made` and `query` keep the arguments of
the two.  `auth_prove` and `auth_verify`, and their DBPoE copies, are the
signatures of a login, for any key the caller hands in as the public one, with
a service key from a hash (`ssk`) that may overflow.

**Semaphore** is `crypto-snark/src/index.js` and its circuit.  Hashes and keys
are terms, equal when made of the same parts; `LevelUp` and `MerklePath` are
the tree, in which a last node without a neighbour goes up as it is (a list has
as many levels as leaves, of which the last ones are the root alone); `Circuit`
is what a proof shows (root, nullifier, message, scope).  `group` changes at
any time; `made` and `signatures` keep what was proved and signed.  A text has
two numbers, the one it reads as and the one of its bytes, and `convertMessage`
chooses.

### The arithmetic of points

**Group** has an element of the field as one number with what `VERIFY` builds
keep beside it: `magnitude`, `normalized`, and `safe`, whether every check held
of the operations it comes from; and on top of that `group_impl.h`, line by line
in its formulas.  **Multiply** has `ecmult_const` (the multiplication
all of ringcip uses), `ecmult` (Strauss, with windows and a table over a
common denominator), `ecmult_gen` with its blinding, and `ecmult_multi_var`:
Pippenger's buckets, Strauss for many points, batches; **Generator** has the
points made from hashes, the 33 and 64 bytes points are kept
in, and the sums of Pedersen commitments.

**Curve** is a caller: a register `r` and a `context`, one action per function,
each writing its result into the register; `k`, the multiple of the generator
the register should stand for, follows by the textbook's addition
(`PointSum`, chords and tangents) and is what the properties compare with.

### Keys and signatures

**PublicKeys** has the calls of `secp256k1.c` on keys as operators.  A point is
the multiple of the generator it is, with the coordinates of the small curve;
that the library's points add up in this way is what Curve checks.  32 bytes are
a number that need not be a scalar: what each call does about that, and about
keys that are zero, is kept.  `Answer` is what most of them share: the key is
zeros after a call that failed.

**KeyPair** is a caller that keeps both keys, perhaps in two places, and changes
them by the two calls the library has for each change.  **Ecdsa** makes a
signature from any draws of a nonce function, stores it, and lets somebody else
turn it into its other form (`Flip`).  **Aggsig** is `aggsig/main_impl.h`: the
context with the progress of its signers (`progress`, `secnonce`,
`pubnonce_sum`), whose calls come in any order, for any message and also with
bytes that are no key; and, without one, signers who exchange public nonces.
`disturbed` is a history: a sign in the context was changed by a call that did
not finish its work.  **Der** reads and writes the bytes of an ECDSA signature.

**MCCurve** has, beside Curve's own caller, one of each of these.

### The arithmetic of numbers

**ScalarLimbs** and **Scalar4x64** are `scalar_8x32_impl.h` and
`scalar_4x64_impl.h`.  The macros that multiply and carry are operators on
an accumulator of three words with `kept`, whether no carry was lost; a product
is a fold of such macros over its columns, given as data (`Columns`) instead of
sixty lines.  The assembly of the 4x64 version is its own definition where it
adds otherwise.  **ScalarRegister** calls them on a register and follows the
`number` it should hold.

**FieldLimbs** is what `field_10x26_impl.h` and `field_5x52_impl.h` have in
common: limbs that overflow, passes that move the overflow on, normalization
in its four forms, comparison, bytes, storage.  **Field10x26** and
**Field5x52** are the products and squares (`field_5x52_int128_impl.h` and the
x86-64 assembly).  **ElementRegister** calls them and follows the number by its
`residues` modulo the factors of a composite characteristic.

**Sha256** is `hash_impl.h` but for the compression of one chunk, which is a
parameter; **Hashing** calls it with messages in any pieces, objects used
twice, keys of HMAC around one chunk, and generators of RFC 6979, and compares
with the padding of the standard done on whole messages.  An object is its
chain of states, its buffer and its count of bytes.  `sha256_write` is a loop
over the chunks of the data; `sha256_finalize` writes padding and size through
it, and leaves the state cleared and the padding in the buffer, so that an
object which is used again without being initialized is one that run and proof
have to answer for.

**AdditionChains** runs the chains of squarings and products that are inverses
and square roots (`fe_inv`, `fe_sqrt`, `scalar_inverse`) on exponents of the
full 256 bits.

**Scratch** is `scratch_impl.h` and the decisions of `ecmult_multi_var` that
depend on it: how many points fit, which algorithm takes them, how many batches
of which size, the frame and the objects of each batch, a callback that fails.
Callers may have frames of their own below.  Sizes are those of a 64-bit build
and not scaled.  A frame of a caller has at least a byte (`SizesAssumption`): one
of none would be given without the room that `allocate_frame` adds for alignment
(`scratch_max_allocation` answers 0 both when nothing is left and when nothing
is left but that room).  No caller of the sources asks for such a frame.

**MCNumbers** has one caller of each of these in a behaviour (`caller`), so
that one run answers for all of them.

### Proofs, runs and faults

**NumbersProofs**, **EnrolmentProofs**, **RegistrationProofs**,
**ServerProofs**, **KeysProofs**, **RingcipProofs** and **SemaphoreProofs** hold
theorems; **NumberLemmas** what several of them need of numbers and of loops.
The **MC** modules give the constants of the runs.

Definitions whose name ends in `Fault` stand before the definition they
distort, with a comment that says how: a plausible bug (a dropped guard, a
missing reset, an off-by-one).  Each property is broken by at least one of
them, under its own run.  No specification uses them.

## 3. Runs: what is checked, with which bounds

| Run | Specification and bounds | Shows |
|---|---|---|
| Numbers | see "Numbers" below | a number survives every representation; `IndexStable`, `RevocationFinal` of the contract, with identities as bytes and lists of 4 |
| RingSizeLoops | N = 2, M = 10 as in the code; every ring size 1..1100 | the loops compute `RingSize`; where the command can prove at all, both sides have the same m |
| Registration | one session, 4 other identities, 5 entries, N = 2, M = 3, every addition and revocation between any two calls; fair sessions | why the command fails and the handler refuses, what an accepted ring is, and `Registers` |
| Enrolment | 3 commands; two share a file, two an account; 2 gas prices; both kinds of node | the invariants of enrolment, and `SentIsListed` |
| Server | 2 users, 3 forms, 1 restart, everything interleaved; a fourth form in behaviours that are `orderly` so far | `LoginOnlyIfVerified` always; in orderly behaviours the slice implements `AccountService`, with `ToldMeansRegistered`, `ToldCanLogIn` |
| Ringcip | q = 5; contexts with n = 2, m = 3 and n = 3, m = 2, and one with three topics; 4 members, 5 rings of 1 to 4; 2 names of services, one key that overflows | which proofs and signatures verify, over what, and how long proofs are |
| Semaphore | 5 groups with trees of 1, 2, 2, 3 and 5 leaves, a circuit of depth 3; 3 secrets, 3 texts of which two are one number; 2 proofs or signatures | what proofs and signatures are good for while the group changes |
| Curve | y^2 = x^3 + 3 over 19, 13 points, scalars of 4 bits; WINDOW_A 3, WINDOW_G 4, digits of `ecmult_gen` of 2 bits; 32 bytes are 0 to 25; two signers | results of all operations on points, handed on to each other; keys, ECDSA and aggregated signatures over the same points |
| RingSizeLimit, RegistrationPanic, EnrolmentReadme, ServerRace | as above, smaller | the four disagreements of section 7 |

Why the bounds are enough for the interesting cases:

* *Registration.*  With N = 2 and M = 3 the largest m is 2, so rings of 2 (m =
  1), 3 and 4 (m = 2, which covers 4) and 5 (not covered) all occur.  Five
  entries leave room for entries before, inside and after the ring, added
  before the size is read, between two reads, or after the proof, and for
  revocations of each of them.  The others join in one order (`InOrder`), which
  only fixes their names: a symmetry set would not be sound with the liveness
  property.  Other sessions only act through the contract, where the other
  identities do everything they could do; the theorems of section 5 hold for
  any number.
* *RingSizeLoops* uses the program's own constants, and every size the signup
  form accepts (`max="1024"`) and some more.
* *Enrolment.*  Two commands on a file and two on an account give each race
  between a pair; the third command takes part in one of each kind.  Two
  prices make a replacement possible or refused.  What is excepted of
  `SentIsKept` and `SentIsListed`, a transaction outbid by one that was really
  taken, is reached: without the exception both are violated.
* *Server.*  Capacities go 0, 1, 2, 4: with three forms `append` runs on a nil
  slice, grows twice and extends in place once; with four it extends to the
  end of an array.  A restart with forms outstanding needs one `Exit`.  Two
  requests at a time are what each race of section 7 takes; section 5 proves
  the login property for any number.
* *Ringcip.*  Rings are a power of n, below one and above one, with every index,
  also one past the end, and every member as the prover, listed or not.  The
  ring `<<1, 2, 3>>` is what is left when the first member is revoked.  m goes
  from too small for the ring to one more than the context's.  The scalars of
  a draw take all values one after the other (three for the blindings of A, C
  and D, which enter linearly), the challenge all but 0; keys are fixed; with
  topics one draw is explored, as the masks enter as without topics.  The
  equations are polynomials of degree 3 at most in each scalar and in the
  challenge: one side less the other does not vanish at all of these values
  unless it is the zero polynomial in that scalar.
* *Semaphore.*  Trees with a neighbour for every node, with a lone last leaf and
  with a node that goes up two levels; one member at several places; two
  orders of the same members; a second key whose second component is the same.
* *Curve.*  A whole group: every pair of points is added, also those that
  double, cancel or are 0/0, from every Jacobian form that two denominators
  and calls on calls produce.  13 points are one of the small orders the
  sources themselves can be built with; 19 is the least characteristic over
  which the map from hashes takes each of its three branches.  Digits of 3 and
  4 bits over 4-bit scalars make several words, with skews, borrowed units and
  last words that are shorter.  Batches are of 1, 2 and 3 points, with none,
  some or all memory.  A register that is in use and a context that is blinded
  again are not combined (`OneAtATime`): only `ecmult_gen` reads the blinding,
  into a fresh register, and `BlindingCancels` says what it depends on.
* *Curve: keys and signatures.*  Bytes from 0 to 25 hold each scalar twice, once
  as bytes that are none.  One point has x = 14, which is above the order, and
  shares its r = 1 with the point with x = 1: verification and recovery take
  the branches that no signature in the real group has ever taken.  A nonce
  function draws up to twice, so that a draw may be refused, be zero, or give s
  = 0.  Two signers draw every nonce, so that sums of nonces have both signs
  and vanish; a hash of the run is no scalar for one message, and one key is
  none, so that calls fail after the sign was changed.  With more signers a sum
  of nonces is again any point.
* *Numbers: identities.*  4 bytes instead of 33, with zeros behind the first,
  at the end, and in both places; keys that differ in the last byte only, or
  in the first.
* *Numbers: scalars.*  8 words of 3 bits modulo 2^24 - 5259 and 4 words of 2
  bits modulo 233.  Both orders have the shape of the real one, 2^b - C with C
  of one word more than half, on which the number of folds of a product
  depends; a column of 8 products of words fits in three words, as it does
  there.  Operands stand next to 0, to half the order and to the order.
* *Numbers: elements.*  5 limbs of 10 bits with magnitudes to 8 (as 10x26) and
  5 of 11 bits with magnitudes to 2 (as 5x52), since accumulators must fit in
  the 32-bit integers of TLC.  A characteristic is a product of
  four factors, modulo each of which numbers are compared.
* *Numbers: hashes.*  Chunks of 8 bytes, digests of 4, messages of up to 17
  bytes in pieces of 1, 6 and 8: padding of one chunk and of two, full
  buffers, keys of HMAC of less and of more than one chunk.  The compression
  function of the run depends on every byte and on its place.
* *Numbers: DER.*  Scalars and sizes of 2 bytes, order 65003.  Written are
  scalars next to 0, 128, 256, half of 2 bytes and the order, with every room;
  read are bytes with each flaw a length or an integer can have, and with 130
  bytes, whose length has a length.
* *Numbers: chains and memory* are not scaled.  Scratch spaces hold none, one
  or two points, or about what 275 points need - the last count of one bucket
  window - and points number 1, 3, 160 (the threshold of Pippenger), 275, 276
  and 300.

Deadlock is checked in Registration, Semaphore and RegistrationPanic.
The other specifications describe work that ends: commands that are run once,
loops, a bounded number of forms, a call of the prover and one of the verifier,
a chain, lists that are full, a pair of keys after a failure.

## 4. Fairness

* `Registration!FairSpec`: weak fairness of `Step(c)` for each session.  A
  command or handler that is running goes on, since it only waits for answers
  of the contract, and `Fail` stands for an answer that never comes; and the
  user submits the proof he has just made, which is what he ran the command
  for.  Nobody has to start a command, add or revoke anything, or fail.
  Starting a command again after a failure is not fair either: `Registers` is
  about the session under way.
* `Enrolment!Spec`: weak fairness of `Mine(a)` only.  The node goes on making
  blocks; a command may stop anywhere for ever.
* All other specifications need none: their properties are safety.

## 5. Proofs

All are checked by TLAPS from the named assumptions on the constants (`N` and
`M` are naturals above 1, `Clients` a subset of `Ids`, `path` and `account`
functions, bounds are naturals, `None` is no user).  They hold for every set of
identities, sessions, commands and users and without any bound on runs, since
the bounds are themselves parameters.

Of the 40 properties of the passing runs, 31 are theorems.  The module of a
theorem EXTENDS the module of its property, so that both are about one
definition.

**NumbersProofs** is about the contract, the bytes of identities, the memory of
long sums and the hashes.  Of the contract: `TypeCorrect` (`nextIndex` is the
length of the array), `RevocationIsFinal`, `IndexIsStable`.  The last needs that
the least match of a lookup stays least: new matches come after all old ones.

And of IdEncoding, for identities of any number of bytes:

* `LookupIsRight`: a lookup gives the first entry made for an identity, and
  none exactly when it was never sent.
* `ReadersAreRight`: the list a reader builds has the identities of the active
  entries, byte for byte and in their order.

`EncodingInv` says that the entries are the parts of the keys in the history,
entry by entry.  The rest is about the numbers.  A number is made from the first
byte on (`SetBytesRuns`) and taken apart from the last (`RestRuns`); `BytesBack`
shows that `Bytes` is the inverse of `SetBytes` for bytes whose first is not 0,
however many zeros follow: after k bytes are taken, what is left is the number
of the bytes in front.  The first byte of an identity is 8 or 9, and the one byte
of the second number is put back when it is 0; so `JoinedParts`: what is joined
is what was sent.  Two identities with the same two numbers would be joined to the
same bytes, hence `PartsTell` and the lookup.  The reader's loop is followed
entry by entry (`ListRuns`): an active entry stands at the place that counts the
active ones up to it.  Assumed is only that identities have one length
(`BytesAssumption`).

Of Scratch, for scratch spaces, frames of callers and counts of points of any
size:

* `MemoryIsThere`: whatever a call of `ecmult_multi_var` decides, each of its
  batches has its frame, and each object of a batch its place in the frame.  So
  `BatchesGetTheirMemory`: that nobody looks at the answers of `scratch_alloc`
  does no harm.

The decision and the requests are far apart: a formula turns free bytes into a
number of points, another turns points into batches, and the batch asks for six
objects whose sizes it computes by itself.  `MemoryInv` has the three places a
call can be at - none running, between two batches, inside one - and keeps that
the frames stay below the limit, that the frame of a batch could be had when the
call began (`HasRoomAbove`), and what the objects taken so far add up to
(`ObjectsTaken`).  The rest is about the formulas:

* *Points that fit* (`PippengerFits`, `StraussFits`): the frame for as many points
  as the formula answers is not larger than the memory left.  For Pippenger this
  goes over the bucket windows.  The answer for a window is cut at the most
  points the window is chosen for, and wider ones are tried only where nothing was
  cut for want of room; so the batch, which chooses a window by itself, takes that
  one, or a smaller one that has room for all its points.
* *Batches* (`BatchesFill`): n points in as few batches as the maximum allows, of
  equal size, leave no batch without points and none with more than the
  maximum.
* *Objects* (`ObjectsFit`): every object is rounded up to the alignment when it
  is taken, and the frame has that room for each of six.

Of Sha256 and Hashing, for every size of a chunk, of a word and of a digest, and
messages, pieces, keys and seeds of any length whose size fits in two words:

* `HashesAreRight`: digests are those of the standard (`DigestIsStandard`), for
  hashes and for HMAC, whatever the pieces were, and for an object that was
  used before and not cleared.

The compression function is any function from states and chunks to states
(`Compression`).  `Kept` is what an object is at any time: the state is the chain
over the whole chunks of the message, and the buffer begins with the bytes after
them (`Holds` adds the count of bytes).  Behind these the buffer has bytes of
earlier chunks or messages, on which nothing depends (`SameBuffers`).
`AbsorbedIsKept` goes through the loop of `sha256_write` chunk by chunk: first the
chunk that the buffer has begun, then those inside the data, then the rest into
the buffer.  At the end the loop runs over the padding.  `PaddingIs` shows that
the number of zeros which the C expression computes with a remainder of unsigned
numbers is the least that fills a chunk (`FewestZeros`), and `SizeIs` that the two
words written after it are the size in bits.  HMAC is two objects at once: the
inner one and the outer one hold the masked key (`MasksAre`: the key padded or
hashed first, and xored with one byte, then with the xor of both), and `DigestIs`
puts the one's digest through the other.  `HashInv` says this of the object and of
the message at hand.

* `GeneratorsAreRight`: the generator behind nonces and blindings is the one of
  RFC 6979, step by step (`DrawsAreStandard`).  It begins with the key and value
  that the standard makes of the seed, each draw after the first begins with a new
  key, and what is drawn are the standard's values one after the other.

The code writes a value, a byte and a seed one after the other into an HMAC
(`Mac`), and copies digests of fixed size into a buffer of any; the standard speaks
of joined messages and of a stream.  `MacOfThreeIs` joins the pieces, `ValuesStand`
puts byte j of value i at its place.  `GeneratorInv` keeps that keys and values are
digests.

Assumed are that a chunk has room for the size of two words and a digest is not
longer than a chunk (`ChunksAssumption`), that words have bytes
(`WordAssumption`), that xor of bytes is one (`XorAssumption`) and that sizes fit
(`MessagesAssumption`, `SeedsAssumption`); TLC evaluates all of them in run Numbers.

**EnrolmentProofs.**  `TypeCorrect`, `KeyIsKept`, `PrintedIndexIsRight`,
`AddedIsListed`, `EachListedOnce` and `NoneIsLost`, from one invariant, `EInv`.  It says of
*the files* that what they hold was drawn for them (`FilesOwn`), of *pending
transactions and entries of the list* that their passkey's file holds one
(`PoolKnown`, `ListKnown`: nothing is sent before the file was written, and no
file is ever emptied), and of *each command* what it has in hand at its place
in the program (`Facts`).  `EachListedOnce` needs one more: an identity is sent
once by a command, and so is pending or listed at most once if no other command
works on that file (`SentOnce`).  `NoneIsLost` proves `SentIsKept`, the safety
half of `SentIsListed`, with `SentInv`: a command whose transaction was taken has
passed its call, so that its nonce, price and identity stay; the transaction
moves one place nearer with each block of the account, until it is listed; and
the only one that can take its place has its nonce and a better price.

**RegistrationProofs.**  `TypeCorrect`, with the stronger `TInv`: a scan stays
inside the list, and no identity is listed twice.  Then the two properties the
service relies on:

* `RefusalNeedsRevocation`: the handler refuses or drops a proof only if an
  identity of its ring is revoked.
* `AcceptanceMeansActive`: an accepted ring contains the user, and only
  identities that were active when the handler began to read.

Neither is inductive, as each relates the end of a session to what was read
many steps before.  The invariant `IInv` keeps, for every session:

* *of the list a scan has built* (`ListFacts`): the identities stand in the
  order of the contract and without repetition, and every one that is missing
  between them is revoked;
* *of a proof that was made* (`RingFacts`): its ring is such a list, cut after
  n identities, with the m of both sides for n, and the user in it;
* *of a running scan of the handler* (`ScanFacts`, `Agrees`): as long as no
  identity of the proof's ring is revoked, the list read so far and the ring
  agree wherever both are defined - and when the scan ends it has reached the
  ring's last identity.

The key step is `ScanGoesOn`: two scans of the same growing contract, made at
different times and each spread over many other transactions, meet the same
identities in the same order except for those revoked in between.  From this,
a list that is too short, or a ring that differs, names a revoked identity.

`FailureHasAReason`, in the same module: the command ends without a
proof only after a `log.Fatal`, when an identity of the contract is revoked,
when no m covers the ring, or when the user was listed after the size was read.
`RInv` relates the three reads of the command: the size is that of an earlier
list, the index is that of an entry with the user's identity, and, while
nothing is revoked, the list read so far is the contract's, entry by entry
(`IsPrefix`).

`LoopsAreRight` (`LoopsChooseM`) justifies that a session computes m in one step:
the loops of RingSizeLoops, for every bound on rings and on m and in any interleaving, end
with `ClientM` and `ServerM`, and their powers stay in range.  The invariant,
`LoopsInv`, says of a loop at turn k that its power is the capacity of k - 1
digits and that no smaller number of digits covers the ring (`AtTurn`).  It needs
that the capacity grows with every digit (`CapacityRises`), and that the first
number of digits that covers is the least one (`FirstChosen`).

**ServerProofs.**  `TypeCorrect`: no header reaches past its array, however
appends overlap - in particular `Publish` never stores a length for which its
new array has no room.  `LoginNeedsVerification`: the invariant says that every
public key in *every* array ever allocated, not only in the current one, was
verified; an update lost by one append and brought back by another is still one
that was verified.  It also keeps that an append works on an array with room
for its entry (`HasRoom`), that a handler past the verification has a verified
user, and it uses that arrays never change their length (`ArraysKept`).

The other three results rest on `InOrderInv`, which holds while the behaviour is
`orderly`.  It says of *the memory* that one handler at most is inside an append
and none is inside an update then, that nothing was ever written behind the
current length, and that an array which is about to be published has the entries
of the current one (`MemoryInOrder`); of *the entries*, that each is an account on
a challenge of its owner or is about to be stored, and that no challenge stands
twice (`AccountsInOrder`); and of *each user*, that his last challenge stands in
the slice (`Owns`), that what he searches for is still ahead of the search
(`Seeks`), and that who was told has an account (`Informed`).

* `ToldIsRegistered` and `ToldLogsIn` follow from `Informed`.
* `ServiceIsImplemented`: under the mapping `Issued`, `Accounts`, `Inside` the
  step that stores the entry of an append is `Issue`, the assignment of an update
  is `Register`, the page is `Confirm`, and what a login returns is `LogIn` or
  `Leave`; every other step changes nothing there, a move of the slice to a larger
  array included.

**KeysProofs** is about every group whose order is an odd prime (`PrimeOrder`:
no number from 2 to N - 1 divides N) and in which a point is known by x and the
parity of y (`Coordinates`).  **NumberLemmas** has the arithmetic: remainders
are unique, summands and factors may be reduced first, and modulo a prime no
product is zero and every number has an inverse.  The prover has no theory of
primes; the two facts follow from `OneIsLeast`, an argument by the least element
of a set that goes from k to the remainder of n by k.

* `KeysArePaired`: `PairInv` has the three kinds of states - before the keys are
  made, in use, after a failure - and one lemma for each call says that the
  answers for the secret key and for the public key `Fit`.
* `SignaturesAlwaysVerify`: the invariant says that the signature `Belongs` to a
  point q, its nonce or the negative of that: s q = m + r key, and r and recid
  are those of q.  Making s low, storing and flipping keep this with q or -q;
  the verifier divides by s and gets q, recovery finds q from r and recid and
  divides by r.  Assumed are also fewer than 2 N elements of the field and that
  -q differs from q in y only (`Negatives`), and that no nonce is drawn whose x
  is N itself (`Inputs`): secp256k1 has two such points (N^3 + 7 is a square);
  for these r is 0, which only a `VERIFY_CHECK` tests (`ecdsa_impl.h:285`), and
  the signature does not verify.
* `AggregatesAlwaysVerify`, for any number of signers.  With a context the
  invariant (`ContextInv`) says that a part belongs to the nonce its signer has
  now, and that the nonces as they were drawn (`Original`: a signer who signed
  has negated his if the sum has not the square y) still add up to the sum, as
  long as no failed or early call changed a sign; so the parts add up to the
  hashes times the keys and the point that is meant.  Without a context
  `SinglesInv` says what each signature is made of.  The lemmas on `SumOf`
  (`SumIsLinear`, `SumIsNegated`, `SumGrows`) are inductions over `RangeInduction`.
  Assumed is that over one x there are a point and its negative only, of which one
  has a square y (`Squares`: -1 is no square in the field, and no point has y = 0),
  and that signers have valid keys and hashes are numbers (`AggsigInputs`).

Run Curve checks the assumptions on the group for its own
(`MCCurve!TheoremsApply`).  It has no point with x = N.

**RingcipProofs** is about the membership and authentication proofs, for every
prime order q, every context (n of at least 2, any m, any number of topics),
ring, member, index, draw and challenge.

* `HonestIsVerified`: a proof for one's own entry verifies under its own
  arguments.
* `VerifiedIsOwnEntry` and `VerifiedIsSameArguments`: a proof that verifies is
  for the entry of the one who made it, and was made for the ring, message,
  topic and nullifier it is verified with.
* `ProofIsAsLong`: a proof has as many bytes as `get_size` says.
* `AuthenticIsOwnKey`: an authentication proof verifies for its own challenge
  and key if that key is the prover's, and for nothing else.

The first four follow from `MembershipIsJudged`, whose invariant is
`MembershipInv`.  The properties speak of a verdict, and the verdict is about a
proof that an earlier call made: what has to be kept in between is that the proof
at hand is what `CompleteProof` makes of the arguments in `made`, with a draw
and a challenge that are allowed (`ProofMade`).  What the verifier computes of
such a proof is in the first half of the module:

* *The loops.*  A recursive function over the naturals is only as good as the
  proof that it exists.  `LoopRuns` (in NumberLemmas) proves that for every loop
  that computes its next value from the one before; `RangeInduction` is
  induction up to a bound, with a set in place of the predicate, and with it
  every sum and product is followed turn by turn (`SumStep`, `ProductStep`).
* *The digits.*  m digits to the base n tell every index below n^m from every
  other (`DigitsTell`).
* *The polynomials.*  The coefficients that the prover collects by multiplying
  one factor per digit give at x the product of the factors' values
  (`ProductValue`).  So the weight the verifier gives to an entry, the product
  of the f's at its digits, is the value at x of what the prover expanded
  (`WeightValue`).  Only the prover's own index has a polynomial of degree m,
  with leading coefficient 1 (`LeadingCoefficient`); the lower coefficients are
  what the Q's carry, and go away.  What is left of the sum over the ring is
  `x^m` times the entry at that index (`RingValue`, `LeftValue`), and the
  equation holds exactly when this is `x^m` times the prover's own value
  (`SignedValue`).  As q is prime, `x^m` is not 0 (`PowerNotZero`).
* *Both directions.*  `ProofVerifies`: the three equations hold under the
  prover's arguments when the entry at his index opens with his values.
  `VerifiedOpens`: if they hold for the challenge of the proof, that entry has
  the prover's msk on geng[0], and so is his.

Of the callers, `OneChallenge` says that the equation of the digits holds for
the challenge of the proof only, since the exponent of B on h is not 0; and
`HashBinds` that the commitments that are hashed fix ring, topic and nullifier -
rings of other identities, and other nullifiers, give other exponents somewhere.
Together they leave no other arguments a proof could verify with.

Assumed are that q is prime (`FieldAssumption`), that keys and hashes are not 0
and do not collide (`KeysAssumption`, `ServiceKeysAssumption`), that draws are
scalars and the blinding of B is not 0 (`DrawsAssumption`), and that contexts
and rings are what their types say (`InputsAssumption`).  TLC evaluates all of
them in run MCRingcip for its fields and rings.  As in the run, provers follow
the code: these are theorems about what the library's calls do with each other,
not about the soundness of the proof system against others.

**SemaphoreProofs** is about the second construction, for groups of any number
of members (`GroupsAssumption`: lists that are not empty), any secrets and texts
and a circuit of any depth.

* `VerifiesOverOneGroup`: a proof verifies while the group is the list it was
  made over and for no other list.
* `NullifierIsTheMembers` and `SignatureIsTheKeys`: nullifiers and signatures tell
  members, services and challenges apart, and nothing else counts.

`MadeInv` keeps what a proof shows: the root of the group it was made over, and
hashes of who, what and where.  That this decides over which groups it verifies
takes two facts about the tree.

* *A root belongs to one list* (`RootNamesTheList`).  Every level has
  boundaries: the node of place k stands over the members between two of them
  (`Framed`), and each boundary of the next level is every second of the one
  below.  Equal nodes stand over the same members, of whatever lists and on
  whatever levels (`NodeNamesItsMembers`): a node that went up without a
  neighbour is found where it was made (`NodeWasMade`), as a leaf or of two
  nodes, and their stretches join.  At the top there is one node over all.
* *Every path leads to the root* (`PathLeadsToRoot`): on each level the node
  reached is the ancestor of the leaf, whether the path has a neighbour there
  or not.

Both are inductions over the levels, by `RangeInduction`; `LevelsRun`,
`PlacesRun`, `PathRuns` and `OneWayUp` give the recursions their values.  That
hashes do not collide is in the terms.

## 6. What is only model-checked

* Liveness: `Registers`, `SentIsListed` (out of the prover's reach).
* Types where no proof needs them, as the other properties would break; those of
  Enrolment, Server, Registration and the contract are theorems, and run
  Registration checks its own.
* `NumbersAreRight`: carries through all words and limbs of a number, and the
  bytes of a signature (`OneEncoding`).  The columns of a product are folds.  The
  library's induction theorems take an operator as a parameter,
  which the installed provers cannot instantiate; `RangeInduction` and
  `LoopRuns` do it with sets and functions instead and serve loops that count up
  in naturals - those of ringcip, of the bytes of an identity, of the tree of
  a group, of sums of signatures and of the chunks of a hash - but say nothing of
  folds of operators.
* `ChainsAreRight` has no parameters: the chains are run on the program's own
  exponents, and the run is all there is to say.
* `DrawsDiffer`: that the draws of a generator are not alike is a property of the
  compression function, and so of the run's; what they are is a theorem.
* `RightPoint`, `ChecksHold`, `BlindingCancels` and `SavedPointsReload` (Curve): a
  group law of chords and tangents would be needed, for which the prover has no
  field arithmetic; also `ChecksHold` says of some operands that they are finite.

## 7. What the code does otherwise than its documents say

Each is a run whose counterexample is the behaviour (expected result:
violation).

1. **RingSizeLimit**: the command's loop stops before i = M = 10, so a ring of
   more than 512 identities leaves m = 1 and no proof is possible; the comment
   of `RegistrationProof` wants log(N) and the form takes 1024.
2. **RegistrationPanic**: the ring size counts revoked identities, the list
   does not contain them; the copy of the ring runs past the list.  One
   revocation in the contract is enough, of anybody.
3. **EnrolmentReadme**: the create command writes over an existing passkey
   file, and the README has it run several times with the same file name.
4. **ServerRace**: two `append`s without a lock lose an entry, and the handler
   still serves the success page.

The cause of 4 has a second face: the handler serves the success page whether
or not an entry had the challenge.  With restarts (`MaxExits = 1`), a form from
before the restart is answered like that even when forms are requested one at a
time.  The run Server shows the other side: as long as signup forms do not
overlap with each other or with an update, overlapping submissions and logins
are harmless.

One is met in run Curve and excluded from its property.  In a context of
aggsig a failed `aggsig_partial_sign` leaves the nonce negated
(`aggsig/main_impl.h:326`), and `aggsig_combine_signatures` the sum of nonces
(line 501) even when parts are missing.  The comment there has "everyone will
have negated their secret nonces in the previous step": after a second try, or
a part that is made later, that is not so and the signature does not verify.
`AggregatesVerify` is claimed while no sign was left like that (`disturbed`).
`include/secp256k1_aggsig.h:15` says that a context "can be reused for multiple
signature runs"; but no function resets `progress`, so that there is one run.

Three more were met while reading `crypto-snark`, in parts that are not
modelled or that only concern texts:

* `deriveWebKey` (`src/index.js:73`) has `Fr.neg(Fr.e(msk[0]))` with the comment
  "-msk[0]": the negative is taken in the base field, and as a scalar of the
  curve it is another number.
* A secret that is a string like "123" is indexed like an array: `msk[1]` is
  its second character, and the service keys of all secrets with that character
  are the same.  `SignatureNamesTheKey` is stated with `msk[2]` (counted from
  1) for that reason.
* The test "same nullifier even with 2 different groups" compares two promises
  with each other instead of their values.  `NullifierNamesTheMember` is what
  its title says.

## 8. Limits of the models

The protocol:

* In Registration and Server cryptography gives verdicts: a proof verifies
  exactly when m, the ring size and the ring in order are those it was made
  with (what Ringcip checks); signatures and proofs of others are not guessed.
  Challenges, passkeys and identities never collide.
* `getState(i)` and the `getIDs(i)` that follows are one step in Registration.
  An identity at an index never changes (`RevocationFinal`), so nothing can
  come between the two.
* The user pastes the ring size that was printed last ("N"), which belongs to
  the proof.
* In Registration no identity is added twice (`Add` takes fresh ones): a create
  command draws a fresh passkey, and Enrolment's `ListedOnce` says what that
  takes (commands on different files).
* Server loads and stores the words of a slice header together, and the fields
  of an account together.  The length test and the indexing of one turn are one
  step.  A length that was stored for an array in the meantime replaced by a
  shorter one (two in-place appends racing with a growth) has no meaning in Go
  and ends the behaviour there (the guard of `Extend`).
* Of an account only the challenge and the spk are kept, the two fields some
  handler reads.  `regAuthChallenges` and `loginFormHandler` are left out: the
  list is appended to and never read.
* A handler's `log.Fatal` - a failed contract call, a form field that is not
  hexadecimal - is part of `Exit`.
* Enrolment's contract is not changed by others, whose transactions come from
  other accounts and do not move what a lookup finds (`IndexStable`).

The proofs:

* Ringcip: provers run the code, so that its properties are about what honest
  calls give, not about forged proofs.  A hash over something else is another
  challenge, keys and hashes do not collide and are not 0 (KeysAssumption), nor
  are the blinding of B (DrawsAssumption) and the challenge: each fails with a
  probability of about 2^-256.  Scalars of a draw beyond the order of the
  group, which make the prover return 0, and the point at infinity are left out
  for the same reason.  Prover and verifier use one m (`LoopsChooseM`): another
  m cuts the bytes of the proof in other places.
* Semaphore: proofs come from the circuit and verify as they are; that a proof
  cannot be made otherwise is the proof system's promise, which is external, as
  are signatures.  The circuit's check that a secret is below the order is
  left out, as identities make it so.

The arithmetic:

* Curve keeps an element as one number with its magnitude, not its limbs; the
  limbs are in FieldLimbs, with a smaller width.  Two additions have guards
  that the code leaves to probability: the sum so far in `AddMultiple` is not
  at infinity (`ring_impl.h:249` and `:385` hand it to `gej_add_ge`, whose
  affine operand must be finite), and hashes give no 0 and no sum at infinity
  in `Generate`.
* The build leaves off the endomorphism and the static tables, which are not
  modelled.
* In the modules of keys and signatures a point is its multiple of the
  generator, and the checks of arguments (`ARG_CHECK`) other than for a key of
  zeros are preconditions.  Draws and hashes are any of the run's numbers.  A
  sum of nonces or keys at infinity, of probability 2^-256, is where
  `AggregatesVerify` claims nothing.  Signers give each message, key and index
  to the calls that the calls are documented for.
* The compression function of SHA-256 is a parameter of Sha256, hashes of
  points a parameter of Generator.
* In Scratch the objects of a frame are their sizes.  That the memory behind
  `malloc` may be missing is left out.

Not modelled:

* `genMasterPk`, `deriveWebKey`, the child keys and `ReplaceCPK` of
  `crypto-snark/src/index.js`: keys over two generators whose circuit is not in
  the repository.
* `load` and `auth` command lines, page templates, static files, routing.
* The modules of secp256k1-zkp ringcip does not call: bulletproofs, range
  proofs, surjection proofs, whitelists, Schnorr signatures of one signer (BIP),
  ECDH; contexts and their callbacks; `scalar_chacha20`; the big numbers of `num_gmp_impl.h`; the
  assembly for ARM.
* Generated bindings and circuits, tests, benchmarks, build files.

## 9. Plan

What would add most, in this order.

1. **Ringcip as a component of Registration**: the verdicts of `Prove` and
   `Verify` refined by those computed.
2. **DBPoE with a service that remembers nullifiers**: one account for each
   member and topic, with the topics and the ring changing.
3. **U2SSO**: Enrolment, Registration and Server composed, with the end-to-end
   liveness property (a user who creates, registers and authenticates gets in)
   and an abstract specification of the whole sign-on.
4. **Proofs**: the words of scalars and of elements, as loops in place of folds.
5. **Keys of crypto-snark**: master keys over two generators, web keys and
   child keys, in the exponents.
6. **Commitments and range proofs** of secp256k1-zkp, if the system comes to
   call them.
