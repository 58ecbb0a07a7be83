------------------------------ MODULE Hashing ------------------------------
(***************************************************************************)
(* A caller of hash_impl.h.  It writes a message to a hash object or to an *)
(* HMAC in pieces of any lengths, finalizes it, and writes the object over *)
(* for the next message; or it seeds a generator and draws from it, any    *)
(* number of bytes at a time.  `message` is what was written since the     *)
(* last initialization, and `drawn` the values that generators gave.       *)
(***************************************************************************)
EXTENDS Sha256, FiniteSets

CONSTANTS
  MaxMessage,  \* bound: the bytes of a message
  Pieces,      \* bound: the lengths of pieces
  Reused,      \* bound: the lengths of messages whose object is used again
  KeyLengths,  \* bound: the lengths of keys
  Seeds,       \* bound: seeds of generators
  DrawLengths, \* bound: the bytes that are drawn at a time
  MaxDraws     \* bound: the draws from each generator

\* The size of a message in bits is a number of two words.
ASSUME MessagesAssumption ==
  /\ MaxMessage \in Nat /\ Pieces \subseteq Nat /\ KeyLengths \subseteq Nat \ {0}
  /\ 8 * (Chunk + MaxMessage) < Word * Word
  /\ \A n \in KeyLengths : 8 * n < Word * Word

\* A generator hashes its seed behind a value and a byte.
ASSUME SeedsAssumption ==
  /\ Seeds \subseteq Seq(0 .. 255) /\ DrawLengths \subseteq Nat
  /\ \A seed \in Seeds : 8 * (Chunk + DigestSize + 1 + Len(seed)) < Word * Word

VARIABLES hash, message, key, digest, rng, drawn

hashVars == <<hash, message, key, digest, rng, drawn>>

NoKey == <<>>

\* The bytes of messages and keys: no two places within a chunk have the same one.
Written(from, n) == [i \in 1 .. n |-> (7 * (from + i)) % 256]

\* An object on the stack, not cleared.
Fresh == sha256_initialize(memset(255, Chunk))

\* A generator, with the seed it was given.
Seeded(generator, seed) == [k |-> generator.k, v |-> generator.v, retry |-> generator.retry, seed |-> seed]

HashInit ==
  /\ hash = Fresh /\ message = <<>> /\ key = NoKey
  /\ digest = <<>> /\ rng = Seeded(rfc6979_finalize, <<>>) /\ drawn = <<>>

Generators == UNCHANGED <<rng, drawn>>

\* A key makes it an HMAC.
IsHmac == key # NoKey

Write ==
  \E n \in Pieces :
    LET data == Written(Len(message), n)
    IN /\ digest = <<>> /\ rng.seed = <<>> /\ Len(message) + n <= MaxMessage
       /\ hash' = IF IsHmac THEN hmac_write(hash, data) ELSE sha256_write(hash, data)
       /\ message' = message \o data
       /\ UNCHANGED <<key, digest>> /\ Generators

Finalize ==
  /\ digest = <<>> /\ rng.seed = <<>>
  /\ digest' = IF IsHmac THEN hmac_finalize(hash) ELSE sha256_finalize(hash)
  /\ hash'   = IF IsHmac THEN HmacFinalized(hash) ELSE Finalized(hash)
  /\ UNCHANGED <<message, key>> /\ Generators

InitializeHmac ==
  \E n \in KeyLengths :
    /\ hash = Fresh /\ key = NoKey /\ digest = <<>> /\ rng.seed = <<>>
    /\ key' = Written(100, n)
    /\ hash' = hmac_initialize(key', hash.buf)
    /\ UNCHANGED <<message, digest>> /\ Generators

\* The last chunk of the last message is still in the object.
InitializeAgain ==
  /\ digest # <<>> /\ ~IsHmac /\ Len(message) \in Reused
  /\ hash' = sha256_initialize(hash.buf)
  /\ message' = <<>> /\ digest' = <<>>
  /\ UNCHANGED key /\ Generators

Of(seed) == SelectSeq(drawn, LAMBDA d : d.seed = seed)

Seed ==
  \E seed \in Seeds :
    /\ hash = Fresh /\ key = NoKey /\ digest = <<>>
    /\ Of(seed) = <<>> /\ rng.seed # seed
    /\ rng' = Seeded(rfc6979_initialize(seed), seed)
    /\ UNCHANGED <<hash, message, key, digest, drawn>>

Draw ==
  \E n \in DrawLengths :
    /\ rng.seed # <<>> /\ Len(Of(rng.seed)) < MaxDraws
    /\ LET made == rfc6979_generate(rng, n)
       IN /\ rng' = Seeded(made.rng, rng.seed)
          /\ drawn' = Append(drawn, [seed |-> rng.seed, out |-> made.out])
    /\ UNCHANGED <<hash, message, key, digest>>

HashNext == Write \/ Finalize \/ InitializeHmac \/ InitializeAgain \/ Seed \/ Draw

HashSpec == HashInit /\ [][HashNext]_hashVars

-----------------------------------------------------------------------------
\* The standard: a whole message, one bit, the fewest zeros that leave room for the
\* length, and the length in bits.
Padded(m) ==
  LET zeros == CHOOSE z \in 0 .. Chunk - 1 : (Len(m) + 1 + z + SizeBytes) % Chunk = 0
  IN m \o <<128>> \o memset(0, zeros) \o BE32((8 * Len(m)) \div Word) \o BE32((8 * Len(m)) % Word)

Sha256Of(m) ==
  LET padded == Padded(m)
      after[t \in 0 .. Len(padded) \div Chunk] ==
        IF t = 0 THEN InitialState
        ELSE transform(after[t - 1], SubSeq(padded, (t - 1) * Chunk + 1, t * Chunk))
  IN DigestOf(after[Len(padded) \div Chunk])

HmacOf(k, m) ==
  LET whole == IF Len(k) > Chunk THEN Sha256Of(k) ELSE k
      block == whole \o memset(0, Chunk - Len(whole))
      Under(mask) == [i \in 1 .. Chunk |-> ByteXor(block[i], mask)]
  IN Sha256Of(Under(92) \o Sha256Of(Under(54) \o m))

DigestIsStandard ==
  digest # <<>> => digest = IF IsHmac THEN HmacOf(key, message) ELSE Sha256Of(message)

\* No digest is drawn twice, be it in one call or in two, or from two generators.
DigestsOf(out) == {SubSeq(out, i * DigestSize + 1, (i + 1) * DigestSize) : i \in 0 .. Len(out) \div DigestSize - 1}

DrawsDiffer ==
  /\ \A i \in DOMAIN drawn :
       Cardinality(DigestsOf(drawn[i].out)) = Len(drawn[i].out) \div DigestSize
  /\ \A i, j \in DOMAIN drawn :
       i < j => DigestsOf(drawn[i].out) \cap DigestsOf(drawn[j].out) = {}
=============================================================================
