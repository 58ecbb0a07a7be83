------------------------------- MODULE Sha256 -------------------------------
(***************************************************************************)
(* What hash_impl.h makes of its compression function: hashes of messages  *)
(* that arrive in pieces, HMAC, and the generator of RFC 6979.  A hash     *)
(* object is a record [s, buf, bytes]; buf has the place of one chunk and  *)
(* keeps what was in it.  Sizes are parameters, bytes are numbers.         *)
(***************************************************************************)
EXTENDS Integers, Sequences

CONSTANTS
  Chunk,       \* bytes of a chunk: 64 in the sources
  DigestSize,  \* bytes of a digest: 32
  WordBytes,   \* bytes of a word: 4
  InitialState,
  ClearedState,     \* the state of zeros that an object has after its digest
  transform(_, _),  \* the state after a chunk
  DigestOf(_),      \* the bytes of a state, most significant first
  ByteXor(_, _)     \* of two bytes

\* The values of a word: a size in bytes has two words for its bits.
Word == 256 ^ WordBytes

SizeBytes == 2 * WordBytes

ASSUME ChunksAssumption ==
  /\ Chunk \in Nat /\ SizeBytes < Chunk /\ DigestSize \in 1 .. Chunk
  /\ 8 * (Chunk + DigestSize + 1) < Word * Word

\* The powers of 256 are numbers, and a word has whole bytes.
ASSUME WordAssumption ==
  /\ WordBytes \in Nat \ {0} /\ \A i \in 0 .. WordBytes : 256 ^ i \in Nat \ {0}
  /\ Word % 8 = 0

ASSUME XorAssumption ==
  \A byte \in 0 .. 255 :
    /\ ByteXor(byte, 92) \in 0 .. 255 /\ ByteXor(byte, 54) \in 0 .. 255
    /\ ByteXor(ByteXor(byte, 92), ByteXor(92, 54)) = ByteXor(byte, 54)

\* The object is written over: buf is not cleared.
sha256_initialize(buf) == [s |-> InitialState, buf |-> buf, bytes |-> 0]

\* memcpy into buf from `offset` on.
Filled(buf, offset, data) ==
  [i \in 1 .. Chunk |-> IF i - offset \in DOMAIN data THEN data[i - offset] ELSE buf[i]]

Turns(bufsize, data) == (bufsize + Len(data)) \div Chunk

\* The bytes of `data` that one turn of the loop takes, or that remain after the last.
Piece(bufsize, data, t) ==
  LET first(turn) == IF turn = 0 THEN 0 ELSE turn * Chunk - bufsize
  IN SubSeq(data, first(t) + 1, IF t = Turns(bufsize, data) THEN Len(data) ELSE first(t + 1))

\* Each turn fills buf and compresses it; what remains is kept there.
Absorbed(s, buf, bufsize, data) ==
  LET upTo[t \in 0 .. Turns(bufsize, data)] ==
        IF t = 0 THEN [s |-> s, buf |-> Filled(buf, bufsize, Piece(bufsize, data, 0))]
        ELSE [s   |-> transform(upTo[t - 1].s, upTo[t - 1].buf),
              buf |-> Filled(upTo[t - 1].buf, 0, Piece(bufsize, data, t))]
  IN upTo[Turns(bufsize, data)]

sha256_write(object, data) ==
  LET after == Absorbed(object.s, object.buf, object.bytes % Chunk, data)
  IN [s |-> after.s, buf |-> after.buf, bytes |-> object.bytes + Len(data)]

memset(byte, n) == [i \in 1 .. n |-> byte]

\* 0x80, then zeros; a constant array of one chunk.
Pad == <<128>> \o memset(0, Chunk - 1)

\* The byte of the padding that is always there is not counted (a fault).
PadLengthFault(bytes) == 1 + ((2 * Chunk - SizeBytes - (bytes % Chunk)) % Chunk)

PadLength(bytes) == 1 + ((2 * Chunk - SizeBytes - 1 - (bytes % Chunk)) % Chunk)

\* The bytes of a word, most significant first.
BE32(word) == [i \in 1 .. WordBytes |-> (word \div 256 ^ (WordBytes - i)) % 256]

\* The size in bits: what does not fit in the lower word is in the upper one.
sizedesc(bytes) == BE32((bytes \div (Word \div 8)) % Word) \o BE32((bytes * 8) % Word)

\* The padding and the size are written as any data.
Closed(object) ==
  sha256_write(sha256_write(object, SubSeq(Pad, 1, PadLength(object.bytes))),
               sizedesc(object.bytes))

sha256_finalize(object) == DigestOf(Closed(object).s)

\* What the object is then.
Finalized(object) == [Closed(object) EXCEPT !.s = ClearedState]

-----------------------------------------------------------------------------
Masked(key, mask) == [i \in DOMAIN key |-> ByteXor(key[i], mask)]

\* A short key is filled up with zeros, a long one is replaced by its digest.
HmacKey(key) ==
  IF Len(key) <= Chunk THEN key \o memset(0, Chunk - Len(key))
  ELSE sha256_finalize(sha256_write(sha256_initialize(memset(0, Chunk)), key))
         \o memset(0, Chunk - DigestSize)

\* The second mask takes the first one off again.
HmacFrom(rkey, buf) ==
  [outer |-> sha256_write(sha256_initialize(buf), Masked(rkey, 92)),
   inner |-> sha256_write(sha256_initialize(buf), Masked(Masked(rkey, 92), ByteXor(92, 54)))]

hmac_initialize(key, buf) == HmacFrom(HmacKey(key), buf)

hmac_write(hmac, data) == [hmac EXCEPT !.inner = sha256_write(@, data)]

\* The digest of the inner object is written to the outer one.
Wrapped(hmac) == sha256_write(hmac.outer, sha256_finalize(hmac.inner))

hmac_finalize(hmac) == sha256_finalize(Wrapped(hmac))

HmacFinalized(hmac) == [outer |-> Finalized(Wrapped(hmac)), inner |-> Finalized(hmac.inner)]

-----------------------------------------------------------------------------
\* One HMAC over the pieces of a message, on the stack.
Mac(key, pieces) ==
  LET written[i \in 0 .. Len(pieces)] ==
        IF i = 0 THEN hmac_initialize(key, memset(0, Chunk))
        ELSE hmac_write(written[i - 1], pieces[i])
  IN hmac_finalize(written[Len(pieces)])

WithValue(k, v) == [k |-> k, v |-> Mac(k, <<v>>)]

\* The next key is made of the last value, a separator and the seed.
Reseeded(rng, separator, seed) ==
  WithValue(Mac(rng.k, <<rng.v, <<separator>>, seed>>), rng.v)

Retried(kv, retry) == [k |-> kv.k, v |-> kv.v, retry |-> retry]

rfc6979_initialize(seed) ==
  Retried(Reseeded(Reseeded([k |-> memset(0, DigestSize), v |-> memset(1, DigestSize)], 0, seed),
                   1, seed),
          FALSE)

\* After the first call, a new key is made before anything else.
BeforeGenerate(rng) ==
  IF rng.retry THEN WithValue(Mac(rng.k, <<rng.v, <<0>>>>), rng.v) ELSE [k |-> rng.k, v |-> rng.v]

\* Each digest of a call is made of the value before the call (a fault).
DrawnFault(kv, outlen) ==
  LET rounds == (outlen + DigestSize - 1) \div DigestSize
      v      == Mac(kv.k, <<kv.v>>)
      upTo[i \in 0 .. rounds] == IF i = 0 THEN <<>> ELSE upTo[i - 1] \o v
  IN [rng |-> [k |-> kv.k, v |-> v, retry |-> TRUE], out |-> SubSeq(upTo[rounds], 1, outlen)]

\* Whole digests, the last of them cut off.
Drawn(kv, outlen) ==
  LET rounds == (outlen + DigestSize - 1) \div DigestSize
      upTo[i \in 0 .. rounds] ==
        IF i = 0 THEN [v |-> kv.v, out |-> <<>>]
        ELSE LET v == Mac(kv.k, <<upTo[i - 1].v>>) IN [v |-> v, out |-> upTo[i - 1].out \o v]
  IN [rng |-> [k |-> kv.k, v |-> upTo[rounds].v, retry |-> TRUE],
      out |-> SubSeq(upTo[rounds].out, 1, outlen)]

rfc6979_generate(rng, outlen) == Drawn(BeforeGenerate(rng), outlen)

rfc6979_finalize == [k |-> memset(0, DigestSize), v |-> memset(0, DigestSize), retry |-> FALSE]
=============================================================================
