----------------------------- MODULE MCNumbers -----------------------------
(* Numbers and the bytes, words and limbs that stand for them: callers of  *)
(* the contract's encoding of an identity, of scalars and of elements in   *)
(* each representation, of hashes, of the powers that are inverses and     *)
(* roots, and of the memory for sums of many multiples, one of them in a   *)
(* behaviour.                                                              *)
(*                                                                         *)
(* An identity has four bytes instead of 33, in lists of up to four: the   *)
(* same key can be listed twice, before and after a revocation.  The zeros *)
(* are behind the sign, at the end, and in both places; and a key differs  *)
(* from another one in its last byte only.                                 *)
(*                                                                         *)
(* Scalars of 4 words have 2 bits a word; those of 8 words have 3, because *)
(* a column of 8 products of words must fit in 3 words.  The orders are    *)
(* such that 2^(Limbs Width) - N has one word more than half, as the real  *)
(* one.  The elements of 10 limbs are scaled to 5 of 10 bits, for the      *)
(* magnitude 8 of the sources, and the ones of 5 limbs to 11 bits, for the *)
(* magnitude 2: products of limbs for 8 would not fit in TLC's integers.   *)
(* Both characteristics are products of small factors, so that numbers can *)
(* be compared modulo each of them.                                        *)
EXTENDS IdEncoding, Hashing, Scratch, Bitwise

VARIABLES
  caller,
  scalar, number, element, residues, calls,
  chain, turn, powers,
  input, parsed

scalarVars  == <<scalar, number>>
elementVars == <<element, residues>>
chainVars   == <<chain, turn, powers>>
derVars     == <<input, parsed>>

-----------------------------------------------------------------------------
MCTails == {<<0, 0, 0>>, <<0, 255, 0>>, <<0, 0, 1>>, <<7, 0, 255>>}

MCIds == {Parts(id) : id \in CreateID}

\* 2^24 - 5259 in 8 words, and 233 in 4.
Order8x32 == [i \in 0 .. 7 |-> ((2 ^ 24 - 5259) \div 8 ^ i) % 8]
Order4x64 == [i \in 0 .. 3 |-> (233 \div 4 ^ i) % 4]

\* Numbers next to 0, to half of the order and to the order, and powers of two.
Operands8x32 == {0, 1, 4096, 5259, 8385978, 8385979, 16771956}
Operands4x64 == {0, 1, 2, 4, 22, 63, 115, 116, 127, 128, 210, 232}

Scalar8x32 == INSTANCE ScalarRegister WITH
  Limbs <- 8, Width <- 3, N <- Order8x32, Assembly <- FALSE, ByteBits <- 3,
  Operands <- Operands8x32, Steps <- 2, k <- number

Scalar4x64C == INSTANCE ScalarRegister WITH
  Limbs <- 4, Width <- 2, N <- Order4x64, Assembly <- FALSE, ByteBits <- 1,
  Operands <- Operands4x64, Steps <- 2, k <- number

Scalar4x64Asm == INSTANCE ScalarRegister WITH
  Limbs <- 4, Width <- 2, N <- Order4x64, Assembly <- TRUE, ByteBits <- 1,
  Operands <- Operands4x64, Steps <- 2, k <- number

Element10x26 == INSTANCE ElementRegister WITH
  Build <- "10x26", Limbs <- 5, Width <- 10, Slack <- 2, C0 <- 19, C1 <- 1,
  MaxMagnitude <- 8, Accumulator <- 30, WordBits <- 16, ByteBits <- 8, StoredBits <- 16,
  Factors <- <<10609, 353, 3343, 22483>>, Steps <- 2

Element5x52C == INSTANCE ElementRegister WITH
  Build <- "5x52", Limbs <- 5, Width <- 11, Slack <- 1, C0 <- 9, C1 <- 0,
  MaxMagnitude <- 2, Accumulator <- 30, WordBits <- 18, ByteBits <- 9, StoredBits <- 18,
  Factors <- <<4057, 4325, 31033, 33083>>, Steps <- 2

Element5x52Asm == INSTANCE ElementRegister WITH
  Build <- "5x52 assembly", Limbs <- 5, Width <- 11, Slack <- 1, C0 <- 9, C1 <- 0,
  MaxMagnitude <- 2, Accumulator <- 30, WordBits <- 18, ByteBits <- 9, StoredBits <- 18,
  Factors <- <<4057, 4325, 31033, 33083>>, Steps <- 2

\* A compression function of two words: it depends on every byte and on its place.
Mixed(s, byte, i) ==
  <<(s[2] + 257 * byte + 31 * i) % 65536,
    (((s[1] * 25173) % 65536) + (s[2] \div 7) + byte * byte + 99) % 65536>>

MCtransform(s, chunk) ==
  LET after[i \in 0 .. Len(chunk)] == IF i = 0 THEN s ELSE Mixed(after[i - 1], chunk[i], i)
  IN after[Len(chunk)]

MCDigestOf(s) == <<s[1] \div 256, s[1] % 256, s[2] \div 256, s[2] % 256>>

MCInitialState == <<27145, 47975>>
MCClearedState == <<0, 0>>

MCXor(a, b) == a ^^ b

MCSeeds == {<<1, 2, 3, 4>>, <<1, 2, 3, 5>>}

Chain == INSTANCE AdditionChains

\* Space for none, one or two points, and about as much as 275 points need with
\* buckets of their own width or the next one; a caller's frame of 2,200 bytes.
MCMaxSizes == {96, 1671, 3343, 6592, 56000, 88600, 90319, 90320, 150000}

\* Integers of up to three bytes and of 130, with the length they have, one less or
\* more, and in long forms; in sequences of the right length and of another one.
MCOctets ==
  {<<>>, <<0>>} \cup {<<a, b>> : a \in {0, 1, 127, 128, 255}, b \in {0, 1, 127, 128, 255}}
  \cup {<<a>> : a \in {1, 127, 128, 255}}
  \cup {<<a, b, 0>> : a \in {0, 1, 255}, b \in {0, 128, 255}} \cup {[i \in 1 .. 130 |-> 1]}

Lengths(n) == {<<129, n>>, <<130, 0, n>>, <<130, 1, n>>, <<130, n>>, <<131, 1, 1, n>>, <<128>>, <<255>>} \cup
              {<<m>> : m \in {n - 1, n, n + 1} \cap 0 .. 127}

Integer(octets) == <<2>> \o (IF Len(octets) < 128 THEN <<Len(octets)>> ELSE <<129, Len(octets)>>) \o octets

IntegersRead ==
  {<<2>> \o len \o <<1, 1>> : len \in Lengths(2)} \cup {Integer(octets) : octets \in MCOctets}
  \cup {<<>>, <<3, 1, 1>>} \cup {<<2>> \o len \o [i \in 1 .. 130 |-> 1] : len \in Lengths(130)}

MCInputs ==
  {<<>>, <<48>>, <<49, 6, 2, 1, 1, 2, 1, 1>>} \cup
  UNION {{<<48>> \o len \o r \o s : len \in Lengths(Len(r) + Len(s)) } :
           r \in IntegersRead, s \in {Integer(<<1>>), Integer(<<0, 128>>), <<2, 2, 0, 1>>}}
  \cup {<<48, Len(r) + 3>> \o <<2, 1, 1>> \o r : r \in {i \in IntegersRead : Len(i) < 100}}

Signature == INSTANCE Der WITH
  ScalarBytes <- 2, SizeBytes <- 2, N <- 65003, Inputs <- MCInputs,
  Numbers <- {0, 1, 127, 128, 255, 256, 32767, 32768, 65002}

-----------------------------------------------------------------------------
NoScalar  == scalar = [d |-> <<>>, kept |-> TRUE] /\ number = 0
NoElement == element = Element10x26!fe_clear /\ residues = <<>>
NoChain   == chain = "inv" /\ turn = 0 /\ powers = Chain!Started
NoMemory  == max_size = 0 /\ frames = <<>> /\ call = [phase |-> "idle", own |-> 0]
NoDer     == input = <<>> /\ parsed = <<>>

NumbersInit ==
  /\ EncodingInit /\ HashInit
  /\ \/ caller \in {"identity", "hash"} /\ NoScalar /\ NoElement /\ calls = 0 /\ NoChain /\ NoMemory /\ NoDer
     \/ caller = "8x32" /\ Scalar8x32!Init /\ NoElement /\ NoChain /\ NoMemory /\ NoDer
     \/ caller \in {"4x64", "4x64 assembly"} /\ Scalar4x64C!Init /\ NoElement /\ NoChain /\ NoMemory /\ NoDer
     \/ caller = "10x26" /\ Element10x26!Init /\ NoScalar /\ NoChain /\ NoMemory /\ NoDer
     \/ caller \in {"5x52", "5x52 assembly"} /\ Element5x52C!Init /\ NoScalar /\ NoChain /\ NoMemory /\ NoDer
     \/ caller = "powers" /\ Chain!Init /\ NoScalar /\ NoElement /\ calls = 0 /\ NoMemory /\ NoDer
     \/ caller = "memory" /\ MemoryInit /\ NoScalar /\ NoElement /\ calls = 0 /\ NoChain /\ NoDer
     \/ caller = "signature" /\ Signature!Init /\ NoScalar /\ NoElement /\ calls = 0 /\ NoChain /\ NoMemory

ScalarCall ==
  /\ \/ caller = "8x32" /\ Scalar8x32!Next
     \/ caller = "4x64" /\ Scalar4x64C!Next
     \/ caller = "4x64 assembly" /\ Scalar4x64Asm!Next
  /\ UNCHANGED <<encodingVars, elementVars, hashVars, chainVars, scratchVars, derVars, caller>>

ElementCall ==
  /\ \/ caller = "10x26" /\ Element10x26!Next
     \/ caller = "5x52" /\ Element5x52C!Next
     \/ caller = "5x52 assembly" /\ Element5x52Asm!Next
  /\ UNCHANGED <<encodingVars, scalarVars, hashVars, chainVars, scratchVars, derVars, caller>>

IdentityCall ==
  /\ caller = "identity" /\ EncodingNext
  /\ UNCHANGED <<scalarVars, elementVars, calls, hashVars, chainVars, scratchVars, derVars, caller>>

HashCall ==
  /\ caller = "hash" /\ HashNext
  /\ UNCHANGED <<encodingVars, scalarVars, elementVars, calls, chainVars, scratchVars, derVars, caller>>

PowersCall ==
  /\ caller = "powers" /\ Chain!Next
  /\ UNCHANGED <<encodingVars, scalarVars, elementVars, calls, hashVars, scratchVars, derVars, caller>>

MemoryCall ==
  /\ caller = "memory" /\ MemoryNext
  /\ UNCHANGED <<encodingVars, scalarVars, elementVars, calls, hashVars, chainVars, derVars, caller>>

SignatureCall ==
  /\ caller = "signature" /\ Signature!Next
  /\ UNCHANGED <<encodingVars, scalarVars, elementVars, calls, hashVars, chainVars, scratchVars, caller>>

NumbersNext ==
  \/ IdentityCall \/ ScalarCall \/ ElementCall \/ HashCall \/ PowersCall \/ MemoryCall
  \/ SignatureCall

numbersVars ==
  <<encodingVars, scalarVars, elementVars, calls, hashVars, chainVars, scratchVars, derVars, caller>>

NumbersSpec == NumbersInit /\ [][NumbersNext]_numbersVars

-----------------------------------------------------------------------------
\* NumbersAreRight: however results are handed on as operands, the words of a scalar
\* and the limbs of an element stand for the number that arithmetic gives, no carry is
\* lost, no check of a VERIFY build fails, and what the queries answer is about it.
\* The bytes of a signature stand for its two scalars, and no other bytes do.
NumbersAreRight ==
  /\ caller = "8x32" => Scalar8x32!HoldsNumber /\ Scalar8x32!Answers
  /\ caller \in {"4x64", "4x64 assembly"} => Scalar4x64C!HoldsNumber /\ Scalar4x64C!Answers
  /\ caller = "10x26" => Element10x26!HoldsNumber /\ Element10x26!Answers
  /\ caller \in {"5x52", "5x52 assembly"} => Element5x52C!HoldsNumber /\ Element5x52C!Answers
  /\ caller = "signature" => Signature!OneEncoding

\* ChainsAreRight: the chains of squarings end at the exponents of an inverse, P - 2
\* and N - 2, and of a square root, (P + 1) / 4.
ChainsAreRight == Chain!ChainsAreRight
=============================================================================
