-------------------------------- MODULE Der --------------------------------
(***************************************************************************)
(* The bytes of an ECDSA signature in DER (ecdsa_impl.h): two integers in  *)
(* a sequence.  Lengths from 128 on have a length themselves, an integer   *)
(* starts with a zero if it would be negative otherwise, and with no more  *)
(* than that.  Integers that are no scalars are read as zero.              *)
(* A byte is read only where there is one: a sequence has no other places. *)
(***************************************************************************)
EXTENDS Integers, Sequences

CONSTANTS
  ScalarBytes,  \* 32 in the code
  SizeBytes,    \* the bytes of a size_t
  N,            \* the order of the group, less than 256 ^ ScalarBytes
  Inputs,       \* bound: the bytes that are read
  Numbers       \* bound: the scalars that are written

VARIABLES input, parsed

derVars == <<input, parsed>>

\* The number that a few bytes are, the highest first.
NumberOf(bytes) ==
  LET number[i \in 0 .. Len(bytes)] == IF i = 0 THEN 0 ELSE 256 * number[i - 1] + bytes[i]
  IN number[Len(bytes)]

Failed == [ok |-> FALSE, len |-> 0, at |-> 0]

-----------------------------------------------------------------------------
\* A length and the place behind it.  The length of a length is looked at before
\* the bytes it counts, and the loop over these ends as soon as they are too large.
der_read_len(sig, at) ==
  LET b1   == sig[at]
      left == b1 - 128
      len  == NumberOf(SubSeq(sig, at + 1, at + left))
  IN IF at > Len(sig) THEN Failed
     ELSE IF b1 < 128 THEN [ok |-> TRUE, len |-> b1, at |-> at + 1]
     ELSE IF \/ b1 \in {128, 255} \/ left > Len(sig) - at
             \/ sig[at + 1] = 0 \/ left > SizeBytes
             \/ len + left > Len(sig) - at \/ len < 128 THEN Failed
     ELSE [ok |-> TRUE, len |-> len, at |-> at + 1 + left]

\* Fault: a zero that is not needed is skipped like the one that is.
ExcessiveFault(sig, at, len) == len > 1 /\ sig[at] = 255 /\ sig[at + 1] >= 128

Excessive(sig, at, len) ==
  len > 1 /\ (\/ sig[at] = 0 /\ sig[at + 1] < 128
              \/ sig[at] = 255 /\ sig[at + 1] >= 128)

\* An integer and the place behind it.
der_parse_integer(sig, at) ==
  LET read   == der_read_len(sig, at + 1)
      after  == read.at + read.len
      zeros  == {i \in read.at .. after - 1 : \A j \in read.at .. i : sig[j] = 0}
      start  == IF zeros = {} THEN read.at ELSE 1 + CHOOSE i \in zeros : \A j \in zeros : j <= i
      number == NumberOf(SubSeq(sig, start, after - 1))
      over   == sig[read.at] >= 128 \/ after - start > ScalarBytes \/ number >= N
  IN IF \/ at > Len(sig) \/ sig[at] # 2
        \/ ~read.ok \/ read.len = 0 \/ after > Len(sig) + 1
        \/ Excessive(sig, read.at, read.len) THEN [ok |-> FALSE, number |-> 0, at |-> at]
     ELSE [ok |-> TRUE, number |-> IF over THEN 0 ELSE number, at |-> after]

\* The two numbers, <<>> when the bytes are not a signature.
ecdsa_sig_parse(sig) ==
  LET read == der_read_len(sig, 2)
      r    == der_parse_integer(sig, read.at)
      s    == der_parse_integer(sig, r.at)
  IN IF \/ sig = <<>> \/ sig[1] # 48
        \/ ~read.ok \/ read.at + read.len # Len(sig) + 1
        \/ ~r.ok \/ ~s.ok \/ s.at # Len(sig) + 1 THEN <<>>
     ELSE <<r.number, s.number>>

\* The bytes of an integer: a zero before them is left out where it can be.
Octets(number) ==
  LET all == [i \in 0 .. ScalarBytes |-> (number \div 256 ^ (ScalarBytes - i)) % 256]
      CanDrop(i) == i < ScalarBytes /\ (\A j \in 0 .. i : all[j] = 0) /\ all[i + 1] < 128
      dropped == {i \in 0 .. ScalarBytes : CanDrop(i)}
      first == IF dropped = {} THEN 0 ELSE 1 + CHOOSE i \in dropped : \A j \in dropped : j <= i
  IN [i \in 1 .. ScalarBytes + 1 - first |-> all[first + i - 1]]

\* When there is no room the answer is the size that is needed.
ecdsa_sig_serialize(size, r, s) ==
  LET octetsR == Octets(r)
      octetsS == Octets(s)
      needed  == 6 + Len(octetsR) + Len(octetsS)
  IN [ret |-> size >= needed, size |-> needed,
      sig |-> IF size < needed THEN <<>>
              ELSE <<48, needed - 2, 2, Len(octetsR)>> \o octetsR \o <<2, Len(octetsS)>> \o octetsS]

-----------------------------------------------------------------------------
Init == input \in Inputs /\ parsed = <<>>

Read == parsed = <<>> /\ parsed' = ecdsa_sig_parse(input) /\ UNCHANGED input

\* With nothing to read; a caller that has too little room asks again with the size it was told.
Write ==
  \E r \in Numbers, s \in Numbers, room \in 0 .. 6 + 2 * (ScalarBytes + 1) :
    LET asked == ecdsa_sig_serialize(room, r, s)
        told  == IF asked.ret THEN asked ELSE ecdsa_sig_serialize(asked.size, r, s)
    IN /\ input = <<>> /\ parsed = <<>>
       /\ input' = told.sig /\ parsed' = <<r, s>>

Next == Read \/ Write

-----------------------------------------------------------------------------
\* OneEncoding: the bytes that are written for two scalars are read as these scalars, and
\* of the bytes that are read as two scalars but zero only those that would be written.
OneEncoding ==
  parsed # <<>> =>
    /\ ecdsa_sig_parse(input) = parsed
    /\ (parsed[1] # 0 /\ parsed[2] # 0) =>
         input = ecdsa_sig_serialize(6 + 2 * (ScalarBytes + 1), parsed[1], parsed[2]).sig
=============================================================================
