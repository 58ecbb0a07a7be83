----------------------------- MODULE IdEncoding -----------------------------
(***************************************************************************)
(* How an identity travels through the contract (u2ssolib.go).  A master   *)
(* public key is a string of bytes; the contract keeps two integers.  The  *)
(* writer cuts off the last byte and reads both parts as big-endian        *)
(* numbers; the reader turns the numbers into bytes again, which drops     *)
(* leading zeros, and puts only a zero last byte back.  The library must   *)
(* therefore never save a point with a zero in front.                      *)
(***************************************************************************)
EXTENDS IdRegistry, FiniteSets

CONSTANTS
  Width,  \* bytes of the first part: 32 in the code
  Tails   \* the bytes after the first one: x-coordinates of points

ByteValues == 0 .. 255

ASSUME BytesAssumption ==
  Width \in Nat \ {0} /\ \A t \in Tails : t \in Seq(ByteValues) /\ Len(t) = Width

VARIABLE keys \* history: the keys given to AddIDstoIdR, in order

encodingVars == <<idList, nextIndex, keys>>

-----------------------------------------------------------------------------
\* The constant is forgotten (a fault).
SavedSignFault(quad) == quad

\* 9 ^ is_quad: the first byte of a point tells which of the two roots y is.
SavedSign(quad) == IF quad = 1 THEN 8 ELSE 9

\* secp256k1_ge_save_boquila, behind CreateID.
CreateID == {<<SavedSign(quad)>> \o t : quad \in {0, 1}, t \in Tails}

\* new(big.Int).SetBytes(s)
SetBytes(s) ==
  LET value[k \in 0 .. Len(s)] == IF k = 0 THEN 0 ELSE 256 * value[k - 1] + s[k]
  IN value[Len(s)]

\* v.Bytes(): as few bytes as the number needs, none for zero.
Bytes(v) ==
  LET rest[k \in 0 .. Width] == IF k = 0 THEN v ELSE rest[k - 1] \div 256
      size == CHOOSE k \in 0 .. Width : rest[k] = 0 /\ \A l \in 0 .. k - 1 : rest[l] # 0
  IN [k \in 1 .. size |-> rest[size - k] % 256]

\* Both parts are cut one byte too early (a fault): the last one is lost.
PartsFault(id) == <<SetBytes(SubSeq(id, 1, Width - 1)), SetBytes(SubSeq(id, Width, Width))>>

\* byte32 and byte33
Parts(id) == <<SetBytes(SubSeq(id, 1, Width)), SetBytes(SubSeq(id, Width + 1, Len(id)))>>

\* AddIDstoIdR
AddIDstoIdR(id) == addID(Parts(id)) /\ keys' = Append(keys, id)

GetIDIndexfromContract(id) == getIDIndex(Parts(id))

\* The bytes of one entry as the reader builds them.
Joined(parts) ==
  Bytes(parts[1]) \o <<IF parts[2] = 0 THEN 0 ELSE Bytes(parts[2])[1]>>

\* The list without revoked entries.
GetallActiveIDfromContract ==
  LET list[k \in 0 .. nextIndex] ==
        IF k = 0 THEN <<>>
        ELSE IF getState(k - 1) THEN Append(list[k - 1], Joined(getIDs(k - 1))) ELSE list[k - 1]
  IN list[nextIndex]

-----------------------------------------------------------------------------
EncodingInit == Init /\ keys = <<>>

AddKey == nextIndex < MaxIds /\ \E id \in CreateID : AddIDstoIdR(id)

RevokeKey == Revoke /\ UNCHANGED keys

EncodingNext == AddKey \/ RevokeKey

EncodingSpec == EncodingInit /\ [][EncodingNext]_encodingVars

-----------------------------------------------------------------------------
(* Whoever reads the list gets the very keys that users added, byte by     *)
(* byte, less the revoked ones, whatever zeros they hold: provers and      *)
(* verifiers copy 33 bytes of each (u2ssolib.go:163-170), and one lost     *)
(* zero would shift them, or end the copy with an index out of range.      *)
ReadersGetTheKeys ==
  LET read == GetallActiveIDfromContract
      ActiveUpTo(k) == {l \in 1 .. k : idList[l].active}
  IN /\ Len(read) = Cardinality(ActiveUpTo(Len(keys)))
     /\ \A k \in ActiveUpTo(Len(keys)) : read[Cardinality(ActiveUpTo(k))] = keys[k]

(* A user who looks his key up finds the entry where that key was added    *)
(* first, and nothing if it was not: two keys are never the same numbers.  *)
LookupFindsTheKey ==
  \A id \in CreateID :
    LET places == {k \in 1 .. Len(keys) : keys[k] = id} IN
    IF places = {} THEN GetIDIndexfromContract(id) = -1
    ELSE /\ GetIDIndexfromContract(id) + 1 \in places
         /\ \A k \in places : GetIDIndexfromContract(id) < k
=============================================================================
