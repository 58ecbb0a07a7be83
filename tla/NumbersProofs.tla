--------------------------- MODULE NumbersProofs ---------------------------
(***************************************************************************)
(* Proofs about the contract, for every set of identities and every bound  *)
(* on the list; about the bytes that are written there and read again, for *)
(* every width of an identity and every set of points; about the memory    *)
(* for sums of many multiples, for every size of a scratch space; and      *)
(* about hashes of messages that arrive in pieces, for every compression   *)
(* of a chunk.                                                             *)
(***************************************************************************)
EXTENDS IdEncoding, Hashing, Scratch, NumberLemmas, FiniteSetTheorems, SequenceTheorems

-----------------------------------------------------------------------------
(* The value getIDIndex returns is the first match, if there is one.       *)
LEMMA FirstMatch ==
  ASSUME NEW d, Matches(d) \subseteq Nat, Matches(d) # {}
  PROVE  /\ getIDIndex(d) \in Matches(d)
         /\ \A l \in Matches(d) : getIDIndex(d) <= l
BY LeastNatural DEF getIDIndex

-----------------------------------------------------------------------------
LEMMA AddType ==
  ASSUME TypeOK, NEW d \in Ids, addID(d)
  PROVE  TypeOK'
<1>1. [id |-> d, active |-> TRUE, owner |-> Deployer] \in ID
  BY DEF ID
<1> QED
  BY <1>1 DEF TypeOK, addID

LEMMA RevokeType ==
  ASSUME TypeOK, NEW k \in Nat, revokeID(k)
  PROVE  TypeOK'
<1>1. k + 1 \in 1 .. Len(idList)
  BY DEF TypeOK, revokeID
<1>2. [idList[k + 1] EXCEPT !.active = FALSE] \in ID
  <2>1. idList[k + 1] \in ID
    BY <1>1 DEF TypeOK
  <2> QED
    BY <2>1 DEF ID
<1>3. idList' = [idList EXCEPT ![k + 1] = [idList[k + 1] EXCEPT !.active = FALSE]]
  BY <1>1 DEF TypeOK, revokeID
<1> QED
  BY <1>1, <1>2, <1>3 DEF TypeOK, revokeID

(* The array holds IDs and nextIndex is its length, in every state.        *)
THEOREM TypeCorrect == Spec => []TypeOK
<1>1. Init => TypeOK
  BY DEF Init, TypeOK
<1>2. TypeOK /\ [Next]_registryVars => TypeOK'
  <2> SUFFICES ASSUME TypeOK, [Next]_registryVars PROVE TypeOK'
    OBVIOUS
  <2>1. CASE Add
    BY <2>1, AddType DEF Add
  <2>2. CASE Revoke
    <3>1. PICK k \in 0 .. MaxIds - 1 : revokeID(k)
      BY <2>2 DEF Revoke
    <3> QED
      BY <3>1, RevokeType, MaxIdsAssumption
  <2>3. CASE UNCHANGED registryVars
    BY <2>3 DEF TypeOK, registryVars
  <2> QED
    BY <2>1, <2>2, <2>3 DEF Next
<1> QED
  BY <1>1, <1>2, PTL DEF Spec

-----------------------------------------------------------------------------
(* What a transaction does to the entries that are there.                  *)
LEMMA AddKeeps ==
  ASSUME TypeOK, NEW d \in Ids, addID(d)
  PROVE  /\ nextIndex' = nextIndex + 1
         /\ idList'[nextIndex + 1] = [id |-> d, active |-> TRUE, owner |-> Deployer]
         /\ \A k \in 0 .. nextIndex - 1 : idList'[k + 1] = idList[k + 1]
<1> DEFINE e == [id |-> d, active |-> TRUE, owner |-> Deployer]
<1>1. e \in ID
  BY DEF ID
<1>2. idList' = Append(idList, e) /\ nextIndex' = nextIndex + 1
  BY DEF addID
<1> HIDE DEF e
<1>3. /\ idList'[nextIndex + 1] = e
      /\ \A k \in 0 .. nextIndex - 1 : idList'[k + 1] = idList[k + 1]
  BY <1>1, <1>2 DEF TypeOK
<1> QED
  BY <1>2, <1>3 DEF e

LEMMA RevokeKeeps ==
  ASSUME TypeOK, NEW l \in Nat, revokeID(l)
  PROVE  /\ nextIndex' = nextIndex
         /\ \A k \in 0 .. nextIndex - 1 :
              /\ idList'[k + 1].id = idList[k + 1].id
              /\ k # l => idList'[k + 1] = idList[k + 1]
              /\ k = l => idList'[k + 1].active = FALSE
<1>1. l + 1 \in 1 .. Len(idList)
  BY DEF TypeOK, revokeID
<1>2. \A k \in 1 .. Len(idList) : idList[k] \in ID
  BY DEF TypeOK
<1>3. idList' = [idList EXCEPT ![l + 1] = [idList[l + 1] EXCEPT !.active = FALSE]]
  BY <1>1 DEF TypeOK, revokeID
<1>4. DOMAIN idList = 1 .. Len(idList)
  BY DEF TypeOK
<1>5. nextIndex' = nextIndex /\ nextIndex = Len(idList)
  BY DEF TypeOK, revokeID
<1> QED
  BY <1>1, <1>2, <1>3, <1>4, <1>5 DEF ID

LEMMA EntriesKept ==
  ASSUME TypeOK, [Next]_registryVars
  PROVE  /\ nextIndex \in Nat /\ nextIndex' \in Nat /\ nextIndex <= nextIndex'
         /\ \A k \in 0 .. nextIndex - 1 :
              getIDs(k)' = getIDs(k) /\ (getState(k)' => getState(k))
<1>1. CASE Add
  <2>1. PICK d \in Ids : addID(d)
    BY <1>1 DEF Add
  <2> QED
    <3>1. nextIndex \in Nat
      BY DEF TypeOK
    <3>2. /\ nextIndex' = nextIndex + 1
          /\ \A k \in 0 .. nextIndex - 1 : idList'[k + 1] = idList[k + 1]
      BY <2>1, AddKeeps
    <3> QED
      BY <3>1, <3>2 DEF getIDs, getState
<1>2. CASE Revoke
  <2>1. PICK l \in 0 .. MaxIds - 1 : revokeID(l)
    BY <1>2 DEF Revoke
  <2> QED
    <3>1. l \in Nat /\ nextIndex \in Nat
      BY MaxIdsAssumption DEF TypeOK
    <3>2. /\ nextIndex' = nextIndex
          /\ \A k \in 0 .. nextIndex - 1 :
               /\ idList'[k + 1].id = idList[k + 1].id
               /\ k # l => idList'[k + 1] = idList[k + 1]
               /\ k = l => idList'[k + 1].active = FALSE
      BY <2>1, <3>1, RevokeKeeps
    <3> QED
      BY <3>1, <3>2 DEF getIDs, getState
<1>3. CASE UNCHANGED registryVars
  BY <1>3 DEF TypeOK, registryVars, getIDs, getState
<1> QED
  BY <1>1, <1>2, <1>3 DEF Next

(* No transaction changes the identity of an entry, removes one or makes a *)
(* revoked one active again.                                               *)
THEOREM RevocationIsFinal == Spec => RevocationFinal
<1>1. TypeOK /\ [Next]_registryVars =>
        [\A k \in 0 .. nextIndex - 1 :
           /\ k < nextIndex'
           /\ getIDs(k)' = getIDs(k)
           /\ getState(k)' => getState(k)]_registryVars
  BY EntriesKept
<1> QED
  BY <1>1, TypeCorrect, PTL DEF Spec, RevocationFinal

(* Once getIDIndex finds an identity, it finds it at the same index for    *)
(* ever: the matches that are added later all come after the first one.    *)
THEOREM IndexIsStable == Spec => IndexStable
<1>1. ASSUME TypeOK, [Next]_registryVars, NEW d \in Ids, getIDIndex(d) # -1
      PROVE  getIDIndex(d)' = getIDIndex(d)
  <2> DEFINE k == getIDIndex(d)
  <2>1. nextIndex \in Nat /\ nextIndex' \in Nat /\ nextIndex <= nextIndex'
    BY <1>1, EntriesKept
  <2>2. k \in Matches(d) /\ \A l \in Matches(d) : k <= l
    BY <1>1, <2>1, FirstMatch DEF getIDIndex
  <2>3. Matches(d) \subseteq Matches(d)'
    BY <1>1, <2>1, EntriesKept DEF Matches
  <2>4. ASSUME NEW l \in Matches(d)'
        PROVE  k <= l
    <3>1. CASE l < nextIndex
      BY <1>1, <2>1, <2>2, <2>4, <3>1, EntriesKept DEF Matches
    <3>2. CASE l >= nextIndex
      BY <2>1, <2>2, <2>4, <3>2 DEF Matches
    <3> QED
      BY <2>1, <2>4, <3>1, <3>2 DEF Matches
  <2>5. getIDIndex(d)' \in Matches(d)' /\ \A l \in Matches(d)' : getIDIndex(d)' <= l
    <3>1. Matches(d)' # {} /\ Matches(d)' \subseteq Nat
      BY <2>1, <2>2, <2>3 DEF Matches
    <3> QED
      BY <3>1, LeastNatural DEF getIDIndex
  <2>6. k <= getIDIndex(d)' /\ getIDIndex(d)' <= k
    BY <2>2, <2>3, <2>4, <2>5
  <2>7. k \in Int /\ getIDIndex(d)' \in Int
    BY <2>2, <2>5 DEF Matches
  <2> QED
    BY <2>6, <2>7
<1>2. TypeOK /\ [Next]_registryVars =>
        [\A d \in Ids : getIDIndex(d) # -1 => getIDIndex(d)' = getIDIndex(d)]_registryVars
  BY <1>1
<1> QED
  BY <1>2, TypeCorrect, PTL DEF Spec, IndexStable

-----------------------------------------------------------------------------
(* The way of an identity into two numbers and back.                       *)

\* What SetBytes chooses.
Reads(s, value) ==
  value = [k \in 0 .. Len(s) |-> IF k = 0 THEN 0 ELSE 256 * value[k - 1] + s[k]]

(* The loop over the bytes has its values, and the number is the last.     *)
LEMMA SetBytesRuns ==
  ASSUME NEW s \in Seq(ByteValues)
  PROVE  \E value \in [0 .. Len(s) -> Nat] :
           /\ value[0] = 0
           /\ \A k \in 1 .. Len(s) : value[k] = 256 * value[k - 1] + s[k]
           /\ SetBytes(s) = value[Len(s)]
<1> DEFINE last  == Len(s)
           round == [k \in 0 .. last - 1 |-> [v \in Nat |-> 256 * v + s[k + 1]]]
<1>1. last \in Nat /\ \A k \in 1 .. last : s[k] \in Nat
  <2>1. last \in Nat /\ \A k \in 1 .. last : s[k] \in ByteValues
    OBVIOUS
  <2>2. ByteValues \subseteq Nat
    BY DEF ByteValues
  <2> HIDE DEF last
  <2> QED
    BY <2>1, <2>2
<1>2. round \in [0 .. last - 1 -> [Nat -> Nat]]
  <2>1. \A k \in 0 .. last - 1 : s[k + 1] \in Nat
    BY <1>1
  <2> HIDE DEF last
  <2> QED
    BY <2>1
<1> HIDE DEF round
<1>3. PICK p \in [0 .. last -> Nat] : Runs(p, 0, round, 0, last)
  <2>1. 0 \in Nat /\ 0 \in Int /\ last \in Int /\ 0 <= last
    BY <1>1
  <2> HIDE DEF last
  <2> QED
    BY <1>2, <2>1, LoopRuns, Zenon
<1>4. ASSUME NEW k \in 0 .. last
      PROVE  p[k] = IF k = 0 THEN 0 ELSE 256 * p[k - 1] + s[k]
  <2>1. p[k] = IF k = 0 THEN 0 ELSE round[k - 1][p[k - 1]]
    BY <1>3 DEF Runs
  <2>2. ASSUME k # 0 PROVE round[k - 1][p[k - 1]] = 256 * p[k - 1] + s[k]
    <3> HIDE DEF last
    <3>1. k - 1 \in 0 .. last - 1 /\ k - 1 \in 0 .. last /\ (k - 1) + 1 = k
      BY <1>1, <2>2
    <3>2. p[k - 1] \in Nat
      BY <3>1
    <3> QED
      BY <3>1, <3>2 DEF round
  <2> QED
    BY <2>1, <2>2
<1>5. Reads(s, p)
  BY <1>3, <1>4 DEF Reads, Runs
<1>6. PICK value : Reads(s, value) /\ SetBytes(s) = value[last]
  <2>1. Reads(s, CHOOSE v : Reads(s, v))
    BY <1>5, Zenon
  <2>2. SetBytes(s) = (CHOOSE v : Reads(s, v))[Len(s)]
    BY DEF SetBytes, Reads
  <2> QED
    BY <2>1, <2>2
<1>7. /\ value = [k \in 0 .. last |-> value[k]]
      /\ value[0] = 0
      /\ \A k \in 1 .. last : value[k] = 256 * value[k - 1] + s[k]
  <2>1. \A k \in 0 .. last : value[k] = IF k = 0 THEN 0 ELSE 256 * value[k - 1] + s[k]
    BY <1>6, Zenon DEF Reads
  <2>2. value = [k \in 0 .. last |-> value[k]]
    BY <1>6, Zenon DEF Reads
  <2> HIDE DEF last
  <2>3. 0 \in 0 .. last /\ \A k \in 1 .. last : k \in 0 .. last /\ k # 0
    BY <1>1
  <2> QED
    BY <2>1, <2>2, <2>3, Zenon
<1> DEFINE Good == {k \in 0 .. last : value[k] \in Nat}
<1>8. 0 .. last \subseteq Good
  <2>1. 0 \in Good
    BY <1>1, <1>7
  <2>2. ASSUME NEW k \in 0 .. last - 1, k \in Good PROVE k + 1 \in Good
    <3> DEFINE n == k + 1
    <3>1. n \in 1 .. last /\ n - 1 = k
      BY <1>1
    <3> HIDE DEF n
    <3>2. value[n] = 256 * value[k] + s[n]
      BY <1>7, <3>1
    <3>3. s[n] \in Nat /\ value[k] \in Nat /\ n \in 0 .. last
      BY <1>1, <2>2, <3>1
    <3>4. value[n] \in Nat
      BY <3>2, <3>3
    <3> QED
      BY <3>3, <3>4 DEF n
  <2>3. 0 \in Int /\ last \in Int
    BY <1>1
  <2> HIDE DEF Good, last
  <2> QED
    BY <2>1, <2>2, <2>3, RangeInduction
<1>9. value \in [0 .. last -> Nat]
  BY <1>7, <1>8
<1> QED
  BY <1>6, <1>7, <1>9

\* What Bytes chooses.
Drops(v, rest) == rest = [k \in 0 .. Width |-> IF k = 0 THEN v ELSE rest[k - 1] \div 256]

(* The loop that divides has its values.                                   *)
LEMMA RestRuns ==
  ASSUME NEW v \in Nat
  PROVE  \E rest \in [0 .. Width -> Nat] :
           /\ rest[0] = v
           /\ \A k \in 1 .. Width : rest[k] = rest[k - 1] \div 256
           /\ rest = CHOOSE r : Drops(v, r)
<1> DEFINE round == [k \in 0 .. Width - 1 |-> [x \in Nat |-> x \div 256]]
<1>1. Width \in Nat
  BY BytesAssumption
<1>2. round \in [0 .. Width - 1 -> [Nat -> Nat]]
  BY Division
<1> HIDE DEF round
<1>3. PICK p \in [0 .. Width -> Nat] : Runs(p, v, round, 0, Width)
  <2>1. 0 \in Int /\ Width \in Int /\ 0 <= Width
    BY <1>1
  <2> QED
    BY <1>2, <2>1, LoopRuns, Zenon
<1>4. ASSUME NEW k \in 0 .. Width
      PROVE  p[k] = IF k = 0 THEN v ELSE p[k - 1] \div 256
  <2>1. p[k] = IF k = 0 THEN v ELSE round[k - 1][p[k - 1]]
    BY <1>3 DEF Runs
  <2>2. ASSUME k # 0 PROVE round[k - 1][p[k - 1]] = p[k - 1] \div 256
    <3>1. k - 1 \in 0 .. Width - 1 /\ p[k - 1] \in Nat
      BY <1>1, <2>2
    <3> QED
      BY <3>1 DEF round
  <2> QED
    BY <2>1, <2>2
<1>5. Drops(v, p)
  BY <1>3, <1>4 DEF Drops, Runs
<1>6. PICK rest : rest = (CHOOSE r : Drops(v, r)) /\ Drops(v, rest)
  BY <1>5, Zenon
<1>7. /\ rest = [k \in 0 .. Width |-> rest[k]]
      /\ rest[0] = v
      /\ \A k \in 1 .. Width : rest[k] = rest[k - 1] \div 256
  <2>1. \A k \in 0 .. Width : rest[k] = IF k = 0 THEN v ELSE rest[k - 1] \div 256
    BY <1>6, Zenon DEF Drops
  <2>2. rest = [k \in 0 .. Width |-> rest[k]]
    BY <1>6, Zenon DEF Drops
  <2>3. 0 \in 0 .. Width /\ \A k \in 1 .. Width : k \in 0 .. Width /\ k # 0
    BY <1>1
  <2> QED
    BY <2>1, <2>2, <2>3, Zenon
<1> DEFINE Good == {k \in 0 .. Width : rest[k] = p[k]}
<1>8. 0 .. Width \subseteq Good
  <2>1. 0 \in Good
    <3>1. 0 \in 0 .. Width
      BY <1>1
    <3> QED
      BY <1>4, <1>7, <3>1
  <2>2. ASSUME NEW k \in 0 .. Width - 1, k \in Good PROVE k + 1 \in Good
    <3> DEFINE n == k + 1
    <3>1. n \in 1 .. Width /\ n - 1 = k /\ n \in 0 .. Width /\ n # 0
      BY <1>1
    <3> HIDE DEF n
    <3>2. rest[n] = rest[k] \div 256
      BY <1>7, <3>1, Zenon
    <3>3. p[n] = p[k] \div 256
      BY <1>4, <3>1, Zenon
    <3> QED
      BY <2>2, <3>1, <3>2, <3>3 DEF n
  <2>3. 0 \in Int /\ Width \in Int
    BY <1>1
  <2> HIDE DEF Good
  <2> QED
    BY <2>1, <2>2, <2>3, RangeInduction
<1>9. rest \in [0 .. Width -> Nat]
  BY <1>7, <1>8
<1> QED
  BY <1>6, <1>7, <1>9

\* How many bytes are shown, and which.
ShownSize(rest) == CHOOSE k \in 0 .. Width : rest[k] = 0 /\ \A l \in 0 .. k - 1 : rest[l] # 0

Shown(rest, size) == [k \in 1 .. size |-> rest[size - k] % 256]

(* Bytes are numbers.                                                      *)
LEMMA BytesAreNat == \A b \in ByteValues : b \in Nat
BY DEF ByteValues

(* One division takes off the last byte.                                   *)
LEMMA LastByte ==
  ASSUME NEW a \in Nat, NEW b \in ByteValues
  PROVE  (256 * a + b) \div 256 = a /\ (256 * a + b) % 256 = b
BY DEF ByteValues

(* Bytes without a zero in front come back as they were.                   *)
LEMMA BytesBack ==
  ASSUME NEW s \in Seq(ByteValues), Len(s) <= Width, Len(s) > 0 => s[1] # 0
  PROVE  Bytes(SetBytes(s)) = s
<1> DEFINE last == Len(s)
<1>1. /\ last \in Nat /\ Width \in Nat /\ last <= Width
      /\ \A k \in 1 .. last : s[k] \in ByteValues
  BY BytesAssumption
<1>2. PICK value \in [0 .. last -> Nat] :
        /\ value[0] = 0
        /\ \A k \in 1 .. last : value[k] = 256 * value[k - 1] + s[k]
        /\ SetBytes(s) = value[last]
  BY SetBytesRuns
<1>3. last > 0 => s[1] # 0
  OBVIOUS
<1> DEFINE v == SetBytes(s)
<1>4. v \in Nat /\ v = value[last]
  <2> HIDE DEF last
  <2> QED
    BY <1>1, <1>2
<1> HIDE DEF v
<1>5. PICK rest \in [0 .. Width -> Nat] :
        /\ rest[0] = v
        /\ \A k \in 1 .. Width : rest[k] = rest[k - 1] \div 256
        /\ rest = CHOOSE r : Drops(v, r)
  <2>1. v \in Nat
    BY <1>4
  <2> QED
    BY <2>1, RestRuns, SMTT(20)
<1>6. s = [k \in 1 .. last |-> s[k]]
  OBVIOUS
<1> HIDE DEF last
<1>7. ASSUME NEW k \in 1 .. last
      PROVE  value[k] \div 256 = value[k - 1] /\ value[k] % 256 = s[k]
  <2>1. k - 1 \in 0 .. last /\ s[k] \in ByteValues
    BY <1>1
  <2>2. value[k - 1] \in Nat /\ value[k] = 256 * value[k - 1] + s[k]
    BY <1>2, <2>1
  <2> QED
    BY <2>1, <2>2, LastByte
<1>8. ASSUME NEW k \in 1 .. last PROVE value[k] # 0
  <2> DEFINE Good == {i \in 1 .. last : value[i] # 0}
  <2>1. 1 \in Good
    <3>1. 1 \in 1 .. last /\ s[1] \in ByteValues /\ s[1] # 0 /\ 1 - 1 = 0
      BY <1>1, <1>3
    <3>2. value[1] = 256 * value[0] + s[1]
      BY <1>2, <3>1
    <3>3. s[1] \in Int
      BY <3>1, BytesAreNat
    <3>4. value[1] = s[1]
      BY <1>2, <3>2, <3>3
    <3> QED
      BY <3>1, <3>4
  <2>2. ASSUME NEW i \in 1 .. last - 1, i \in Good PROVE i + 1 \in Good
    <3>1. i + 1 \in 1 .. last /\ (i + 1) - 1 = i /\ i \in 0 .. last
      BY <1>1
    <3>2. s[i + 1] \in ByteValues
      BY <1>1, <3>1
    <3>3. s[i + 1] \in Nat
      BY <3>2, BytesAreNat
    <3>4. value[i] \in Nat
      BY <3>1
    <3>5. value[i + 1] = 256 * value[i] + s[i + 1]
      BY <1>2, <3>1
    <3>6. value[i + 1] # 0
      BY <2>2, <3>3, <3>4, <3>5
    <3> QED
      BY <3>1, <3>6
  <2>3. 1 \in Int /\ last \in Int
    BY <1>1
  <2> HIDE DEF Good
  <2>4. 1 .. last \subseteq Good
    BY <2>1, <2>2, <2>3, RangeInduction
  <2> QED
    BY <2>4 DEF Good
<1>9. ASSUME NEW k \in 0 .. last PROVE rest[k] = value[last - k]
  <2> DEFINE Good == {i \in 0 .. last : rest[i] = value[last - i]}
  <2>1. 0 \in Good
    <3>1. 0 \in 0 .. last /\ last - 0 = last
      BY <1>1
    <3> QED
      BY <1>4, <1>5, <3>1
  <2>2. ASSUME NEW i \in 0 .. last - 1, i \in Good PROVE i + 1 \in Good
    <3>1. /\ i + 1 \in 0 .. last /\ i + 1 \in 1 .. Width /\ (i + 1) - 1 = i
          /\ last - i \in 1 .. last /\ (last - i) - 1 = last - (i + 1)
      BY <1>1
    <3>2. rest[i + 1] = rest[i] \div 256
      BY <1>5, <3>1
    <3>3. value[last - i] \div 256 = value[last - (i + 1)]
      BY <1>7, <3>1
    <3> QED
      BY <2>2, <3>1, <3>2, <3>3
  <2>3. 0 \in Int /\ last \in Int
    BY <1>1
  <2> HIDE DEF Good
  <2>4. 0 .. last \subseteq Good
    BY <2>1, <2>2, <2>3, RangeInduction
  <2> QED
    BY <2>4 DEF Good
<1> DEFINE Size(k) == rest[k] = 0 /\ \A l \in 0 .. k - 1 : rest[l] # 0
<1>10. last \in 0 .. Width /\ Size(last)
  <2>1. last \in 0 .. Width /\ last \in 0 .. last /\ last - last = 0
    BY <1>1
  <2>2. rest[last] = 0
    BY <1>2, <1>9, <2>1
  <2>3. ASSUME NEW l \in 0 .. last - 1 PROVE rest[l] # 0
    <3>1. l \in 0 .. last /\ last - l \in 1 .. last
      BY <1>1
    <3> QED
      BY <1>8, <1>9, <3>1
  <2> QED
    BY <2>1, <2>2, <2>3
<1>11. ASSUME NEW k \in 0 .. Width, Size(k) PROVE k = last
  <2>1. CASE k < last
    <3>1. k \in 0 .. last - 1
      BY <1>1, <2>1
    <3> QED
      BY <1>10, <1>11, <3>1
  <2>2. CASE k > last
    <3>1. last \in 0 .. k - 1
      BY <1>1, <2>2
    <3> QED
      BY <1>10, <1>11, <3>1
  <2> QED
    BY <1>1, <2>1, <2>2
<1>12. (CHOOSE k \in 0 .. Width : Size(k)) = last
  <2> HIDE DEF Size
  <2> QED
    BY <1>10, <1>11
<1>13. Bytes(v) = [k \in 1 .. last |-> rest[last - k] % 256]
  <2>1. Bytes(v) = Shown(CHOOSE r : Drops(v, r), ShownSize(CHOOSE r : Drops(v, r)))
    BY DEF Bytes, Drops, Shown, ShownSize
  <2>2. ShownSize(rest) = last
    BY <1>12 DEF ShownSize
  <2>3. Bytes(v) = Shown(rest, last)
    BY <1>5, <2>1, <2>2
  <2> QED
    BY <2>3 DEF Shown
<1>14. ASSUME NEW k \in 1 .. last PROVE rest[last - k] % 256 = s[k]
  <2>1. last - k \in 0 .. last /\ last - (last - k) = k
    BY <1>1
  <2>2. rest[last - k] = value[k]
    BY <1>9, <2>1
  <2> QED
    BY <1>7, <2>2
<1>15. Bytes(v) = s
  BY <1>6, <1>13, <1>14
<1> QED
  BY <1>15 DEF v

-----------------------------------------------------------------------------
(* Identities are bytes, and the first one is not 0.                       *)
LEMMA KeyBytes ==
  ASSUME NEW id \in CreateID
  PROVE  id \in Seq(ByteValues) /\ Len(id) = Width + 1 /\ id[1] # 0 /\ Width \in Nat \ {0}
<1>1. PICK quad \in {0, 1}, t \in Tails : id = <<SavedSign(quad)>> \o t
  BY DEF CreateID
<1>2. SavedSign(quad) \in ByteValues /\ SavedSign(quad) # 0
  BY DEF SavedSign, ByteValues
<1>3. t \in Seq(ByteValues) /\ Len(t) = Width /\ Width \in Nat \ {0}
  BY BytesAssumption
<1> DEFINE e == SavedSign(quad)
<1> HIDE DEF e
<1>4. e \in ByteValues /\ e # 0 /\ id = <<e>> \o t
  BY <1>1, <1>2 DEF e
<1>5. <<e>> \in Seq(ByteValues) /\ Len(<<e>>) = 1 /\ <<e>>[1] = e
  BY <1>4
<1> QED
  BY <1>3, <1>4, <1>5

(* What a reader joins of the two numbers is the identity that was sent,   *)
(* whatever zeros stand in it, the last byte included.                     *)
LEMMA JoinedParts ==
  ASSUME NEW id \in CreateID
  PROVE  Joined(Parts(id)) = id
<1>1. id \in Seq(ByteValues) /\ Len(id) = Width + 1 /\ id[1] # 0 /\ Width \in Nat \ {0}
  BY KeyBytes
<1> DEFINE front == SubSeq(id, 1, Width)
           back  == SubSeq(id, Width + 1, Len(id))
           b     == id[Width + 1]
<1>2. /\ front \in Seq(ByteValues) /\ Len(front) = Width /\ front[1] = id[1]
      /\ \A k \in 1 .. Width : front[k] = id[k]
  BY <1>1
<1>3. b \in ByteValues /\ back = <<b>>
  <2>1. b \in ByteValues /\ Len(back) = 1 /\ back[1] = b /\ back \in Seq(ByteValues)
    BY <1>1
  <2> HIDE DEF back, b
  <2> QED
    BY <2>1
<1> HIDE DEF front, back, b
<1>4. Bytes(SetBytes(front)) = front
  BY <1>1, <1>2, BytesBack
<1>5. back \in Seq(ByteValues) /\ Len(back) = 1 /\ back[1] = b
  BY <1>3
<1>6. SetBytes(back) = b
  <2>1. PICK value \in [0 .. Len(back) -> Nat] :
           /\ value[0] = 0
           /\ \A k \in 1 .. Len(back) : value[k] = 256 * value[k - 1] + back[k]
           /\ SetBytes(back) = value[Len(back)]
    BY <1>5, SetBytesRuns
  <2>2. SetBytes(back) = value[1] /\ value[1] = 256 * value[1 - 1] + back[1] /\ 1 - 1 = 0
    BY <1>5, <2>1
  <2> QED
    BY <1>3, <1>5, <2>1, <2>2 DEF ByteValues
<1>7. b # 0 => Bytes(b) = back
  <2>1. Len(back) <= Width
    BY <1>1, <1>5
  <2>2. b # 0 => Bytes(SetBytes(back)) = back
    BY <1>5, <2>1, BytesBack
  <2> QED
    BY <1>6, <2>2
<1>8. (IF b = 0 THEN 0 ELSE Bytes(b)[1]) = b
  BY <1>5, <1>7
<1>9. Joined(Parts(id)) = front \o <<b>>
  BY <1>4, <1>6, <1>8 DEF Joined, Parts, front, back
<1>10. front \o <<b>> = id
  <2>1. front \o <<b>> \in Seq(ByteValues) /\ Len(front \o <<b>>) = Len(id)
    BY <1>1, <1>2, <1>3
  <2>2. ASSUME NEW k \in 1 .. Len(id) PROVE (front \o <<b>>)[k] = id[k]
    BY <1>1, <1>2, <1>3 DEF b
  <2> QED
    BY <1>1, <2>1, <2>2
<1> QED
  BY <1>9, <1>10

-----------------------------------------------------------------------------
(* The entries beside the keys they were made from.                        *)

Entry == [id : {Parts(id) : id \in CreateID}, active : BOOLEAN, owner : {Deployer}]

EncodingInv ==
  /\ keys \in Seq(CreateID)
  /\ idList \in Seq(Entry)
  /\ Len(idList) = Len(keys) /\ nextIndex = Len(keys)
  /\ \A k \in 1 .. Len(keys) : idList[k].id = Parts(keys[k])

(* A new entry has the numbers of its key.                                 *)
LEMMA AddEncoded ==
  ASSUME EncodingInv, NEW id \in CreateID, AddIDstoIdR(id)
  PROVE  EncodingInv'
<1> DEFINE e == [id |-> Parts(id), active |-> TRUE, owner |-> Deployer]
<1>1. e \in Entry /\ e.id = Parts(id)
  BY DEF Entry
<1>2. idList' = Append(idList, e) /\ nextIndex' = nextIndex + 1 /\ keys' = Append(keys, id)
  BY DEF AddIDstoIdR, addID
<1> HIDE DEF e
<1>3. /\ keys \in Seq(CreateID) /\ idList \in Seq(Entry)
      /\ Len(idList) = Len(keys) /\ nextIndex = Len(keys) /\ Len(keys) \in Nat
      /\ \A k \in 1 .. Len(keys) : idList[k].id = Parts(keys[k])
  BY DEF EncodingInv
<1>4. /\ keys' \in Seq(CreateID) /\ idList' \in Seq(Entry)
      /\ Len(idList') = Len(keys) + 1 /\ Len(keys') = Len(keys) + 1
      /\ nextIndex' = Len(keys) + 1
  BY <1>1, <1>2, <1>3
<1>5. ASSUME NEW k \in 1 .. Len(keys) + 1
      PROVE  idList'[k].id = Parts(keys'[k])
  <2>1. CASE k = Len(keys) + 1
    <3>1. idList'[k] = e /\ keys'[k] = id
      BY <1>1, <1>2, <1>3, <2>1
    <3> QED
      BY <1>1, <3>1
  <2>2. CASE k # Len(keys) + 1
    <3>1. k \in 1 .. Len(keys) /\ idList'[k] = idList[k] /\ keys'[k] = keys[k]
      BY <1>1, <1>2, <1>3, <2>2
    <3> QED
      BY <1>3, <3>1
  <2> QED
    BY <2>1, <2>2
<1> QED
  BY <1>4, <1>5 DEF EncodingInv

(* A revoked entry keeps its numbers.                                      *)
LEMMA RevokeEncoded ==
  ASSUME EncodingInv, NEW l \in Nat, revokeID(l), UNCHANGED keys
  PROVE  EncodingInv'
<1>1. l + 1 \in 1 .. Len(idList) /\ idList \in Seq(Entry) /\ Len(idList) \in Nat
  BY DEF EncodingInv, revokeID
<1> DEFINE e == [idList[l + 1] EXCEPT !.active = FALSE]
<1>2. idList[l + 1] \in Entry
  BY <1>1
<1>3. e \in Entry /\ e.id = idList[l + 1].id
  BY <1>2 DEF Entry
<1>4. idList' = [idList EXCEPT ![l + 1] = e] /\ nextIndex' = nextIndex
  BY <1>1 DEF revokeID
<1> HIDE DEF e
<1>5. /\ idList' \in Seq(Entry) /\ Len(idList') = Len(idList)
      /\ \A k \in 1 .. Len(idList) : idList'[k] = IF k = l + 1 THEN e ELSE idList[k]
  BY <1>1, <1>3, <1>4
<1>6. \A k \in 1 .. Len(idList) : idList'[k].id = idList[k].id
  BY <1>3, <1>5
<1> QED
  BY <1>4, <1>5, <1>6 DEF EncodingInv

(* In every state the entries have the numbers of the keys.                *)
LEMMA Encoded == EncodingSpec => []EncodingInv
<1>1. EncodingInit => EncodingInv
  BY DEF EncodingInit, Init, EncodingInv
<1>2. EncodingInv /\ [EncodingNext]_encodingVars => EncodingInv'
  <2> SUFFICES ASSUME EncodingInv, [EncodingNext]_encodingVars PROVE EncodingInv'
    OBVIOUS
  <2>1. CASE AddKey
    BY <2>1, AddEncoded DEF AddKey
  <2>2. CASE RevokeKey
    <3>1. PICK l \in 0 .. MaxIds - 1 : revokeID(l)
      BY <2>2 DEF RevokeKey, Revoke
    <3>2. l \in Nat
      BY MaxIdsAssumption
    <3> QED
      BY <2>2, <3>1, <3>2, RevokeEncoded DEF RevokeKey
  <2>3. CASE UNCHANGED encodingVars
    BY <2>3 DEF EncodingInv, encodingVars
  <2> QED
    BY <2>1, <2>2, <2>3 DEF EncodingNext
<1> QED
  BY <1>1, <1>2, PTL DEF EncodingSpec

(* Two identities are never the same two numbers.                          *)
LEMMA PartsTell ==
  ASSUME NEW id \in CreateID, NEW other \in CreateID
  PROVE  Parts(id) = Parts(other) <=> id = other
BY JoinedParts

(* The contract matches the numbers of an identity where it was added.     *)
LEMMA LookupEncoded ==
  ASSUME EncodingInv
  PROVE  LookupFindsTheKey
<1> SUFFICES ASSUME NEW id \in CreateID
             PROVE  LET places == {k \in 1 .. Len(keys) : keys[k] = id} IN
                    IF places = {} THEN GetIDIndexfromContract(id) = -1
                    ELSE /\ GetIDIndexfromContract(id) + 1 \in places
                         /\ \A k \in places : GetIDIndexfromContract(id) < k
  BY DEF LookupFindsTheKey
<1> DEFINE places == {k \in 1 .. Len(keys) : keys[k] = id}
           P == Parts(id)
<1>1. Len(keys) \in Nat /\ nextIndex = Len(keys)
  BY DEF EncodingInv
<1>2. ASSUME NEW k \in 0 .. nextIndex - 1
      PROVE  k + 1 \in 1 .. Len(keys) /\ (getIDs(k) = P <=> keys[k + 1] = id)
  <2>1. k + 1 \in 1 .. Len(keys)
    BY <1>1
  <2>2. idList[k + 1].id = Parts(keys[k + 1]) /\ keys[k + 1] \in CreateID
    BY <2>1 DEF EncodingInv
  <2> QED
    BY <2>1, <2>2, PartsTell DEF getIDs
<1>3. ASSUME NEW k \in Matches(P) PROVE k \in Nat /\ k + 1 \in places
  BY <1>1, <1>2 DEF Matches
<1>4. ASSUME NEW k \in places PROVE k - 1 \in Matches(P) /\ k \in Int
  <2>1. k - 1 \in 0 .. nextIndex - 1 /\ (k - 1) + 1 = k /\ k \in Int
    BY <1>1
  <2> QED
    BY <1>2, <2>1 DEF Matches
<1>5. GetIDIndexfromContract(id) = getIDIndex(P)
  BY DEF GetIDIndexfromContract
<1> HIDE DEF P
<1>6. CASE places = {}
  <2>1. Matches(P) = {}
    BY <1>3, <1>6
  <2> QED
    BY <1>5, <1>6, <2>1 DEF getIDIndex
<1>7. CASE places # {}
  <2>1. Matches(P) \subseteq Nat /\ Matches(P) # {}
    BY <1>3, <1>4, <1>7
  <2>2. getIDIndex(P) \in Matches(P) /\ \A l \in Matches(P) : getIDIndex(P) <= l
    BY <2>1, FirstMatch
  <2>3. getIDIndex(P) + 1 \in places /\ getIDIndex(P) \in Int
    BY <1>3, <2>2
  <2>4. ASSUME NEW k \in places PROVE getIDIndex(P) < k
    <3>1. getIDIndex(P) <= k - 1 /\ k \in Int
      BY <1>4, <2>2
    <3> QED
      BY <2>3, <3>1
  <2> QED
    BY <1>5, <1>7, <2>3, <2>4
<1> QED
  BY <1>6, <1>7

(* A lookup finds the entry where a key was added first, and no other key: *)
(* for every width of an identity and every set of points.                 *)
THEOREM LookupIsRight == EncodingSpec => []LookupFindsTheKey
BY Encoded, LookupEncoded, PTL

-----------------------------------------------------------------------------
(* What a reader makes of the list.                                        *)

\* The entries up to k that are active.
ActiveUpTo(k) == {l \in 1 .. k : idList[l].active}

(* Counting the active entries one further.                                *)
LEMMA OneMoreActive ==
  ASSUME NEW k \in Nat
  PROVE  /\ IsFiniteSet(ActiveUpTo(k)) /\ Cardinality(ActiveUpTo(k)) \in Nat
         /\ Cardinality(ActiveUpTo(k + 1))
              = Cardinality(ActiveUpTo(k)) + IF idList[k + 1].active THEN 1 ELSE 0
         /\ k + 1 \in ActiveUpTo(k + 1) <=> idList[k + 1].active
<1>1. IsFiniteSet(ActiveUpTo(k))
  <2>1. IsFiniteSet(1 .. k)
    BY FS_Interval
  <2>2. ActiveUpTo(k) \subseteq 1 .. k
    BY DEF ActiveUpTo
  <2> QED
    BY <2>1, <2>2, FS_Subset
<1>2. Cardinality(ActiveUpTo(k)) \in Nat
  BY <1>1, FS_CardinalityType
<1>3. k + 1 \in 1 .. k + 1 /\ \A l \in 1 .. k + 1 : l \in 1 .. k \/ l = k + 1
  OBVIOUS
<1>4. k + 1 \notin 1 .. k /\ 1 .. k \subseteq 1 .. k + 1
  OBVIOUS
<1>5. CASE idList[k + 1].active
  <2>1. ActiveUpTo(k + 1) = ActiveUpTo(k) \cup {k + 1} /\ k + 1 \notin ActiveUpTo(k)
    BY <1>3, <1>4, <1>5 DEF ActiveUpTo
  <2>2. Cardinality(ActiveUpTo(k + 1)) = Cardinality(ActiveUpTo(k)) + 1
    BY <1>1, <2>1, FS_AddElement
  <2> QED
    BY <1>1, <1>2, <1>5, <2>1, <2>2
<1>6. CASE ~idList[k + 1].active
  <2>1. ActiveUpTo(k + 1) = ActiveUpTo(k)
    BY <1>3, <1>4, <1>6 DEF ActiveUpTo
  <2>2. k + 1 \notin ActiveUpTo(k + 1)
    BY <1>6 DEF ActiveUpTo
  <2> QED
    BY <1>1, <1>2, <1>6, <2>1, <2>2
<1> QED
  BY <1>5, <1>6

\* What the reader's loop computes.
Lists(list) ==
  list = [k \in 0 .. nextIndex |->
            IF k = 0 THEN <<>>
            ELSE IF getState(k - 1) THEN Append(list[k - 1], Joined(getIDs(k - 1))) ELSE list[k - 1]]

(* The reader's loop has its values: in each turn the key of an active     *)
(* entry is appended.                                                      *)
LEMMA ListRuns ==
  ASSUME EncodingInv
  PROVE  \E list \in [0 .. nextIndex -> Seq(CreateID)] :
           /\ GetallActiveIDfromContract = list[nextIndex]
           /\ list[0] = <<>>
           /\ \A k \in 1 .. nextIndex :
                list[k] = IF idList[k].active THEN Append(list[k - 1], keys[k]) ELSE list[k - 1]
<1> DEFINE last == nextIndex
           S == Seq(CreateID)
           round == [k \in 0 .. last - 1 |->
                       [s \in S |-> IF idList[k + 1].active THEN Append(s, keys[k + 1]) ELSE s]]
<1>1. last \in Nat /\ last = Len(keys) /\ \A k \in 1 .. last : keys[k] \in CreateID
  BY DEF EncodingInv
<1>2. \A k \in 1 .. last : Joined(idList[k].id) = keys[k]
  BY <1>1, JoinedParts DEF EncodingInv
<1>3. round \in [0 .. last - 1 -> [S -> S]]
  <2>1. \A k \in 0 .. last - 1 : k + 1 \in 1 .. last
    BY <1>1
  <2>2. \A s \in S, e \in CreateID : Append(s, e) \in S
    OBVIOUS
  <2> QED
    BY <1>1, <2>1, <2>2
<1>4. <<>> \in S
  OBVIOUS
<1> HIDE DEF round, S
<1>5. PICK p \in [0 .. last -> S] : Runs(p, <<>>, round, 0, last)
  <2>1. 0 \in Int /\ last \in Int /\ 0 <= last
    BY <1>1
  <2> HIDE DEF last
  <2> QED
    BY <1>3, <1>4, <2>1, LoopRuns, Zenon
<1>6. ASSUME NEW k \in 1 .. last
      PROVE  /\ k - 1 \in 0 .. last - 1 /\ k \in 0 .. last /\ (k - 1) + 1 = k /\ k # 0
             /\ k - 1 \in 0 .. last
  BY <1>1
<1>7. ASSUME NEW k \in 1 .. last
      PROVE  p[k] = IF idList[k].active THEN Append(p[k - 1], keys[k]) ELSE p[k - 1]
  <2>1. p[k] = round[k - 1][p[k - 1]]
    BY <1>5, <1>6 DEF Runs
  <2>2. p[k - 1] \in S
    BY <1>5, <1>6
  <2> QED
    BY <1>6, <2>1, <2>2 DEF round
<1>8. p[0] = <<>>
  BY <1>1, <1>5 DEF Runs
<1>9. ASSUME NEW k \in 1 .. last, NEW r
      PROVE  (IF getState(k - 1) THEN Append(r, Joined(getIDs(k - 1))) ELSE r)
               = IF idList[k].active THEN Append(r, keys[k]) ELSE r
  BY <1>2, <1>6 DEF getState, getIDs
<1> DEFINE Turn(v, k) == IF k = 0 THEN <<>>
                         ELSE IF getState(k - 1) THEN Append(v[k - 1], Joined(getIDs(k - 1)))
                         ELSE v[k - 1]
<1>10. ASSUME NEW v, NEW k \in 0 .. last
       PROVE  Turn(v, k) = IF k = 0 THEN <<>>
                           ELSE IF idList[k].active THEN Append(v[k - 1], keys[k]) ELSE v[k - 1]
  <2>1. CASE k = 0
    BY <2>1
  <2>2. CASE k # 0
    <3>1. k \in 1 .. last
      BY <1>1, <2>2
    <3> QED
      BY <1>9, <2>2, <3>1
  <2> QED
    BY <2>1, <2>2
<1> HIDE DEF Turn
<1>11. Lists(p)
  <2>1. \A k \in 0 .. last : p[k] = Turn(p, k)
    <3> SUFFICES ASSUME NEW k \in 0 .. last PROVE p[k] = Turn(p, k)
      OBVIOUS
    <3>1. CASE k = 0
      BY <1>8, <1>10, <3>1
    <3>2. CASE k # 0
      <4>1. k \in 1 .. last
        BY <1>1, <3>2
      <4> QED
        BY <1>7, <1>10, <3>2, <4>1
    <3> QED
      BY <3>1, <3>2
  <2>2. p = [k \in 0 .. last |-> p[k]]
    BY <1>5
  <2>3. p = [k \in 0 .. last |-> Turn(p, k)]
    BY <2>1, <2>2
  <2> QED
    BY <2>3 DEF Lists, Turn
<1>12. PICK list : Lists(list) /\ GetallActiveIDfromContract = list[last]
  <2>1. Lists(CHOOSE v : Lists(v))
    BY <1>11, Zenon
  <2>2. GetallActiveIDfromContract = (CHOOSE v : Lists(v))[nextIndex]
    BY DEF GetallActiveIDfromContract, Lists
  <2> QED
    BY <2>1, <2>2
<1>13. list = [k \in 0 .. last |-> Turn(list, k)]
  BY <1>12 DEF Lists, Turn
<1>14. /\ list[0] = <<>>
       /\ \A k \in 1 .. last :
            list[k] = IF idList[k].active THEN Append(list[k - 1], keys[k]) ELSE list[k - 1]
  <2>1. 0 \in 0 .. last
    BY <1>1
  <2>2. \A k \in 0 .. last : list[k] = Turn(list, k)
    BY <1>13
  <2> QED
    BY <1>6, <1>10, <2>1, <2>2
<1> DEFINE Good == {k \in 0 .. last : list[k] \in S}
<1>15. 0 .. last \subseteq Good
  <2>1. 0 \in Good
    BY <1>1, <1>4, <1>14
  <2>2. ASSUME NEW k \in 0 .. last - 1, k \in Good PROVE k + 1 \in Good
    <3>1. k + 1 \in 1 .. last /\ (k + 1) - 1 = k /\ k + 1 \in 0 .. last
      BY <1>1
    <3>2. list[k + 1] = IF idList[k + 1].active THEN Append(list[k], keys[k + 1]) ELSE list[k]
      BY <1>14, <3>1
    <3>3. keys[k + 1] \in CreateID /\ list[k] \in S
      BY <1>1, <2>2, <3>1
    <3>4. Append(list[k], keys[k + 1]) \in S
      BY <3>3 DEF S
    <3>5. list[k + 1] \in S
      BY <3>2, <3>3, <3>4
    <3> QED
      BY <3>1, <3>5
  <2>3. 0 \in Int /\ last \in Int
    BY <1>1
  <2> HIDE DEF Good, last
  <2> QED
    BY <2>1, <2>2, <2>3, RangeInduction
<1>16. list \in [0 .. last -> S]
  BY <1>13, <1>15
<1> QED
  BY <1>12, <1>14, <1>16 DEF S

(* The list that a reader gets has the key of every active entry, behind   *)
(* those of the active entries before it, and nothing else.                *)
LEMMA ListEncoded ==
  ASSUME EncodingInv
  PROVE  ReadersGetTheKeys
<1>1. PICK list \in [0 .. nextIndex -> Seq(CreateID)] :
        /\ GetallActiveIDfromContract = list[nextIndex]
        /\ list[0] = <<>>
        /\ \A k \in 1 .. nextIndex :
             list[k] = IF idList[k].active THEN Append(list[k - 1], keys[k]) ELSE list[k - 1]
  BY ListRuns
<1> DEFINE last == nextIndex
<1>2. last \in Nat /\ last = Len(keys) /\ \A k \in 1 .. last : keys[k] \in CreateID
  BY DEF EncodingInv
<1> DEFINE c(k) == Cardinality(ActiveUpTo(k))
           Right(k) == /\ Len(list[k]) = c(k)
                       /\ \A l \in ActiveUpTo(k) : c(l) \in 1 .. c(k) /\ list[k][c(l)] = keys[l]
           Good == {k \in 0 .. last : Right(k)}
<1>3. ASSUME NEW k \in Nat
      PROVE  /\ c(k) \in Nat
             /\ c(k + 1) = c(k) + IF idList[k + 1].active THEN 1 ELSE 0
             /\ k + 1 \in ActiveUpTo(k + 1) <=> idList[k + 1].active
             /\ \A l \in ActiveUpTo(k + 1) : l = k + 1 \/ l \in ActiveUpTo(k)
  <2>1. /\ c(k) \in Nat
        /\ c(k + 1) = c(k) + IF idList[k + 1].active THEN 1 ELSE 0
        /\ k + 1 \in ActiveUpTo(k + 1) <=> idList[k + 1].active
    BY OneMoreActive
  <2>2. \A l \in ActiveUpTo(k + 1) : l = k + 1 \/ l \in ActiveUpTo(k)
    BY DEF ActiveUpTo
  <2> QED
    BY <2>1, <2>2
<1>4. 0 \in Good
  <2>1. ActiveUpTo(0) = {}
    BY DEF ActiveUpTo
  <2>2. c(0) = 0
    BY <2>1, FS_EmptySet
  <2>3. 0 \in 0 .. last
    BY <1>2
  <2> QED
    BY <1>1, <2>1, <2>2, <2>3
<1>5. ASSUME NEW k \in 0 .. last - 1, k \in Good PROVE k + 1 \in Good
  <2>1. k \in Nat /\ k + 1 \in 1 .. last /\ k + 1 \in 0 .. last /\ (k + 1) - 1 = k /\ k \in 0 .. last
    BY <1>2
  <2>2. list[k + 1] = IF idList[k + 1].active THEN Append(list[k], keys[k + 1]) ELSE list[k]
    BY <1>1, <2>1
  <2>3. list[k] \in Seq(CreateID) /\ keys[k + 1] \in CreateID
    BY <1>2, <2>1
  <2>4. Right(k)
    BY <1>5
  <2> HIDE DEF c
  <2>5. CASE idList[k + 1].active
    <3>1. list[k + 1] = Append(list[k], keys[k + 1]) /\ c(k + 1) = c(k) + 1 /\ c(k) \in Nat
      BY <1>3, <2>1, <2>2, <2>5
    <3>2. /\ Len(list[k + 1]) = c(k + 1)
          /\ list[k + 1][c(k) + 1] = keys[k + 1]
          /\ \A i \in 1 .. c(k) : list[k + 1][i] = list[k][i]
      BY <2>3, <2>4, <3>1
    <3>3. ASSUME NEW l \in ActiveUpTo(k + 1)
          PROVE  c(l) \in 1 .. c(k + 1) /\ list[k + 1][c(l)] = keys[l]
      <4>1. CASE l = k + 1
        BY <3>1, <3>2, <4>1
      <4>2. CASE l \in ActiveUpTo(k)
        <5>1. c(l) \in 1 .. c(k) /\ list[k][c(l)] = keys[l]
          BY <2>4, <4>2
        <5> QED
          BY <3>1, <3>2, <5>1
      <4> QED
        BY <1>3, <2>1, <4>1, <4>2
    <3> QED
      BY <2>1, <3>2, <3>3
  <2>6. CASE ~idList[k + 1].active
    <3> DEFINE more == IF idList[k + 1].active THEN 1 ELSE 0
    <3>1. c(k) \in Nat /\ c(k + 1) = c(k) + more /\ more = 0
      BY <1>3, <2>1, <2>6
    <3> HIDE DEF more
    <3>2. list[k + 1] = list[k] /\ c(k + 1) = c(k) /\ c(k) \in Nat
      BY <2>2, <2>6, <3>1
    <3>3. ActiveUpTo(k + 1) \subseteq ActiveUpTo(k)
      <4>1. k + 1 \notin ActiveUpTo(k + 1)
        BY <2>6 DEF ActiveUpTo
      <4>2. \A l \in ActiveUpTo(k + 1) : l = k + 1 \/ l \in ActiveUpTo(k)
        BY <1>3, <2>1
      <4> QED
        BY <4>1, <4>2
    <3> QED
      BY <2>1, <2>4, <3>2, <3>3
  <2> QED
    BY <2>5, <2>6
<1>6. Right(last)
  <2>1. 0 \in Int /\ last \in Int /\ last \in 0 .. last
    BY <1>2
  <2> HIDE DEF Right, last
  <2>2. 0 .. last \subseteq Good
    <3> HIDE DEF Good
    <3> QED
      BY <1>4, <1>5, <2>1, RangeInduction
  <2> QED
    BY <2>1, <2>2
<1> QED
  BY <1>1, <1>2, <1>6 DEF ReadersGetTheKeys, ActiveUpTo

(* Whoever reads the list gets the very keys that users added, byte by     *)
(* byte, less the revoked ones: for every width and every set of points.   *)
THEOREM ReadersAreRight == EncodingSpec => []ReadersGetTheKeys
BY Encoded, ListEncoded, PTL

-----------------------------------------------------------------------------
(* A part of a sequence has the elements of the sequence.                  *)
LEMMA PartOf ==
  ASSUME NEW S, NEW s \in Seq(S), NEW m \in 1 .. Len(s) + 1, NEW n \in m - 1 .. Len(s)
  PROVE  /\ SubSeq(s, m, n) \in Seq(S)
         /\ Len(SubSeq(s, m, n)) = n - m + 1
         /\ \A i \in 1 .. n - m + 1 : SubSeq(s, m, n)[i] = s[m + i - 1]
<1>1. m \in Int /\ n \in Int /\ Len(s) \in Nat
  BY LenProperties
<1>2. \A i \in m .. n : s[i] \in S
  <2>1. \A i \in m .. n : i \in 1 .. Len(s)
    BY <1>1
  <2> QED
    BY <2>1, ElementOfSeq
<1>3. /\ SubSeq(s, m, n) \in Seq(S)
      /\ Len(SubSeq(s, m, n)) = IF m <= n THEN n - m + 1 ELSE 0
      /\ \A i \in 1 .. n - m + 1 : SubSeq(s, m, n)[i] = s[m + i - 1]
  BY <1>1, <1>2, SubSeqProperties
<1>4. (IF m <= n THEN n - m + 1 ELSE 0) = n - m + 1
  BY <1>1
<1> QED
  BY <1>3, <1>4, Zenon

(* What is below the top is the sequence it was put on.                    *)
LEMMA LowerPart ==
  ASSUME NEW S, NEW s \in Seq(S), NEW top \in S
  PROVE  SubSeq(Append(s, top), 1, Len(Append(s, top)) - 1) = s
<1> DEFINE t == Append(s, top)
<1>1. t \in Seq(S) /\ Len(t) = Len(s) + 1 /\ Len(s) \in Nat /\ \A i \in 1 .. Len(s) : t[i] = s[i]
  BY AppendProperties, LenProperties
<1> HIDE DEF t
<1>2. 1 \in 1 .. Len(t) + 1 /\ Len(t) - 1 \in 1 - 1 .. Len(t)
  BY <1>1
<1>3. /\ SubSeq(t, 1, Len(t) - 1) \in Seq(S)
      /\ Len(SubSeq(t, 1, Len(t) - 1)) = (Len(t) - 1) - 1 + 1
      /\ \A i \in 1 .. (Len(t) - 1) - 1 + 1 : SubSeq(t, 1, Len(t) - 1)[i] = t[1 + i - 1]
  BY <1>1, <1>2, PartOf
<1>4. (Len(t) - 1) - 1 + 1 = Len(s) /\ \A i \in 1 .. Len(s) : 1 + i - 1 = i
  BY <1>1
<1>5. \A i \in 1 .. Len(s) : SubSeq(t, 1, Len(t) - 1)[i] = s[i]
  BY <1>1, <1>3, <1>4
<1>6. SubSeq(t, 1, Len(t) - 1) = s
  BY <1>3, <1>4, <1>5, SeqEqual
<1> QED
  BY <1>6 DEF t

(* Sequences that differ in the last element only.                         *)
LEMMA SameLowerPart ==
  ASSUME NEW S, NEW s \in Seq(S), NEW t \in Seq(S), Len(t) = Len(s), Len(s) >= 1,
         \A i \in 1 .. Len(s) - 1 : t[i] = s[i]
  PROVE  SubSeq(t, 1, Len(t) - 1) = SubSeq(s, 1, Len(s) - 1)
<1>1. Len(s) \in Nat
  BY LenProperties
<1> DEFINE n == Len(s) - 1
<1>2. n \in Nat /\ 1 \in 1 .. Len(s) + 1 /\ n \in 1 - 1 .. Len(s) /\ n - 1 + 1 = n
  BY <1>1
<1>3. /\ SubSeq(s, 1, n) \in Seq(S) /\ Len(SubSeq(s, 1, n)) = n - 1 + 1
      /\ \A i \in 1 .. n - 1 + 1 : SubSeq(s, 1, n)[i] = s[1 + i - 1]
  BY <1>2, PartOf
<1>4. /\ SubSeq(t, 1, n) \in Seq(S) /\ Len(SubSeq(t, 1, n)) = n - 1 + 1
      /\ \A i \in 1 .. n - 1 + 1 : SubSeq(t, 1, n)[i] = t[1 + i - 1]
  BY <1>2, PartOf
<1>5. \A i \in 1 .. n : 1 + i - 1 = i
  BY <1>2
<1> HIDE DEF n
<1>6. \A i \in 1 .. n : SubSeq(t, 1, n)[i] = SubSeq(s, 1, n)[i]
  BY <1>2, <1>3, <1>4, <1>5 DEF n
<1>7. SubSeq(t, 1, n) = SubSeq(s, 1, n)
  BY <1>2, <1>3, <1>4, <1>6, SeqEqual
<1> QED
  BY <1>7 DEF n

-----------------------------------------------------------------------------
(* The memory of a sum of many multiples.                                  *)

FrameType == [size : Nat, offset : Nat]

FramesType == Seq(FrameType)

\* The sums over the lowest frames.
SizesSummed(stack, s) ==
  s = [i \in 0 .. Len(stack) |-> IF i = 0 THEN 0 ELSE s[i - 1] + stack[i].size]

(* The sum over the frames of a stack is a number, and the last of its     *)
(* partial sums.                                                           *)
LEMMA AllocatedRuns ==
  ASSUME NEW stack \in FramesType
  PROVE  \E s \in [0 .. Len(stack) -> Nat] :
           SizesSummed(stack, s) /\ AllocatedIn(stack) = s[Len(stack)]
<1> DEFINE last  == Len(stack)
           round == [i \in 0 .. last - 1 |-> [v \in Nat |-> v + stack[i + 1].size]]
<1>0. last \in Nat
  BY DEF FramesType
<1>1. \A i \in 0 .. last - 1 : stack[i + 1].size \in Nat
  <2> TAKE i \in 0 .. last - 1
  <2>1. i + 1 \in 1 .. Len(stack)
    BY <1>0
  <2>2. stack[i + 1] \in FrameType
    BY <2>1, ElementOfSeq, Zenon DEF FramesType
  <2> QED
    BY <2>2 DEF FrameType
<1>2. round \in [0 .. last - 1 -> [Nat -> Nat]]
  BY <1>1
<1> HIDE DEF round
<1>3. PICK p \in [0 .. last -> Nat] : Runs(p, 0, round, 0, last)
  <2>1. 0 \in Int /\ 0 \in Nat /\ last \in Int /\ 0 <= last
    BY <1>0
  <2> HIDE DEF last
  <2> QED
    BY <1>2, <2>1, LoopRuns, Zenon
<1>4. ASSUME NEW i \in 0 .. last
      PROVE  p[i] = IF i = 0 THEN 0 ELSE p[i - 1] + stack[i].size
  <2>1. p[i] = IF i = 0 THEN 0 ELSE round[i - 1][p[i - 1]]
    BY <1>3 DEF Runs
  <2>2. ASSUME i # 0 PROVE round[i - 1][p[i - 1]] = p[i - 1] + stack[i].size
    <3>1. i - 1 \in 0 .. last - 1 /\ p[i - 1] \in Nat /\ (i - 1) + 1 = i
      BY <1>0, <2>2
    <3> QED
      BY <3>1 DEF round
  <2> QED
    BY <2>1, <2>2
<1>5. SizesSummed(stack, p)
  <2>1. p = [i \in 0 .. last |-> IF i = 0 THEN 0 ELSE p[i - 1] + stack[i].size]
    BY <1>4
  <2> QED
    BY <2>1 DEF SizesSummed
<1>6. SizesSummed(stack, CHOOSE v : SizesSummed(stack, v))
  BY <1>5, Zenon
<1>7. AllocatedIn(stack) = (CHOOSE v : SizesSummed(stack, v))[Len(stack)]
  BY DEF AllocatedIn, SizesSummed
<1> DEFINE c == CHOOSE v : SizesSummed(stack, v)
<1> DEFINE Same == {i \in 0 .. last : c[i] = p[i]}
<1>8. 0 .. last \subseteq Same
  <2> HIDE DEF c
  <2>1. 0 \in Same
    BY <1>0, <1>4, <1>6 DEF SizesSummed, c
  <2>2. ASSUME NEW i \in 0 .. last - 1, i \in Same PROVE i + 1 \in Same
    <3>1. i + 1 \in 0 .. last /\ i + 1 # 0 /\ (i + 1) - 1 = i
      BY <1>0
    <3>2. c[i + 1] = c[i] + stack[i + 1].size
      BY <1>6, <3>1 DEF SizesSummed, c
    <3>3. p[i + 1] = p[i] + stack[i + 1].size
      BY <1>4, <3>1
    <3> QED
      BY <2>2, <3>1, <3>2, <3>3
  <2>3. 0 \in Int /\ last \in Int
    BY <1>0
  <2> HIDE DEF Same, last
  <2> QED
    BY <2>1, <2>2, <2>3, RangeInduction
<1>9. last \in 0 .. last
  BY <1>0
<1>10. c[last] = p[last]
  BY <1>8, <1>9
<1> QED
  BY <1>5, <1>7, <1>10

(* Frames of the same sizes have the same partial sums.                    *)
LEMMA SumsAgree ==
  ASSUME NEW low \in FramesType, NEW high \in FramesType, Len(low) <= Len(high),
         \A i \in 1 .. Len(low) : high[i].size = low[i].size,
         NEW s, SizesSummed(low, s), NEW t, SizesSummed(high, t)
  PROVE  t[Len(low)] = s[Len(low)]
<1> DEFINE last == Len(low)
           Same == {i \in 0 .. last : t[i] = s[i]}
<1>0. last \in Nat /\ Len(high) \in Nat
  BY DEF FramesType
<1>1. 0 \in Same
  BY <1>0 DEF SizesSummed
<1>2. ASSUME NEW i \in 0 .. last - 1, i \in Same PROVE i + 1 \in Same
  <2>1. i + 1 \in 1 .. last /\ i + 1 \in 0 .. last /\ i + 1 \in 0 .. Len(high) /\ i + 1 # 0 /\ (i + 1) - 1 = i
    BY <1>0
  <2>2. t[i + 1] = t[i] + high[i + 1].size
    BY <2>1 DEF SizesSummed
  <2>3. s[i + 1] = s[i] + low[i + 1].size
    BY <2>1 DEF SizesSummed
  <2> QED
    BY <1>2, <2>1, <2>2, <2>3
<1>3. 0 .. last \subseteq Same
  <2>1. 0 \in Int /\ last \in Int
    BY <1>0
  <2> HIDE DEF Same, last
  <2> QED
    BY <1>1, <1>2, <2>1, RangeInduction
<1>4. last \in 0 .. last
  BY <1>0
<1> QED
  BY <1>3, <1>4

(* The sum depends on the sizes only.                                      *)
LEMMA AllocatedSame ==
  ASSUME NEW low \in FramesType, NEW high \in FramesType, Len(low) = Len(high),
         \A i \in 1 .. Len(low) : high[i].size = low[i].size
  PROVE  AllocatedIn(high) = AllocatedIn(low)
<1>1. PICK s \in [0 .. Len(low) -> Nat] : SizesSummed(low, s) /\ AllocatedIn(low) = s[Len(low)]
  BY AllocatedRuns
<1>2. PICK t \in [0 .. Len(high) -> Nat] : SizesSummed(high, t) /\ AllocatedIn(high) = t[Len(high)]
  BY AllocatedRuns
<1>3. Len(low) <= Len(high)
  BY DEF FramesType
<1>4. t[Len(low)] = s[Len(low)]
  BY <1>1, <1>2, <1>3, SumsAgree
<1> QED
  BY <1>1, <1>2, <1>4

(* A frame more adds its size.                                             *)
LEMMA AllocatedGrows ==
  ASSUME NEW stack \in FramesType, NEW frame \in FrameType
  PROVE  /\ Append(stack, frame) \in FramesType
         /\ AllocatedIn(stack) \in Nat
         /\ AllocatedIn(Append(stack, frame)) = AllocatedIn(stack) + frame.size
<1> DEFINE high == Append(stack, frame)
<1>1. high \in FramesType /\ Len(high) = Len(stack) + 1 /\ Len(stack) \in Nat
  BY DEF FramesType
<1>2. PICK s \in [0 .. Len(stack) -> Nat] : SizesSummed(stack, s) /\ AllocatedIn(stack) = s[Len(stack)]
  BY AllocatedRuns
<1>3. PICK t \in [0 .. Len(high) -> Nat] : SizesSummed(high, t) /\ AllocatedIn(high) = t[Len(high)]
  BY <1>1, AllocatedRuns
<1>4. \A i \in 1 .. Len(stack) : high[i].size = stack[i].size
  BY DEF FramesType
<1>5. t[Len(stack)] = s[Len(stack)]
  <2>1. Len(stack) <= Len(high)
    BY <1>1
  <2> HIDE DEF high
  <2> QED
    BY <1>1, <1>2, <1>3, <1>4, <2>1, SumsAgree
<1>6. high[Len(high)] = frame
  BY DEF FramesType
<1>7. t[Len(high)] = t[Len(stack)] + frame.size
  <2>1. Len(high) \in 0 .. Len(high) /\ Len(high) # 0 /\ Len(high) - 1 = Len(stack)
    BY <1>1
  <2> HIDE DEF high
  <2> QED
    BY <1>3, <1>6, <2>1 DEF SizesSummed
<1>8. Len(stack) \in 0 .. Len(stack)
  BY <1>1
<1>9. s[Len(stack)] \in Nat
  BY <1>2, <1>8
<1> QED
  BY <1>1, <1>2, <1>3, <1>5, <1>7, <1>9

(* The topmost frame takes its size away with it.                          *)
LEMMA AllocatedShrinks ==
  ASSUME NEW stack \in FramesType, stack # <<>>
  PROVE  LET lower == SubSeq(stack, 1, Len(stack) - 1) IN
         /\ lower \in FramesType /\ Len(lower) = Len(stack) - 1
         /\ stack[Len(stack)] \in FrameType
         /\ AllocatedIn(lower) \in Nat
         /\ AllocatedIn(stack) = AllocatedIn(lower) + stack[Len(stack)].size
<1> DEFINE lower == SubSeq(stack, 1, Len(stack) - 1)
           top   == stack[Len(stack)]
<1>1. stack \in Seq(FrameType) /\ Len(stack) \in Nat /\ Len(stack) >= 1
  BY DEF FramesType
<1>2. /\ lower \in Seq(FrameType) /\ Len(lower) = Len(stack) - 1 /\ top \in FrameType
      /\ \A i \in 1 .. Len(lower) : lower[i] = stack[i]
  <2>1. 1 \in 1 .. Len(stack) + 1 /\ Len(stack) - 1 \in 1 - 1 .. Len(stack) /\ Len(stack) \in 1 .. Len(stack)
    BY <1>1
  <2>2. /\ lower \in Seq(FrameType) /\ Len(lower) = (Len(stack) - 1) - 1 + 1
        /\ \A i \in 1 .. (Len(stack) - 1) - 1 + 1 : lower[i] = stack[1 + i - 1]
    BY <1>1, <2>1, PartOf
  <2>3. (Len(stack) - 1) - 1 + 1 = Len(stack) - 1 /\ \A i \in 1 .. Len(stack) - 1 : 1 + i - 1 = i
    BY <1>1
  <2>4. top \in FrameType
    BY <1>1, <2>1, ElementOfSeq
  <2> HIDE DEF lower, top
  <2> QED
    BY <2>2, <2>3, <2>4
<1>3. stack = Append(lower, top)
  <2>2. /\ Append(lower, top) \in Seq(FrameType) /\ Len(Append(lower, top)) = Len(stack)
        /\ \A i \in 1 .. Len(lower) : Append(lower, top)[i] = lower[i]
        /\ Append(lower, top)[Len(lower) + 1] = top
    <3> HIDE DEF lower, top
    <3> QED
      BY <1>1, <1>2, AppendProperties
  <2>3. \A i \in 1 .. Len(stack) : stack[i] = Append(lower, top)[i]
    <3>1. \A i \in 1 .. Len(stack) : i \in 1 .. Len(lower) \/ i = Len(lower) + 1
      BY <1>1, <1>2
    <3>2. Len(lower) + 1 = Len(stack)
      BY <1>1, <1>2
    <3> QED
      BY <1>2, <2>2, <3>1, <3>2
  <2> HIDE DEF lower, top
  <2> QED
    BY <1>1, <2>2, <2>3, SeqEqual
<1> HIDE DEF lower, top
<1>4. lower \in FramesType /\ top \in FrameType
  BY <1>2 DEF FramesType
<1>5. AllocatedIn(lower) \in Nat /\ AllocatedIn(Append(lower, top)) = AllocatedIn(lower) + top.size
  BY <1>4, AllocatedGrows
<1> QED
  BY <1>2, <1>3, <1>4, <1>5 DEF lower, top
-----------------------------------------------------------------------------
(* Sizes.                                                                  *)

(* The quotient that is rounded up.                                        *)
LEMMA CeilingIs ==
  ASSUME NEW n \in Nat, NEW d \in Nat \ {0}
  PROVE  /\ Ceiling(n, d) \in Nat
         /\ n <= d * Ceiling(n, d) /\ d * Ceiling(n, d) <= n + d - 1
<1> DEFINE c == Ceiling(n, d)
<1>1. n + d - 1 \in Nat /\ d > 0
  OBVIOUS
<1>2. (n + d - 1) \div d \in Nat /\ (n + d - 1) % d \in 0 .. d - 1
      /\ n + d - 1 = d * ((n + d - 1) \div d) + ((n + d - 1) % d)
  BY <1>1
<1> QED
  BY <1>2 DEF Ceiling

(* Batches of at most max elements: none is empty, and the last one ends   *)
(* where the elements end.                                                 *)
LEMMA BatchesFill ==
  ASSUME NEW n \in Nat \ {0}, NEW max \in Nat \ {0}
  PROVE  LET b == Ceiling(n, max)
             c == Ceiling(n, b)
         IN b \in Nat \ {0} /\ c \in 1 .. max /\ (b - 1) * c < n /\ n <= b * c
<1> DEFINE b == Ceiling(n, max)
           c == Ceiling(n, b)
<1>1. b \in Nat /\ n <= max * b /\ max * b <= n + max - 1
  BY CeilingIs
<1>2. b # 0
  BY <1>1
<1>3. c \in Nat /\ n <= b * c /\ b * c <= n + b - 1
  BY <1>1, <1>2, CeilingIs
<1>4. c # 0
  BY <1>1, <1>3
<1> HIDE DEF b, c
<1>5. c <= max
  <2>1. SUFFICES ASSUME c >= max + 1 PROVE FALSE
    BY <1>3
  <2>2. b * c >= b * (max + 1)
    BY <1>1, <1>3, <2>1
  <2>3. b * (max + 1) = max * b + b
    BY <1>1
  <2> QED
    BY <1>1, <1>3, <2>2, <2>3
<1>6. (b - 1) * c < n
  <2>1. (b - 1) * c <= (b - 1) * max
    BY <1>1, <1>2, <1>3, <1>5
  <2>2. (b - 1) * max = max * b - max
    BY <1>1
  <2> QED
    BY <1>1, <1>2, <1>3, <2>1, <2>2
<1> QED
  BY <1>1, <1>2, <1>3, <1>4, <1>5, <1>6 DEF b, c

(* The least of some numbers is one of them.                               *)
LEMMA MinIsLeast ==
  ASSUME NEW S, S \subseteq Nat, S # {}
  PROVE  Min(S) \in S /\ \A x \in S : Min(S) <= x
<1>1. \E m \in S : \A x \in S : m <= x
  BY LeastNatural
<1> QED
  BY <1>1 DEF Min

(* The greatest of some numbers below a limit is one of them.              *)
LEMMA MaxIsGreatest ==
  ASSUME NEW S, NEW limit \in Nat, S \subseteq 0 .. limit, S # {}
  PROVE  Max(S) \in S /\ \A x \in S : x <= Max(S)
<1> DEFINE Gaps == {limit - x : x \in S}
<1>1. Gaps \subseteq Nat /\ Gaps # {}
  OBVIOUS
<1>2. PICK g \in Gaps : \A h \in Gaps : g <= h
  BY <1>1, LeastNatural
<1>3. PICK m \in S : g = limit - m
  BY <1>2
<1>4. \A x \in S : x <= m
  BY <1>2, <1>3
<1>5. \E k \in S : \A x \in S : x <= k
  BY <1>4
<1> QED
  BY <1>5 DEF Max

(* There are so many buckets.                                              *)
LEMMA PowersAreNat == \A w \in 1 .. 12 : 2 ^ w \in Nat
<1>1. /\ 2 ^ 1 \in Nat /\ 2 ^ 2 \in Nat /\ 2 ^ 3 \in Nat /\ 2 ^ 4 \in Nat /\ 2 ^ 5 \in Nat /\ 2 ^ 6 \in Nat
      /\ 2 ^ 7 \in Nat /\ 2 ^ 8 \in Nat /\ 2 ^ 9 \in Nat /\ 2 ^ 10 \in Nat /\ 2 ^ 11 \in Nat /\ 2 ^ 12 \in Nat
  BY SMT
<1>2. \A w \in 1 .. 12 : w \in {1, 2, 3, 4, 5, 6, 7, 8, 9, 10, 11, 12}
  OBVIOUS
<1> QED
  BY <1>1, <1>2, Zenon

(* What a point needs, with any window.                                    *)
LEMMA EntrySizeIs ==
  ASSUME NEW w \in 1 .. 12
  PROVE  /\ EntrySize(w) = 140 + 4 * WNAF_SIZE(w + 1)
         /\ WNAF_SIZE(w + 1) \in Nat /\ EntrySize(w) \in Nat \ {0}
         /\ 2 ^ w \in Nat
<1>1. WNAF_SIZE(w + 1) \in Nat
  <2>1. 256 \in Nat /\ w + 1 \in Nat \ {0}
    OBVIOUS
  <2> QED
    BY <2>1, CeilingIs DEF WNAF_SIZE
<1>2. EntrySize(w) = 140 + 4 * WNAF_SIZE(w + 1)
  BY <1>1 DEF EntrySize, SizeOf
<1>3. 2 ^ w \in Nat
  BY PowersAreNat
<1> QED
  BY <1>1, <1>2, <1>3

(* What a point needs of the simpler algorithm.                            *)
LEMMA StraussSizeIs ==
  ASSUME NEW n \in Nat
  PROVE  strauss_scratch_size(n) = n * 3248
BY DEF strauss_scratch_size, SizeOf, TABLE_SIZE_A

(* The windows and the numbers of points for which each is the best one.   *)
LEMMA OptimalIs ==
  /\ DOMAIN Optimal = 1 .. 11 /\ SIZE_MAX \in Nat
  /\ \A w \in 1 .. 12 : pippenger_bucket_window_inv(w) \in 1 .. SIZE_MAX
<1>0. DOMAIN Optimal = 1 .. 11
  BY SMT DEF Optimal
<1>1. \A w \in 1 .. 11 : Optimal[w] \in 1 .. SIZE_MAX
  <2>1. \A w \in 1 .. 11 : Optimal[w] \in Nat /\ 1 <= Optimal[w] /\ Optimal[w] <= 40000
    BY SMT DEF Optimal
  <2>2. 40000 <= SIZE_MAX /\ SIZE_MAX \in Nat
    BY SMT DEF SIZE_MAX
  <2> QED
    BY <2>1, <2>2, SMT
<1>2. SIZE_MAX \in Nat \ {0}
  BY SMT DEF SIZE_MAX
<1>3. ASSUME NEW w \in 1 .. 12 PROVE pippenger_bucket_window_inv(w) \in 1 .. SIZE_MAX
  <2>1. CASE w \in 1 .. 11
    BY <1>0, <1>1, <2>1 DEF pippenger_bucket_window_inv
  <2>2. CASE w = 12
    <3>1. w \notin DOMAIN Optimal
      BY <1>0, <2>2
    <3> QED
      BY <1>2, <3>1 DEF pippenger_bucket_window_inv
  <2> QED
    BY <2>1, <2>2
<1> QED
  BY <1>0, <1>2, <1>3

(* The window for n points is the first one that is the best for as many.  *)
LEMMA WindowIs ==
  ASSUME NEW n \in Nat
  PROVE  /\ pippenger_bucket_window(n) \in 1 .. 12
         /\ pippenger_bucket_window(n) # 12 =>
              n <= pippenger_bucket_window_inv(pippenger_bucket_window(n))
         /\ \A w \in 1 .. 12 : n <= pippenger_bucket_window_inv(w) => pippenger_bucket_window(n) <= w
<1> DEFINE S == {w \in DOMAIN Optimal : n <= Optimal[w]} \cup {PIPPENGER_MAX_BUCKET_WINDOW}
<1>1. S \subseteq 1 .. 12 /\ 12 \in S /\ S \subseteq Nat /\ S # {}
  BY OptimalIs DEF PIPPENGER_MAX_BUCKET_WINDOW
<1>2. \A w \in 1 .. 11 : w \in S <=> n <= pippenger_bucket_window_inv(w)
  BY OptimalIs DEF PIPPENGER_MAX_BUCKET_WINDOW, pippenger_bucket_window_inv
<1>3. pippenger_bucket_window(n) = Min(S)
  BY DEF pippenger_bucket_window
<1> HIDE DEF S
<1>4. Min(S) \in S /\ \A w \in S : Min(S) <= w
  BY <1>1, MinIsLeast
<1> DEFINE m == Min(S)
<1> HIDE DEF m
<1>5. m \in S /\ (\A w \in S : m <= w) /\ m \in 1 .. 12
  BY <1>1, <1>4 DEF m
<1>6. m # 12 => n <= pippenger_bucket_window_inv(m)
  BY <1>2, <1>5
<1>7. \A w \in 1 .. 12 : n <= pippenger_bucket_window_inv(w) => m <= w
  <2> TAKE w \in 1 .. 12
  <2>1. CASE w = 12
    BY <1>5, <2>1
  <2>2. CASE w \in 1 .. 11
    BY <1>2, <1>5, <2>2
  <2> QED
    BY <2>1, <2>2
<1> QED
  BY <1>3, <1>5, <1>6, <1>7 DEF m

(* What a window takes fits, and is no more than what it is the best for.  *)
LEMMA PointsFit ==
  ASSUME max_allocation(OBJECTS) \in Nat, NEW w \in Windows
  PROVE  /\ w \in 1 .. 12
         /\ n_points(w) \in 0 .. SIZE_MAX
         /\ n_points(w) <= pippenger_bucket_window_inv(w)
         /\ \A n \in 0 .. n_points(w) : pippenger_scratch_size(n, w) <= max_allocation(OBJECTS)
<1>1. w \in 1 .. 12 /\ space_for_points(w) >= 0
  BY DEF Windows, PIPPENGER_MAX_BUCKET_WINDOW
<1>2. EntrySize(w) \in Nat \ {0} /\ 2 ^ w \in Nat
  BY <1>1, EntrySizeIs
<1> DEFINE e == EntrySize(w)
           room == space_for_points(w)
           m == max_allocation(OBJECTS)
           o == 2 ^ w * SizeOf.gej
<1>3. o \in Nat /\ SizeOf.pippenger_state = 16
  BY <1>2 DEF SizeOf
<1>4. room = m - (o + e + SizeOf.pippenger_state)
  BY DEF space_for_points
<1>5. \A n \in Nat : pippenger_scratch_size(n, w) = o + SizeOf.pippenger_state + (n + 1) * e
  BY DEF pippenger_scratch_size
<1>6. pippenger_bucket_window_inv(w) \in 1 .. SIZE_MAX /\ SIZE_MAX \in Nat
  BY <1>1, OptimalIs
<1>7. n_points(w) = Min({room \div e, pippenger_bucket_window_inv(w)})
  BY DEF n_points
<1> HIDE DEF e, room, m, o
<1>8. e \in Nat /\ e > 0 /\ m \in Nat
  BY <1>2 DEF e, m
<1>9. room \in Nat
  BY <1>1, <1>3, <1>4, <1>8 DEF room
<1>10. room \div e \in Nat /\ e * (room \div e) <= room
  <2>1. room \div e \in Nat /\ room % e \in 0 .. e - 1 /\ room = e * (room \div e) + (room % e)
    BY <1>8, <1>9
  <2> QED
    BY <1>8, <1>9, <2>1
<1> DEFINE q == room \div e
           i == pippenger_bucket_window_inv(w)
<1> HIDE DEF q, i
<1>11. q \in Nat /\ e * q <= room /\ i \in 1 .. SIZE_MAX /\ n_points(w) = Min({q, i})
  BY <1>6, <1>7, <1>10 DEF q, i
<1>12. {q, i} \subseteq Nat /\ {q, i} # {}
  BY <1>6, <1>11
<1>13. Min({q, i}) \in {q, i} /\ Min({q, i}) <= q /\ Min({q, i}) <= i
  BY <1>12, MinIsLeast
<1>14. n_points(w) \in Nat /\ n_points(w) <= q /\ n_points(w) <= i
  BY <1>11, <1>12, <1>13
<1>15. ASSUME NEW n \in 0 .. n_points(w)
       PROVE  pippenger_scratch_size(n, w) <= m
  <2>1. n \in Nat /\ n <= q
    BY <1>11, <1>14
  <2>2. n * e <= e * q
    BY <1>8, <1>11, <2>1
  <2>3. (n + 1) * e = n * e + e
    BY <1>8, <2>1
  <2>4. n * e \in Nat /\ e * q \in Nat
    BY <1>8, <1>11, <2>1
  <2>5. o + SizeOf.pippenger_state + (n + 1) * e <= m
    BY <1>3, <1>4, <1>8, <1>9, <1>11, <2>2, <2>3, <2>4
  <2> QED
    BY <1>5, <2>1, <2>5
<1> QED
  BY <1>1, <1>6, <1>11, <1>14, <1>15 DEF i, m

(* Every number of points up to the one that pippenger_max_points returns  *)
(* has room, under the window that is the best one for it.                 *)
LEMMA PippengerFits ==
  ASSUME max_allocation(OBJECTS) \in Nat
  PROVE  /\ pippenger_max_points \in Nat
         /\ \A n \in 1 .. pippenger_max_points :
              FrameSize("pippenger", n) <= max_allocation(OBJECTS)
<1> DEFINE Usable == {v \in Windows : Tried(v)}
           S == {0} \cup {n_points(w) : w \in Usable}
<1>1. \A w \in Usable : n_points(w) \in 0 .. SIZE_MAX
  BY PointsFit
<1>2. S \subseteq 0 .. SIZE_MAX /\ S # {} /\ SIZE_MAX \in Nat
  BY <1>1, OptimalIs
<1>3. Max(S) \in S
  <2> HIDE DEF S
  <2> QED
    BY <1>2, MaxIsGreatest
<1>4. pippenger_max_points = Max(S)
  BY DEF pippenger_max_points
<1>5. pippenger_max_points \in Nat
  BY <1>2, <1>3, <1>4
<1>6. ASSUME NEW n \in 1 .. pippenger_max_points
      PROVE  FrameSize("pippenger", n) <= max_allocation(OBJECTS)
  <2>1. PICK w \in Usable : pippenger_max_points = n_points(w)
    <3>1. pippenger_max_points # 0
      BY <1>5
    <3>2. pippenger_max_points \in S
      BY <1>3, <1>4, Zenon
    <3> HIDE DEF Usable
    <3> QED
      BY <3>1, <3>2, Zenon
  <2>2. w \in Windows /\ Tried(w)
    OBVIOUS
  <2> HIDE DEF Usable, S
  <2>3. /\ w \in 1 .. 12 /\ n_points(w) \in 0 .. SIZE_MAX
        /\ n_points(w) <= pippenger_bucket_window_inv(w)
        /\ \A k \in 0 .. n_points(w) : pippenger_scratch_size(k, w) <= max_allocation(OBJECTS)
    BY <2>2, PointsFit
  <2> DEFINE v == pippenger_bucket_window(n)
  <2>4. n \in Nat /\ n \in 0 .. n_points(w)
    BY <1>5, <2>1
  <2>5. pippenger_bucket_window_inv(w) \in Nat
    BY <2>3, OptimalIs
  <2>6. n <= pippenger_bucket_window_inv(w)
    BY <2>1, <2>3, <2>4, <2>5
  <2>7. v \in 1 .. w /\ (v # 12 => n <= pippenger_bucket_window_inv(v))
    BY <2>3, <2>4, <2>6, WindowIs
  <2> HIDE DEF v
  <2>8. FrameSize("pippenger", n) = pippenger_scratch_size(n, v)
    BY DEF FrameSize, v
  <2>9. CASE v = w
    BY <2>3, <2>4, <2>8, <2>9
  <2>10. CASE v # w
    <3>1. v \in 1 .. w - 1 /\ v # 12
      BY <2>3, <2>7, <2>10
    <3>2. v \in Windows /\ n_points(v) = pippenger_bucket_window_inv(v)
      BY <2>2, <3>1 DEF Tried
    <3>3. n_points(v) \in 0 .. SIZE_MAX
          /\ \A k \in 0 .. n_points(v) : pippenger_scratch_size(k, v) <= max_allocation(OBJECTS)
      BY <3>2, PointsFit
    <3>4. n \in 0 .. n_points(v)
      BY <2>4, <2>7, <3>1, <3>2, <3>3
    <3> QED
      BY <2>8, <3>3, <3>4
  <2> QED
    BY <2>9, <2>10
<1> QED
  BY <1>5, <1>6

(* So has every number up to strauss_max_points.                           *)
LEMMA StraussFits ==
  ASSUME max_allocation(OBJECTS) \in Nat
  PROVE  /\ strauss_max_points \in Nat
         /\ \A n \in 1 .. strauss_max_points :
              FrameSize("strauss", n) <= max_allocation(OBJECTS)
<1> DEFINE m == max_allocation(OBJECTS)
<1>1. strauss_max_points = m \div 3248
  BY StraussSizeIs DEF strauss_max_points
<1> HIDE DEF m
<1>2. m \in Nat /\ m \div 3248 \in Nat /\ 3248 * (m \div 3248) <= m
  BY DEF m
<1>3. ASSUME NEW n \in 1 .. m \div 3248 PROVE FrameSize("strauss", n) <= m
  <2>1. n \in Nat /\ n <= m \div 3248
    BY <1>2
  <2>2. FrameSize("strauss", n) = n * 3248
    BY <2>1, StraussSizeIs DEF FrameSize
  <2> QED
    BY <1>2, <2>1, <2>2
<1> QED
  BY <1>1, <1>2, <1>3 DEF m

-----------------------------------------------------------------------------
(* Objects.                                                                *)

\* What the first k of six objects take.
Taken(objects, k) ==
  LET size(j) == IF j <= k THEN ROUND_TO_ALIGN(objects[j]) ELSE 0
  IN size(1) + size(2) + size(3) + size(4) + size(5) + size(6)

(* What is rounded up grows by less than the alignment.                    *)
LEMMA RoundedIs ==
  ASSUME NEW size \in Nat
  PROVE  ROUND_TO_ALIGN(size) \in Nat /\ ROUND_TO_ALIGN(size) <= size + 15
<1>1. 16 \in Nat \ {0}
  OBVIOUS
<1>2. Ceiling(size, 16) \in Nat /\ 16 * Ceiling(size, 16) <= size + 16 - 1
  BY <1>1, CeilingIs
<1> QED
  BY <1>2 DEF ROUND_TO_ALIGN, ALIGNMENT

(* Each object takes its own size, and all together take what six do.      *)
LEMMA TakenGrows ==
  ASSUME NEW objects, \A j \in 1 .. 6 : objects[j] \in Nat
  PROVE  /\ Taken(objects, 0) = 0
         /\ \A k \in 0 .. 6 : Taken(objects, k) \in Nat
         /\ \A k \in 0 .. 5 : Taken(objects, k + 1) = Taken(objects, k) + ROUND_TO_ALIGN(objects[k + 1])
         /\ \A k \in 0 .. 6 : Taken(objects, k) <= Taken(objects, 6)
         /\ Taken(objects, 6) <=
              objects[1] + objects[2] + objects[3] + objects[4] + objects[5] + objects[6] + 90
<1> DEFINE r(j) == ROUND_TO_ALIGN(objects[j])
<1>1. \A j \in 1 .. 6 : r(j) \in Nat /\ r(j) <= objects[j] + 15
  BY RoundedIs
<1>2. \A k \in 0 .. 6 : Taken(objects, k) =
        (IF 1 <= k THEN r(1) ELSE 0) + (IF 2 <= k THEN r(2) ELSE 0) + (IF 3 <= k THEN r(3) ELSE 0)
        + (IF 4 <= k THEN r(4) ELSE 0) + (IF 5 <= k THEN r(5) ELSE 0) + (IF 6 <= k THEN r(6) ELSE 0)
  BY DEF Taken
<1> HIDE DEF r
<1>3. /\ r(1) \in Nat /\ r(2) \in Nat /\ r(3) \in Nat /\ r(4) \in Nat /\ r(5) \in Nat /\ r(6) \in Nat
  BY <1>1
<1>4. /\ Taken(objects, 0) = 0
      /\ Taken(objects, 1) = r(1)
      /\ Taken(objects, 2) = r(1) + r(2)
      /\ Taken(objects, 3) = r(1) + r(2) + r(3)
      /\ Taken(objects, 4) = r(1) + r(2) + r(3) + r(4)
      /\ Taken(objects, 5) = r(1) + r(2) + r(3) + r(4) + r(5)
      /\ Taken(objects, 6) = r(1) + r(2) + r(3) + r(4) + r(5) + r(6)
  BY <1>2, <1>3
<1>5. \A k \in 0 .. 6 : k = 0 \/ k = 1 \/ k = 2 \/ k = 3 \/ k = 4 \/ k = 5 \/ k = 6
  OBVIOUS
<1>6. \A k \in 0 .. 6 : Taken(objects, k) \in Nat /\ Taken(objects, k) <= Taken(objects, 6)
  <2> TAKE k \in 0 .. 6
  <2> QED
    BY <1>3, <1>4, <1>5
<1>7. \A k \in 0 .. 5 : Taken(objects, k + 1) = Taken(objects, k) + r(k + 1)
  <2> TAKE k \in 0 .. 5
  <2>1. k = 0 \/ k = 1 \/ k = 2 \/ k = 3 \/ k = 4 \/ k = 5
    OBVIOUS
  <2> QED
    BY <1>3, <1>4, <2>1
<1>8. Taken(objects, 6) <=
        objects[1] + objects[2] + objects[3] + objects[4] + objects[5] + objects[6] + 90
  <2>1. /\ r(1) <= objects[1] + 15 /\ r(2) <= objects[2] + 15 /\ r(3) <= objects[3] + 15
        /\ r(4) <= objects[4] + 15 /\ r(5) <= objects[5] + 15 /\ r(6) <= objects[6] + 15
    BY <1>1
  <2>2. /\ objects[1] \in Nat /\ objects[2] \in Nat /\ objects[3] \in Nat
        /\ objects[4] \in Nat /\ objects[5] \in Nat /\ objects[6] \in Nat
    OBVIOUS
  <2> QED
    BY <1>3, <1>4, <2>1, <2>2
<1> QED
  BY <1>4, <1>6, <1>7, <1>8 DEF r

(* Six sizes are a sequence.                                               *)
LEMMA SixSizes ==
  ASSUME NEW a \in Nat, NEW b \in Nat, NEW c \in Nat, NEW d \in Nat, NEW e \in Nat, NEW g \in Nat
  PROVE  <<a, b, c, d, e, g>> \in Seq(Nat) /\ Len(<<a, b, c, d, e, g>>) = 6
BY SMT

(* The objects of a batch fit in its frame.                                *)
LEMMA ObjectsFit ==
  ASSUME NEW f \in {"strauss", "pippenger"}, NEW n \in Nat
  PROVE  /\ Objects(f, n) \in Seq(Nat) /\ Len(Objects(f, n)) = 6
         /\ FrameSize(f, n) \in Nat
         /\ Taken(Objects(f, n), 6) <= FrameSize(f, n) + OBJECTS * ALIGNMENT
<1> DEFINE o == Objects(f, n)
<1>1. CASE f = "strauss"
  <2>1. o = <<n * 128, n * 32, n * 8 * 128, n * 8 * 40, n * 8 * 88, n * 1040>>
    BY <1>1 DEF Objects, SizeOf, TABLE_SIZE_A
  <2> HIDE DEF o
  <2>2. o \in Seq(Nat) /\ Len(o) = 6
    <3>1. /\ n * 128 \in Nat /\ n * 32 \in Nat /\ n * 8 * 128 \in Nat
          /\ n * 8 * 40 \in Nat /\ n * 8 * 88 \in Nat /\ n * 1040 \in Nat
      OBVIOUS
    <3> QED
      BY <2>1, <3>1, SixSizes
  <2>3. \A j \in 1 .. 6 : o[j] \in Nat
    BY <2>2, ElementOfSeq
  <2>4. Taken(o, 6) <= o[1] + o[2] + o[3] + o[4] + o[5] + o[6] + 90
    BY <2>3, TakenGrows
  <2>5. o[1] + o[2] + o[3] + o[4] + o[5] + o[6] = n * 3248
    BY <2>1
  <2>6. FrameSize(f, n) = n * 3248
    BY <1>1, StraussSizeIs DEF FrameSize
  <2>7. Taken(o, 6) \in Nat
    BY <2>3, TakenGrows
  <2> QED
    BY <2>2, <2>4, <2>5, <2>6, <2>7 DEF o, OBJECTS, ALIGNMENT
<1>2. CASE f = "pippenger"
  <2> DEFINE w == pippenger_bucket_window(n)
             z == WNAF_SIZE(w + 1)
             b == 2 ^ w
  <2>1. w \in 1 .. 12
    BY WindowIs
  <2>2. EntrySize(w) = 140 + 4 * z /\ z \in Nat /\ b \in Nat
    BY <2>1, EntrySizeIs
  <2>3. o = <<(n + 1) * 88, (n + 1) * 32, 16, (n + 1) * 16, (n + 1) * z * 4, b * 128>>
    BY <1>2 DEF Objects, SizeOf
  <2>4. FrameSize(f, n) = b * 128 + 16 + (n + 1) * (140 + 4 * z)
    BY <1>2, <2>2 DEF FrameSize, pippenger_scratch_size, SizeOf
  <2> HIDE DEF o, w, z, b
  <2>5. (n + 1) * z * 4 \in Nat /\ b * 128 \in Nat
    BY <2>2
  <2>6. o \in Seq(Nat) /\ Len(o) = 6
    <3>1. (n + 1) * 88 \in Nat /\ (n + 1) * 32 \in Nat /\ 16 \in Nat /\ (n + 1) * 16 \in Nat
      OBVIOUS
    <3> QED
      BY <2>3, <2>5, <3>1, SixSizes
  <2>7. \A j \in 1 .. 6 : o[j] \in Nat
    BY <2>6, ElementOfSeq
  <2>8. Taken(o, 6) \in Nat /\ Taken(o, 6) <= o[1] + o[2] + o[3] + o[4] + o[5] + o[6] + 90
    BY <2>7, TakenGrows
  <2>9. o[1] + o[2] + o[3] + o[4] + o[5] + o[6] =
          (n + 1) * 88 + (n + 1) * 32 + 16 + (n + 1) * 16 + (n + 1) * z * 4 + b * 128
    BY <2>3
  <2>10. (n + 1) * (140 + 4 * z) = (n + 1) * 140 + (n + 1) * z * 4
    BY <2>2
  <2>11. FrameSize(f, n) \in Nat
    BY <2>2, <2>4, <2>5, <2>10
  <2>12. Taken(o, 6) <= FrameSize(f, n) + 96
    BY <2>4, <2>5, <2>8, <2>9, <2>10, <2>11
  <2> QED
    BY <2>6, <2>11, <2>12 DEF o, OBJECTS, ALIGNMENT
<1> QED
  BY <1>1, <1>2

(* The frame of a batch is not empty.                                      *)
LEMMA FrameIsLarge ==
  ASSUME NEW f \in {"strauss", "pippenger"}, NEW n \in Nat \ {0}
  PROVE  FrameSize(f, n) \in Nat \ {0}
<1>1. FrameSize(f, n) \in Nat
  BY ObjectsFit
<1>2. CASE f = "strauss"
  <2>1. FrameSize(f, n) = n * 3248
    BY <1>2, StraussSizeIs DEF FrameSize
  <2> QED
    BY <1>1, <2>1
<1>3. CASE f = "pippenger"
  <2> DEFINE w == pippenger_bucket_window(n)
  <2>1. EntrySize(w) \in Nat /\ 2 ^ w \in Nat
    BY WindowIs, EntrySizeIs
  <2>2. FrameSize(f, n) = 2 ^ w * 128 + 16 + (n + 1) * EntrySize(w)
    BY <1>3 DEF FrameSize, pippenger_scratch_size, SizeOf
  <2>3. 2 ^ w * 128 \in Nat /\ (n + 1) * EntrySize(w) \in Nat
    BY <2>1
  <2> HIDE DEF w
  <2> QED
    BY <1>1, <2>2, <2>3
<1> QED
  BY <1>2, <1>3

-----------------------------------------------------------------------------
(* The invariant.                                                          *)

\* Calls that decided on no batches, or are over.
NoBatches == [phase : {"idle", "no room", "callback failed"}, own : Nat]

\* Calls that decided on batches.
InBatches ==
  [phase : {"batch", "objects"}, own : Nat, f : {"strauss", "pippenger"}, all : Nat \ {0},
   left : Nat, i : Nat, objects : Seq(Nat), n_batches : Nat \ {0}, n_batch_points : Nat \ {0}]

\* Room above a stack for the frame of every batch that may come.
HasRoomAbove(stack) ==
  \A n \in 1 .. call.n_batch_points :
    FrameSize(call.f, n) + OBJECTS * ALIGNMENT <= max_size - AllocatedIn(stack)

\* The points of the batches that are over, and of those that are left.
PointsCounted ==
  /\ (call.n_batches - 1) * call.n_batch_points < call.all
  /\ call.all <= call.n_batches * call.n_batch_points
  /\ call.i <= call.n_batches
  /\ call.i < call.n_batches => call.left > 0 /\ call.i * call.n_batch_points = call.all - call.left
  /\ call.i = call.n_batches => call.left = 0

\* Some objects of the batch are allocated, in a frame that has room for all.
ObjectsTaken ==
  /\ TopFrame.size = FrameSize(call.f, nbp) + OBJECTS * ALIGNMENT
  /\ \E k \in 0 .. 6 :
       /\ call.objects = SubSeq(Objects(call.f, nbp), k + 1, 6)
       /\ TopFrame.offset = Taken(Objects(call.f, nbp), k)

BetweenBatches ==
  call \in InBatches /\ call.phase = "batch" /\ Len(frames) = call.own
  /\ PointsCounted /\ HasRoomAbove(frames)

InsideBatch ==
  /\ call \in InBatches /\ call.phase = "objects" /\ Len(frames) = call.own + 1
  /\ call.i < call.n_batches
  /\ PointsCounted /\ HasRoomAbove(deallocate_frame) /\ ObjectsTaken

MemoryInv ==
  /\ max_size \in Nat /\ frames \in FramesType /\ AllocatedIn(frames) <= max_size
  /\ \/ call \in NoBatches /\ Len(frames) = call.own
     \/ BetweenBatches
     \/ InsideBatch

-----------------------------------------------------------------------------
(* The steps.                                                              *)

(* A caller has some frames of its own, and can have others.               *)
LEMMA OwnChanges ==
  ASSUME NEW c \in NoBatches
  PROVE  /\ c.own \in Nat
         /\ \A k \in Nat : [c EXCEPT !.own = k] \in NoBatches /\ [c EXCEPT !.own = k].own = k
BY DEF NoBatches

(* What is allocated is a number, and so is what can be.                   *)
LEMMA AllocationIs ==
  ASSUME max_size \in Nat, frames \in FramesType, AllocatedIn(frames) <= max_size
  PROVE  /\ AllocatedIn(frames) \in Nat
         /\ max_allocation(OBJECTS) \in Nat
         /\ \A n \in Nat \ {0} : n <= max_allocation(OBJECTS)
              => n + OBJECTS * ALIGNMENT <= max_size - AllocatedIn(frames)
         /\ \A n \in Nat : n + OBJECTS * ALIGNMENT <= max_size - AllocatedIn(frames)
              => n <= max_allocation(OBJECTS)
         /\ \A n \in Nat \ {0} : Fits(n, 1) => n + ALIGNMENT <= max_size - AllocatedIn(frames)
<1> DEFINE used == AllocatedIn(frames)
<1>1. used \in Nat
  <2>1. PICK s \in [0 .. Len(frames) -> Nat] : used = s[Len(frames)]
    BY AllocatedRuns
  <2>2. Len(frames) \in 0 .. Len(frames)
    BY DEF FramesType
  <2> QED
    BY <2>1, <2>2
<1>2. max_allocation(OBJECTS) = IF max_size - used <= 96 THEN 0 ELSE max_size - used - 96
  BY DEF max_allocation, Allocated, OBJECTS, ALIGNMENT
<1>3. \A n : Fits(n, 1) <=> n <= IF max_size - used <= 16 THEN 0 ELSE max_size - used - 16
  BY DEF Fits, max_allocation, Allocated, ALIGNMENT
<1> HIDE DEF used
<1>4. \A n \in Nat \ {0} : Fits(n, 1) => n + 16 <= max_size - used
  BY <1>1, <1>3
<1>5. /\ max_allocation(OBJECTS) \in Nat
      /\ \A n \in Nat \ {0} : n <= max_allocation(OBJECTS) => n + 96 <= max_size - used
      /\ \A n \in Nat : n + 96 <= max_size - used => n <= max_allocation(OBJECTS)
  BY <1>1, <1>2
<1> QED
  BY <1>1, <1>4, <1>5 DEF used, OBJECTS, ALIGNMENT

(* A scratch space without frames, and no call.                            *)
LEMMA MemoryBegins == MemoryInit => MemoryInv
<1> SUFFICES ASSUME MemoryInit PROVE MemoryInv
  OBVIOUS
<1>1. frames \in FramesType /\ Len(frames) = 0
  BY DEF MemoryInit, FramesType
<1>2. AllocatedIn(frames) = 0
  <2>1. PICK s \in [0 .. Len(frames) -> Nat] : SizesSummed(frames, s) /\ AllocatedIn(frames) = s[Len(frames)]
    BY <1>1, AllocatedRuns
  <2> QED
    BY <1>1, <2>1 DEF SizesSummed
<1>3. max_size \in Nat /\ call \in NoBatches /\ call.own = 0
  BY SizesAssumption DEF MemoryInit, NoBatches
<1> QED
  BY <1>1, <1>2, <1>3 DEF MemoryInv

(* A frame of the caller is allocated within the limit.                    *)
LEMMA TakeFrameKeeps ==
  ASSUME MemoryInv, TakeFrame
  PROVE  MemoryInv'
<1>1. max_size \in Nat /\ frames \in FramesType /\ AllocatedIn(frames) <= max_size
  BY DEF MemoryInv
<1>2. call \in NoBatches /\ call.phase = "idle" /\ Len(frames) = call.own
  BY DEF MemoryInv, TakeFrame, BetweenBatches, InsideBatch
<1>3. PICK n \in OwnFrames : Fits(n, 1) /\ frames' = allocate_frame(n, 1)
  BY DEF TakeFrame
<1>4. n \in Nat \ {0}
  BY SizesAssumption
<1>5. n + 16 <= max_size - AllocatedIn(frames) /\ AllocatedIn(frames) \in Nat
  BY <1>1, <1>3, <1>4, AllocationIs DEF ALIGNMENT
<1> DEFINE frame == [size |-> n + 16, offset |-> 0]
<1>6. frame \in FrameType /\ frame.size = n + 16
  BY <1>4 DEF FrameType
<1>7. frames' = Append(frames, frame)
  BY <1>3 DEF allocate_frame, ALIGNMENT
<1> HIDE DEF frame
<1>8. frames' \in FramesType /\ AllocatedIn(frames') = AllocatedIn(frames) + frame.size
  BY <1>1, <1>6, <1>7, AllocatedGrows
<1>9. Len(frames') = Len(frames) + 1
  BY <1>1, <1>6, <1>7, AppendProperties DEF FramesType
<1>10. call' \in NoBatches /\ call'.own = call.own + 1
  <2>1. call' = [call EXCEPT !.own = call.own + 1]
    BY DEF TakeFrame
  <2>2. call.own + 1 \in Nat
    BY <1>2, OwnChanges
  <2> QED
    BY <1>2, <2>1, <2>2, OwnChanges
<1>11. max_size' = max_size
  BY DEF TakeFrame
<1>12. AllocatedIn(frames') <= max_size
  BY <1>1, <1>4, <1>5, <1>6, <1>8
<1>13. Len(frames') = call'.own
  BY <1>2, <1>9, <1>10
<1> QED
  BY <1>1, <1>8, <1>10, <1>11, <1>12, <1>13 DEF MemoryInv

(* The topmost frame of the caller is given back.                          *)
LEMMA GiveBackKeeps ==
  ASSUME MemoryInv, GiveBack
  PROVE  MemoryInv'
<1>1. max_size \in Nat /\ frames \in FramesType /\ AllocatedIn(frames) <= max_size
  BY DEF MemoryInv
<1>2. call \in NoBatches /\ call.phase = "idle" /\ Len(frames) = call.own
  BY DEF MemoryInv, GiveBack, BetweenBatches, InsideBatch
<1>3. frames # <<>> /\ frames' = SubSeq(frames, 1, Len(frames) - 1)
  BY DEF GiveBack, deallocate_frame
<1>4. /\ frames' \in FramesType /\ Len(frames') = Len(frames) - 1
      /\ frames[Len(frames)] \in FrameType /\ AllocatedIn(frames') \in Nat
      /\ AllocatedIn(frames) = AllocatedIn(frames') + frames[Len(frames)].size
  BY <1>1, <1>3, AllocatedShrinks
<1>5. AllocatedIn(frames') <= max_size
  BY <1>1, <1>4 DEF FrameType
<1>6. Len(frames) \in Nat \ {0}
  BY <1>1, <1>3, EmptySeq DEF FramesType
<1>7. call' \in NoBatches /\ call'.own = call.own - 1
  <2>1. call' = [call EXCEPT !.own = call.own - 1]
    BY DEF GiveBack
  <2>2. call.own - 1 \in Nat
    BY <1>2, <1>6
  <2> QED
    BY <1>2, <2>1, <2>2, OwnChanges
<1>8. max_size' = max_size
  BY DEF GiveBack
<1>9. Len(frames') = call'.own
  BY <1>2, <1>4, <1>7
<1> QED
  BY <1>1, <1>4, <1>5, <1>7, <1>8, <1>9 DEF MemoryInv

(* Between two batches, every room is there that a batch may need.         *)
LEMMA BatchesBegin ==
  ASSUME MemoryInv, call.phase = "idle",
         NEW f \in {"strauss", "pippenger"}, NEW n \in Counts, NEW max \in Nat \ {0},
         \A k \in 1 .. max : FrameSize(f, k) <= max_allocation(OBJECTS),
         call' = Batches(f, n, max), UNCHANGED <<max_size, frames>>
  PROVE  MemoryInv'
<1>1. max_size \in Nat /\ frames \in FramesType /\ AllocatedIn(frames) <= max_size
  BY DEF MemoryInv
<1>2. call \in NoBatches /\ Len(frames) = call.own
  BY DEF MemoryInv, BetweenBatches, InsideBatch
<1>3. n \in Nat \ {0}
  BY SizesAssumption
<1> DEFINE b == Ceiling(n, max)
           c == Ceiling(n, b)
<1>4. b \in Nat \ {0} /\ c \in 1 .. max /\ (b - 1) * c < n /\ n <= b * c
  BY <1>3, BatchesFill
<1>5. call' = [phase |-> "batch", own |-> call.own, f |-> f, all |-> n, left |-> n, i |-> 0,
               objects |-> <<>>, n_batches |-> b, n_batch_points |-> c]
  BY DEF Batches
<1> HIDE DEF b, c
<1>6. call' \in InBatches
  <2>1. call.own \in Nat /\ c \in Nat \ {0} /\ <<>> \in Seq(Nat)
    BY <1>2, <1>4, OwnChanges
  <2> QED
    BY <1>3, <1>4, <1>5, <2>1 DEF InBatches
<1>7. PointsCounted'
  BY <1>3, <1>4, <1>5 DEF PointsCounted
<1>8. HasRoomAbove(frames)'
  <2>1. ASSUME NEW k \in 1 .. c
        PROVE  FrameSize(f, k) + OBJECTS * ALIGNMENT <= max_size - AllocatedIn(frames)
    <3>1. k \in 1 .. max /\ k \in Nat
      BY <1>4
    <3>2. FrameSize(f, k) <= max_allocation(OBJECTS) /\ FrameSize(f, k) \in Nat \ {0}
      BY <3>1, FrameIsLarge
    <3> QED
      BY <1>1, <3>2, AllocationIs
  <2> QED
    BY <1>5, <2>1 DEF HasRoomAbove
<1>9. (call.phase = "batch" /\ Len(frames) = call.own)'
  BY <1>2, <1>5
<1> QED
  BY <1>1, <1>6, <1>7, <1>8, <1>9 DEF MemoryInv, BetweenBatches

(* A call decides on batches that have room, or on none.                   *)
LEMMA MultiplyKeeps ==
  ASSUME MemoryInv, ecmult_multi_var
  PROVE  MemoryInv'
<1>1. max_size \in Nat /\ frames \in FramesType /\ AllocatedIn(frames) <= max_size
  BY DEF MemoryInv
<1>2. call.phase = "idle" /\ UNCHANGED <<max_size, frames>>
  BY DEF ecmult_multi_var
<1>3. call \in NoBatches /\ Len(frames) = call.own
  BY <1>2 DEF MemoryInv, BetweenBatches, InsideBatch
<1>4. max_allocation(OBJECTS) \in Nat
  BY <1>1, AllocationIs
<1> DEFINE max == Min({pippenger_max_points, ECMULT_MAX_POINTS_PER_BATCH})
<1>5. max \in Nat /\ max <= pippenger_max_points /\ pippenger_max_points \in Nat
  <2>1. pippenger_max_points \in Nat
    BY <1>4, PippengerFits
  <2>2. ECMULT_MAX_POINTS_PER_BATCH \in Nat
    BY SMT DEF ECMULT_MAX_POINTS_PER_BATCH
  <2> DEFINE S == {pippenger_max_points, ECMULT_MAX_POINTS_PER_BATCH}
  <2>3. S \subseteq Nat /\ S # {} /\ pippenger_max_points \in S
    BY <2>1, <2>2
  <2> HIDE DEF S
  <2>4. Min(S) \in S /\ \A x \in S : Min(S) <= x
    BY <2>3, MinIsLeast
  <2> QED
    BY <2>1, <2>3, <2>4 DEF S
<1>6. \E n \in Counts :
        \/ max > 0 /\ call' = Batches("pippenger", n, max)
        \/ strauss_max_points > 0 /\ call' = Batches("strauss", n, strauss_max_points)
        \/ call' = Left("no room")
  BY <1>5 DEF ecmult_multi_var
<1> HIDE DEF max
<1>7. PICK n \in Counts :
        \/ max > 0 /\ call' = Batches("pippenger", n, max)
        \/ strauss_max_points > 0 /\ call' = Batches("strauss", n, strauss_max_points)
        \/ call' = Left("no room")
  BY <1>6
<1>8. CASE max > 0 /\ call' = Batches("pippenger", n, max)
  <2>1. \A k \in 1 .. max : FrameSize("pippenger", k) <= max_allocation(OBJECTS)
    <3>1. \A k \in 1 .. max : k \in 1 .. pippenger_max_points
      BY <1>5
    <3> QED
      BY <1>4, <3>1, PippengerFits
  <2>2. max \in Nat \ {0} /\ "pippenger" \in {"strauss", "pippenger"}
    BY <1>5, <1>8
  <2> QED
    BY <1>2, <1>8, <2>1, <2>2, BatchesBegin
<1>9. CASE strauss_max_points > 0 /\ call' = Batches("strauss", n, strauss_max_points)
  <2>1. \A k \in 1 .. strauss_max_points : FrameSize("strauss", k) <= max_allocation(OBJECTS)
    BY <1>4, StraussFits
  <2>2. strauss_max_points \in Nat \ {0} /\ "strauss" \in {"strauss", "pippenger"}
    BY <1>4, <1>9, StraussFits
  <2> QED
    BY <1>2, <1>9, <2>1, <2>2, BatchesBegin
<1>10. CASE call' = Left("no room")
  <2>1. call' \in NoBatches /\ call'.own = call.own
    BY <1>3, <1>10 DEF Left, NoBatches
  <2> QED
    BY <1>1, <1>2, <1>3, <2>1 DEF MemoryInv
<1> QED
  BY <1>7, <1>8, <1>9, <1>10

(* The points of the next batch.                                           *)
LEMMA NextBatchIs ==
  ASSUME call \in InBatches, PointsCounted, call.i < call.n_batches
  PROVE  /\ nbp \in 1 .. call.n_batch_points /\ nbp <= call.left
         /\ call.i + 1 < call.n_batches =>
              /\ call.left - nbp > 0
              /\ (call.i + 1) * call.n_batch_points = call.all - (call.left - nbp)
         /\ call.i + 1 = call.n_batches => call.left - nbp = 0
<1> DEFINE i == call.i
           b == call.n_batches
           c == call.n_batch_points
           left == call.left
           all == call.all
<1>1. i \in Nat /\ b \in Nat /\ c \in Nat \ {0} /\ left \in Nat /\ all \in Nat
  BY DEF InBatches
<1>2. (b - 1) * c < all /\ all <= b * c /\ i < b /\ left > 0 /\ i * c = all - left
  BY DEF PointsCounted
<1>3. nbp = Min({left, c})
  BY DEF nbp
<1> HIDE DEF i, b, c, left, all
<1>4. {left, c} \subseteq Nat /\ {left, c} # {}
  BY <1>1
<1>5. nbp \in {left, c} /\ nbp <= left /\ nbp <= c
  BY <1>3, <1>4, MinIsLeast
<1>6. nbp \in 1 .. c
  BY <1>1, <1>2, <1>5
<1>7. (i + 1) * c = i * c + c
  BY <1>1
<1>8. ASSUME i + 1 < b
      PROVE  left - nbp > 0 /\ (i + 1) * c = all - (left - nbp)
  <2>1. (i + 1) * c <= (b - 1) * c
    BY <1>1, <1>8
  <2>2. i * c \in Int /\ (b - 1) * c \in Int /\ (i + 1) * c \in Int
    BY <1>1
  <2>3. c < left
    BY <1>1, <1>2, <1>7, <2>1, <2>2
  <2>4. nbp = c
    BY <1>1, <1>5, <2>3
  <2> QED
    BY <1>1, <1>2, <1>7, <2>2, <2>3, <2>4
<1>9. ASSUME i + 1 = b
      PROVE  left - nbp = 0
  <2>1. b * c = i * c + c
    BY <1>7, <1>9
  <2>2. i * c \in Int
    BY <1>1
  <2>3. left <= c
    BY <1>1, <1>2, <2>1, <2>2
  <2> QED
    BY <1>1, <1>5, <2>3
<1> QED
  BY <1>5, <1>6, <1>8, <1>9 DEF i, b, c, left, all

(* A batch gets its frame.                                                 *)
LEMMA BeginBatchKeeps ==
  ASSUME MemoryInv, BeginBatch
  PROVE  MemoryInv'
<1>1. max_size \in Nat /\ frames \in FramesType /\ AllocatedIn(frames) <= max_size
  BY DEF MemoryInv
<1>2. call.phase = "batch" /\ call.i < call.n_batches
  BY DEF BeginBatch
<1>3. BetweenBatches
  BY <1>2 DEF MemoryInv, NoBatches, InsideBatch
<1>4. call \in InBatches /\ Len(frames) = call.own /\ PointsCounted /\ HasRoomAbove(frames)
  BY <1>3 DEF BetweenBatches
<1>5. nbp \in 1 .. call.n_batch_points /\ call.f \in {"strauss", "pippenger"} /\ call.n_batch_points \in Nat
  BY <1>2, <1>4, NextBatchIs DEF InBatches
<1>6. nbp \in Nat \ {0}
  BY <1>5
<1> DEFINE n == FrameSize(call.f, nbp)
<1>7. n \in Nat \ {0} /\ n + OBJECTS * ALIGNMENT <= max_size - AllocatedIn(frames)
  BY <1>4, <1>5, <1>6, FrameIsLarge DEF HasRoomAbove
<1>8. Fits(n, OBJECTS)
  BY <1>1, <1>7, AllocationIs DEF Fits
<1>9. /\ frames' = allocate_frame(n, OBJECTS) /\ max_size' = max_size
      /\ call' = [call EXCEPT !.phase = "objects", !.objects = Objects(call.f, nbp)]
  BY <1>8 DEF BeginBatch
<1> DEFINE frame == [size |-> n + OBJECTS * ALIGNMENT, offset |-> 0]
<1>10. frame \in FrameType /\ frame.size = n + OBJECTS * ALIGNMENT /\ frame.offset = 0
  BY <1>7 DEF FrameType, OBJECTS, ALIGNMENT
<1>11. frames' = Append(frames, frame)
  BY <1>9 DEF allocate_frame
<1> HIDE DEF n, frame
<1>12. AllocatedIn(frames) \in Nat /\ frames' \in FramesType
       /\ AllocatedIn(frames') = AllocatedIn(frames) + frame.size
  BY <1>1, <1>10, <1>11, AllocatedGrows
<1>13. AllocatedIn(frames') <= max_size
  BY <1>1, <1>7, <1>10, <1>12 DEF OBJECTS, ALIGNMENT
<1>14. Len(frames') = Len(frames) + 1 /\ frames'[Len(frames')] = frame
  BY <1>1, <1>10, <1>11, AppendProperties DEF FramesType
<1>15. SubSeq(frames', 1, Len(frames') - 1) = frames
  BY <1>1, <1>10, <1>11, LowerPart DEF FramesType
<1>16. /\ Objects(call.f, nbp) \in Seq(Nat) /\ Len(Objects(call.f, nbp)) = 6
  BY <1>5, <1>6, ObjectsFit
<1>17. /\ call' \in InBatches /\ call'.phase = "objects" /\ call'.objects = Objects(call.f, nbp)
       /\ call'.own = call.own /\ call'.f = call.f /\ call'.all = call.all /\ call'.left = call.left
       /\ call'.i = call.i /\ call'.n_batches = call.n_batches
       /\ call'.n_batch_points = call.n_batch_points
  <2> DEFINE o == Objects(call.f, nbp)
  <2>1. o \in Seq(Nat) /\ call' = [call EXCEPT !.phase = "objects", !.objects = o]
    BY <1>9, <1>16
  <2> HIDE DEF o
  <2>2. call' \in InBatches /\ call'.phase = "objects" /\ call'.objects = o
        /\ call'.own = call.own /\ call'.f = call.f /\ call'.all = call.all /\ call'.left = call.left
        /\ call'.i = call.i /\ call'.n_batches = call.n_batches
        /\ call'.n_batch_points = call.n_batch_points
    BY <1>4, <2>1 DEF InBatches
  <2> QED
    BY <2>2 DEF o
<1>18. PointsCounted'
  BY <1>4, <1>17 DEF PointsCounted
<1>19. nbp' = nbp
  BY <1>17 DEF nbp
<1>20. HasRoomAbove(deallocate_frame)'
  BY <1>4, <1>9, <1>15, <1>17 DEF HasRoomAbove, deallocate_frame
<1>21. ObjectsTaken'
  <2> DEFINE o == Objects(call.f, nbp)
  <2>1. o = SubSeq(o, 0 + 1, 6)
    BY <1>16, SubSeqFull
  <2>2. Taken(o, 0) = 0
    <3>1. \A j \in 1 .. 6 : o[j] \in Nat
      BY <1>16, ElementOfSeq
    <3> HIDE DEF o
    <3> QED
      BY <3>1, TakenGrows
  <2>3. TopFrame' = frame
    BY <1>14 DEF TopFrame
  <2> HIDE DEF o
  <2>4. 0 \in 0 .. 6
    OBVIOUS
  <2>5. /\ TopFrame'.size = n + OBJECTS * ALIGNMENT
        /\ \E k \in 0 .. 6 : o = SubSeq(o, k + 1, 6) /\ TopFrame'.offset = Taken(o, k)
    BY <1>10, <2>1, <2>2, <2>3, <2>4
  <2> QED
    BY <1>17, <1>19, <2>5 DEF ObjectsTaken, n, o
<1>22. Len(frames') = call'.own + 1 /\ call'.i < call'.n_batches
  BY <1>2, <1>4, <1>14, <1>17
<1>23. InsideBatch'
  BY <1>17, <1>18, <1>20, <1>21, <1>22 DEF InsideBatch
<1> QED
  BY <1>1, <1>9, <1>12, <1>13, <1>23 DEF MemoryInv

\* A call that takes another object: what is left of it is as before.
SameCall ==
  /\ call'.own = call.own /\ call'.f = call.f /\ call'.all = call.all /\ call'.left = call.left
  /\ call'.i = call.i /\ call'.n_batches = call.n_batches
  /\ call'.n_batch_points = call.n_batch_points

(* An object of the batch gets its part of the frame.                      *)
LEMMA AllocateObjectKeeps ==
  ASSUME MemoryInv, AllocateObject
  PROVE  MemoryInv'
<1>1. max_size \in Nat /\ frames \in FramesType /\ AllocatedIn(frames) <= max_size
  BY DEF MemoryInv
<1>2. call.phase = "objects" /\ call.objects # <<>>
  BY DEF AllocateObject
<1>3. InsideBatch
  BY <1>2 DEF MemoryInv, NoBatches, BetweenBatches
<1>4. /\ call \in InBatches /\ Len(frames) = call.own + 1 /\ call.i < call.n_batches
      /\ PointsCounted /\ HasRoomAbove(deallocate_frame) /\ ObjectsTaken
  BY <1>3 DEF InsideBatch
<1>5. nbp \in 1 .. call.n_batch_points /\ call.f \in {"strauss", "pippenger"}
      /\ call.n_batch_points \in Nat /\ call.own \in Nat
  BY <1>4, NextBatchIs DEF InBatches
<1>6. nbp \in Nat \ {0}
  BY <1>5
<1> DEFINE o == Objects(call.f, nbp)
           n == FrameSize(call.f, nbp)
<1>7. o \in Seq(Nat) /\ Len(o) = 6 /\ n \in Nat /\ Taken(o, 6) <= n + OBJECTS * ALIGNMENT
  BY <1>5, <1>6, ObjectsFit
<1>8. \A j \in 1 .. 6 : o[j] \in Nat
  BY <1>7, ElementOfSeq
<1> HIDE DEF o, n
<1>9. PICK k \in 0 .. 6 : call.objects = SubSeq(o, k + 1, 6) /\ TopFrame.offset = Taken(o, k)
  BY <1>4 DEF ObjectsTaken, o
<1>10. TopFrame.size = n + OBJECTS * ALIGNMENT
  BY <1>4 DEF ObjectsTaken, n
<1>11. k # 6
  <2>1. ASSUME k = 6 PROVE FALSE
    <3>1. 7 \in Int /\ 6 \in Int /\ 6 < 7
      OBVIOUS
    <3>2. SubSeq(o, 7, 6) = <<>>
      BY <3>1, SubSeqEmpty
    <3> QED
      BY <1>2, <1>9, <2>1, <3>2
  <2> QED
    BY <2>1
<1>12. k \in 0 .. 5 /\ k + 1 \in 1 .. 6 /\ k + 1 \in 0 .. 6
  BY <1>9, <1>11
<1>13. Head(call.objects) = o[k + 1] /\ Tail(call.objects) = SubSeq(o, (k + 1) + 1, 6)
  <2>1. k + 1 \in 1 .. Len(o) /\ 6 \in k + 1 .. Len(o)
    BY <1>7, <1>12
  <2> QED
    BY <1>7, <1>9, <2>1, HeadTailOfSubSeq
<1> DEFINE r == ROUND_TO_ALIGN(o[k + 1])
<1>14. /\ Taken(o, k + 1) = Taken(o, k) + r /\ Taken(o, k + 1) <= Taken(o, 6)
       /\ Taken(o, k) \in Nat /\ Taken(o, k + 1) \in Nat /\ Taken(o, 6) \in Nat
  <2>1. /\ \A l \in 0 .. 6 : Taken(o, l) \in Nat
        /\ \A l \in 0 .. 5 : Taken(o, l + 1) = Taken(o, l) + ROUND_TO_ALIGN(o[l + 1])
        /\ \A l \in 0 .. 6 : Taken(o, l) <= Taken(o, 6)
    BY <1>8, TakenGrows
  <2>2. 6 \in 0 .. 6
    OBVIOUS
  <2> QED
    BY <1>9, <1>12, <2>1, <2>2
<1>15. r \in Nat
  BY <1>8, <1>12, RoundedIs
<1> HIDE DEF r
<1>16. HasRoom(Head(call.objects))
  <2>1. frames # <<>>
    BY <1>1, <1>4, <1>5, EmptySeq DEF FramesType
  <2>2. r + TopFrame.offset <= TopFrame.size
    BY <1>7, <1>9, <1>10, <1>14, <1>15 DEF OBJECTS, ALIGNMENT
  <2> QED
    BY <1>13, <2>1, <2>2 DEF HasRoom, r
<1>17. /\ frames' = scratch_alloc(Head(call.objects)) /\ max_size' = max_size
       /\ call' = [call EXCEPT !.objects = Tail(call.objects)]
  BY <1>16 DEF AllocateObject
<1> DEFINE last == Len(frames)
           top  == [TopFrame EXCEPT !.offset = Taken(o, k + 1)]
<1>18. last \in 1 .. Len(frames) /\ last \in Nat /\ last = Len(frames) /\ frames[last] \in FrameType
  <2>1. last \in Nat /\ last \in 1 .. Len(frames)
    BY <1>1, <1>4, <1>5 DEF FramesType
  <2> QED
    BY <1>1, <2>1, ElementOfSeq DEF FramesType
<1>19. TopFrame = frames[last]
  BY DEF TopFrame
<1>20. /\ top \in FrameType /\ top.size = TopFrame.size /\ top.offset = Taken(o, k + 1)
  BY <1>14, <1>18, <1>19 DEF FrameType
<1>21. frames' = [frames EXCEPT ![last] = top]
  <2>1. frames' = [frames EXCEPT ![last].offset = frames[last].offset + r]
    BY <1>13, <1>17 DEF scratch_alloc, r
  <2>2. frames[last].offset + r = Taken(o, k + 1)
    BY <1>9, <1>14, <1>15, <1>19
  <2> HIDE DEF last
  <2> QED
    BY <1>19, <2>1, <2>2
<1> HIDE DEF last, top
<1>22. /\ frames' \in FramesType /\ Len(frames') = Len(frames)
       /\ \A j \in 1 .. Len(frames) : frames'[j] = IF j = last THEN top ELSE frames[j]
  BY <1>1, <1>18, <1>20, <1>21, ExceptSeq DEF FramesType
<1>23. \A j \in 1 .. Len(frames) : frames'[j].size = frames[j].size
  BY <1>19, <1>20, <1>22
<1>24. AllocatedIn(frames') = AllocatedIn(frames)
  BY <1>1, <1>22, <1>23, AllocatedSame
<1>25. SubSeq(frames', 1, Len(frames') - 1) = SubSeq(frames, 1, Len(frames) - 1)
  <2>1. frames \in Seq(FrameType) /\ frames' \in Seq(FrameType) /\ Len(frames') = Len(frames)
    BY <1>1, <1>22 DEF FramesType
  <2>2. \A j \in 1 .. Len(frames) - 1 : frames'[j] = frames[j]
    BY <1>18, <1>22
  <2> QED
    BY <1>18, <2>1, <2>2, SameLowerPart
<1>26. TopFrame' = top
  BY <1>18, <1>22 DEF TopFrame
<1>27. call' \in InBatches /\ call'.phase = "objects" /\ SameCall
       /\ call'.objects = SubSeq(o, (k + 1) + 1, 6)
  <2> DEFINE rest == Tail(call.objects)
  <2>1. call.objects \in Seq(Nat)
    BY <1>4 DEF InBatches
  <2>2. rest \in Seq(Nat) /\ call' = [call EXCEPT !.objects = rest]
    BY <1>2, <1>17, <2>1, HeadTailProperties
  <2> HIDE DEF rest
  <2>3. call' \in InBatches /\ call'.phase = call.phase /\ SameCall /\ call'.objects = rest
    BY <1>4, <2>2 DEF InBatches, SameCall
  <2> QED
    BY <1>2, <1>13, <2>3 DEF rest
<1>28. nbp' = nbp /\ PointsCounted'
  BY <1>4, <1>27 DEF nbp, PointsCounted, SameCall
<1>29. HasRoomAbove(deallocate_frame)'
  BY <1>4, <1>17, <1>25, <1>27 DEF HasRoomAbove, deallocate_frame, SameCall
<1>30. ObjectsTaken'
  <2>1. /\ TopFrame'.size = n + OBJECTS * ALIGNMENT
        /\ \E l \in 0 .. 6 : call'.objects = SubSeq(o, l + 1, 6) /\ TopFrame'.offset = Taken(o, l)
    BY <1>10, <1>12, <1>20, <1>26, <1>27
  <2> QED
    BY <1>27, <1>28, <2>1 DEF ObjectsTaken, SameCall, n, o
<1>31. Len(frames') = call'.own + 1 /\ call'.i < call'.n_batches
  BY <1>4, <1>22, <1>27 DEF SameCall
<1>32. InsideBatch'
  BY <1>27, <1>28, <1>29, <1>30, <1>31 DEF InsideBatch
<1> QED
  BY <1>1, <1>17, <1>22, <1>24, <1>32 DEF MemoryInv

(* The frame of a batch is given back, and its points are over.            *)
LEMMA DeliverKeeps ==
  ASSUME MemoryInv, Deliver
  PROVE  MemoryInv'
<1>1. max_size \in Nat /\ frames \in FramesType /\ AllocatedIn(frames) <= max_size
  BY DEF MemoryInv
<1>2. call.phase = "objects" /\ frames' = deallocate_frame /\ max_size' = max_size
  BY DEF Deliver
<1>3. InsideBatch
  BY <1>2 DEF MemoryInv, NoBatches, BetweenBatches
<1>4. /\ call \in InBatches /\ Len(frames) = call.own + 1 /\ call.i < call.n_batches
      /\ PointsCounted /\ HasRoomAbove(deallocate_frame)
  BY <1>3 DEF InsideBatch
<1>5. nbp \in 1 .. call.n_batch_points /\ nbp <= call.left /\ call.n_batch_points \in Nat
      /\ call.own \in Nat /\ call.left \in Nat /\ call.i \in Nat /\ call.n_batches \in Nat
  BY <1>4, NextBatchIs DEF InBatches
<1>6. frames # <<>>
  BY <1>1, <1>4, <1>5, EmptySeq DEF FramesType
<1>7. /\ frames' \in FramesType /\ Len(frames') = Len(frames) - 1
      /\ frames[Len(frames)] \in FrameType /\ AllocatedIn(frames') \in Nat
      /\ AllocatedIn(frames) = AllocatedIn(frames') + frames[Len(frames)].size
  BY <1>1, <1>2, <1>6, AllocatedShrinks DEF deallocate_frame
<1>8. AllocatedIn(frames') <= max_size
  BY <1>1, <1>7 DEF FrameType
<1>9. Len(frames') = call.own
  BY <1>4, <1>5, <1>7
<1>10. CASE call' = Left("callback failed")
  <2>1. call' \in NoBatches /\ call'.own = call.own
    BY <1>5, <1>10 DEF Left, NoBatches
  <2> QED
    BY <1>1, <1>2, <1>7, <1>8, <1>9, <2>1 DEF MemoryInv
<1>11. CASE call' = [call EXCEPT !.phase = "batch", !.i = call.i + 1, !.left = call.left - nbp]
  <2> DEFINE left == call.left - nbp
             i    == call.i + 1
  <2>1. left \in Nat /\ i \in Nat /\ i <= call.n_batches
    BY <1>4, <1>5
  <2>2. /\ i < call.n_batches => left > 0 /\ i * call.n_batch_points = call.all - left
        /\ i = call.n_batches => left = 0
    BY <1>4, NextBatchIs
  <2>3. call' = [call EXCEPT !.phase = "batch", !.i = i, !.left = left]
    BY <1>11
  <2> HIDE DEF left, i
  <2>4. /\ call' \in InBatches /\ call'.phase = "batch" /\ call'.i = i /\ call'.left = left
        /\ call'.own = call.own /\ call'.f = call.f /\ call'.all = call.all
        /\ call'.n_batches = call.n_batches /\ call'.n_batch_points = call.n_batch_points
    BY <1>4, <2>1, <2>3 DEF InBatches
  <2>5. PointsCounted'
    BY <1>4, <2>1, <2>2, <2>4 DEF PointsCounted
  <2>6. HasRoomAbove(frames)'
    BY <1>2, <1>4, <2>4 DEF HasRoomAbove
  <2>7. BetweenBatches'
    BY <1>9, <2>4, <2>5, <2>6 DEF BetweenBatches
  <2> QED
    BY <1>1, <1>2, <1>7, <1>8, <2>7 DEF MemoryInv
<1> QED
  BY <1>10, <1>11 DEF Deliver

(* A call that is over leaves the frames of its caller.                    *)
LEMMA ReturnKeeps ==
  ASSUME MemoryInv, ReturnToCaller
  PROVE  MemoryInv'
<1>1. max_size \in Nat /\ frames \in FramesType /\ AllocatedIn(frames) <= max_size
  BY DEF MemoryInv
<1>2. max_size' = max_size /\ frames' = frames /\ call' = Left("idle") /\ call.phase # "objects"
  BY DEF ReturnToCaller
<1>3. Len(frames) = call.own /\ call.own \in Nat
  BY <1>2, OwnChanges DEF MemoryInv, BetweenBatches, InsideBatch, InBatches
<1>4. call' \in NoBatches /\ call'.own = call.own
  BY <1>2, <1>3 DEF Left, NoBatches
<1> QED
  BY <1>1, <1>2, <1>3, <1>4 DEF MemoryInv

(* A call that decides on batches gets the frame and the objects of each   *)
(* of them, the points are counted right, and every way out of a call      *)
(* leaves the frames of its caller: for scratch spaces of any size, frames *)
(* of callers of any sizes below, and any number of points.                *)
THEOREM MemoryIsThere == MemorySpec => []BatchesGetTheirMemory
<1>1. MemoryInit => MemoryInv
  BY MemoryBegins
<1>2. MemoryInv /\ [MemoryNext]_scratchVars => MemoryInv'
  <2> SUFFICES ASSUME MemoryInv, [MemoryNext]_scratchVars PROVE MemoryInv'
    OBVIOUS
  <2>1. CASE TakeFrame
    BY <2>1, TakeFrameKeeps
  <2>2. CASE GiveBack
    BY <2>2, GiveBackKeeps
  <2>3. CASE ecmult_multi_var
    BY <2>3, MultiplyKeeps
  <2>4. CASE BeginBatch
    BY <2>4, BeginBatchKeeps
  <2>5. CASE AllocateObject
    BY <2>5, AllocateObjectKeeps
  <2>6. CASE Deliver
    BY <2>6, DeliverKeeps
  <2>7. CASE ReturnToCaller
    BY <2>7, ReturnKeeps
  <2>8. CASE UNCHANGED scratchVars
    <3>1. max_size' = max_size /\ frames' = frames /\ call' = call
      BY <2>8 DEF scratchVars
    <3> QED
      BY <3>1 DEF MemoryInv, BetweenBatches, InsideBatch, PointsCounted, HasRoomAbove, ObjectsTaken,
                  TopFrame, deallocate_frame, nbp
  <2> QED
    BY <2>1, <2>2, <2>3, <2>4, <2>5, <2>6, <2>7, <2>8 DEF MemoryNext
<1>3. MemoryInv => BatchesGetTheirMemory
  <2> SUFFICES ASSUME MemoryInv PROVE BatchesGetTheirMemory
    OBVIOUS
  <2>1. AllocatedIn(frames) <= max_size
    BY DEF MemoryInv
  <2>2. CASE call \in NoBatches /\ Len(frames) = call.own
    BY <2>1, <2>2 DEF BatchesGetTheirMemory, NoBatches, Allocated
  <2>3. CASE BetweenBatches
    BY <2>1, <2>3 DEF BatchesGetTheirMemory, BetweenBatches, PointsCounted, Allocated
  <2>4. CASE InsideBatch
    <3>1. nbp > 0
      BY <2>4, NextBatchIs DEF InsideBatch, InBatches
    <3> QED
      BY <2>1, <2>4, <3>1 DEF BatchesGetTheirMemory, InsideBatch, PointsCounted, Allocated
  <2> QED
    BY <2>2, <2>3, <2>4 DEF MemoryInv
<1> QED
  BY <1>1, <1>2, <1>3, PTL DEF MemorySpec

-----------------------------------------------------------------------------
(* Hashes of messages that arrive in pieces.                               *)

Buffers == [1 .. Chunk -> ByteValues]

\* What the proof needs of the compression of a chunk: States are its states.
Compression(States) ==
  /\ InitialState \in States
  /\ \A s \in States, chunk \in Buffers : transform(s, chunk) \in States
  /\ \A s \in States : DigestOf(s) \in Seq(ByteValues) /\ Len(DigestOf(s)) = DigestSize

Block(m, t) == SubSeq(m, (t - 1) * Chunk + 1, t * Chunk)

\* The states after each of the first q chunks of a message.
Chained(a, m, q) ==
  a = [t \in 0 .. q |-> IF t = 0 THEN InitialState ELSE transform(a[t - 1], Block(m, t))]

Chunks(m) == Len(m) \div Chunk

\* A state after the whole chunks of a message, and a buffer with what is left of it.
Kept(States, s, buf, m) ==
  /\ buf \in Buffers
  /\ \E a \in [0 .. Chunks(m) -> States] : Chained(a, m, Chunks(m)) /\ s = a[Chunks(m)]
  /\ \A i \in 1 .. Len(m) % Chunk : buf[i] = m[Chunks(m) * Chunk + i]

\* An object that a message was written to.
Holds(States, object, m) == object.bytes = Len(m) /\ Kept(States, object.s, object.buf, m)

(* There are bytes in a chunk.                                             *)
LEMMA ChunkIs == Chunk \in Nat \ {0} /\ DigestSize \in 1 .. Chunk
  <1>1. WordBytes \in Nat \ {0}
    BY WordAssumption
  <1> QED
    BY <1>1, ChunksAssumption DEF SizeBytes

(* Some bytes of a buffer are written over.                                *)
LEMMA FilledIs ==
  ASSUME NEW buf \in Buffers, NEW data \in Seq(ByteValues), NEW offset \in Nat
  PROVE  /\ Filled(buf, offset, data) \in Buffers
         /\ \A i \in 1 .. Chunk :
              /\ offset < i /\ i <= offset + Len(data) => Filled(buf, offset, data)[i] = data[i - offset]
              /\ i <= offset => Filled(buf, offset, data)[i] = buf[i]
<1>1. Len(data) \in Nat /\ DOMAIN data = 1 .. Len(data)
  BY LenProperties
<1>2. Chunk \in Nat
  BY ChunkIs
<1>3. \A i \in 1 .. Chunk : i - offset \in DOMAIN data <=> offset < i /\ i <= offset + Len(data)
  BY <1>1, <1>2
<1>4. \A i \in 1 .. Chunk : buf[i] \in ByteValues
  BY DEF Buffers
<1>5. \A i \in 1 .. Chunk : i - offset \in DOMAIN data => data[i - offset] \in ByteValues
  BY <1>1, ElementOfSeq, Zenon
<1>6. Filled(buf, offset, data) \in Buffers
  BY <1>4, <1>5, Zenon DEF Filled, Buffers
<1>7. \A i \in 1 .. Chunk :
        Filled(buf, offset, data)[i] = IF i - offset \in DOMAIN data THEN data[i - offset] ELSE buf[i]
  BY DEF Filled
<1>8. \A i \in 1 .. Chunk : i <= offset => ~(offset < i)
  BY <1>2
<1> QED
  BY <1>3, <1>6, <1>7, <1>8

(* A number is so many chunks and a rest.                                  *)
LEMMA InChunks ==
  ASSUME NEW n \in Nat
  PROVE  /\ n \div Chunk \in Nat /\ n % Chunk \in 0 .. Chunk - 1
         /\ n = (n \div Chunk) * Chunk + (n % Chunk)
<1>1. Chunk \in Nat \ {0}
  BY ChunkIs
<1>2. n \div Chunk \in Int /\ n % Chunk \in 0 .. Chunk - 1 /\ n = Chunk * (n \div Chunk) + (n % Chunk)
  BY <1>1
<1>3. n \div Chunk \in Nat
  BY <1>1
<1>4. Chunk * (n \div Chunk) = (n \div Chunk) * Chunk
  BY <1>1, <1>3
<1> QED
  BY <1>2, <1>3, <1>4

(* A quotient and a remainder are the only ones.                          *)
LEMMA OneQuotient ==
  ASSUME NEW n \in Nat \ {0}, NEW p \in Int, NEW q \in Int,
         NEW r \in 0 .. n - 1, NEW s \in 0 .. n - 1, p * n + s = q * n + r
  PROVE  p = q /\ s = r
<1> DEFINE k == q - p
<1>1. k \in Int /\ k * n = q * n - p * n
  OBVIOUS
<1>2. n * k = k * n /\ p * n \in Int /\ q * n \in Int
  OBVIOUS
<1> HIDE DEF k
<1>3. n * k + r = s
  BY <1>1, <1>2
<1>4. r = s
  BY <1>1, <1>3, OneRemainder
<1>5. k * n = 0
  BY <1>1, <1>2, <1>4
<1>6. k = 0
  <2>1. k >= 1 => k * n >= n
    BY <1>1
  <2>2. k <= -1 => k * n <= -n
    BY <1>1
  <2> QED
    BY <1>1, <1>5, <2>1, <2>2
<1> QED
  BY <1>4, <1>6 DEF k

(* There is one such number of chunks.                                     *)
LEMMA SoManyChunks ==
  ASSUME NEW n \in Nat, NEW q \in Nat, NEW r \in 0 .. Chunk - 1, n = q * Chunk + r
  PROVE  n \div Chunk = q /\ n % Chunk = r
<1>1. Chunk \in Nat \ {0} /\ n \div Chunk \in Int /\ q \in Int
  BY ChunkIs, InChunks
<1>2. n % Chunk \in 0 .. Chunk - 1 /\ (n \div Chunk) * Chunk + (n % Chunk) = q * Chunk + r
  BY InChunks
<1> QED
  BY <1>1, <1>2, OneQuotient

(* The pieces that the turns of the loop take: each but the last fills the *)
(* buffer from its offset on, and begins where the one before it ends.     *)
LEMMA PieceIs ==
  ASSUME NEW data \in Seq(ByteValues), NEW bufsize \in 0 .. Chunk - 1,
         NEW t \in 0 .. Turns(bufsize, data)
  PROVE  LET offset == IF t = 0 THEN bufsize ELSE 0
             limit  == IF t = Turns(bufsize, data) THEN (bufsize + Len(data)) % Chunk ELSE Chunk
             piece  == Piece(bufsize, data, t)
         IN /\ piece \in Seq(ByteValues)
            /\ offset + Len(piece) = limit
            /\ \A i \in 1 .. Chunk :
                 offset < i /\ i <= limit => /\ t * Chunk - bufsize + i \in 1 .. Len(data)
                                             /\ piece[i - offset] = data[t * Chunk - bufsize + i]
<1> DEFINE T == Turns(bufsize, data)
           D == Len(data)
           e == (bufsize + D) % Chunk
           first(turn) == IF turn = 0 THEN 0 ELSE turn * Chunk - bufsize
           last == IF t = T THEN D ELSE first(t + 1)
           offset == IF t = 0 THEN bufsize ELSE 0
           limit  == IF t = T THEN e ELSE Chunk
<1>1. Chunk \in Nat \ {0} /\ D \in Nat /\ bufsize \in Nat
  BY ChunkIs, LenProperties
<1>2. T \in Nat /\ e \in 0 .. Chunk - 1 /\ bufsize + D = T * Chunk + e
  <2>1. bufsize + D \in Nat
    BY <1>1
  <2> QED
    BY <2>1, InChunks DEF Turns
<1>3. Piece(bufsize, data, t) = SubSeq(data, first(t) + 1, last)
  BY DEF Piece
<1> HIDE DEF T, D, e
<1>4. t \in Nat /\ t <= T /\ t * Chunk \in Nat /\ T * Chunk \in Nat /\ (t + 1) * Chunk = t * Chunk + Chunk
  BY <1>1, <1>2 DEF T
<1>5. t < T => (t + 1) * Chunk <= T * Chunk
  <2>1. ASSUME t < T PROVE (T - (t + 1)) * Chunk >= 0
    BY <1>1, <1>2, <1>4, <2>1
  <2>2. (T - (t + 1)) * Chunk = T * Chunk - (t + 1) * Chunk
    BY <1>1, <1>2, <1>4
  <2> QED
    BY <1>1, <1>2, <1>4, <2>1, <2>2
<1>6. t # 0 => t * Chunk >= Chunk
  BY <1>1, <1>4
<1>7. first(t) = t * Chunk - bufsize + offset
  <2>1. t = 0 => t * Chunk = 0
    BY <1>1
  <2> QED
    BY <1>1, <1>4, <2>1
<1>8. last = t * Chunk - bufsize + limit
  BY <1>1, <1>2, <1>4
<1>9. first(t) \in Nat /\ last \in Nat /\ first(t) <= last /\ last <= D
  <2>1. CASE t = T
    BY <1>1, <1>2, <1>4, <1>6, <2>1
  <2>2. CASE t < T
    BY <1>1, <1>2, <1>4, <1>5, <1>6, <2>2
  <2> QED
    BY <1>2, <1>4, <2>1, <2>2
<1>10. offset \in Nat /\ limit \in Nat /\ t * Chunk - bufsize \in Int
  BY <1>1, <1>2, <1>4
<1> HIDE DEF first, last, offset, limit
<1>11. first(t) + 1 \in 1 .. Len(data) + 1 /\ last \in (first(t) + 1) - 1 .. Len(data)
  BY <1>1, <1>9 DEF D
<1> DEFINE m == first(t) + 1
           piece == SubSeq(data, m, last)
<1>12. m \in 1 .. Len(data) + 1 /\ last \in m - 1 .. Len(data)
  BY <1>11
<1> HIDE DEF m
<1>13. /\ piece \in Seq(ByteValues) /\ Len(piece) = last - m + 1
       /\ \A i \in 1 .. last - m + 1 : piece[i] = data[m + i - 1]
  BY <1>12, PartOf, Zenon
<1>14. piece = Piece(bufsize, data, t)
  BY <1>3 DEF m
<1> HIDE DEF piece
<1>15. offset + Len(piece) = limit
  <2> DEFINE x == t * Chunk - bufsize
  <2>1. x \in Int /\ first(t) = x + offset /\ last = x + limit /\ m = first(t) + 1
    BY <1>7, <1>8, <1>10 DEF m
  <2> HIDE DEF x
  <2> QED
    BY <1>10, <1>13, <2>1
<1>16. ASSUME NEW i \in 1 .. Chunk, offset < i, i <= limit
       PROVE  /\ t * Chunk - bufsize + i \in 1 .. D
              /\ piece[i - offset] = data[t * Chunk - bufsize + i]
  <2>1. i - offset \in 1 .. last - m + 1
    BY <1>1, <1>7, <1>8, <1>9, <1>10, <1>16 DEF m
  <2>2. piece[i - offset] = data[m + (i - offset) - 1]
    BY <1>13, <2>1
  <2>3. m + (i - offset) - 1 = t * Chunk - bufsize + i
    BY <1>1, <1>7, <1>9, <1>10 DEF m
  <2>4. t * Chunk - bufsize + i \in 1 .. D
    BY <1>1, <1>7, <1>8, <1>9, <1>10, <1>16
  <2> QED
    BY <2>2, <2>3, <2>4
<1> QED
  BY <1>13, <1>14, <1>15, <1>16 DEF T, D, e, offset, limit

\* The state and the buffer after each turn of the loop.
AbsorbedBy(u, s, buf, bufsize, data) ==
  u = [t \in 0 .. Turns(bufsize, data) |->
         IF t = 0 THEN [s |-> s, buf |-> Filled(buf, bufsize, Piece(bufsize, data, 0))]
         ELSE [s   |-> transform(u[t - 1].s, u[t - 1].buf),
               buf |-> Filled(u[t - 1].buf, 0, Piece(bufsize, data, t))]]

(* The loop has its values, and ends with the last of them.                *)
LEMMA AbsorbedRuns ==
  ASSUME NEW States, Compression(States), NEW s \in States, NEW buf \in Buffers,
         NEW bufsize \in 0 .. Chunk - 1, NEW data \in Seq(ByteValues)
  PROVE  \E u \in [0 .. Turns(bufsize, data) -> [s : States, buf : Buffers]] :
           /\ AbsorbedBy(u, s, buf, bufsize, data)
           /\ Absorbed(s, buf, bufsize, data) = u[Turns(bufsize, data)]
<1> DEFINE T == Turns(bufsize, data)
           A == [s : States, buf : Buffers]
           taken(t) == Piece(bufsize, data, t)
           start == [s |-> s, buf |-> Filled(buf, bufsize, taken(0))]
           after(v, t) == [s |-> transform(v.s, v.buf), buf |-> Filled(v.buf, 0, taken(t))]
           round == [t \in 0 .. T - 1 |-> [v \in A |-> after(v, t + 1)]]
<1>1. T \in Nat /\ bufsize \in Nat
  <2>1. bufsize \in Nat /\ Len(data) \in Nat
    BY ChunkIs, LenProperties
  <2>2. bufsize + Len(data) \in Nat
    BY <2>1
  <2> QED
    BY <2>1, <2>2, InChunks DEF Turns
<1> HIDE DEF T
<1>2. \A t \in 0 .. T : taken(t) \in Seq(ByteValues)
  BY PieceIs, Zenon DEF T
<1>3. 0 \in 0 .. T
  BY <1>1
<1>4. start \in A
  <2>1. Filled(buf, bufsize, taken(0)) \in Buffers
    BY <1>1, <1>2, <1>3, FilledIs, Zenon
  <2> QED
    BY <2>1
<1>5. ASSUME NEW v \in A, NEW t \in 0 .. T PROVE after(v, t) \in A
  <2>1. v.s \in States /\ v.buf \in Buffers /\ 0 \in Nat
    OBVIOUS
  <2>2. transform(v.s, v.buf) \in States
    BY <2>1 DEF Compression
  <2>3. Filled(v.buf, 0, taken(t)) \in Buffers
    BY <1>2, <2>1, FilledIs, Zenon
  <2> QED
    BY <2>2, <2>3
<1> HIDE DEF A, start, after
<1>6. \A t \in 0 .. T - 1 : t + 1 \in 0 .. T
  BY <1>1
<1>7. round \in [0 .. T - 1 -> [A -> A]]
  BY <1>5, <1>6
<1> HIDE DEF round
<1>8. PICK p \in [0 .. T -> A] : Runs(p, start, round, 0, T)
  <2>1. 0 \in Int /\ T \in Int /\ 0 <= T
    BY <1>1
  <2> QED
    BY <1>4, <1>7, <2>1, LoopRuns, Zenon
<1>9. ASSUME NEW t \in 0 .. T
      PROVE  p[t] = IF t = 0 THEN start ELSE after(p[t - 1], t)
  <2>1. p[t] = IF t = 0 THEN start ELSE round[t - 1][p[t - 1]]
    BY <1>8 DEF Runs
  <2>2. ASSUME t # 0 PROVE round[t - 1][p[t - 1]] = after(p[t - 1], t)
    <3>1. t - 1 \in 0 .. T - 1 /\ p[t - 1] \in A /\ (t - 1) + 1 = t
      BY <1>1, <2>2
    <3> QED
      BY <3>1 DEF round
  <2> QED
    BY <2>1, <2>2
<1>10. p = [t \in 0 .. T |-> IF t = 0 THEN start ELSE after(p[t - 1], t)]
  BY <1>9
<1>11. AbsorbedBy(p, s, buf, bufsize, data)
  BY <1>10 DEF AbsorbedBy, start, after, T
<1> DEFINE c == CHOOSE u : AbsorbedBy(u, s, buf, bufsize, data)
<1>12. AbsorbedBy(c, s, buf, bufsize, data)
  BY <1>11, Zenon
<1>13. Absorbed(s, buf, bufsize, data) = c[T]
  BY DEF Absorbed, AbsorbedBy, T
<1> HIDE DEF c
<1>14. c = [t \in 0 .. T |-> IF t = 0 THEN start ELSE after(c[t - 1], t)]
  BY <1>12 DEF AbsorbedBy, start, after, T
<1> DEFINE Same == {t \in 0 .. T : c[t] = p[t]}
<1>15. 0 .. T \subseteq Same
  <2>1. 0 \in Same
    BY <1>3, <1>9, <1>14
  <2>2. ASSUME NEW t \in 0 .. T - 1, t \in Same PROVE t + 1 \in Same
    <3>1. t + 1 \in 0 .. T /\ t + 1 # 0 /\ (t + 1) - 1 = t
      BY <1>1
    <3>2. c[t + 1] = after(c[t], t + 1)
      BY <1>14, <3>1
    <3>3. p[t + 1] = after(p[t], t + 1)
      BY <1>9, <3>1
    <3> QED
      BY <2>2, <3>1, <3>2, <3>3
  <2>3. 0 \in Int /\ T \in Int
    BY <1>1
  <2> HIDE DEF Same
  <2> QED
    BY <2>1, <2>2, <2>3, RangeInduction
<1>16. T \in 0 .. T
  BY <1>1
<1>17. c[T] = p[T]
  BY <1>15, <1>16
<1> QED
  BY <1>11, <1>13, <1>17 DEF A, T

\* What a turn leaves in the buffer of the bytes that were written.
Limit(m, data, t) ==
  IF t = Turns(Len(m) % Chunk, data) THEN ((Len(m) % Chunk) + Len(data)) % Chunk ELSE Chunk

\* The buffers have bytes of both.
BuffersHave(u, m, data) ==
  \A t \in 0 .. Turns(Len(m) % Chunk, data) : \A i \in 1 .. Chunk :
    i <= Limit(m, data, t) => u[t].buf[i] = (m \o data)[(Chunks(m) + t) * Chunk + i]

(* After each turn the buffer begins with bytes of the longer message: the *)
(* chunk that is compressed next, or what remains at the end.              *)
LEMMA BuffersAre ==
  ASSUME NEW States, Compression(States), NEW m \in Seq(ByteValues), NEW data \in Seq(ByteValues),
         NEW s, NEW buf, Kept(States, s, buf, m),
         NEW u \in [0 .. Turns(Len(m) % Chunk, data) -> [s : States, buf : Buffers]],
         AbsorbedBy(u, s, buf, Len(m) % Chunk, data)
  PROVE  BuffersHave(u, m, data)
<1> SUFFICES ASSUME NEW t \in 0 .. Turns(Len(m) % Chunk, data),
                    NEW i \in 1 .. Chunk, i <= Limit(m, data, t)
             PROVE  u[t].buf[i] = (m \o data)[(Chunks(m) + t) * Chunk + i]
  BY Zenon DEF BuffersHave
<1> DEFINE b == Len(m) % Chunk
           q == Chunks(m)
           T == Turns(b, data)
           offset == IF t = 0 THEN b ELSE 0
           limit  == IF t = T THEN (b + Len(data)) % Chunk ELSE Chunk
           piece == Piece(b, data, t)
           before == IF t = 0 THEN buf ELSE u[t - 1].buf
<1>1. Len(m) \in Nat /\ Len(data) \in Nat /\ Chunk \in Nat \ {0}
  BY LenProperties, ChunkIs
<1>2. b \in 0 .. Chunk - 1 /\ q \in Nat /\ Len(m) = q * Chunk + b
  BY <1>1, InChunks DEF Chunks
<1>3. T \in Nat
  <2>1. b + Len(data) \in Nat
    BY <1>1, <1>2
  <2> QED
    BY <2>1, InChunks DEF Turns
<1>4. u[t].buf = Filled(before, offset, piece)
  <2>1. t \in 0 .. T
    OBVIOUS
  <2>2. u = [k \in 0 .. T |->
               IF k = 0 THEN [s |-> s, buf |-> Filled(buf, b, Piece(b, data, 0))]
               ELSE [s   |-> transform(u[k - 1].s, u[k - 1].buf),
                     buf |-> Filled(u[k - 1].buf, 0, Piece(b, data, k))]]
    BY DEF AbsorbedBy
  <2> HIDE DEF b, T
  <2>3. u[t] = IF t = 0 THEN [s |-> s, buf |-> Filled(buf, b, Piece(b, data, 0))]
               ELSE [s   |-> transform(u[t - 1].s, u[t - 1].buf),
                     buf |-> Filled(u[t - 1].buf, 0, Piece(b, data, t))]
    BY <2>1, <2>2, Zenon
  <2>4. CASE t = 0
    BY <2>3, <2>4
  <2>5. CASE t # 0
    BY <2>3, <2>5
  <2> QED
    BY <2>4, <2>5
<1>5. \A k \in 1 .. b : buf[k] = m[q * Chunk + k]
  BY DEF Kept
<1>6. before \in Buffers
  <2>1. CASE t = 0
    BY <2>1 DEF Kept
  <2>2. CASE t # 0
    <3>1. t - 1 \in 0 .. T
      BY <1>3, <2>2
    <3>2. u[t - 1] \in [s : States, buf : Buffers]
      BY <3>1
    <3> QED
      BY <2>2, <3>2
  <2> QED
    BY <2>1, <2>2
<1> HIDE DEF b, q
<1>7. /\ piece \in Seq(ByteValues)
      /\ offset + Len(piece) = limit
      /\ \A k \in 1 .. Chunk :
           offset < k /\ k <= limit => /\ t * Chunk - b + k \in 1 .. Len(data)
                                       /\ piece[k - offset] = data[t * Chunk - b + k]
  <2>1. t \in 0 .. Turns(b, data)
    BY DEF b
  <2> QED
    BY <1>2, <2>1, PieceIs, Zenon
<1>8. i <= limit
  BY DEF b, Limit
<1>9. offset \in Nat /\ t \in Nat
  BY <1>1, <1>2, <1>3 DEF b
<1> HIDE DEF T, offset, limit, piece, before
<1>10. /\ offset < i /\ i <= offset + Len(piece) => Filled(before, offset, piece)[i] = piece[i - offset]
       /\ i <= offset => Filled(before, offset, piece)[i] = before[i]
  BY <1>6, <1>7, <1>9, FilledIs, Zenon
<1>11. /\ Len(m \o data) = Len(m) + Len(data)
       /\ \A k \in 1 .. Len(m) + Len(data) :
            (m \o data)[k] = IF k <= Len(m) THEN m[k] ELSE data[k - Len(m)]
  BY ConcatProperties, Zenon
<1> DEFINE place == (q + t) * Chunk + i
<1>12. place = q * Chunk + t * Chunk + i /\ q * Chunk \in Nat /\ t * Chunk \in Nat /\ i \in Nat
  BY <1>1, <1>2, <1>9
<1>13. CASE offset < i
  <2>1. u[t].buf[i] = data[t * Chunk - b + i] /\ t * Chunk - b + i \in 1 .. Len(data)
    BY <1>4, <1>7, <1>8, <1>10, <1>13
  <2> DEFINE x == t * Chunk - b + i
             y == q * Chunk
             z == t * Chunk
  <2>2. place = Len(m) + x /\ x \in 1 .. Len(data)
    <3>1. place = y + z + i /\ Len(m) = y + b /\ x = z - b + i /\ y \in Int /\ z \in Int
      BY <1>2, <1>12
    <3>2. x \in 1 .. Len(data) /\ b \in Int /\ i \in Int
      BY <1>1, <1>2, <2>1
    <3> HIDE DEF x, y, z, place
    <3> QED
      BY <3>1, <3>2
  <2> HIDE DEF x, place
  <2>3. place \in 1 .. Len(m) + Len(data) /\ ~(place <= Len(m)) /\ place - Len(m) = x
    BY <1>1, <2>2
  <2>4. (m \o data)[place] = data[x]
    BY <1>11, <2>3
  <2> QED
    BY <2>1, <2>4 DEF x, place, q
<1>14. CASE ~(offset < i)
  <2>1. t = 0 /\ i <= b /\ offset = b
    BY <1>1, <1>2, <1>9, <1>14 DEF offset
  <2>2. u[t].buf[i] = buf[i]
    BY <1>4, <1>10, <2>1 DEF before
  <2>3. buf[i] = m[q * Chunk + i]
    BY <1>5, <2>1 DEF b, q
  <2>4. place = q * Chunk + i
    <3>1. t * Chunk = 0
      BY <1>1, <2>1
    <3> QED
      BY <1>12, <3>1
  <2>5. place \in 1 .. Len(m) + Len(data) /\ place <= Len(m)
    <3> DEFINE y == q * Chunk
    <3>1. place = y + i /\ Len(m) = y + b /\ y \in Nat
      BY <1>2, <1>12, <2>4
    <3>2. b \in Int /\ i \in 1 .. b
      BY <1>1, <1>2, <2>1
    <3> HIDE DEF y, place
    <3> QED
      BY <1>1, <3>1, <3>2
  <2> HIDE DEF place
  <2>6. (m \o data)[place] = m[place]
    BY <1>11, <2>5
  <2> QED
    BY <2>2, <2>3, <2>4, <2>6 DEF place, q
<1> QED
  BY <1>13, <1>14

(* Buffers with the same bytes are the same.                               *)
LEMMA SameBuffers ==
  ASSUME NEW f \in Buffers, NEW g \in Buffers, \A i \in 1 .. Chunk : f[i] = g[i]
  PROVE  f = g
<1>1. f = [i \in 1 .. Chunk |-> f[i]] /\ g = [i \in 1 .. Chunk |-> g[i]]
  BY Zenon DEF Buffers
<1>2. [i \in 1 .. Chunk |-> f[i]] = [i \in 1 .. Chunk |-> g[i]]
  BY Zenon
<1> QED
  BY <1>1, <1>2

(* The chunks of a message are those of a longer one.                      *)
LEMMA EarlierBlocks ==
  ASSUME NEW m \in Seq(ByteValues), NEW data \in Seq(ByteValues), NEW t \in 1 .. Chunks(m)
  PROVE  Block(m \o data, t) = Block(m, t)
<1> DEFINE q == Chunks(m)
           b == Len(m) % Chunk
           from == (t - 1) * Chunk + 1
           to == t * Chunk
<1>1. Len(m) \in Nat /\ Chunk \in Nat \ {0}
  BY LenProperties, ChunkIs
<1>2. q \in Nat /\ b \in 0 .. Chunk - 1 /\ Len(m) = q * Chunk + b
  BY <1>1, InChunks DEF Chunks
<1>3. (t - 1) * Chunk \in Nat /\ to = (t - 1) * Chunk + Chunk
  BY <1>1, <1>2
<1>4. to <= q * Chunk
  <2>1. q - t \in Nat /\ t \in Nat
    BY <1>2
  <2> HIDE DEF q
  <2>2. (q - t) * Chunk \in Nat /\ (q - t) * Chunk = q * Chunk - to
    BY <1>1, <1>2, <2>1
  <2>3. q * Chunk \in Int /\ to \in Int
    BY <1>1, <1>2, <2>1
  <2> QED
    BY <2>2, <2>3
<1>5. q * Chunk \in Int
  BY <1>1, <1>2
<1> DEFINE y == q * Chunk
           z == (t - 1) * Chunk
<1>6. Len(m) = y + b /\ b \in Nat /\ y \in Int /\ z \in Nat /\ from = z + 1 /\ to = z + Chunk /\ to <= y
  BY <1>1, <1>2, <1>3, <1>4, <1>5
<1> HIDE DEF y, z, b, from, to
<1>7. from \in 1 .. Len(m) /\ to \in 1 .. Len(m)
  BY <1>1, <1>6
<1>8. SubSeq(m \o data, from, to) = SubSeq(m, from, to)
  BY <1>7, SubSeqOfConcat1, Zenon
<1> QED
  BY <1>8 DEF Block, from, to

(* A chunk of a message has these bytes.                                   *)
LEMMA BlockIs ==
  ASSUME NEW m \in Seq(ByteValues), NEW t \in 1 .. Chunks(m)
  PROVE  /\ Block(m, t) \in Buffers
         /\ \A i \in 1 .. Chunk : Block(m, t)[i] = m[(t - 1) * Chunk + i]
<1> DEFINE q == Chunks(m)
           b == Len(m) % Chunk
           x == (t - 1) * Chunk
           from == x + 1
           to == t * Chunk
<1>1. Len(m) \in Nat /\ Chunk \in Nat \ {0}
  BY LenProperties, ChunkIs
<1>2. q \in Nat /\ b \in 0 .. Chunk - 1 /\ Len(m) = q * Chunk + b
  BY <1>1, InChunks DEF Chunks
<1>3. x \in Nat /\ to = x + Chunk
  BY <1>1, <1>2
<1>4. to <= q * Chunk /\ q * Chunk \in Int
  <2>1. q - t \in Nat /\ t \in Nat
    BY <1>2
  <2> HIDE DEF q
  <2>2. (q - t) * Chunk \in Nat /\ (q - t) * Chunk = q * Chunk - to
    BY <1>1, <1>2, <2>1
  <2>3. q * Chunk \in Int /\ to \in Int
    BY <1>1, <1>2, <2>1
  <2> QED
    BY <2>2, <2>3
<1> DEFINE y == q * Chunk
<1>5. Len(m) = y + b /\ b \in Nat /\ y \in Int /\ to <= y
  BY <1>1, <1>2, <1>4
<1> HIDE DEF y, x, b, to
<1>6. from \in 1 .. Len(m) + 1 /\ to \in from - 1 .. Len(m) /\ to - from + 1 = Chunk
  BY <1>1, <1>3, <1>5
<1> HIDE DEF from
<1> DEFINE part == SubSeq(m, from, to)
<1>7. /\ part \in Seq(ByteValues) /\ Len(part) = to - from + 1
      /\ \A i \in 1 .. to - from + 1 : part[i] = m[from + i - 1]
  BY <1>6, PartOf, Zenon
<1> HIDE DEF part
<1>8. part \in [1 .. Len(part) -> ByteValues]
  BY <1>7, LenProperties, Zenon
<1>9. part \in Buffers /\ \A i \in 1 .. Chunk : part[i] = m[from + i - 1]
  BY <1>6, <1>7, <1>8 DEF Buffers
<1>10. \A i \in 1 .. Chunk : from + i - 1 = x + i
  BY <1>1, <1>3 DEF from
<1>11. Block(m, t) = part
  BY DEF Block, part, from, x, to
<1>12. \A i \in 1 .. Chunk : part[i] = m[x + i]
  BY <1>9, <1>10
<1> QED
  BY <1>9, <1>11, <1>12 DEF x

(* What is left of a message and what is absorbed make the chunks of both. *)
LEMMA AbsorbedIsKept ==
  ASSUME NEW States, Compression(States), NEW m \in Seq(ByteValues), NEW data \in Seq(ByteValues),
         NEW s, NEW buf, Kept(States, s, buf, m)
  PROVE  LET after == Absorbed(s, buf, Len(m) % Chunk, data)
         IN Kept(States, after.s, after.buf, m \o data)
<1> DEFINE b == Len(m) % Chunk
           q == Chunks(m)
           T == Turns(b, data)
           e == (b + Len(data)) % Chunk
           w == m \o data
<1>1. Len(m) \in Nat /\ Len(data) \in Nat /\ Chunk \in Nat \ {0}
  BY LenProperties, ChunkIs
<1>2. b \in 0 .. Chunk - 1 /\ q \in Nat /\ Len(m) = q * Chunk + b
  BY <1>1, InChunks DEF Chunks
<1>3. T \in Nat /\ e \in 0 .. Chunk - 1 /\ b + Len(data) = T * Chunk + e
  <2>1. b + Len(data) \in Nat
    BY <1>1, <1>2
  <2> QED
    BY <2>1, InChunks DEF Turns
<1>4. w \in Seq(ByteValues) /\ Len(w) = Len(m) + Len(data)
  BY ConcatProperties, Zenon
<1>5. PICK a \in [0 .. q -> States] : Chained(a, m, q) /\ s = a[q]
  BY DEF Kept
<1>6. s \in States /\ buf \in Buffers
  BY <1>2, <1>5 DEF Kept
<1>7. PICK u \in [0 .. T -> [s : States, buf : Buffers]] :
        AbsorbedBy(u, s, buf, b, data) /\ Absorbed(s, buf, b, data) = u[T]
  <2> HIDE DEF b
  <2> QED
    BY <1>2, <1>6, AbsorbedRuns
<1>8. \A t \in 0 .. T : \A i \in 1 .. Chunk :
        i <= (IF t = T THEN e ELSE Chunk) => u[t].buf[i] = w[(q + t) * Chunk + i]
  <2>1. BuffersHave(u, m, data)
    BY <1>7, BuffersAre, Zenon
  <2> QED
    BY <2>1, Zenon DEF BuffersHave, Limit
<1> HIDE DEF b, T, e, q
<1>9. Chunks(w) = q + T /\ Len(w) % Chunk = e
  <2> DEFINE y == q * Chunk
             z == T * Chunk
             all == (q + T) * Chunk
  <2>1. Len(m) = y + b /\ b + Len(data) = z + e /\ y \in Nat /\ z \in Nat /\ all = y + z
    BY <1>1, <1>2, <1>3
  <2> HIDE DEF y, z, w, all
  <2>2. b \in Int /\ e \in Int
    BY <1>1, <1>2, <1>3
  <2> DEFINE l == Len(m)
             d == Len(data)
             n == Len(w)
  <2>3. n = l + d /\ l = y + b /\ b + d = z + e /\ l \in Int /\ d \in Int
    BY <1>1, <1>4, <2>1
  <2> HIDE DEF l, d, n
  <2>5. n = all + e
    BY <2>1, <2>2, <2>3
  <2>4. q + T \in Nat /\ Len(w) \in Nat
    BY <1>1, <1>2, <1>3, <1>4
  <2> QED
    BY <1>3, <2>4, <2>5, SoManyChunks DEF Chunks, all, n
<1> HIDE DEF w
<1> DEFINE c == [t \in 0 .. q + T |-> IF t <= q THEN a[t] ELSE u[t - q].s]
<1>10. \A t \in 0 .. T : u[t].s \in States /\ u[t].buf \in Buffers
  BY <1>7
<1>11. \A t \in 0 .. q + T : (t <= q => t \in 0 .. q) /\ (~(t <= q) => t - q \in 1 .. T /\ t - q \in 0 .. T)
  BY <1>2, <1>3
<1>12. c \in [0 .. q + T -> States]
  BY <1>5, <1>10, <1>11
<1>13. \A t \in 0 .. q + T : c[t] = IF t <= q THEN a[t] ELSE u[t - q].s
  OBVIOUS
<1> HIDE DEF c
<1>14. u[0].s = s
  <2>1. 0 \in 0 .. T
    BY <1>3
  <2> QED
    BY <1>7, <2>1 DEF AbsorbedBy, T
<1>15. \A t \in q .. q + T : c[t] = u[t - q].s
  <2>1. c[q] = a[q] /\ q - q = 0
    BY <1>2, <1>3, <1>13
  <2>2. ASSUME NEW t \in q .. q + T, t # q PROVE t \in 0 .. q + T /\ ~(t <= q)
    BY <1>2, <1>3, <2>2
  <2> QED
    BY <1>5, <1>13, <1>14, <2>1, <2>2
<1>16. ASSUME NEW t \in 0 .. q + T
       PROVE  c[t] = IF t = 0 THEN InitialState ELSE transform(c[t - 1], Block(w, t))
  <2>1. CASE t = 0
    <3>1. t <= q /\ t \in 0 .. q
      BY <1>2, <2>1
    <3>2. a[t] = InitialState
      BY <1>5, <2>1, <3>1 DEF Chained
    <3> QED
      BY <1>13, <2>1, <3>1, <3>2
  <2>2. CASE t # 0 /\ t <= q
    <3>1. t \in 1 .. q /\ t \in 0 .. q /\ t - 1 \in 0 .. q + T /\ t - 1 <= q
      BY <1>2, <1>3, <2>2
    <3>2. a[t] = transform(a[t - 1], Block(m, t))
      BY <1>5, <2>2, <3>1 DEF Chained
    <3>3. Block(w, t) = Block(m, t)
      BY <3>1, EarlierBlocks DEF w, q
    <3>4. c[t] = a[t] /\ c[t - 1] = a[t - 1]
      BY <1>13, <2>2, <3>1
    <3> QED
      BY <2>2, <3>2, <3>3, <3>4
  <2>3. CASE ~(t <= q)
    <3> DEFINE k == t - q
    <3>1. k \in 1 .. T /\ k \in 0 .. T /\ k - 1 \in 0 .. T /\ k # 0 /\ k - 1 # T
      BY <1>2, <1>3, <2>3
    <3>2. t - 1 \in q .. q + T /\ (t - 1) - q = k - 1 /\ q + (k - 1) = t - 1 /\ t \in 1 .. q + T
      BY <1>2, <1>3, <2>3
    <3>3. c[t] = u[k].s /\ c[t - 1] = u[k - 1].s
      BY <1>13, <1>15, <2>3, <3>2
    <3> HIDE DEF k
    <3>4. u[k].s = transform(u[k - 1].s, u[k - 1].buf)
      <4>1. u = [j \in 0 .. T |->
                   IF j = 0 THEN [s |-> s, buf |-> Filled(buf, b, Piece(b, data, 0))]
                   ELSE [s   |-> transform(u[j - 1].s, u[j - 1].buf),
                         buf |-> Filled(u[j - 1].buf, 0, Piece(b, data, j))]]
        BY <1>7 DEF AbsorbedBy, T
      <4>2. u[k] = IF k = 0 THEN [s |-> s, buf |-> Filled(buf, b, Piece(b, data, 0))]
                   ELSE [s   |-> transform(u[k - 1].s, u[k - 1].buf),
                         buf |-> Filled(u[k - 1].buf, 0, Piece(b, data, k))]
        BY <3>1, <4>1, Zenon
      <4> QED
        BY <3>1, <4>2
    <3>5. t \in 1 .. Chunks(w)
      BY <1>9, <3>2
    <3>6. Block(w, t) \in Buffers /\ \A i \in 1 .. Chunk : Block(w, t)[i] = w[(t - 1) * Chunk + i]
      BY <1>4, <3>5, BlockIs
    <3>7. \A i \in 1 .. Chunk : u[k - 1].buf[i] = w[(t - 1) * Chunk + i]
      <4>1. \A i \in 1 .. Chunk : i <= Chunk
        BY <1>1
      <4> QED
        BY <1>8, <3>1, <3>2, <4>1
    <3>8. u[k - 1].buf \in Buffers
      BY <1>10, <3>1
    <3>9. u[k - 1].buf = Block(w, t)
      BY <3>6, <3>7, <3>8, SameBuffers
    <3>10. t # 0
      BY <1>2, <2>3
    <3> QED
      BY <3>3, <3>4, <3>9, <3>10
  <2> QED
    BY <2>1, <2>2, <2>3
<1>17. c = [t \in 0 .. q + T |-> IF t = 0 THEN InitialState ELSE transform(c[t - 1], Block(w, t))]
  BY <1>12, <1>16
<1>18. Chained(c, w, Chunks(w)) /\ c \in [0 .. Chunks(w) -> States]
  BY <1>9, <1>12, <1>17 DEF Chained
<1>19. u[T].s = c[Chunks(w)]
  <2>1. q + T \in q .. q + T /\ (q + T) - q = T
    BY <1>2, <1>3
  <2> QED
    BY <1>9, <1>15, <2>1
<1>20. \A i \in 1 .. Len(w) % Chunk : u[T].buf[i] = w[Chunks(w) * Chunk + i]
  <2>1. T \in 0 .. T
    BY <1>3
  <2>2. \A i \in 1 .. e : i \in 1 .. Chunk /\ i <= e
    BY <1>1, <1>3
  <2> QED
    BY <1>8, <1>9, <2>1, <2>2
<1>21. u[T].buf \in Buffers
  BY <1>3, <1>10
<1>22. Kept(States, u[T].s, u[T].buf, w)
  BY <1>18, <1>19, <1>20, <1>21, Zenon DEF Kept
<1> QED
  BY <1>7, <1>22 DEF w, b

(* Data is appended to the message.                                        *)
LEMMA WriteAppends ==
  ASSUME NEW States, Compression(States), NEW m \in Seq(ByteValues), NEW data \in Seq(ByteValues),
         NEW object, Holds(States, object, m)
  PROVE  Holds(States, sha256_write(object, data), m \o data)
<1> DEFINE after == Absorbed(object.s, object.buf, Len(m) % Chunk, data)
           written == sha256_write(object, data)
<1>1. Kept(States, after.s, after.buf, m \o data)
  BY AbsorbedIsKept DEF Holds
<1> HIDE DEF after
<1>2. written = [s |-> after.s, buf |-> after.buf, bytes |-> Len(m) + Len(data)]
  BY DEF sha256_write, Holds, after
<1> HIDE DEF written
<1>3. written.s = after.s /\ written.buf = after.buf /\ written.bytes = Len(m) + Len(data)
  BY <1>2
<1>4. Len(m \o data) = Len(m) + Len(data)
  BY ConcatProperties, Zenon
<1>5. Holds(States, written, m \o data)
  BY <1>1, <1>3, <1>4 DEF Holds
<1> QED
  BY <1>5 DEF written

(* The standard goes through the same states as a chain.                   *)
LEMMA StandardChain ==
  ASSUME NEW States, NEW m \in Seq(ByteValues), Len(Padded(m)) \in Nat,
         NEW a \in [0 .. Chunks(Padded(m)) -> States],
         Chained(a, Padded(m), Chunks(Padded(m)))
  PROVE  Sha256Of(m) = DigestOf(a[Chunks(Padded(m))])
<1> DEFINE p == Padded(m)
           n == Chunks(p)
           c == CHOOSE after : Chained(after, p, n)
<1>1. n \in Nat
  BY InChunks DEF Chunks
<1>2. Chained(c, p, n)
  BY Zenon
<1>3. Sha256Of(m) = DigestOf(c[n])
  BY DEF Sha256Of, Chained, Chunks, Block
<1> HIDE DEF c, n, p
<1>4. /\ c = [t \in 0 .. n |-> IF t = 0 THEN InitialState ELSE transform(c[t - 1], Block(p, t))]
      /\ a = [t \in 0 .. n |-> IF t = 0 THEN InitialState ELSE transform(a[t - 1], Block(p, t))]
  BY <1>2 DEF Chained, p, n
<1> DEFINE Same == {t \in 0 .. n : c[t] = a[t]}
<1>5. 0 .. n \subseteq Same
  <2>1. 0 \in Same
    <3>1. 0 \in 0 .. n
      BY <1>1
    <3>2. c[0] = InitialState
      BY <1>4, <3>1
    <3>3. a[0] = InitialState
      BY <1>4, <3>1
    <3> QED
      BY <3>1, <3>2, <3>3
  <2>2. ASSUME NEW t \in 0 .. n - 1, t \in Same PROVE t + 1 \in Same
    <3>1. t + 1 \in 0 .. n /\ t + 1 # 0 /\ (t + 1) - 1 = t
      BY <1>1
    <3>2. c[t + 1] = transform(c[t], Block(p, t + 1))
      BY <1>4, <3>1
    <3>3. a[t + 1] = transform(a[t], Block(p, t + 1))
      BY <1>4, <3>1
    <3> QED
      BY <2>2, <3>1, <3>2, <3>3
  <2>3. 0 \in Int /\ n \in Int
    BY <1>1
  <2> HIDE DEF Same
  <2> QED
    BY <2>1, <2>2, <2>3, RangeInduction
<1>6. n \in 0 .. n
  BY <1>1
<1>7. c[n] = a[n]
  BY <1>5, <1>6
<1> QED
  BY <1>3, <1>7 DEF p, n

-----------------------------------------------------------------------------
(* Bytes that are all the same.                                            *)
LEMMA SameBytes ==
  ASSUME NEW byte \in ByteValues, NEW n \in Nat
  PROVE  /\ memset(byte, n) \in Seq(ByteValues) /\ Len(memset(byte, n)) = n
         /\ \A i \in 1 .. n : memset(byte, n)[i] = byte
<1>1. memset(byte, n) \in [1 .. n -> ByteValues]
  BY DEF memset
<1>2. memset(byte, n) \in Seq(ByteValues)
  BY <1>1, SeqDef, Zenon
<1>3. memset(byte, n) = [i \in 1 .. n |-> byte]
  BY DEF memset
<1> QED
  BY <1>2, <1>3

(* A function from the first places on is a sequence.                      *)
LEMMA FirstPlaces ==
  ASSUME NEW S, NEW n \in Nat, NEW f \in [1 .. n -> S]
  PROVE  f \in Seq(S) /\ Len(f) = n
<1>1. f \in Seq(S)
  BY SeqDef, Zenon
<1> QED
  BY <1>1

(* A byte alone.                                                           *)
LEMMA OneByte ==
  ASSUME NEW byte \in ByteValues
  PROVE  <<byte>> \in Seq(ByteValues) /\ Len(<<byte>>) = 1 /\ <<byte>>[1] = byte
OBVIOUS

(* The values of a word are numbers, and a word is so many times eight.    *)
LEMMA WordIs == Word \in Nat \ {0} /\ Word \div 8 \in Nat \ {0} /\ Word = 8 * (Word \div 8)
<1>1. WordBytes \in 0 .. WordBytes
  BY WordAssumption
<1>2. Word \in Nat \ {0} /\ Word % 8 = 0
  BY <1>1, WordAssumption DEF Word
<1> HIDE DEF Word
<1> QED
  BY <1>2

(* A digest is a short message, also behind a chunk.                       *)
LEMMA DigestsFit == 8 * DigestSize < Word * Word /\ 8 * (Chunk + DigestSize) < Word * Word
<1> DEFINE w == Word * Word
<1>1. w \in Nat /\ 8 * (Chunk + DigestSize + 1) < w /\ Chunk \in Nat /\ DigestSize \in Nat
  <2>1. Word \in Nat
    BY WordIs
  <2> QED
    BY <2>1, ChunkIs, ChunksAssumption
<1> HIDE DEF w
<1>2. 8 * DigestSize < w /\ 8 * (Chunk + DigestSize) < w
  BY <1>1
<1> QED
  BY <1>2 DEF w

(* A word has its bytes.                                                   *)
LEMMA WordsBytes ==
  ASSUME NEW word \in Nat
  PROVE  BE32(word) \in Seq(ByteValues) /\ Len(BE32(word)) = WordBytes
<1>1. WordBytes \in Nat
  BY WordAssumption
<1>2. ASSUME NEW i \in 1 .. WordBytes
      PROVE  (word \div 256 ^ (WordBytes - i)) % 256 \in ByteValues
  <2>1. WordBytes - i \in 0 .. WordBytes
    BY <1>1
  <2>2. 256 ^ (WordBytes - i) \in Nat \ {0}
    BY <2>1, WordAssumption
  <2> DEFINE d == 256 ^ (WordBytes - i)
  <2> HIDE DEF d
  <2>3. word \div d \in Int
    BY <2>2 DEF d
  <2>4. (word \div d) % 256 \in 0 .. 255
    BY <2>3
  <2> QED
    BY <2>4 DEF d, ByteValues
<1>3. BE32(word) \in [1 .. WordBytes -> ByteValues]
  BY <1>2 DEF BE32
<1> QED
  BY <1>1, <1>3, FirstPlaces, Zenon

(* The size in bits is a number of two words, and its upper word is not    *)
(* cut off.                                                                *)
LEMMA SizeIs ==
  ASSUME NEW n \in Nat, 8 * n < Word * Word
  PROVE  /\ (8 * n) \div Word \in Nat /\ (8 * n) % Word \in Nat
         /\ (n \div (Word \div 8)) % Word = (8 * n) \div Word
         /\ (n * 8) % Word = (8 * n) % Word
<1> DEFINE k == Word \div 8
           w == Word
<1>1. k \in Nat \ {0} /\ w \in Nat \ {0} /\ w = 8 * k
  BY WordIs
<1> HIDE DEF k, w
<1>2. 8 * n < w * w
  BY DEF w
<1> DEFINE q == n \div k
           r == n % k
<1>3. q \in Int /\ r \in 0 .. k - 1 /\ n = k * q + r
  BY <1>1
<1>4. q \in Nat
  BY <1>1
<1> HIDE DEF q, r
<1>5. 8 * n = q * w + 8 * r
  <2>1. q * w = 8 * (k * q)
    BY <1>1, <1>4
  <2>2. k * q \in Int
    BY <1>1, <1>4
  <2> QED
    BY <1>1, <1>3, <2>1, <2>2
<1> DEFINE p == (8 * n) \div w
           s == (8 * n) % w
<1>6. p \in Int /\ s \in 0 .. w - 1 /\ 8 * n = p * w + s
  <2>1. 8 * n \in Nat
    OBVIOUS
  <2>2. p \in Int /\ s \in 0 .. w - 1 /\ 8 * n = w * p + s
    BY <1>1, <2>1
  <2>3. w * p = p * w
    BY <1>1, <2>2
  <2> QED
    BY <2>2, <2>3
<1> HIDE DEF p, s
<1>7. 8 * r \in 0 .. w - 1
  BY <1>1, <1>3
<1>8. q * w + 8 * r = p * w + s
  BY <1>5, <1>6
<1> DEFINE o == 8 * r
<1>9. o \in 0 .. w - 1 /\ q * w + o = p * w + s /\ q \in Int
  BY <1>4, <1>7, <1>8
<1> HIDE DEF o
<1>10. q = p /\ o = s
  BY <1>1, <1>6, <1>9, OneQuotient
<1>11. q < w
  <2>1. ASSUME q >= w PROVE FALSE
    <3>1. (q - w) * w >= 0
      BY <1>1, <1>4, <2>1
    <3>2. (q - w) * w = q * w - w * w /\ q * w \in Int /\ w * w \in Int
      BY <1>1, <1>4
    <3>3. 8 * n >= q * w
      BY <1>3, <1>5, <3>2
    <3> QED
      BY <1>2, <3>1, <3>2, <3>3
  <2> QED
    BY <1>1, <1>4, <2>1
<1>12. q % w = q
  BY <1>1, <1>4, <1>11
<1>13. n * 8 = 8 * n
  OBVIOUS
<1>14. s \in Nat
  BY <1>1, <1>6
<1> QED
  BY <1>4, <1>10, <1>12, <1>13, <1>14 DEF p, q, s, k, w

(* The padding is what the standard asks for: a bit, the fewest zeros, and *)
(* the size.                                                               *)
LEMMA FewestZeros ==
  ASSUME NEW n \in Nat
  PROVE  LET z == PadLength(n) - 1
         IN /\ z \in 0 .. Chunk - 1
            /\ z = CHOOSE zeros \in 0 .. Chunk - 1 : (n + 1 + zeros + SizeBytes) % Chunk = 0
            /\ (n + 1 + z + SizeBytes) % Chunk = 0
<1> DEFINE b == n % Chunk
           q == n \div Chunk
           x == 2 * Chunk - SizeBytes - 1 - b
           z == x % Chunk
           y == x \div Chunk
<1>1. Chunk \in Nat \ {0} /\ SizeBytes \in Nat
  BY ChunkIs, WordAssumption DEF SizeBytes
<1>2. b \in 0 .. Chunk - 1 /\ q \in Nat /\ n = q * Chunk + b
  BY InChunks
<1>3. PadLength(n) - 1 = z
  <2>1. PadLength(n) = 1 + z
    BY DEF PadLength
  <2> HIDE DEF b
  <2>2. x \in Int
    BY <1>1, <1>2
  <2> HIDE DEF x
  <2>3. z \in Int
    BY <1>1, <2>2
  <2> HIDE DEF z
  <2> QED
    BY <2>1, <2>3
<1> HIDE DEF b, q
<1>4. x \in Int
  BY <1>1, <1>2
<1> DEFINE c == Chunk
           s == SizeBytes
<1>5. x = 2 * c - s - 1 - b
  OBVIOUS
<1> HIDE DEF x
<1>6. y \in Int /\ z \in 0 .. Chunk - 1 /\ x = Chunk * y + z
  BY <1>1, <1>4
<1>7. x = y * Chunk + z
  <2>1. Chunk * y = y * Chunk
    BY <1>1, <1>6
  <2> QED
    BY <1>6, <2>1
<1> HIDE DEF y, z
<1> DEFINE k == q + 2 - y
<1>8. k \in Int /\ n + 1 + z + SizeBytes = k * Chunk
  <2>1. k * Chunk = q * Chunk + 2 * Chunk - y * Chunk
    BY <1>1, <1>2, <1>6
  <2> DEFINE u == q * Chunk
             v == y * Chunk
             t == k * Chunk
  <2>2. t = u + 2 * c - v /\ n = u + b /\ x = v + z /\ u \in Int /\ v \in Int
    BY <1>1, <1>2, <1>6, <1>7, <2>1
  <2>3. c \in Int /\ s \in Int /\ b \in Int /\ z \in Int
    BY <1>1, <1>2, <1>6
  <2> HIDE DEF u, v, t, c, s
  <2>4. n + 1 + z + s = t
    BY <1>5, <2>2, <2>3
  <2> QED
    BY <1>2, <1>6, <2>4 DEF t, s
<1> HIDE DEF k
<1>9. ASSUME NEW w \in 0 .. Chunk - 1
      PROVE  (n + 1 + w + SizeBytes) % Chunk = 0 <=> w = z
  <2> DEFINE l == n + 1 + w + SizeBytes
             p == l \div Chunk
             r == l % Chunk
  <2>1. l \in Nat
    BY <1>1
  <2>2. p \in Nat /\ r \in 0 .. Chunk - 1 /\ l = p * Chunk + r
    BY <2>1, InChunks
  <2>3. l + z = k * Chunk + w
    BY <1>1, <1>2, <1>6, <1>8
  <2> HIDE DEF l, p, r
  <2>4. ASSUME r = 0 PROVE w = z
    <3>1. p * Chunk + z = k * Chunk + w
      BY <1>1, <2>2, <2>3, <2>4
    <3>2. p \in Int
      BY <2>2
    <3> QED
      BY <1>1, <1>6, <1>8, <3>1, <3>2, OneQuotient, Zenon
  <2>5. ASSUME w = z PROVE r = 0
    <3>1. l = k * Chunk
      BY <1>1, <1>6, <1>8, <2>1, <2>3, <2>5
    <3>2. p * Chunk + r = k * Chunk + 0 /\ 0 \in 0 .. Chunk - 1
      BY <1>1, <1>8, <2>2, <3>1
    <3> QED
      BY <1>1, <1>8, <2>2, <3>2, OneQuotient
  <2> QED
    BY <2>4, <2>5 DEF l, r
<1>10. (CHOOSE zeros \in 0 .. Chunk - 1 : (n + 1 + zeros + SizeBytes) % Chunk = 0) = z
  BY <1>6, <1>9
<1> QED
  BY <1>3, <1>6, <1>9, <1>10

(* The padding is written from a constant array, and then the size: the    *)
(* bytes are those of the standard, and whole chunks.                      *)
LEMMA PaddingIs ==
  ASSUME NEW m \in Seq(ByteValues), 8 * Len(m) < Word * Word
  PROVE  /\ SubSeq(Pad, 1, PadLength(Len(m))) \in Seq(ByteValues)
         /\ sizedesc(Len(m)) \in Seq(ByteValues)
         /\ Padded(m) = (m \o SubSeq(Pad, 1, PadLength(Len(m)))) \o sizedesc(Len(m))
         /\ Padded(m) \in Seq(ByteValues)
         /\ Len(Padded(m)) % Chunk = 0
<1> DEFINE n == Len(m)
           z == PadLength(n) - 1
           mark == <<128>>
           zeros == memset(0, z)
           pad == SubSeq(Pad, 1, PadLength(n))
           hi == BE32((8 * n) \div Word)
           lo == BE32((8 * n) % Word)
<1>1. n \in Nat /\ Chunk \in Nat \ {0} /\ 0 \in ByteValues /\ WordBytes \in Nat
  BY LenProperties, ChunkIs, WordAssumption DEF ByteValues
<1>2. mark \in Seq(ByteValues) /\ Len(mark) = 1 /\ \A i \in 1 .. 1 : mark[i] = mark[1]
  <2>1. 128 \in ByteValues
    BY DEF ByteValues
  <2> QED
    BY <2>1, OneByte
<1>3. /\ z \in 0 .. Chunk - 1
      /\ z = CHOOSE w \in 0 .. Chunk - 1 : (n + 1 + w + SizeBytes) % Chunk = 0
      /\ (n + 1 + z + SizeBytes) % Chunk = 0
  BY <1>1, FewestZeros
<1>4. PadLength(n) = 1 + z
  <2>1. PadLength(n) \in Int
    BY <1>1, ChunkIs, WordAssumption DEF PadLength, SizeBytes
  <2> HIDE DEF n
  <2> QED
    BY <2>1
<1>5. hi \in Seq(ByteValues) /\ lo \in Seq(ByteValues) /\ Len(hi) = WordBytes /\ Len(lo) = WordBytes
  BY <1>1, SizeIs, WordsBytes
<1>6. sizedesc(n) = hi \o lo
  BY <1>1, SizeIs DEF sizedesc
<1>7. Padded(m) = m \o mark \o zeros \o hi \o lo
  BY <1>3 DEF Padded
<1> HIDE DEF z, n, mark, hi, lo
<1>8. zeros \in Seq(ByteValues) /\ Len(zeros) = z /\ \A i \in 1 .. z : zeros[i] = 0
  <2>1. z \in Nat
    BY <1>1, <1>3
  <2> QED
    BY <1>1, <2>1, SameBytes, Zenon
<1> HIDE DEF zeros
<1>9. pad = mark \o zeros
  <2> DEFINE tail == memset(0, Chunk - 1)
             both == mark \o zeros
  <2>1. tail \in Seq(ByteValues) /\ Len(tail) = Chunk - 1 /\ \A i \in 1 .. Chunk - 1 : tail[i] = 0
    <3>1. Chunk - 1 \in Nat
      BY <1>1
    <3> QED
      BY <1>1, <3>1, SameBytes
  <2>2. Pad = mark \o tail
    BY DEF Pad, mark
  <2> HIDE DEF tail, both
  <2>3. /\ Pad \in Seq(ByteValues) /\ Len(Pad) = Len(mark) + Len(tail)
        /\ \A i \in 1 .. Len(mark) + Len(tail) :
             Pad[i] = IF i <= Len(mark) THEN mark[i] ELSE tail[i - Len(mark)]
    BY <1>2, <2>1, <2>2, ConcatProperties, Zenon
  <2>4. Len(mark) + Len(tail) = Chunk
    BY <1>1, <1>2, <2>1
  <2>5. 1 \in 1 .. Len(Pad) + 1 /\ 1 + z \in 1 - 1 .. Len(Pad) /\ (1 + z) - 1 + 1 = 1 + z
    BY <1>1, <1>3, <2>3, <2>4
  <2>6. /\ pad \in Seq(ByteValues) /\ Len(pad) = (1 + z) - 1 + 1
        /\ \A i \in 1 .. (1 + z) - 1 + 1 : pad[i] = Pad[1 + i - 1]
    <3>1. pad = SubSeq(Pad, 1, 1 + z)
      BY <1>4
    <3>2. /\ SubSeq(Pad, 1, 1 + z) \in Seq(ByteValues) /\ Len(SubSeq(Pad, 1, 1 + z)) = (1 + z) - 1 + 1
          /\ \A i \in 1 .. (1 + z) - 1 + 1 : SubSeq(Pad, 1, 1 + z)[i] = Pad[1 + i - 1]
      BY <2>3, <2>5, PartOf, Zenon
    <3> QED
      BY <3>1, <3>2, Zenon
  <2>7. /\ both \in Seq(ByteValues) /\ Len(both) = Len(mark) + Len(zeros)
        /\ \A i \in 1 .. Len(mark) + Len(zeros) :
             both[i] = IF i <= Len(mark) THEN mark[i] ELSE zeros[i - Len(mark)]
    BY <1>2, <1>8, ConcatProperties, Zenon DEF both
  <2> HIDE DEF pad
  <2>8. Len(pad) = 1 + z /\ Len(both) = 1 + z
    BY <1>2, <1>3, <1>8, <2>5, <2>6, <2>7
  <2>9. ASSUME NEW i \in 1 .. 1 + z PROVE pad[i] = both[i]
    <3>1. pad[i] = Pad[i]
      <4>1. i \in 1 .. (1 + z) - 1 + 1 /\ 1 + i - 1 = i
        BY <1>3, <2>5
      <4> QED
        BY <2>6, <4>1
    <3>2. i \in 1 .. Len(mark) + Len(tail) /\ i \in 1 .. Len(mark) + Len(zeros)
      <4>1. i \in 1 .. Chunk /\ i \in 1 .. 1 + z
        BY <1>1, <1>3
      <4> QED
        BY <1>2, <1>8, <2>4, <4>1, Zenon
    <3>3. Pad[i] = IF i <= 1 THEN mark[i] ELSE tail[i - 1]
      BY <1>2, <2>3, <3>2
    <3>4. both[i] = IF i <= 1 THEN mark[i] ELSE zeros[i - 1]
      BY <1>2, <2>7, <3>2
    <3>5. CASE i <= 1
      BY <3>1, <3>3, <3>4, <3>5
    <3>6. CASE ~(i <= 1)
      <4>1. i - 1 \in 1 .. Chunk - 1 /\ i - 1 \in 1 .. z
        BY <1>1, <1>3, <3>6
      <4> QED
        BY <1>8, <2>1, <3>1, <3>3, <3>4, <3>6, <4>1
    <3> QED
      BY <3>5, <3>6
  <2>10. pad = both
    BY <2>6, <2>7, <2>8, <2>9, SeqEqual
  <2> QED
    BY <2>10 DEF both
<1> HIDE DEF pad
<1>10. mark \o zeros \in Seq(ByteValues) /\ Len(mark \o zeros) = 1 + z
  <2>1. mark \o zeros \in Seq(ByteValues) /\ Len(mark \o zeros) = Len(mark) + Len(zeros)
    BY <1>2, <1>8, ConcatProperties, Zenon
  <2> QED
    BY <1>2, <1>8, <2>1, Zenon
<1>11. (m \o mark) \o zeros = m \o pad
  BY <1>2, <1>8, <1>9, ConcatAssociative
<1>12. m \o pad \in Seq(ByteValues) /\ Len(m \o pad) = n + (1 + z)
  <2>1. m \o pad \in Seq(ByteValues) /\ Len(m \o pad) = Len(m) + Len(pad)
    BY <1>9, <1>10, ConcatProperties, Zenon
  <2> QED
    BY <1>9, <1>10, <2>1, Zenon DEF n
<1>13. hi \o lo \in Seq(ByteValues) /\ Len(hi \o lo) = WordBytes + WordBytes
  <2>1. hi \o lo \in Seq(ByteValues) /\ Len(hi \o lo) = Len(hi) + Len(lo)
    BY <1>5, ConcatProperties, Zenon
  <2> QED
    BY <1>5, <2>1, Zenon
<1>14. ((m \o pad) \o hi) \o lo = (m \o pad) \o (hi \o lo)
  <2> DEFINE x == m \o pad
  <2>1. x \in Seq(ByteValues) /\ hi \in Seq(ByteValues) /\ lo \in Seq(ByteValues)
    BY <1>5, <1>12
  <2> HIDE DEF x
  <2>2. (x \o hi) \o lo = x \o (hi \o lo)
    BY <2>1, ConcatAssociative
  <2> QED
    BY <2>2 DEF x
<1>15. Padded(m) = (m \o pad) \o (hi \o lo)
  BY <1>7, <1>11, <1>14
<1>16. /\ (m \o pad) \o (hi \o lo) \in Seq(ByteValues)
       /\ Len((m \o pad) \o (hi \o lo)) = (n + (1 + z)) + (WordBytes + WordBytes)
  <2>1. /\ (m \o pad) \o (hi \o lo) \in Seq(ByteValues)
        /\ Len((m \o pad) \o (hi \o lo)) = Len(m \o pad) + Len(hi \o lo)
    BY <1>12, <1>13, ConcatProperties, Zenon
  <2> QED
    BY <1>12, <1>13, <2>1, Zenon
<1>17. (n + (1 + z)) + (WordBytes + WordBytes) = n + 1 + z + SizeBytes
  BY <1>1, <1>3 DEF SizeBytes
<1>18. pad \in Seq(ByteValues)
  BY <1>9, <1>10
<1> QED
  BY <1>3, <1>6, <1>13, <1>15, <1>16, <1>17, <1>18 DEF pad, n

(* The digest of an object is the one of the standard.                     *)
LEMMA DigestIs ==
  ASSUME NEW States, Compression(States), NEW m \in Seq(ByteValues), 8 * Len(m) < Word * Word,
         NEW object, Holds(States, object, m)
  PROVE  /\ sha256_finalize(object) = Sha256Of(m)
         /\ Sha256Of(m) \in Seq(ByteValues) /\ Len(Sha256Of(m)) = DigestSize
         /\ Sha256Of(m) # <<>>
         /\ Finalized(object).buf \in Buffers
<1> DEFINE pad == SubSeq(Pad, 1, PadLength(Len(m)))
           size == sizedesc(Len(m))
           first == sha256_write(object, pad)
           closed == sha256_write(first, size)
           p == Padded(m)
           n == Chunks(p)
<1>1. /\ pad \in Seq(ByteValues) /\ size \in Seq(ByteValues)
      /\ p = (m \o pad) \o size /\ p \in Seq(ByteValues) /\ Len(p) % Chunk = 0
  BY PaddingIs
<1>2. closed = Closed(object)
  BY DEF Closed, Holds
<1> HIDE DEF pad, size, p
<1>3. Holds(States, first, m \o pad)
  BY <1>1, WriteAppends
<1>4. m \o pad \in Seq(ByteValues)
  BY <1>1, ConcatProperties
<1> HIDE DEF first
<1>5. Holds(States, closed, p)
  BY <1>1, <1>3, <1>4, WriteAppends
<1>6. PICK a \in [0 .. n -> States] : Chained(a, p, n) /\ closed.s = a[n]
  BY <1>5 DEF Holds, Kept
<1>7. Len(p) \in Nat
  BY <1>1, LenProperties
<1>8. Sha256Of(m) = DigestOf(a[n])
  BY <1>6, <1>7, StandardChain DEF p
<1>9. a[n] \in States
  <2>1. n \in 0 .. n
    BY <1>7, InChunks DEF Chunks
  <2> HIDE DEF n
  <2> QED
    BY <1>6, <2>1
<1>10. DigestOf(a[n]) \in Seq(ByteValues) /\ Len(DigestOf(a[n])) = DigestSize
  BY <1>9 DEF Compression
<1>11. Sha256Of(m) # <<>>
  <2>1. DigestSize # 0
    BY ChunkIs
  <2> QED
    BY <1>8, <1>10, <2>1, EmptySeq
<1>12. sha256_finalize(object) = Sha256Of(m)
  BY <1>2, <1>6, <1>8 DEF sha256_finalize
<1>13. Finalized(object).buf \in Buffers
  <2>1. closed.buf \in Buffers
    BY <1>5 DEF Holds, Kept
  <2>2. closed = [s |-> closed.s, buf |-> closed.buf, bytes |-> closed.bytes]
    BY DEF sha256_write
  <2> HIDE DEF closed
  <2>3. Finalized(object) = [closed EXCEPT !.s = ClearedState]
    BY <1>2 DEF Finalized
  <2> QED
    BY <2>1, <2>2, <2>3
<1> QED
  BY <1>8, <1>10, <1>11, <1>12, <1>13

-----------------------------------------------------------------------------
(* An object that is initialized holds nothing yet, whatever its buffer is.*)
LEMMA NothingHeld ==
  ASSUME NEW States, Compression(States), NEW buf \in Buffers
  PROVE  Holds(States, sha256_initialize(buf), <<>>)
<1> DEFINE object == sha256_initialize(buf)
           a == [t \in 0 .. 0 |-> InitialState]
           empty == <<>>
<1>1. object.s = InitialState /\ object.buf = buf /\ object.bytes = 0
  BY DEF sha256_initialize
<1>2. empty \in Seq(ByteValues) /\ Len(empty) = 0
  OBVIOUS
<1> HIDE DEF object, empty
<1>3. Chunks(empty) = 0 /\ Len(empty) % Chunk = 0
  <2>1. Chunk \in Nat \ {0}
    BY ChunkIs
  <2> QED
    BY <1>2, <2>1 DEF Chunks
<1>4. a \in [0 .. 0 -> States] /\ a[0] = InitialState
  <2>1. InitialState \in States
    BY DEF Compression
  <2> QED
    BY <2>1
<1>5. Chained(a, empty, 0)
  <2>1. \A t \in 0 .. 0 : t = 0
    OBVIOUS
  <2> QED
    BY <2>1 DEF Chained
<1> HIDE DEF a
<1>6. \A i \in 1 .. Len(empty) % Chunk : FALSE
  BY <1>3
<1>7. Kept(States, InitialState, buf, empty)
  BY <1>3, <1>4, <1>5, <1>6, Zenon DEF Kept
<1>8. Holds(States, object, empty)
  BY <1>1, <1>2, <1>7 DEF Holds
<1> QED
  BY <1>8 DEF object, empty

(* What is written first is all that an object holds.                      *)
LEMMA FirstWritten ==
  ASSUME NEW States, Compression(States), NEW buf \in Buffers, NEW data \in Seq(ByteValues)
  PROVE  Holds(States, sha256_write(sha256_initialize(buf), data), data)
<1>1. Holds(States, sha256_initialize(buf), <<>>)
  BY NothingHeld
<1>2. <<>> \in Seq(ByteValues) /\ <<>> \o data = data
  BY EmptySeq, ConcatEmptySeq
<1>3. Holds(States, sha256_write(sha256_initialize(buf), data), <<>> \o data)
  BY <1>1, <1>2, WriteAppends
<1> QED
  BY <1>2, <1>3

(* A mask changes bytes, and a second one takes the first off again.       *)
LEMMA MasksAre ==
  ASSUME NEW block \in Seq(ByteValues)
  PROVE  /\ Masked(block, 92) \in Seq(ByteValues) /\ Len(Masked(block, 92)) = Len(block)
         /\ Masked(block, 54) \in Seq(ByteValues) /\ Len(Masked(block, 54)) = Len(block)
         /\ Masked(Masked(block, 92), ByteXor(92, 54)) = Masked(block, 54)
<1>1. Len(block) \in Nat /\ DOMAIN block = 1 .. Len(block)
  BY LenProperties
<1>2. \A i \in 1 .. Len(block) :
        /\ ByteXor(block[i], 92) \in ByteValues /\ ByteXor(block[i], 54) \in ByteValues
        /\ ByteXor(ByteXor(block[i], 92), ByteXor(92, 54)) = ByteXor(block[i], 54)
  BY ElementOfSeq, XorAssumption DEF ByteValues
<1> DEFINE n == Len(block)
           first == Masked(block, 92)
           second == Masked(block, 54)
<1>3. /\ first = [i \in 1 .. n |-> ByteXor(block[i], 92)]
      /\ second = [i \in 1 .. n |-> ByteXor(block[i], 54)]
  BY <1>1 DEF Masked
<1> HIDE DEF first, second, n
<1>4. first \in [1 .. n -> ByteValues] /\ second \in [1 .. n -> ByteValues]
  BY <1>2, <1>3 DEF n
<1>5. DOMAIN first = 1 .. n
  BY <1>3
<1>6. Masked(first, ByteXor(92, 54)) = [i \in 1 .. n |-> ByteXor(first[i], ByteXor(92, 54))]
  BY <1>5 DEF Masked
<1>7. \A i \in 1 .. n : ByteXor(first[i], ByteXor(92, 54)) = ByteXor(block[i], 54)
  BY <1>2, <1>3 DEF n
<1>8. Masked(first, ByteXor(92, 54)) = second
  BY <1>3, <1>6, <1>7
<1>9. n \in Nat
  BY <1>1 DEF n
<1>10. first \in Seq(ByteValues) /\ Len(first) = n /\ second \in Seq(ByteValues) /\ Len(second) = n
  BY <1>4, <1>9, FirstPlaces, Zenon
<1> QED
  BY <1>8, <1>10 DEF first, second, n

(* The key of an HMAC is one chunk; a long key is replaced by its digest.  *)
LEMMA KeyIs ==
  ASSUME NEW States, Compression(States), NEW k \in Seq(ByteValues), 8 * Len(k) < Word * Word
  PROVE  LET whole == IF Len(k) > Chunk THEN Sha256Of(k) ELSE k
         IN /\ HmacKey(k) = whole \o memset(0, Chunk - Len(whole))
            /\ HmacKey(k) \in Seq(ByteValues) /\ Len(HmacKey(k)) = Chunk
<1> DEFINE whole == IF Len(k) > Chunk THEN Sha256Of(k) ELSE k
           zeros == memset(0, Chunk - Len(whole))
           object == sha256_write(sha256_initialize(memset(0, Chunk)), k)
<1>1. Len(k) \in Nat /\ Chunk \in Nat \ {0} /\ DigestSize \in 1 .. Chunk /\ 0 \in ByteValues
  BY LenProperties, ChunkIs DEF ByteValues
<1>2. memset(0, Chunk) \in Buffers
  BY <1>1 DEF memset, Buffers
<1>3. Holds(States, object, k)
  BY <1>2, FirstWritten
<1>4. /\ sha256_finalize(object) = Sha256Of(k)
      /\ Sha256Of(k) \in Seq(ByteValues) /\ Len(Sha256Of(k)) = DigestSize
  BY <1>3, DigestIs
<1>5. Len(k) <= Chunk <=> ~(Len(k) > Chunk)
  BY <1>1
<1>6. HmacKey(k) = whole \o zeros
  BY <1>4, <1>5 DEF HmacKey
<1>7. whole \in Seq(ByteValues) /\ Len(whole) \in 0 .. Chunk
  BY <1>1, <1>4
<1> HIDE DEF whole
<1>8. Chunk - Len(whole) \in Nat /\ Len(whole) \in Int
  BY <1>1, <1>7
<1>9. zeros \in Seq(ByteValues) /\ Len(zeros) = Chunk - Len(whole)
  BY <1>1, <1>8, SameBytes, Zenon
<1> HIDE DEF zeros
<1>10. whole \o zeros \in Seq(ByteValues) /\ Len(whole \o zeros) = Len(whole) + Len(zeros)
  BY <1>7, <1>9, ConcatProperties, Zenon
<1>11. Len(whole) + Len(zeros) = Chunk
  BY <1>1, <1>8, <1>9
<1> QED
  BY <1>6, <1>10, <1>11 DEF whole, zeros

\* Both objects of an HMAC: the outer one waits for the digest of the inner one.
HmacHolds(States, hmac, k, m) ==
  /\ hmac = [outer |-> hmac.outer, inner |-> hmac.inner]
  /\ Holds(States, hmac.outer, Masked(HmacKey(k), 92))
  /\ Holds(States, hmac.inner, Masked(HmacKey(k), 54) \o m)

(* The standard in terms of the masked key.                                *)
LEMMA HmacIs ==
  ASSUME NEW States, Compression(States), NEW k \in Seq(ByteValues), 8 * Len(k) < Word * Word, NEW m
  PROVE  HmacOf(k, m) = Sha256Of(Masked(HmacKey(k), 92) \o Sha256Of(Masked(HmacKey(k), 54) \o m))
<1> DEFINE whole == IF Len(k) > Chunk THEN Sha256Of(k) ELSE k
           block == whole \o memset(0, Chunk - Len(whole))
           Under(mask) == [i \in 1 .. Chunk |-> ByteXor(block[i], mask)]
<1>1. block = HmacKey(k) /\ block \in Seq(ByteValues) /\ Len(block) = Chunk
  BY KeyIs
<1>2. HmacOf(k, m) = Sha256Of(Under(92) \o Sha256Of(Under(54) \o m))
  BY DEF HmacOf
<1> HIDE DEF block
<1>3. DOMAIN block = 1 .. Chunk
  BY <1>1, LenProperties
<1>4. Under(92) = Masked(block, 92) /\ Under(54) = Masked(block, 54)
  BY <1>3 DEF Masked
<1> HIDE DEF Under
<1> QED
  BY <1>1, <1>2, <1>4

(* An HMAC with nothing written yet.                                       *)
LEMMA HmacBegins ==
  ASSUME NEW States, Compression(States), NEW k \in Seq(ByteValues), 8 * Len(k) < Word * Word,
         NEW buf \in Buffers
  PROVE  HmacHolds(States, hmac_initialize(k, buf), k, <<>>)
<1> DEFINE block == HmacKey(k)
           outer == sha256_write(sha256_initialize(buf), Masked(block, 92))
           twice == Masked(Masked(block, 92), ByteXor(92, 54))
           inner == sha256_write(sha256_initialize(buf), twice)
           hmac == hmac_initialize(k, buf)
<1>1. block \in Seq(ByteValues)
  BY KeyIs
<1>2. hmac = [outer |-> outer, inner |-> inner]
  BY DEF hmac_initialize, HmacFrom
<1> HIDE DEF block, outer, inner, hmac, twice
<1>3. /\ Masked(block, 92) \in Seq(ByteValues) /\ Masked(block, 54) \in Seq(ByteValues)
      /\ twice = Masked(block, 54)
  BY <1>1, MasksAre DEF twice
<1>4. Holds(States, outer, Masked(block, 92))
  BY <1>3, FirstWritten DEF outer
<1>5. Holds(States, inner, Masked(block, 54))
  BY <1>3, FirstWritten DEF inner
<1>6. Masked(block, 54) \o <<>> = Masked(block, 54)
  BY <1>3, ConcatEmptySeq
<1>7. hmac.outer = outer /\ hmac.inner = inner
  BY <1>2
<1>8. HmacHolds(States, hmac, k, <<>>)
  BY <1>2, <1>4, <1>5, <1>6, <1>7 DEF HmacHolds, block
<1> QED
  BY <1>8 DEF hmac

(* Data goes to the inner object.                                          *)
LEMMA HmacAppends ==
  ASSUME NEW States, Compression(States), NEW k \in Seq(ByteValues), 8 * Len(k) < Word * Word,
         NEW m \in Seq(ByteValues), NEW data \in Seq(ByteValues), NEW hmac, HmacHolds(States, hmac, k, m)
  PROVE  HmacHolds(States, hmac_write(hmac, data), k, m \o data)
<1> DEFINE under == Masked(HmacKey(k), 54)
           inner == sha256_write(hmac.inner, data)
           written == hmac_write(hmac, data)
<1>1. under \in Seq(ByteValues)
  <2>1. HmacKey(k) \in Seq(ByteValues)
    BY KeyIs
  <2> QED
    BY <2>1, MasksAre
<1>2. hmac = [outer |-> hmac.outer, inner |-> hmac.inner] /\ Holds(States, hmac.inner, under \o m)
  BY DEF HmacHolds
<1>3. written = [hmac EXCEPT !.inner = inner]
  BY DEF hmac_write
<1> HIDE DEF under, inner, written
<1>4. under \o m \in Seq(ByteValues)
  BY <1>1, ConcatProperties, Zenon
<1>5. Holds(States, inner, (under \o m) \o data)
  BY <1>2, <1>4, WriteAppends DEF inner
<1>6. (under \o m) \o data = under \o (m \o data)
  BY <1>1, ConcatAssociative
<1>7. written = [outer |-> hmac.outer, inner |-> inner]
  BY <1>2, <1>3
<1>8. written.outer = hmac.outer /\ written.inner = inner
  BY <1>7
<1>9. HmacHolds(States, written, k, m \o data)
  BY <1>5, <1>6, <1>7, <1>8 DEF HmacHolds, under
<1> QED
  BY <1>9 DEF written

(* The digest of an HMAC is the one of the standard.                       *)
LEMMA HmacDigestIs ==
  ASSUME NEW States, Compression(States), NEW k \in Seq(ByteValues), 8 * Len(k) < Word * Word,
         NEW m \in Seq(ByteValues), 8 * (Chunk + Len(m)) < Word * Word,
         NEW hmac, HmacHolds(States, hmac, k, m)
  PROVE  hmac_finalize(hmac) = HmacOf(k, m) /\ HmacOf(k, m) # <<>>
<1> DEFINE block == HmacKey(k)
           outer == Masked(block, 92)
           inner == Masked(block, 54)
           d == Sha256Of(inner \o m)
<1>1. block \in Seq(ByteValues) /\ Len(block) = Chunk
  BY KeyIs
<1>2. HmacOf(k, m) = Sha256Of(outer \o d)
  BY HmacIs
<1>3. Holds(States, hmac.outer, outer) /\ Holds(States, hmac.inner, inner \o m)
  BY DEF HmacHolds
<1> HIDE DEF block
<1>4. /\ outer \in Seq(ByteValues) /\ Len(outer) = Chunk
      /\ inner \in Seq(ByteValues) /\ Len(inner) = Chunk
  BY <1>1, MasksAre
<1> HIDE DEF outer, inner
<1>5. inner \o m \in Seq(ByteValues) /\ Len(inner \o m) = Len(inner) + Len(m)
  BY <1>4, ConcatProperties, Zenon
<1>6. 8 * Len(inner \o m) < Word * Word
  BY <1>4, <1>5
<1>7. /\ sha256_finalize(hmac.inner) = d
      /\ d \in Seq(ByteValues) /\ Len(d) = DigestSize
  BY <1>3, <1>5, <1>6, DigestIs
<1> HIDE DEF d
<1>8. Holds(States, Wrapped(hmac), outer \o d)
  BY <1>3, <1>4, <1>7, WriteAppends DEF Wrapped
<1>9. outer \o d \in Seq(ByteValues) /\ Len(outer \o d) = Len(outer) + Len(d)
  BY <1>4, <1>7, ConcatProperties, Zenon
<1>10. 8 * Len(outer \o d) < Word * Word
  BY <1>4, <1>7, <1>9, DigestsFit
<1>11. sha256_finalize(Wrapped(hmac)) = Sha256Of(outer \o d) /\ Sha256Of(outer \o d) # <<>>
  BY <1>8, <1>9, <1>10, DigestIs
<1> QED
  BY <1>2, <1>11 DEF hmac_finalize

-----------------------------------------------------------------------------
(* Until its digest is made, an object holds what was written; and then    *)
(* its buffer is still one, for the next message.                          *)
HashInv(States) ==
  /\ message \in Seq(ByteValues) /\ Len(message) <= MaxMessage
  /\ key \in Seq(ByteValues) /\ 8 * Len(key) < Word * Word
  /\ digest = <<>> /\ ~IsHmac => Holds(States, hash, message)
  /\ digest = <<>> /\ IsHmac => HmacHolds(States, hash, key, message)
  /\ digest # <<>> /\ ~IsHmac => hash.buf \in Buffers
  /\ DigestIsStandard

(* The bytes that are written.                                             *)
LEMMA WrittenIs ==
  ASSUME NEW from \in Nat, NEW n \in Nat
  PROVE  Written(from, n) \in Seq(ByteValues) /\ Len(Written(from, n)) = n
<1>1. Written(from, n) \in [1 .. n -> ByteValues]
  BY DEF Written, ByteValues
<1> QED
  BY <1>1, FirstPlaces, Zenon

(* Messages, and so whole inputs of an HMAC, have a size of two words.     *)
LEMMA SizesFit ==
  ASSUME NEW n \in Nat, n <= MaxMessage
  PROVE  8 * n < Word * Word /\ 8 * (Chunk + n) < Word * Word
<1>1. Chunk \in Nat /\ MaxMessage \in Nat /\ Word \in Nat
  BY ChunkIs, WordIs, MessagesAssumption
<1> DEFINE w == Word * Word
<1>2. w \in Nat /\ 8 * (Chunk + MaxMessage) < w
  BY <1>1, MessagesAssumption
<1> HIDE DEF w
<1>3. 8 * n < w /\ 8 * (Chunk + n) < w
  BY <1>1, <1>2
<1> QED
  BY <1>3 DEF w

(* An object that is not initialized, but for its state and its count.     *)
LEMMA HashBegins ==
  ASSUME NEW States, Compression(States), HashInit
  PROVE  HashInv(States)
<1>1. memset(255, Chunk) \in Buffers
  BY ChunkIs DEF memset, Buffers, ByteValues
<1>2. Holds(States, hash, message)
  BY <1>1, NothingHeld DEF HashInit, Fresh
<1>3. message = <<>> /\ key = <<>> /\ digest = <<>>
  BY DEF HashInit, NoKey
<1>4. <<>> \in Seq(ByteValues) /\ Len(<<>>) = 0
  BY EmptySeq
<1>5. 0 <= MaxMessage /\ 8 * 0 < Word * Word
  <2>1. MaxMessage \in Nat
    BY MessagesAssumption
  <2> QED
    BY <2>1, SizesFit
<1> QED
  BY <1>2, <1>3, <1>4, <1>5 DEF HashInv, DigestIsStandard, IsHmac, NoKey

(* A piece is appended to the message.                                     *)
LEMMA WriteKeeps ==
  ASSUME NEW States, Compression(States), HashInv(States), Write
  PROVE  HashInv(States)'
<1>1. PICK n \in Pieces :
        /\ digest = <<>> /\ Len(message) + n <= MaxMessage
        /\ hash' = IF IsHmac THEN hmac_write(hash, Written(Len(message), n))
                   ELSE sha256_write(hash, Written(Len(message), n))
        /\ message' = message \o Written(Len(message), n)
        /\ key' = key /\ digest' = digest
  BY DEF Write
<1> DEFINE data == Written(Len(message), n)
<1>2. Len(message) \in Nat /\ n \in Nat /\ message \in Seq(ByteValues) /\ key \in Seq(ByteValues)
  BY LenProperties, MessagesAssumption DEF HashInv
<1>3. data \in Seq(ByteValues) /\ Len(data) = n
  BY <1>2, WrittenIs
<1>4. /\ hash' = IF IsHmac THEN hmac_write(hash, data) ELSE sha256_write(hash, data)
      /\ message' = message \o data
  BY <1>1
<1> HIDE DEF data
<1>5. message' \in Seq(ByteValues) /\ Len(message') = Len(message) + Len(data)
  BY <1>2, <1>3, <1>4, ConcatProperties, Zenon
<1>6. IsHmac' = IsHmac
  BY <1>1 DEF IsHmac
<1>7. ~IsHmac => Holds(States, hash', message')
  <2> HAVE ~IsHmac
  <2>1. Holds(States, hash, message)
    BY <1>1 DEF HashInv
  <2>2. Holds(States, sha256_write(hash, data), message \o data)
    BY <1>2, <1>3, <2>1, WriteAppends
  <2> QED
    BY <1>4, <2>2
<1>8. IsHmac => HmacHolds(States, hash', key', message')
  <2> HAVE IsHmac
  <2>1. HmacHolds(States, hash, key, message) /\ 8 * Len(key) < Word * Word
    BY <1>1 DEF HashInv
  <2>2. HmacHolds(States, hmac_write(hash, data), key, message \o data)
    BY <1>2, <1>3, <2>1, HmacAppends
  <2> QED
    BY <1>1, <1>4, <2>2
<1>9. Len(message') <= MaxMessage
  BY <1>1, <1>3, <1>5
<1>10. key' \in Seq(ByteValues) /\ 8 * Len(key') < Word * Word
  BY <1>1 DEF HashInv
<1> QED
  BY <1>1, <1>5, <1>6, <1>7, <1>8, <1>9, <1>10 DEF HashInv, DigestIsStandard

(* The digest is the one of the standard.                                  *)
LEMMA FinalizeKeeps ==
  ASSUME NEW States, Compression(States), HashInv(States), Finalize
  PROVE  HashInv(States)'
<1>1. /\ digest = <<>> /\ message' = message /\ key' = key
      /\ digest' = IF IsHmac THEN hmac_finalize(hash) ELSE sha256_finalize(hash)
      /\ hash'   = IF IsHmac THEN HmacFinalized(hash) ELSE Finalized(hash)
  BY DEF Finalize
<1>2. /\ message \in Seq(ByteValues) /\ Len(message) <= MaxMessage
      /\ key \in Seq(ByteValues) /\ 8 * Len(key) < Word * Word
  BY DEF HashInv
<1>3. 8 * Len(message) < Word * Word /\ 8 * (Chunk + Len(message)) < Word * Word
  BY <1>2, SizesFit, LenProperties
<1>4. IsHmac' = IsHmac
  BY <1>1 DEF IsHmac
<1>5. CASE ~IsHmac
  <2>1. Holds(States, hash, message)
    BY <1>1, <1>5 DEF HashInv
  <2>2. /\ sha256_finalize(hash) = Sha256Of(message) /\ Sha256Of(message) # <<>>
        /\ Finalized(hash).buf \in Buffers
    BY <1>2, <1>3, <2>1, DigestIs
  <2>3. digest' = Sha256Of(message') /\ digest' # <<>> /\ hash'.buf \in Buffers
    BY <1>1, <1>5, <2>2
  <2> QED
    BY <1>1, <1>2, <1>4, <1>5, <2>3 DEF HashInv, DigestIsStandard
<1>6. CASE IsHmac
  <2>1. HmacHolds(States, hash, key, message)
    BY <1>1, <1>6 DEF HashInv
  <2>2. hmac_finalize(hash) = HmacOf(key, message) /\ HmacOf(key, message) # <<>>
    BY <1>2, <1>3, <2>1, HmacDigestIs
  <2>3. digest' = HmacOf(key', message') /\ digest' # <<>>
    BY <1>1, <1>6, <2>2
  <2> QED
    BY <1>1, <1>2, <1>4, <1>6, <2>3 DEF HashInv, DigestIsStandard
<1> QED
  BY <1>5, <1>6

(* An object that nothing was written to becomes that of an HMAC.          *)
LEMMA InitializeHmacKeeps ==
  ASSUME NEW States, Compression(States), HashInv(States), InitializeHmac
  PROVE  HashInv(States)'
<1>1. PICK n \in KeyLengths :
        /\ hash = Fresh /\ key = NoKey /\ digest = <<>>
        /\ key' = Written(100, n)
        /\ hash' = hmac_initialize(key', hash.buf)
        /\ message' = message /\ digest' = digest
  BY DEF InitializeHmac
<1>2. n \in Nat \ {0} /\ 8 * n < Word * Word
  BY MessagesAssumption
<1>3. key' \in Seq(ByteValues) /\ Len(key') = n
  BY <1>1, <1>2, WrittenIs
<1>4. key' # NoKey
  <2>1. n # 0 /\ Len(<<>>) = 0
    BY <1>2
  <2> QED
    BY <1>3, <2>1 DEF NoKey
<1>5. hash.buf \in Buffers /\ hash.bytes = 0
  <2>1. memset(255, Chunk) \in Buffers
    BY ChunkIs DEF memset, Buffers, ByteValues
  <2> QED
    BY <1>1, <2>1 DEF Fresh, sha256_initialize
<1>6. message = <<>>
  <2>1. Holds(States, hash, message) /\ message \in Seq(ByteValues)
    BY <1>1 DEF HashInv, IsHmac
  <2>2. Len(message) = 0
    BY <1>5, <2>1 DEF Holds
  <2> QED
    BY <2>1, <2>2, EmptySeq
<1>7. 8 * Len(key') < Word * Word
  BY <1>2, <1>3
<1>8. HmacHolds(States, hmac_initialize(key', hash.buf), key', <<>>)
  BY <1>3, <1>5, <1>7, HmacBegins
<1>9. IsHmac'
  BY <1>4 DEF IsHmac, NoKey
<1>10. message' \in Seq(ByteValues) /\ Len(message') <= MaxMessage
  BY <1>1 DEF HashInv
<1>11. HmacHolds(States, hash', key', message') /\ digest' = <<>>
  BY <1>1, <1>6, <1>8
<1> QED
  BY <1>3, <1>7, <1>9, <1>10, <1>11 DEF HashInv, DigestIsStandard

(* An object is used again: nothing of its buffer counts.                  *)
LEMMA InitializeAgainKeeps ==
  ASSUME NEW States, Compression(States), HashInv(States), InitializeAgain
  PROVE  HashInv(States)'
<1>1. /\ digest # <<>> /\ ~IsHmac
      /\ hash' = sha256_initialize(hash.buf)
      /\ message' = <<>> /\ digest' = <<>> /\ key' = key
  BY DEF InitializeAgain
<1>2. hash.buf \in Buffers /\ key \in Seq(ByteValues) /\ 8 * Len(key) < Word * Word
  BY <1>1 DEF HashInv
<1>3. Holds(States, hash', message')
  BY <1>1, <1>2, NothingHeld
<1>4. ~IsHmac'
  BY <1>1 DEF IsHmac
<1>5. message' \in Seq(ByteValues) /\ Len(message') <= MaxMessage
  <2>1. <<>> \in Seq(ByteValues) /\ Len(<<>>) = 0 /\ MaxMessage \in Nat
    BY EmptySeq, MessagesAssumption
  <2> QED
    BY <1>1, <2>1
<1> QED
  BY <1>1, <1>2, <1>3, <1>4, <1>5 DEF HashInv, DigestIsStandard

(* The digest of every message is the one of the standard, be it written   *)
(* in one piece or in many, with the object initialized before or used     *)
(* again, with a key or without: for every compression function, every     *)
(* size of a chunk and of a digest, and all lengths of messages, pieces    *)
(* and keys whose sizes fit in two words.                                  *)
THEOREM HashesAreRight ==
  ASSUME NEW CONSTANT States, Compression(States)
  PROVE  HashSpec => []DigestIsStandard
<1>1. HashInit => HashInv(States)
  BY HashBegins
<1>2. HashInv(States) /\ [HashNext]_hashVars => HashInv(States)'
  <2> SUFFICES ASSUME HashInv(States), [HashNext]_hashVars
               PROVE  HashInv(States)'
    OBVIOUS
  <2>1. CASE Write
    BY <2>1, WriteKeeps
  <2>2. CASE Finalize
    BY <2>2, FinalizeKeeps
  <2>3. CASE InitializeHmac
    BY <2>3, InitializeHmacKeeps
  <2>4. CASE InitializeAgain
    BY <2>4, InitializeAgainKeeps
  <2>5. CASE UNCHANGED <<hash, message, key, digest>>
    BY <2>5 DEF HashInv, IsHmac, DigestIsStandard
  <2>6. Seed \/ Draw \/ UNCHANGED hashVars => UNCHANGED <<hash, message, key, digest>>
    BY DEF Seed, Draw, hashVars
  <2> QED
    BY <2>1, <2>2, <2>3, <2>4, <2>5, <2>6 DEF HashNext
<1>3. HashInv(States) => DigestIsStandard
  BY DEF HashInv
<1> QED
  BY <1>1, <1>2, <1>3, PTL DEF HashSpec

-----------------------------------------------------------------------------
(* The generator of RFC 6979.                                              *)

Digests == {d \in Seq(ByteValues) : Len(d) = DigestSize}

(* A digest is short enough for a key and for a message.                   *)
LEMMA DigestsAre ==
  ASSUME NEW d \in Digests
  PROVE  /\ d \in Seq(ByteValues) /\ Len(d) = DigestSize /\ 8 * Len(d) < Word * Word
         /\ 8 * (Chunk + Len(d)) < Word * Word
BY DigestsFit DEF Digests

(* The standard's HMAC is a digest.                                       *)
LEMMA HmacIsDigest ==
  ASSUME NEW States, Compression(States), NEW k \in Seq(ByteValues), 8 * Len(k) < Word * Word,
         NEW m \in Seq(ByteValues), 8 * (Chunk + Len(m)) < Word * Word
  PROVE  HmacOf(k, m) \in Digests
<1> DEFINE outer == Masked(HmacKey(k), 92)
           inner == Masked(HmacKey(k), 54)
           d == Sha256Of(inner \o m)
<1>1. memset(0, Chunk) \in Buffers
  BY ChunkIs DEF memset, Buffers, ByteValues
<1>2. HmacKey(k) \in Seq(ByteValues) /\ Len(HmacKey(k)) = Chunk
  BY KeyIs
<1>3. /\ outer \in Seq(ByteValues) /\ Len(outer) = Chunk
      /\ inner \in Seq(ByteValues) /\ Len(inner) = Chunk
  BY <1>2, MasksAre
<1>4. HmacOf(k, m) = Sha256Of(outer \o d)
  BY HmacIs
<1> HIDE DEF outer, inner
<1>5. inner \o m \in Seq(ByteValues) /\ Len(inner \o m) = Len(inner) + Len(m)
  BY <1>3, ConcatProperties, Zenon
<1>6. 8 * Len(inner \o m) < Word * Word
  BY <1>3, <1>5
<1>7. d \in Seq(ByteValues) /\ Len(d) = DigestSize
  <2>1. Holds(States, sha256_write(sha256_initialize(memset(0, Chunk)), inner \o m), inner \o m)
    BY <1>1, <1>5, FirstWritten
  <2> QED
    BY <1>5, <1>6, <2>1, DigestIs
<1> HIDE DEF d
<1>8. outer \o d \in Seq(ByteValues) /\ Len(outer \o d) = Len(outer) + Len(d)
  BY <1>3, <1>7, ConcatProperties, Zenon
<1>9. 8 * Len(outer \o d) < Word * Word
  BY <1>3, <1>7, <1>8, DigestsFit
<1>10. Sha256Of(outer \o d) \in Seq(ByteValues) /\ Len(Sha256Of(outer \o d)) = DigestSize
  <2>1. Holds(States, sha256_write(sha256_initialize(memset(0, Chunk)), outer \o d), outer \o d)
    BY <1>1, <1>8, FirstWritten
  <2> QED
    BY <1>8, <1>9, <2>1, DigestIs
<1> QED
  BY <1>4, <1>10 DEF Digests

\* The objects of an HMAC over pieces, piece by piece.
WrittenBy(f, k, pieces) ==
  f = [i \in 0 .. Len(pieces) |->
         IF i = 0 THEN hmac_initialize(k, memset(0, Chunk)) ELSE hmac_write(f[i - 1], pieces[i])]

(* The objects of an HMAC over one piece.                                  *)
LEMMA MacOfOne ==
  ASSUME NEW k, NEW a
  PROVE  Mac(k, <<a>>) = hmac_finalize(hmac_write(hmac_initialize(k, memset(0, Chunk)), a))
<1> DEFINE h == hmac_initialize(k, memset(0, Chunk))
           p == [i \in 0 .. 1 |-> IF i = 0 THEN h ELSE hmac_write(h, a)]
           f == CHOOSE g : WrittenBy(g, k, <<a>>)
<1>1. Mac(k, <<a>>) = hmac_finalize(f[1])
  BY DEF Mac, WrittenBy
<1>2. WrittenBy(p, k, <<a>>)
  <2>1. p[0] = h /\ (\A i \in 0 .. 1 : i # 0 => i = 1 /\ i - 1 = 0)
    OBVIOUS
  <2>2. \A i \in 0 .. 1 : p[i] = IF i = 0 THEN h ELSE hmac_write(p[i - 1], <<a>>[i])
    BY <2>1
  <2>3. p = [i \in 0 .. 1 |-> IF i = 0 THEN h ELSE hmac_write(p[i - 1], <<a>>[i])]
    BY <2>2
  <2> QED
    BY <2>3 DEF WrittenBy
<1>3. WrittenBy(f, k, <<a>>)
  BY <1>2, Zenon
<1> HIDE DEF f
<1>4. f = [i \in 0 .. 1 |-> IF i = 0 THEN h ELSE hmac_write(f[i - 1], <<a>>[i])]
  BY <1>3 DEF WrittenBy
<1>5. f[1] = hmac_write(f[0], a) /\ f[0] = h
  BY <1>4
<1> QED
  BY <1>1, <1>5

(* Two pieces.                                                             *)
LEMMA MacOfTwo ==
  ASSUME NEW k, NEW a, NEW b
  PROVE  Mac(k, <<a, b>>) =
           hmac_finalize(hmac_write(hmac_write(hmac_initialize(k, memset(0, Chunk)), a), b))
<1> DEFINE h == hmac_initialize(k, memset(0, Chunk))
           p == [i \in 0 .. 2 |-> IF i = 0 THEN h
                                  ELSE IF i = 1 THEN hmac_write(h, a)
                                  ELSE hmac_write(hmac_write(h, a), b)]
           f == CHOOSE g : WrittenBy(g, k, <<a, b>>)
<1>1. Mac(k, <<a, b>>) = hmac_finalize(f[2])
  BY DEF Mac, WrittenBy
<1>2. WrittenBy(p, k, <<a, b>>)
  <2>1. p[0] = h /\ p[1] = hmac_write(h, a)
        /\ \A i \in 0 .. 2 : i # 0 => (i = 1 /\ i - 1 = 0) \/ (i = 2 /\ i - 1 = 1)
    OBVIOUS
  <2>2. \A i \in 0 .. 2 : p[i] = IF i = 0 THEN h ELSE hmac_write(p[i - 1], <<a, b>>[i])
    BY <2>1
  <2>3. p = [i \in 0 .. 2 |-> IF i = 0 THEN h ELSE hmac_write(p[i - 1], <<a, b>>[i])]
    BY <2>2
  <2> QED
    BY <2>3 DEF WrittenBy
<1>3. WrittenBy(f, k, <<a, b>>)
  BY <1>2, Zenon
<1> HIDE DEF f
<1>4. f = [i \in 0 .. 2 |-> IF i = 0 THEN h ELSE hmac_write(f[i - 1], <<a, b>>[i])]
  BY <1>3 DEF WrittenBy
<1>5. f[2] = hmac_write(f[1], b) /\ f[1] = hmac_write(f[0], a) /\ f[0] = h
  BY <1>4
<1> QED
  BY <1>1, <1>5

(* Three pieces.                                                           *)
LEMMA MacOfThree ==
  ASSUME NEW k, NEW a, NEW b, NEW c
  PROVE  Mac(k, <<a, b, c>>) =
           hmac_finalize(hmac_write(hmac_write(hmac_write(
             hmac_initialize(k, memset(0, Chunk)), a), b), c))
<1> DEFINE h == hmac_initialize(k, memset(0, Chunk))
           h1 == hmac_write(h, a)
           h2 == hmac_write(h1, b)
           p == [i \in 0 .. 3 |-> IF i = 0 THEN h ELSE IF i = 1 THEN h1 ELSE IF i = 2 THEN h2
                                  ELSE hmac_write(h2, c)]
           f == CHOOSE g : WrittenBy(g, k, <<a, b, c>>)
<1>1. Mac(k, <<a, b, c>>) = hmac_finalize(f[3])
  BY DEF Mac, WrittenBy
<1>2. WrittenBy(p, k, <<a, b, c>>)
  <2>1. p[0] = h /\ p[1] = hmac_write(h, a) /\ p[2] = hmac_write(h1, b)
        /\ \A i \in 0 .. 3 : i # 0 => (i = 1 /\ i - 1 = 0) \/ (i = 2 /\ i - 1 = 1)
                                      \/ (i = 3 /\ i - 1 = 2)
    OBVIOUS
  <2>2. \A i \in 0 .. 3 : p[i] = IF i = 0 THEN h ELSE hmac_write(p[i - 1], <<a, b, c>>[i])
    BY <2>1
  <2>3. p = [i \in 0 .. 3 |-> IF i = 0 THEN h ELSE hmac_write(p[i - 1], <<a, b, c>>[i])]
    BY <2>2
  <2> QED
    BY <2>3 DEF WrittenBy
<1>3. WrittenBy(f, k, <<a, b, c>>)
  BY <1>2, Zenon
<1> HIDE DEF f
<1>4. f = [i \in 0 .. 3 |-> IF i = 0 THEN h ELSE hmac_write(f[i - 1], <<a, b, c>>[i])]
  BY <1>3 DEF WrittenBy
<1>5. /\ f[3] = hmac_write(f[2], c) /\ f[2] = hmac_write(f[1], b)
      /\ f[1] = hmac_write(f[0], a) /\ f[0] = h
  BY <1>4
<1> QED
  BY <1>1, <1>5

\* The sizes that HMAC writes are numbers of two words.
KeySized(k) == 8 * Len(k) < Word * Word

Sized(k, m) == KeySized(k) /\ 8 * (Chunk + Len(m)) < Word * Word

(* An HMAC that a message was written to gives the standard's digest.      *)
LEMMA FinishedMac ==
  ASSUME NEW States, Compression(States), NEW k \in Seq(ByteValues),
         NEW m \in Seq(ByteValues), Sized(k, m),
         NEW hmac, HmacHolds(States, hmac, k, m)
  PROVE  hmac_finalize(hmac) = HmacOf(k, m) /\ HmacOf(k, m) \in Digests
<1>1. hmac_finalize(hmac) = HmacOf(k, m)
  BY HmacDigestIs DEF Sized, KeySized
<1>2. HmacOf(k, m) \in Digests
  BY HmacIsDigest DEF Sized, KeySized
<1> QED
  BY <1>1, <1>2

(* After one piece, that piece is the message.                             *)
LEMMA FirstPiece ==
  ASSUME NEW States, Compression(States), NEW k \in Seq(ByteValues), KeySized(k),
         NEW a \in Seq(ByteValues)
  PROVE  HmacHolds(States, hmac_write(hmac_initialize(k, memset(0, Chunk)), a), k, a)
<1>1. memset(0, Chunk) \in Buffers
  BY ChunkIs DEF memset, Buffers, ByteValues
<1>2. HmacHolds(States, hmac_initialize(k, memset(0, Chunk)), k, <<>>)
  BY <1>1, HmacBegins DEF KeySized
<1>3. <<>> \in Seq(ByteValues) /\ <<>> \o a = a
  BY EmptySeq, ConcatEmptySeq
<1>4. HmacHolds(States, hmac_write(hmac_initialize(k, memset(0, Chunk)), a), k, <<>> \o a)
  BY <1>2, <1>3, HmacAppends DEF KeySized
<1> QED
  BY <1>3, <1>4

(* What is written in one piece, in two or in three is one message.        *)
LEMMA MacOfOneIs ==
  ASSUME NEW States, Compression(States), NEW k \in Seq(ByteValues),
         NEW a \in Seq(ByteValues), Sized(k, a)
  PROVE  Mac(k, <<a>>) = HmacOf(k, a) /\ HmacOf(k, a) \in Digests
<1> DEFINE h1 == hmac_write(hmac_initialize(k, memset(0, Chunk)), a)
<1>1. Mac(k, <<a>>) = hmac_finalize(h1)
  BY MacOfOne
<1>2. HmacHolds(States, h1, k, a)
  BY FirstPiece DEF Sized
<1> HIDE DEF h1
<1> QED
  BY <1>1, <1>2, FinishedMac

(* The same, of two pieces.                                                *)
LEMMA MacOfTwoIs ==
  ASSUME NEW States, Compression(States), NEW k \in Seq(ByteValues),
         NEW a \in Seq(ByteValues), NEW b \in Seq(ByteValues),
         Sized(k, a \o b)
  PROVE  Mac(k, <<a, b>>) = HmacOf(k, a \o b) /\ HmacOf(k, a \o b) \in Digests
<1> DEFINE m == a \o b
           h1 == hmac_write(hmac_initialize(k, memset(0, Chunk)), a)
           h2 == hmac_write(h1, b)
<1>1. Mac(k, <<a, b>>) = hmac_finalize(h2)
  BY MacOfTwo
<1>2. HmacHolds(States, h1, k, a)
  BY FirstPiece DEF Sized
<1> HIDE DEF h1
<1>3. HmacHolds(States, h2, k, m)
  BY <1>2, HmacAppends DEF Sized, KeySized
<1>4. m \in Seq(ByteValues) /\ Sized(k, m)
  BY ConcatProperties, Zenon
<1> HIDE DEF h2, m
<1> QED
  <2>1. hmac_finalize(h2) = HmacOf(k, m) /\ HmacOf(k, m) \in Digests
    BY <1>3, <1>4, FinishedMac
  <2> QED
    BY <1>1, <2>1 DEF m

(* The same, of three.                                                     *)
LEMMA MacOfThreeIs ==
  ASSUME NEW States, Compression(States), NEW k \in Seq(ByteValues),
         NEW a \in Seq(ByteValues), NEW b \in Seq(ByteValues), NEW c \in Seq(ByteValues),
         Sized(k, a \o (b \o c))
  PROVE  /\ Mac(k, <<a, b, c>>) = HmacOf(k, a \o (b \o c))
         /\ HmacOf(k, a \o (b \o c)) \in Digests
<1> DEFINE m == a \o (b \o c)
           h1 == hmac_write(hmac_initialize(k, memset(0, Chunk)), a)
           h2 == hmac_write(h1, b)
           h3 == hmac_write(h2, c)
<1>1. Mac(k, <<a, b, c>>) = hmac_finalize(h3)
  BY MacOfThree
<1>2. HmacHolds(States, h1, k, a)
  BY FirstPiece DEF Sized
<1> HIDE DEF h1
<1>3. HmacHolds(States, h2, k, a \o b)
  BY <1>2, HmacAppends DEF Sized, KeySized
<1>4. a \o b \in Seq(ByteValues) /\ m = (a \o b) \o c
  <2>1. a \o b \in Seq(ByteValues)
    BY ConcatProperties, Zenon
  <2>2. (a \o b) \o c = a \o (b \o c)
    BY ConcatAssociative
  <2> QED
    BY <2>1, <2>2
<1> HIDE DEF h2
<1>5. HmacHolds(States, h3, k, m)
  BY <1>3, <1>4, HmacAppends DEF Sized, KeySized
<1>6. m \in Seq(ByteValues) /\ Sized(k, m)
  BY <1>4, ConcatProperties, Zenon
<1> HIDE DEF h3, m
<1> QED
  <2>1. hmac_finalize(h3) = HmacOf(k, m) /\ HmacOf(k, m) \in Digests
    BY <1>5, <1>6, FinishedMac
  <2> QED
    BY <1>1, <2>1 DEF m

\* RFC 6979, section 3.2: the key of a generator, made anew of the value and of data,
\* and then the value.
Renewed(kv, data) ==
  LET k == HmacOf(kv.k, kv.v \o data) IN [k |-> k, v |-> HmacOf(k, kv.v)]

\* Its steps b to g, for a seed.
Started(seed) ==
  LET none == [k |-> memset(0, DigestSize), v |-> memset(1, DigestSize)]
  IN Renewed(Renewed(none, <<0>> \o seed), <<1>> \o seed)

\* Step h: a value is used up, and the next draw begins with a new key.
NextDraw(generator) ==
  IF generator.retry THEN Renewed(generator, <<0>>) ELSE [k |-> generator.k, v |-> generator.v]

\* The values that follow one another in step h, as few as are needed, are what is drawn.
DrawnFrom(kv, out, after) ==
  \E n \in Nat : \E value \in [0 .. n -> Digests] :
    /\ (n - 1) * DigestSize < Len(out) /\ Len(out) <= n * DigestSize
    /\ value[0] = kv.v /\ \A i \in 1 .. n : value[i] = HmacOf(kv.k, value[i - 1])
    /\ \A i \in 0 .. n - 1 : \A j \in 1 .. DigestSize :
         i * DigestSize + j <= Len(out) => out[i * DigestSize + j] = value[i + 1][j]
    /\ after = [k |-> kv.k, v |-> value[n], retry |-> TRUE]

KeysAndValues == [k : Digests, v : Digests]

\* A seed with a digest and a byte before it is a message of an HMAC.
SeedSized(seed) == 8 * (Chunk + DigestSize + 1 + Len(seed)) < Word * Word

(* Keys and values stay digests, and are those of the standard.            *)
LEMMA RenewedIs ==
  ASSUME NEW States, Compression(States), NEW kv, kv.k \in Digests, kv.v \in Digests,
         NEW byte \in ByteValues, NEW seed \in Seq(ByteValues),
         SeedSized(seed)
  PROVE  /\ Reseeded(kv, byte, seed) = Renewed(kv, <<byte>> \o seed)
         /\ Renewed(kv, <<byte>> \o seed) \in KeysAndValues
         /\ WithValue(Mac(kv.k, <<kv.v, <<byte>>>>), kv.v) = Renewed(kv, <<byte>>)
         /\ Renewed(kv, <<byte>>) \in KeysAndValues
<1> DEFINE k == kv.k
           v == kv.v
           all == v \o (<<byte>> \o seed)
           short == v \o <<byte>>
           w == Word * Word
<1>1. /\ k \in Digests /\ v \in Digests /\ k \in Seq(ByteValues) /\ 8 * Len(k) < w /\ v \in Seq(ByteValues) /\ Len(v) = DigestSize
      /\ 8 * (Chunk + Len(v)) < w /\ <<byte>> \in Seq(ByteValues) /\ Len(<<byte>>) = 1
  BY DigestsAre, OneByte DEF k, v
<1>2. Chunk \in Nat /\ DigestSize \in Nat /\ Word \in Nat /\ Len(seed) \in Nat
  BY ChunkIs, WordIs, LenProperties
<1>3. w \in Nat
  BY <1>2
<1>4. all \in Seq(ByteValues) /\ Len(all) = DigestSize + 1 + Len(seed)
  <2>1. <<byte>> \o seed \in Seq(ByteValues) /\ Len(<<byte>> \o seed) = 1 + Len(seed)
    BY <1>1, ConcatProperties
  <2>2. all \in Seq(ByteValues) /\ Len(all) = Len(v) + Len(<<byte>> \o seed)
    BY <1>1, <2>1, ConcatProperties, Zenon
  <2> HIDE DEF all
  <2> QED
    BY <1>1, <1>2, <2>1, <2>2
<1>5. short \in Seq(ByteValues) /\ Len(short) = DigestSize + 1
  <2>1. short \in Seq(ByteValues) /\ Len(short) = Len(v) + Len(<<byte>>)
    BY <1>1, ConcatProperties, Zenon
  <2> HIDE DEF short
  <2> QED
    BY <1>1, <1>2, <2>1
<1>6. 8 * (Chunk + DigestSize + 1 + Len(seed)) < w
  BY DEF SeedSized
<1> HIDE DEF all, short, w, k, v
<1>7. 8 * (Chunk + Len(all)) < w /\ 8 * (Chunk + Len(short)) < w
  BY <1>2, <1>3, <1>4, <1>5, <1>6
<1>8. Mac(k, <<v, <<byte>>, seed>>) = HmacOf(k, all) /\ HmacOf(k, all) \in Digests
  BY <1>1, <1>4, <1>7, MacOfThreeIs DEF all, w, Sized, KeySized
<1>9. Mac(k, <<v, <<byte>>>>) = HmacOf(k, short) /\ HmacOf(k, short) \in Digests
  BY <1>1, <1>5, <1>7, MacOfTwoIs DEF short, w, Sized, KeySized
<1>10. ASSUME NEW d \in Digests PROVE Mac(d, <<v>>) = HmacOf(d, v) /\ HmacOf(d, v) \in Digests
  <2>1. d \in Seq(ByteValues) /\ 8 * Len(d) < Word * Word
    BY DigestsAre
  <2> QED
    BY <1>1, <2>1, MacOfOneIs DEF w, Sized, KeySized
<1>11. /\ WithValue(HmacOf(k, all), v) = Renewed(kv, <<byte>> \o seed)
       /\ Renewed(kv, <<byte>> \o seed) \in KeysAndValues
  BY <1>8, <1>10 DEF WithValue, Renewed, KeysAndValues, all, k, v
<1>12. /\ WithValue(HmacOf(k, short), v) = Renewed(kv, <<byte>>)
       /\ Renewed(kv, <<byte>>) \in KeysAndValues
  BY <1>9, <1>10 DEF WithValue, Renewed, KeysAndValues, short, k, v
<1> QED
  BY <1>8, <1>9, <1>11, <1>12 DEF Reseeded, k, v

(* A generator is what the standard makes of its seed.                     *)
LEMMA StartedIs ==
  ASSUME NEW States, Compression(States), NEW seed \in Seq(ByteValues),
         SeedSized(seed)
  PROVE  /\ Started(seed) \in KeysAndValues
         /\ rfc6979_initialize(seed) = [k |-> Started(seed).k, v |-> Started(seed).v, retry |-> FALSE]
<1> DEFINE zeros == memset(0, DigestSize)
           ones == memset(1, DigestSize)
           none == [k |-> zeros, v |-> ones]
           first == Renewed(none, <<0>> \o seed)
           second == Renewed(first, <<1>> \o seed)
<1>1. zeros \in Digests /\ ones \in Digests /\ 0 \in ByteValues /\ 1 \in ByteValues
  <2>1. 0 \in ByteValues /\ 1 \in ByteValues /\ DigestSize \in Nat
    BY ChunkIs DEF ByteValues
  <2> QED
    BY <2>1, SameBytes DEF Digests
<1> HIDE DEF zeros, ones
<1>2. Reseeded(none, 0, seed) = first /\ first \in KeysAndValues
  <2>1. none.k \in Digests /\ none.v \in Digests
    BY <1>1
  <2> HIDE DEF none
  <2> QED
    BY <1>1, <2>1, RenewedIs
<1> HIDE DEF first, none
<1>3. first.k \in Digests /\ first.v \in Digests
  BY <1>2 DEF KeysAndValues
<1>4. Reseeded(first, 1, seed) = second /\ second \in KeysAndValues
  BY <1>1, <1>3, RenewedIs
<1>5. Started(seed) = second
  BY DEF Started, first, none, zeros, ones
<1>6. rfc6979_initialize(seed) = Retried(Reseeded(Reseeded(none, 0, seed), 1, seed), FALSE)
  BY DEF rfc6979_initialize, none, zeros, ones
<1> HIDE DEF second
<1> QED
  BY <1>2, <1>4, <1>5, <1>6 DEF Retried

\* The values of step h, and what is drawn so far.
ValuesBy(u, kv, n) ==
  u = [i \in 0 .. n |->
         IF i = 0 THEN [v |-> kv.v, out |-> <<>>]
         ELSE LET v == Mac(kv.k, <<u[i - 1].v>>) IN [v |-> v, out |-> u[i - 1].out \o v]]

(* The loop has its values, and ends with the last of them.                *)
LEMMA ValuesRun ==
  ASSUME NEW States, Compression(States), NEW kv, kv.k \in Digests, kv.v \in Digests, NEW n \in Nat
  PROVE  LET u == CHOOSE f : ValuesBy(f, kv, n)
         IN /\ u \in [0 .. n -> [v : Digests, out : Seq(ByteValues)]]
            /\ u[0] = [v |-> kv.v, out |-> <<>>]
            /\ \A i \in 1 .. n : /\ u[i].v = HmacOf(kv.k, u[i - 1].v)
                                 /\ u[i].out = u[i - 1].out \o u[i].v
<1> DEFINE A == [v : Digests, out : Seq(ByteValues)]
           start == [v |-> kv.v, out |-> <<>>]
           after(x) == LET v == Mac(kv.k, <<x.v>>) IN [v |-> v, out |-> x.out \o v]
           round == [i \in 0 .. n - 1 |-> [x \in A |-> after(x)]]
           u == CHOOSE f : ValuesBy(f, kv, n)
<1>1. start \in A
  BY EmptySeq
<1>2. ASSUME NEW x \in A
      PROVE  /\ after(x).v = HmacOf(kv.k, x.v) /\ after(x).out = x.out \o after(x).v
             /\ after(x) \in A
  <2>1. Mac(kv.k, <<x.v>>) = HmacOf(kv.k, x.v) /\ HmacOf(kv.k, x.v) \in Digests
    <3>1. x.v \in Digests
      OBVIOUS
    <3>2. kv.k \in Seq(ByteValues) /\ x.v \in Seq(ByteValues) /\ Sized(kv.k, x.v)
      BY <3>1, DigestsAre DEF Sized, KeySized
    <3> QED
      BY <3>2, MacOfOneIs
  <2>2. x.out \in Seq(ByteValues) /\ HmacOf(kv.k, x.v) \in Seq(ByteValues)
    BY <2>1, DigestsAre
  <2>3. x.out \o HmacOf(kv.k, x.v) \in Seq(ByteValues)
    BY <2>2, ConcatProperties, Zenon
  <2>4. after(x) = [v |-> HmacOf(kv.k, x.v), out |-> x.out \o HmacOf(kv.k, x.v)]
    BY <2>1
  <2> HIDE DEF after
  <2> QED
    BY <2>1, <2>3, <2>4
<1> HIDE DEF A, start, after
<1>3. round \in [0 .. n - 1 -> [A -> A]]
  BY <1>2
<1> HIDE DEF round
<1>4. PICK p \in [0 .. n -> A] : Runs(p, start, round, 0, n)
  <2>1. 0 \in Int /\ n \in Int /\ 0 <= n
    OBVIOUS
  <2> QED
    BY <1>1, <1>3, <2>1, LoopRuns, Zenon
<1>5. ASSUME NEW i \in 0 .. n
      PROVE  p[i] = IF i = 0 THEN start ELSE after(p[i - 1])
  <2>1. p[i] = IF i = 0 THEN start ELSE round[i - 1][p[i - 1]]
    BY <1>4 DEF Runs
  <2>2. ASSUME i # 0 PROVE round[i - 1][p[i - 1]] = after(p[i - 1])
    <3>1. i - 1 \in 0 .. n - 1 /\ p[i - 1] \in A
      BY <2>2
    <3> QED
      BY <3>1 DEF round
  <2> QED
    BY <2>1, <2>2
<1>6. p = [i \in 0 .. n |-> IF i = 0 THEN start ELSE after(p[i - 1])]
  BY <1>5
<1>7. ValuesBy(p, kv, n)
  BY <1>6 DEF ValuesBy, start, after
<1>8. ValuesBy(u, kv, n)
  BY <1>7, Zenon
<1> HIDE DEF u
<1>9. u = [i \in 0 .. n |-> IF i = 0 THEN start ELSE after(u[i - 1])]
  BY <1>8 DEF ValuesBy, start, after
<1> DEFINE Good == {i \in 0 .. n : u[i] \in A}
<1>10. 0 .. n \subseteq Good
  <2>1. 0 \in Good
    BY <1>1, <1>9
  <2>2. ASSUME NEW i \in 0 .. n - 1, i \in Good PROVE i + 1 \in Good
    <3>1. i + 1 \in 0 .. n /\ i + 1 # 0 /\ (i + 1) - 1 = i /\ u[i] \in A
      BY <2>2
    <3>2. u[i + 1] = after(u[i])
      BY <1>9, <3>1
    <3> QED
      BY <1>2, <3>1, <3>2
  <2>3. 0 \in Int /\ n \in Int
    OBVIOUS
  <2> HIDE DEF Good
  <2> QED
    BY <2>1, <2>2, <2>3, RangeInduction
<1>11. u \in [0 .. n -> A]
  BY <1>9, <1>10
<1>12. u[0] = start
  BY <1>9
<1>13. ASSUME NEW i \in 1 .. n
       PROVE  u[i].v = HmacOf(kv.k, u[i - 1].v) /\ u[i].out = u[i - 1].out \o u[i].v
  <2>1. i \in 0 .. n /\ i # 0 /\ i - 1 \in 0 .. n
    OBVIOUS
  <2>2. u[i] = after(u[i - 1]) /\ u[i - 1] \in A
    BY <1>9, <1>11, <2>1
  <2> QED
    BY <1>2, <2>2
<1> QED
  BY <1>11, <1>12, <1>13 DEF A, start, u

(* The values stand one after the other in what is drawn.                  *)
LEMMA ValuesStand ==
  ASSUME NEW n \in Nat, NEW u \in [0 .. n -> [v : Digests, out : Seq(ByteValues)]],
         u[0].out = <<>>, \A i \in 1 .. n : u[i].out = u[i - 1].out \o u[i].v
  PROVE  /\ u[n].out \in Seq(ByteValues) /\ Len(u[n].out) = n * DigestSize
         /\ \A i \in 0 .. n - 1 : \A j \in 1 .. DigestSize :
              u[n].out[i * DigestSize + j] = u[i + 1].v[j]
<1> DEFINE d == DigestSize
           Stand(m) == /\ Len(u[m].out) = m * d
                       /\ \A i \in 0 .. m - 1 : \A j \in 1 .. d : u[m].out[i * d + j] = u[i + 1].v[j]
           Good == {m \in 0 .. n : Stand(m)}
<1>1. d \in Nat /\ d # 0
  BY ChunkIs
<1>2. \A m \in 0 .. n : u[m].out \in Seq(ByteValues) /\ u[m].v \in Seq(ByteValues) /\ Len(u[m].v) = d
  BY DEF Digests
<1> HIDE DEF d
<1>3. 0 \in Good
  <2>1. Len(u[0].out) = 0
    OBVIOUS
  <2>2. 0 * d = 0 /\ 0 - 1 = -1 /\ 0 .. -1 = {}
    BY <1>1
  <2> QED
    BY <2>1, <2>2
<1>4. ASSUME NEW m \in 0 .. n - 1, m \in Good PROVE m + 1 \in Good
  <2>1. m + 1 \in 0 .. n /\ m + 1 \in 1 .. n /\ (m + 1) - 1 = m /\ m \in Nat /\ m \in 0 .. n
    BY <1>4
  <2> DEFINE all == u[m + 1].out
             old == u[m].out
             new == u[m + 1].v
             k == m * d
  <2>2. all = old \o new
    BY <2>1
  <2>3. old \in Seq(ByteValues) /\ new \in Seq(ByteValues) /\ Len(new) = d
    BY <1>2, <2>1
  <2>4. Len(old) = k /\ \A i \in 0 .. m - 1 : \A j \in 1 .. d : old[i * d + j] = u[i + 1].v[j]
    BY <1>4
  <2>5. k \in Nat /\ (m + 1) * d = k + d
    BY <1>1, <2>1
  <2> HIDE DEF all, old, new, k
  <2>6. /\ Len(all) = k + d
        /\ \A i \in 1 .. k + d : all[i] = IF i <= k THEN old[i] ELSE new[i - k]
    <3>1. /\ Len(all) = Len(old) + Len(new)
          /\ \A i \in 1 .. Len(old) + Len(new) : all[i] = IF i <= Len(old) THEN old[i] ELSE new[i - Len(old)]
      BY <2>2, <2>3, ConcatProperties, Zenon
    <3> QED
      BY <2>3, <2>4, <3>1
  <2>7. ASSUME NEW i \in 0 .. (m + 1) - 1, NEW j \in 1 .. d PROVE all[i * d + j] = u[i + 1].v[j]
    <3>1. CASE i = m
      <4>1. i * d + j = k + j /\ k + j \in 1 .. k + d /\ ~(k + j <= k) /\ (k + j) - k = j
        <5>1. i * d = k
          BY <3>1 DEF k
        <5> QED
          BY <1>1, <2>5, <5>1
      <4>2. all[k + j] = new[j]
        BY <2>6, <4>1
      <4> QED
        BY <3>1, <4>1, <4>2 DEF new
    <3>2. CASE i # m
      <4>1. i \in 0 .. m - 1
        BY <2>1, <3>2
      <4> DEFINE l == i * d
                 r == m - 1 - i
      <4>2. l + d + r * d = k /\ l \in Nat /\ r * d \in Nat
        <5>1. i \in Nat /\ r \in Nat /\ m = i + 1 + r
          BY <2>1, <4>1
        <5> HIDE DEF r
        <5>2. (i + 1 + r) * d = i * d + d + r * d /\ i * d \in Nat /\ r * d \in Nat
          BY <1>1, <5>1
        <5> QED
          BY <5>1, <5>2 DEF k
      <4>3. old[l + j] = u[i + 1].v[j]
        BY <2>4, <4>1
      <4> HIDE DEF l, r
      <4>4. l + j \in 1 .. k + d /\ l + j <= k
        BY <1>1, <2>5, <4>2
      <4>5. all[l + j] = old[l + j]
        BY <2>6, <4>4
      <4> QED
        BY <4>3, <4>5 DEF l
    <3> QED
      BY <3>1, <3>2
  <2>8. Stand(m + 1)
    BY <2>5, <2>6, <2>7 DEF all
  <2> QED
    BY <2>1, <2>8
<1> HIDE DEF Good
<1>5. 0 .. n \subseteq Good
  <2>1. 0 \in Int /\ n \in Int
    OBVIOUS
  <2> QED
    BY <1>3, <1>4, <2>1, RangeInduction
<1>6. Stand(n)
  <2>1. n \in 0 .. n
    OBVIOUS
  <2> QED
    BY <1>5, <2>1 DEF Good
<1> QED
  BY <1>2, <1>6 DEF d

(* What is drawn are the standard's values, the last one cut off.          *)
LEMMA DrawnIs ==
  ASSUME NEW States, Compression(States), NEW kv, kv.k \in Digests, kv.v \in Digests,
         NEW outlen \in Nat
  PROVE  LET made == Drawn(kv, outlen)
         IN /\ made.out \in Seq(ByteValues) /\ Len(made.out) = outlen
            /\ DrawnFrom(kv, made.out, made.rng)
            /\ made.rng \in [k : Digests, v : Digests, retry : BOOLEAN]
<1> DEFINE d == DigestSize
           n == (outlen + d - 1) \div d
           u == CHOOSE f : ValuesBy(f, kv, n)
           made == Drawn(kv, outlen)
           out == SubSeq(u[n].out, 1, outlen)
           value == [i \in 0 .. n |-> u[i].v]
<1>1. d \in Nat \ {0}
  BY ChunkIs
<1>2. made = [rng |-> [k |-> kv.k, v |-> u[n].v, retry |-> TRUE], out |-> out]
  BY DEF Drawn, ValuesBy
<1> HIDE DEF made, d
<1>3. n \in Nat /\ (n - 1) * d < outlen /\ outlen <= n * d
  <2>1. Ceiling(outlen, d) \in Nat /\ outlen <= d * Ceiling(outlen, d)
        /\ d * Ceiling(outlen, d) <= outlen + d - 1
    BY <1>1, CeilingIs
  <2>2. n = Ceiling(outlen, d)
    BY DEF Ceiling
  <2> HIDE DEF n
  <2>3. n \in Nat /\ outlen <= d * n /\ d * n <= outlen + d - 1
    BY <2>1, <2>2
  <2>4. d * n = n * d /\ (n - 1) * d = n * d - d
    BY <1>1, <2>3
  <2> DEFINE k == n * d
  <2>5. k \in Int /\ k <= outlen + d - 1
    BY <1>1, <2>3, <2>4
  <2> HIDE DEF k
  <2>6. k - d < outlen
    BY <1>1, <2>5
  <2> QED
    BY <2>3, <2>4, <2>6 DEF k
<1> HIDE DEF n
<1>4. /\ u \in [0 .. n -> [v : Digests, out : Seq(ByteValues)]]
      /\ u[0] = [v |-> kv.v, out |-> <<>>]
      /\ \A i \in 1 .. n : u[i].v = HmacOf(kv.k, u[i - 1].v) /\ u[i].out = u[i - 1].out \o u[i].v
  BY <1>3, ValuesRun
<1> HIDE DEF u
<1>5. /\ u[n].out \in Seq(ByteValues) /\ Len(u[n].out) = n * d
      /\ \A i \in 0 .. n - 1 : \A j \in 1 .. d : u[n].out[i * d + j] = u[i + 1].v[j]
  <2>1. u[0] = [v |-> kv.v, out |-> <<>>]
    BY <1>4
  <2>2. u[0].out = <<>>
    BY <2>1
  <2>3. \A i \in 1 .. n : u[i].out = u[i - 1].out \o u[i].v
    BY <1>4, Zenon
  <2> QED
    BY <1>3, <1>4, <2>2, <2>3, ValuesStand, Zenon DEF d
<1>6. /\ out \in Seq(ByteValues) /\ Len(out) = outlen
      /\ \A i \in 1 .. outlen : out[i] = u[n].out[i]
  <2> DEFINE w == u[n].out
  <2>1. w \in Seq(ByteValues) /\ out = SubSeq(w, 1, outlen) /\ Len(w) = n * d
    BY <1>5
  <2> HIDE DEF out, w
  <2>2. 1 \in 1 .. Len(w) + 1 /\ outlen \in 1 - 1 .. Len(w)
    BY <1>3, <2>1, LenProperties
  <2>3. /\ out \in Seq(ByteValues) /\ Len(out) = outlen - 1 + 1
        /\ \A i \in 1 .. outlen - 1 + 1 : out[i] = w[1 + i - 1]
    BY <2>1, <2>2, PartOf
  <2>4. outlen - 1 + 1 = outlen /\ \A i \in 1 .. outlen : 1 + i - 1 = i
    OBVIOUS
  <2> QED
    BY <2>3, <2>4 DEF w
<1> HIDE DEF out
<1>7. /\ value \in [0 .. n -> Digests] /\ value[0] = kv.v /\ value[n] = u[n].v
      /\ \A i \in 1 .. n : value[i] = HmacOf(kv.k, value[i - 1])
      /\ \A i \in 0 .. n - 1 : value[i + 1] = u[i + 1].v
  <2>1. \A i \in 0 .. n : u[i].v \in Digests /\ value[i] = u[i].v
    BY <1>4
  <2>2. value \in [0 .. n -> Digests]
    BY <2>1
  <2>3. value[0] = kv.v /\ value[n] = u[n].v
    BY <1>3, <1>4, <2>1
  <2> HIDE DEF value
  <2>4. ASSUME NEW i \in 1 .. n PROVE value[i] = HmacOf(kv.k, value[i - 1])
    <3>1. i \in 0 .. n /\ i - 1 \in 0 .. n
      BY <1>3
    <3>2. u[i].v = HmacOf(kv.k, u[i - 1].v)
      BY <1>4
    <3> QED
      BY <2>1, <3>1, <3>2
  <2>5. ASSUME NEW i \in 0 .. n - 1 PROVE value[i + 1] = u[i + 1].v
    <3>1. i + 1 \in 0 .. n
      BY <1>3
    <3> QED
      BY <2>1, <3>1
  <2> QED
    BY <2>2, <2>3, <2>4, <2>5
<1> HIDE DEF value
<1>8. ASSUME NEW i \in 0 .. n - 1, NEW j \in 1 .. d, i * d + j <= outlen
      PROVE  out[i * d + j] = value[i + 1][j]
  <2>1. i * d + j \in 1 .. outlen
    <3>1. i * d \in Nat
      BY <1>1, <1>3
    <3> QED
      BY <1>1, <1>8, <3>1
  <2> QED
    BY <1>5, <1>6, <1>7, <2>1
<1>9. DrawnFrom(kv, out, [k |-> kv.k, v |-> u[n].v, retry |-> TRUE])
  <2>1. /\ (n - 1) * d < Len(out) /\ Len(out) <= n * d
        /\ \A i \in 0 .. n - 1 : \A j \in 1 .. d : i * d + j <= Len(out) => out[i * d + j] = value[i + 1][j]
    BY <1>3, <1>6, <1>8
  <2> QED
    BY <1>3, <1>7, <2>1 DEF DrawnFrom, d
<1>10. [k |-> kv.k, v |-> u[n].v, retry |-> TRUE] \in [k : Digests, v : Digests, retry : BOOLEAN]
  BY <1>3, <1>4
<1>11. made.out = out /\ made.rng = [k |-> kv.k, v |-> u[n].v, retry |-> TRUE]
  BY <1>2
<1> QED
  BY <1>6, <1>9, <1>10, <1>11 DEF made

GeneratorOf(g) == [k |-> g.k, v |-> g.v, retry |-> g.retry]

(* A generator is what RFC 6979 makes of its seed; a draw is made of the   *)
(* standard's values, and all but the first begin with a new key.          *)
DrawsAreStandard ==
  [][\/ /\ GeneratorOf(rng') = [k |-> Started(rng'.seed).k, v |-> Started(rng'.seed).v, retry |-> FALSE]
        /\ drawn' = drawn
     \/ /\ rng'.seed = rng.seed
        /\ \E out \in Seq(ByteValues) :
             /\ drawn' = Append(drawn, [seed |-> rng.seed, out |-> out])
             /\ DrawnFrom(NextDraw(rng), out, GeneratorOf(rng'))]_<<rng, drawn>>

\* Keys and values are digests.
GeneratorInv == rng \in [k : Digests, v : Digests, retry : BOOLEAN, seed : Seq(ByteValues)]

(* A generator begins as the standard's does.                              *)
LEMMA SeedStarts ==
  ASSUME NEW States, Compression(States), GeneratorInv, Seed
  PROVE  /\ GeneratorInv'
         /\ GeneratorOf(rng') = [k |-> Started(rng'.seed).k, v |-> Started(rng'.seed).v, retry |-> FALSE]
         /\ drawn' = drawn
<1>1. PICK seed \in Seeds : rng' = Seeded(rfc6979_initialize(seed), seed) /\ drawn' = drawn
  BY DEF Seed
<1>2. seed \in Seq(ByteValues) /\ SeedSized(seed)
  BY SeedsAssumption DEF ByteValues, SeedSized
<1>3. Started(seed) \in KeysAndValues
      /\ rfc6979_initialize(seed) = [k |-> Started(seed).k, v |-> Started(seed).v, retry |-> FALSE]
  BY <1>2, StartedIs
<1>4. rng' = [k |-> Started(seed).k, v |-> Started(seed).v, retry |-> FALSE, seed |-> seed]
  BY <1>1, <1>3 DEF Seeded
<1> QED
  <2>1. rng'.seed = seed /\ GeneratorOf(rng') = [k |-> Started(seed).k, v |-> Started(seed).v, retry |-> FALSE]
    BY <1>4 DEF GeneratorOf
  <2>2. Started(seed).k \in Digests /\ Started(seed).v \in Digests
    BY <1>3 DEF KeysAndValues
  <2>3. rng' \in [k : Digests, v : Digests, retry : BOOLEAN, seed : Seq(ByteValues)]
    BY <1>2, <1>4, <2>2
  <2> QED
    BY <1>1, <2>1, <2>3 DEF GeneratorInv

(* It draws as the standard's does.                                        *)
LEMMA DrawFollows ==
  ASSUME NEW States, Compression(States), GeneratorInv, Draw
  PROVE  /\ GeneratorInv' /\ rng'.seed = rng.seed
         /\ \E out \in Seq(ByteValues) :
              /\ drawn' = Append(drawn, [seed |-> rng.seed, out |-> out])
              /\ DrawnFrom(NextDraw(rng), out, GeneratorOf(rng'))
<1> DEFINE from == NextDraw(rng)
<1>1. PICK n \in DrawLengths :
        /\ rng' = Seeded(rfc6979_generate(rng, n).rng, rng.seed)
        /\ drawn' = Append(drawn, [seed |-> rng.seed, out |-> rfc6979_generate(rng, n).out])
  BY DEF Draw
<1>2. n \in Nat
  BY SeedsAssumption
<1>3. rng.k \in Digests /\ rng.v \in Digests /\ rng.retry \in BOOLEAN /\ rng.seed \in Seq(ByteValues)
  BY DEF GeneratorInv
<1>4. BeforeGenerate(rng) = from /\ from.k \in Digests /\ from.v \in Digests
  <2>1. CASE rng.retry
    <3>1. 0 \in ByteValues /\ <<>> \in Seq(ByteValues) /\ Len(<<>>) = 0
      BY EmptySeq DEF ByteValues
    <3>2. SeedSized(<<>>)
      <4>1. Chunk \in Nat /\ DigestSize \in Nat
        BY ChunkIs
      <4>2. Chunk + DigestSize + 1 + Len(<<>>) = Chunk + DigestSize + 1
        BY <3>1, <4>1
      <4> QED
        BY <4>2, ChunksAssumption DEF SeedSized
    <3>3. /\ WithValue(Mac(rng.k, <<rng.v, <<0>>>>), rng.v) = Renewed(rng, <<0>>)
          /\ Renewed(rng, <<0>>) \in KeysAndValues
      BY <1>3, <3>1, <3>2, RenewedIs
    <3> QED
      BY <2>1, <3>3 DEF BeforeGenerate, NextDraw, KeysAndValues
  <2>2. CASE ~rng.retry
    BY <1>3, <2>2 DEF BeforeGenerate, NextDraw
  <2> QED
    BY <1>3, <2>1, <2>2
<1> HIDE DEF from
<1> DEFINE made == Drawn(from, n)
<1>5. rfc6979_generate(rng, n) = made
  BY <1>4 DEF rfc6979_generate
<1>6. /\ made.out \in Seq(ByteValues) /\ DrawnFrom(from, made.out, made.rng)
      /\ made.rng \in [k : Digests, v : Digests, retry : BOOLEAN]
  BY <1>2, <1>4, DrawnIs
<1> HIDE DEF made
<1>7. /\ rng' = [k |-> made.rng.k, v |-> made.rng.v, retry |-> made.rng.retry, seed |-> rng.seed]
      /\ drawn' = Append(drawn, [seed |-> rng.seed, out |-> made.out])
  BY <1>1, <1>5 DEF Seeded
<1>8. GeneratorOf(rng') = made.rng
  BY <1>6, <1>7 DEF GeneratorOf
<1>9. GeneratorInv' /\ rng'.seed = rng.seed
  BY <1>3, <1>6, <1>7 DEF GeneratorInv
<1> QED
  BY <1>6, <1>7, <1>8, <1>9 DEF from

(* The generator of nonces and blindings is the one of RFC 6979, whose     *)
(* messages the code writes in pieces: for every compression function, all *)
(* seeds, any number of draws and of bytes that are drawn at a time.       *)
THEOREM GeneratorsAreRight ==
  ASSUME NEW CONSTANT States, Compression(States)
  PROVE  HashSpec => DrawsAreStandard
<1>1. HashInit => GeneratorInv
  <2> SUFFICES ASSUME HashInit PROVE GeneratorInv
    OBVIOUS
  <2>1. 0 \in ByteValues /\ DigestSize \in Nat
    BY ChunkIs DEF ByteValues
  <2>2. memset(0, DigestSize) \in Digests
    BY <2>1, SameBytes DEF Digests
  <2>3. <<>> \in Seq(ByteValues)
    BY EmptySeq
  <2> QED
    BY <2>2, <2>3 DEF HashInit, Seeded, rfc6979_finalize, GeneratorInv
<1>2. ASSUME GeneratorInv, [HashNext]_hashVars
      PROVE  /\ GeneratorInv'
             /\ [\/ /\ GeneratorOf(rng') = [k |-> Started(rng'.seed).k, v |-> Started(rng'.seed).v,
                                            retry |-> FALSE]
                    /\ drawn' = drawn
                 \/ /\ rng'.seed = rng.seed
                    /\ \E out \in Seq(ByteValues) :
                         /\ drawn' = Append(drawn, [seed |-> rng.seed, out |-> out])
                         /\ DrawnFrom(NextDraw(rng), out, GeneratorOf(rng'))]_<<rng, drawn>>
  <2>1. CASE Seed
    BY <1>2, <2>1, SeedStarts
  <2>2. CASE Draw
    BY <1>2, <2>2, DrawFollows
  <2>3. CASE UNCHANGED <<rng, drawn>>
    BY <1>2, <2>3 DEF GeneratorInv
  <2>4. Write \/ Finalize \/ InitializeHmac \/ InitializeAgain \/ UNCHANGED hashVars
          => UNCHANGED <<rng, drawn>>
    BY DEF Write, Finalize, InitializeHmac, InitializeAgain, Generators, hashVars
  <2> QED
    BY <1>2, <2>1, <2>2, <2>3, <2>4 DEF HashNext
<1> QED
  BY <1>1, <1>2, PTL DEF HashSpec, DrawsAreStandard
=============================================================================
