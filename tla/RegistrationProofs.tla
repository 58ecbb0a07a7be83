------------------------- MODULE RegistrationProofs -------------------------
(***************************************************************************)
(* Proofs about registration, for every set of identities and sessions,    *)
(* every N and M and every bound on the list.                              *)
(***************************************************************************)
EXTENDS Registration, RingSizeLoops, NumberLemmas, TLAPS

\* The entries of the list, by index.
Ix        == 0 .. nextIndex - 1
IdAt(k)   == idList[k + 1].id
LiveAt(k) == idList[k + 1].active

\* A running scan stays inside the list.
ScanBounded ==
  \A c \in Clients : pc[c] \in {"scan", "postScan"} =>
    scan[c].at <= scan[c].limit /\ scan[c].limit <= nextIndex

\* No identity is listed twice.
Distinct == \A k, l \in Ix : IdAt(k) = IdAt(l) => k = l

TInv == TypeOK /\ ScanBounded /\ Distinct

\* What every step does to the list: entries are kept and only get revoked.
Grows ==
  /\ nextIndex' \in Nat /\ nextIndex <= nextIndex'
  /\ \A k \in Ix : IdAt(k)' = IdAt(k) /\ (LiveAt(k)' => LiveAt(k))

-----------------------------------------------------------------------------
(* The contract.                                                           *)

LEMMA ListTypes ==
  ASSUME TypeOK
  PROVE  /\ nextIndex \in Nat /\ nextIndex = Len(idList)
         /\ \A k \in Ix : /\ k + 1 \in DOMAIN idList
                          /\ idList[k + 1] \in Registry!ID
                          /\ IdAt(k) \in Ids
<1>1. nextIndex \in Nat /\ nextIndex = Len(idList) /\ idList \in Seq(Registry!ID)
  BY DEF TypeOK, Registry!TypeOK
<1>2. \A k \in Ix : k + 1 \in DOMAIN idList /\ idList[k + 1] \in Registry!ID
  BY <1>1 DEF Ix
<1> QED
  BY <1>1, <1>2 DEF IdAt, Registry!ID

LEMMA AddStep ==
  ASSUME TypeOK, Distinct, Add
  PROVE  Registry!TypeOK' /\ Grows /\ Distinct'
<1>1. PICK d \in Ids \ Listed : Registry!addID(d)
  BY DEF Add
<1> DEFINE e == [id |-> d, active |-> TRUE, owner |-> Deployer]
<1>2. e \in Registry!ID /\ e.id = d
  BY DEF Registry!ID
<1>3. idList' = Append(idList, e) /\ nextIndex' = nextIndex + 1
  BY <1>1 DEF Registry!addID
<1>4. idList \in Seq(Registry!ID) /\ nextIndex = Len(idList)
  BY DEF TypeOK, Registry!TypeOK
<1> HIDE DEF e
<1>5. Registry!TypeOK'
  BY <1>2, <1>3, <1>4 DEF Registry!TypeOK
<1>6. nextIndex \in Nat /\ idList'[nextIndex + 1] = e
  BY <1>2, <1>3, <1>4
<1>7. \A k \in Ix : idList'[k + 1] = idList[k + 1]
  BY <1>2, <1>3, <1>4 DEF Ix
<1>8. Grows
  <2>1. \A k \in Ix : IdAt(k)' = IdAt(k) /\ LiveAt(k)' = LiveAt(k)
    BY <1>7 DEF IdAt, LiveAt
  <2> QED
    BY <1>3, <1>6, <2>1 DEF Grows
<1>9. \A k \in Ix : IdAt(k) # d
  BY <1>1 DEF Listed, Ix, IdAt, Registry!getIDs
<1>10. \A k, l \in 0 .. nextIndex : idList'[k + 1].id = idList'[l + 1].id => k = l
  <2> SUFFICES ASSUME NEW k \in 0 .. nextIndex, NEW l \in 0 .. nextIndex,
                      idList'[k + 1].id = idList'[l + 1].id
               PROVE  k = l
    OBVIOUS
  <2>1. k \in Ix \/ k = nextIndex
    BY <1>6 DEF Ix
  <2>2. l \in Ix \/ l = nextIndex
    BY <1>6 DEF Ix
  <2>3. \A j \in Ix : idList'[j + 1].id = IdAt(j)
    BY <1>7 DEF IdAt
  <2>4. idList'[nextIndex + 1].id = d
    BY <1>2, <1>6
  <2> QED
    BY <1>9, <2>1, <2>2, <2>3, <2>4 DEF Distinct
<1>11. Distinct'
  <2>1. Ix' = 0 .. nextIndex
    BY <1>3, <1>6 DEF Ix
  <2> QED
    BY <1>10, <2>1 DEF Distinct, IdAt
<1> QED
  BY <1>5, <1>8, <1>11

LEMMA RevokeStep ==
  ASSUME TypeOK, Distinct, Revoke
  PROVE  Registry!TypeOK' /\ Grows /\ Distinct'
<1>1. PICK r \in Ix : Registry!revokeID(r)
  BY DEF Revoke, Ix
<1>2. /\ nextIndex \in Nat /\ r + 1 \in DOMAIN idList /\ idList[r + 1] \in Registry!ID
      /\ nextIndex' = nextIndex /\ nextIndex = Len(idList)
      /\ idList \in Seq(Registry!ID)
  BY <1>1, ListTypes DEF Registry!revokeID, TypeOK, Registry!TypeOK
<1> DEFINE e == [idList[r + 1] EXCEPT !.active = FALSE]
<1>3. e \in Registry!ID /\ e.id = idList[r + 1].id /\ e.active = FALSE
  BY <1>2 DEF Registry!ID
<1>4. idList' = [idList EXCEPT ![r + 1] = e]
  BY <1>1, <1>2 DEF Registry!revokeID
<1> HIDE DEF e
<1>5. Registry!TypeOK'
  BY <1>2, <1>3, <1>4 DEF Registry!TypeOK
<1>6. \A k \in Ix : k + 1 \in DOMAIN idList
  BY ListTypes
<1>7. \A k \in Ix : idList'[k + 1] = IF k = r THEN e ELSE idList[k + 1]
  BY <1>1, <1>2, <1>4, <1>6 DEF Ix
<1>8. \A k \in Ix : IdAt(k)' = IdAt(k)
  BY <1>3, <1>7 DEF IdAt
<1>9. \A k \in Ix : LiveAt(k)' => LiveAt(k)
  BY <1>3, <1>7 DEF LiveAt
<1>10. Grows /\ Distinct'
  BY <1>2, <1>8, <1>9 DEF Grows, Distinct, Ix
<1> QED
  BY <1>5, <1>10

LEMMA Still ==
  ASSUME TypeOK, Distinct, UNCHANGED registryVars
  PROVE  Registry!TypeOK' /\ Grows /\ Distinct'
<1>1. Registry!TypeOK' /\ nextIndex' = nextIndex /\ nextIndex \in Nat
  BY DEF TypeOK, Registry!TypeOK, registryVars
<1>2. \A k \in Ix : IdAt(k)' = IdAt(k) /\ LiveAt(k)' = LiveAt(k)
  BY DEF IdAt, LiveAt, registryVars
<1> QED
  BY <1>1, <1>2 DEF Grows, Distinct, Ix

LEMMA IndexType ==
  ASSUME TypeOK, NEW c, Registry!getIDIndex(c) # -1
  PROVE  /\ Registry!getIDIndex(c) \in 0 .. nextIndex - 1
         /\ Registry!getIDs(Registry!getIDIndex(c)) = c
<1>1. nextIndex \in Nat
  BY DEF TypeOK, Registry!TypeOK
<1>2. Registry!Matches(c) \subseteq Nat /\ Registry!Matches(c) # {}
  BY <1>1 DEF Registry!Matches, Registry!getIDIndex
<1>3. Registry!getIDIndex(c) \in Registry!Matches(c)
  BY <1>2, LeastNatural DEF Registry!getIDIndex
<1> QED
  BY <1>3 DEF Registry!Matches

(* Both sides choose an m that covers, and the same, if there is one.      *)
LEMMA MTypes ==
  ASSUME NEW n \in Nat
  PROVE  /\ ClientM(n) \in Nat
         /\ Covering(n) # {} => ClientM(n) \in Covering(n)
         /\ Covers(ClientM(n), n) => Covering(n) # {} /\ ServerM(n) = ClientM(n)
<1>1. Covering(n) \subseteq Nat
  BY LimitAssumption DEF Covering
<1>2. Covering(n) # {} => LeastCovering(n) \in Covering(n)
  BY <1>1, LeastNatural DEF LeastCovering
<1>3. Covers(1, n) => 1 \in Covering(n)
  BY LimitAssumption DEF Covering
<1> QED
  BY <1>1, <1>2, <1>3 DEF ClientM, ServerM

-----------------------------------------------------------------------------
(* Types of the sessions.                                                  *)

(* One turn of the loop of GetallActiveIDfromContract.                     *)
LEMMA ScanNext ==
  ASSUME TInv, NEW c \in Clients, ScanEntry(c)
  PROVE  /\ scan[c] \in Scan /\ scan'[c] \in Scan
         /\ scan' = [scan EXCEPT ![c] = scan'[c]]
         /\ scan[c].at \in Ix
         /\ scan'[c].limit = scan[c].limit
         /\ scan'[c].at = scan[c].at + 1
         /\ LiveAt(scan[c].at) => scan'[c].ids = Append(scan[c].ids, IdAt(scan[c].at))
         /\ ~LiveAt(scan[c].at) => scan'[c].ids = scan[c].ids
<1> DEFINE s == scan[c]
           q == IF LiveAt(s.at) THEN Append(s.ids, IdAt(s.at)) ELSE s.ids
           t == [limit |-> s.limit, at |-> s.at + 1, ids |-> q]
<1>1. s \in Scan /\ nextIndex \in Nat
  BY ListTypes DEF TypeOK, TInv
<1>2. s.at \in Nat /\ s.limit \in Nat /\ s.ids \in Seq(Ids)
  BY <1>1 DEF Scan
<1>3. s.at < s.limit /\ s.limit <= nextIndex
  BY DEF ScanEntry, TInv, ScanBounded
<1>4. s.at \in Ix
  BY <1>1, <1>2, <1>3 DEF Ix
<1>5. scan' = [scan EXCEPT ![c] = t]
  BY DEF ScanEntry, Registry!getState, Registry!getIDs, IdAt, LiveAt
<1>6. scan'[c] = t
  BY <1>5 DEF TypeOK, TInv
<1>7. IdAt(s.at) \in Ids
  BY <1>4, ListTypes DEF TInv
<1>8. q \in Seq(Ids)
  BY <1>2, <1>7
<1>9. t \in Scan
  BY <1>2, <1>8 DEF Scan
<1>10. t.limit = s.limit /\ t.at = s.at + 1 /\ t.ids = q
  OBVIOUS
<1>11. /\ LiveAt(s.at) => q = Append(s.ids, IdAt(s.at))
       /\ ~LiveAt(s.at) => q = s.ids
  OBVIOUS
<1> HIDE DEF t, q
<1> QED
  BY <1>1, <1>4, <1>5, <1>6, <1>9, <1>10, <1>11

\* What a step of session c leaves alone.
OthersKept(c) ==
  \A d \in Clients \ {c} :
    /\ pc'[d] = pc[d] /\ size'[d] = size[d] /\ index'[d] = index[d]
    /\ scan'[d] = scan[d] /\ proof'[d] = proof[d]
    /\ result'[d] = result[d] /\ active'[d] = active[d]

SessionTypeOK ==
  /\ pc     \in [Clients -> PCs]
  /\ size   \in [Clients -> Nat]
  /\ index  \in [Clients -> Int]
  /\ scan   \in [Clients -> Scan]
  /\ proof  \in [Clients -> Proof]
  /\ result \in [Clients -> Results]
  /\ active \in [Clients -> SUBSET Ids]

LEMMA NoScanType == NoScan \in Scan
BY DEF NoScan, Scan

LEMMA SessionStep ==
  ASSUME TInv, NEW c \in Clients, Start(c) \/ Step(c) \/ Fail(c)
  PROVE  SessionTypeOK' /\ OthersKept(c) /\ UNCHANGED registryVars
<1>1. nextIndex \in Nat /\ SessionTypeOK
  BY ListTypes DEF TInv, TypeOK, SessionTypeOK
<1>2. CASE Start(c)
  BY <1>1, <1>2 DEF SessionTypeOK, OthersKept, Start, Registry!getIDSize, PCs,
     Results, Proof, NoProof
<1>3. CASE ReadSize(c)
  BY <1>1, <1>3 DEF SessionTypeOK, OthersKept, ReadSize, Ends, Registry!getIDSize, PCs, Results
<1>4. CASE FindIndex(c)
  <2>1. Registry!getIDIndex(c) \in Int
    BY <1>1, IndexType DEF TInv
  <2> QED
    BY <1>1, <1>4, <2>1 DEF SessionTypeOK, OthersKept, FindIndex, Ends, PCs, Results
<1>5. ASSUME OpenScan(c)
      PROVE  scan' \in [Clients -> Scan] /\ \A d \in Clients \ {c} : scan'[d] = scan[d]
  <2>1. [limit |-> nextIndex, at |-> 0, ids |-> <<>>] \in Scan
    BY <1>1 DEF Scan
  <2> QED
    BY <1>1, <1>5, <2>1 DEF SessionTypeOK, OpenScan, Registry!getIDSize
<1>6. CASE ListActive(c)
  BY <1>1, <1>5, <1>6 DEF SessionTypeOK, OthersKept, ListActive, PCs
<1>7. CASE ScanEntry(c)
  BY <1>1, <1>7, ScanNext DEF SessionTypeOK, OthersKept, ScanEntry
<1>8. CASE Prove(c)
  <2>1. proof' \in [Clients -> Proof] /\ \A d \in Clients \ {c} : proof'[d] = proof[d]
    <3> DEFINE n == size[c]
               p == [n |-> n, m |-> ClientM(n), ring |-> Ring(c, n)]
    <3>1. n \in Nat /\ scan[c] \in Scan
      BY <1>1 DEF SessionTypeOK
    <3>2. CASE Len(scan[c].ids) >= n /\ proof' = [proof EXCEPT ![c] = p]
      <4>1. Ring(c, n) \in Seq(Ids)
        BY <3>1, <3>2 DEF Ring, Scan
      <4>2. p \in Proof
        BY <3>1, <4>1, MTypes DEF Proof
      <4> QED
        BY <1>1, <3>2, <4>2 DEF SessionTypeOK
    <3> QED
      BY <1>1, <1>8, <3>2 DEF SessionTypeOK, Prove
  <2>2. /\ \E s, r : /\ pc' = [pc EXCEPT ![c] = s] /\ s \in PCs
                     /\ result' = [result EXCEPT ![c] = r] /\ r \in Results
        /\ scan' = [scan EXCEPT ![c] = NoScan]
        /\ UNCHANGED <<registryVars, size, index, active>>
    BY <1>8 DEF Prove, Ends, PCs, Results
  <2> QED
    BY <1>1, <2>1, <2>2, NoScanType DEF SessionTypeOK, OthersKept
<1>9. CASE Submit(c)
  BY <1>1, <1>9 DEF SessionTypeOK, OthersKept, Submit, Ends, PCs, Results
<1>10. CASE PostListActive(c)
  <2>1. ActiveIds \subseteq Ids
    BY ListTypes DEF TInv, ActiveIds, Listed, Ix, IdAt, Registry!getIDs
  <2> QED
    BY <1>1, <1>5, <1>10, <2>1 DEF SessionTypeOK, OthersKept, PostListActive, PCs
<1>11. CASE Verify(c)
  BY <1>1, <1>11, NoScanType DEF SessionTypeOK, OthersKept, Verify, Ends, PCs, Results
<1>12. CASE Fail(c)
  BY <1>1, <1>12, NoScanType DEF SessionTypeOK, OthersKept, Fail, Ends, PCs, Results
<1> QED
  BY <1>2, <1>3, <1>4, <1>6, <1>7, <1>8, <1>9, <1>10, <1>11, <1>12 DEF Step

LEMMA BoundedKept ==
  ASSUME TInv, Grows, NEW d \in Clients, pc'[d] = pc[d], scan'[d] = scan[d]
  PROVE  pc'[d] \in {"scan", "postScan"} =>
           scan'[d].at <= scan'[d].limit /\ scan'[d].limit <= nextIndex'
<1>1. scan[d].limit \in Nat /\ nextIndex \in Nat
  BY ListTypes DEF TInv, TypeOK, Scan
<1> QED
  BY <1>1 DEF TInv, ScanBounded, Grows

LEMMA BoundedStep ==
  ASSUME TInv, NEW c \in Clients, Start(c) \/ Step(c) \/ Fail(c)
  PROVE  pc'[c] \in {"scan", "postScan"} =>
           scan'[c].at <= scan'[c].limit /\ scan'[c].limit <= nextIndex'
<1>1. /\ scan[c].at \in Nat /\ scan[c].limit \in Nat /\ nextIndex \in Nat
      /\ pc \in [Clients -> PCs] /\ scan \in [Clients -> Scan]
  BY ListTypes DEF TInv, TypeOK, Scan
<1>2. CASE ListActive(c) \/ PostListActive(c)
  BY <1>1, <1>2 DEF ListActive, PostListActive, OpenScan, Registry!getIDSize, registryVars
<1>3. CASE ScanEntry(c)
  <2>1. /\ scan[c].at < scan[c].limit /\ scan[c].limit <= nextIndex
        /\ nextIndex' = nextIndex
    BY <1>3 DEF TInv, ScanBounded, ScanEntry, registryVars
  <2> QED
    BY <1>1, <1>3, <2>1, ScanNext
<1>4. CASE Start(c) \/ ReadSize(c) \/ FindIndex(c) \/ Prove(c) \/ Submit(c)
           \/ Verify(c) \/ Fail(c)
  BY <1>1, <1>4 DEF Start, ReadSize, FindIndex, Prove, Submit, Verify, Fail, Ends
<1> QED
  BY <1>2, <1>3, <1>4 DEF Step

LEMMA TInvStep == TInv /\ [Next]_vars => TInv' /\ Grows
<1> SUFFICES ASSUME TInv, [Next]_vars PROVE TInv' /\ Grows
  OBVIOUS
<1>1. ASSUME Registry!TypeOK', Grows, Distinct', UNCHANGED sessionVars
      PROVE  TInv'
  <2>1. TypeOK'
    BY <1>1 DEF TInv, TypeOK, sessionVars
  <2>2. \A d \in Clients : pc'[d] = pc[d] /\ scan'[d] = scan[d]
    BY <1>1 DEF sessionVars
  <2>3. ScanBounded'
    BY <1>1, <2>2, BoundedKept DEF ScanBounded
  <2> QED
    BY <1>1, <2>1, <2>3 DEF TInv
<1>2. CASE Add
  BY <1>1, <1>2, AddStep DEF Add, TInv
<1>3. CASE Revoke
  BY <1>1, <1>3, RevokeStep DEF Revoke, TInv
<1>4. CASE UNCHANGED vars
  BY <1>1, <1>4, Still DEF vars, TInv
<1>5. ASSUME NEW c \in Clients, Start(c) \/ Step(c) \/ Fail(c)
      PROVE  TInv' /\ Grows
  <2>1. SessionTypeOK' /\ OthersKept(c) /\ UNCHANGED registryVars
    BY <1>5, SessionStep
  <2>2. Registry!TypeOK' /\ Grows /\ Distinct'
    BY <2>1, Still DEF TInv
  <2>3. TypeOK'
    BY <2>1, <2>2 DEF SessionTypeOK, TypeOK
  <2>4. ScanBounded'
    <3>1. ASSUME NEW d \in Clients
          PROVE  pc'[d] \in {"scan", "postScan"} =>
                   scan'[d].at <= scan'[d].limit /\ scan'[d].limit <= nextIndex'
      <4>1. CASE d = c
        BY <1>5, <4>1, BoundedStep
      <4>2. CASE d # c
        BY <2>1, <2>2, <4>2, BoundedKept DEF OthersKept
      <4> QED
        BY <4>1, <4>2
    <3> QED
      BY <3>1 DEF ScanBounded
  <2> QED
    BY <2>2, <2>3, <2>4 DEF TInv
<1> QED
  BY <1>2, <1>3, <1>4, <1>5 DEF Next

LEMMA TInvInit == Init => TInv
<1> SUFFICES ASSUME Init PROVE TInv
  OBVIOUS
<1>1. TypeOK
  BY DEF Init, TypeOK, Registry!Init, Registry!TypeOK, PCs, Results, Scan,
     NoScan, Proof, NoProof
<1>2. ScanBounded
  BY DEF Init, ScanBounded
<1>3. Distinct
  BY DEF Init, Registry!Init, Distinct, Ix
<1> QED
  BY <1>1, <1>2, <1>3 DEF TInv

(* Every variable has its type in every state: in particular a scan never  *)
(* reads past the end of the list, where the contract would revert.        *)
THEOREM TypeCorrect == Spec => []TypeOK
<1>1. TInv => TypeOK
  BY DEF TInv
<1> QED
  BY <1>1, TInvInit, TInvStep, PTL DEF Spec

-----------------------------------------------------------------------------
(* Lists of identities, as a scan collects them, against the contract.     *)

\* Every identity of q is listed below index b.
Known(q, b) ==
  \A j \in 1 .. Len(q) : \E k \in Ix : k < b /\ IdAt(k) = q[j]

\* q is in the order of the list.
Ordered(q) ==
  \A i, j \in 1 .. Len(q) : \A k, l \in Ix :
    i < j /\ IdAt(k) = q[i] /\ IdAt(l) = q[j] => k < l

\* q misses no identity that is active below index b.
Complete(q, b) ==
  \A k \in Ix : k < b /\ LiveAt(k) => \E j \in 1 .. Len(q) : q[j] = IdAt(k)

\* q misses no active identity that is listed before one of its own.
Dense(q) ==
  \A k, l \in Ix : \A j \in 1 .. Len(q) :
    LiveAt(k) /\ k < l /\ IdAt(l) = q[j] => \E i \in 1 .. Len(q) : q[i] = IdAt(k)

\* No identity of q is revoked.
AllLive(q) ==
  \A j \in 1 .. Len(q) : \A k \in Ix : IdAt(k) = q[j] => LiveAt(k)

LEMMA RangeGrows ==
  ASSUME NEW m \in Nat, NEW n \in Nat, m <= n, NEW k \in 0 .. m - 1
  PROVE  k \in 0 .. n - 1
OBVIOUS

LEMMA IxKept ==
  ASSUME Grows, nextIndex \in Nat, NEW k \in Ix
  PROVE  k \in Ix' /\ IdAt(k)' = IdAt(k)
<1>1. nextIndex' \in Nat /\ nextIndex <= nextIndex'
  BY DEF Grows
<1>2. k \in Ix'
  BY <1>1, RangeGrows DEF Ix
<1>3. IdAt(k)' = IdAt(k)
  BY DEF Grows
<1> QED
  BY <1>2, <1>3

LEMMA KnownKept ==
  ASSUME Grows, NEW q, NEW b, Known(q, b), nextIndex \in Nat
  PROVE  Known(q, b)'
<1>1. ASSUME NEW j \in 1 .. Len(q)
      PROVE  \E k \in Ix' : k < b /\ IdAt(k)' = q[j]
  <2>1. PICK k \in Ix : k < b /\ IdAt(k) = q[j]
    BY <1>1 DEF Known
  <2>2. k \in Ix' /\ IdAt(k)' = IdAt(k)
    BY <2>1, IxKept
  <2> QED
    BY <2>1, <2>2
<1> QED
  BY <1>1 DEF Known

\* The place of an identity of q does not move.
LEMMA PlaceKept ==
  ASSUME Grows, Distinct', NEW q, NEW b, Known(q, b), nextIndex \in Nat,
         NEW j \in 1 .. Len(q), NEW k \in Ix', IdAt(k)' = q[j]
  PROVE  k \in Ix /\ IdAt(k) = q[j] /\ k < b
<1>1. PICK l \in Ix : l < b /\ IdAt(l) = q[j]
  BY DEF Known
<1>2. l \in Ix' /\ IdAt(l)' = IdAt(l)
  BY <1>1, IxKept
<1>3. k = l
  BY <1>1, <1>2 DEF Distinct
<1> QED
  BY <1>1, <1>3

LEMMA OrderedKept ==
  ASSUME Grows, Distinct', NEW q, NEW b, Known(q, b), Ordered(q), nextIndex \in Nat
  PROVE  Ordered(q)'
BY PlaceKept DEF Ordered

LEMMA CompleteKept ==
  ASSUME Grows, NEW q, NEW b \in Nat, b <= nextIndex, Complete(q, b), nextIndex \in Nat
  PROVE  Complete(q, b)'
<1>1. ASSUME NEW k \in Ix', k < b, LiveAt(k)'
      PROVE  \E j \in 1 .. Len(q) : q[j] = IdAt(k)'
  <2>1. k \in Ix
    BY <1>1 DEF Ix, Grows
  <2>2. LiveAt(k) /\ IdAt(k)' = IdAt(k)
    BY <1>1, <2>1 DEF Grows
  <2> QED
    BY <1>1, <2>1, <2>2 DEF Complete
<1> QED
  BY <1>1 DEF Complete

LEMMA DenseKept ==
  ASSUME Grows, Distinct', NEW q, NEW b, Known(q, b), Dense(q), nextIndex \in Nat
  PROVE  Dense(q)'
<1>1. ASSUME NEW k \in Ix', NEW l \in Ix', NEW j \in 1 .. Len(q),
             LiveAt(k)', k < l, IdAt(l)' = q[j]
      PROVE  \E i \in 1 .. Len(q) : q[i] = IdAt(k)'
  <2>1. l \in Ix /\ IdAt(l) = q[j]
    BY <1>1, PlaceKept
  <2>2. k \in Ix
    BY <1>1, <2>1 DEF Ix, Grows
  <2>3. LiveAt(k) /\ IdAt(k)' = IdAt(k)
    BY <1>1, <2>2 DEF Grows
  <2> QED
    BY <1>1, <2>1, <2>2, <2>3 DEF Dense
<1> QED
  BY <1>1 DEF Dense

\* A revoked identity of q stays revoked.
LEMMA AllLiveBefore ==
  ASSUME Grows, NEW q, nextIndex \in Nat, AllLive(q)'
  PROVE  AllLive(q)
<1>1. ASSUME NEW j \in 1 .. Len(q), NEW k \in Ix, IdAt(k) = q[j]
      PROVE  LiveAt(k)
  <2>1. k \in Ix' /\ IdAt(k)' = q[j]
    BY <1>1, IxKept
  <2>2. LiveAt(k)'
    BY <2>1 DEF AllLive
  <2> QED
    BY <2>2 DEF Grows
<1> QED
  BY <1>1 DEF AllLive

-----------------------------------------------------------------------------
(* The inductive invariant of a session.                                   *)

\* Every identity of q is listed.
In(q) == \A j \in 1 .. Len(q) : \E k \in Ix : IdAt(k) = q[j]

\* The list of a command whose scan stands at index b.
ListFacts(q, b) == Known(q, b) /\ Ordered(q) /\ Complete(q, b)

\* The ring of a proof.
RingFacts(q) == In(q) /\ Ordered(q) /\ Dense(q)

\* The first identities that a scan at index b collected, q, are those of
\* the ring r that are listed below b, in the places they have in r.
Agrees(r, q, b) ==
  \A j \in 1 .. Len(r) : \A k \in Ix : IdAt(k) = r[j] =>
    /\ k < b <=> j <= Len(q)
    /\ j <= Len(q) => q[j] = r[j]

\* The scan s of the handler, against the ring r of the proof and the
\* identities a that were active when it began.
ScanFacts(r, s, a) ==
  /\ Known(r, s.limit)
  /\ \A k \in Ix : k < s.limit /\ LiveAt(k) => IdAt(k) \in a
  /\ \A j \in 1 .. Len(s.ids) : s.ids[j] \in a
  /\ AllLive(r) => Agrees(r, s.ids, s.at)

ProofFacts(p, c) ==
  /\ p.n = Len(p.ring)
  /\ p.m = ClientM(p.n) /\ Covers(p.m, p.n)
  /\ \E j \in 1 .. Len(p.ring) : p.ring[j] = c

Proved == {"form", "postList", "postScan", "done"}

Local(c) ==
  /\ pc[c] \in {"list", "scan"} => index[c] \in Nat
  /\ pc[c] = "scan" => ListFacts(scan[c].ids, scan[c].at)
  /\ pc[c] \in Proved => ProofFacts(proof[c], c) /\ RingFacts(proof[c].ring)
  /\ pc[c] = "postScan" => ScanFacts(proof[c].ring, scan[c], active[c])
  /\ result[c] \in {"dropped", "rejected"} => pc[c] = "form" /\ ~AllLive(proof[c].ring)
  /\ result[c] = "accepted" =>
       pc[c] = "done" /\ \A j \in 1 .. Len(proof[c].ring) : proof[c].ring[j] \in active[c]

IInv == TInv /\ \A c \in Clients : Local(c)

-----------------------------------------------------------------------------
(* These facts survive whatever happens to the list.                       *)

LEMMA ListFactsKept ==
  ASSUME nextIndex \in Nat, Grows, Distinct', NEW q, NEW b \in Nat, b <= nextIndex,
         ListFacts(q, b)
  PROVE  ListFacts(q, b)'
<1>1. Known(q, b) /\ Ordered(q) /\ Complete(q, b)
  BY DEF ListFacts
<1>2. Known(q, b)' /\ Ordered(q)' /\ Complete(q, b)'
  BY <1>1, KnownKept, OrderedKept, CompleteKept
<1> QED
  BY <1>2 DEF ListFacts

LEMMA InKnown ==
  ASSUME nextIndex \in Nat, NEW q, In(q)
  PROVE  \E b \in Nat : b = nextIndex /\ Known(q, b)
<1>1. \A k \in Ix : k < nextIndex
  BY DEF Ix
<1> QED
  BY <1>1 DEF In, Known

LEMMA RingFactsKept ==
  ASSUME nextIndex \in Nat, Grows, Distinct', NEW q, RingFacts(q)
  PROVE  RingFacts(q)'
<1>1. In(q) /\ Ordered(q) /\ Dense(q)
  BY DEF RingFacts
<1>2. PICK b \in Nat : Known(q, b)
  BY <1>1, InKnown
<1>3. Known(q, b)' /\ Ordered(q)' /\ Dense(q)'
  BY <1>1, <1>2, KnownKept, OrderedKept, DenseKept
<1>4. In(q)'
  BY <1>3 DEF In, Known
<1> QED
  BY <1>3, <1>4 DEF RingFacts

LEMMA ScanFactsKept ==
  ASSUME nextIndex \in Nat, Grows, Distinct', NEW r, NEW s \in Scan, NEW a,
         s.limit <= nextIndex, ScanFacts(r, s, a)
  PROVE  ScanFacts(r, s, a)'
<1>1. /\ Known(r, s.limit)
      /\ \A k \in Ix : k < s.limit /\ LiveAt(k) => IdAt(k) \in a
      /\ \A j \in 1 .. Len(s.ids) : s.ids[j] \in a
      /\ AllLive(r) => Agrees(r, s.ids, s.at)
  BY DEF ScanFacts
<1>2. s.limit \in Nat
  BY DEF Scan
<1>3. Known(r, s.limit)'
  BY <1>1, <1>2, KnownKept
<1>4. ASSUME NEW k \in Ix', k < s.limit, LiveAt(k)'
      PROVE  IdAt(k)' \in a
  <2>1. k \in Ix
    BY <1>2, <1>4 DEF Ix, Grows
  <2>2. IdAt(k)' = IdAt(k) /\ LiveAt(k)
    BY <1>4, <2>1 DEF Grows
  <2> QED
    BY <1>1, <1>4, <2>1, <2>2
<1>5. ASSUME AllLive(r)'
      PROVE  Agrees(r, s.ids, s.at)'
  <2>1. Agrees(r, s.ids, s.at)
    BY <1>1, <1>5, AllLiveBefore
  <2>2. ASSUME NEW j \in 1 .. Len(r), NEW k \in Ix', IdAt(k)' = r[j]
        PROVE  /\ k < s.at <=> j <= Len(s.ids)
               /\ j <= Len(s.ids) => s.ids[j] = r[j]
    <3>1. k \in Ix /\ IdAt(k) = r[j]
      BY <1>1, <1>2, <2>2, PlaceKept
    <3> QED
      BY <2>1, <3>1 DEF Agrees
  <2> QED
    BY <2>2 DEF Agrees
<1> QED
  BY <1>1, <1>3, <1>4, <1>5 DEF ScanFacts

-----------------------------------------------------------------------------
(* One entry is read, and the list becomes the ring of a proof.            *)

LEMMA ListNext ==
  ASSUME nextIndex \in Nat, Distinct, NEW q \in Seq(Ids), NEW b \in Ix, IdAt(b) \in Ids,
         ListFacts(q, b), NEW t,
         LiveAt(b) => t = Append(q, IdAt(b)), ~LiveAt(b) => t = q
  PROVE  ListFacts(t, b + 1)
<1>1. Known(q, b) /\ Ordered(q) /\ Complete(q, b)
  BY DEF ListFacts
<1>2. b \in Nat /\ \A k \in Ix : k \in Nat
  BY DEF Ix
<1>3. CASE LiveAt(b)
  <2>1. /\ t = Append(q, IdAt(b)) /\ t \in Seq(Ids) /\ Len(t) = Len(q) + 1
        /\ Len(q) \in Nat
        /\ \A j \in 1 .. Len(q) : t[j] = q[j]
        /\ t[Len(q) + 1] = IdAt(b)
    BY <1>3
  <2>2. \A j \in 1 .. Len(t) : j \in 1 .. Len(q) \/ j = Len(q) + 1
    BY <2>1
  <2>3. Known(t, b + 1)
    <3>1. ASSUME NEW j \in 1 .. Len(t)
          PROVE  \E k \in Ix : k < b + 1 /\ IdAt(k) = t[j]
      <4>1. CASE j \in 1 .. Len(q)
        <5>1. PICK k \in Ix : k < b /\ IdAt(k) = q[j]
          BY <1>1, <4>1 DEF Known
        <5> QED
          BY <1>2, <2>1, <4>1, <5>1
      <4>2. CASE j = Len(q) + 1
        BY <1>2, <2>1, <4>2
      <4> QED
        BY <2>2, <4>1, <4>2
    <3> QED
      BY <3>1 DEF Known
  <2>4. Ordered(t)
    <3>1. ASSUME NEW i \in 1 .. Len(t), NEW j \in 1 .. Len(t), NEW k \in Ix, NEW l \in Ix,
                 i < j, IdAt(k) = t[i], IdAt(l) = t[j]
          PROVE  k < l
      <4>1. i \in 1 .. Len(q)
        BY <2>1, <2>2, <3>1
      <4>2. CASE j \in 1 .. Len(q)
        BY <1>1, <2>1, <3>1, <4>1, <4>2 DEF Ordered
      <4>3. CASE j = Len(q) + 1
        <5>1. l = b
          BY <2>1, <3>1, <4>3 DEF Distinct
        <5>2. PICK h \in Ix : h < b /\ IdAt(h) = q[i]
          BY <1>1, <4>1 DEF Known
        <5>3. k = h
          BY <2>1, <3>1, <4>1, <5>2 DEF Distinct
        <5> QED
          BY <5>1, <5>2, <5>3
      <4> QED
        BY <2>2, <4>2, <4>3
    <3> QED
      BY <3>1 DEF Ordered
  <2>5. Complete(t, b + 1)
    <3>1. ASSUME NEW k \in Ix, k < b + 1, LiveAt(k)
          PROVE  \E j \in 1 .. Len(t) : t[j] = IdAt(k)
      <4>1. CASE k < b
        <5>1. PICK j \in 1 .. Len(q) : q[j] = IdAt(k)
          BY <1>1, <3>1, <4>1 DEF Complete
        <5> QED
          BY <2>1, <5>1
      <4>2. CASE k = b
        <5>1. Len(q) + 1 \in 1 .. Len(t)
          BY <2>1
        <5> QED
          BY <2>1, <4>2, <5>1
      <4> QED
        BY <1>2, <3>1, <4>1, <4>2
    <3> QED
      BY <3>1 DEF Complete
  <2> QED
    BY <2>3, <2>4, <2>5 DEF ListFacts
<1>4. CASE ~LiveAt(b)
  <2>1. t = q
    BY <1>4
  <2>2. Known(q, b + 1)
    <3>1. \A k : k \in Ix /\ k < b => k < b + 1
      BY <1>2
    <3> QED
      BY <1>1, <3>1 DEF Known
  <2>3. Complete(q, b + 1)
    <3>1. \A k \in Ix : k < b + 1 /\ LiveAt(k) => k < b
      <4>1. \A k \in Ix : k < b + 1 => k < b \/ k = b
        BY <1>2
      <4> QED
        BY <1>4, <4>1
    <3> QED
      BY <1>1, <3>1 DEF Complete
  <2> QED
    BY <1>1, <2>1, <2>2, <2>3 DEF ListFacts
<1> QED
  BY <1>3, <1>4

LEMMA RingOfList ==
  ASSUME nextIndex \in Nat, Distinct, NEW q \in Seq(Ids), NEW b \in Nat,
         ListFacts(q, b), NEW n \in 0 .. Len(q)
  PROVE  /\ Len(SubSeq(q, 1, n)) = n
         /\ \A j \in 1 .. n : SubSeq(q, 1, n)[j] = q[j]
         /\ RingFacts(SubSeq(q, 1, n))
<1> DEFINE r == SubSeq(q, 1, n)
<1>1. Len(r) = n /\ Len(q) \in Nat /\ \A j \in 1 .. n : r[j] = q[j] /\ j \in 1 .. Len(q)
  OBVIOUS
<1> HIDE DEF r
<1>2. Known(q, b) /\ Ordered(q) /\ Complete(q, b)
  BY DEF ListFacts
<1>3. In(r)
  BY <1>1, <1>2 DEF In, Known
<1>4. Ordered(r)
  BY <1>1, <1>2 DEF Ordered
<1>5. ASSUME NEW k \in Ix, NEW l \in Ix, NEW j \in 1 .. Len(r),
             LiveAt(k), k < l, IdAt(l) = r[j]
      PROVE  \E i \in 1 .. Len(r) : r[i] = IdAt(k)
  <2>1. j \in 1 .. n /\ j \in 1 .. Len(q) /\ IdAt(l) = q[j]
    BY <1>1, <1>5
  <2>2. PICK h \in Ix : h < b /\ IdAt(h) = q[j]
    BY <1>2, <2>1 DEF Known
  <2>3. l < b /\ k < b
    <3>1. h = l
      BY <2>1, <2>2 DEF Distinct
    <3> QED
      BY <1>5, <2>2, <3>1 DEF Ix
  <2>4. PICK i \in 1 .. Len(q) : q[i] = IdAt(k)
    BY <1>2, <1>5, <2>3 DEF Complete
  <2>5. ~(j < i)
    <3>1. j < i => l < k
      BY <1>2, <2>1, <2>4 DEF Ordered
    <3> QED
      BY <1>5, <3>1 DEF Ix
  <2>6. i \in 1 .. n
    BY <1>1, <2>1, <2>4, <2>5
  <2> QED
    BY <1>1, <2>4, <2>6
<1>6. Dense(r)
  BY <1>5 DEF Dense
<1>7. Len(r) = n /\ (\A j \in 1 .. n : r[j] = q[j]) /\ RingFacts(r)
  BY <1>1, <1>3, <1>4, <1>6 DEF RingFacts
<1> QED
  BY <1>7 DEF r

-----------------------------------------------------------------------------
(* The handler's scan finds the ring of the proof.                         *)

\* A ring names each of its entries once.
LEMMA RingInjective ==
  ASSUME NEW r, Ordered(r), NEW i \in 1 .. Len(r), NEW j \in 1 .. Len(r),
         NEW k \in Ix, IdAt(k) = r[i], IdAt(k) = r[j]
  PROVE  i = j
<1>1. ~(i < j) /\ ~(j < i)
  <2>1. ~(k < k)
    BY DEF Ix
  <2> QED
    BY <2>1 DEF Ordered
<1> QED
  BY <1>1

\* The next active entry is at its place.
LEMMA NextInRing ==
  ASSUME nextIndex \in Nat, Distinct, NEW r \in Seq(Ids), RingFacts(r),
         NEW q \in Seq(Ids), NEW b \in Ix, LiveAt(b), Agrees(r, q, b),
         Len(q) + 1 <= Len(r)
  PROVE  IdAt(b) = r[Len(q) + 1]
<1>1. In(r) /\ Ordered(r) /\ Dense(r)
  BY DEF RingFacts
<1>2. /\ Len(q) \in Nat /\ Len(r) \in Nat /\ Len(q) + 1 \in 1 .. Len(r)
      /\ ~(Len(q) + 1 <= Len(q))
  OBVIOUS
<1>3. PICK k \in Ix : IdAt(k) = r[Len(q) + 1]
  BY <1>1, <1>2 DEF In
<1>4. ~(k < b)
  BY <1>2, <1>3 DEF Agrees
<1>5. ~(b < k)
  <2>1. SUFFICES ASSUME b < k PROVE FALSE
    OBVIOUS
  <2>2. PICK i \in 1 .. Len(r) : r[i] = IdAt(b)
    BY <1>1, <1>2, <1>3, <2>1 DEF Dense
  <2>3. ~(Len(q) + 1 < i)
    <3>1. Len(q) + 1 < i => k < b
      BY <1>1, <1>2, <1>3, <2>2 DEF Ordered
    <3> QED
      BY <1>4, <3>1
  <2>4. i # Len(q) + 1
    <3>1. i = Len(q) + 1 => IdAt(b) = IdAt(k)
      BY <1>3, <2>2
    <3>2. b # k
      BY <2>1 DEF Ix
    <3> QED
      BY <3>1, <3>2 DEF Distinct
  <2>5. i <= Len(q)
    BY <1>2, <2>2, <2>3, <2>4
  <2>6. b < b
    BY <2>2, <2>5 DEF Agrees
  <2> QED
    BY <2>6 DEF Ix
<1>6. k = b
  BY <1>4, <1>5 DEF Ix
<1> QED
  BY <1>3, <1>6

LEMMA AgreesNext ==
  ASSUME nextIndex \in Nat, Distinct, NEW r \in Seq(Ids), RingFacts(r), AllLive(r),
         NEW q \in Seq(Ids), NEW b \in Ix, IdAt(b) \in Ids, Agrees(r, q, b), NEW t,
         LiveAt(b) => t = Append(q, IdAt(b)), ~LiveAt(b) => t = q
  PROVE  Agrees(r, t, b + 1)
<1>1. b \in Nat /\ (\A k \in Ix : k \in Nat) /\ Len(r) \in Nat /\ Len(q) \in Nat
  BY DEF Ix
<1>2. Ordered(r)
  BY DEF RingFacts
<1>3. CASE ~LiveAt(b)
  <2>1. ASSUME NEW j \in 1 .. Len(r), NEW k \in Ix, IdAt(k) = r[j]
        PROVE  k < b + 1 <=> k < b
    <3>1. k # b
      BY <1>3, <2>1 DEF AllLive
    <3> QED
      BY <1>1, <3>1
  <2> QED
    BY <1>3, <2>1 DEF Agrees
<1>4. CASE LiveAt(b)
  <2>1. /\ t = Append(q, IdAt(b)) /\ Len(t) = Len(q) + 1
        /\ \A j \in 1 .. Len(q) : t[j] = q[j]
        /\ t[Len(q) + 1] = IdAt(b)
    BY <1>4
  <2>2. ASSUME NEW j \in 1 .. Len(r), NEW k \in Ix, IdAt(k) = r[j]
        PROVE  /\ k < b + 1 <=> j <= Len(t)
               /\ j <= Len(t) => t[j] = r[j]
    <3>1. /\ k < b <=> j <= Len(q)
          /\ j <= Len(q) => q[j] = r[j]
      BY <2>2 DEF Agrees
    <3>2. k < b + 1 <=> k < b \/ k = b
      BY <1>1
    <3>3. j <= Len(t) <=> j <= Len(q) \/ j = Len(q) + 1
      BY <1>1, <2>1
    <3>4. k = b <=> j = Len(q) + 1
      <4>1. ASSUME j = Len(q) + 1 PROVE k = b
        <5>1. IdAt(b) = r[j]
          BY <1>4, <4>1, NextInRing
        <5> QED
          BY <2>2, <5>1 DEF Distinct
      <4>2. ASSUME k = b PROVE j = Len(q) + 1
        <5>1. ~(j <= Len(q))
          <6>1. ~(b < b)
            BY <1>1
          <6> QED
            BY <3>1, <4>2, <6>1
        <5>2. Len(q) + 1 <= Len(r)
          BY <1>1, <5>1
        <5>3. IdAt(b) = r[Len(q) + 1] /\ Len(q) + 1 \in 1 .. Len(r)
          BY <1>1, <1>4, <5>2, NextInRing
        <5> QED
          BY <1>2, <2>2, <4>2, <5>3, RingInjective
      <4> QED
        BY <4>1, <4>2
    <3>5. j <= Len(q) => t[j] = r[j]
      BY <1>1, <2>1, <3>1
    <3>6. j = Len(q) + 1 => t[j] = r[j]
      BY <2>1, <2>2, <3>4
    <3> QED
      BY <3>1, <3>2, <3>3, <3>4, <3>5, <3>6
  <2> QED
    BY <2>2 DEF Agrees
<1> QED
  BY <1>3, <1>4

LEMMA SeqEqual ==
  ASSUME NEW S, NEW q \in Seq(S), NEW r \in Seq(S), Len(q) = Len(r),
         \A j \in 1 .. Len(r) : q[j] = r[j]
  PROVE  q = r
OBVIOUS

LEMMA ScanOpens ==
  ASSUME nextIndex \in Nat, Distinct, NEW r, In(r)
  PROVE  ScanFacts(r, [limit |-> nextIndex, at |-> 0, ids |-> <<>>], ActiveIds)
<1> DEFINE s == [limit |-> nextIndex, at |-> 0, ids |-> <<>>]
<1>1. s.limit = nextIndex /\ s.at = 0 /\ s.ids = <<>> /\ Len(s.ids) = 0
  OBVIOUS
<1> HIDE DEF s
<1>2. \A k \in Ix : k \in Nat /\ k < nextIndex /\ ~(k < 0)
  BY DEF Ix
<1>3. Known(r, s.limit)
  BY <1>1, <1>2 DEF Known, In
<1>4. ASSUME NEW k \in Ix, LiveAt(k)
      PROVE  IdAt(k) \in ActiveIds
  <2>1. IdAt(k) \in Listed
    BY <1>4 DEF Listed, Ix, IdAt, Registry!getIDs
  <2>2. ~Revoked(IdAt(k))
    <3>1. \A l \in Ix : IdAt(l) = IdAt(k) => LiveAt(l)
      BY <1>4 DEF Distinct
    <3> QED
      BY <3>1 DEF Revoked, Ix, IdAt, LiveAt, Registry!getIDs, Registry!getState
  <2> QED
    BY <2>1, <2>2 DEF ActiveIds
<1>5. \A j \in 1 .. Len(s.ids) : s.ids[j] \in ActiveIds
  BY <1>1
<1>6. Agrees(r, s.ids, s.at)
  BY <1>1, <1>2 DEF Agrees
<1>7. ScanFacts(r, s, ActiveIds)
  BY <1>3, <1>4, <1>5, <1>6 DEF ScanFacts
<1> QED
  BY <1>7 DEF s

LEMMA ScanGoesOn ==
  ASSUME nextIndex \in Nat, Distinct, NEW r \in Seq(Ids), RingFacts(r), NEW a,
         NEW s \in Scan, ScanFacts(r, s, a), s.at \in Ix, s.at < s.limit, IdAt(s.at) \in Ids,
         NEW t, t.limit = s.limit, t.at = s.at + 1,
         LiveAt(s.at) => t.ids = Append(s.ids, IdAt(s.at)), ~LiveAt(s.at) => t.ids = s.ids
  PROVE  ScanFacts(r, t, a)
<1>1. /\ Known(r, s.limit)
      /\ \A k \in Ix : k < s.limit /\ LiveAt(k) => IdAt(k) \in a
      /\ \A j \in 1 .. Len(s.ids) : s.ids[j] \in a
      /\ AllLive(r) => Agrees(r, s.ids, s.at)
  BY DEF ScanFacts
<1>2. s.ids \in Seq(Ids)
  BY DEF Scan
<1>3. \A j \in 1 .. Len(t.ids) : t.ids[j] \in a
  <2>1. CASE LiveAt(s.at)
    <3>1. IdAt(s.at) \in a
      BY <1>1, <2>1
    <3>2. \A q \in Seq(Ids) : (\A j \in 1 .. Len(q) : q[j] \in a) =>
            \A j \in 1 .. Len(Append(q, IdAt(s.at))) : Append(q, IdAt(s.at))[j] \in a
      BY <3>1
    <3> QED
      BY <1>1, <1>2, <2>1, <3>2
  <2>2. CASE ~LiveAt(s.at)
    BY <1>1, <2>2
  <2> QED
    BY <2>1, <2>2
<1>4. AllLive(r) => Agrees(r, t.ids, t.at)
  BY <1>1, <1>2, AgreesNext
<1> QED
  BY <1>1, <1>3, <1>4 DEF ScanFacts

\* At the end of the scan, the first identities of the list are the ring.
LEMMA ScanFinds ==
  ASSUME nextIndex \in Nat, NEW r \in Seq(Ids), NEW s \in Scan, NEW a,
         ScanFacts(r, s, a), s.at = s.limit, AllLive(r)
  PROVE  Len(r) <= Len(s.ids) /\ SubSeq(s.ids, 1, Len(r)) = r
<1>1. Known(r, s.at) /\ Agrees(r, s.ids, s.at)
  BY DEF ScanFacts
<1>2. \A j \in 1 .. Len(r) : j <= Len(s.ids) /\ s.ids[j] = r[j]
  BY <1>1 DEF Known, Agrees
<1>3. s.ids \in Seq(Ids)
  BY DEF Scan
<1>4. Len(r) <= Len(s.ids)
  <2>1. Len(r) \in Nat /\ Len(s.ids) \in Nat
    BY <1>3
  <2>2. CASE Len(r) = 0
    BY <2>1, <2>2
  <2>3. CASE Len(r) # 0
    <3>1. Len(r) \in 1 .. Len(r)
      BY <2>1, <2>3
    <3> QED
      BY <1>2, <3>1
  <2> QED
    BY <2>2, <2>3
<1> DEFINE q == SubSeq(s.ids, 1, Len(r))
<1>5. q \in Seq(Ids) /\ Len(q) = Len(r) /\ \A j \in 1 .. Len(r) : q[j] = s.ids[j]
  BY <1>3, <1>4
<1> HIDE DEF q
<1>6. \A j \in 1 .. Len(r) : q[j] = r[j]
  BY <1>2, <1>5
<1>7. q = r
  BY <1>5, <1>6, SeqEqual
<1> QED
  BY <1>4, <1>7 DEF q

\* What a valid answer compared is what the scan had seen active.
LEMMA RingSeen ==
  ASSUME NEW r, NEW s \in Scan, NEW a, ScanFacts(r, s, a),
         Len(r) \in Nat, Len(r) <= Len(s.ids), r = SubSeq(s.ids, 1, Len(r))
  PROVE  \A j \in 1 .. Len(r) : r[j] \in a
<1>1. \A j \in 1 .. Len(s.ids) : s.ids[j] \in a
  BY DEF ScanFacts
<1>2. s.ids \in Seq(Ids)
  BY DEF Scan
<1>3. \A n \in Nat : n <= Len(s.ids) =>
        \A j \in 1 .. n : j \in 1 .. Len(s.ids) /\ SubSeq(s.ids, 1, n)[j] = s.ids[j]
  BY <1>2
<1>4. \A j \in 1 .. Len(r) : j \in 1 .. Len(s.ids) /\ r[j] = s.ids[j]
  BY <1>3
<1> QED
  BY <1>1, <1>4

-----------------------------------------------------------------------------
(* The invariant of a session, under the steps of all others.              *)

LEMMA LocalKept ==
  ASSUME TInv, Grows, Distinct', NEW d \in Clients, Local(d),
         pc'[d] = pc[d], index'[d] = index[d], scan'[d] = scan[d], proof'[d] = proof[d],
         result'[d] = result[d], active'[d] = active[d]
  PROVE  Local(d)'
<1>1. nextIndex \in Nat /\ scan[d] \in Scan /\ proof[d] \in Proof
  BY ListTypes DEF TInv, TypeOK
<1>2. PICK s \in Scan : s = scan[d] /\ s = scan'[d]
  BY <1>1
<1>3. PICK p \in Proof : p = proof[d] /\ p = proof'[d]
  BY <1>1
<1>4. PICK a : a = active[d] /\ a = active'[d]
  OBVIOUS
<1>5. /\ pc[d] \in {"list", "scan"} => index[d] \in Nat
      /\ pc[d] = "scan" => ListFacts(s.ids, s.at)
      /\ pc[d] \in Proved => ProofFacts(p, d) /\ RingFacts(p.ring)
      /\ pc[d] = "postScan" => ScanFacts(p.ring, s, a)
      /\ result[d] \in {"dropped", "rejected"} => pc[d] = "form" /\ ~AllLive(p.ring)
      /\ result[d] = "accepted" => pc[d] = "done" /\ \A j \in 1 .. Len(p.ring) : p.ring[j] \in a
  BY <1>2, <1>3, <1>4 DEF Local
<1>6. pc[d] \in {"scan", "postScan"} =>
        s.at \in Nat /\ s.limit \in Nat /\ s.at <= nextIndex /\ s.limit <= nextIndex
  BY <1>1, <1>2 DEF TInv, ScanBounded, Scan
<1>7. pc[d] = "scan" => ListFacts(s.ids, s.at)'
  BY <1>1, <1>5, <1>6, ListFactsKept
<1>8. pc[d] \in Proved => RingFacts(p.ring)'
  BY <1>1, <1>5, RingFactsKept
<1>9. pc[d] = "postScan" => ScanFacts(p.ring, s, a)'
  BY <1>1, <1>5, <1>6, ScanFactsKept
<1>10. ~AllLive(p.ring) => ~AllLive(p.ring)'
  BY <1>1, AllLiveBefore
<1> QED
  BY <1>2, <1>3, <1>4, <1>5, <1>7, <1>8, <1>9, <1>10 DEF Local, ProofFacts, Proved

-----------------------------------------------------------------------------
(* The invariant of a session, under its own steps.                        *)

\* These steps leave no fact to establish beyond those that are kept.
LEMMA LocalSimple ==
  ASSUME IInv, Grows, Distinct', NEW c \in Clients,
         Start(c) \/ ReadSize(c) \/ FindIndex(c) \/ Submit(c) \/ Fail(c)
  PROVE  Local(c)'
<1>1. nextIndex \in Nat /\ proof[c] \in Proof /\ TypeOK /\ Local(c)
  BY ListTypes DEF IInv, TInv, TypeOK
<1>2. /\ pc \in [Clients -> PCs] /\ index \in [Clients -> Int] /\ scan \in [Clients -> Scan]
      /\ proof \in [Clients -> Proof] /\ result \in [Clients -> Results]
  BY <1>1 DEF TypeOK
<1>3. CASE Start(c) \/ ReadSize(c)
  BY <1>2, <1>3 DEF Local, Start, ReadSize, Ends, Proved
<1>4. CASE FindIndex(c)
  <2>1. Registry!getIDIndex(c) # -1 => Registry!getIDIndex(c) \in Nat
    BY <1>1, IndexType
  <2> QED
    BY <1>2, <1>4, <2>1 DEF Local, FindIndex, Ends, Proved
<1>5. CASE Submit(c) \/ Fail(c)
  <2>1. PICK p \in Proof : p = proof[c] /\ p = proof'[c]
    BY <1>1, <1>5 DEF Submit, Fail
  <2>2. pc[c] \in Proved => ProofFacts(p, c) /\ RingFacts(p.ring)
    BY <1>1, <2>1 DEF Local
  <2>3. pc[c] \in Proved => RingFacts(p.ring)'
    BY <1>1, <2>2, RingFactsKept
  <2>4. /\ pc'[c] \notin {"list", "scan", "postScan"}
        /\ pc'[c] \in Proved => pc[c] \in Proved
        /\ result'[c] \notin {"dropped", "rejected", "accepted"}
    BY <1>2, <1>5 DEF Submit, Fail, Ends, Proved
  <2> QED
    BY <2>1, <2>2, <2>3, <2>4 DEF Local, ProofFacts
<1> QED
  BY <1>3, <1>4, <1>5

LEMMA LocalListActive ==
  ASSUME IInv, Grows, Distinct', NEW c \in Clients, ListActive(c)
  PROVE  Local(c)'
<1>1. nextIndex \in Nat /\ TypeOK /\ Local(c)
  BY ListTypes DEF IInv, TInv
<1>2. /\ pc \in [Clients -> PCs] /\ scan \in [Clients -> Scan]
  BY <1>1 DEF TypeOK
<1>3. /\ pc[c] = "list" /\ pc'[c] = "scan" /\ index'[c] = index[c] /\ result'[c] = result[c]
      /\ scan'[c] = [limit |-> nextIndex, at |-> 0, ids |-> <<>>]
  BY <1>2 DEF ListActive, OpenScan, Registry!getIDSize
<1>4. scan'[c].at = 0 /\ scan'[c].ids = <<>>
  BY <1>3
<1>5. ListFacts(<<>>, 0)
  BY DEF ListFacts, Known, Ordered, Complete, Ix
<1>6. ListFacts(<<>>, 0)'
  BY <1>1, <1>5, ListFactsKept
<1>7. result[c] \notin {"dropped", "rejected", "accepted"} /\ index[c] \in Nat
  BY <1>1, <1>3 DEF Local
<1> QED
  BY <1>3, <1>4, <1>6, <1>7 DEF Local, Proved

LEMMA LocalScanEntry ==
  ASSUME IInv, Grows, Distinct', NEW c \in Clients, ScanEntry(c)
  PROVE  Local(c)'
<1>1. nextIndex \in Nat /\ TypeOK /\ Local(c) /\ TInv /\ Distinct
  BY ListTypes DEF IInv, TInv
<1>2. proof[c] \in Proof
  BY <1>1 DEF TypeOK
<1>3. PICK s \in Scan : s = scan[c]
  BY <1>1, ScanNext
<1>4. PICK t \in Scan : t = scan'[c]
  BY <1>1, ScanNext
<1>5. /\ s.at \in Ix /\ t.limit = s.limit /\ t.at = s.at + 1
      /\ LiveAt(s.at) => t.ids = Append(s.ids, IdAt(s.at))
      /\ ~LiveAt(s.at) => t.ids = s.ids
  BY <1>1, <1>3, <1>4, ScanNext
<1>6. IdAt(s.at) \in Ids
  BY <1>1, <1>5, ListTypes
<1>7. PICK p \in Proof : p = proof[c] /\ p = proof'[c]
  BY <1>2 DEF ScanEntry
<1>8. PICK a : a = active[c] /\ a = active'[c]
  BY DEF ScanEntry
<1>9. /\ pc'[c] = pc[c] /\ pc[c] \in {"scan", "postScan"} /\ index'[c] = index[c]
      /\ result'[c] = result[c] /\ s.at < s.limit
  BY <1>3 DEF ScanEntry
<1>10. s.ids \in Seq(Ids) /\ s.limit \in Nat /\ s.limit <= nextIndex /\ p.ring \in Seq(Ids)
  BY <1>1, <1>3, <1>9 DEF TInv, ScanBounded, Scan, Proof
<1>11. pc[c] = "scan" => ListFacts(t.ids, t.at)'
  <2>1. SUFFICES ASSUME pc[c] = "scan" PROVE ListFacts(t.ids, t.at)'
    OBVIOUS
  <2>2. ListFacts(s.ids, s.at)
    BY <1>1, <1>3, <2>1 DEF Local
  <2>3. ListFacts(t.ids, s.at + 1)
    BY <1>1, <1>5, <1>6, <1>10, <2>2, ListNext
  <2>4. s.at + 1 \in Nat /\ s.at + 1 <= nextIndex
    BY <1>1, <1>5, <1>9, <1>10 DEF Ix
  <2> QED
    BY <1>1, <1>5, <2>3, <2>4, ListFactsKept
<1>12. pc[c] = "postScan" => ProofFacts(p, c) /\ RingFacts(p.ring)' /\ ScanFacts(p.ring, t, a)'
  <2>1. SUFFICES ASSUME pc[c] = "postScan"
                 PROVE  ProofFacts(p, c) /\ RingFacts(p.ring)' /\ ScanFacts(p.ring, t, a)'
    OBVIOUS
  <2>2. ProofFacts(p, c) /\ RingFacts(p.ring) /\ ScanFacts(p.ring, s, a)
    BY <1>1, <1>3, <1>7, <1>8, <2>1 DEF Local, Proved
  <2>3. ScanFacts(p.ring, t, a)
    BY <1>1, <1>5, <1>6, <1>9, <1>10, <2>2, ScanGoesOn
  <2>4. t.limit <= nextIndex
    BY <1>5, <1>10
  <2> QED
    BY <1>1, <2>2, <2>3, <2>4, RingFactsKept, ScanFactsKept
<1>13. pc[c] = "scan" => index[c] \in Nat
  BY <1>1 DEF Local
<1>14. result[c] \notin {"dropped", "rejected", "accepted"}
  BY <1>1, <1>9 DEF Local
<1> QED
  BY <1>4, <1>7, <1>8, <1>9, <1>11, <1>12, <1>13, <1>14 DEF Local, ProofFacts, Proved

LEMMA LocalProve ==
  ASSUME IInv, Grows, Distinct', NEW c \in Clients, Prove(c)
  PROVE  Local(c)'
<1>1. nextIndex \in Nat /\ TypeOK /\ Local(c) /\ TInv /\ Distinct
  BY ListTypes DEF IInv, TInv
<1>2. /\ pc \in [Clients -> PCs] /\ proof \in [Clients -> Proof]
      /\ result \in [Clients -> Results] /\ scan[c] \in Scan /\ size[c] \in Nat
      /\ index[c] \in Nat /\ pc[c] = "scan"
  BY <1>1 DEF TypeOK, Local, Prove
<1>3. CASE pc'[c] # "form"
  <2>1. pc'[c] = "ready" /\ result'[c] \notin {"dropped", "rejected", "accepted"}
    BY <1>2, <1>3 DEF Prove, Ends
  <2> QED
    BY <2>1 DEF Local, Proved
<1>4. CASE pc'[c] = "form"
  <2> DEFINE n == size[c]
             q == scan[c].ids
             p == [n |-> n, m |-> ClientM(n), ring |-> Ring(c, n)]
  <2>1. /\ Len(q) >= n /\ Covers(ClientM(n), n) /\ index[c] < n /\ q[index[c] + 1] = c
        /\ proof'[c] = p /\ result'[c] = "none"
    BY <1>2, <1>4 DEF Prove, Ends
  <2>2. q \in Seq(Ids) /\ scan[c].at \in Nat /\ ListFacts(q, scan[c].at)
    BY <1>1, <1>2 DEF Scan, Local
  <2>3. PICK r : r = Ring(c, n)
    OBVIOUS
  <2>4. n \in 0 .. Len(q) /\ r = SubSeq(q, 1, n)
    BY <1>2, <2>1, <2>2, <2>3 DEF Ring
  <2>5. Len(r) = n /\ (\A j \in 1 .. n : r[j] = q[j]) /\ RingFacts(r)
    BY <1>1, <2>2, <2>4, RingOfList
  <2>6. index[c] + 1 \in 1 .. n
    BY <1>2, <2>1
  <2>7. p.n = n /\ p.m = ClientM(n) /\ p.ring = r
    BY <2>3
  <2> HIDE DEF p, q, n
  <2>8. ProofFacts(p, c)
    BY <2>1, <2>5, <2>6, <2>7 DEF ProofFacts
  <2>9. RingFacts(r)'
    BY <1>1, <2>5, RingFactsKept
  <2>10. ProofFacts(proof'[c], c) /\ proof'[c].ring = r
    BY <2>1, <2>7, <2>8
  <2> QED
    BY <1>4, <2>1, <2>9, <2>10 DEF Local, ProofFacts, Proved
<1> QED
  BY <1>3, <1>4

LEMMA LocalPostListActive ==
  ASSUME IInv, Grows, Distinct', NEW c \in Clients, PostListActive(c)
  PROVE  Local(c)'
<1>1. nextIndex \in Nat /\ TypeOK /\ Local(c) /\ TInv /\ Distinct
  BY ListTypes DEF IInv, TInv
<1>2. /\ pc \in [Clients -> PCs] /\ scan \in [Clients -> Scan]
      /\ active \in [Clients -> SUBSET Ids] /\ proof[c] \in Proof
  BY <1>1 DEF TypeOK
<1>3. /\ pc[c] = "postList" /\ pc'[c] = "postScan" /\ result'[c] = result[c]
      /\ scan'[c] = [limit |-> nextIndex, at |-> 0, ids |-> <<>>]
      /\ active'[c] = ActiveIds
  BY <1>2 DEF PostListActive, OpenScan, Registry!getIDSize
<1>4. PICK p \in Proof : p = proof[c] /\ p = proof'[c]
  BY <1>2 DEF PostListActive
<1>5. ProofFacts(p, c) /\ RingFacts(p.ring)
  BY <1>1, <1>3, <1>4 DEF Local, Proved
<1>6. PICK s \in Scan : s = [limit |-> nextIndex, at |-> 0, ids |-> <<>>]
  <2>1. [limit |-> nextIndex, at |-> 0, ids |-> <<>>] \in Scan
    BY <1>1 DEF Scan
  <2> QED
    BY <2>1
<1>7. PICK a : a = ActiveIds
  OBVIOUS
<1>8. ScanFacts(p.ring, s, a)
  BY <1>1, <1>5, <1>6, <1>7, ScanOpens DEF RingFacts
<1>9. s.limit <= nextIndex
  BY <1>1, <1>6
<1>10. RingFacts(p.ring)' /\ ScanFacts(p.ring, s, a)'
  BY <1>1, <1>5, <1>8, <1>9, RingFactsKept, ScanFactsKept
<1>11. result[c] \notin {"dropped", "rejected", "accepted"}
  BY <1>1, <1>3 DEF Local
<1> QED
  BY <1>3, <1>4, <1>5, <1>6, <1>7, <1>10, <1>11 DEF Local, ProofFacts, Proved

LEMMA LocalVerify ==
  ASSUME IInv, Grows, Distinct', NEW c \in Clients, Verify(c)
  PROVE  Local(c)'
<1>1. nextIndex \in Nat /\ TypeOK /\ Local(c) /\ TInv /\ Distinct
  BY ListTypes DEF IInv, TInv
<1>2. /\ pc \in [Clients -> PCs] /\ result \in [Clients -> Results]
      /\ scan[c] \in Scan /\ proof[c] \in Proof
  BY <1>1 DEF TypeOK
<1>3. PICK p \in Proof : p = proof[c] /\ p = proof'[c]
  BY <1>2 DEF Verify
<1>4. PICK s \in Scan : s = scan[c]
  BY <1>2
<1>5. PICK a : a = active[c] /\ a = active'[c]
  BY DEF Verify
<1>6. p.n \in Nat /\ p.ring \in Seq(Ids) /\ Len(p.ring) \in Nat
  BY DEF Proof
<1>7. pc[c] = "postScan" /\ s.at = s.limit
  BY <1>4 DEF Verify, Scanned
<1>8. ProofFacts(p, c) /\ RingFacts(p.ring) /\ ScanFacts(p.ring, s, a)
  BY <1>1, <1>3, <1>4, <1>5, <1>7 DEF Local, Proved
<1>9. RingFacts(p.ring)'
  BY <1>1, <1>8, RingFactsKept
<1>10. p.n = Len(p.ring) /\ p.m = ServerM(p.n)
  BY <1>6, <1>8, MTypes DEF ProofFacts
<1>11. p.m \in Nat
  BY DEF Proof
<1>12. CASE pc'[c] = "form"
  <2>1. result'[c] \in {"dropped", "rejected"}
        /\ ~(Len(s.ids) >= p.n /\ p.ring = SubSeq(s.ids, 1, p.n))
    BY <1>2, <1>3, <1>4, <1>6, <1>10, <1>11, <1>12 DEF Verify, Ends, Ring, Scan
  <2>2. ~AllLive(p.ring)
    <3>1. s.ids \in Seq(Ids)
      BY DEF Scan
    <3> QED
      BY <1>1, <1>6, <1>7, <1>8, <1>10, <2>1, <3>1, ScanFinds
  <2>3. ~AllLive(p.ring)'
    BY <1>1, <2>2, AllLiveBefore
  <2> QED
    BY <1>3, <1>8, <1>9, <1>12, <2>1, <2>3 DEF Local, ProofFacts, Proved
<1>13. CASE pc'[c] # "form"
  <2>1. /\ pc'[c] = "done" /\ result'[c] = "accepted"
        /\ Len(s.ids) >= p.n /\ p.ring = SubSeq(s.ids, 1, p.n)
    BY <1>2, <1>3, <1>4, <1>6, <1>13 DEF Verify, Ends, Ring, Scan
  <2>2. Len(p.ring) <= Len(s.ids)
    <3>1. Len(s.ids) \in Nat
      BY DEF Scan
    <3> QED
      BY <1>6, <1>10, <2>1, <3>1
  <2>3. \A j \in 1 .. Len(p.ring) : p.ring[j] \in a
    BY <1>6, <1>8, <1>10, <2>1, <2>2, RingSeen
  <2> QED
    BY <1>3, <1>5, <1>8, <1>9, <2>1, <2>3 DEF Local, ProofFacts, Proved
<1> QED
  BY <1>12, <1>13

-----------------------------------------------------------------------------
(* The theorems.                                                           *)

LEMMA IInvInit == Init => IInv
<1> SUFFICES ASSUME Init PROVE \A c \in Clients : Local(c)
  BY TInvInit DEF IInv
<1> QED
  BY DEF Init, Local, Proved

LEMMA IInvStep == IInv /\ [Next]_vars => IInv'
<1> SUFFICES ASSUME IInv, [Next]_vars PROVE IInv'
  OBVIOUS
<1>1. TInv /\ TInv' /\ Grows /\ Distinct' /\ \A d \in Clients : Local(d)
  BY TInvStep DEF IInv, TInv
<1>2. CASE UNCHANGED sessionVars
  <2>1. ASSUME NEW d \in Clients PROVE Local(d)'
    BY <1>1, <1>2, LocalKept DEF sessionVars
  <2> QED
    BY <1>1, <2>1 DEF IInv
<1>3. ASSUME NEW c \in Clients, Start(c) \/ Step(c) \/ Fail(c)
      PROVE  IInv'
  <2>1. OthersKept(c)
    BY <1>1, <1>3, SessionStep
  <2>2. Local(c)'
    BY <1>1, <1>3, LocalSimple, LocalListActive, LocalScanEntry, LocalProve,
       LocalPostListActive, LocalVerify DEF Step
  <2>3. ASSUME NEW d \in Clients PROVE Local(d)'
    <3>1. CASE d = c
      BY <2>2, <3>1
    <3>2. CASE d # c
      BY <1>1, <2>1, <3>2, LocalKept DEF OthersKept
    <3> QED
      BY <3>1, <3>2
  <2> QED
    BY <1>1, <2>3 DEF IInv
<1> QED
  BY <1>2, <1>3 DEF Next, Add, Revoke, vars

(* The signup handler drops or refuses a proof only if an identity of its  *)
(* ring is revoked: additions between the command and the form, and        *)
(* revocations outside of the ring, do no harm.                            *)
THEOREM RefusalNeedsRevocation == Spec => []RefusedOnlyAfterRevocation
<1>1. IInv => RefusedOnlyAfterRevocation
  <2> SUFFICES ASSUME IInv, NEW c \in Clients, result[c] \in {"dropped", "rejected"}
               PROVE  \E j \in 1 .. proof[c].n : proof[c].ring[j] \notin ActiveIds
    BY DEF RefusedOnlyAfterRevocation
  <2>1. proof[c].n = Len(proof[c].ring) /\ ~AllLive(proof[c].ring)
    BY DEF IInv, Local, ProofFacts, Proved
  <2>2. PICK j \in 1 .. proof[c].n : \E k \in Ix : IdAt(k) = proof[c].ring[j] /\ ~LiveAt(k)
    BY <2>1 DEF AllLive
  <2>3. Revoked(proof[c].ring[j])
    BY <2>2 DEF Revoked, Ix, IdAt, LiveAt, Registry!getIDs, Registry!getState
  <2> QED
    BY <2>3 DEF ActiveIds
<1> QED
  BY <1>1, IInvInit, IInvStep, PTL DEF Spec

(* The ring of an accepted proof holds the user's identity, and only       *)
(* identities that were active when the handler began to read the list.    *)
THEOREM AcceptanceMeansActive == Spec => []AcceptedRingWasActive
<1>1. IInv => AcceptedRingWasActive
  BY DEF IInv, Local, ProofFacts, Proved, AcceptedRingWasActive
<1> QED
  BY <1>1, IInvInit, IInvStep, PTL DEF Spec

-----------------------------------------------------------------------------
(* Why the register command ends without a proof.  The three reads of the      *)
(* command are related to each other: the size is that of an earlier list, the *)
(* index is that of an entry, and, while no identity is revoked, the list is   *)
(* read as it stands in the contract.                                          *)
AllActive == \A k \in Ix : LiveAt(k)

\* q is what the first b entries hold.
IsPrefix(q, b) == Len(q) = b /\ \A j \in 1 .. b : q[j] = IdAt(j - 1)

Reasons(c) ==
  /\ pc[c] \in {"index", "list", "scan"} => size[c] <= nextIndex
  /\ pc[c] \in {"list", "scan"} => index[c] \in Ix /\ IdAt(index[c]) = c
  /\ pc[c] = "scan" => size[c] <= scan[c].limit
  /\ pc[c] = "scan" /\ AllActive => IsPrefix(scan[c].ids, scan[c].at)
  /\ AllActive => /\ result[c] # "panic"
                  /\ result[c] = "noProof" => Covering(size[c]) = {}
                  /\ result[c] = "abort" => size[c] <= index[c]

RInv == TInv /\ \A c \in Clients : Reasons(c)

-----------------------------------------------------------------------------
LEMMA SomeRevokedMeans == ~SomeRevoked <=> AllActive
BY DEF SomeRevoked, AllActive, Ix, LiveAt, Registry!getState

LEMMA AllActiveBefore ==
  ASSUME Grows, nextIndex \in Nat, AllActive'
  PROVE  AllActive
<1> SUFFICES ASSUME NEW k \in Ix PROVE LiveAt(k)
  BY DEF AllActive
<1>1. k \in Ix'
  BY IxKept
<1>2. LiveAt(k)'
  BY <1>1 DEF AllActive
<1> QED
  BY <1>2 DEF Grows

LEMMA PrefixKept ==
  ASSUME Grows, nextIndex \in Nat, NEW q, NEW b \in Nat, b <= nextIndex, IsPrefix(q, b)
  PROVE  IsPrefix(q, b)'
<1>1. ASSUME NEW j \in 1 .. b PROVE q[j] = IdAt(j - 1)'
  <2>1. j - 1 \in Ix
    BY DEF Ix
  <2>2. IdAt(j - 1)' = IdAt(j - 1)
    BY <2>1 DEF Grows
  <2> QED
    BY <2>2 DEF IsPrefix
<1> QED
  BY <1>1 DEF IsPrefix

(* A session keeps its facts while others act.                             *)
LEMMA ReasonsKept ==
  ASSUME TInv, Grows, NEW d \in Clients, Reasons(d),
         pc'[d] = pc[d], size'[d] = size[d], index'[d] = index[d], scan'[d] = scan[d],
         result'[d] = result[d]
  PROVE  Reasons(d)'
<1>1. nextIndex \in Nat /\ size[d] \in Nat /\ index[d] \in Int /\ scan[d] \in Scan
  BY ListTypes DEF TInv, TypeOK
<1>2. nextIndex' \in Nat /\ nextIndex <= nextIndex'
  BY DEF Grows
<1>3. PICK z \in Nat : z = size[d] /\ z = size'[d]
  BY <1>1
<1>4. PICK i \in Int : i = index[d] /\ i = index'[d]
  BY <1>1
<1>5. PICK s \in Scan : s = scan[d] /\ s = scan'[d]
  BY <1>1
<1>6. /\ pc[d] \in {"index", "list", "scan"} => z <= nextIndex
      /\ pc[d] \in {"list", "scan"} => i \in Ix /\ IdAt(i) = d
      /\ pc[d] = "scan" => z <= s.limit
      /\ pc[d] = "scan" /\ AllActive => IsPrefix(s.ids, s.at)
      /\ AllActive => /\ result[d] # "panic"
                      /\ result[d] = "noProof" => Covering(z) = {}
                      /\ result[d] = "abort" => z <= i
  BY <1>3, <1>4, <1>5 DEF Reasons
<1>7. AllActive' => AllActive
  BY <1>1, AllActiveBefore
<1>8. z <= nextIndex => z <= nextIndex'
  BY <1>1, <1>2
<1>9. i \in Ix /\ IdAt(i) = d => i \in Ix' /\ IdAt(i)' = d
  BY <1>1, IxKept
<1>10. pc[d] = "scan" => s.at \in Nat /\ s.at <= nextIndex
  BY <1>1, <1>5 DEF TInv, ScanBounded, Scan
<1>11. pc[d] = "scan" /\ IsPrefix(s.ids, s.at) => IsPrefix(s.ids, s.at)'
  BY <1>1, <1>10, PrefixKept
<1> QED
  BY <1>3, <1>4, <1>5, <1>6, <1>7, <1>8, <1>9, <1>11 DEF Reasons

-----------------------------------------------------------------------------
(* The steps of a session itself.                                          *)

LEMMA ReasonsReadSize ==
  ASSUME RInv, Grows, NEW c \in Clients, ReadSize(c)
  PROVE  Reasons(c)'
<1>1. /\ nextIndex \in Nat /\ nextIndex' = nextIndex
      /\ pc \in [Clients -> PCs] /\ size \in [Clients -> Nat] /\ result \in [Clients -> Results]
  BY ListTypes DEF RInv, TInv, TypeOK, ReadSize, registryVars
<1>2. size'[c] = nextIndex /\ pc'[c] \in {"ready", "index"} /\ result'[c] \in {"tooFew", "none"}
  BY <1>1 DEF ReadSize, Ends, Registry!getIDSize
<1>3. size'[c] <= nextIndex'
  BY <1>1, <1>2
<1> QED
  BY <1>2, <1>3 DEF Reasons

LEMMA ReasonsFindIndex ==
  ASSUME RInv, Grows, NEW c \in Clients, FindIndex(c)
  PROVE  Reasons(c)'
<1>1. /\ nextIndex \in Nat /\ TypeOK /\ Reasons(c)
      /\ pc \in [Clients -> PCs] /\ index \in [Clients -> Int] /\ result \in [Clients -> Results]
  BY ListTypes DEF RInv, TInv, TypeOK
<1>2. /\ pc[c] = "index" /\ pc'[c] \in {"ready", "list"}
      /\ result'[c] \in {"notListed", "none"}
      /\ index'[c] = Registry!getIDIndex(c) /\ size'[c] = size[c]
      /\ pc'[c] = "list" => Registry!getIDIndex(c) # -1
      /\ nextIndex' = nextIndex /\ idList' = idList
  BY <1>1 DEF FindIndex, Ends, registryVars
<1>3. Registry!getIDIndex(c) # -1 => /\ Registry!getIDIndex(c) \in Ix
                                    /\ IdAt(Registry!getIDIndex(c)) = c
  BY <1>1, IndexType DEF Ix, IdAt, Registry!getIDs
<1>4. PICK i : i = Registry!getIDIndex(c) /\ i = index'[c]
  BY <1>2
<1>5. pc'[c] = "list" => i \in Ix' /\ IdAt(i)' = c
  BY <1>1, <1>2, <1>3, <1>4, IxKept
<1>6. size'[c] <= nextIndex'
  BY <1>1, <1>2 DEF Reasons
<1> QED
  BY <1>2, <1>4, <1>5, <1>6 DEF Reasons

LEMMA ReasonsListActive ==
  ASSUME RInv, Grows, NEW c \in Clients, ListActive(c)
  PROVE  Reasons(c)'
<1>1. /\ nextIndex \in Nat /\ Reasons(c) /\ pc \in [Clients -> PCs]
      /\ scan \in [Clients -> Scan] /\ result[c] \in Results
  BY ListTypes DEF RInv, TInv, TypeOK
<1>2. /\ pc[c] = "list" /\ pc'[c] = "scan" /\ size'[c] = size[c] /\ index'[c] = index[c]
      /\ result'[c] = result[c] /\ nextIndex' = nextIndex /\ idList' = idList
      /\ scan'[c] = [limit |-> nextIndex, at |-> 0, ids |-> <<>>]
  BY <1>1 DEF ListActive, OpenScan, Registry!getIDSize, registryVars
<1>3. scan'[c].limit = nextIndex /\ scan'[c].at = 0 /\ scan'[c].ids = <<>>
  BY <1>2
<1>4. IsPrefix(<<>>, 0)'
  BY DEF IsPrefix
<1>5. PICK i : i = index[c] /\ i = index'[c]
  BY <1>2
<1>6. i \in Ix' /\ IdAt(i)' = c
  BY <1>1, <1>2, <1>5, IxKept DEF Reasons
<1>7. PICK z : z = size[c] /\ z = size'[c]
  BY <1>2
<1>8. z <= nextIndex /\ z <= nextIndex'
  BY <1>1, <1>2, <1>7 DEF Reasons
<1>9. AllActive' => AllActive
  BY <1>1, AllActiveBefore
<1> QED
  BY <1>1, <1>2, <1>3, <1>4, <1>5, <1>6, <1>7, <1>8, <1>9 DEF Reasons

LEMMA ReasonsScanEntry ==
  ASSUME RInv, Grows, NEW c \in Clients, ScanEntry(c)
  PROVE  Reasons(c)'
<1>1. nextIndex \in Nat /\ TInv /\ Reasons(c) /\ size[c] \in Nat
  BY ListTypes DEF RInv, TInv, TypeOK
<1>2. PICK s \in Scan : s = scan[c]
  BY <1>1, ScanNext
<1>3. PICK t \in Scan : t = scan'[c]
  BY <1>1, ScanNext
<1>4. /\ s.at \in Ix /\ t.limit = s.limit /\ t.at = s.at + 1
      /\ LiveAt(s.at) => t.ids = Append(s.ids, IdAt(s.at))
  BY <1>1, <1>2, <1>3, ScanNext
<1>5. /\ pc'[c] = pc[c] /\ size'[c] = size[c] /\ index'[c] = index[c]
      /\ result'[c] = result[c] /\ nextIndex' = nextIndex /\ idList' = idList
  BY DEF ScanEntry, registryVars
<1>6. AllActive' => AllActive
  BY <1>1, AllActiveBefore
<1>7. pc[c] = "scan" /\ AllActive => IsPrefix(t.ids, t.at)'
  <2> SUFFICES ASSUME pc[c] = "scan", AllActive PROVE IsPrefix(t.ids, t.at)'
    OBVIOUS
  <2>1. IsPrefix(s.ids, s.at)
    BY <1>1, <1>2 DEF Reasons
  <2>2. t.ids = Append(s.ids, IdAt(s.at)) /\ s.ids \in Seq(Ids) /\ s.at \in Nat
    BY <1>2, <1>4 DEF AllActive, Scan
  <2>3. IdAt(s.at) \in Ids
    BY <1>1, <1>4, ListTypes DEF TInv
  <2>4. Len(t.ids) = s.at + 1
    BY <2>1, <2>2, <2>3 DEF IsPrefix
  <2>5. ASSUME NEW j \in 1 .. s.at + 1 PROVE t.ids[j] = IdAt(j - 1)
    <3>1. CASE j = s.at + 1
      BY <2>1, <2>2, <2>3, <3>1 DEF IsPrefix
    <3>2. CASE j # s.at + 1
      <4>1. j \in 1 .. s.at
        BY <2>2, <3>2
      <4>2. t.ids[j] = s.ids[j]
        BY <2>1, <2>2, <2>3, <4>1 DEF IsPrefix
      <4> QED
        BY <2>1, <4>1, <4>2 DEF IsPrefix
    <3> QED
      BY <3>1, <3>2
  <2>6. IsPrefix(t.ids, s.at + 1)
    BY <2>4, <2>5 DEF IsPrefix
  <2>7. s.at + 1 \in Nat /\ s.at + 1 <= nextIndex
    BY <1>1, <1>4 DEF Ix
  <2>8. IsPrefix(t.ids, s.at + 1)'
    BY <1>1, <2>6, <2>7, PrefixKept
  <2> QED
    BY <1>4, <2>8
<1>8. PICK i : i = index[c] /\ i = index'[c]
  BY <1>5
<1>9. pc[c] = "scan" => i \in Ix' /\ IdAt(i)' = c
  BY <1>1, <1>8, IxKept DEF Reasons
<1>10. PICK z : z = size[c] /\ z = size'[c]
  BY <1>5
<1>11. pc[c] = "scan" => z <= nextIndex' /\ z <= t.limit
  BY <1>1, <1>2, <1>4, <1>5, <1>10 DEF Reasons
<1>12. pc'[c] \in {"scan", "postScan"}
  BY <1>5 DEF ScanEntry
<1>13. AllActive => /\ result[c] # "panic"
                    /\ result[c] = "noProof" => Covering(z) = {}
                    /\ result[c] = "abort" => z <= i
  BY <1>1, <1>8, <1>10 DEF Reasons
<1> QED
  BY <1>3, <1>5, <1>6, <1>7, <1>8, <1>9, <1>10, <1>11, <1>12, <1>13 DEF Reasons

\* The tests of RegistrationProof, one after the other.
LEMMA ReasonsProve ==
  ASSUME RInv, Grows, NEW c \in Clients, Prove(c)
  PROVE  Reasons(c)'
<1>1. /\ nextIndex \in Nat /\ TInv /\ Reasons(c) /\ size[c] \in Nat /\ index[c] \in Int
      /\ scan[c] \in Scan /\ pc \in [Clients -> PCs] /\ result \in [Clients -> Results]
  BY ListTypes DEF RInv, TInv, TypeOK
<1> DEFINE n == size[c]
           q == scan[c].ids
<1>2. /\ pc[c] = "scan" /\ scan[c].at = scan[c].limit
      /\ size'[c] = size[c] /\ index'[c] = index[c]
      /\ nextIndex' = nextIndex /\ idList' = idList
      /\ pc'[c] \in {"ready", "form"}
  BY <1>1 DEF Prove, Scanned, Ends, registryVars
<1>3. /\ result'[c] \in {"panic", "noProof", "abort", "none"}
      /\ result'[c] = "panic" => Len(q) < n
      /\ result'[c] = "noProof" => /\ Len(q) >= n
                                   /\ ~Covers(ClientM(n), n) \/ (index[c] < n /\ q[index[c] + 1] # c)
      /\ result'[c] = "abort" => index[c] >= n
  BY <1>1 DEF Prove, Ends
<1>4. AllActive' => AllActive
  BY <1>1, AllActiveBefore
<1>5. AllActive => /\ Len(q) = scan[c].limit /\ scan[c].limit \in Nat /\ n <= scan[c].limit
                   /\ \A j \in 1 .. scan[c].limit : q[j] = IdAt(j - 1)
  BY <1>1, <1>2 DEF Reasons, IsPrefix, Scan
<1>6. index[c] \in Ix /\ IdAt(index[c]) = c
  BY <1>1, <1>2 DEF Reasons
<1>7. AllActive => result'[c] # "panic"
  BY <1>1, <1>3, <1>5
<1>8. AllActive /\ index[c] < n => q[index[c] + 1] = c
  <2> SUFFICES ASSUME AllActive, index[c] < n PROVE q[index[c] + 1] = c
    OBVIOUS
  <2>1. index[c] + 1 \in 1 .. scan[c].limit /\ (index[c] + 1) - 1 = index[c]
    BY <1>1, <1>5, <1>6 DEF Ix
  <2>2. q[index[c] + 1] = IdAt((index[c] + 1) - 1)
    BY <1>5, <2>1
  <2> QED
    BY <1>6, <2>1, <2>2
<1>9. AllActive /\ result'[c] = "noProof" => ~Covers(ClientM(n), n)
  BY <1>3, <1>8
<1>10. ~Covers(ClientM(n), n) => Covering(n) = {}
  BY <1>1, MTypes DEF Covering
<1>11. PICK z : z = n /\ z = size'[c]
  BY <1>2
<1>12. PICK i : i = index[c] /\ i = index'[c]
  BY <1>2
<1>13. AllActive => /\ result'[c] # "panic"
                    /\ result'[c] = "noProof" => Covering(z) = {}
                    /\ result'[c] = "abort" => z <= i
  BY <1>1, <1>3, <1>7, <1>9, <1>10, <1>11, <1>12
<1> QED
  BY <1>2, <1>4, <1>11, <1>12, <1>13 DEF Reasons

\* These steps end outside the command, or at its beginning.
LEMMA ReasonsSimple ==
  ASSUME RInv, Grows, NEW c \in Clients,
         Start(c) \/ Submit(c) \/ PostListActive(c) \/ Verify(c) \/ Fail(c)
  PROVE  Reasons(c)'
<1>1. /\ nextIndex \in Nat /\ Reasons(c) /\ size[c] \in Nat
      /\ pc \in [Clients -> PCs] /\ result \in [Clients -> Results]
  BY ListTypes DEF RInv, TInv, TypeOK
<1>2. AllActive' => AllActive
  BY <1>1, AllActiveBefore
<1>3. CASE Start(c) \/ Submit(c) \/ Verify(c) \/ Fail(c)
  <2>1. pc'[c] \notin {"index", "list", "scan"}
    BY <1>1, <1>3 DEF Start, Submit, Verify, Fail, Ends
  <2>2. result'[c] \notin {"panic", "noProof", "abort"}
    BY <1>1, <1>3 DEF Start, Submit, Verify, Fail, Ends
  <2> QED
    BY <2>1, <2>2 DEF Reasons
<1>4. CASE PostListActive(c)
  <2>1. pc'[c] = "postScan" /\ size'[c] = size[c] /\ index'[c] = index[c] /\ result'[c] = result[c]
    BY <1>1, <1>4 DEF PostListActive
  <2>2. PICK z : z = size[c] /\ z = size'[c]
    BY <2>1
  <2>3. PICK i : i = index[c] /\ i = index'[c]
    BY <2>1
  <2>4. AllActive => /\ result[c] # "panic"
                     /\ result[c] = "noProof" => Covering(z) = {}
                     /\ result[c] = "abort" => z <= i
    BY <1>1, <2>2, <2>3 DEF Reasons
  <2> QED
    BY <1>2, <2>1, <2>2, <2>3, <2>4 DEF Reasons
<1> QED
  BY <1>3, <1>4

-----------------------------------------------------------------------------
LEMMA RInvInit == Init => RInv
<1> SUFFICES ASSUME Init PROVE \A c \in Clients : Reasons(c)
  BY TInvInit DEF RInv
<1> QED
  BY DEF Init, Reasons

LEMMA RInvStep == RInv /\ [Next]_vars => RInv'
<1> SUFFICES ASSUME RInv, [Next]_vars PROVE RInv'
  OBVIOUS
<1>1. TInv /\ TInv' /\ Grows /\ \A d \in Clients : Reasons(d)
  BY TInvStep DEF RInv
<1>2. CASE UNCHANGED sessionVars
  <2>1. ASSUME NEW d \in Clients PROVE Reasons(d)'
    BY <1>1, <1>2, ReasonsKept DEF sessionVars
  <2> QED
    BY <1>1, <2>1 DEF RInv
<1>3. ASSUME NEW c \in Clients, Start(c) \/ Step(c) \/ Fail(c)
      PROVE  RInv'
  <2>1. OthersKept(c)
    BY <1>1, <1>3, SessionStep
  <2>2. Reasons(c)'
    BY <1>1, <1>3, ReasonsReadSize, ReasonsFindIndex, ReasonsListActive, ReasonsScanEntry,
       ReasonsProve, ReasonsSimple DEF Step
  <2>3. ASSUME NEW d \in Clients PROVE Reasons(d)'
    <3>1. CASE d = c
      BY <2>2, <3>1
    <3>2. CASE d # c
      BY <1>1, <2>1, <3>2, ReasonsKept DEF OthersKept
    <3> QED
      BY <3>1, <3>2
  <2> QED
    BY <1>1, <2>3 DEF RInv
<1> QED
  BY <1>2, <1>3 DEF Next, Add, Revoke, vars

(* While no identity is revoked, the register command never panics, ends   *)
(* without a proof only for a list that no m covers, and aborts only when  *)
(* its own identity was added after it had read the size: whatever is      *)
(* added between its three reads of the contract.                          *)
THEOREM FailureHasAReason == Spec => []CommandFailsForAReason
<1>1. RInv => CommandFailsForAReason
  BY SomeRevokedMeans DEF RInv, Reasons, CommandFailsForAReason
<1> QED
  BY <1>1, RInvInit, RInvStep, PTL DEF Spec

-----------------------------------------------------------------------------
(* The loops that choose m.                                                *)

\* What Capacity chooses.
Counts(m, s) == s = [k \in 0 .. m |-> IF k = 0 THEN 1 ELSE s[k - 1] * N]

(* The powers of N have their values.                                      *)
LEMMA CapacityRuns ==
  ASSUME NEW m \in Nat
  PROVE  \E s : Counts(m, s) /\ Capacity(m) = s[m]
<1> DEFINE round == [k \in 0 .. m - 1 |-> [v \in Nat |-> v * N]]
<1>1. round \in [0 .. m - 1 -> [Nat -> Nat]]
  BY BaseAssumption
<1> HIDE DEF round
<1>2. PICK s \in [0 .. m -> Nat] : Runs(s, 1, round, 0, m)
  <2>1. 0 \in Int /\ 1 \in Nat /\ m \in Int /\ 0 <= m
    OBVIOUS
  <2> QED
    BY <1>1, <2>1, LoopRuns, Zenon
<1>3. ASSUME NEW k \in 0 .. m
      PROVE  s[k] = IF k = 0 THEN 1 ELSE s[k - 1] * N
  <2>1. s[k] = IF k = 0 THEN 1 ELSE round[k - 1][s[k - 1]]
    BY <1>2 DEF Runs
  <2>2. ASSUME k # 0 PROVE round[k - 1][s[k - 1]] = s[k - 1] * N
    <3>1. k - 1 \in 0 .. m - 1 /\ s[k - 1] \in Nat
      BY <2>2
    <3> QED
      BY <3>1 DEF round
  <2> QED
    BY <2>1, <2>2
<1>4. Counts(m, s)
  BY <1>2, <1>3 DEF Runs, Counts
<1>5. Counts(m, CHOOSE v : Counts(m, v))
  BY <1>4, Zenon
<1>6. Capacity(m) = (CHOOSE v : Counts(m, v))[m]
  BY DEF Capacity, Counts
<1> QED
  BY <1>5, <1>6

(* Every turn of a loop multiplies once more.                              *)
LEMMA CapacityGrows ==
  /\ Capacity(0) = 1
  /\ \A m \in Nat : Capacity(m + 1) = N * Capacity(m)
<1>0. N \in Nat
  BY BaseAssumption
<1>1. Capacity(0) = 1
  <2>1. PICK s : Counts(0, s) /\ Capacity(0) = s[0]
    BY CapacityRuns
  <2> QED
    BY <2>1 DEF Counts
<1>2. ASSUME NEW m \in Nat PROVE Capacity(m + 1) = Capacity(m) * N
  <2>1. PICK s : Counts(m, s) /\ Capacity(m) = s[m]
    BY CapacityRuns
  <2>2. PICK t : Counts(m + 1, t) /\ Capacity(m + 1) = t[m + 1]
    BY CapacityRuns
  <2> DEFINE Good == {k \in 0 .. m : s[k] = t[k]}
  <2>3. 0 \in Good
    BY <2>1, <2>2 DEF Counts
  <2>4. ASSUME NEW k \in 0 .. m - 1, k \in Good PROVE k + 1 \in Good
    <3>1. s[k + 1] = s[k] * N
      BY <2>1 DEF Counts
    <3>2. t[k + 1] = t[k] * N
      BY <2>2 DEF Counts
    <3> QED
      BY <2>4, <3>1, <3>2
  <2>5. 0 .. m \subseteq Good
    <3>1. 0 \in Int /\ m \in Int
      OBVIOUS
    <3> HIDE DEF Good
    <3> QED
      BY <2>3, <2>4, <3>1, RangeInduction
  <2>6. s[m] = t[m]
    BY <2>5
  <2>7. t[m + 1] = t[m] * N
    BY <2>2 DEF Counts
  <2> QED
    BY <2>1, <2>2, <2>6, <2>7
<1>3. ASSUME NEW m \in Nat PROVE Capacity(m) \in Nat
  <2> DEFINE Good == {k \in 0 .. m : Capacity(k) \in Nat}
  <2>1. 0 \in Good
    BY <1>1
  <2>2. ASSUME NEW k \in 0 .. m - 1, k \in Good PROVE k + 1 \in Good
    <3>1. k \in Nat /\ k + 1 \in 0 .. m /\ Capacity(k) \in Nat
      BY <2>2
    <3>2. Capacity(k + 1) = Capacity(k) * N
      BY <1>2, <3>1
    <3>3. Capacity(k) * N \in Nat
      BY <1>0, <3>1
    <3> QED
      BY <3>1, <3>2, <3>3
  <2>3. 0 \in Int /\ m \in Int
    OBVIOUS
  <2> HIDE DEF Good
  <2>4. 0 .. m \subseteq Good
    BY <2>1, <2>2, <2>3, RangeInduction
  <2> QED
    BY <2>4 DEF Good
<1>4. ASSUME NEW m \in Nat PROVE Capacity(m + 1) = N * Capacity(m)
  BY <1>0, <1>2, <1>3
<1> QED
  BY <1>1, <1>4

(* The powers are numbers and do not fall.                                 *)
LEMMA CapacityRises ==
  ASSUME NEW last \in Nat
  PROVE  \A m \in 0 .. last : Capacity(m) \in Nat /\ 1 <= Capacity(m) /\ Capacity(m) <= Capacity(last)
<1>0. N \in Nat /\ N > 1
  BY BaseAssumption
<1>1. \A m \in 0 .. last : Capacity(m) \in Nat /\ 1 <= Capacity(m)
  <2> DEFINE Good == {k \in 0 .. last : Capacity(k) \in Nat /\ 1 <= Capacity(k)}
  <2>1. 0 \in Good
    BY CapacityGrows
  <2>2. ASSUME NEW k \in 0 .. last - 1, k \in Good PROVE k + 1 \in Good
    <3>1. k \in Nat /\ k + 1 \in 0 .. last /\ Capacity(k) \in Nat /\ 1 <= Capacity(k)
      BY <2>2
    <3>2. Capacity(k + 1) = N * Capacity(k)
      BY <3>1, CapacityGrows
    <3> DEFINE c == Capacity(k)
    <3> HIDE DEF c
    <3>3. \A d \in Nat : 1 <= d => N * d \in Nat /\ 1 <= N * d
      BY <1>0
    <3> QED
      BY <3>1, <3>2, <3>3
  <2>3. 0 \in Int /\ last \in Int
    OBVIOUS
  <2> HIDE DEF Good
  <2>4. 0 .. last \subseteq Good
    BY <2>1, <2>2, <2>3, RangeInduction
  <2> QED
    BY <2>4 DEF Good
<1>2. ASSUME NEW m \in 0 .. last PROVE Capacity(m) <= Capacity(last)
  <2> DEFINE Good == {k \in m .. last : Capacity(m) <= Capacity(k)}
  <2>1. m \in Good
    BY <1>1
  <2>2. ASSUME NEW k \in m .. last - 1, k \in Good PROVE k + 1 \in Good
    <3>1. /\ k \in Nat /\ k + 1 \in m .. last
          /\ Capacity(m) \in Nat /\ Capacity(k) \in Nat /\ Capacity(m) <= Capacity(k)
      BY <1>1, <2>2
    <3>2. Capacity(k + 1) = N * Capacity(k)
      BY <3>1, CapacityGrows
    <3>3. \A d \in Nat : N * d \in Nat /\ d <= N * d
      BY <1>0
    <3>4. Capacity(k) <= Capacity(k + 1) /\ Capacity(k + 1) \in Nat
      BY <3>1, <3>2, <3>3
    <3>5. Capacity(m) <= Capacity(k + 1)
      BY <3>1, <3>4
    <3> QED
      BY <3>1, <3>5
  <2>3. m \in Int /\ last \in Int /\ last \in m .. last
    OBVIOUS
  <2> HIDE DEF Good
  <2>4. m .. last \subseteq Good
    BY <2>1, <2>2, <2>3, RangeInduction
  <2> QED
    BY <2>3, <2>4 DEF Good
<1> QED
  BY <1>1, <1>2

\* Nothing below k covers a ring of n.
NoneBelow(k, n) == \A m \in 1 .. k - 1 : ~Covers(m, n)

(* The first m that covers is the one that both loops are to choose.       *)
LEMMA FirstChosen ==
  ASSUME NEW n, NEW m \in 1 .. M - 1, NoneBelow(m, n), Covers(m, n)
  PROVE  ClientM(n) = m /\ ServerM(n) = m
<1>1. m \in Covering(n) /\ M \in Nat
  BY LimitAssumption DEF Covering
<1>2. ASSUME NEW k \in Covering(n) PROVE m <= k /\ k \in Int
  BY <1>1, <1>2 DEF Covering, NoneBelow
<1>3. LeastCovering(n) = m
  <2>1. \A k \in Covering(n) : (\A l \in Covering(n) : k <= l) => k = m
    BY <1>1, <1>2
  <2> QED
    BY <1>1, <1>2, <2>1 DEF LeastCovering
<1> QED
  BY <1>1, <1>3 DEF ClientM, ServerM

(* When none covers, the loops leave what was there.                       *)
LEMMA NoneChosen ==
  ASSUME NEW n, NoneBelow(M, n)
  PROVE  ClientM(n) = 1 /\ ServerM(n) = M
<1>1. Covering(n) = {}
  BY DEF Covering, NoneBelow
<1> QED
  BY <1>1 DEF ClientM, ServerM

\* What a loop knows that is at turn k with the power p, and when it is over.
AtTurn(k, p, n) == k \in 1 .. M /\ p = Capacity(k - 1) /\ NoneBelow(k, n)

Powers == 1 .. Capacity(M - 1)

LoopsInv ==
  /\ idsize \in Nat
  /\ ringSize \in Powers /\ tmp \in Powers
  /\ "client" \in running => AtTurn(turn, ringSize, idsize) /\ currentm = 1
  /\ "client" \notin running => currentm = ClientM(idsize)
  /\ "server" \in running => AtTurn(serverm, tmp, idsize)
  /\ "server" \notin running => serverm = ServerM(idsize)

(* One more turn: the next power, which is in range; and either the loop   *)
(* is over with the right m, or it knows more.                             *)
LEMMA OneTurn ==
  ASSUME NEW k, NEW p, NEW n \in Nat, AtTurn(k, p, n), k < M
  PROVE  /\ N * p \in Powers
         /\ N * p >= n => ClientM(n) = k /\ ServerM(n) = k
         /\ N * p < n => AtTurn(k + 1, N * p, n)
<1>1. /\ k \in Nat /\ k - 1 \in Nat /\ M \in Nat /\ M - 1 \in Nat /\ k \in 1 .. M - 1
      /\ k \in 0 .. M - 1 /\ k + 1 \in 1 .. M /\ (k - 1) + 1 = k /\ (k + 1) - 1 = k
  BY LimitAssumption DEF AtTurn
<1>2. N * p = Capacity(k)
  <2>1. Capacity((k - 1) + 1) = N * Capacity(k - 1)
    BY <1>1, CapacityGrows
  <2> QED
    BY <1>1, <2>1 DEF AtTurn
<1>3. Capacity(k) \in Nat /\ 1 <= Capacity(k) /\ Capacity(k) <= Capacity(M - 1)
  BY <1>1, CapacityRises
<1>4. Capacity(M - 1) \in Nat
  <2>1. M - 1 \in 0 .. M - 1
    BY <1>1
  <2> QED
    BY <1>1, <2>1, CapacityRises
<1>5. Capacity(k) \in Powers
  BY <1>3, <1>4 DEF Powers
<1>6. Covers(k, n) <=> Capacity(k) >= n
  BY DEF Covers
<1>7. ASSUME Capacity(k) < n PROVE AtTurn(k + 1, Capacity(k), n)
  <2>1. ~Covers(k, n)
    BY <1>3, <1>6, <1>7
  <2>2. NoneBelow(k + 1, n)
    BY <1>1, <2>1 DEF AtTurn, NoneBelow
  <2> QED
    BY <1>1, <2>2 DEF AtTurn
<1>8. Covers(k, n) => ClientM(n) = k /\ ServerM(n) = k
  BY <1>1, FirstChosen DEF AtTurn
<1> QED
  BY <1>2, <1>5, <1>6, <1>7, <1>8

(* The loops start at 1.                                                   *)
LEMMA LoopsStart ==
  ASSUME LoopsInit
  PROVE  LoopsInv
<1>1. /\ idsize \in Nat /\ turn = 1 /\ ringSize = 1 /\ currentm = 1
      /\ tmp = 1 /\ serverm = 1 /\ running = {"client", "server"}
  BY DEF LoopsInit
<1>2. M \in Nat /\ M > 1 /\ M - 1 \in Nat /\ 0 \in 0 .. M - 1 /\ M - 1 \in 0 .. M - 1
  BY LimitAssumption
<1>3. AtTurn(1, 1, idsize)
  BY <1>2, CapacityGrows DEF AtTurn, NoneBelow
<1>4. 1 \in Powers
  <2>1. Capacity(M - 1) \in Nat /\ 1 <= Capacity(M - 1)
    BY <1>2, CapacityRises
  <2> QED
    BY <2>1 DEF Powers
<1> QED
  BY <1>1, <1>3, <1>4 DEF LoopsInv

(* Each turn keeps what the loops know.                                    *)
LEMMA LoopsKeep ==
  ASSUME LoopsInv, [LoopsNext]_loopVars
  PROVE  LoopsInv'
<1>1. CASE ClientTurn
  <2>1. /\ "client" \in running /\ turn < M /\ ringSize' = N * ringSize
        /\ idsize' = idsize /\ tmp' = tmp /\ serverm' = serverm
        /\ \/ /\ ringSize' >= idsize /\ currentm' = turn /\ running' = running \ {"client"}
           \/ /\ ringSize' < idsize /\ turn' = turn + 1 /\ currentm' = currentm /\ running' = running
    BY <1>1 DEF ClientTurn
  <2>2. AtTurn(turn, ringSize, idsize) /\ currentm = 1 /\ idsize \in Nat
    BY <2>1 DEF LoopsInv
  <2>3. /\ N * ringSize \in Powers
        /\ N * ringSize >= idsize => ClientM(idsize) = turn
        /\ N * ringSize < idsize => AtTurn(turn + 1, N * ringSize, idsize)
    BY <2>1, <2>2, OneTurn
  <2>4. "server" \in running' <=> "server" \in running
    BY <2>1
  <2>5. CASE ringSize' >= idsize /\ currentm' = turn /\ running' = running \ {"client"}
    BY <2>1, <2>3, <2>4, <2>5 DEF LoopsInv
  <2>6. CASE ringSize' < idsize /\ turn' = turn + 1 /\ currentm' = currentm /\ running' = running
    BY <2>1, <2>2, <2>3, <2>6 DEF LoopsInv
  <2> QED
    BY <2>1, <2>5, <2>6
<1>2. CASE ClientEnd
  <2>1. /\ "client" \in running /\ turn >= M /\ running' = running \ {"client"}
        /\ idsize' = idsize /\ ringSize' = ringSize /\ currentm' = currentm
        /\ tmp' = tmp /\ serverm' = serverm
    BY <1>2 DEF ClientEnd
  <2>2. AtTurn(turn, ringSize, idsize) /\ currentm = 1
    BY <2>1 DEF LoopsInv
  <2>3. turn = M /\ NoneBelow(M, idsize)
    <3>1. turn \in 1 .. M /\ NoneBelow(turn, idsize) /\ M \in Nat
      BY <2>2, LimitAssumption DEF AtTurn
    <3>2. turn = M
      BY <2>1, <3>1
    <3> QED
      BY <3>1, <3>2
  <2>4. currentm = ClientM(idsize)
    BY <2>2, <2>3, NoneChosen
  <2>5. "server" \in running' <=> "server" \in running
    BY <2>1
  <2> QED
    BY <2>1, <2>4, <2>5 DEF LoopsInv
<1>3. CASE ServerTurn
  <2>1. /\ "server" \in running /\ serverm < M /\ tmp' = tmp * N
        /\ idsize' = idsize /\ ringSize' = ringSize /\ turn' = turn /\ currentm' = currentm
        /\ \/ /\ tmp' >= idsize /\ running' = running \ {"server"} /\ serverm' = serverm
           \/ /\ tmp' < idsize /\ serverm' = serverm + 1 /\ running' = running
    BY <1>3 DEF ServerTurn
  <2>2. AtTurn(serverm, tmp, idsize) /\ idsize \in Nat /\ tmp \in Powers
    BY <2>1 DEF LoopsInv
  <2>3. /\ N * tmp \in Powers
        /\ N * tmp >= idsize => ServerM(idsize) = serverm
        /\ N * tmp < idsize => AtTurn(serverm + 1, N * tmp, idsize)
    BY <2>1, <2>2, OneTurn
  <2>4. tmp' = N * tmp
    <3>1. tmp \in Int /\ N \in Int
      BY <2>2, BaseAssumption DEF Powers
    <3> QED
      BY <2>1, <3>1
  <2>5. "client" \in running' <=> "client" \in running
    BY <2>1
  <2>6. CASE tmp' >= idsize /\ running' = running \ {"server"} /\ serverm' = serverm
    BY <2>1, <2>3, <2>4, <2>5, <2>6 DEF LoopsInv
  <2>7. CASE tmp' < idsize /\ serverm' = serverm + 1 /\ running' = running
    BY <2>1, <2>2, <2>3, <2>4, <2>7 DEF LoopsInv
  <2> QED
    BY <2>1, <2>6, <2>7
<1>4. CASE ServerEnd
  <2>1. /\ "server" \in running /\ serverm >= M /\ running' = running \ {"server"}
        /\ idsize' = idsize /\ ringSize' = ringSize /\ turn' = turn /\ currentm' = currentm
        /\ tmp' = tmp /\ serverm' = serverm
    BY <1>4 DEF ServerEnd
  <2>2. AtTurn(serverm, tmp, idsize)
    BY <2>1 DEF LoopsInv
  <2>3. serverm = M /\ NoneBelow(M, idsize)
    <3>1. serverm \in 1 .. M /\ NoneBelow(serverm, idsize) /\ M \in Nat
      BY <2>2, LimitAssumption DEF AtTurn
    <3>2. serverm = M
      BY <2>1, <3>1
    <3> QED
      BY <3>1, <3>2
  <2>4. serverm = ServerM(idsize)
    BY <2>3, NoneChosen
  <2>5. "client" \in running' <=> "client" \in running
    BY <2>1
  <2> QED
    BY <2>1, <2>4, <2>5 DEF LoopsInv
<1>5. CASE UNCHANGED loopVars
  BY <1>5 DEF loopVars, LoopsInv
<1> QED
  BY <1>1, <1>2, <1>3, <1>4, <1>5 DEF LoopsNext

(* The loops of the command and of the handler end with the m that the     *)
(* sessions compute in one step, stay within the powers below M, and agree *)
(* wherever a proof can be made: for every N and M and every ring size.    *)
THEOREM LoopsAreRight == LoopsSpec => []LoopsChooseM
<1>1. LoopsInit => LoopsInv
  BY LoopsStart
<1>2. LoopsInv /\ [LoopsNext]_loopVars => LoopsInv'
  BY LoopsKeep
<1>3. LoopsInv => LoopsChooseM
  <2> SUFFICES ASSUME LoopsInv PROVE LoopsChooseM
    OBVIOUS
  <2>1. {ringSize, tmp} \subseteq 1 .. Capacity(M - 1)
    BY DEF LoopsInv, Powers
  <2>2. ASSUME running = {}, Covers(currentm, idsize) PROVE serverm = currentm
    <3>1. currentm = ClientM(idsize) /\ serverm = ServerM(idsize) /\ idsize \in Nat
      BY <2>2 DEF LoopsInv
    <3> QED
      BY <2>2, <3>1, MTypes
  <2> QED
    BY <2>1, <2>2 DEF LoopsInv, LoopsChooseM
<1> QED
  BY <1>1, <1>2, <1>3, PTL DEF LoopsSpec
=============================================================================
