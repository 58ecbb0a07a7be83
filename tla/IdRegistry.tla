----------------------------- MODULE IdRegistry -----------------------------
(***************************************************************************)
(* The U2SSO smart contract (contracts/U2SSO.sol): the append-only list of *)
(* SSO identities that every client and every service reads.  A call that  *)
(* changes the contract is one transaction, hence one atomic action; the   *)
(* view functions are operators on the current state.                      *)
(*                                                                         *)
(* An identity is the 33-byte master public key of a user.  The contract   *)
(* stores it split in id (32 bytes) and id33 (the last byte), and every    *)
(* reader joins the two again: the model keeps the pair as one value.      *)
(* Indices are those of Solidity: they start at 0.                         *)
(***************************************************************************)
EXTENDS Integers, Sequences

CONSTANTS
  Ids,      \* the identities that may be listed
  Deployer, \* the account that deployed the contract (_owner)
  MaxIds    \* bound: the longest list that is explored

ASSUME MaxIdsAssumption == MaxIds \in Nat

VARIABLES
  idList,   \* ID[] idList: every identity ever added, in order
  nextIndex \* uint nextIndex: the counter that the view functions use

registryVars == <<idList, nextIndex>>

ID == [id : Ids, active : BOOLEAN, owner : {Deployer}]

-----------------------------------------------------------------------------
(* View functions.                                                         *)

getIDSize == nextIndex

\* Solidity reverts outside the array: callers stay below getIDSize.
getState(k) == idList[k + 1].active
getIDs(k)   == idList[k + 1].id

Matches(d) == {k \in 0 .. nextIndex - 1 : getIDs(k) = d}

\* Definitions named ...Fault are faults of the definition that follows:
\* they show what the properties detect and are used by nothing else.
getIDIndexFault(d) ==
  IF Matches(d) = {} THEN -1
  ELSE CHOOSE k \in Matches(d) : \A l \in Matches(d) : k >= l

\* The loop of getIDIndex returns the first match, or -1.
getIDIndex(d) ==
  IF Matches(d) = {} THEN -1
  ELSE CHOOSE k \in Matches(d) : \A l \in Matches(d) : k <= l

-----------------------------------------------------------------------------
(* Transactions.                                                           *)

\* The counter is forgotten.
addIDFault(d) ==
  /\ idList' = Append(idList, [id |-> d, active |-> TRUE, owner |-> Deployer])
  /\ UNCHANGED nextIndex

addID(d) ==
  /\ idList'    = Append(idList, [id |-> d, active |-> TRUE, owner |-> Deployer])
  /\ nextIndex' = nextIndex + 1

\* The last entry takes the place of the revoked one.
revokeIDFault(k) ==
  LET last == Len(idList) IN
  /\ k < last
  /\ idList'    = SubSeq([idList EXCEPT ![k + 1] = idList[last]], 1, last - 1)
  /\ nextIndex' = nextIndex - 1

\* An index past the end of the array reverts.
revokeID(k) ==
  /\ k < Len(idList)
  /\ idList[k + 1].owner = Deployer
  /\ idList' = [idList EXCEPT ![k + 1].active = FALSE]
  /\ UNCHANGED nextIndex

-----------------------------------------------------------------------------
Init ==
  /\ idList    = <<>>
  /\ nextIndex = 0

Add == nextIndex < MaxIds /\ \E d \in Ids : addID(d)

Revoke == \E k \in 0 .. MaxIds - 1 : revokeID(k)

Next == Add \/ Revoke

Spec == Init /\ [][Next]_registryVars

-----------------------------------------------------------------------------
(* The array holds IDs, and the counter that getIDIndex and getIDSize use  *)
(* is the length of the array that getState, getIDs and revokeID index     *)
(* (U2SSO.sol keeps the two apart).                                        *)
TypeOK ==
  /\ idList    \in Seq(ID)
  /\ nextIndex = Len(idList)

(* A client looks its index up once and builds a proof on it some calls    *)
(* later: once getIDIndex has found an identity, no transaction moves it,  *)
(* not even adding the same identity again or revoking it.                 *)
IndexStable ==
  [][\A d \in Ids : getIDIndex(d) # -1 => getIDIndex(d)' = getIDIndex(d)]_registryVars

(* A reader walks the list in many calls (one getState and one getIDs per  *)
(* index) while transactions go on: an entry never changes identity, and   *)
(* one that was seen revoked stays revoked, whatever is added later.       *)
RevocationFinal ==
  [][\A k \in 0 .. nextIndex - 1 :
        /\ k < nextIndex'
        /\ getIDs(k)' = getIDs(k)
        /\ getState(k)' => getState(k)]_registryVars
=============================================================================
