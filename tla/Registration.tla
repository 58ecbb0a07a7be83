---------------------------- MODULE Registration ----------------------------
(***************************************************************************)
(* Registering for a service: the register command of clientapp.go, the    *)
(* form its output is pasted into, and the signup handler of server.go,    *)
(* against a contract that other users go on changing.                     *)
(*                                                                         *)
(* The command and the handler read the contract in many separate calls.   *)
(* One call is one step here, except that getState(i) and the getIDs(i)    *)
(* that follows it are one: an entry keeps its identity for ever           *)
(* (IdRegistry!RevocationFinal), so nothing can come between the two.      *)
(*                                                                         *)
(* A session is one user with a passkey whose identity is the session's    *)
(* name; sessions meet in the contract only.  What the handler writes in   *)
(* the server's memory is the subject of module Server.                    *)
(***************************************************************************)
EXTENDS RingSize, Sequences

CONSTANTS
  Ids,       \* identities
  Deployer,  \* the account that deployed the contract
  MaxIds,    \* bound: the longest list that is explored
  Clients    \* the identities whose users register

ASSUME ClientsAssumption == Clients \subseteq Ids

VARIABLES
  idList, nextIndex, \* the contract
  pc,      \* where each session is
  size,    \* idsize: the ring size, printed as "N"
  index,   \* the index of the session's identity
  scan,    \* the running GetallActiveIDfromContract: idSize, i and idlist
  proof,   \* the printed proof
  result,  \* what the command or the service last answered
  active   \* history: the active identities when the handler read the size

registryVars == <<idList, nextIndex>>
sessionVars  == <<pc, size, index, scan, proof, result, active>>
vars         == <<registryVars, sessionVars>>

Registry == INSTANCE IdRegistry

-----------------------------------------------------------------------------
PCs == {"ready", "size", "index", "list", "scan", "form",
        "postList", "postScan", "done"}

Results == {"none", "tooFew", "notListed", "panic", "abort", "noProof",
            "dropped", "rejected", "accepted", "failed"}

Scan == [limit : Nat, at : Nat, ids : Seq(Ids)]

NoScan == [limit |-> 0, at |-> 0, ids |-> <<>>]

\* A proof is known by what verification compares: its parameter, the number
\* of identities it was made over and those identities in order.
Proof == [n : Nat, m : Nat, ring : Seq(Ids)]

NoProof == [n |-> 0, m |-> 0, ring |-> <<>>]

Listed == {Registry!getIDs(k) : k \in 0 .. nextIndex - 1}

Revoked(d) == \E k \in 0 .. nextIndex - 1 : Registry!getIDs(k) = d /\ ~Registry!getState(k)

ActiveIds == {d \in Listed : ~Revoked(d)}

SomeRevoked == \E k \in 0 .. nextIndex - 1 : ~Registry!getState(k)

Init ==
  /\ Registry!Init
  /\ pc     = [c \in Clients |-> "ready"]
  /\ size   = [c \in Clients |-> 0]
  /\ index  = [c \in Clients |-> -1]
  /\ scan   = [c \in Clients |-> NoScan]
  /\ proof  = [c \in Clients |-> NoProof]
  /\ result = [c \in Clients |-> "none"]
  /\ active = [c \in Clients |-> {}]

-----------------------------------------------------------------------------
(* The register command.                                                   *)

\* The user runs it, or runs it again after a failure.
Start(c) ==
  /\ \/ pc[c] = "ready"
     \/ pc[c] = "form" /\ result[c] \in {"dropped", "rejected", "failed"}
  /\ pc'     = [pc EXCEPT ![c] = "size"]
  /\ proof'  = [proof EXCEPT ![c] = NoProof]
  /\ result' = [result EXCEPT ![c] = "none"]
  /\ UNCHANGED <<registryVars, size, index, scan, active>>

\* The command ends, or the handler answers, without a proof being accepted.
Ends(c, state, answer) ==
  /\ pc'     = [pc EXCEPT ![c] = state]
  /\ result' = [result EXCEPT ![c] = answer]

ReadSize(c) ==
  /\ pc[c] = "size"
  /\ size' = [size EXCEPT ![c] = Registry!getIDSize]
  /\ \/ Registry!getIDSize < 2 /\ Ends(c, "ready", "tooFew")
     \/ Registry!getIDSize >= 2 /\ Ends(c, "index", "none")
  /\ UNCHANGED <<registryVars, index, scan, proof, active>>

FindIndex(c) ==
  /\ pc[c] = "index"
  /\ index' = [index EXCEPT ![c] = Registry!getIDIndex(c)]
  /\ \/ Registry!getIDIndex(c) = -1 /\ Ends(c, "ready", "notListed")
     \/ Registry!getIDIndex(c) # -1 /\ Ends(c, "list", "none")
  /\ UNCHANGED <<registryVars, size, scan, proof, active>>

\* Definitions named ...Fault are faults of the definition that follows: they
\* show what the properties detect and are used by nothing else.  Here the
\* loop stops before the last entry.
OpenScanFault(c) ==
  scan' = [scan EXCEPT ![c] = [limit |-> Registry!getIDSize - 1, at |-> 0, ids |-> <<>>]]

\* GetallActiveIDfromContract reads the size once, then one entry per turn.
OpenScan(c) ==
  scan' = [scan EXCEPT ![c] = [limit |-> Registry!getIDSize, at |-> 0, ids |-> <<>>]]

ListActive(c) ==
  /\ pc[c] = "list"
  /\ pc' = [pc EXCEPT ![c] = "scan"]
  /\ OpenScan(c)
  /\ UNCHANGED <<registryVars, size, index, proof, result, active>>

\* The state of the entry is not looked at.
ScanEntryFault(c) ==
  /\ pc[c] \in {"scan", "postScan"}
  /\ scan[c].at < scan[c].limit
  /\ scan' = [scan EXCEPT ![c] =
       [limit |-> @.limit,
        at    |-> @.at + 1,
        ids   |-> Append(@.ids, Registry!getIDs(@.at))]]
  /\ UNCHANGED <<registryVars, pc, size, index, proof, result, active>>

ScanEntry(c) ==
  /\ pc[c] \in {"scan", "postScan"}
  /\ scan[c].at < scan[c].limit
  /\ scan' = [scan EXCEPT ![c] =
       [limit |-> @.limit,
        at    |-> @.at + 1,
        ids   |-> IF Registry!getState(@.at)
                  THEN Append(@.ids, Registry!getIDs(@.at)) ELSE @.ids]]
  /\ UNCHANGED <<registryVars, pc, size, index, proof, result, active>>

Scanned(c) == scan[c].at = scan[c].limit

\* The last n identities of the list.
RingFault(c, n) == SubSeq(scan[c].ids, Len(scan[c].ids) - n + 1, Len(scan[c].ids))

\* The ring is the first n identities of the list.
Ring(c, n) == SubSeq(scan[c].ids, 1, n)

\* RegistrationProof, in the order of its tests.  The copy of the list
\* panics on a short one; the library returns 0 when N^m is too small and
\* calls abort() when the index is not below the ring size; a proof on
\* another identity than one's own does not pass the check that follows.
Prove(c) ==
  LET n == size[c]
      m == ClientM(n)
  IN
  /\ pc[c] = "scan" /\ Scanned(c)
  /\ \/ /\ Len(scan[c].ids) < n
        /\ Ends(c, "ready", "panic")
        /\ UNCHANGED proof
     \/ /\ Len(scan[c].ids) >= n
        /\ ~Covers(m, n)
        /\ Ends(c, "ready", "noProof")
        /\ UNCHANGED proof
     \/ /\ Len(scan[c].ids) >= n
        /\ Covers(m, n)
        /\ index[c] >= n
        /\ Ends(c, "ready", "abort")
        /\ UNCHANGED proof
     \/ /\ Len(scan[c].ids) >= n
        /\ Covers(m, n)
        /\ index[c] < n
        /\ scan[c].ids[index[c] + 1] # c
        /\ Ends(c, "ready", "noProof")
        /\ UNCHANGED proof
     \/ /\ Len(scan[c].ids) >= n
        /\ Covers(m, n)
        /\ index[c] < n
        /\ scan[c].ids[index[c] + 1] = c
        /\ Ends(c, "form", "none")
        /\ proof' = [proof EXCEPT ![c] = [n |-> n, m |-> m, ring |-> Ring(c, n)]]
  /\ scan' = [scan EXCEPT ![c] = NoScan]
  /\ UNCHANGED <<registryVars, size, index, active>>

-----------------------------------------------------------------------------
(* The form and the signup handler.                                        *)

Submit(c) ==
  /\ pc[c] = "form"
  /\ Ends(c, "postList", "none")
  /\ UNCHANGED <<registryVars, size, index, scan, proof, active>>

PostListActive(c) ==
  /\ pc[c] = "postList"
  /\ pc'     = [pc EXCEPT ![c] = "postScan"]
  /\ active' = [active EXCEPT ![c] = ActiveIds]
  /\ OpenScan(c)
  /\ UNCHANGED <<registryVars, size, index, proof, result>>

\* RegistrationVerify, on the ring size that the user pastes.  A list or a
\* proof that is too short is an index out of range: net/http recovers the
\* panic and drops the connection.
Verify(c) ==
  LET n     == proof[c].n
      m     == ServerM(n)
      short == Len(scan[c].ids) < n \/ proof[c].m < m
      valid == proof[c].m = m /\ proof[c].ring = Ring(c, n)
  IN
  /\ pc[c] = "postScan" /\ Scanned(c)
  /\ \/ short /\ Ends(c, "form", "dropped")
     \/ ~short /\ ~valid /\ Ends(c, "form", "rejected")
     \/ ~short /\ valid /\ Ends(c, "done", "accepted")
  /\ scan' = [scan EXCEPT ![c] = NoScan]
  /\ UNCHANGED <<registryVars, size, index, proof, active>>

\* A call of the contract fails (or the passkey cannot be loaded): log.Fatal
\* ends the command.  In the handler it ends the server, which is started
\* again: the user submits the same form, or runs the command again.
Fail(c) ==
  /\ \/ pc[c] \in {"size", "index", "list", "scan"} /\ Ends(c, "ready", "failed")
     \/ pc[c] \in {"postList", "postScan"} /\ Ends(c, "form", "failed")
  /\ size'  = [size EXCEPT ![c] = 0]
  /\ index' = [index EXCEPT ![c] = -1]
  /\ scan'  = [scan EXCEPT ![c] = NoScan]
  /\ UNCHANGED <<registryVars, proof, active>>

-----------------------------------------------------------------------------
(* The other users of the contract.  A create command adds the identity of *)
(* a fresh random passkey, so no identity is added twice.                  *)

Add ==
  /\ nextIndex < MaxIds
  /\ \E d \in Ids \ Listed : Registry!addID(d)
  /\ UNCHANGED sessionVars

Revoke ==
  /\ \E k \in 0 .. nextIndex - 1 : Registry!revokeID(k)
  /\ UNCHANGED sessionVars

-----------------------------------------------------------------------------
\* Everything a session does once the command was started.
Step(c) ==
  \/ ReadSize(c) \/ FindIndex(c) \/ ListActive(c) \/ ScanEntry(c) \/ Prove(c)
  \/ Submit(c) \/ PostListActive(c) \/ Verify(c)

Next == Add \/ Revoke \/ \E c \in Clients : Start(c) \/ Step(c) \/ Fail(c)

Spec == Init /\ [][Next]_vars

\* A command and a handler that are running go on, and the user submits the
\* form; nobody has to start a command, add or revoke anything, and no call
\* has to fail.
FairSpec == Spec /\ \A c \in Clients : WF_vars(Step(c))

-----------------------------------------------------------------------------
TypeOK ==
  /\ Registry!TypeOK
  /\ pc     \in [Clients -> PCs]
  /\ size   \in [Clients -> Nat]
  /\ index  \in [Clients -> Int]
  /\ scan   \in [Clients -> Scan]
  /\ proof  \in [Clients -> Proof]
  /\ result \in [Clients -> Results]
  /\ active \in [Clients -> SUBSET Ids]

(* RegistrationProof works with three reads of the contract made one after *)
(* the other: the size, then the index, then the list.  While nobody has   *)
(* revoked an identity, additions between the reads never make it panic,   *)
(* and the two other ways to end without a proof have one cause each: a    *)
(* list that no m below M covers, and an own identity that was added after *)
(* the size had been read.                                                 *)
CommandFailsForAReason ==
  \A c \in Clients : ~SomeRevoked =>
    /\ result[c] # "panic"
    /\ result[c] = "noProof" => Covering(size[c]) = {}
    /\ result[c] = "abort"   => size[c] <= index[c]

(* The service verifies a proof against a list that it reads by itself,    *)
(* later than the user.  It refuses the proof, or drops the connection,    *)
(* only if an identity of the ring was revoked: identities that were added *)
(* since, and revocations outside of the ring, do no harm.                 *)
RefusedOnlyAfterRevocation ==
  \A c \in Clients : result[c] \in {"dropped", "rejected"} =>
    \E j \in 1 .. proof[c].n : proof[c].ring[j] \notin ActiveIds

(* An accepted ring holds the user's identity, and identities that were    *)
(* all active when the handler began to read the list, whatever was        *)
(* revoked between the command and the form, or while it was reading.      *)
AcceptedRingWasActive ==
  \A c \in Clients : result[c] = "accepted" =>
    LET ring == proof[c].ring IN
    /\ \A j \in 1 .. Len(ring) : ring[j] \in active[c]
    /\ \E j \in 1 .. Len(ring) : ring[j] = c

(* Once the size the command works with covers the user's own identity,    *)
(* the session ends with the registration, unless somebody is revoked or a *)
(* call of the contract fails.                                             *)
Registers ==
  \A c \in Clients :
    ( /\ pc[c] = "index"
      /\ Registry!getIDIndex(c) \in 0 .. size[c] - 1
      /\ Covering(size[c]) # {} )
    ~> (result[c] \in {"accepted", "failed"} \/ SomeRevoked)

-----------------------------------------------------------------------------
(* README.md:73 says of the register command that it "will output current  *)
(* id size, a proof and spkBytes", and clientapp.go:168 asks for no more   *)
(* than two listed identities: no listed user's command ever panics.       *)
RegisterOutputsAProof ==
  \A c \in Clients : result[c] # "panic"
=============================================================================
