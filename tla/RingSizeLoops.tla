---------------------------- MODULE RingSizeLoops ----------------------------
(***************************************************************************)
(* The two loops that choose m, step by step and for every ring size: the  *)
(* one of the register command (clientapp.go) and the one of the signup    *)
(* handler (server.go).  The variables are the program's; one step is one  *)
(* turn of a loop.                                                         *)
(***************************************************************************)
EXTENDS RingSize

CONSTANT MaxRing \* bound: the largest ring size that is explored

ASSUME MaxRingAssumption == MaxRing \in Nat \ {0}

VARIABLES
  idsize,   \* the ring size both loops are run on
  turn,     \* the command's loop variable, i
  ringSize, \* the command's power of N
  currentm, \* the command's result
  tmp,      \* the handler's power of N
  serverm,  \* the handler's loop variable and result (currentm there)
  running   \* the loops that have not ended

loopVars == <<idsize, turn, ringSize, currentm, tmp, serverm, running>>

LoopsInit ==
  /\ idsize \in 1 .. MaxRing
  /\ turn = 1 /\ ringSize = 1 /\ currentm = 1
  /\ tmp = 1 /\ serverm = 1
  /\ running = {"client", "server"}

-----------------------------------------------------------------------------
\* Definitions named ...Fault are faults of the definition that follows: they
\* show what the properties detect and are used by nothing else.  Here a ring
\* of exactly N^i is not found covered.
ClientTurnFault ==
  /\ "client" \in running
  /\ turn < M
  /\ ringSize' = N * ringSize
  /\ \/ /\ ringSize' > idsize
        /\ currentm' = turn
        /\ running'  = running \ {"client"}
        /\ UNCHANGED turn
     \/ /\ ringSize' <= idsize
        /\ turn' = turn + 1
        /\ UNCHANGED <<currentm, running>>
  /\ UNCHANGED <<idsize, tmp, serverm>>

\* The next i, or the end of the loop at the bound.
ClientTurn ==
  /\ "client" \in running
  /\ turn < M
  /\ ringSize' = N * ringSize
  /\ \/ /\ ringSize' >= idsize
        /\ currentm' = turn
        /\ running'  = running \ {"client"}
        /\ UNCHANGED turn
     \/ /\ ringSize' < idsize
        /\ turn' = turn + 1
        /\ UNCHANGED <<currentm, running>>
  /\ UNCHANGED <<idsize, tmp, serverm>>

ClientEnd ==
  /\ "client" \in running
  /\ turn >= M
  /\ running' = running \ {"client"}
  /\ UNCHANGED <<idsize, turn, ringSize, currentm, tmp, serverm>>

\* The handler's loop has no bound of its own.
ServerTurnFault ==
  /\ "server" \in running
  /\ serverm <= M
  /\ tmp' = tmp * N
  /\ \/ /\ tmp' >= idsize
        /\ running' = running \ {"server"}
        /\ UNCHANGED serverm
     \/ /\ tmp' < idsize
        /\ serverm' = serverm + 1
        /\ UNCHANGED running
  /\ UNCHANGED <<idsize, turn, ringSize, currentm>>

ServerTurn ==
  /\ "server" \in running
  /\ serverm < M
  /\ tmp' = tmp * N
  /\ \/ /\ tmp' >= idsize
        /\ running' = running \ {"server"}
        /\ UNCHANGED serverm
     \/ /\ tmp' < idsize
        /\ serverm' = serverm + 1
        /\ UNCHANGED running
  /\ UNCHANGED <<idsize, turn, ringSize, currentm>>

ServerEnd ==
  /\ "server" \in running
  /\ serverm >= M
  /\ running' = running \ {"server"}
  /\ UNCHANGED <<idsize, turn, ringSize, currentm, tmp, serverm>>

LoopsNext == ClientTurn \/ ClientEnd \/ ServerTurn \/ ServerEnd

LoopsSpec == LoopsInit /\ [][LoopsNext]_loopVars

-----------------------------------------------------------------------------
(* Each loop ends with the m that module Registration computes in one      *)
(* step, and never runs past N^(M-1), where the Go ints would keep growing.*)
(* And the two are the same for every ring that the command can make a     *)
(* proof for: otherwise the handler would cut the proof in wrong places.   *)
LoopsChooseM ==
  /\ "client" \notin running => currentm = ClientM(idsize)
  /\ "server" \notin running => serverm  = ServerM(idsize)
  /\ {ringSize, tmp} \subseteq 1 .. Capacity(M - 1)
  /\ running = {} /\ Covers(currentm, idsize) => serverm = currentm

-----------------------------------------------------------------------------
(* u2ssolib.go:108 says "M should be log(N)" of the m and the ring size    *)
(* that RegistrationProof is called with, and the form of server.go:62     *)
(* takes ring sizes up to 1024: the m of the command covers the ring.      *)
MIsLogN ==
  "client" \notin running => Covers(currentm, idsize)
=============================================================================
