------------------------------ MODULE RingSize ------------------------------
(***************************************************************************)
(* The proof parameter m of a ring of n identities.  A membership proof    *)
(* covers N^m identities; the command and the service each look for the    *)
(* least m in 1 .. M-1 that covers n, in loops of their own, and differ in *)
(* what is left in the variable when there is none (module RingSizeLoops   *)
(* checks the loops against these definitions).                            *)
(***************************************************************************)
EXTENDS Integers

CONSTANTS
  N, \* const N = 2: base of the indices of a proof
  M  \* const M = 10: the loops stop before M

ASSUME BaseAssumption  == N \in Nat \ {0, 1}
ASSUME LimitAssumption == M \in Nat \ {0, 1}

\* The power of N that is multiplied up to m.
Capacity(m) ==
  LET tmpN[i \in 0 .. m] == IF i = 0 THEN 1 ELSE tmpN[i - 1] * N
  IN tmpN[m]

\* What a proof of parameter m can cover (the first test of both the
\* prover and the verifier).
Covers(m, n) == Capacity(m) >= n

Covering(n) == {m \in 1 .. M - 1 : Covers(m, n)}

LeastCovering(n) == CHOOSE m \in Covering(n) : \A k \in Covering(n) : m <= k

\* clientapp.go: currentm keeps its initial value 1.
ClientM(n) == IF Covering(n) = {} THEN 1 ELSE LeastCovering(n)

\* The handler's loop counts once more before it stops (a fault, to show what
\* the properties detect).
ServerMFault(n) == IF Covering(n) = {} THEN M ELSE LeastCovering(n) + 1

\* server.go: currentm is the loop variable and ends at M.
ServerM(n) == IF Covering(n) = {} THEN M ELSE LeastCovering(n)
=============================================================================
