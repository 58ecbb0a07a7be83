--------------------------- MODULE MCRegistration ---------------------------
(* One registering user, u, among identities that are alike.  A symmetry   *)
(* set would not be sound with the liveness property: instead the others   *)
(* join in one order, which loses nothing, since they can be renamed.      *)
EXTENDS Registration, TLC

CONSTANTS u, o1, o2, o3, o4

MCClients == {u}

Others == <<o1, o2, o3, o4>>

MCIds == MCClients \cup {Others[k] : k \in DOMAIN Others}

FewIds == MCIds \ {o4}

InOrder ==
  \A k \in DOMAIN Others :
    Others[k] \in Listed' \ Listed => \A l \in 1 .. k - 1 : Others[l] \in Listed
=============================================================================
