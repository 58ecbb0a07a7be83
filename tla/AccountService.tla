--------------------------- MODULE AccountService ---------------------------
(***************************************************************************)
(* What the service of server.go promises to its users, without slices and *)
(* goroutines: it hands out challenges, it gives an account to a user who  *)
(* registers on one of them, it says so only once the account is there,    *)
(* and it lets in a user who has an account.  It promises this as long as  *)
(* forms are requested in order; what it does afterwards is left open.     *)
(***************************************************************************)
EXTENDS Integers

CONSTANTS
  Users,      \* the users, each with one public key (spk)
  Challenges, \* challenges of the signup form, each with its owner
  None        \* no user

VARIABLES
  issued,   \* challenges that were handed out
  accounts, \* the user registered on each challenge
  told,     \* users who were told that they are registered
  inside,   \* users whose last request logged them in
  orderly   \* the promise still holds

vars == <<issued, accounts, told, inside, orderly>>

HasAccount(u) == \E c \in issued : accounts[c] = u

Init ==
  /\ issued   = {}
  /\ accounts = [c \in Challenges |-> None]
  /\ told     = {}
  /\ inside   = {}
  /\ orderly  = TRUE

Issue(c) ==
  /\ c \notin issued
  /\ issued' = issued \cup {c}
  /\ UNCHANGED <<accounts, told, inside>>

Register(u, c) ==
  /\ c \in issued
  /\ c.owner = u
  /\ accounts' = [accounts EXCEPT ![c] = u]
  /\ UNCHANGED <<issued, told, inside>>

Confirm(u) ==
  /\ HasAccount(u)
  /\ told' = told \cup {u}
  /\ UNCHANGED <<issued, accounts, inside>>

Leave(u) ==
  /\ inside' = inside \ {u}
  /\ UNCHANGED <<issued, accounts, told>>

LogIn(u) ==
  /\ HasAccount(u)
  /\ inside' = inside \cup {u}
  /\ UNCHANGED <<issued, accounts, told>>

Serve ==
  \/ \E c \in Challenges : Issue(c)
  \/ \E u \in Users : Confirm(u) \/ LogIn(u) \/ Leave(u) \/ \E c \in Challenges : Register(u, c)

Next ==
  \/ orderly /\ Serve /\ UNCHANGED orderly
  \/ ~orderly'

Spec == Init /\ [][Next]_vars
=============================================================================
