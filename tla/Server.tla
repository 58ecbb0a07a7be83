------------------------------- MODULE Server -------------------------------
(***************************************************************************)
(* The memory of server.go and the handlers that share it.  net/http runs  *)
(* every request in a goroutine of its own, and nothing guards the slice   *)
(* registeredSPK: signupFormHandler appends to it, signupHandler updates   *)
(* its entries and loginHandler searches it, all at the same time.         *)
(*                                                                         *)
(* The slice is modelled as Go implements it: a header (array and length)  *)
(* and arrays whose capacity doubles.  append on a global slice loads the  *)
(* header, grows into a copy when the array is full, stores the header,    *)
(* then stores the element: four steps here.  A loop reads the header      *)
(* again in each turn, and the assignments of a turn read it once more.    *)
(* The words of one header, and the fields of one entry, are loaded and    *)
(* stored together.  Of an account only the fields that some handler reads *)
(* are kept: challenge and spk.                                            *)
(***************************************************************************)
EXTENDS Integers, Sequences

CONSTANTS
  Users,      \* the users, each with one public key (spk)
  None,       \* the nil spk of an account without a registration
  MaxForms,   \* bound: signup forms that are requested
  MaxExits    \* bound: times the process ends and is started again

ASSUME NoneAssumption  == None \notin Users
ASSUME FormsAssumption == MaxForms \in Nat
ASSUME ExitsAssumption == MaxExits \in Nat

VARIABLES
  arrays,   \* the arrays ever allocated for registeredSPK, oldest first
  header,   \* registeredSPK: the number of its array (0: nil) and its length
  forms,    \* how many challenges were created
  exits,    \* how often the process ended
  pc,       \* what each user's request is doing
  chal,     \* the challenge of the form each user has, or is being sent
  snap,     \* the header that a running append works on, else the nil one
  at,       \* the index of a running loop, 0 between two loops
  result,   \* what each user was last told
  verified, \* history: users whose proof was verified since the last start
  told,     \* history: users who were sent the success page since then
  orderly   \* history: there was no restart, and each signup form was
            \* requested while no other one, and no update of the accounts,
            \* was being served

memory  == <<arrays, header>>
history == <<verified, told, orderly>>
vars    == <<memory, forms, exits, pc, chal, snap, at, result, history>>

-----------------------------------------------------------------------------
\* Challenges are random: they are known by the number of the form and the
\* user who asked for it.  NoChallenge is that of an entry not stored yet.
Challenge == [no : 1 .. MaxForms, owner : Users]

NoChallenge == [no |-> 0, owner |-> None]

Entry == [challenge : Challenge \cup {NoChallenge}, spk : Users \cup {None}]

ZeroEntry == [challenge |-> NoChallenge, spk |-> None]

Header == [array : Nat, len : Nat]

NilSlice == [array |-> 0, len |-> 0]

PCs == {"out", "grow", "publish", "extend", "store", "verify", "loop", "assign", "login"}

\* "other" is any answer but those of the search for a public key.
Results == {"other", "loggedIn", "loginFailed"}

Cap(h) == IF h.array = 0 THEN 0 ELSE Len(arrays[h.array])

Appending == {u \in Users : pc[u] \in {"grow", "publish", "extend", "store"}}

Updating == {u \in Users : pc[u] \in {"loop", "assign"}}

Init ==
  /\ arrays = <<>>
  /\ header = NilSlice
  /\ forms  = 0
  /\ exits  = 0
  /\ pc     = [u \in Users |-> "out"]
  /\ chal   = [u \in Users |-> NoChallenge]
  /\ snap   = [u \in Users |-> NilSlice]
  /\ at     = [u \in Users |-> 0]
  /\ result = [u \in Users |-> "other"]
  /\ verified = {}
  /\ told     = {}
  /\ orderly  = TRUE

Goto(u, s) == pc' = [pc EXCEPT ![u] = s]

Answer(u, s, r) ==
  /\ Goto(u, s)
  /\ result' = [result EXCEPT ![u] = r]

-----------------------------------------------------------------------------
(* signupFormHandler: a new challenge and                                  *)
(* registeredSPK = append(registeredSPK, acc).                             *)

RequestForm(u) ==
  /\ pc[u] = "out"
  /\ forms < MaxForms
  /\ forms' = forms + 1
  /\ chal'  = [chal EXCEPT ![u] = [no |-> forms + 1, owner |-> u]]
  /\ snap'  = [snap EXCEPT ![u] = header]
  /\ Goto(u, IF header.len = Cap(header) THEN "grow" ELSE "extend")
  /\ orderly' = (orderly /\ Appending \cup Updating = {})
  /\ UNCHANGED <<memory, exits, at, result, verified, told>>

\* Definitions named ...Fault are faults of the definition that follows: they
\* show what the properties detect and are used by nothing else.  Here the
\* capacity grows from zero only.
NewCapFault(old) == IF Cap(old) = 0 THEN 1 ELSE Cap(old)

NewCap(old) == IF Cap(old) = 0 THEN 1 ELSE 2 * Cap(old)

\* The last entry is not copied.
GrownFault(old) ==
  [k \in 1 .. NewCap(old) |-> IF k < old.len THEN arrays[old.array][k] ELSE ZeroEntry]

\* growslice: an array of twice the capacity, with the old entries.
Grown(old) ==
  [k \in 1 .. NewCap(old) |-> IF k <= old.len THEN arrays[old.array][k] ELSE ZeroEntry]

Grow(u) ==
  /\ pc[u] = "grow"
  /\ arrays' = Append(arrays, Grown(snap[u]))
  /\ snap'   = [snap EXCEPT ![u].array = Len(arrays) + 1]
  /\ Goto(u, "publish")
  /\ UNCHANGED <<header, forms, exits, chal, at, result, history>>

\* After a growth the array and the length are stored, else the length only.
\* A length past the current array, which another append may have replaced
\* by a smaller one, is not followed: Go gives no meaning to such a slice.
Publish(u) ==
  /\ pc[u] = "publish"
  /\ header' = [snap[u] EXCEPT !.len = @ + 1]
  /\ Goto(u, "store")
  /\ UNCHANGED <<arrays, forms, exits, chal, snap, at, result, history>>

Extend(u) ==
  /\ pc[u] = "extend"
  /\ snap[u].len < Cap(header)
  /\ header' = [header EXCEPT !.len = snap[u].len + 1]
  /\ Goto(u, "store")
  /\ UNCHANGED <<arrays, forms, exits, chal, snap, at, result, history>>

\* The user gets the form, or an error page if its file cannot be read.
Store(u) ==
  /\ pc[u] = "store"
  /\ arrays' = [arrays EXCEPT ![snap[u].array][snap[u].len + 1] =
                  [challenge |-> chal[u], spk |-> None]]
  /\ \E c \in {chal[u], NoChallenge} : chal' = [chal EXCEPT ![u] = c]
  /\ Goto(u, "out")
  /\ snap' = [snap EXCEPT ![u] = NilSlice]
  /\ UNCHANGED <<header, forms, exits, at, result, history>>

-----------------------------------------------------------------------------
(* signupHandler.                                                          *)

\* A form can be submitted again, after a failure or by mistake.
Submit(u) ==
  /\ pc[u] = "out"
  /\ chal[u] # NoChallenge
  /\ Answer(u, "verify", "other")
  /\ UNCHANGED <<memory, forms, exits, chal, snap, at, history>>

\* The handler goes on after a proof that is not valid.
VerifyFault(u) ==
  /\ pc[u] = "verify"
  /\ \E valid \in {{u}, {}} : verified' = verified \cup valid
  /\ orderly' = (orderly /\ Appending = {})
  /\ Goto(u, "loop")
  /\ UNCHANGED <<memory, forms, exits, chal, snap, at, result, told>>

\* RegistrationVerify (module Registration) returns true, returns false, or
\* panics and the connection is dropped.
Verify(u) ==
  /\ pc[u] = "verify"
  /\ \/ /\ verified' = verified \cup {u}
        /\ orderly'  = (orderly /\ Appending = {})
        /\ Goto(u, "loop")
        /\ UNCHANGED result
     \/ /\ Answer(u, "out", "other")
        /\ UNCHANGED <<verified, orderly>>
  /\ UNCHANGED <<memory, forms, exits, chal, snap, at, told>>

\* The loops stop before the last entry.
AtEndFault(u) == at[u] + 1 >= header.len

AtEnd(u) == at[u] >= header.len

Current(k) == arrays[header.array][k + 1]

\* The end of the loop (the success page, or an error if its file cannot be
\* read), the next turn, or a match.
Compare(u) ==
  /\ pc[u] = "loop"
  /\ \/ /\ AtEnd(u)
        /\ at' = [at EXCEPT ![u] = 0]
        /\ Answer(u, "out", "other")
        /\ \E page \in {{u}, {}} : told' = told \cup page
     \/ /\ ~AtEnd(u)
        /\ Current(at[u]).challenge # chal[u]
        /\ at' = [at EXCEPT ![u] = @ + 1]
        /\ UNCHANGED <<pc, result, told>>
     \/ /\ ~AtEnd(u)
        /\ Current(at[u]).challenge = chal[u]
        /\ Goto(u, "assign")
        /\ UNCHANGED <<at, result, told>>
  /\ UNCHANGED <<memory, forms, exits, chal, snap, verified, orderly>>

\* The assignments index the slice again; past its end they panic.
Assign(u) ==
  /\ pc[u] = "assign"
  /\ \/ /\ ~AtEnd(u)
        /\ arrays' = [arrays EXCEPT ![header.array][at[u] + 1].spk = u]
        /\ at' = [at EXCEPT ![u] = @ + 1]
        /\ Goto(u, "loop")
        /\ UNCHANGED result
     \/ /\ AtEnd(u)
        /\ Answer(u, "out", "other")
        /\ at' = [at EXCEPT ![u] = 0]
        /\ UNCHANGED arrays
  /\ UNCHANGED <<header, forms, exits, chal, snap, history>>

-----------------------------------------------------------------------------
(* loginHandler.  The challenge is not looked up, and loginFormHandler     *)
(* only appends to regAuthChallenges, which nobody reads.                  *)

\* AuthVerify fails, or the search for the public key begins.
LogIn(u) ==
  /\ pc[u] = "out"
  /\ \E s \in {"login", "out"} : Answer(u, s, "other")
  /\ UNCHANGED <<memory, forms, exits, chal, snap, at, history>>

\* Any public key will do.
FindsFault(u, k) == Current(k).spk # None

Finds(u, k) == Current(k).spk = u

\* A match ends the model's search: the code goes on to the end of the slice
\* and gives the same answer.
Search(u) ==
  /\ pc[u] = "login"
  /\ \/ /\ AtEnd(u)
        /\ \E r \in {"loginFailed", "other"} : Answer(u, "out", r)
        /\ at' = [at EXCEPT ![u] = 0]
     \/ /\ ~AtEnd(u)
        /\ ~Finds(u, at[u])
        /\ at' = [at EXCEPT ![u] = @ + 1]
        /\ UNCHANGED <<pc, result>>
     \/ /\ ~AtEnd(u)
        /\ Finds(u, at[u])
        /\ \E r \in {"loggedIn", "other"} : Answer(u, "out", r)
        /\ at' = [at EXCEPT ![u] = 0]
  /\ UNCHANGED <<memory, forms, exits, chal, snap, history>>

-----------------------------------------------------------------------------
\* The process ends (log.Fatal, or its operator) and is started again with
\* an empty slice.  Requests that were being served are dropped; users keep
\* the forms they have.
Exit ==
  /\ exits < MaxExits
  /\ exits'  = exits + 1
  /\ arrays' = <<>>
  /\ header' = NilSlice
  /\ pc'     = [u \in Users |-> "out"]
  /\ chal'   = [u \in Users |-> IF u \in Appending THEN NoChallenge ELSE chal[u]]
  /\ snap'   = [u \in Users |-> NilSlice]
  /\ result' = [u \in Users |-> "other"]
  /\ verified' = {}
  /\ told'     = {}
  /\ orderly'  = FALSE
  /\ at'       = [u \in Users |-> 0]
  /\ UNCHANGED forms

Next ==
  \/ \E u \in Users :
       \/ RequestForm(u) \/ Grow(u) \/ Publish(u) \/ Extend(u) \/ Store(u)
       \/ Submit(u) \/ Verify(u) \/ Compare(u) \/ Assign(u)
       \/ LogIn(u) \/ Search(u)
  \/ Exit

Spec == Init /\ [][Next]_vars

-----------------------------------------------------------------------------
\* No header reaches past its array.
TypeOK ==
  /\ \A k \in 1 .. Len(arrays) : arrays[k] \in Seq(Entry)
  /\ header.array \in 0 .. Len(arrays) /\ header.len \in 0 .. Cap(header)
  /\ forms \in 0 .. MaxForms
  /\ exits \in 0 .. MaxExits
  /\ pc     \in [Users -> PCs]
  /\ chal   \in [Users -> Challenge \cup {NoChallenge}]
  /\ snap   \in [Users -> Header]
  /\ at     \in [Users -> Nat]
  /\ result \in [Users -> Results]
  /\ verified \subseteq Users
  /\ told     \subseteq Users
  /\ orderly \in BOOLEAN

Registered(u) == \E k \in 0 .. header.len - 1 : Current(k).spk = u

(* However the handlers interleave, and whatever the lost updates of the   *)
(* slice leave behind, a login succeeds only with a public key whose       *)
(* membership proof this process has verified.                             *)
LoginOnlyIfVerified ==
  \A u \in Users : result[u] = "loggedIn" => u \in verified

(* A user who was sent registration_success.html has an entry in the       *)
(* slice, and keeps it while others sign up, as long as forms are          *)
(* requested one at a time.  After that, or after a restart, the handler   *)
(* sends the page even if no entry matched.                                *)
ToldMeansRegistered ==
  orderly => \A u \in told : Registered(u)

(* README.md:84 "Now, with this command you can authenticate for the       *)
(* service": a login with a valid signature finds the public key of a user *)
(* who was told, even if the slice grows while it is searched.             *)
ToldCanLogIn ==
  orderly => \A u \in Users : result[u] = "loginFailed" => u \notin told

\* The accounts are the entries of the current array that are stored.
Issued == {Current(k).challenge : k \in 0 .. header.len - 1} \ {NoChallenge}

Accounts ==
  [c \in Challenge |->
     LET ks == {k \in 0 .. header.len - 1 : Current(k).challenge = c}
     IN  IF ks = {} THEN None ELSE Current(CHOOSE k \in ks : TRUE).spk]

Inside == {u \in Users : result[u] = "loggedIn"}

Service == INSTANCE AccountService WITH
  Challenges <- Challenge, issued <- Issued, accounts <- Accounts, inside <- Inside

(* As long as signup forms are requested one at a time, and the process is *)
(* not restarted, the slice is a table of accounts: every user is          *)
(* registered on a challenge of one's own, is told so after that, and      *)
(* nothing is ever lost.                                                   *)
ImplementsService == Service!Spec

-----------------------------------------------------------------------------
(* README.md:82 "Upon Hitting the Submit button, you will be registered    *)
(* for the service": the users who were sent registration_success.html     *)
(* have an entry in the slice.                                             *)
SubmitRegisters ==
  \A u \in told : Registered(u)
=============================================================================
