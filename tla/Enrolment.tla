----------------------------- MODULE Enrolment -----------------------------
(***************************************************************************)
(* Listing an identity: the create command of clientapp.go, from the       *)
(* passkey file to the transaction AddID and the index it prints.  Many    *)
(* commands run at a time, on passkey files and Ethereum accounts that     *)
(* some of them share, and each may be interrupted anywhere.               *)
(*                                                                         *)
(* A command draws a random passkey: it is named by the command, and so is *)
(* the identity that CreateID derives from it.  The Ethereum node is not   *)
(* part of the repository: its pool of pending transactions is modelled    *)
(* from the calls of u2ssolib.go (PendingNonceAt, SuggestGasPrice, AddID). *)
(***************************************************************************)
EXTENDS Integers, Sequences

CONSTANTS
  Commands,     \* the create commands, each run once
  Paths,        \* passkey files
  Accounts,     \* Ethereum accounts that pay
  path,         \* the -keypath of a command
  account,      \* the account of the -ethkey of a command
  Prices,       \* gas prices that the node may suggest
  Minings,      \* how the node may work: whether it mines instantly
  Deployer,     \* the account that deployed the contract
  NoKey         \* an empty passkey file, or nothing loaded yet

ASSUME PathAssumption    == path \in [Commands -> Paths]
ASSUME AccountAssumption == account \in [Commands -> Accounts]
ASSUME PriceAssumption   == Prices \subseteq Nat
ASSUME MiningAssumption  == Minings \subseteq BOOLEAN
ASSUME KeyAssumption     == NoKey \notin Commands

VARIABLES
  idList, nextIndex, \* the contract
  pc,        \* where each command is
  file,      \* the passkey in each file, NoKey when the file is empty
  exists,    \* the files that exist
  loaded,    \* mskBytes: what a command read back from its file
  nonce,     \* the nonce a command was given
  price,     \* the gas price a command was given
  printed,   \* "added ID to index:", -2 before it is printed
  instant,   \* the node: it answers AddID only when the block is made (Ganache)
  confirmed, \* the node: transactions of each account in the chain
  pool,      \* the node: pending transactions of each account, by nonce
  sent       \* history: the commands whose transaction the node took

registryVars == <<idList, nextIndex>>
commandVars  == <<pc, file, exists, loaded, nonce, price, printed>>
nodeVars     == <<instant, confirmed, pool, sent>>
vars         == <<registryVars, commandVars, nodeVars>>

Registry == INSTANCE IdRegistry WITH Ids <- Commands, MaxIds <- 0

-----------------------------------------------------------------------------
PCs == {"open", "write", "load", "nonce", "price", "send", "report",
        "done", "failed", "interrupted"}

Running == PCs \ {"done", "failed", "interrupted"}

Tx == [id : Commands, price : Prices]

Init ==
  /\ Registry!Init
  /\ pc        = [c \in Commands |-> "open"]
  /\ file      = [p \in Paths |-> NoKey]
  /\ exists    = {}
  /\ loaded    = [c \in Commands |-> NoKey]
  /\ nonce     = [c \in Commands |-> 0]
  /\ price     = [c \in Commands |-> 0]
  /\ printed   = [c \in Commands |-> -2]
  /\ instant   \in Minings
  /\ confirmed = [a \in Accounts |-> 0]
  /\ pool      = [a \in Accounts |-> <<>>]
  /\ sent      = {}

Goto(c, s) == pc' = [pc EXCEPT ![c] = s]

-----------------------------------------------------------------------------
\* Definitions named ...Fault are faults of the definition that follows: they
\* show what the properties detect and are used by nothing else.  Here the
\* file is truncated when it is opened.
OpenFault(c) ==
  /\ pc[c] = "open"
  /\ exists' = exists \cup {path[c]}
  /\ file'   = [file EXCEPT ![path[c]] = NoKey]
  /\ Goto(c, "write")
  /\ UNCHANGED <<registryVars, loaded, nonce, price, printed, nodeVars>>

\* CreatePasskey opens with O_CREATE|O_WRONLY: a new file is empty, one that
\* is there keeps its passkey until Write goes over it.
Open(c) ==
  /\ pc[c] = "open"
  /\ exists' = exists \cup {path[c]}
  /\ Goto(c, "write")
  /\ UNCHANGED <<registryVars, file, loaded, nonce, price, printed, nodeVars>>

Write(c) ==
  /\ pc[c] = "write"
  /\ file' = [file EXCEPT ![path[c]] = c]
  /\ Goto(c, "load")
  /\ UNCHANGED <<registryVars, exists, loaded, nonce, price, printed, nodeVars>>

\* LoadPasskey reads the file again, whoever wrote it last; it refuses an
\* empty one and exits on a missing one.
Load(c) ==
  /\ pc[c] = "load"
  /\ \/ /\ path[c] \in exists /\ file[path[c]] # NoKey
        /\ loaded' = [loaded EXCEPT ![c] = file[path[c]]]
        /\ Goto(c, "nonce")
     \/ /\ path[c] \notin exists \/ file[path[c]] = NoKey
        /\ Goto(c, "failed")
        /\ UNCHANGED loaded
  /\ UNCHANGED <<registryVars, file, exists, nonce, price, printed, nodeVars>>

-----------------------------------------------------------------------------
(* AddIDstoIdR.                                                            *)

\* PendingNonceAt counts the pending transactions of the account too.
ReadNonce(c) ==
  /\ pc[c] = "nonce"
  /\ nonce' = [nonce EXCEPT ![c] = confirmed[account[c]] + Len(pool[account[c]])]
  /\ Goto(c, "price")
  /\ UNCHANGED <<registryVars, file, exists, loaded, price, printed, nodeVars>>

ReadPrice(c) ==
  /\ pc[c] = "price"
  /\ \E g \in Prices : price' = [price EXCEPT ![c] = g]
  /\ Goto(c, "send")
  /\ UNCHANGED <<registryVars, file, exists, loaded, nonce, printed, nodeVars>>

\* The place of the command's nonce in the pool of its account.
Slot(c) == nonce[c] - confirmed[account[c]] + 1

\* The node takes the next nonce, or a better price for a pending one.
Accepts(c) ==
  LET txs == pool[account[c]] IN
  \/ Slot(c) = Len(txs) + 1
  \/ Slot(c) \in 1 .. Len(txs) /\ price[c] > txs[Slot(c)].price

Pooled(txs, s, tx) ==
  IF s = Len(txs) + 1 THEN Append(txs, tx) ELSE [txs EXCEPT ![s] = tx]

\* The identity of the passkey that was drawn, not of the one in the file.
AddIDTxFault(c) == [id |-> c, price |-> price[c]]

\* The transaction: the identity of the loaded passkey, at the node's price.
AddIDTx(c) == [id |-> loaded[c], price |-> price[c]]

\* The node answers in the call, or when it has made a block.
Take(c) ==
  /\ Accepts(c)
  /\ sent' = sent \cup {c}
  /\ \/ /\ ~instant
        /\ pool' = [pool EXCEPT ![account[c]] =
                      Pooled(@, Slot(c), AddIDTx(c))]
        /\ UNCHANGED <<registryVars, confirmed>>
     \/ /\ instant
        /\ Registry!addID(AddIDTx(c).id)
        /\ confirmed' = [confirmed EXCEPT ![account[c]] = @ + 1]
        /\ UNCHANGED pool
  /\ UNCHANGED instant

\* The error of AddID is not looked at.
SendFault(c) ==
  /\ pc[c] = "send"
  /\ Take(c) \/ (~Accepts(c) /\ UNCHANGED <<registryVars, nodeVars>>)
  /\ Goto(c, "report")
  /\ UNCHANGED <<file, exists, loaded, nonce, price, printed>>

\* A transaction that the node refuses ends the command (log.Fatal).
Send(c) ==
  /\ pc[c] = "send"
  /\ \/ /\ Take(c)
        /\ Goto(c, "report")
     \/ /\ ~Accepts(c)
        /\ Goto(c, "failed")
        /\ UNCHANGED <<registryVars, nodeVars>>
  /\ UNCHANGED <<file, exists, loaded, nonce, price, printed>>

\* An identity that is not listed yet is sent again.
ReportFault(c) ==
  /\ pc[c] = "report"
  /\ printed' = [printed EXCEPT ![c] = Registry!getIDIndex(loaded[c])]
  /\ Goto(c, IF printed'[c] = -1 THEN "nonce" ELSE "done")
  /\ UNCHANGED <<registryVars, file, exists, loaded, nonce, price, nodeVars>>

\* GetIDIndex is called as soon as AddID returns.
Report(c) ==
  /\ pc[c] = "report"
  /\ printed' = [printed EXCEPT ![c] = Registry!getIDIndex(loaded[c])]
  /\ Goto(c, "done")
  /\ UNCHANGED <<registryVars, file, exists, loaded, nonce, price, nodeVars>>

\* The user interrupts the command, or one of its calls fails (log.Fatal).
Interrupt(c) ==
  /\ pc[c] \in Running
  /\ Goto(c, "interrupted")
  /\ UNCHANGED <<registryVars, file, exists, loaded, nonce, price, printed, nodeVars>>

-----------------------------------------------------------------------------
\* The node puts the first pending transaction of an account in a block.
Mine(a) ==
  /\ pool[a] # <<>>
  /\ Registry!addID(Head(pool[a]).id)
  /\ pool'      = [pool EXCEPT ![a] = Tail(@)]
  /\ confirmed' = [confirmed EXCEPT ![a] = @ + 1]
  /\ UNCHANGED <<commandVars, instant, sent>>

-----------------------------------------------------------------------------
Step(c) ==
  \/ Open(c) \/ Write(c) \/ Load(c)
  \/ ReadNonce(c) \/ ReadPrice(c) \/ Send(c) \/ Report(c)

Next ==
  \/ \E c \in Commands : Step(c) \/ Interrupt(c)
  \/ \E a \in Accounts : Mine(a)

\* The node makes blocks for ever; a command may be left at any point.
Spec == Init /\ [][Next]_vars /\ \A a \in Accounts : WF_vars(Mine(a))

-----------------------------------------------------------------------------
Pending(d) == \E a \in Accounts : \E j \in 1 .. Len(pool[a]) : pool[a][j].id = d

Listed(d) == Registry!getIDIndex(d) # -1

\* The transaction of c is in the place of its nonce.
Waits(c) ==
  LET txs == pool[account[c]] IN
  Slot(c) \in 1 .. Len(txs) /\ txs[Slot(c)] = AddIDTx(c)

\* The node took another transaction of the account with the nonce of c, at a
\* better price.
Outbid(c) ==
  \E e \in sent :
    account[e] = account[c] /\ nonce[e] = nonce[c] /\ price[e] > price[c]

TypeOK ==
  /\ Registry!TypeOK
  /\ pc        \in [Commands -> PCs]
  /\ file      \in [Paths -> Commands \cup {NoKey}]
  /\ exists    \subseteq Paths
  /\ loaded    \in [Commands -> Commands \cup {NoKey}]
  /\ nonce     \in [Commands -> Nat]
  /\ price     \in [Commands -> Prices \cup {0}]
  /\ printed   \in [Commands -> Int]
  /\ instant   \in Minings
  /\ confirmed \in [Accounts -> Nat]
  /\ pool      \in [Accounts -> Seq(Tx)]
  /\ sent      \subseteq Commands

(* A command may be interrupted between opening its file and writing it,   *)
(* and after it sent the transaction: an identity that is or will be       *)
(* listed always has a passkey in its file, and it is its own unless       *)
(* another create command ran on that file.                                *)
KeyKept ==
  \A d \in Commands : Listed(d) \/ Pending(d) =>
    file[path[d]] \in {e \in Commands : path[e] = path[d]}

(* No command lists an identity twice, and no two commands list the same   *)
(* one, unless they ran on the same file (where both may read back what    *)
(* the later one wrote).  Registration relies on it.                       *)
ListedOnce ==
  \A k, l \in 1 .. Len(idList) :
    k # l /\ idList[k].id = idList[l].id =>
      \E e \in Commands \ {idList[k].id} : path[e] = path[idList[k].id]

(* The index that was printed, when it is one, is that of the passkey's    *)
(* identity, and remains so.                                               *)
PrintedIndexRight ==
  \A c \in Commands : printed[c] >= 0 =>
    printed[c] = Registry!getIDIndex(loaded[c])

(* Nonces are read before transactions are sent, so that commands of one   *)
(* account may get the same; and the index is looked up before the block.  *)
(* No transaction is lost by that: a command that gets past AddID, or is   *)
(* interrupted when the node took its transaction, has its identity listed *)
(* or waiting in its place, also when it printed -1, unless another        *)
(* transaction with its nonce was taken at a better price.                 *)
SentIsKept ==
  \A c \in Commands : c \in sent \/ pc[c] \in {"report", "done"} =>
    Listed(loaded[c]) \/ Waits(c) \/ Outbid(c)

(* A transaction that was sent ends in the contract even if the command is *)
(* interrupted, unless another one of the account, with the same nonce and *)
(* a better price, was really sent and taken.                              *)
SentIsListed ==
  \A c \in Commands : pc[c] = "report" ~> Listed(loaded[c]) \/ Outbid(c)

(* clientapp.go:116 prints "added ID to index:" and u2ssolib.go:357 says   *)
(* "Adds an id to the contract".  On a node that mines instantly, what is   *)
(* printed is an index of the list; on others it is -1 until the block.    *)
AddedMeansListed ==
  \A c \in Commands : instant /\ pc[c] = "done" => printed[c] \in 0 .. nextIndex - 1

-----------------------------------------------------------------------------
(* README.md:59 "Run the above command for multiple users to create        *)
(* multiple SSO-ids" (the command names key1.txt), and README.md:61 then   *)
(* loads from it the passkey to authenticate with: the file of a listed    *)
(* identity holds its passkey.                                             *)
ListedKeyIsInItsFile ==
  \A d \in Commands : Listed(d) => file[path[d]] = d
=============================================================================
