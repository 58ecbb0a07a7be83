-------------------------- MODULE EnrolmentProofs --------------------------
(***************************************************************************)
(* Proofs about the create command, for any number of commands, files and  *)
(* accounts, shared in any way, and any gas prices.                        *)
(***************************************************************************)
EXTENDS Enrolment, NumberLemmas, TLAPS

\* The file of d's command holds some passkey.
Written(d) == file[path[d]] # NoKey

FilesOwn   == \A p \in Paths : file[p] # NoKey => path[file[p]] = p
PoolKnown  == \A a \in Accounts : \A j \in 1 .. Len(pool[a]) : Written(pool[a][j].id)
ListKnown  == \A k \in 0 .. nextIndex - 1 : Written(Registry!getIDs(k))

Facts(c) ==
  /\ loaded[c] # NoKey => path[loaded[c]] = path[c] /\ Written(loaded[c])
  /\ pc[c] \in {"nonce", "price", "send", "report", "done"} => loaded[c] # NoKey
  /\ pc[c] = "send" => price[c] \in Prices
  /\ pc[c] \in Running => printed[c] = -2
  /\ printed[c] >= 0 => printed[c] = Registry!getIDIndex(loaded[c])
  /\ instant /\ pc[c] = "report" => Registry!getIDIndex(loaded[c]) # -1
  /\ instant /\ pc[c] = "done" => printed[c] \in 0 .. nextIndex - 1

EInv ==
  /\ TypeOK /\ FilesOwn /\ PoolKnown /\ ListKnown
  /\ \A c \in Commands : Facts(c)

-----------------------------------------------------------------------------
(* The contract: entries stay, and new ones come last.                     *)

Grows ==
  /\ Registry!TypeOK' /\ nextIndex \in Nat /\ nextIndex' \in Nat /\ nextIndex <= nextIndex'
  /\ \A k \in 0 .. nextIndex - 1 : Registry!getIDs(k)' = Registry!getIDs(k)

LEMMA AddGrows ==
  ASSUME Registry!TypeOK, NEW d \in Commands, Registry!addID(d)
  PROVE  Grows /\ nextIndex' = nextIndex + 1 /\ idList'[nextIndex + 1].id = d
<1> DEFINE e == [id |-> d, active |-> TRUE, owner |-> Deployer]
<1>1. e \in Registry!ID /\ e.id = d
  BY DEF Registry!ID
<1>2. idList' = Append(idList, e) /\ nextIndex' = nextIndex + 1
  BY DEF Registry!addID
<1>3. idList \in Seq(Registry!ID) /\ nextIndex = Len(idList)
  BY DEF Registry!TypeOK
<1> HIDE DEF e
<1>4. Registry!TypeOK' /\ nextIndex \in Nat /\ nextIndex' \in Nat
  BY <1>1, <1>2, <1>3 DEF Registry!TypeOK
<1>5. \A k \in 0 .. nextIndex - 1 : idList'[k + 1] = idList[k + 1]
  BY <1>1, <1>2, <1>3
<1>6. idList'[nextIndex + 1] = e
  BY <1>1, <1>2, <1>3
<1>7. \A k \in 0 .. nextIndex - 1 : Registry!getIDs(k)' = Registry!getIDs(k)
  BY <1>5 DEF Registry!getIDs
<1> QED
  BY <1>1, <1>2, <1>4, <1>6, <1>7 DEF Grows

LEMMA StillGrows ==
  ASSUME Registry!TypeOK, UNCHANGED registryVars
  PROVE  Grows
BY DEF Grows, registryVars, Registry!TypeOK, Registry!getIDs

LEMMA IndexRange ==
  ASSUME nextIndex \in Nat, NEW d
  PROVE  /\ Registry!getIDIndex(d) \in Int /\ Registry!getIDIndex(d) >= -1
         /\ Registry!getIDIndex(d) # -1 =>
              /\ Registry!getIDIndex(d) \in 0 .. nextIndex - 1
              /\ Registry!getIDs(Registry!getIDIndex(d)) = d
              /\ \A k \in 0 .. nextIndex - 1 :
                   Registry!getIDs(k) = d => Registry!getIDIndex(d) <= k
         /\ Registry!getIDIndex(d) = -1 =>
              \A k \in 0 .. nextIndex - 1 : Registry!getIDs(k) # d
<1>1. CASE Registry!Matches(d) = {}
  <2>1. Registry!getIDIndex(d) = -1
    BY <1>1 DEF Registry!getIDIndex
  <2> QED
    BY <1>1, <2>1 DEF Registry!Matches
<1>2. CASE Registry!Matches(d) # {}
  <2>1. Registry!Matches(d) \subseteq Nat
    BY DEF Registry!Matches
  <2>2. /\ Registry!getIDIndex(d) \in Registry!Matches(d)
        /\ \A k \in Registry!Matches(d) : Registry!getIDIndex(d) <= k
    BY <1>2, <2>1, LeastNatural DEF Registry!getIDIndex
  <2> QED
    BY <2>2 DEF Registry!Matches
<1> QED
  BY <1>1, <1>2

LEMMA IndexKept ==
  ASSUME Grows, NEW d, Registry!getIDIndex(d) # -1
  PROVE  Registry!getIDIndex(d)' = Registry!getIDIndex(d)
<1> DEFINE k == Registry!getIDIndex(d)
<1>1. nextIndex \in Nat /\ nextIndex' \in Nat /\ nextIndex <= nextIndex'
  BY DEF Grows
<1>2. k \in Registry!Matches(d) /\ \A l \in Registry!Matches(d) : k <= l
  BY <1>1, IndexRange DEF Registry!Matches
<1>3. Registry!Matches(d) \subseteq Registry!Matches(d)'
  BY <1>1 DEF Grows, Registry!Matches
<1>4. ASSUME NEW l \in Registry!Matches(d)'
      PROVE  k <= l
  <2>1. CASE l < nextIndex
    BY <1>1, <1>2, <1>4, <2>1 DEF Grows, Registry!Matches
  <2>2. CASE l >= nextIndex
    BY <1>1, <1>2, <1>4, <2>2 DEF Registry!Matches
  <2> QED
    BY <1>1, <1>4, <2>1, <2>2 DEF Registry!Matches
<1>5. k \in Registry!Matches(d)'
  BY <1>2, <1>3
<1>6. /\ Registry!getIDIndex(d)' \in Registry!Matches(d)'
      /\ \A l \in Registry!Matches(d)' : Registry!getIDIndex(d)' <= l
  <2>1. Registry!Matches(d)' # {} /\ Registry!Matches(d)' \subseteq Nat
    BY <1>1, <1>5 DEF Registry!Matches
  <2> QED
    BY <2>1, LeastNatural DEF Registry!getIDIndex
<1>7. k <= Registry!getIDIndex(d)' /\ Registry!getIDIndex(d)' <= k
  BY <1>4, <1>5, <1>6
<1>8. k \in Int /\ Registry!getIDIndex(d)' \in Int
  BY <1>1, <1>2, <1>6 DEF Registry!Matches
<1> QED
  BY <1>7, <1>8

\* An identity is found in the list that its own transaction made.
LEMMA AddedIsFound ==
  ASSUME Registry!TypeOK, NEW d \in Commands, Registry!addID(d)
  PROVE  Registry!getIDIndex(d)' # -1
<1>1. Grows /\ nextIndex' = nextIndex + 1 /\ idList'[nextIndex + 1].id = d
  BY AddGrows
<1> PICK n \in Nat : n = nextIndex
  BY <1>1 DEF Grows
<1>2. n \in Registry!Matches(d)' /\ nextIndex' \in Nat
  <2>1. n \in 0 .. nextIndex' - 1 /\ nextIndex' \in Nat
    BY <1>1
  <2>2. Registry!getIDs(n)' = d
    BY <1>1 DEF Registry!getIDs
  <2> QED
    BY <2>1, <2>2 DEF Registry!Matches
<1>3. Registry!getIDIndex(d)' \in Registry!Matches(d)'
  <2>1. Registry!Matches(d)' # {}
    BY <1>2
  <2>2. Registry!Matches(d)' \subseteq Nat
    BY <1>2 DEF Registry!Matches
  <2> QED
    BY <2>1, <2>2, LeastNatural DEF Registry!getIDIndex
<1> QED
  BY <1>2, <1>3 DEF Registry!Matches
-----------------------------------------------------------------------------
(* The files: one that holds a passkey goes on holding one.                *)

FilesGrow == \A p \in Paths : file[p] # NoKey => file'[p] # NoKey

LEMMA WrittenKept ==
  ASSUME FilesGrow, NEW d \in Commands, Written(d)
  PROVE  Written(d)'
BY PathAssumption DEF Written, FilesGrow

LEMMA ListEntry ==
  ASSUME Registry!TypeOK, ListKnown, NEW k \in 0 .. nextIndex - 1
  PROVE  \E d \in Commands : d = Registry!getIDs(k) /\ Written(d)
<1>1. idList[k + 1] \in Registry!ID
  BY DEF Registry!TypeOK
<1>2. Registry!getIDs(k) \in Commands
  BY <1>1 DEF Registry!ID, Registry!getIDs
<1>3. Written(Registry!getIDs(k))
  BY DEF ListKnown
<1> QED
  BY <1>2, <1>3

LEMMA ListKept ==
  ASSUME Registry!TypeOK, ListKnown, FilesGrow, UNCHANGED registryVars
  PROVE  ListKnown'
<1>1. ASSUME NEW k \in 0 .. nextIndex' - 1
      PROVE  Written(Registry!getIDs(k))'
  <2>1. nextIndex' = nextIndex /\ idList' = idList
    BY DEF registryVars
  <2>2. PICK d \in Commands : d = Registry!getIDs(k) /\ Written(d)
    BY <2>1, ListEntry
  <2>3. Written(d)'
    BY <2>2, WrittenKept
  <2>4. Registry!getIDs(k)' = d
    BY <2>1, <2>2 DEF Registry!getIDs
  <2> QED
    BY <2>3, <2>4 DEF Written
<1> QED
  BY <1>1 DEF ListKnown

LEMMA ListAdded ==
  ASSUME Registry!TypeOK, ListKnown, FilesGrow,
         NEW d \in Commands, Written(d), Registry!addID(d)
  PROVE  ListKnown'
<1>1. Grows /\ nextIndex' = nextIndex + 1 /\ idList'[nextIndex + 1].id = d
  BY AddGrows
<1> PICK n \in Nat : n = nextIndex
  BY <1>1 DEF Grows
<1>2. ASSUME NEW k \in 0 .. n
      PROVE  Written(Registry!getIDs(k))'
  <2>1. CASE k = n
    <3>1. Registry!getIDs(k)' = d
      BY <1>1, <2>1 DEF Registry!getIDs
    <3>2. Written(d)'
      BY WrittenKept
    <3> QED
      BY <3>1, <3>2 DEF Written
  <2>2. CASE k # n
    <3>1. k \in 0 .. nextIndex - 1
      BY <1>2, <2>2
    <3>2. PICK e \in Commands : e = Registry!getIDs(k) /\ Written(e)
      BY <3>1, ListEntry
    <3>3. Written(e)'
      BY <3>2, WrittenKept
    <3>4. Registry!getIDs(k)' = e
      BY <1>1, <3>1, <3>2 DEF Grows
    <3> QED
      BY <3>3, <3>4 DEF Written
  <2> QED
    BY <2>1, <2>2
<1>3. 0 .. nextIndex' - 1 = 0 .. n
  BY <1>1
<1> QED
  BY <1>2, <1>3 DEF ListKnown

-----------------------------------------------------------------------------
(* What a command knows is not disturbed by the others.                    *)

LEMMA FactsKept ==
  ASSUME TypeOK, Grows, FilesGrow, instant' = instant, NEW c \in Commands, Facts(c),
         pc'[c] = pc[c], loaded'[c] = loaded[c], price'[c] = price[c],
         printed'[c] = printed[c]
  PROVE  Facts(c)'
<1>1. /\ loaded[c] \in Commands \cup {NoKey}
      /\ nextIndex \in Nat /\ nextIndex' \in Nat /\ nextIndex <= nextIndex'
  BY DEF TypeOK, Grows
<1> PICK d : d = loaded[c]
  OBVIOUS
<1> PICK i : i = Registry!getIDIndex(d)
  OBVIOUS
<1>2. i # -1 => Registry!getIDIndex(d)' = i
  BY IndexKept
<1>3. Registry!getIDIndex(loaded[c]) = i /\ Registry!getIDIndex(loaded[c])' = Registry!getIDIndex(d)'
  OBVIOUS
<1>4. loaded'[c] # NoKey => path[loaded'[c]] = path[c] /\ Written(loaded[c])'
  <2> SUFFICES ASSUME d # NoKey
               PROVE  path[d] = path[c] /\ Written(d)'
    OBVIOUS
  <2>1. path[d] = path[c] /\ Written(d) /\ d \in Commands
    BY <1>1 DEF Facts
  <2> QED
    BY <2>1, WrittenKept
<1>5. printed'[c] >= 0 => printed'[c] = Registry!getIDIndex(loaded[c])'
  BY <1>2, <1>3 DEF Facts
<1>6. instant' /\ pc'[c] = "report" => Registry!getIDIndex(loaded[c])' # -1
  BY <1>2, <1>3 DEF Facts
<1>7. instant' /\ pc'[c] = "done" => printed'[c] \in 0 .. nextIndex' - 1
  <2> SUFFICES ASSUME instant', pc'[c] = "done"
               PROVE  printed'[c] \in 0 .. nextIndex' - 1
    OBVIOUS
  <2>1. printed[c] \in 0 .. nextIndex - 1
    BY DEF Facts
  <2> QED
    BY <1>1, <2>1
<1> QED
  BY <1>4, <1>5, <1>6, <1>7 DEF Facts

\* c takes a step, and only c.
Only(c) == \A d \in Commands \ {c} :
  /\ pc'[d] = pc[d] /\ loaded'[d] = loaded[d]
  /\ price'[d] = price[d] /\ printed'[d] = printed[d]

LEMMA OthersKept ==
  ASSUME TypeOK, Grows, FilesGrow, instant' = instant, NEW c \in Commands, Only(c),
         \A d \in Commands : Facts(d), Facts(c)'
  PROVE  \A d \in Commands : Facts(d)'
<1>1. ASSUME NEW d \in Commands, d # c
      PROVE  Facts(d)'
  <2>1. /\ pc'[d] = pc[d] /\ loaded'[d] = loaded[d]
        /\ price'[d] = price[d] /\ printed'[d] = printed[d]
    BY <1>1 DEF Only
  <2>2. Facts(d)
    OBVIOUS
  <2> QED
    BY <2>1, <2>2, FactsKept
<1> QED
  BY <1>1, Zenon

\* The passkey that c loaded is still in a file of its own.
KeyOwn(c) == loaded[c] # NoKey => path[loaded[c]] = path[c] /\ Written(loaded[c])

LEMMA KeyOwnKept ==
  ASSUME TypeOK, FilesGrow, NEW c \in Commands, Facts(c), loaded'[c] = loaded[c]
  PROVE  KeyOwn(c)'
<1> SUFFICES ASSUME loaded[c] # NoKey
             PROVE  path[loaded[c]] = path[c] /\ Written(loaded[c])'
  BY DEF KeyOwn
<1>1. PICK d \in Commands : d = loaded[c]
  BY DEF TypeOK
<1>2. path[d] = path[c] /\ Written(d)
  BY <1>1 DEF Facts
<1>3. Written(d)'
  BY <1>2, WrittenKept
<1> QED
  BY <1>1, <1>2, <1>3 DEF Written

\* Before it reports, a command has printed nothing.
LEMMA FactsBefore ==
  ASSUME NEW c \in Commands, KeyOwn(c)', pc'[c] \notin {"report", "done"},
         printed'[c] = -2,
         pc'[c] \in {"nonce", "price", "send"} => loaded'[c] # NoKey,
         pc'[c] = "send" => price'[c] \in Prices
  PROVE  Facts(c)'
BY DEF KeyOwn, Facts

\* The transactions that wait keep a passkey in their files.
LEMMA PoolKept ==
  ASSUME TypeOK, PoolKnown, FilesGrow, UNCHANGED pool
  PROVE  PoolKnown'
<1>1. ASSUME NEW a \in Accounts, NEW j \in 1 .. Len(pool[a])
      PROVE  Written(pool[a][j].id)'
  <2>1. pool[a] \in Seq(Tx)
    BY DEF TypeOK
  <2>2. pool[a][j] \in Tx
    BY <2>1
  <2>3. PICK d \in Commands : d = pool[a][j].id
    BY <2>2 DEF Tx
  <2>4. Written(d)
    BY <2>3 DEF PoolKnown
  <2>5. Written(d)'
    BY <2>4, WrittenKept
  <2> QED
    BY <2>3, <2>5 DEF Written
<1> QED
  BY <1>1 DEF PoolKnown, Written

-----------------------------------------------------------------------------
(* The steps of a command.                                                 *)

\* What is left to show of a step that sends nothing.
LEMMA LocalStep ==
  ASSUME EInv, TypeOK', NEW c \in Commands, Only(c), FilesGrow, FilesOwn',
         UNCHANGED <<registryVars, nodeVars>>, Facts(c)'
  PROVE  EInv'
<1>1. TypeOK /\ Registry!TypeOK /\ instant' = instant /\ UNCHANGED registryVars /\ UNCHANGED pool
  BY DEF EInv, TypeOK, nodeVars
<1>2. Grows
  BY <1>1, StillGrows
<1>3. \A d \in Commands : Facts(d)'
  BY <1>1, <1>2, OthersKept DEF EInv
<1>4. ListKnown' /\ PoolKnown'
  BY <1>1, ListKept, PoolKept DEF EInv
<1> QED
  BY <1>3, <1>4 DEF EInv

LEMMA RegistryTypeKept ==
  ASSUME Registry!TypeOK, UNCHANGED registryVars
  PROVE  Registry!TypeOK'
BY DEF Registry!TypeOK, registryVars

LEMMA OpenStep ==
  ASSUME EInv, NEW c \in Commands, Open(c)
  PROVE  EInv'
<1>1. TypeOK /\ Facts(c) /\ FilesOwn /\ FilesGrow /\ FilesOwn'
  BY DEF EInv, Open, FilesGrow, FilesOwn
<1>2. TypeOK'
  BY <1>1, PathAssumption, RegistryTypeKept DEF TypeOK, Open, Goto, PCs, nodeVars
<1>3. Only(c) /\ pc'[c] = "write" /\ loaded'[c] = loaded[c] /\ printed'[c] = -2
  BY <1>1 DEF Only, Open, Goto, TypeOK, Facts, Running, PCs
<1>4. Facts(c)'
  BY <1>1, <1>3, KeyOwnKept, FactsBefore
<1> QED
  BY <1>1, <1>2, <1>3, <1>4, LocalStep DEF Open

LEMMA WriteStep ==
  ASSUME EInv, NEW c \in Commands, Write(c)
  PROVE  EInv'
<1>1. TypeOK /\ Facts(c) /\ FilesOwn
  BY DEF EInv
<1>2. FilesGrow /\ FilesOwn'
  BY <1>1, PathAssumption, KeyAssumption DEF Write, TypeOK, FilesGrow, FilesOwn
<1>3. TypeOK'
  BY <1>1, PathAssumption, RegistryTypeKept DEF TypeOK, Write, Goto, PCs, nodeVars
<1>4. Only(c) /\ pc'[c] = "load" /\ loaded'[c] = loaded[c] /\ printed'[c] = -2
  BY <1>1 DEF Only, Write, Goto, TypeOK, Facts, Running, PCs
<1>5. Facts(c)'
  BY <1>1, <1>2, <1>4, KeyOwnKept, FactsBefore
<1> QED
  BY <1>2, <1>3, <1>4, <1>5, LocalStep DEF Write

LEMMA LoadStep ==
  ASSUME EInv, NEW c \in Commands, Load(c)
  PROVE  EInv'
<1>1. TypeOK /\ Facts(c) /\ FilesOwn /\ FilesGrow /\ FilesOwn'
  BY DEF EInv, Load, FilesGrow, FilesOwn
<1>2. TypeOK'
  BY <1>1, PathAssumption, RegistryTypeKept DEF TypeOK, Load, Goto, PCs, nodeVars
<1>3. Only(c) /\ printed'[c] = -2 /\ UNCHANGED file
  BY <1>1 DEF Only, Load, Goto, TypeOK, Facts, Running, PCs
<1>4. Facts(c)'
  <2>1. CASE file[path[c]] # NoKey /\ loaded' = [loaded EXCEPT ![c] = file[path[c]]] /\ Goto(c, "nonce")
    <3>1. pc'[c] = "nonce" /\ loaded'[c] = file[path[c]] /\ loaded'[c] # NoKey
      BY <1>1, <2>1 DEF TypeOK, Goto
    <3>2. PICK d \in Commands : d = file[path[c]] /\ path[d] = path[c]
      <4>1. path[c] \in Paths
        BY PathAssumption
      <4>2. file[path[c]] \in Commands
        BY <1>1, <2>1, <4>1 DEF TypeOK
      <4> QED
        BY <1>1, <2>1, <4>1, <4>2 DEF FilesOwn
    <3>3. KeyOwn(c)'
      BY <1>3, <2>1, <3>1, <3>2 DEF KeyOwn, Written
    <3> QED
      BY <1>3, <3>1, <3>3, FactsBefore
  <2>2. CASE Goto(c, "failed") /\ UNCHANGED loaded
    <3>1. pc'[c] = "failed" /\ loaded'[c] = loaded[c]
      BY <1>1, <2>2 DEF TypeOK, Goto
    <3> QED
      BY <1>1, <1>3, <3>1, KeyOwnKept, FactsBefore
  <2> QED
    BY <2>1, <2>2 DEF Load
<1> QED
  BY <1>1, <1>2, <1>3, <1>4, LocalStep DEF Load

LEMMA ReadNonceStep ==
  ASSUME EInv, NEW c \in Commands, ReadNonce(c)
  PROVE  EInv'
<1>1. TypeOK /\ Facts(c) /\ FilesOwn /\ FilesGrow /\ FilesOwn'
  BY DEF EInv, ReadNonce, FilesGrow, FilesOwn
<1>2. confirmed[account[c]] + Len(pool[account[c]]) \in Nat
  BY <1>1, AccountAssumption DEF TypeOK
<1>3. TypeOK'
  BY <1>1, <1>2, RegistryTypeKept DEF TypeOK, ReadNonce, Goto, PCs, nodeVars
<1>4. /\ Only(c) /\ pc'[c] = "price" /\ printed'[c] = -2
      /\ loaded'[c] = loaded[c] /\ loaded[c] # NoKey
  BY <1>1 DEF Only, ReadNonce, Goto, TypeOK, Facts, Running, PCs
<1>5. Facts(c)'
  BY <1>1, <1>4, KeyOwnKept, FactsBefore
<1> QED
  BY <1>1, <1>3, <1>4, <1>5, LocalStep DEF ReadNonce

LEMMA ReadPriceStep ==
  ASSUME EInv, NEW c \in Commands, ReadPrice(c)
  PROVE  EInv'
<1>1. TypeOK /\ Facts(c) /\ FilesOwn /\ FilesGrow /\ FilesOwn'
  BY DEF EInv, ReadPrice, FilesGrow, FilesOwn
<1>2. PICK g \in Prices : price' = [price EXCEPT ![c] = g]
  BY DEF ReadPrice
<1>3. TypeOK'
  BY <1>1, <1>2, RegistryTypeKept DEF TypeOK, ReadPrice, Goto, PCs, nodeVars
<1>4. /\ Only(c) /\ pc'[c] = "send" /\ printed'[c] = -2 /\ price'[c] \in Prices
      /\ loaded'[c] = loaded[c] /\ loaded[c] # NoKey
  BY <1>1, <1>2 DEF Only, ReadPrice, Goto, TypeOK, Facts, Running, PCs
<1>5. Facts(c)'
  BY <1>1, <1>4, KeyOwnKept, FactsBefore
<1> QED
  BY <1>1, <1>3, <1>4, <1>5, LocalStep DEF ReadPrice

LEMMA InterruptStep ==
  ASSUME EInv, NEW c \in Commands, Interrupt(c)
  PROVE  EInv'
<1>1. TypeOK /\ Facts(c) /\ FilesOwn /\ FilesGrow /\ FilesOwn'
  BY DEF EInv, Interrupt, FilesGrow, FilesOwn
<1>2. TypeOK'
  BY <1>1, RegistryTypeKept DEF TypeOK, Interrupt, Goto, PCs, nodeVars
<1>3. /\ Only(c) /\ pc'[c] = "interrupted" /\ printed'[c] = -2 /\ loaded'[c] = loaded[c]
  BY <1>1 DEF Only, Interrupt, Goto, TypeOK, Facts
<1>4. Facts(c)'
  BY <1>1, <1>3, KeyOwnKept, FactsBefore
<1> QED
  BY <1>1, <1>2, <1>3, <1>4, LocalStep DEF Interrupt

\* What is printed is looked up: on a node that mines instantly, it is found.
LEMMA ReportStep ==
  ASSUME EInv, NEW c \in Commands, Report(c)
  PROVE  EInv'
<1>1. TypeOK /\ Facts(c) /\ FilesOwn /\ FilesGrow /\ FilesOwn'
  BY DEF EInv, Report, FilesGrow, FilesOwn
<1> PICK i : i = Registry!getIDIndex(loaded[c])
  OBVIOUS
<1>2. i \in Int /\ (i # -1 => i \in 0 .. nextIndex - 1)
  BY <1>1, IndexRange DEF TypeOK, Registry!TypeOK
<1>3. TypeOK'
  BY <1>1, <1>2, RegistryTypeKept DEF TypeOK, Report, Goto, PCs, nodeVars
<1>4. Only(c) /\ pc'[c] = "done" /\ printed'[c] = i /\ loaded'[c] = loaded[c]
  BY <1>1 DEF Only, Report, Goto, TypeOK
<1>5. Facts(c)'
  <2>1. KeyOwn(c)' /\ loaded'[c] # NoKey
    BY <1>1, <1>4, KeyOwnKept DEF Facts, Report
  <2>2. Registry!getIDIndex(loaded[c])' = i
    BY <1>4 DEF Report, registryVars, Registry!getIDIndex, Registry!Matches, Registry!getIDs
  <2>3. instant' => i \in 0 .. nextIndex' - 1
    BY <1>1, <1>2 DEF Facts, Report, registryVars, nodeVars
  <2> QED
    BY <1>4, <2>1, <2>2, <2>3 DEF Facts, KeyOwn, Running, PCs
<1> QED
  BY <1>1, <1>3, <1>4, <1>5, LocalStep DEF Report

-----------------------------------------------------------------------------
(* The steps that send or mine a transaction.                              *)

LEMMA PooledEntries ==
  ASSUME NEW txs \in Seq(Tx), NEW k, k = Len(txs) + 1 \/ k \in 1 .. Len(txs), NEW tx \in Tx
  PROVE  /\ Pooled(txs, k, tx) \in Seq(Tx)
         /\ \A j \in 1 .. Len(Pooled(txs, k, tx)) :
              \/ Pooled(txs, k, tx)[j] = tx
              \/ j \in 1 .. Len(txs) /\ Pooled(txs, k, tx)[j] = txs[j]
<1>1. CASE k = Len(txs) + 1
  BY <1>1 DEF Pooled
<1>2. CASE k \in 1 .. Len(txs) /\ k # Len(txs) + 1
  <2>1. Pooled(txs, k, tx) = [txs EXCEPT ![k] = tx]
    BY <1>2 DEF Pooled
  <2> QED
    BY <1>2, <2>1
<1> QED
  BY <1>1, <1>2

\* What c has loaded, and the transaction that it sends.
LEMMA SentKey ==
  ASSUME EInv, NEW c \in Commands, pc[c] = "send"
  PROVE  /\ loaded[c] \in Commands /\ Written(loaded[c])
         /\ AddIDTx(c) \in Tx /\ AddIDTx(c).id = loaded[c]
<1>1. Facts(c) /\ TypeOK
  BY DEF EInv
<1>2. loaded[c] \in Commands /\ Written(loaded[c]) /\ price[c] \in Prices
  BY <1>1 DEF Facts, TypeOK
<1> QED
  BY <1>2 DEF AddIDTx, Tx

LEMMA FactsReport ==
  ASSUME NEW c \in Commands, KeyOwn(c)', pc'[c] = "report", printed'[c] = -2,
         loaded'[c] # NoKey, instant' => Registry!getIDIndex(loaded[c])' # -1
  PROVE  Facts(c)'
BY DEF KeyOwn, Facts, Running, PCs

LEMMA SendStep ==
  ASSUME EInv, NEW c \in Commands, Send(c)
  PROVE  EInv'
<1>1. /\ TypeOK /\ Registry!TypeOK /\ Facts(c) /\ FilesOwn /\ PoolKnown /\ ListKnown
      /\ FilesGrow /\ FilesOwn' /\ instant' = instant /\ pc[c] = "send"
  BY DEF EInv, TypeOK, Send, Take, nodeVars, FilesGrow, FilesOwn
<1>2. Only(c) /\ printed'[c] = -2 /\ loaded'[c] = loaded[c] /\ loaded[c] # NoKey
  BY <1>1 DEF Only, Send, Take, Goto, TypeOK, Facts, Running, PCs
<1>3. KeyOwn(c)'
  BY <1>1, <1>2, KeyOwnKept
<1>4. PICK d \in Commands : d = loaded[c]
  BY <1>1, <1>2 DEF TypeOK
<1>5. Written(d) /\ AddIDTx(c) \in Tx /\ AddIDTx(c).id = d
  BY <1>1, <1>4, SentKey
<1>6. account[c] \in Accounts
  BY AccountAssumption
<1>7. CASE /\ Accepts(c) /\ ~instant /\ Goto(c, "report") /\ UNCHANGED <<registryVars, confirmed>>
           /\ pool' = [pool EXCEPT ![account[c]] = Pooled(@, Slot(c), AddIDTx(c))]
           /\ sent' = sent \cup {c}
  <2> DEFINE a == account[c]
             new == Pooled(pool[a], Slot(c), AddIDTx(c))
  <2>1. pool[a] \in Seq(Tx)
    BY <1>1, <1>6 DEF TypeOK
  <2>2. Slot(c) = Len(pool[a]) + 1 \/ Slot(c) \in 1 .. Len(pool[a])
    BY <1>7 DEF Accepts
  <2>3. /\ new \in Seq(Tx)
        /\ \A j \in 1 .. Len(new) :
             \/ new[j] = AddIDTx(c)
             \/ j \in 1 .. Len(pool[a]) /\ new[j] = pool[a][j]
    <3>1. PICK txs \in Seq(Tx) : txs = pool[a]
      BY <2>1
    <3>2. PICK k : k = Slot(c)
      OBVIOUS
    <3>3. PICK tx \in Tx : tx = AddIDTx(c)
      BY <1>5
    <3>4. k = Len(txs) + 1 \/ k \in 1 .. Len(txs)
      BY <2>2, <3>1, <3>2
    <3>5. /\ Pooled(txs, k, tx) \in Seq(Tx)
          /\ \A j \in 1 .. Len(Pooled(txs, k, tx)) :
               \/ Pooled(txs, k, tx)[j] = tx
               \/ j \in 1 .. Len(txs) /\ Pooled(txs, k, tx)[j] = txs[j]
      BY <3>4, PooledEntries
    <3> QED
      BY <3>1, <3>2, <3>3, <3>5
  <2>4. pool' = [pool EXCEPT ![a] = new]
    BY <1>7
  <2> HIDE DEF new
  <2>5. TypeOK'
    BY <1>1, <1>6, <1>7, <2>3, <2>4, RegistryTypeKept DEF TypeOK, Send, Take, Goto, PCs
  <2>6. pc'[c] = "report" /\ ~instant'
    BY <1>1, <1>7 DEF TypeOK, Goto
  <2>7. Facts(c)'
    BY <1>2, <1>3, <2>6, FactsReport
  <2>8. Grows /\ ListKnown'
    BY <1>1, <1>7, StillGrows, ListKept
  <2>9. \A e \in Commands : Facts(e)'
    BY <1>1, <1>2, <2>7, <2>8, OthersKept DEF EInv
  <2>10. PoolKnown'
    <3>1. \A e \in Commands : Written(e)' <=> Written(e)
      BY DEF Send, Take, Written
    <3>2. ASSUME NEW b \in Accounts, NEW j \in 1 .. Len(pool'[b])
          PROVE  Written(pool[b][j].id)'
      <4>1. CASE b # a
        <5>1. pool'[b] = pool[b]
          BY <1>1, <2>4, <4>1 DEF TypeOK
        <5>2. Written(pool[b][j].id)
          BY <1>1, <3>2, <5>1 DEF PoolKnown
        <5> QED
          BY <5>1, <5>2 DEF Send, Take, Written
      <4>2. CASE b = a
        <5>1. pool'[b] = new
          BY <1>1, <1>6, <2>4, <4>2 DEF TypeOK
        <5>2. CASE new[j] = AddIDTx(c)
          BY <1>5, <3>1, <5>1, <5>2 DEF Written
        <5>3. CASE j \in 1 .. Len(pool[a]) /\ new[j] = pool[a][j]
          <6>1. Written(pool[a][j].id)
            BY <1>1, <1>6, <5>3 DEF PoolKnown
          <6> QED
            BY <5>1, <5>3, <6>1 DEF Send, Take, Written
        <5> QED
          BY <2>3, <3>2, <5>1, <5>2, <5>3
      <4> QED
        BY <4>1, <4>2
    <3> QED
      BY <3>2 DEF PoolKnown
  <2> QED
    BY <1>1, <2>5, <2>8, <2>9, <2>10 DEF EInv
<1>8. CASE /\ instant /\ Registry!addID(d) /\ Goto(c, "report") /\ UNCHANGED pool
           /\ confirmed' = [confirmed EXCEPT ![account[c]] = @ + 1]
           /\ sent' = sent \cup {c}
  <2>1. Grows /\ ListKnown'
    BY <1>1, <1>5, <1>8, AddGrows, ListAdded
  <2>2. TypeOK'
    <3>1. confirmed' \in [Accounts -> Nat] /\ pc' \in [Commands -> PCs]
      BY <1>1, <1>6, <1>8 DEF TypeOK, Goto, PCs
    <3>2. UNCHANGED <<file, exists, loaded, nonce, price, printed, instant, pool>>
      BY <1>1, <1>8 DEF Send
    <3>3. sent' \subseteq Commands
      BY <1>1, <1>8 DEF TypeOK
    <3> QED
      BY <1>1, <2>1, <3>1, <3>2, <3>3 DEF TypeOK, Grows
  <2>3. pc'[c] = "report"
    BY <1>1, <1>8 DEF TypeOK, Goto
  <2>4. Registry!getIDIndex(d)' # -1
    BY <1>1, <1>8, AddedIsFound
  <2>5. Registry!getIDIndex(loaded[c])' # -1
    BY <1>2, <1>4, <2>4
  <2>6. Facts(c)'
    BY <1>2, <1>3, <2>3, <2>5, FactsReport
  <2>7. \A e \in Commands : Facts(e)'
    BY <1>1, <1>2, <2>1, <2>6, OthersKept DEF EInv
  <2>8. PoolKnown'
    BY <1>1, <1>8, PoolKept
  <2> QED
    BY <1>1, <2>1, <2>2, <2>7, <2>8 DEF EInv
<1>9. CASE Goto(c, "failed") /\ UNCHANGED <<registryVars, nodeVars>>
  <2>1. TypeOK'
    BY <1>1, <1>9, RegistryTypeKept DEF TypeOK, Send, Take, Goto, PCs, nodeVars
  <2>2. pc'[c] = "failed"
    BY <1>1, <1>9 DEF TypeOK, Goto
  <2>3. Facts(c)'
    BY <1>2, <1>3, <2>2, FactsBefore
  <2> QED
    BY <1>1, <1>2, <1>9, <2>1, <2>3, LocalStep
<1> QED
  BY <1>5, <1>7, <1>8, <1>9 DEF Send, Take

LEMMA MineStep ==
  ASSUME EInv, NEW a \in Accounts, Mine(a)
  PROVE  EInv'
<1>1. /\ TypeOK /\ Registry!TypeOK /\ FilesOwn /\ PoolKnown /\ ListKnown
      /\ FilesGrow /\ FilesOwn' /\ instant' = instant
      /\ file' = file /\ pc' = pc /\ loaded' = loaded /\ price' = price /\ printed' = printed
      /\ exists' = exists /\ nonce' = nonce /\ sent' = sent
  BY DEF EInv, TypeOK, Mine, commandVars, FilesGrow, FilesOwn
<1>2. /\ pool[a] \in Seq(Tx) /\ pool[a] # <<>>
      /\ pool' = [pool EXCEPT ![a] = Tail(@)]
      /\ confirmed' = [confirmed EXCEPT ![a] = @ + 1]
  BY <1>1 DEF TypeOK, Mine
<1>3. 1 \in 1 .. Len(pool[a]) /\ Head(pool[a]) = pool[a][1] /\ pool[a][1] \in Tx
  BY <1>2
<1>4. PICK d \in Commands : d = Head(pool[a]).id
  BY <1>3 DEF Tx
<1>5. Written(d) /\ Registry!addID(d)
  BY <1>1, <1>3, <1>4 DEF PoolKnown, Mine
<1>6. Grows /\ ListKnown'
  BY <1>1, <1>5, AddGrows, ListAdded
<1>7. Tail(pool[a]) \in Seq(Tx)
  BY <1>2
<1>8. TypeOK'
  BY <1>1, <1>2, <1>6, <1>7 DEF TypeOK, Grows
<1>9. \A c \in Commands : Facts(c)'
  <2>1. ASSUME NEW c \in Commands
        PROVE  Facts(c)'
    <3>1. Facts(c)
      BY DEF EInv
    <3>2. /\ pc'[c] = pc[c] /\ loaded'[c] = loaded[c] /\ price'[c] = price[c]
          /\ printed'[c] = printed[c]
      BY <1>1
    <3> QED
      BY <1>1, <1>6, <3>1, <3>2, FactsKept
  <2> QED
    BY <2>1, Zenon
<1>10. PoolKnown'
  <2>1. ASSUME NEW b \in Accounts, NEW j \in 1 .. Len(pool'[b])
        PROVE  Written(pool[b][j].id)'
    <3>1. PICK i \in 1 .. Len(pool[b]) : pool'[b][j] = pool[b][i]
      <4>1. CASE b # a
        BY <1>1, <1>2, <2>1, <4>1 DEF TypeOK
      <4>2. CASE b = a
        <5>1. pool'[b] = Tail(pool[a])
          BY <1>1, <1>2, <4>2 DEF TypeOK
        <5>2. j + 1 \in 1 .. Len(pool[a]) /\ Tail(pool[a])[j] = pool[a][j + 1]
          <6>1. PICK txs \in Seq(Tx) : txs = pool[a] /\ txs # <<>>
            BY <1>2
          <6>2. j \in 1 .. Len(Tail(txs))
            BY <2>1, <4>2, <5>1, <6>1
          <6>3. j + 1 \in 1 .. Len(txs) /\ Tail(txs)[j] = txs[j + 1]
            BY <6>1, <6>2
          <6> QED
            BY <6>1, <6>3
        <5> QED
          BY <4>2, <5>1, <5>2
      <4> QED
        BY <4>1, <4>2
    <3>2. Written(pool[b][i].id)
      BY <1>1 DEF PoolKnown
    <3> QED
      BY <1>1, <3>1, <3>2 DEF Written
  <2> QED
    BY <2>1 DEF PoolKnown
<1> QED
  BY <1>1, <1>6, <1>8, <1>9, <1>10 DEF EInv

-----------------------------------------------------------------------------
(* The inductive invariant, and what it gives.                             *)

LEMMA EInvInit ==
  ASSUME Init
  PROVE  EInv
<1>1. Registry!TypeOK
  BY DEF Init, Registry!Init, Registry!TypeOK
<1>2. TypeOK
  BY <1>1 DEF Init, TypeOK, PCs
<1>3. FilesOwn /\ PoolKnown /\ ListKnown
  BY DEF Init, Registry!Init, FilesOwn, PoolKnown, ListKnown
<1>4. ASSUME NEW c \in Commands
      PROVE  Facts(c)
  <2>1. loaded[c] = NoKey /\ pc[c] = "open" /\ printed[c] = -2
    BY DEF Init
  <2> QED
    BY <2>1 DEF Facts
<1> QED
  BY <1>2, <1>3, <1>4 DEF EInv

LEMMA EInvStep ==
  ASSUME EInv, [Next]_vars
  PROVE  EInv'
<1>1. CASE UNCHANGED vars
  <2>1. TypeOK /\ UNCHANGED <<registryVars, nodeVars, commandVars>> /\ Registry!TypeOK
    BY <1>1 DEF vars, EInv, TypeOK
  <2>2. TypeOK' /\ FilesOwn' /\ FilesGrow /\ Grows
    BY <2>1, RegistryTypeKept, StillGrows
    DEF EInv, TypeOK, FilesOwn, FilesGrow, nodeVars, commandVars
  <2>3. ASSUME NEW c \in Commands
        PROVE  Facts(c)'
    <3>1. Facts(c)
      BY DEF EInv
    <3>2. /\ pc'[c] = pc[c] /\ loaded'[c] = loaded[c] /\ price'[c] = price[c]
          /\ printed'[c] = printed[c] /\ instant' = instant
      BY <2>1 DEF commandVars, nodeVars
    <3> QED
      BY <2>1, <2>2, <3>1, <3>2, FactsKept
  <2>4. UNCHANGED registryVars /\ UNCHANGED pool
    BY <2>1 DEF nodeVars
  <2>5. ListKnown' /\ PoolKnown'
    BY <2>1, <2>2, <2>4, ListKept, PoolKept DEF EInv
  <2> QED
    BY <2>2, <2>3, <2>5 DEF EInv
<1>2. ASSUME NEW c \in Commands, Step(c) \/ Interrupt(c)
      PROVE  EInv'
  BY <1>2, OpenStep, WriteStep, LoadStep, ReadNonceStep, ReadPriceStep, SendStep,
     ReportStep, InterruptStep
  DEF Step
<1>3. ASSUME NEW a \in Accounts, Mine(a)
      PROVE  EInv'
  BY <1>3, MineStep
<1> QED
  BY <1>1, <1>2, <1>3 DEF Next

THEOREM Inductive == Spec => []EInv
<1>1. Init => EInv
  BY EInvInit
<1>2. EInv /\ [Next]_vars => EInv'
  BY EInvStep
<1> QED
  BY <1>1, <1>2, PTL DEF Spec

(* The variables of the create commands, of the contract and of the node   *)
(* have their types for any number of commands, files and accounts.        *)
THEOREM TypeCorrect == Spec => []TypeOK
<1>1. EInv => TypeOK
  BY DEF EInv
<1> QED
  BY <1>1, Inductive, PTL

(* Whatever is interrupted and whoever shares a file: an identity that is  *)
(* listed or waits to be mined has a passkey in its file, its own or one   *)
(* of another command that ran on that file (CreatePasskey, AddIDstoIdR).  *)
THEOREM KeyIsKept == Spec => []KeyKept
<1>1. ASSUME EInv, NEW d \in Commands, Listed(d) \/ Pending(d)
      PROVE  Written(d)
  <2>1. CASE Listed(d)
    <3>1. nextIndex \in Nat
      BY <1>1 DEF EInv, TypeOK, Registry!TypeOK
    <3>2. PICK k \in 0 .. nextIndex - 1 : Registry!getIDs(k) = d
      BY <2>1, <3>1, IndexRange DEF Listed
    <3> QED
      BY <1>1, <3>2 DEF EInv, ListKnown
  <2>2. CASE Pending(d)
    BY <1>1, <2>2 DEF EInv, PoolKnown, Pending
  <2> QED
    BY <1>1, <2>1, <2>2
<1>2. ASSUME EInv, NEW d \in Commands, Written(d)
      PROVE  file[path[d]] \in {e \in Commands : path[e] = path[d]}
  BY <1>2, PathAssumption DEF EInv, TypeOK, FilesOwn, Written
<1>3. EInv => KeyKept
  BY <1>1, <1>2 DEF KeyKept
<1> QED
  BY <1>3, Inductive, PTL

(* The index that the create command printed is, and remains, the one at   *)
(* which the contract finds the identity of the passkey it loaded,         *)
(* whatever the other commands add before and after.                       *)
THEOREM PrintedIndexIsRight == Spec => []PrintedIndexRight
<1>1. EInv => PrintedIndexRight
  BY DEF EInv, Facts, PrintedIndexRight
<1> QED
  BY <1>1, Inductive, PTL

(* On a node that mines instantly, a create command that ended printed an  *)
(* index of the list: its identity was added.                              *)
THEOREM AddedIsListed == Spec => []AddedMeansListed
<1>1. EInv => AddedMeansListed
  BY DEF EInv, Facts, AddedMeansListed
<1> QED
  BY <1>1, Inductive, PTL

-----------------------------------------------------------------------------
(* A command that is alone on its file sends its identity once.            *)

Alone(d) == \A e \in Commands \ {d} : path[e] # path[d]

InList(d, k)    == k \in 1 .. Len(idList) /\ idList[k].id = d
InPool(d, a, j) == a \in Accounts /\ j \in 1 .. Len(pool[a]) /\ pool[a][j].id = d

\* d's command has passed its one call of AddID.
Past(d) == pc[d] \in {"report", "done", "interrupted"}

Once(d) ==
  /\ \A k : InList(d, k) => Past(d)
  /\ \A a, j : InPool(d, a, j) => Past(d)
  /\ \A k, l : InList(d, k) /\ InList(d, l) => k = l
  /\ \A k, a, j : ~(InList(d, k) /\ InPool(d, a, j))
  /\ \A a, i, b, j : InPool(d, a, i) /\ InPool(d, b, j) => a = b /\ i = j

SentOnce == \A d \in Commands : Alone(d) => Once(d)

LEMMA PastKept ==
  ASSUME TypeOK, NEW c \in Commands, Step(c) \/ Interrupt(c), NEW d \in Commands, Past(d)
  PROVE  Past(d)'
<1>1. CASE d # c
  <2>1. pc'[d] = pc[d]
    BY <1>1 DEF TypeOK, Step, Open, Write, Load, ReadNonce, ReadPrice, Send, Report,
                Interrupt, Goto
  <2> QED
    BY <2>1 DEF Past
<1>2. CASE d = c
  <2>1. pc'[c] \in {"report", "done", "interrupted"}
    BY <1>2 DEF Past, TypeOK, Step, Open, Write, Load, ReadNonce, ReadPrice, Send, Report,
                Interrupt, Goto
  <2> QED
    BY <1>2, <2>1 DEF Past
<1> QED
  BY <1>1, <1>2

\* A step after which d is nowhere that it was not before.
LEMMA OnceKept ==
  ASSUME NEW d \in Commands, Once(d), Past(d) => Past(d)',
         \A k : InList(d, k)' => InList(d, k),
         \A a, j : InPool(d, a, j)' => InPool(d, a, j)
  PROVE  Once(d)'
BY DEF Once

LEMMA ListGains ==
  ASSUME Registry!TypeOK, NEW e \in Commands, Registry!addID(e),
         NEW d, NEW k, InList(d, k)'
  PROVE  InList(d, k) \/ (d = e /\ k = Len(idList) + 1)
<1> DEFINE x == [id |-> e, active |-> TRUE, owner |-> Deployer]
<1>1. x \in Registry!ID /\ x.id = e
  BY DEF Registry!ID
<1>2. idList' = Append(idList, x) /\ idList \in Seq(Registry!ID)
  BY DEF Registry!addID, Registry!TypeOK
<1> HIDE DEF x
<1>3. PICK list \in Seq(Registry!ID) : list = idList
  BY <1>2
<1>4. k \in 1 .. Len(Append(list, x)) /\ Append(list, x)[k].id = d
  BY <1>2, <1>3 DEF InList
<1>5. CASE k = Len(list) + 1
  BY <1>1, <1>3, <1>4, <1>5
<1>6. CASE k # Len(list) + 1
  <2>1. k \in 1 .. Len(list) /\ Append(list, x)[k] = list[k]
    BY <1>1, <1>4, <1>6
  <2> QED
    BY <1>3, <1>4, <2>1 DEF InList
<1> QED
  BY <1>5, <1>6

LEMMA SendOnce ==
  ASSUME EInv, SentOnce, NEW c \in Commands, Send(c), NEW d \in Commands, Alone(d)
  PROVE  Once(d)'
<1>1. TypeOK /\ Registry!TypeOK /\ Facts(c) /\ Once(d) /\ pc[c] = "send"
  BY DEF EInv, TypeOK, SentOnce, Send
<1>2. Past(d) => Past(d)'
  BY <1>1, PastKept DEF Step
<1>3. PICK e \in Commands : e = loaded[c] /\ path[e] = path[c]
  BY <1>1, SentKey DEF Facts
<1>4. AddIDTx(c) \in Tx /\ AddIDTx(c).id = e
  BY <1>1, <1>3, SentKey
<1>5. d = e => d = c
  BY <1>3 DEF Alone
<1>6. d = e => /\ \A k : ~InList(d, k)
               /\ \A a, j : ~InPool(d, a, j)
  BY <1>1, <1>5 DEF Once, Past
<1>7. CASE /\ Accepts(c) /\ ~instant /\ Goto(c, "report") /\ UNCHANGED <<registryVars, confirmed>>
           /\ pool' = [pool EXCEPT ![account[c]] = Pooled(@, Slot(c), AddIDTx(c))]
  <2>1. \A k : InList(d, k)' => InList(d, k)
    BY <1>7 DEF InList, registryVars
  <2>2. PICK s : s = Slot(c)
    OBVIOUS
  <2>3. PICK txs \in Seq(Tx) : txs = pool[account[c]]
    BY <1>1, AccountAssumption DEF TypeOK
  <2>4. PICK tx \in Tx : tx = AddIDTx(c) /\ tx.id = e
    BY <1>4
  <2>5. s = Len(txs) + 1 \/ s \in 1 .. Len(txs)
    BY <1>7, <2>2, <2>3 DEF Accepts
  <2>6. pool' = [pool EXCEPT ![account[c]] = Pooled(txs, s, tx)]
    BY <1>7, <2>2, <2>3, <2>4
  <2>7. ASSUME NEW a, NEW j, InPool(d, a, j)'
        PROVE  InPool(d, a, j) \/ (d = e /\ a = account[c] /\ j = s)
    <3>1. CASE a # account[c]
      <4>1. pool'[a] = pool[a]
        BY <1>1, <2>6, <2>7, <3>1 DEF TypeOK, InPool
      <4> QED
        BY <2>7, <4>1 DEF InPool
    <3>2. CASE a = account[c]
      <4>1. pool'[a] = Pooled(txs, s, tx) /\ a \in Accounts
        BY <1>1, <2>6, <2>7, <3>2 DEF TypeOK, InPool
      <4>2. j \in 1 .. Len(Pooled(txs, s, tx)) /\ Pooled(txs, s, tx)[j].id = d
        BY <2>7, <4>1 DEF InPool
      <4>3. (j = s /\ Pooled(txs, s, tx)[j] = tx)
            \/ (j \in 1 .. Len(txs) /\ Pooled(txs, s, tx)[j] = txs[j])
        <5>1. CASE s = Len(txs) + 1
          <6>1. Pooled(txs, s, tx) = Append(txs, tx)
            BY <5>1 DEF Pooled
          <6> QED
            BY <4>2, <5>1, <6>1
        <5>2. CASE s # Len(txs) + 1
          <6>1. Pooled(txs, s, tx) = [txs EXCEPT ![s] = tx]
            BY <5>2 DEF Pooled
          <6> QED
            BY <2>5, <4>2, <5>2, <6>1
        <5> QED
          BY <5>1, <5>2
      <4> QED
        BY <2>3, <2>4, <3>2, <4>1, <4>2, <4>3 DEF InPool
    <3> QED
      BY <3>1, <3>2
  <2>8. CASE d = e
    <3>1. Past(d)'
      BY <1>1, <1>5, <1>7, <2>8 DEF Past, Goto, TypeOK
    <3>2. \A k : ~InList(d, k)'
      BY <1>6, <2>1, <2>8
    <3>3. \A a, j : InPool(d, a, j)' => a = account[c] /\ j = s
      BY <1>6, <2>7, <2>8
    <3> QED
      BY <3>1, <3>2, <3>3 DEF Once
  <2>9. CASE d # e
    <3>1. \A a, j : InPool(d, a, j)' => InPool(d, a, j)
      BY <2>7, <2>9
    <3> QED
      BY <1>1, <1>2, <2>1, <3>1, OnceKept
  <2> QED
    BY <2>8, <2>9
<1>8. CASE Registry!addID(e) /\ Goto(c, "report") /\ UNCHANGED pool
  <2>1. \A a, j : InPool(d, a, j)' => InPool(d, a, j)
    BY <1>8 DEF InPool
  <2>2. \A k : InList(d, k)' => InList(d, k) \/ (d = e /\ k = Len(idList) + 1)
    BY <1>1, <1>8, ListGains
  <2>3. CASE d = e
    <3>1. Past(d)'
      BY <1>1, <1>5, <1>8, <2>3 DEF Past, Goto, TypeOK
    <3>2. \A a, j : ~InPool(d, a, j)'
      BY <1>6, <2>1, <2>3
    <3>3. \A k : InList(d, k)' => k = Len(idList) + 1
      BY <1>6, <2>2, <2>3
    <3> QED
      BY <3>1, <3>2, <3>3 DEF Once
  <2>4. CASE d # e
    <3>1. \A k : InList(d, k)' => InList(d, k)
      BY <2>2, <2>4
    <3> QED
      BY <1>1, <1>2, <2>1, <3>1, OnceKept
  <2> QED
    BY <2>3, <2>4
<1>9. CASE UNCHANGED <<registryVars, nodeVars>>
  <2>1. /\ \A k : InList(d, k)' => InList(d, k)
        /\ \A a, j : InPool(d, a, j)' => InPool(d, a, j)
    BY <1>9 DEF InList, InPool, registryVars, nodeVars
  <2> QED
    BY <1>1, <1>2, <2>1, OnceKept
<1> QED
  BY <1>4, <1>7, <1>8, <1>9 DEF Send, Take

\* A transaction that is mined moves from the pool to the list.
LEMMA MineOnce ==
  ASSUME EInv, SentOnce, NEW a \in Accounts, Mine(a), NEW d \in Commands, Alone(d)
  PROVE  Once(d)'
<1>1. TypeOK /\ Registry!TypeOK /\ Once(d)
  BY DEF EInv, TypeOK, SentOnce
<1>2. PICK txs \in Seq(Tx) : txs = pool[a] /\ txs # <<>>
  BY <1>1 DEF TypeOK, Mine
<1>3. Head(txs) \in Tx /\ Head(txs) = txs[1] /\ 1 \in 1 .. Len(txs)
  BY <1>2
<1>4. PICK e \in Commands : e = Head(txs).id /\ e = txs[1].id
  BY <1>3 DEF Tx
<1>5. Registry!addID(e) /\ pool' = [pool EXCEPT ![a] = Tail(txs)]
  BY <1>2, <1>4 DEF Mine
<1>6. Past(d) => Past(d)'
  BY DEF Mine, commandVars, Past
<1>7. \A k : InList(d, k)' => InList(d, k) \/ (d = e /\ k = Len(idList) + 1)
  BY <1>1, <1>5, ListGains
<1>8. \A b, j : InPool(d, b, j)' =>
        (b # a /\ InPool(d, b, j)) \/ (b = a /\ j \in Nat \ {0} /\ InPool(d, a, j + 1))
  <2>1. ASSUME NEW b, NEW j, InPool(d, b, j)'
        PROVE  (b # a /\ InPool(d, b, j))
               \/ (b = a /\ j \in Nat \ {0} /\ InPool(d, a, j + 1))
    <3>1. CASE b # a
      <4>1. pool'[b] = pool[b]
        BY <1>1, <1>5, <2>1, <3>1 DEF TypeOK, InPool
      <4> QED
        BY <2>1, <3>1, <4>1 DEF InPool
    <3>2. CASE b = a
      <4>1. j \in 1 .. Len(Tail(txs)) /\ Tail(txs)[j].id = d
        BY <1>1, <1>5, <2>1, <3>2 DEF TypeOK, InPool
      <4>2. /\ j \in Nat \ {0} /\ j + 1 \in 1 .. Len(txs)
            /\ Tail(txs)[j] = txs[j + 1]
        BY <1>2, <4>1
      <4> QED
        BY <1>2, <3>2, <4>1, <4>2 DEF InPool
    <3> QED
      BY <3>1, <3>2
  <2> QED
    BY <2>1
<1>9. d = e => InPool(d, a, 1)
  BY <1>2, <1>3, <1>4 DEF InPool
<1>10. \A b, j : InPool(d, b, j)' => \E i : InPool(d, b, i)
  BY <1>8
<1>11. (\E k : InList(d, k)' \/ \E b, j : InPool(d, b, j)') => Past(d)'
  BY <1>1, <1>6, <1>7, <1>9, <1>10 DEF Once
<1>12. CASE d = e
  <2>1. /\ \A k : ~InList(d, k)
        /\ \A b, j : InPool(d, b, j) => b = a /\ j = 1
    BY <1>1, <1>9, <1>12 DEF Once
  <2>2. \A b, j : ~InPool(d, b, j)'
    <3>1. \A j \in Nat \ {0} : j + 1 # 1
      OBVIOUS
    <3> QED
      BY <1>8, <2>1, <3>1
  <2>3. \A k : InList(d, k)' => k = Len(idList) + 1
    BY <1>7, <2>1
  <2> QED
    BY <1>11, <2>2, <2>3 DEF Once
<1>13. CASE d # e
  <2>1. \A k : InList(d, k)' => InList(d, k)
    BY <1>7, <1>13
  <2>2. \A k, b, j : ~(InList(d, k)' /\ InPool(d, b, j)')
    BY <1>1, <1>10, <2>1 DEF Once
  <2>3. ASSUME NEW b, NEW i, NEW c, NEW j, InPool(d, b, i)', InPool(d, c, j)'
        PROVE  b = c /\ i = j
    <3>1. CASE b # a \/ c # a
      <4>1. b # a /\ c # a /\ InPool(d, b, i) /\ InPool(d, c, j)
        BY <1>1, <1>8, <2>3, <3>1 DEF Once
      <4> QED
        BY <1>1, <4>1 DEF Once
    <3>2. CASE b = a /\ c = a
      <4>1. /\ i \in Nat /\ j \in Nat
            /\ InPool(d, a, i + 1) /\ InPool(d, a, j + 1)
        BY <1>8, <2>3, <3>2
      <4>2. i + 1 = j + 1
        BY <1>1, <4>1 DEF Once
      <4> QED
        BY <3>2, <4>1, <4>2
    <3> QED
      BY <3>1, <3>2
  <2>4. \A k, l : InList(d, k)' /\ InList(d, l)' => k = l
    BY <1>1, <2>1 DEF Once
  <2> QED
    BY <1>11, <2>2, <2>3, <2>4 DEF Once
<1> QED
  BY <1>12, <1>13

LEMMA SentOnceStep ==
  ASSUME EInv, SentOnce, [Next]_vars, NEW d \in Commands, Alone(d)
  PROVE  Once(d)'
<1>1. TypeOK /\ Once(d)
  BY DEF EInv, SentOnce
<1>2. CASE UNCHANGED vars
  <2>1. /\ Past(d) => Past(d)'
        /\ \A k : InList(d, k)' => InList(d, k)
        /\ \A a, j : InPool(d, a, j)' => InPool(d, a, j)
    BY <1>2 DEF vars, registryVars, commandVars, nodeVars, Past, InList, InPool
  <2> QED
    BY <1>1, <2>1, OnceKept
<1>3. ASSUME NEW c \in Commands, Step(c) \/ Interrupt(c), ~Send(c)
      PROVE  Once(d)'
  <2>1. UNCHANGED registryVars /\ UNCHANGED pool
    BY <1>3 DEF Step, Open, Write, Load, ReadNonce, ReadPrice, Report, Interrupt, nodeVars
  <2>2. /\ \A k : InList(d, k)' => InList(d, k)
        /\ \A a, j : InPool(d, a, j)' => InPool(d, a, j)
    BY <2>1 DEF registryVars, InList, InPool
  <2>3. Past(d) => Past(d)'
    BY <1>1, <1>3, PastKept
  <2> QED
    BY <1>1, <2>2, <2>3, OnceKept
<1>4. ASSUME NEW c \in Commands, Send(c)
      PROVE  Once(d)'
  BY <1>4, SendOnce
<1>5. ASSUME NEW a \in Accounts, Mine(a)
      PROVE  Once(d)'
  BY <1>5, MineOnce
<1> QED
  BY <1>2, <1>3, <1>4, <1>5 DEF Next

(* No identity is listed twice unless its command shared its passkey file: *)
(* interruptions, replaced transactions and blocks in any order included.  *)
THEOREM EachListedOnce == Spec => []ListedOnce
<1>1. Init => SentOnce
  <2>1. ASSUME Init
        PROVE  /\ \A d, k : ~InList(d, k)
               /\ \A d, a, j : ~InPool(d, a, j)
    BY <2>1 DEF Init, Registry!Init, InList, InPool
  <2> QED
    BY <2>1 DEF SentOnce, Once
<1>2. EInv /\ SentOnce /\ [Next]_vars => SentOnce'
  <2>1. ASSUME EInv, SentOnce, [Next]_vars, NEW d \in Commands, Alone(d)
        PROVE  Once(d)'
    BY <2>1, SentOnceStep
  <2> QED
    BY <2>1 DEF SentOnce, Alone
<1>3. EInv /\ SentOnce => ListedOnce
  <2>1. ASSUME EInv, SentOnce, NEW k \in 1 .. Len(idList), NEW l \in 1 .. Len(idList),
               k # l, idList[k].id = idList[l].id
        PROVE  \E e \in Commands \ {idList[k].id} : path[e] = path[idList[k].id]
    <3>1. idList[k] \in Registry!ID
      BY <2>1 DEF EInv, TypeOK, Registry!TypeOK
    <3>2. PICK d \in Commands : d = idList[k].id
      BY <3>1 DEF Registry!ID
    <3>3. InList(d, k) /\ InList(d, l)
      BY <2>1, <3>2 DEF InList
    <3>4. ~Alone(d)
      BY <2>1, <3>3 DEF SentOnce, Once
    <3> QED
      BY <3>2, <3>4 DEF Alone
  <2> QED
    BY <2>1 DEF ListedOnce
<1> QED
  BY <1>1, <1>2, <1>3, Inductive, PTL DEF Spec

-----------------------------------------------------------------------------
(* What the node took is listed, waits in its place, or was outbid.        *)

Kept(c) == Listed(loaded[c]) \/ Waits(c) \/ Outbid(c)

SentInv ==
  /\ \A c \in Commands : pc[c] \in {"report", "done"} => c \in sent
  /\ \A c \in sent : Past(c) /\ Kept(c)
  /\ instant => \A a \in Accounts : pool[a] = <<>>

\* The arguments of a transaction are not changed any more.
Same(c) == loaded'[c] = loaded[c] /\ nonce'[c] = nonce[c] /\ price'[c] = price[c]

LEMMA PastIsSame ==
  ASSUME TypeOK, NEW d \in Commands, Step(d) \/ Interrupt(d), NEW c \in Commands, Past(c)
  PROVE  Same(c)
<1>1. CASE c = d
  <2>1. loaded' = loaded /\ nonce' = nonce /\ price' = price
    BY <1>1 DEF Past, Step, Open, Write, Load, ReadNonce, ReadPrice, Send, Report, Interrupt
  <2> QED
    BY <2>1 DEF Same
<1>2. CASE c # d
  BY <1>2 DEF TypeOK, Same, Step, Open, Write, Load, ReadNonce, ReadPrice, Send, Report,
              Interrupt
<1> QED
  BY <1>1, <1>2

LEMMA ListedKept ==
  ASSUME Grows, NEW c \in Commands, Same(c), Listed(loaded[c])
  PROVE  Listed(loaded[c])'
<1>1. PICK d : d = loaded[c]
  OBVIOUS
<1>2. Registry!getIDIndex(d) # -1
  BY <1>1 DEF Listed
<1>3. Registry!getIDIndex(d)' # -1
  BY <1>2, IndexKept
<1>4. loaded'[c] = d
  BY <1>1 DEF Same
<1> QED
  BY <1>3, <1>4 DEF Listed

LEMMA OutbidKept ==
  ASSUME TypeOK, sent \subseteq sent', \A e \in sent : Same(e),
         NEW c \in Commands, Same(c), Outbid(c)
  PROVE  Outbid(c)'
<1>1. PICK e \in sent : account[e] = account[c] /\ nonce[e] = nonce[c] /\ price[e] > price[c]
  BY DEF Outbid
<1>2. e \in sent' /\ Same(e)
  BY <1>1
<1> QED
  BY <1>1, <1>2 DEF Outbid, Same

\* A step that does not reach the node.
LEMMA WaitsKept ==
  ASSUME NEW c \in Commands, Same(c), UNCHANGED <<confirmed, pool>>, Waits(c)
  PROVE  Waits(c)'
BY DEF Waits, Slot, AddIDTx, Same

LEMMA LocalKept ==
  ASSUME EInv, SentInv, NEW d \in Commands, Step(d) \/ Interrupt(d),
         UNCHANGED <<registryVars, nodeVars>>
  PROVE  SentInv'
<1>1. TypeOK /\ Registry!TypeOK /\ sent \subseteq Commands
  BY DEF EInv, TypeOK
<1>2. UNCHANGED registryVars /\ sent' = sent /\ instant' = instant /\ UNCHANGED <<confirmed, pool>>
  BY DEF nodeVars
<1>3. Grows
  BY <1>1, <1>2, StillGrows
<1>4. \A c \in sent : Past(c)' /\ Same(c)
  BY <1>1, PastKept, PastIsSame DEF SentInv
<1>5. ASSUME NEW c \in sent
      PROVE  Kept(c)'
  <2>1. c \in Commands /\ Same(c) /\ Kept(c)
    BY <1>1, <1>4, <1>5 DEF SentInv
  <2>2. Listed(loaded[c]) => Listed(loaded[c])'
    BY <1>3, <2>1, ListedKept
  <2>3. Waits(c) => Waits(c)'
    BY <1>2, <2>1, WaitsKept
  <2>4. Outbid(c) => Outbid(c)'
    BY <1>1, <1>2, <1>4, <2>1, OutbidKept
  <2> QED
    BY <2>1, <2>2, <2>3, <2>4 DEF Kept
<1>6. ASSUME NEW c \in Commands, pc'[c] \in {"report", "done"}
      PROVE  c \in sent
  <2>1. pc[c] \in {"report", "done"} \/ sent' = sent \cup {c}
    BY <1>1, <1>6 DEF TypeOK, Step, Open, Write, Load, ReadNonce, ReadPrice, Send, Take,
                      Report, Interrupt, Goto
  <2> QED
    BY <1>2, <1>6, <2>1 DEF SentInv
<1> QED
  BY <1>2, <1>4, <1>5, <1>6 DEF SentInv

LEMMA PooledPlaces ==
  ASSUME NEW txs \in Seq(Tx), NEW k, k = Len(txs) + 1 \/ k \in 1 .. Len(txs), NEW tx \in Tx
  PROVE  /\ k \in 1 .. Len(Pooled(txs, k, tx)) /\ Pooled(txs, k, tx)[k] = tx
         /\ \A j \in 1 .. Len(txs) : j # k =>
              j \in 1 .. Len(Pooled(txs, k, tx)) /\ Pooled(txs, k, tx)[j] = txs[j]
<1>1. CASE k = Len(txs) + 1
  <2>1. Pooled(txs, k, tx) = Append(txs, tx)
    BY <1>1 DEF Pooled
  <2> QED
    BY <1>1, <2>1
<1>2. CASE k # Len(txs) + 1
  <2>1. Pooled(txs, k, tx) = [txs EXCEPT ![k] = tx] /\ k \in 1 .. Len(txs)
    BY <1>2 DEF Pooled
  <2> QED
    BY <2>1
<1> QED
  BY <1>1, <1>2

\* The node takes the transaction of d into its pool: one that waits in that
\* place is outbid.
LEMMA PoolTakes ==
  ASSUME EInv, SentInv, NEW d \in Commands, Send(d), Take(d), ~instant,
         NEW c \in sent, Same(c), c # d, Waits(c)
  PROVE  Waits(c)' \/ Outbid(c)'
<1>1. TypeOK /\ c \in Commands /\ account[c] \in Accounts /\ account[d] \in Accounts
  BY AccountAssumption DEF EInv, TypeOK
<1>2. PICK txs \in Seq(Tx) : txs = pool[account[d]]
  BY <1>1 DEF TypeOK
<1>3. AddIDTx(d) \in Tx
  BY SentKey DEF Send
<1>4. confirmed' = confirmed /\ sent' = sent \cup {d} /\ price' = price /\ nonce' = nonce
      /\ pool' = [pool EXCEPT ![account[d]] = Pooled(txs, Slot(d), AddIDTx(d))]
      /\ Accepts(d)
  BY <1>2 DEF Take, Send
<1>5. CASE account[c] # account[d]
  <2>1. pool'[account[c]] = pool[account[c]]
    BY <1>1, <1>4, <1>5 DEF TypeOK
  <2> QED
    BY <1>4, <2>1 DEF Waits, Slot, AddIDTx, Same
<1>6. CASE account[c] = account[d] /\ Slot(c) = Slot(d)
  <2>1. /\ nonce[c] \in Nat /\ nonce[d] \in Nat /\ confirmed[account[d]] \in Nat
    BY <1>1 DEF TypeOK
  <2>2. nonce[c] = nonce[d]
    BY <1>6, <2>1 DEF Slot
  <2>3. Slot(d) \in 1 .. Len(txs) /\ txs[Slot(d)].price = price[c]
    BY <1>2, <1>6 DEF Waits, AddIDTx
  <2>4. price[d] > price[c]
    BY <1>2, <1>4, <2>3 DEF Accepts
  <2> QED
    BY <1>4, <1>6, <2>2, <2>4 DEF Outbid
<1>7. CASE account[c] = account[d] /\ Slot(c) # Slot(d)
  <2>1. PICK k : k = Slot(d)
    OBVIOUS
  <2>2. PICK j : j = Slot(c)
    OBVIOUS
  <2>3. PICK tx \in Tx : tx = AddIDTx(d)
    BY <1>3
  <2>4. k = Len(txs) + 1 \/ k \in 1 .. Len(txs)
    BY <1>2, <1>4, <2>1 DEF Accepts
  <2>5. j \in 1 .. Len(txs) /\ j # k /\ txs[j] = AddIDTx(c)
    BY <1>2, <1>7, <2>1, <2>2 DEF Waits
  <2>6. j \in 1 .. Len(Pooled(txs, k, tx)) /\ Pooled(txs, k, tx)[j] = txs[j]
    BY <2>4, <2>5, PooledPlaces
  <2>7. pool'[account[c]] = Pooled(txs, k, tx)
    BY <1>1, <1>4, <1>7, <2>1, <2>3 DEF TypeOK
  <2>8. Slot(c)' = j /\ AddIDTx(c)' = AddIDTx(c)
    BY <1>4, <2>2 DEF Slot, AddIDTx, Same
  <2> QED
    BY <2>5, <2>6, <2>7, <2>8 DEF Waits
<1> QED
  BY <1>5, <1>6, <1>7

LEMMA TakeKept ==
  ASSUME EInv, SentInv, NEW d \in Commands, Send(d), Take(d)
  PROVE  SentInv'
<1>1. /\ TypeOK /\ Registry!TypeOK /\ sent \subseteq Commands /\ pc[d] = "send"
      /\ sent' = sent \cup {d} /\ instant' = instant /\ Same(d)
  BY DEF EInv, TypeOK, Send, Take, Same
<1>2. pc'[d] = "report" /\ \A c \in Commands \ {d} : pc'[c] = pc[c]
  BY <1>1 DEF TypeOK, Send, Take, Goto
<1>3. /\ \A c \in sent : Past(c)' /\ Same(c)
      /\ d \notin sent
  BY <1>1, PastKept, PastIsSame DEF SentInv, Step, Past
<1>4. account[d] \in Accounts /\ loaded[d] \in Commands /\ AddIDTx(d) \in Tx
      /\ AddIDTx(d).id = loaded[d]
  BY <1>1, AccountAssumption, SentKey
<1>5. PICK e \in Commands : e = loaded[d]
  BY <1>4
<1>6. Grows
  <2>1. CASE instant
    <3>1. Registry!addID(e)
      BY <1>4, <1>5, <2>1 DEF Take
    <3> QED
      BY <1>1, <3>1, AddGrows
  <2>2. CASE ~instant
    BY <1>1, <2>2, StillGrows DEF Take
  <2> QED
    BY <2>1, <2>2
<1>7. ASSUME NEW c \in sent
      PROVE  Kept(c)'
  <2>1. c \in Commands /\ Same(c) /\ Kept(c) /\ c # d
    BY <1>1, <1>3, <1>7 DEF SentInv
  <2>2. Listed(loaded[c]) => Listed(loaded[c])'
    BY <1>6, <2>1, ListedKept
  <2>3. Outbid(c) => Outbid(c)'
    BY <1>1, <1>3, <2>1, OutbidKept
  <2>4. Waits(c) => Waits(c)' \/ Outbid(c)'
    <3>1. CASE ~instant
      BY <2>1, <3>1, PoolTakes
    <3>2. CASE instant
      <4>1. pool[account[c]] = <<>>
        BY <2>1, <3>2, AccountAssumption DEF SentInv
      <4> QED
        BY <4>1 DEF Waits
    <3> QED
      BY <3>1, <3>2
  <2> QED
    BY <2>1, <2>2, <2>3, <2>4 DEF Kept
<1>8. Kept(d)'
  <2>1. CASE instant
    <3>1. Registry!addID(e)
      BY <1>4, <1>5, <2>1 DEF Take
    <3>2. Registry!getIDIndex(e)' # -1
      BY <1>1, <3>1, AddedIsFound
    <3>3. loaded'[d] = e
      BY <1>1, <1>5 DEF Same
    <3> QED
      BY <3>2, <3>3 DEF Kept, Listed
  <2>2. CASE ~instant
    <3>1. PICK txs \in Seq(Tx) : txs = pool[account[d]]
      BY <1>1, <1>4 DEF TypeOK
    <3>2. PICK tx \in Tx : tx = AddIDTx(d)
      BY <1>4
    <3>3. PICK k : k = Slot(d)
      OBVIOUS
    <3>4. k = Len(txs) + 1 \/ k \in 1 .. Len(txs)
      BY <3>1, <3>3 DEF Take, Accepts
    <3>5. k \in 1 .. Len(Pooled(txs, k, tx)) /\ Pooled(txs, k, tx)[k] = tx
      BY <3>4, PooledPlaces
    <3>6. pool'[account[d]] = Pooled(txs, k, tx) /\ confirmed' = confirmed
      BY <1>1, <1>4, <2>2, <3>1, <3>2, <3>3 DEF Take, TypeOK
    <3>7. Slot(d)' = k /\ AddIDTx(d)' = tx
      BY <1>1, <3>2, <3>3, <3>6 DEF Slot, AddIDTx, Same
    <3> QED
      BY <3>5, <3>6, <3>7 DEF Kept, Waits
  <2> QED
    BY <2>1, <2>2
<1>9. instant' => \A a \in Accounts : pool'[a] = <<>>
  BY <1>1 DEF SentInv, Take
<1>10. Past(d)'
  BY <1>2 DEF Past
<1>11. ASSUME NEW c \in Commands, pc'[c] \in {"report", "done"}
       PROVE  c \in sent'
  BY <1>1, <1>2, <1>11 DEF SentInv
<1> QED
  BY <1>1, <1>3, <1>7, <1>8, <1>9, <1>10, <1>11 DEF SentInv

\* The first transaction is listed, the others come one place nearer.
LEMMA PoolGives ==
  ASSUME EInv, NEW a \in Accounts, Mine(a), NEW c \in sent, Same(c), Waits(c)
  PROVE  Waits(c)' \/ Listed(loaded[c])'
<1>1. TypeOK /\ Registry!TypeOK /\ c \in Commands /\ account[c] \in Accounts
  BY AccountAssumption DEF EInv, TypeOK
<1>2. PICK txs \in Seq(Tx) : txs = pool[a] /\ txs # <<>>
  BY <1>1 DEF TypeOK, Mine
<1>3. pool' = [pool EXCEPT ![a] = Tail(txs)] /\ confirmed' = [confirmed EXCEPT ![a] = @ + 1]
      /\ AddIDTx(c)' = AddIDTx(c)
  BY <1>2 DEF Mine, AddIDTx, Same
<1>4. CASE account[c] # a
  <2>1. pool'[account[c]] = pool[account[c]] /\ confirmed'[account[c]] = confirmed[account[c]]
    BY <1>1, <1>3, <1>4 DEF TypeOK
  <2> QED
    BY <1>3, <2>1 DEF Waits, Slot, Same
<1>5. CASE account[c] = a /\ Slot(c) = 1
  <2>1. txs[1] = AddIDTx(c) /\ Head(txs) = txs[1] /\ txs[1] \in Tx
    BY <1>2, <1>5 DEF Waits
  <2>2. PICK e \in Commands : e = Head(txs).id /\ e = loaded[c]
    BY <2>1 DEF Tx, AddIDTx
  <2>3. Registry!addID(e)
    BY <1>2, <2>2 DEF Mine
  <2>4. Registry!getIDIndex(e)' # -1
    BY <1>1, <2>3, AddedIsFound
  <2>5. loaded'[c] = e
    BY <2>2 DEF Same
  <2> QED
    BY <2>4, <2>5 DEF Listed
<1>6. CASE account[c] = a /\ Slot(c) # 1
  <2>1. PICK j : j = Slot(c)
    OBVIOUS
  <2>2. nonce[c] \in Nat /\ confirmed[a] \in Nat
    BY <1>1 DEF TypeOK
  <2>3. j \in 2 .. Len(txs) /\ txs[j] = AddIDTx(c)
    BY <1>2, <1>6, <2>1 DEF Waits
  <2>4. Slot(c)' = j - 1
    BY <1>1, <1>3, <1>6, <2>1, <2>2 DEF Slot, Same, TypeOK
  <2>5. j - 1 \in 1 .. Len(Tail(txs)) /\ Tail(txs)[j - 1] = txs[j]
    BY <1>2, <2>3
  <2>6. pool'[account[c]] = Tail(txs)
    BY <1>1, <1>3, <1>6 DEF TypeOK
  <2> QED
    BY <1>3, <2>3, <2>4, <2>5, <2>6 DEF Waits
<1> QED
  BY <1>4, <1>5, <1>6

LEMMA MineKept ==
  ASSUME EInv, SentInv, NEW a \in Accounts, Mine(a)
  PROVE  SentInv'
<1>1. /\ TypeOK /\ Registry!TypeOK /\ sent \subseteq Commands /\ sent' = sent
      /\ instant' = instant /\ pc' = pc /\ \A c \in Commands : Same(c)
  BY DEF EInv, TypeOK, Mine, commandVars, Same
<1>2. Grows
  <2>1. PICK txs \in Seq(Tx) : txs = pool[a] /\ txs # <<>>
    BY <1>1 DEF TypeOK, Mine
  <2>2. Head(txs) \in Tx
    BY <2>1
  <2>3. PICK d \in Commands : d = Head(txs).id
    BY <2>2 DEF Tx
  <2>4. Registry!addID(d)
    BY <2>1, <2>3 DEF Mine
  <2> QED
    BY <1>1, <2>4, AddGrows
<1>3. ~instant
  BY DEF SentInv, Mine
<1>4. ASSUME NEW c \in sent
      PROVE  Kept(c)'
  <2>1. c \in Commands /\ Same(c) /\ Kept(c)
    BY <1>1, <1>4 DEF SentInv
  <2>2. Listed(loaded[c]) => Listed(loaded[c])'
    BY <1>2, <2>1, ListedKept
  <2>3. Outbid(c) => Outbid(c)'
    BY <1>1, <2>1, OutbidKept
  <2>4. Waits(c) => Waits(c)' \/ Listed(loaded[c])'
    BY <2>1, PoolGives
  <2> QED
    BY <2>1, <2>2, <2>3, <2>4 DEF Kept
<1> QED
  BY <1>1, <1>3, <1>4 DEF SentInv, Past

(* No transaction that the node took is lost, when commands of an account  *)
(* got the same nonce, were interrupted after it was sent, or looked the   *)
(* index up before its block (AddIDstoIdR): its identity is listed or      *)
(* waits in its place, unless it was outbid.  For any number of commands   *)
(* and accounts and all prices.                                            *)
THEOREM NoneIsLost == Spec => []SentIsKept
<1>1. Init => SentInv
  BY DEF Init, SentInv
<1>2. EInv /\ SentInv /\ [Next]_vars => SentInv'
  <2> SUFFICES ASSUME EInv, SentInv, [Next]_vars
               PROVE  SentInv'
    OBVIOUS
  <2>1. CASE UNCHANGED vars
    <3>1. Registry!TypeOK /\ UNCHANGED registryVars
      BY <2>1 DEF EInv, TypeOK, vars
    <3>2. TypeOK /\ Grows /\ sent' = sent /\ instant' = instant /\ pc' = pc
          /\ UNCHANGED <<confirmed, pool>> /\ \A c \in Commands : Same(c)
      BY <2>1, <3>1, StillGrows DEF EInv, vars, nodeVars, commandVars, Same
    <3>3. ASSUME NEW c \in sent
          PROVE  Kept(c)'
      <4>1. c \in Commands /\ Same(c) /\ Kept(c) /\ \A e \in sent : Same(e)
        BY <3>2 DEF SentInv, TypeOK
      <4>2. Listed(loaded[c]) => Listed(loaded[c])'
        BY <3>2, <4>1, ListedKept
      <4>3. Outbid(c) => Outbid(c)'
        BY <3>2, <4>1, OutbidKept
      <4>4. Waits(c) => Waits(c)'
        BY <3>2, <4>1, WaitsKept
      <4> QED
        BY <4>1, <4>2, <4>3, <4>4 DEF Kept
    <3> QED
      BY <3>2, <3>3 DEF SentInv, Past
  <2>2. ASSUME NEW c \in Commands, Step(c) \/ Interrupt(c)
        PROVE  SentInv'
    <3>1. CASE Send(c) /\ Take(c)
      BY <3>1, TakeKept
    <3>2. CASE ~(Send(c) /\ Take(c))
      <4>1. UNCHANGED <<registryVars, nodeVars>>
        BY <2>2, <3>2 DEF Step, Open, Write, Load, ReadNonce, ReadPrice, Send, Report, Interrupt
      <4> QED
        BY <2>2, <4>1, LocalKept
    <3> QED
      BY <3>1, <3>2
  <2>3. ASSUME NEW a \in Accounts, Mine(a)
        PROVE  SentInv'
    BY <2>3, MineKept
  <2> QED
    BY <2>1, <2>2, <2>3 DEF Next
<1>3. SentInv => SentIsKept
  BY DEF SentInv, SentIsKept, Kept
<1> QED
  BY <1>1, <1>2, <1>3, Inductive, PTL DEF Spec
=============================================================================
