---------------------------- MODULE ServerProofs ----------------------------
(***************************************************************************)
(* Proofs about the memory of the service, for every set of users and any  *)
(* number of forms and restarts.                                           *)
(***************************************************************************)
EXTENDS Server, SequenceTheorems, TLAPS

\* The number of entries that an array has room for.
CapAt(k) == IF k = 0 THEN 0 ELSE Len(arrays[k])

\* What an append works on is an array, with room once it has grown.
HasRoom(u) ==
  /\ snap[u].array \in 0 .. Len(arrays)
  /\ snap[u].len \in Nat
  /\ snap[u].len <= CapAt(snap[u].array)
  /\ pc[u] = "publish" => snap[u].len < CapAt(snap[u].array)

AppendOK == \A u \in Appending : HasRoom(u)

HeaderOK ==
  /\ header.array \in 0 .. Len(arrays)
  /\ header.len \in 0 .. CapAt(header.array)

TInv ==
  /\ arrays \in Seq(Seq(Entry))
  /\ header \in Header
  /\ HeaderOK
  /\ AppendOK
  /\ forms  \in 0 .. MaxForms
  /\ exits  \in 0 .. MaxExits
  /\ pc     \in [Users -> PCs]
  /\ chal   \in [Users -> Challenge \cup {NoChallenge}]
  /\ snap   \in [Users -> Header]
  /\ at     \in [Users -> Nat]
  /\ result \in [Users -> Results]
  /\ verified \subseteq Users
  /\ told     \subseteq Users

\* Every public key in memory, of any array ever published or not, was
\* verified, and so was that of a handler past the verification.
KeysVerified ==
  \A k \in 1 .. Len(arrays) : \A j \in 1 .. Len(arrays[k]) :
    arrays[k][j].spk \in verified \cup {None}

MemoryOK ==
  /\ arrays \in Seq(Seq(Entry))
  /\ header \in Header
  /\ HeaderOK
  /\ KeysVerified

OrderlyOK == orderly \in BOOLEAN

IInv == TInv /\ KeysVerified /\ Updating \subseteq verified /\ LoginOnlyIfVerified

-----------------------------------------------------------------------------
(* Arrays.                                                                 *)

\* No array disappears or changes its length.
ArraysKept ==
  /\ Len(arrays) <= Len(arrays')
  /\ \A k \in 1 .. Len(arrays) : Len(arrays'[k]) = Len(arrays[k])

LEMMA CapType ==
  ASSUME TInv, NEW k \in 0 .. Len(arrays)
  PROVE  CapAt(k) \in Nat /\ (k # 0 => arrays[k] \in Seq(Entry))
BY DEF TInv, CapAt

LEMMA CapIsCapAt ==
  ASSUME NEW h PROVE Cap(h) = CapAt(h.array)
BY DEF Cap, CapAt

LEMMA ZeroType == ZeroEntry \in Entry /\ ZeroEntry.spk = None
BY DEF ZeroEntry, Entry

(* ExceptSeq, also for an index outside of the sequence.                   *)
LEMMA WriteAt ==
  ASSUME NEW S, NEW q \in Seq(S), NEW j \in Nat, NEW e \in S
  PROVE  /\ [q EXCEPT ![j] = e] \in Seq(S)
         /\ Len([q EXCEPT ![j] = e]) = Len(q)
         /\ \A l \in 1 .. Len(q) : [q EXCEPT ![j] = e][l] = IF l = j THEN e ELSE q[l]
<1>1. CASE j \in 1 .. Len(q)
  BY <1>1, ExceptSeq
<1>2. CASE j \notin 1 .. Len(q)
  <2>1. [q EXCEPT ![j] = e] = q
    BY <1>2
  <2> QED
    BY <1>2, <2>1
<1> QED
  BY <1>1, <1>2

\* The arrays s with entry j of array i overwritten.
Written(s, i, j, e) == [s EXCEPT ![i] = [s[i] EXCEPT ![j] = e]]

(* One entry of one array is overwritten.                                  *)
LEMMA WriteEntry ==
  ASSUME NEW s \in Seq(Seq(Entry)), NEW i \in Nat, NEW j \in Nat, NEW e \in Entry
  PROVE  /\ Written(s, i, j, e) \in Seq(Seq(Entry)) /\ Len(Written(s, i, j, e)) = Len(s)
         /\ \A k \in 1 .. Len(s) : Len(Written(s, i, j, e)[k]) = Len(s[k])
         /\ \A k \in 1 .. Len(s) : \A l \in 1 .. Len(s[k]) :
              Written(s, i, j, e)[k][l] \in {e, s[k][l]}
<1> SUFFICES ASSUME NEW t, t = Written(s, i, j, e)
             PROVE  /\ t \in Seq(Seq(Entry)) /\ Len(t) = Len(s)
                    /\ \A k \in 1 .. Len(s) : Len(t[k]) = Len(s[k])
                    /\ \A k \in 1 .. Len(s) : \A l \in 1 .. Len(s[k]) : t[k][l] \in {e, s[k][l]}
  OBVIOUS
<1>1. CASE i \in 1 .. Len(s)
  <2>1. PICK q \in Seq(Entry) : q = s[i]
    BY <1>1
  <2>2. PICK r : r = [q EXCEPT ![j] = e]
    OBVIOUS
  <2>3. /\ r \in Seq(Entry) /\ Len(r) = Len(q)
        /\ \A l \in 1 .. Len(q) : r[l] = IF l = j THEN e ELSE q[l]
    BY <2>2, WriteAt
  <2>4. /\ t \in Seq(Seq(Entry)) /\ Len(t) = Len(s)
        /\ \A k \in 1 .. Len(s) : t[k] = IF k = i THEN r ELSE s[k]
    BY <2>1, <2>2, <2>3, WriteAt DEF Written
  <2> QED
    BY <2>1, <2>3, <2>4
<1>2. CASE i \notin 1 .. Len(s)
  <2>1. t = s
    BY <1>2 DEF Written
  <2> QED
    BY <2>1
<1> QED
  BY <1>1, <1>2

(* growslice: the new array, twice as long, with the old entries.          *)
LEMMA GrownArray ==
  ASSUME TInv, NEW u \in Appending
  PROVE  /\ Grown(snap[u]) \in Seq(Entry)
         /\ snap[u].len < Len(Grown(snap[u]))
         /\ \A j \in 1 .. Len(Grown(snap[u])) :
              \/ Grown(snap[u])[j] = ZeroEntry
              \/ /\ snap[u].array \in 1 .. Len(arrays)
                 /\ j \in 1 .. Len(arrays[snap[u].array])
                 /\ Grown(snap[u])[j] = arrays[snap[u].array][j]
<1> DEFINE a == snap[u].array
           l == snap[u].len
           n == NewCap(snap[u])
           g == Grown(snap[u])
<1>1. /\ a \in 0 .. Len(arrays) /\ l \in Nat /\ l <= CapAt(a)
      /\ CapAt(a) \in Nat /\ (a # 0 => arrays[a] \in Seq(Entry))
  BY CapType DEF TInv, AppendOK, HasRoom
<1>2. n \in Nat /\ l < n
  BY <1>1, CapIsCapAt DEF NewCap
<1>3. a = 0 => l = 0
  BY <1>1 DEF CapAt
<1>4. \A j \in 1 .. n : j <= l => a \in 1 .. Len(arrays) /\ j \in 1 .. Len(arrays[a])
  BY <1>1, <1>3 DEF CapAt
<1>5. \A j \in 1 .. n : j <= l => arrays[a][j] \in Entry
  BY <1>1, <1>4
<1>6. g = [k \in 1 .. n |-> IF k <= l THEN arrays[a][k] ELSE ZeroEntry]
  BY DEF Grown
<1>7. g \in [1 .. n -> Entry]
  BY <1>5, <1>6, ZeroType
<1>8. g \in Seq(Entry) /\ Len(g) = n
  BY <1>2, <1>7, SeqDef
<1>9. \A j \in 1 .. n : g[j] = ZeroEntry \/ (j <= l /\ g[j] = arrays[a][j])
  BY <1>6
<1> HIDE DEF a, l, n, g
<1>10. /\ g \in Seq(Entry) /\ l < Len(g)
       /\ \A j \in 1 .. Len(g) :
            \/ g[j] = ZeroEntry
            \/ a \in 1 .. Len(arrays) /\ j \in 1 .. Len(arrays[a]) /\ g[j] = arrays[a][j]
  BY <1>2, <1>4, <1>8, <1>9
<1> QED
  BY <1>10 DEF a, l, g

-----------------------------------------------------------------------------
(* Types.                                                                  *)

LocalOK ==
  /\ forms  \in 0 .. MaxForms
  /\ exits  \in 0 .. MaxExits
  /\ pc     \in [Users -> PCs]
  /\ chal   \in [Users -> Challenge \cup {NoChallenge}]
  /\ snap   \in [Users -> Header]
  /\ at     \in [Users -> Nat]
  /\ result \in [Users -> Results]
  /\ verified \subseteq Users
  /\ told     \subseteq Users

LEMMA HandlerTypes ==
  ASSUME TInv, Next
  PROVE  LocalOK'
<1>1. LocalOK /\ header \in Header /\ arrays \in Seq(Seq(Entry))
  BY DEF TInv, LocalOK
<1>2. NilSlice \in Header
  BY DEF NilSlice, Header
<1>3. CASE Exit
  BY <1>1, <1>2, <1>3, ExitsAssumption DEF LocalOK, Exit, PCs, Results
<1>4. ASSUME NEW u \in Users, RequestForm(u) PROVE LocalOK'
  <2>1. forms' \in 0 .. MaxForms /\ forms + 1 \in 1 .. MaxForms
    BY <1>1, <1>4, FormsAssumption DEF LocalOK, RequestForm
  <2>2. [no |-> forms + 1, owner |-> u] \in Challenge
    BY <2>1 DEF Challenge
  <2> QED
    BY <1>1, <1>4, <2>1, <2>2 DEF LocalOK, RequestForm, Goto, PCs, history
<1>5. ASSUME NEW u \in Users, Grow(u) PROVE LocalOK'
  <2>1. [snap[u] EXCEPT !.array = Len(arrays) + 1] \in Header
    <3>1. snap[u] \in Header /\ Len(arrays) + 1 \in Nat
      BY <1>1 DEF LocalOK
    <3> QED
      BY <3>1 DEF Header
  <2> QED
    BY <1>1, <1>5, <2>1 DEF LocalOK, Grow, Goto, PCs, history
<1>6. ASSUME NEW u \in Users, Publish(u) \/ Extend(u) PROVE LocalOK'
  BY <1>1, <1>6 DEF LocalOK, Publish, Extend, Goto, PCs, history
<1>7. ASSUME NEW u \in Users, Store(u) PROVE LocalOK'
  BY <1>1, <1>2, <1>7 DEF LocalOK, Store, Goto, PCs, history
<1>8. ASSUME NEW u \in Users, Submit(u) \/ LogIn(u) PROVE LocalOK'
  BY <1>1, <1>8 DEF LocalOK, Submit, LogIn, Answer, Goto, PCs, Results, history
<1>9. ASSUME NEW u \in Users, Verify(u) PROVE LocalOK'
  BY <1>1, <1>9 DEF LocalOK, Verify, Answer, Goto, PCs, Results
<1>10. ASSUME NEW u \in Users, Compare(u) PROVE LocalOK'
  <2>1. at[u] + 1 \in Nat /\ pc \in [Users -> PCs] /\ result \in [Users -> Results]
    BY <1>1 DEF LocalOK
  <2>2. at' \in [Users -> Nat]
    BY <1>1, <1>10, <2>1 DEF LocalOK, Compare
  <2>3. pc' \in [Users -> PCs] /\ result' \in [Users -> Results]
    BY <1>10, <2>1 DEF Compare, Answer, Goto, PCs, Results
  <2> QED
    BY <1>1, <1>10, <2>2, <2>3 DEF LocalOK, Compare, history
<1>11. ASSUME NEW u \in Users, Assign(u) PROVE LocalOK'
  <2>1. /\ at[u] + 1 \in Nat /\ at \in [Users -> Nat]
        /\ pc \in [Users -> PCs] /\ result \in [Users -> Results]
    BY <1>1 DEF LocalOK
  <2>2. at' \in [Users -> Nat]
    <3>1. at' = [at EXCEPT ![u] = at[u] + 1] \/ at' = [at EXCEPT ![u] = 0]
      BY <1>11 DEF Assign
    <3> QED
      BY <2>1, <3>1
  <2>3. pc' \in [Users -> PCs]
    BY <1>11, <2>1 DEF Assign, Answer, Goto, PCs
  <2>4. result' \in [Users -> Results]
    BY <1>11, <2>1 DEF Assign, Answer, Goto, Results
  <2> QED
    BY <1>1, <1>11, <2>2, <2>3, <2>4 DEF LocalOK, Assign, history
<1>12. ASSUME NEW u \in Users, Search(u) PROVE LocalOK'
  <2>1. at \in [Users -> Nat] /\ at[u] + 1 \in Nat /\ pc \in [Users -> PCs]
        /\ result \in [Users -> Results]
    BY <1>1 DEF LocalOK
  <2>2. at' \in [Users -> Nat]
    <3>1. at' = [at EXCEPT ![u] = 0] \/ at' = [at EXCEPT ![u] = at[u] + 1]
      BY <1>12 DEF Search
    <3> QED
      BY <2>1, <3>1
  <2>3. pc' \in [Users -> PCs] /\ result' \in [Users -> Results]
    BY <1>12, <2>1 DEF Search, Answer, Goto, PCs, Results
  <2>4. UNCHANGED <<forms, exits, chal, snap, verified, told>>
    BY <1>12 DEF Search, history
  <2> QED
    BY <1>1, <2>2, <2>3, <2>4 DEF LocalOK
<1> QED
  BY <1>3, <1>4, <1>5, <1>6, <1>7, <1>8, <1>9, <1>10, <1>11, <1>12 DEF Next

(* A header that fits its array goes on to fit it.                         *)
LEMMA CapKept ==
  ASSUME TInv, arrays' \in Seq(Seq(Entry)), ArraysKept, NEW k \in 0 .. Len(arrays)
  PROVE  k \in 0 .. Len(arrays') /\ CapAt(k)' = CapAt(k)
<1>1. Len(arrays) \in Nat /\ Len(arrays') \in Nat
  BY DEF TInv
<1> QED
  BY <1>1 DEF ArraysKept, CapAt

(* Appends of other users go on to have room: what they work on is kept.   *)
LEMMA OtherAppends ==
  ASSUME TInv, arrays' \in Seq(Seq(Entry)), ArraysKept, NEW u \in Users,
         \A v \in Users \ {u} : pc'[v] = pc[v] /\ snap'[v] = snap[v],
         u \in Appending' => HasRoom(u)'
  PROVE  AppendOK'
<1> SUFFICES ASSUME NEW v \in Appending', v # u
             PROVE  HasRoom(v)'
  BY DEF AppendOK
<1>1. v \in Appending /\ pc'[v] = pc[v] /\ snap'[v] = snap[v]
  BY DEF Appending
<1>2. HasRoom(v)
  BY <1>1 DEF TInv, AppendOK
<1>3. PICK a \in 0 .. Len(arrays) : a = snap[v].array
  BY <1>2 DEF HasRoom
<1>4. a \in 0 .. Len(arrays') /\ CapAt(a)' = CapAt(a)
  BY CapKept
<1>5. CapAt(snap[v].array)' = CapAt(a)'
  BY <1>1, <1>3 DEF CapAt
<1> QED
  BY <1>1, <1>2, <1>3, <1>4, <1>5 DEF HasRoom

-----------------------------------------------------------------------------
(* The memory after each kind of step.                                     *)

LEMMA MemoryStill ==
  ASSUME IInv, UNCHANGED memory, verified \subseteq verified'
  PROVE  MemoryOK' /\ ArraysKept
<1>1. /\ arrays' = arrays /\ header' = header
      /\ arrays \in Seq(Seq(Entry)) /\ header \in Header /\ HeaderOK
  BY DEF IInv, TInv, memory
<1>2. HeaderOK'
  BY <1>1 DEF HeaderOK, CapAt
<1>3. KeysVerified'
  BY <1>1 DEF IInv, KeysVerified
<1>4. ArraysKept
  BY <1>1 DEF ArraysKept
<1> QED
  BY <1>1, <1>2, <1>3, <1>4 DEF MemoryOK

LEMMA HeaderStill ==
  ASSUME TInv, arrays' \in Seq(Seq(Entry)), ArraysKept, header' = header
  PROVE  header' \in Header /\ HeaderOK'
<1>1. PICK a \in 0 .. Len(arrays) : a = header.array
  BY DEF TInv, HeaderOK
<1>2. a \in 0 .. Len(arrays') /\ CapAt(a)' = CapAt(a)
  BY CapKept
<1>3. CapAt(header.array)' = CapAt(a)'
  BY <1>1 DEF CapAt
<1> QED
  BY <1>1, <1>2, <1>3 DEF TInv, HeaderOK

LEMMA MemoryGrow ==
  ASSUME IInv, NEW u \in Users, Grow(u)
  PROVE  /\ MemoryOK' /\ ArraysKept
         /\ snap'[u].array \in 1 .. Len(arrays') /\ snap'[u].len = snap[u].len
         /\ snap'[u].len < Len(arrays'[snap'[u].array])
<1>1. u \in Appending /\ TInv /\ KeysVerified
  BY DEF Grow, Appending, IInv
<1>2. PICK g \in Seq(Entry) : g = Grown(snap[u])
  BY <1>1, GrownArray
<1> DEFINE n == Len(arrays)
<1>3. n \in Nat /\ arrays \in Seq(Seq(Entry))
  BY <1>1 DEF TInv
<1>4. /\ arrays' = Append(arrays, g)
      /\ UNCHANGED <<header, verified>>
      /\ snap' = [snap EXCEPT ![u].array = n + 1]
  BY <1>2 DEF Grow, history
<1>5. /\ arrays' \in Seq(Seq(Entry)) /\ Len(arrays') = n + 1 /\ arrays'[n + 1] = g
      /\ \A k \in 1 .. n : arrays'[k] = arrays[k]
  BY <1>2, <1>3, <1>4
<1>6. ArraysKept
  BY <1>3, <1>5 DEF ArraysKept
<1>7. header' \in Header /\ HeaderOK'
  BY <1>1, <1>4, <1>5, <1>6, HeaderStill
<1>8. snap[u] \in Header /\ snap'[u] = [snap[u] EXCEPT !.array = n + 1]
  BY <1>1, <1>4 DEF TInv
<1>9. snap'[u].array = n + 1 /\ snap'[u].len = snap[u].len
  BY <1>8 DEF Header
<1>10. snap[u].len < Len(g)
  BY <1>1, <1>2, GrownArray
<1>11. \A j \in 1 .. Len(g) : g[j].spk \in verified \cup {None}
  BY <1>1, <1>2, GrownArray, ZeroType DEF KeysVerified
<1>12. KeysVerified'
  <2> SUFFICES ASSUME NEW k \in 1 .. n + 1, NEW j \in 1 .. Len(arrays'[k])
               PROVE  arrays'[k][j].spk \in verified \cup {None}
    BY <1>4, <1>5 DEF KeysVerified
  <2>1. CASE k = n + 1
    BY <1>5, <1>11, <2>1
  <2>2. CASE k \in 1 .. n
    BY <1>1, <1>5, <2>2 DEF KeysVerified
  <2> QED
    BY <1>3, <2>1, <2>2
<1> QED
  BY <1>3, <1>5, <1>6, <1>7, <1>9, <1>10, <1>12 DEF MemoryOK, CapAt

LEMMA MemoryHeader ==
  ASSUME IInv, NEW u \in Users, Publish(u) \/ Extend(u)
  PROVE  MemoryOK' /\ ArraysKept
<1>1. TInv /\ KeysVerified /\ u \in Appending /\ HasRoom(u)
  BY DEF Publish, Extend, Appending, IInv, TInv, AppendOK
<1>2. arrays' = arrays /\ verified' = verified
  BY DEF Publish, Extend, history
<1>3. ArraysKept /\ KeysVerified'
  BY <1>1, <1>2 DEF ArraysKept, KeysVerified, TInv
<1>4. header' \in Header /\ HeaderOK'
  <2>1. CASE Publish(u)
    <3>1. snap[u] \in Header /\ header' = [snap[u] EXCEPT !.len = snap[u].len + 1]
      BY <1>1, <2>1 DEF Publish, TInv
    <3>2. /\ snap[u].array \in 0 .. Len(arrays) /\ snap[u].len \in Nat
          /\ snap[u].len < CapAt(snap[u].array) /\ CapAt(snap[u].array) \in Nat
      BY <1>1, <2>1, CapType DEF HasRoom, Publish
    <3>3. /\ header' \in Header /\ header'.array = snap[u].array
          /\ header'.len = snap[u].len + 1
      BY <3>1, <3>2 DEF Header
    <3> QED
      BY <1>2, <3>2, <3>3 DEF HeaderOK, CapAt
  <2>2. CASE Extend(u)
    <3>1. header \in Header /\ header' = [header EXCEPT !.len = snap[u].len + 1]
      BY <1>1, <2>2 DEF Extend, TInv
    <3>2. /\ header.array \in 0 .. Len(arrays) /\ snap[u].len \in Nat
          /\ snap[u].len < CapAt(header.array) /\ CapAt(header.array) \in Nat
      BY <1>1, <2>2, CapType, CapIsCapAt DEF HasRoom, Extend, TInv, HeaderOK
    <3>3. /\ header' \in Header /\ header'.array = header.array
          /\ header'.len = snap[u].len + 1
      BY <3>1, <3>2 DEF Header
    <3> QED
      BY <1>2, <3>2, <3>3 DEF HeaderOK, CapAt
  <2> QED
    BY <2>1, <2>2
<1> QED
  BY <1>1, <1>2, <1>3, <1>4 DEF MemoryOK, TInv

LEMMA MemoryWrite ==
  ASSUME IInv, NEW i \in Nat, NEW j \in Nat, NEW e \in Entry,
         e.spk \in verified \cup {None},
         arrays' = Written(arrays, i, j, e),
         header' = header, verified' = verified
  PROVE  MemoryOK' /\ ArraysKept
<1>1. TInv /\ KeysVerified /\ arrays \in Seq(Seq(Entry))
  BY DEF IInv, TInv
<1>2. PICK s \in Seq(Seq(Entry)) : s = arrays
  BY <1>1
<1> DEFINE w == Written(s, i, j, e)
<1>3. w \in Seq(Seq(Entry)) /\ Len(w) = Len(s)
  BY WriteEntry
<1>4. \A k \in 1 .. Len(s) : Len(w[k]) = Len(s[k])
  BY WriteEntry
<1>5. \A k \in 1 .. Len(s) : \A l \in 1 .. Len(s[k]) : w[k][l] \in {e, s[k][l]}
  BY WriteEntry
<1>6. arrays' = w
  BY <1>2
<1> HIDE DEF w
<1>7. arrays' \in Seq(Seq(Entry)) /\ ArraysKept
  BY <1>2, <1>3, <1>4, <1>6 DEF ArraysKept
<1>8. KeysVerified'
  <2>1. \A k \in 1 .. Len(s) : \A l \in 1 .. Len(s[k]) : s[k][l].spk \in verified \cup {None}
    BY <1>1, <1>2 DEF KeysVerified
  <2> SUFFICES ASSUME NEW k \in 1 .. Len(w), NEW l \in 1 .. Len(w[k])
               PROVE  w[k][l].spk \in verified \cup {None}
    BY <1>6 DEF KeysVerified
  <2>2. k \in 1 .. Len(s) /\ l \in 1 .. Len(s[k])
    BY <1>3, <1>4
  <2> QED
    BY <1>5, <2>1, <2>2
<1> QED
  BY <1>1, <1>7, <1>8, HeaderStill DEF MemoryOK

LEMMA MemoryStore ==
  ASSUME IInv, NEW u \in Users, Store(u)
  PROVE  MemoryOK' /\ ArraysKept
<1>1. TInv /\ snap[u] \in Header /\ chal[u] \in Challenge \cup {NoChallenge}
  BY DEF IInv, TInv
<1> DEFINE e == [challenge |-> chal[u], spk |-> None]
<1>2. e \in Entry /\ e.spk = None
  BY <1>1 DEF Entry
<1>3. snap[u].array \in Nat /\ snap[u].len + 1 \in Nat
  BY <1>1 DEF Header
<1>4. /\ arrays' = Written(arrays, snap[u].array, snap[u].len + 1, e)
      /\ header' = header /\ verified' = verified
  BY DEF Store, Written, history
<1> HIDE DEF e
<1> QED
  BY <1>2, <1>3, <1>4, MemoryWrite

(* The entry at the index of a running loop is in the memory.              *)
LEMMA CurrentKnown ==
  ASSUME IInv, NEW u \in Users, ~AtEnd(u)
  PROVE  /\ header.array \in Nat /\ at[u] + 1 \in Nat
         /\ Current(at[u]) \in Entry
         /\ Current(at[u]).spk \in verified \cup {None}
<1>1. TInv /\ KeysVerified
  BY DEF IInv
<1>2. at[u] \in Nat /\ header.len \in Nat /\ at[u] < header.len
  BY <1>1 DEF TInv, Header, AtEnd
<1>3. header.array \in 0 .. Len(arrays) /\ header.len <= CapAt(header.array)
  BY <1>1 DEF TInv, HeaderOK
<1>4. header.array # 0 /\ CapAt(header.array) = Len(arrays[header.array])
  BY <1>2, <1>3 DEF CapAt
<1>5. header.array \in 1 .. Len(arrays) /\ arrays[header.array] \in Seq(Entry)
  BY <1>1, <1>3, <1>4, CapType
<1>6. at[u] + 1 \in 1 .. Len(arrays[header.array])
  BY <1>2, <1>3, <1>4, <1>5
<1> QED
  BY <1>1, <1>5, <1>6 DEF Current, KeysVerified

LEMMA MemoryAssign ==
  ASSUME IInv, NEW u \in Users, Assign(u)
  PROVE  MemoryOK' /\ ArraysKept
<1>1. verified' = verified /\ header' = header /\ u \in verified
  BY DEF Assign, history, IInv, Updating
<1>2. CASE AtEnd(u)
  BY <1>1, <1>2, MemoryStill DEF Assign, memory
<1>3. CASE ~AtEnd(u)
  <2> DEFINE e == [Current(at[u]) EXCEPT !.spk = u]
  <2>1. header.array \in Nat /\ at[u] + 1 \in Nat /\ Current(at[u]) \in Entry
    BY <1>3, CurrentKnown
  <2>2. e \in Entry /\ e.spk = u
    BY <2>1 DEF Entry
  <2>3. arrays' = Written(arrays, header.array, at[u] + 1, e)
    BY <1>3 DEF Assign, Current, Written
  <2> HIDE DEF e
  <2> QED
    BY <1>1, <2>1, <2>2, <2>3, MemoryWrite
<1> QED
  BY <1>2, <1>3

-----------------------------------------------------------------------------
(* The theorems.                                                           *)

LEMMA IInvInit == Init => IInv
<1> SUFFICES ASSUME Init PROVE IInv
  OBVIOUS
<1>1. NilSlice \in Header /\ HeaderOK
  BY DEF Init, NilSlice, Header, HeaderOK, CapAt
<1>2. Appending = {} /\ Updating = {}
  BY DEF Init, Appending, Updating
<1>3. TInv
  BY <1>1, <1>2, FormsAssumption, ExitsAssumption
     DEF Init, TInv, AppendOK, PCs, Results
<1> QED
  BY <1>2, <1>3 DEF Init, IInv, KeysVerified, LoginOnlyIfVerified

\* What one user's request does to the others, and to the history.
OthersKept(u) ==
  /\ \A v \in Users \ {u} : pc'[v] = pc[v] /\ snap'[v] = snap[v] /\ result'[v] = result[v]
  /\ verified \subseteq verified'

Request(u) ==
  \/ RequestForm(u) \/ Grow(u) \/ Publish(u) \/ Extend(u) \/ Store(u)
  \/ Submit(u) \/ Verify(u) \/ Compare(u) \/ Assign(u)
  \/ LogIn(u) \/ Search(u)

LEMMA RequestOthers ==
  ASSUME TInv, NEW u \in Users, Request(u)
  PROVE  OthersKept(u)
<1>1. /\ pc \in [Users -> PCs] /\ snap \in [Users -> Header]
      /\ result \in [Users -> Results]
  BY DEF TInv
<1>2. CASE RequestForm(u)
  BY <1>1, <1>2 DEF OthersKept, RequestForm, Goto, history
<1>3. CASE Grow(u)
  BY <1>1, <1>3 DEF OthersKept, Grow, Goto, history
<1>4. CASE Publish(u) \/ Extend(u)
  BY <1>1, <1>4 DEF OthersKept, Publish, Extend, Goto, history
<1>5. CASE Store(u)
  BY <1>1, <1>5 DEF OthersKept, Store, Goto, history
<1>6. CASE Submit(u) \/ LogIn(u)
  BY <1>1, <1>6 DEF OthersKept, Submit, LogIn, Answer, Goto, history
<1>7. CASE Verify(u)
  BY <1>1, <1>7 DEF OthersKept, Verify, Answer, Goto
<1>8. CASE Compare(u)
  BY <1>1, <1>8 DEF OthersKept, Compare, Answer, Goto
<1>9. CASE Assign(u)
  BY <1>1, <1>9 DEF OthersKept, Assign, Answer, Goto, history
<1>10. CASE Search(u)
  BY <1>1, <1>10 DEF OthersKept, Search, Answer, Goto, history
<1> QED
  BY <1>2, <1>3, <1>4, <1>5, <1>6, <1>7, <1>8, <1>9, <1>10 DEF Request

(* The memory of the server after any step of a request.                   *)
LEMMA RequestMemory ==
  ASSUME IInv, NEW u \in Users, Request(u)
  PROVE  MemoryOK' /\ ArraysKept
<1>1. CASE RequestForm(u) \/ Submit(u) \/ Compare(u) \/ LogIn(u) \/ Search(u)
  BY <1>1, MemoryStill DEF RequestForm, Submit, Compare, LogIn, Search, history
<1>2. CASE Verify(u)
  BY <1>2, MemoryStill DEF Verify
<1> QED
  BY <1>1, <1>2, MemoryGrow, MemoryHeader, MemoryStore, MemoryAssign DEF Request

(* A request that goes on to append has room for its entry.                *)
LEMMA RequestAppend ==
  ASSUME IInv, NEW u \in Users, Request(u), u \in Appending'
  PROVE  HasRoom(u)'
<1>1. TInv /\ MemoryOK' /\ ArraysKept
  BY RequestMemory DEF IInv
<1>2. pc \in [Users -> PCs] /\ snap \in [Users -> Header] /\ header \in Header
  BY <1>1 DEF TInv
<1>3. CASE RequestForm(u)
  <2>1. /\ snap'[u] = header /\ header' = header /\ arrays' = arrays
        /\ pc'[u] \in {"grow", "extend"}
    BY <1>2, <1>3 DEF RequestForm, Goto, memory
  <2> QED
    BY <1>1, <2>1 DEF HasRoom, TInv, HeaderOK, Header, CapAt
<1>4. CASE Grow(u)
  BY <1>1, <1>2, <1>4, MemoryGrow DEF HasRoom, CapAt, Header
<1>5. CASE Publish(u) \/ Extend(u)
  <2>1. HasRoom(u) /\ snap' = snap /\ arrays' = arrays /\ pc'[u] = "store"
    BY <1>1, <1>2, <1>5 DEF Publish, Extend, Goto, TInv, AppendOK, Appending
  <2> QED
    BY <2>1 DEF HasRoom, CapAt
<1>6. CASE Store(u) \/ Submit(u) \/ Verify(u) \/ LogIn(u)
  BY <1>2, <1>6 DEF Appending, Store, Submit, Verify, LogIn, Answer, Goto
<1>7. CASE Compare(u) \/ Assign(u) \/ Search(u)
  BY <1>2, <1>7 DEF Appending, Compare, Assign, Search, Answer, Goto
<1> QED
  BY <1>3, <1>4, <1>5, <1>6, <1>7 DEF Request

(* A request past its verification, or told that it is logged in, is one   *)
(* of a user whose proof was verified.                                     *)
LEMMA RequestVerified ==
  ASSUME IInv, NEW u \in Users, Request(u)
  PROVE  /\ pc'[u] \in {"loop", "assign"} => u \in verified'
         /\ result'[u] = "loggedIn" => u \in verified'
<1>1. /\ pc \in [Users -> PCs] /\ result \in [Users -> Results]
      /\ pc[u] \in {"loop", "assign"} => u \in verified
      /\ result[u] = "loggedIn" => u \in verified
  BY DEF IInv, TInv, Updating, LoginOnlyIfVerified
<1>2. verified \subseteq verified'
  BY RequestOthers DEF IInv, OthersKept
<1>3. CASE RequestForm(u) \/ Grow(u) \/ Publish(u) \/ Extend(u) \/ Store(u)
  BY <1>1, <1>2, <1>3 DEF RequestForm, Grow, Publish, Extend, Store, Goto
<1>4. CASE Submit(u) \/ LogIn(u)
  BY <1>1, <1>2, <1>4 DEF Submit, LogIn, Answer, Goto
<1>5. CASE Verify(u)
  BY <1>1, <1>2, <1>5 DEF Verify, Answer, Goto
<1>6. CASE Compare(u)
  BY <1>1, <1>2, <1>6 DEF Compare, Answer, Goto
<1>7. CASE Assign(u)
  BY <1>1, <1>2, <1>7 DEF Assign, Answer, Goto
<1>8. CASE Search(u)
  <2>1. CASE AtEnd(u) \/ ~Finds(u, at[u])
    BY <1>1, <1>2, <1>8, <2>1 DEF Search, Answer, Goto
  <2>2. CASE ~AtEnd(u) /\ Finds(u, at[u])
    <3>1. u \in verified
      BY <2>2, CurrentKnown, NoneAssumption DEF Finds
    <3> QED
      BY <1>1, <1>2, <1>8, <2>2, <3>1 DEF Search, Answer, Goto
  <2> QED
    BY <2>1, <2>2
<1> QED
  BY <1>3, <1>4, <1>5, <1>6, <1>7, <1>8 DEF Request

LEMMA IInvStep == IInv /\ [Next]_vars => IInv'
<1> SUFFICES ASSUME IInv, [Next]_vars PROVE IInv'
  OBVIOUS
<1>1. CASE UNCHANGED vars
  BY <1>1 DEF vars, memory, history, IInv, TInv, HeaderOK, AppendOK, HasRoom, CapAt,
     KeysVerified, Appending, Updating, LoginOnlyIfVerified
<1>2. ASSUME Next, MemoryOK', AppendOK', Updating' \subseteq verified', LoginOnlyIfVerified'
      PROVE  IInv'
  BY <1>2, HandlerTypes DEF IInv, TInv, LocalOK, MemoryOK
<1>3. CASE Exit
  <2>1. Appending' = {} /\ Updating' = {} /\ LoginOnlyIfVerified'
    BY <1>3 DEF Exit, Appending, Updating, LoginOnlyIfVerified
  <2>2. MemoryOK'
    BY <1>3 DEF Exit, MemoryOK, HeaderOK, KeysVerified, NilSlice, Header, CapAt
  <2> QED
    BY <1>2, <1>3, <2>1, <2>2 DEF Next, AppendOK
<1>4. ASSUME NEW u \in Users, Request(u)
      PROVE  IInv'
  <2>1. MemoryOK' /\ ArraysKept /\ OthersKept(u)
    BY <1>4, RequestMemory, RequestOthers DEF IInv
  <2>2. AppendOK'
    BY <1>4, <2>1, RequestAppend, OtherAppends DEF IInv, MemoryOK, OthersKept
  <2>3. ASSUME NEW v \in Users
        PROVE  /\ pc'[v] \in {"loop", "assign"} => v \in verified'
               /\ result'[v] = "loggedIn" => v \in verified'
    <3>1. CASE v = u
      BY <1>4, <3>1, RequestVerified
    <3>2. CASE v # u
      BY <2>1, <3>2 DEF OthersKept, IInv, Updating, LoginOnlyIfVerified
    <3> QED
      BY <3>1, <3>2
  <2>4. Updating' \subseteq verified' /\ LoginOnlyIfVerified'
    BY <2>3 DEF Updating, LoginOnlyIfVerified
  <2>5. Next
    BY <1>4 DEF Next, Request
  <2> QED
    BY <1>2, <2>1, <2>2, <2>4, <2>5
<1> QED
  BY <1>1, <1>3, <1>4 DEF Next, Request

LEMMA OrderlyInit == Init => OrderlyOK
BY DEF Init, OrderlyOK

LEMMA OrderlyStep == OrderlyOK /\ [Next]_vars => OrderlyOK'
<1> SUFFICES ASSUME OrderlyOK, [Next]_vars PROVE OrderlyOK'
  OBVIOUS
<1>1. CASE \E u \in Users : RequestForm(u) \/ Verify(u)
  BY <1>1 DEF RequestForm, Verify, OrderlyOK
<1>2. CASE \E u \in Users : Grow(u) \/ Publish(u) \/ Extend(u) \/ Store(u)
  BY <1>2 DEF Grow, Publish, Extend, Store, history, OrderlyOK
<1>3. CASE \E u \in Users : Submit(u) \/ Compare(u) \/ Assign(u) \/ LogIn(u) \/ Search(u)
  BY <1>3 DEF Submit, Compare, Assign, LogIn, Search, history, OrderlyOK
<1>4. CASE Exit \/ UNCHANGED vars
  BY <1>4 DEF Exit, vars, history, OrderlyOK
<1> QED
  BY <1>1, <1>2, <1>3, <1>4 DEF Next

(* No header of registeredSPK ever reaches past its array, whatever the    *)
(* appends that run at the same time do to each other.                     *)
THEOREM TypeCorrect == Spec => []TypeOK
<1>1. IInv /\ OrderlyOK => TypeOK
  <2> SUFFICES ASSUME IInv, OrderlyOK PROVE TypeOK
    OBVIOUS
  <2>1. \A k \in 1 .. Len(arrays) : arrays[k] \in Seq(Entry)
    BY DEF IInv, TInv
  <2>2. header.len \in 0 .. Cap(header)
    BY CapIsCapAt DEF IInv, TInv, HeaderOK
  <2> QED
    BY <2>1, <2>2 DEF IInv, TInv, HeaderOK, TypeOK, OrderlyOK
<1> QED
  BY <1>1, IInvInit, IInvStep, OrderlyInit, OrderlyStep, PTL DEF Spec

(* However the handlers interleave, a login succeeds only with a public    *)
(* key whose membership proof this process has verified: no array, old,    *)
(* current or not published yet, holds any other key.                      *)
THEOREM LoginNeedsVerification == Spec => []LoginOnlyIfVerified
<1>1. IInv => LoginOnlyIfVerified
  BY DEF IInv
<1> QED
  BY <1>1, IInvInit, IInvStep, PTL DEF Spec
-----------------------------------------------------------------------------
(* The slice as long as orderly holds: one table, which one handler writes *)
(* at a time.                                                              *)

\* The current array, and which of its entries exist and are in use.
Room  == 0 .. Cap(header) - 1
InUse == 0 .. header.len - 1
Table == [k \in Room |-> Current(k)]

Listed(c) == \E k \in InUse : Table[k].challenge = c

\* An append that runs has the slice for itself.
OneWriter ==
  /\ \A u, v \in Appending : u = v
  /\ Appending = {} \/ Updating = {}

TailEmpty == \A k \in Room \ InUse : Table[k] = ZeroEntry

\* What a running append works on is the current slice, or its copy.
InOrder(u) ==
  /\ pc[u] \in {"grow", "extend"} => snap[u] = header
  /\ pc[u] = "publish" =>
       /\ snap[u].len = header.len
       /\ snap[u].array \in 1 .. Len(arrays)
       /\ \A j \in 1 .. Len(arrays[snap[u].array]) :
            arrays[snap[u].array][j] = IF j <= header.len THEN Table[j - 1] ELSE ZeroEntry
  /\ pc[u] = "store" =>
       /\ snap[u].array = header.array
       /\ header.len = snap[u].len + 1
       /\ Table[snap[u].len] = ZeroEntry

MemoryInOrder == OneWriter /\ TailEmpty /\ \A u \in Users : InOrder(u)

LEMMA TableType ==
  ASSUME TInv
  PROVE  /\ header.len \in Nat /\ InUse \subseteq Room
         /\ Table \in [Room -> Entry]
         /\ Room # {} => header.array \in 1 .. Len(arrays) /\ Room = 0 .. Len(arrays[header.array]) - 1
<1>1. /\ header.array \in 0 .. Len(arrays) /\ header.len \in 0 .. CapAt(header.array)
      /\ CapAt(header.array) \in Nat /\ Cap(header) = CapAt(header.array)
  BY CapType, CapIsCapAt DEF TInv, HeaderOK
<1>2. InUse \subseteq Room
  BY <1>1 DEF InUse, Room
<1>3. Room # {} => header.array \in 1 .. Len(arrays) /\ Cap(header) = Len(arrays[header.array])
  BY <1>1 DEF Room, CapAt
<1>4. ASSUME NEW k \in Room PROVE Current(k) \in Entry
  <2>1. header.array \in 1 .. Len(arrays) /\ k + 1 \in 1 .. Len(arrays[header.array])
    BY <1>1, <1>3, <1>4 DEF Room
  <2>2. arrays[header.array] \in Seq(Entry)
    BY <2>1, CapType
  <2> QED
    BY <2>1, <2>2 DEF Current
<1> QED
  BY <1>1, <1>2, <1>3, <1>4 DEF Table, Room

(* A step that keeps the header and the arrays keeps the table.            *)
LEMMA TableStill ==
  ASSUME TInv, header' = header, \A k \in 1 .. Len(arrays) : arrays'[k] = arrays[k]
  PROVE  Table' = Table /\ Room' = Room /\ InUse' = InUse
<1>1. InUse' = InUse
  BY DEF InUse
<1>2. header.array \in 0 .. Len(arrays)
  BY DEF TInv, HeaderOK
<1>3. CASE header.array = 0
  <2>1. Room = {} /\ Room' = {}
    BY <1>3 DEF Room, Cap
  <2> QED
    BY <1>1, <2>1 DEF Table
<1>4. CASE header.array # 0
  <2>1. arrays'[header.array] = arrays[header.array]
    BY <1>2, <1>4
  <2>2. Room' = Room
    BY <1>4, <2>1 DEF Room, Cap
  <2> QED
    BY <1>1, <2>1, <2>2 DEF Table, Current
<1> QED
  BY <1>3, <1>4

(* An assignment to an entry of the current array.                         *)
LEMMA TableWrite ==
  ASSUME TInv, header' = header, NEW j \in Room, NEW e \in Entry,
         arrays' = Written(arrays, header.array, j + 1, e)
  PROVE  Table' = [Table EXCEPT ![j] = e] /\ Room' = Room /\ InUse' = InUse
<1>1. PICK s \in Seq(Seq(Entry)) : s = arrays
  BY DEF TInv
<1>2. PICK a \in 1 .. Len(s) : a = header.array
  BY <1>1, TableType
<1>3. PICK q \in Seq(Entry) : q = s[a]
  BY <1>1, <1>2
<1>4. Room = 0 .. Len(q) - 1 /\ j \in Nat /\ Table \in [Room -> Entry]
  BY <1>1, <1>2, <1>3, TableType DEF Room
<1>5. PICK r : r = [q EXCEPT ![j + 1] = e]
  OBVIOUS
<1>6. /\ Len(r) = Len(q)
      /\ \A l \in 1 .. Len(q) : r[l] = IF l = j + 1 THEN e ELSE q[l]
  BY <1>4, <1>5, WriteAt
<1>7. arrays'[a] = r
  BY <1>1, <1>2, <1>3, <1>5 DEF Written
<1>8. Room' = Room /\ InUse' = InUse
  BY <1>2, <1>4, <1>6, <1>7 DEF Room, InUse, Cap
<1>9. ASSUME NEW k \in Room PROVE Table'[k] = IF k = j THEN e ELSE Table[k]
  <2>1. k + 1 \in 1 .. Len(q) /\ (k + 1 = j + 1 <=> k = j)
    BY <1>4, <1>9
  <2>2. Table'[k] = r[k + 1]
    BY <1>2, <1>7, <1>8, <1>9 DEF Table, Current
  <2>3. Table[k] = q[k + 1]
    BY <1>1, <1>2, <1>3, <1>9 DEF Table, Current
  <2> QED
    BY <1>6, <2>1, <2>2, <2>3
<1>10. Table' = [k \in Room |-> Table'[k]]
  BY <1>8 DEF Table
<1> QED
  BY <1>4, <1>8, <1>9, <1>10

(* A length is published: the entries are the same, and one more, still    *)
(* empty, is in use.                                                       *)
LEMMA TableAdd ==
  ASSUME TInv, TailEmpty, NEW u \in Users, InOrder(u), Publish(u) \/ Extend(u)
  PROVE  /\ header'.len = header.len + 1
         /\ header'.array = IF pc[u] = "publish" THEN snap[u].array ELSE header.array
         /\ header.len \in Room'
         /\ \A k \in InUse : Table'[k] = Table[k]
         /\ \A k \in Room' \ InUse : Table'[k] = ZeroEntry
<1>1. /\ header.len \in Nat /\ InUse \subseteq Room
      /\ header \in Header /\ snap[u] \in Header /\ arrays' = arrays
  BY TableType DEF TInv, Publish, Extend
<1>2. CASE Publish(u)
  <2>1. /\ pc[u] = "publish" /\ snap[u].len = header.len
        /\ snap[u].array \in 1 .. Len(arrays)
        /\ \A j \in 1 .. Len(arrays[snap[u].array]) :
             arrays[snap[u].array][j] = IF j <= header.len THEN Table[j - 1] ELSE ZeroEntry
    BY <1>2 DEF Publish, InOrder
  <2>2. HasRoom(u)
    BY <2>1 DEF TInv, AppendOK, Appending
  <2>3. header' = [snap[u] EXCEPT !.len = snap[u].len + 1]
    BY <1>2 DEF Publish
  <2>4. header'.array = snap[u].array /\ header'.len = header.len + 1
    BY <1>1, <2>1, <2>3 DEF Header
  <2>5. PICK a \in 1 .. Len(arrays) : a = snap[u].array
    BY <2>1
  <2>6. Len(arrays[a]) \in Nat /\ header.len < Len(arrays[a])
    BY <2>1, <2>2, <2>5 DEF HasRoom, CapAt, TInv
  <2>7. Room' = 0 .. Len(arrays[a]) - 1
    BY <1>1, <2>4, <2>5 DEF Room, Cap
  <2>8. ASSUME NEW k \in Room'
        PROVE  Table'[k] = IF k < header.len THEN Table[k] ELSE ZeroEntry
    <3>1. Table'[k] = arrays[a][k + 1]
      BY <1>1, <2>4, <2>5, <2>8 DEF Table, Current
    <3>2. k + 1 \in 1 .. Len(arrays[a]) /\ (k + 1) - 1 = k /\ (k + 1 <= header.len <=> k < header.len)
      BY <1>1, <2>6, <2>7, <2>8
    <3> QED
      BY <2>1, <2>5, <3>1, <3>2
  <2>9. \A k \in InUse : k \in Room' /\ k < header.len
    BY <1>1, <2>6, <2>7 DEF InUse
  <2>10. \A k \in Room' \ InUse : ~(k < header.len)
    BY <1>1, <2>6, <2>7 DEF InUse
  <2>11. header.len \in Room'
    BY <1>1, <2>6, <2>7
  <2>12. \A k \in InUse : Table'[k] = Table[k]
    BY <2>8, <2>9, Zenon
  <2>13. \A k \in Room' \ InUse : Table'[k] = ZeroEntry
    BY <2>8, <2>10, Zenon
  <2>14. header'.array = IF pc[u] = "publish" THEN snap[u].array ELSE header.array
    BY <2>1, <2>4
  <2> QED
    BY <2>4, <2>11, <2>12, <2>13, <2>14, Zenon
<1>3. CASE Extend(u)
  <2>1. pc[u] = "extend" /\ snap[u] = header
    BY <1>3 DEF Extend, InOrder
  <2>2. header' = [header EXCEPT !.len = header.len + 1] /\ header.len < Cap(header)
    BY <1>3, <2>1 DEF Extend
  <2>3. header'.array = header.array /\ header'.len = header.len + 1
    BY <1>1, <2>2 DEF Header
  <2>4. Cap(header)' = Cap(header) /\ Cap(header) \in Nat
    BY <1>1, <2>3, CapType, CapIsCapAt DEF Cap, TInv, HeaderOK
  <2>5. Room' = Room
    BY <2>4 DEF Room
  <2>6. Table' = Table
    BY <1>1, <2>3, <2>5 DEF Table, Current
  <2>7. header.len \in Room
    BY <1>1, <2>2, <2>4 DEF Room
  <2> QED
    BY <1>1, <2>1, <2>3, <2>5, <2>6, <2>7 DEF TailEmpty
<1> QED
  BY <1>2, <1>3

Same == header' = header /\ Table' = Table /\ Room' = Room /\ InUse' = InUse

(* The steps of a request that leave the table alone.                      *)
LEMMA StillSteps ==
  ASSUME TInv, NEW u \in Users,
         \/ RequestForm(u) \/ Grow(u) \/ Submit(u) \/ Verify(u) \/ Compare(u)
         \/ LogIn(u) \/ Search(u) \/ (Assign(u) /\ AtEnd(u))
  PROVE  Same
<1>1. CASE Grow(u)
  <2>1. header' = header /\ arrays' = Append(arrays, Grown(snap[u])) /\ arrays \in Seq(Seq(Entry))
    BY <1>1 DEF Grow, TInv
  <2>2. \A k \in 1 .. Len(arrays) : arrays'[k] = arrays[k]
    BY <2>1
  <2> QED
    BY <2>1, <2>2, TableStill DEF Same
<1>2. CASE ~Grow(u)
  <2>1. header' = header /\ arrays' = arrays
    BY <1>2 DEF RequestForm, Submit, Verify, Compare, LogIn, Search, Assign, memory
  <2> QED
    BY <2>1, TableStill DEF Same
<1> QED
  BY <1>1, <1>2

(* The entry of a form is stored last.                                     *)
LEMMA StoreStep ==
  ASSUME TInv, NEW u \in Users, Store(u), InOrder(u)
  PROVE  /\ header' = header /\ Room' = Room /\ InUse' = InUse
         /\ snap[u].len \in InUse /\ Table[snap[u].len] = ZeroEntry
         /\ Table' = [Table EXCEPT ![snap[u].len] = [challenge |-> chal[u], spk |-> None]]
<1> DEFINE e == [challenge |-> chal[u], spk |-> None]
<1>1. /\ snap[u].array = header.array /\ header.len = snap[u].len + 1
      /\ Table[snap[u].len] = ZeroEntry
  BY DEF Store, InOrder
<1>2. snap[u].len \in Nat /\ chal[u] \in Challenge \cup {NoChallenge}
  BY DEF TInv, Header
<1>3. e \in Entry
  BY <1>2 DEF Entry
<1>4. snap[u].len \in InUse /\ snap[u].len \in Room
  BY <1>1, <1>2, TableType DEF InUse
<1>5. header' = header /\ arrays' = Written(arrays, header.array, snap[u].len + 1, e)
  BY <1>1 DEF Store, Written
<1> HIDE DEF e
<1>6. Table' = [Table EXCEPT ![snap[u].len] = e] /\ Room' = Room /\ InUse' = InUse
  BY <1>3, <1>4, <1>5, TableWrite
<1> QED
  BY <1>1, <1>4, <1>5, <1>6 DEF e

(* A registration changes one entry in use.                                *)
LEMMA AssignStep ==
  ASSUME TInv, NEW u \in Users, Assign(u), ~AtEnd(u)
  PROVE  /\ header' = header /\ Room' = Room /\ InUse' = InUse
         /\ at[u] \in InUse
         /\ Table' = [Table EXCEPT ![at[u]] = [Table[at[u]] EXCEPT !.spk = u]]
<1>1. at[u] \in Nat /\ header.len \in Nat /\ at[u] < header.len
  BY TableType DEF TInv, AtEnd
<1>2. at[u] \in InUse /\ at[u] \in Room
  BY <1>1, TableType DEF InUse
<1> DEFINE e == [Table[at[u]] EXCEPT !.spk = u]
<1>3. Table[at[u]] \in Entry
  BY <1>2, TableType
<1>4. e \in Entry
  BY <1>3 DEF Entry
<1>5. Table[at[u]] = arrays[header.array][at[u] + 1]
  BY <1>2 DEF Table, Current
<1>6. header' = header /\ arrays' = Written(arrays, header.array, at[u] + 1, e)
  BY <1>5 DEF Assign, Written
<1> HIDE DEF e
<1>7. Table' = [Table EXCEPT ![at[u]] = e] /\ Room' = Room /\ InUse' = InUse
  BY <1>2, <1>4, <1>6, TableWrite
<1> QED
  BY <1>2, <1>6, <1>7 DEF e

\* A request changes what is kept of its own user only.
Alone(u) ==
  /\ forms <= forms'
  /\ \A v \in Users \ {u} :
       /\ pc'[v] = pc[v] /\ snap'[v] = snap[v] /\ chal'[v] = chal[v] /\ at'[v] = at[v]
       /\ result'[v] = result[v] /\ (v \in told' <=> v \in told)

LEMMA RequestAlone ==
  ASSUME TInv, NEW u \in Users, Request(u)
  PROVE  Alone(u)
<1>1. OthersKept(u) /\ forms \in Nat
  BY RequestOthers DEF TInv
<1>2. forms' = forms \/ forms' = forms + 1
  BY DEF Request, RequestForm, Grow, Publish, Extend, Store, Submit, Verify, Compare, Assign,
     LogIn, Search
<1>3. ASSUME NEW v \in Users \ {u}
      PROVE  chal'[v] = chal[v]
  <2>1. chal \in [Users -> Challenge \cup {NoChallenge}]
    BY DEF TInv
  <2>2. CASE RequestForm(u) \/ Store(u)
    BY <2>1, <2>2 DEF RequestForm, Store
  <2>3. CASE ~(RequestForm(u) \/ Store(u))
    BY <2>3 DEF Request, Grow, Publish, Extend, Submit, Verify, Compare, Assign, LogIn, Search
  <2> QED
    BY <2>2, <2>3
<1>4. ASSUME NEW v \in Users \ {u}
      PROVE  at'[v] = at[v]
  <2>1. at \in [Users -> Nat]
    BY DEF TInv
  <2>2. CASE Compare(u) \/ Assign(u) \/ Search(u)
    BY <2>1, <2>2 DEF Compare, Assign, Search
  <2>3. CASE ~(Compare(u) \/ Assign(u) \/ Search(u))
    BY <2>3 DEF Request, RequestForm, Grow, Publish, Extend, Store, Submit, Verify, LogIn
  <2> QED
    BY <2>2, <2>3
<1>5. ASSUME NEW v \in Users \ {u}
      PROVE  v \in told' <=> v \in told
  <2>1. CASE Compare(u)
    BY <2>1 DEF Compare
  <2>2. CASE ~Compare(u)
    BY <2>2 DEF Request, RequestForm, Grow, Publish, Extend, Store, Submit, Verify, Assign,
       LogIn, Search, history
  <2> QED
    BY <2>1, <2>2
<1> QED
  BY <1>1, <1>2, <1>3, <1>4, <1>5 DEF Alone, OthersKept

-----------------------------------------------------------------------------
(* In order, the memory stays one table.                                   *)

\* The step goes on in order.
InOrderStep(u) ==
  /\ IInv /\ MemoryInOrder /\ orderly
  /\ u \in Users /\ Request(u) /\ orderly'

(* Which requests go on to append, and which to update.                    *)
LEMMA NextWriters ==
  ASSUME TInv, NEW u \in Users, Request(u)
  PROVE  /\ u \in Appending' => u \in Appending \/ RequestForm(u)
         /\ u \in Updating' => u \in Updating \/ (Verify(u) /\ (orderly' => Appending = {}))
         /\ \A v \in Users \ {u} : (v \in Appending' <=> v \in Appending)
         /\ \A v \in Users \ {u} : (v \in Updating' <=> v \in Updating)
<1>1. pc \in [Users -> PCs]
  BY DEF TInv
<1>2. \A v \in Users \ {u} : pc'[v] = pc[v]
  BY RequestAlone DEF Alone
<1>3. u \in Appending' => u \in Appending \/ RequestForm(u)
  <2>1. CASE Grow(u) \/ Publish(u) \/ Extend(u) \/ Store(u)
    BY <2>1 DEF Grow, Publish, Extend, Store, Appending
  <2>2. CASE Submit(u) \/ Verify(u) \/ Assign(u) \/ LogIn(u)
    BY <1>1, <2>2 DEF Submit, Verify, Assign, LogIn, Answer, Goto, Appending
  <2>3. CASE Compare(u) \/ Search(u)
    BY <1>1, <2>3 DEF Compare, Search, Answer, Goto, Appending
  <2> QED
    BY <2>1, <2>2, <2>3 DEF Request
<1>4. u \in Updating' => u \in Updating \/ (Verify(u) /\ (orderly' => Appending = {}))
  <2>1. CASE RequestForm(u) \/ Grow(u) \/ Publish(u) \/ Extend(u) \/ Store(u)
    BY <1>1, <2>1 DEF RequestForm, Grow, Publish, Extend, Store, Goto, Updating
  <2>2. CASE Submit(u) \/ LogIn(u) \/ Search(u)
    BY <1>1, <2>2 DEF Submit, LogIn, Search, Answer, Goto, Updating
  <2>3. CASE Verify(u)
    BY <1>1, <2>3 DEF Verify, Answer, Goto, Updating
  <2>4. CASE Compare(u) \/ Assign(u)
    BY <2>4 DEF Compare, Assign, Updating
  <2> QED
    BY <2>1, <2>2, <2>3, <2>4 DEF Request
<1> QED
  BY <1>2, <1>3, <1>4 DEF Appending, Updating

LEMMA OneWriterKept ==
  ASSUME NEW u, InOrderStep(u)
  PROVE  OneWriter'
<1>1. /\ TInv /\ u \in Users /\ Request(u) /\ orderly' /\ OneWriter
  BY DEF InOrderStep, IInv, MemoryInOrder
<1>2. /\ u \in Appending' => u \in Appending \/ RequestForm(u)
      /\ u \in Updating' => u \in Updating \/ (Verify(u) /\ Appending = {})
      /\ \A v \in Users \ {u} : (v \in Appending' <=> v \in Appending)
      /\ \A v \in Users \ {u} : (v \in Updating' <=> v \in Updating)
  BY <1>1, NextWriters
<1>3. RequestForm(u) => Appending = {} /\ Updating = {}
  BY <1>1 DEF RequestForm
<1>4. /\ Appending \subseteq Users /\ Updating \subseteq Users
      /\ Appending' \subseteq Users /\ Updating' \subseteq Users
  BY DEF Appending, Updating
<1>5. ~(u \in Appending' /\ u \in Updating')
  BY DEF Appending, Updating
<1>6. CASE RequestForm(u)
  <2>1. Appending' \subseteq {u}
    BY <1>2, <1>3, <1>4, <1>6
  <2>2. u \notin Appending' \/ Updating' = {}
    BY <1>2, <1>3, <1>4, <1>5, <1>6
  <2> QED
    BY <2>1, <2>2 DEF OneWriter
<1>7. CASE ~RequestForm(u)
  <2>1. Appending' \subseteq Appending
    BY <1>2, <1>4, <1>7
  <2>2. Appending = {} \/ Updating' \subseteq Updating
    BY <1>2, <1>4
  <2> QED
    BY <1>1, <2>1, <2>2 DEF OneWriter
<1> QED
  BY <1>6, <1>7

LEMMA TailKept ==
  ASSUME NEW u, InOrderStep(u)
  PROVE  TailEmpty'
<1>1. TInv /\ u \in Users /\ Request(u) /\ TailEmpty /\ InOrder(u)
  BY DEF InOrderStep, IInv, MemoryInOrder
<1>2. CASE Same
  BY <1>1, <1>2 DEF Same, TailEmpty
<1>3. CASE Publish(u) \/ Extend(u)
  <2>1. InUse \subseteq InUse'
    BY <1>1, <1>3, TableAdd, TableType DEF InUse
  <2> QED
    BY <1>1, <1>3, <2>1, TableAdd DEF TailEmpty
<1>4. ASSUME NEW j \in InUse, NEW e, Room' = Room, InUse' = InUse, Table' = [Table EXCEPT ![j] = e]
      PROVE  TailEmpty'
  <2> SUFFICES ASSUME NEW k \in Room \ InUse PROVE Table'[k] = ZeroEntry
    BY <1>4 DEF TailEmpty
  <2>1. Table \in [Room -> Entry] /\ k # j
    BY <1>1, TableType
  <2> QED
    BY <1>1, <1>4, <2>1 DEF TailEmpty
<1>5. CASE Store(u)
  BY <1>1, <1>4, <1>5, StoreStep
<1>6. CASE Assign(u) /\ ~AtEnd(u)
  BY <1>1, <1>4, <1>6, AssignStep
<1> QED
  BY <1>1, <1>2, <1>3, <1>5, <1>6, StillSteps DEF Request

(* What the growth of an append in order prepares.                         *)
LEMMA GrowInOrder ==
  ASSUME NEW u, InOrderStep(u), Grow(u)
  PROVE  InOrder(u)'
<1>1. /\ TInv /\ u \in Users /\ snap[u] = header /\ u \in Appending
  BY DEF InOrderStep, IInv, MemoryInOrder, InOrder, Grow, Appending
<1>2. pc'[u] = "publish" /\ header' = header /\ Table' = Table
  BY <1>1, StillSteps DEF Grow, Goto, Same, TInv
<1>3. PICK g \in Seq(Entry) : g = Grown(header)
  BY <1>1, GrownArray
<1>4. arrays \in Seq(Seq(Entry)) /\ Len(arrays) \in Nat /\ header \in Header
  BY <1>1 DEF TInv
<1>5. arrays' = Append(arrays, g)
  BY <1>1, <1>3 DEF Grow
<1>6. Len(arrays') = Len(arrays) + 1 /\ arrays'[Len(arrays) + 1] = g
  BY <1>3, <1>4, <1>5
<1>7. snap'[u] = [header EXCEPT !.array = Len(arrays) + 1]
  BY <1>1 DEF Grow, TInv
<1>8. snap'[u].array = Len(arrays) + 1 /\ snap'[u].len = header.len
  BY <1>4, <1>7 DEF Header
<1>9. /\ header.len \in Nat /\ Cap(header) \in Nat /\ header.len <= Cap(header)
  BY <1>1, CapIsCapAt, CapType, TableType DEF TInv, HeaderOK
<1>10. Grown(header) = [k \in 1 .. NewCap(header) |->
                          IF k <= header.len THEN arrays[header.array][k] ELSE ZeroEntry]
  BY DEF Grown
<1>11. NewCap(header) \in Nat
  BY <1>9 DEF NewCap
<1>12. ASSUME NEW j \in 1 .. Len(g)
       PROVE  g[j] = IF j <= header.len THEN Table[j - 1] ELSE ZeroEntry
  <2>1. Len(g) = NewCap(header)
    BY <1>3, <1>10, <1>11
  <2>2. g[j] = IF j <= header.len THEN arrays[header.array][j] ELSE ZeroEntry
    BY <1>3, <1>10, <2>1
  <2>3. j <= header.len => Table[j - 1] = arrays[header.array][j]
    <3>1. j <= header.len => j - 1 \in Room /\ (j - 1) + 1 = j
      BY <1>9, <1>11, <2>1 DEF Room
    <3> QED
      BY <3>1 DEF Table, Current
  <2> QED
    BY <2>2, <2>3
<1> QED
  BY <1>2, <1>4, <1>6, <1>8, <1>12 DEF InOrder

LEMMA AppendsKept ==
  ASSUME NEW u, InOrderStep(u), NEW v \in Users
  PROVE  InOrder(v)'
<1>1. /\ TInv /\ u \in Users /\ Request(u) /\ OneWriter /\ TailEmpty /\ orderly'
      /\ InOrder(u) /\ InOrder(v)
  BY DEF InOrderStep, IInv, MemoryInOrder
<1>2. v \notin Appending' => InOrder(v)'
  BY DEF Appending, InOrder
<1>3. CASE v # u
  <2> SUFFICES ASSUME v \in Appending' PROVE InOrder(v)'
    BY <1>2
  <2>1. v \in Appending /\ pc'[v] = pc[v] /\ snap'[v] = snap[v]
    BY <1>1, <1>3, NextWriters, RequestAlone DEF Alone
  <2>2. u \notin Appending /\ Updating = {} /\ ~RequestForm(u)
    BY <1>1, <1>3, <2>1 DEF OneWriter, RequestForm
  <2>3. Submit(u) \/ Verify(u) \/ Compare(u) \/ LogIn(u) \/ Search(u)
    BY <1>1, <2>2 DEF Request, Grow, Publish, Extend, Store, Assign, Appending, Updating
  <2>4. Same /\ arrays' = arrays
    <3>1. Same
      BY <1>1, <2>3, StillSteps
    <3>2. UNCHANGED memory
      BY <2>3 DEF Submit, Verify, Compare, LogIn, Search
    <3> QED
      BY <3>1, <3>2 DEF memory
  <2> QED
    BY <1>1, <2>1, <2>4 DEF Same, InOrder
<1>4. CASE v = u
  <2>1. CASE RequestForm(u)
    <3>1. snap'[u] = header /\ header' = header /\ pc'[u] \in {"grow", "extend"}
      BY <1>1, <2>1 DEF RequestForm, Goto, TInv, memory
    <3> QED
      BY <1>4, <3>1 DEF InOrder
  <2>2. CASE Grow(u)
    BY <1>4, <2>2, GrowInOrder
  <2>3. CASE Publish(u) \/ Extend(u)
    <3>1. pc'[u] = "store" /\ snap' = snap
      BY <1>1, <2>3 DEF Publish, Extend, Goto, TInv
    <3>2. /\ snap[u].len = header.len
          /\ snap[u].array = header'.array
      BY <1>1, <2>3, TableAdd DEF Publish, Extend, InOrder
    <3>3. header.len \in Room' \ InUse /\ Table'[header.len] = ZeroEntry
      BY <1>1, <2>3, TableAdd, TableType DEF InUse
    <3> QED
      BY <1>1, <1>4, <2>3, <3>1, <3>2, <3>3, TableAdd DEF InOrder
  <2>4. CASE ~(RequestForm(u) \/ Grow(u) \/ Publish(u) \/ Extend(u))
    <3>1. u \notin Appending'
      <4>1. CASE Store(u)
        BY <1>1, <4>1 DEF Store, Goto, Appending, TInv
      <4>2. CASE ~Store(u)
        BY <1>1, <2>4, <4>2, NextWriters
           DEF Request, Submit, Verify, Compare, Assign, LogIn, Search, Appending
      <4> QED
        BY <4>1, <4>2
    <3> QED
      BY <1>2, <1>4, <3>1
  <2> QED
    BY <2>1, <2>2, <2>3, <2>4
<1> QED
  BY <1>3, <1>4

LEMMA MemoryStaysInOrder ==
  ASSUME NEW u, InOrderStep(u)
  PROVE  MemoryInOrder'
BY OneWriterKept, TailKept, AppendsKept DEF MemoryInOrder

-----------------------------------------------------------------------------
(* In order, the entries of the slice are accounts, and every handler      *)
(* finds the one that it looks for.                                        *)

Account(k) ==
  /\ Table[k].challenge \in Challenge
  /\ Table[k].challenge.no <= forms
  /\ Table[k].spk \in {None, Table[k].challenge.owner}

\* The entry of a form that is not stored yet.
Pending(k) == \E u \in Users : pc[u] = "store" /\ snap[u].len = k

AccountsInOrder ==
  /\ \A k \in InUse : Account(k) \/ Pending(k)
  /\ \A j, k \in InUse : Table[j].challenge = Table[k].challenge => j = k

Has(u) == \E k \in InUse : Table[k].spk = u

\* The challenge of a form is one's own, and has its entry once it is sent.
Owns(u) ==
  /\ chal[u] # NoChallenge => chal[u].owner = u /\ chal[u].no <= forms
  /\ u \in Appending => chal[u] # NoChallenge /\ ~Listed(chal[u])
  /\ u \notin Appending /\ chal[u] # NoChallenge => Listed(chal[u])

\* What a loop looks for is not behind it.
Seeks(u) ==
  /\ pc[u] \in {"verify", "loop", "assign"} => chal[u] # NoChallenge /\ result[u] # "loggedIn"
  /\ pc[u] \notin {"loop", "assign", "login"} => at[u] = 0
  /\ pc[u] = "loop" => Has(u) \/ \E k \in InUse : k >= at[u] /\ Table[k].challenge = chal[u]
  /\ pc[u] = "assign" => at[u] \in InUse /\ Table[at[u]].challenge = chal[u]
  /\ pc[u] = "login" /\ u \in told => \E k \in InUse : k >= at[u] /\ Table[k].spk = u

Informed(u) ==
  /\ u \in told => Has(u)
  /\ result[u] = "loginFailed" => u \notin told

Served(u) == Owns(u) /\ Seeks(u) /\ Informed(u)

InOrderInv ==
  orderly => MemoryInOrder /\ AccountsInOrder /\ \A u \in Users : Served(u)

\* A step of a request that goes on in order, from a state in order.
ServiceStep(u) == InOrderStep(u) /\ AccountsInOrder /\ \A v \in Users : Served(v)

LEMMA ChallengeType ==
  ASSUME NEW c \in Challenge
  PROVE  c.no \in Nat /\ c.owner \in Users /\ c # NoChallenge /\ c.owner # None
BY NoneAssumption, FormsAssumption DEF Challenge, NoChallenge

LEMMA ServiceStepType ==
  ASSUME NEW u, ServiceStep(u)
  PROVE  /\ TInv /\ u \in Users /\ Request(u) /\ Alone(u) /\ OneWriter /\ TailEmpty
         /\ InOrder(u) /\ Served(u) /\ AccountsInOrder /\ orderly /\ orderly'
         /\ forms \in Nat /\ header.len \in Nat /\ InUse = 0 .. header.len - 1
         /\ pc \in [Users -> PCs] /\ at \in [Users -> Nat] /\ result \in [Users -> Results]
         /\ chal \in [Users -> Challenge \cup {NoChallenge}]
         /\ Table \in [Room -> Entry] /\ InUse \subseteq Room
<1>1. InOrderStep(u) /\ AccountsInOrder /\ Served(u)
  BY DEF ServiceStep, InOrderStep
<1>2. /\ TInv /\ u \in Users /\ Request(u) /\ OneWriter /\ TailEmpty
      /\ InOrder(u) /\ orderly /\ orderly'
  BY <1>1 DEF InOrderStep, IInv, MemoryInOrder
<1>3. Alone(u)
  BY <1>2, RequestAlone
<1>4. /\ header.len \in Nat /\ InUse = 0 .. header.len - 1
      /\ Table \in [Room -> Entry] /\ InUse \subseteq Room
  BY <1>2, TableType DEF InUse
<1>5. /\ forms \in Nat /\ chal \in [Users -> Challenge \cup {NoChallenge}]
      /\ pc \in [Users -> PCs] /\ at \in [Users -> Nat] /\ result \in [Users -> Results]
  BY <1>2 DEF TInv
<1> QED
  BY <1>1, <1>2, <1>3, <1>4, <1>5

(* No other form is being stored while a user's form is prepared.          *)
LEMMA NothingPending ==
  ASSUME NEW u \in Users, OneWriter, AccountsInOrder,
         \/ Appending = {}
         \/ Updating # {}
         \/ u \in Appending /\ pc[u] # "store"
  PROVE  \A k \in InUse : Account(k)
BY DEF AccountsInOrder, Pending, OneWriter, Appending

LEMMA OthersAccounts ==
  ASSUME NEW u \in Users, OneWriter, AccountsInOrder, pc[u] = "store", snap[u].len \in Nat
  PROVE  \A k \in InUse \ {snap[u].len} : Account(k)
BY DEF AccountsInOrder, Pending, OneWriter, Appending

(* A form that is stored does not touch the other entries.                 *)
LEMMA AccountsStored ==
  ASSUME NEW u, ServiceStep(u), Store(u)
  PROVE  AccountsInOrder'
<1>1. /\ header' = header /\ Room' = Room /\ InUse' = InUse /\ forms' = forms
      /\ snap[u].len \in InUse
      /\ Table' = [Table EXCEPT ![snap[u].len] = [challenge |-> chal[u], spk |-> None]]
  BY ServiceStepType, StoreStep DEF Store
<1>2. chal[u] \in Challenge /\ chal[u].no <= forms /\ ~Listed(chal[u])
  BY ServiceStepType DEF Served, Owns, Store, Appending
<1>3. \A k \in InUse \ {snap[u].len} : Account(k)
  <2>1. pc[u] = "store" /\ snap[u].len \in Nat
    <3>1. pc[u] = "store"
      BY DEF Store
    <3>2. TInv /\ u \in Users
      BY ServiceStepType
    <3> QED
      BY <3>1, <3>2 DEF TInv, Header
  <2> QED
    BY <2>1, ServiceStepType, OthersAccounts
<1>4. \A k \in InUse \ {snap[u].len} : Table'[k] = Table[k]
  BY <1>1, ServiceStepType
<1>5. Table'[snap[u].len] = [challenge |-> chal[u], spk |-> None]
  BY <1>1, ServiceStepType
<1>6. \A k \in InUse : Account(k)'
  BY <1>1, <1>2, <1>3, <1>4, <1>5 DEF Account
<1>7. ASSUME NEW j \in InUse, NEW k \in InUse, Table'[j].challenge = Table'[k].challenge
      PROVE  j = k
  <2>1. CASE j = snap[u].len \/ k = snap[u].len
    BY <1>2, <1>4, <1>5, <1>7, <2>1 DEF Listed
  <2>2. CASE j # snap[u].len /\ k # snap[u].len
    BY <1>4, <1>7, <2>2, ServiceStepType DEF AccountsInOrder
  <2> QED
    BY <2>1, <2>2
<1> QED
  BY <1>1, <1>6, <1>7 DEF AccountsInOrder

(* A new entry has no challenge yet.                                       *)
LEMMA AccountsAdded ==
  ASSUME NEW u, ServiceStep(u), Publish(u) \/ Extend(u)
  PROVE  AccountsInOrder'
<1>1. /\ InUse' = InUse \cup {header.len} /\ forms' = forms
      /\ \A k \in InUse : Table'[k] = Table[k]
      /\ Table'[header.len] = ZeroEntry /\ header.len \notin InUse
  <2>1. /\ header'.len = header.len + 1 /\ header.len \in Room'
        /\ \A k \in InUse : Table'[k] = Table[k]
        /\ \A k \in Room' \ InUse : Table'[k] = ZeroEntry
    BY ServiceStepType, TableAdd
  <2>2. header.len \notin InUse /\ InUse' = InUse \cup {header.len}
    BY <2>1, ServiceStepType DEF InUse
  <2> QED
    BY <2>1, <2>2 DEF Publish, Extend
<1>2. \A k \in InUse : Account(k)
  BY ServiceStepType, NothingPending DEF Publish, Extend, Appending
<1>3. \A k \in InUse : Account(k)'
  BY <1>1, <1>2 DEF Account
<1>4. \A k \in InUse' \ InUse : Pending(k)'
  <2>1. u \in Users /\ snap[u].len = header.len
    BY ServiceStepType DEF Publish, Extend, InOrder
  <2>2. pc'[u] = "store" /\ snap' = snap
    BY ServiceStepType DEF Publish, Extend, Goto
  <2> QED
    BY <1>1, <2>1, <2>2 DEF Pending
<1>5. \A k \in InUse : Table'[k].challenge # Table'[header.len].challenge
  <2> SUFFICES ASSUME NEW k \in InUse PROVE Table'[k].challenge # Table'[header.len].challenge
    OBVIOUS
  <2>1. Table[k].challenge \in Challenge /\ Table'[k] = Table[k]
    BY <1>1, <1>2 DEF Account
  <2>2. Table'[header.len].challenge = NoChallenge
    BY <1>1 DEF ZeroEntry
  <2> QED
    BY <2>1, <2>2, ChallengeType
<1>6. \A j, k \in InUse' : Table'[j].challenge = Table'[k].challenge => j = k
  <2>1. \A j, k \in InUse : Table[j].challenge = Table[k].challenge => j = k
    BY ServiceStepType DEF AccountsInOrder
  <2> SUFFICES ASSUME NEW j \in InUse', NEW k \in InUse',
                      Table'[j].challenge = Table'[k].challenge
               PROVE  j = k
    OBVIOUS
  <2>2. CASE j \in InUse /\ k \in InUse
    BY <1>1, <2>1, <2>2
  <2>3. CASE j = header.len \/ k = header.len
    BY <1>1, <1>5, <2>3
  <2> QED
    BY <1>1, <2>2, <2>3
<1>7. \A k \in InUse' : Account(k)' \/ Pending(k)'
  BY <1>1, <1>3, <1>4
<1> QED
  BY <1>6, <1>7 DEF AccountsInOrder

(* A registration gives an account the key of its owner.                   *)
LEMMA AccountsAssigned ==
  ASSUME NEW u, ServiceStep(u), Assign(u), ~AtEnd(u)
  PROVE  AccountsInOrder'
<1>1. /\ InUse' = InUse /\ forms' = forms /\ at[u] \in InUse
      /\ Table' = [Table EXCEPT ![at[u]] = [Table[at[u]] EXCEPT !.spk = u]]
  BY ServiceStepType, AssignStep DEF Assign
<1>2. \A k \in InUse : Account(k)
  BY ServiceStepType, NothingPending DEF Assign, Updating
<1>3. Table[at[u]].challenge = chal[u] /\ chal[u].owner = u
  BY ServiceStepType DEF Served, Seeks, Owns, Assign
<1>4. /\ Table[at[u]] \in Entry
      /\ \A k \in InUse \ {at[u]} : Table'[k] = Table[k]
      /\ Table'[at[u]] = [Table[at[u]] EXCEPT !.spk = u]
  BY <1>1, ServiceStepType
<1>5. Table'[at[u]].challenge = Table[at[u]].challenge /\ Table'[at[u]].spk = u
  BY <1>4 DEF Entry
<1>6. \A k \in InUse : Account(k)'
  BY <1>1, <1>2, <1>3, <1>4, <1>5 DEF Account
<1>7. \A k \in InUse : Table'[k].challenge = Table[k].challenge
  BY <1>4, <1>5
<1> QED
  BY <1>1, <1>6, <1>7, ServiceStepType DEF AccountsInOrder

LEMMA AccountsStayInOrder ==
  ASSUME NEW u, ServiceStep(u)
  PROVE  AccountsInOrder'
<1>1. CASE Same /\ ~Store(u)
  <2>1. ASSUME NEW k \in InUse PROVE Account(k)' \/ Pending(k)'
    <3>1. CASE Account(k)
      <4>1. Table'[k] = Table[k] /\ forms <= forms' /\ forms' \in Int
        BY <1>1, ServiceStepType, HandlerTypes DEF Same, Alone, LocalOK, Next, Request
      <4> QED
        BY <3>1, <4>1, ServiceStepType, ChallengeType DEF Account
    <3>2. CASE Pending(k)
      <4>1. PICK w \in Users : pc[w] = "store" /\ snap[w].len = k
        BY <3>2 DEF Pending
      <4>2. w # u
        BY <1>1, <4>1, ServiceStepType
           DEF Request, RequestForm, Grow, Publish, Extend, Submit, Verify, Compare, Assign,
               LogIn, Search
      <4>3. pc'[w] = pc[w] /\ snap'[w] = snap[w]
        BY <4>2, ServiceStepType DEF Alone
      <4> QED
        BY <4>1, <4>3 DEF Pending
    <3> QED
      BY <2>1, <3>1, <3>2, ServiceStepType DEF AccountsInOrder
  <2> QED
    BY <1>1, <2>1, ServiceStepType DEF Same, AccountsInOrder
<1>2. CASE Store(u)
  BY <1>2, AccountsStored
<1>3. CASE Publish(u) \/ Extend(u)
  BY <1>3, AccountsAdded
<1>4. CASE Assign(u) /\ ~AtEnd(u)
  BY <1>4, AccountsAssigned
<1> QED
  BY <1>1, <1>2, <1>3, <1>4, StillSteps, ServiceStepType DEF Request

\* What the entries keep in a step of u: their challenge, and any key but u.
EntriesKept(u) ==
  /\ InUse \subseteq InUse'
  /\ \A k \in InUse : Table[k].challenge # NoChallenge => Table'[k].challenge = Table[k].challenge
  /\ \A k \in InUse : \A v \in Users \ {u} : Table[k].spk = v => Table'[k].spk = v

(* Nothing that another user has or looks for is lost.                     *)
LEMMA StepKeepsEntries ==
  ASSUME NEW u, ServiceStep(u)
  PROVE  /\ EntriesKept(u)
         /\ \A k \in InUse : Table[k].spk = u => Table'[k].spk = u
<1>1. CASE Same
  BY <1>1 DEF Same, EntriesKept
<1>2. CASE Publish(u) \/ Extend(u)
  <2>1. header'.len = header.len + 1 /\ \A k \in InUse : Table'[k] = Table[k]
    BY <1>2, ServiceStepType, TableAdd
  <2>2. InUse \subseteq InUse'
    BY <2>1, ServiceStepType DEF InUse
  <2> QED
    BY <2>1, <2>2 DEF EntriesKept
<1>3. CASE Store(u)
  <2>1. /\ InUse' = InUse /\ snap[u].len \in InUse /\ Table[snap[u].len] = ZeroEntry
        /\ Table' = [Table EXCEPT ![snap[u].len] = [challenge |-> chal[u], spk |-> None]]
    BY <1>3, ServiceStepType, StoreStep
  <2>2. \A k \in InUse : k = snap[u].len \/ Table'[k] = Table[k]
    BY <2>1, ServiceStepType
  <2>3. Table[snap[u].len].challenge = NoChallenge /\ Table[snap[u].len].spk \notin Users
    BY <2>1, NoneAssumption DEF ZeroEntry
  <2> QED
    BY <2>1, <2>2, <2>3, ServiceStepType DEF EntriesKept
<1>4. CASE Assign(u) /\ ~AtEnd(u)
  <2>1. /\ InUse' = InUse /\ at[u] \in InUse
        /\ Table' = [Table EXCEPT ![at[u]] = [Table[at[u]] EXCEPT !.spk = u]]
    BY <1>4, ServiceStepType, AssignStep
  <2>2. /\ Table[at[u]] \in Entry
        /\ \A k \in InUse : k = at[u] \/ Table'[k] = Table[k]
        /\ Table'[at[u]] = [Table[at[u]] EXCEPT !.spk = u]
    BY <2>1, ServiceStepType
  <2>3. Table'[at[u]].challenge = Table[at[u]].challenge /\ Table'[at[u]].spk = u
    BY <2>2 DEF Entry
  <2>4. Account(at[u])
    BY <1>4, <2>1, ServiceStepType, NothingPending DEF Assign, Updating
  <2>5. Table[at[u]].spk \in {None, u}
    BY <1>4, <2>4, ServiceStepType DEF Account, Assign, Served, Seeks, Owns
  <2>6. \A v \in Users \ {u} : Table[at[u]].spk # v
    BY <2>5, NoneAssumption
  <2> QED
    BY <2>1, <2>2, <2>3, <2>6 DEF EntriesKept
<1> QED
  BY <1>1, <1>2, <1>3, <1>4, StillSteps, ServiceStepType DEF Request

(* Of the users of other requests, one prepares a form only while the      *)
(* table stands still.                                                     *)
LEMMA OthersServed ==
  ASSUME NEW u, ServiceStep(u), NEW v \in Users \ {u}
  PROVE  Served(v)'
<1>1. /\ pc'[v] = pc[v] /\ chal'[v] = chal[v] /\ at'[v] = at[v]
      /\ result'[v] = result[v] /\ (v \in told' <=> v \in told)
      /\ forms <= forms' /\ forms' \in Int
  BY ServiceStepType, HandlerTypes DEF Alone, LocalOK, Next, Request
<1>2. v \in Appending' <=> v \in Appending
  BY ServiceStepType, NextWriters
<1>3. /\ InUse \subseteq InUse'
      /\ \A k \in InUse : Table[k].challenge # NoChallenge =>
           Table'[k].challenge = Table[k].challenge
      /\ \A k \in InUse : Table[k].spk = v => Table'[k].spk = v
  BY StepKeepsEntries DEF EntriesKept
<1>4. Owns(v) /\ Seeks(v) /\ Informed(v)
  BY DEF ServiceStep, Served
<1>5. v \in Appending => Same
  <2> SUFFICES ASSUME v \in Appending PROVE Same
    OBVIOUS
  <2>1. u \notin Appending /\ Updating = {} /\ ~RequestForm(u)
    BY ServiceStepType DEF OneWriter, RequestForm
  <2>2. Submit(u) \/ Verify(u) \/ Compare(u) \/ LogIn(u) \/ Search(u)
    BY <2>1, ServiceStepType
       DEF Request, Grow, Publish, Extend, Store, Assign, Appending, Updating
  <2> QED
    BY <2>2, ServiceStepType, StillSteps
<1>7. Has(v) => Has(v)'
  BY <1>3 DEF Has
<1>8. Owns(v)'
  <2>1. chal[v] # NoChallenge => chal[v].no \in Int
    BY ServiceStepType, ChallengeType
  <2>2. chal'[v] # NoChallenge => chal'[v].owner = v /\ chal'[v].no <= forms'
    BY <1>1, <1>4, <2>1, ServiceStepType DEF Owns
  <2>3. v \in Appending' => chal'[v] # NoChallenge /\ ~Listed(chal[v])'
    BY <1>1, <1>2, <1>4, <1>5 DEF Owns, Same, Listed
  <2>4. v \notin Appending' /\ chal'[v] # NoChallenge => Listed(chal[v])'
    BY <1>1, <1>2, <1>3, <1>4 DEF Owns, Listed
  <2> QED
    BY <1>1, <2>2, <2>3, <2>4 DEF Owns
<1>9. Seeks(v)'
  <2>1. pc[v] = "loop" =>
          Has(v)' \/ \E k \in InUse' : k >= at[v] /\ Table'[k].challenge = chal[v]
    BY <1>3, <1>4, <1>7 DEF Seeks
  <2>2. pc[v] = "assign" => at[v] \in InUse' /\ Table'[at[v]].challenge = chal[v]
    BY <1>3, <1>4 DEF Seeks
  <2>3. pc[v] = "login" /\ v \in told => \E k \in InUse' : k >= at[v] /\ Table'[k].spk = v
    BY <1>3, <1>4 DEF Seeks
  <2> QED
    BY <1>1, <1>4, <2>1, <2>2, <2>3 DEF Seeks
<1>10. Informed(v)'
  BY <1>1, <1>4, <1>7 DEF Informed
<1> QED
  BY <1>8, <1>9, <1>10 DEF Served

(* The challenge of a new form is not in the slice yet.                    *)
LEMMA FormServed ==
  ASSUME NEW u, ServiceStep(u), RequestForm(u)
  PROVE  Served(u)'
<1>1. Same /\ told' = told /\ result' = result /\ at' = at /\ forms' = forms + 1
  BY ServiceStepType, StillSteps DEF RequestForm
<1>2. pc[u] = "out" /\ pc'[u] \in {"grow", "extend"} /\ u \in Appending'
  BY ServiceStepType DEF RequestForm, Goto, Appending
<1>3. chal'[u] = [no |-> forms + 1, owner |-> u]
  BY ServiceStepType DEF RequestForm
<1>4. chal'[u].no = forms + 1 /\ chal'[u].owner = u
  BY <1>3
<1>5. chal'[u] # NoChallenge
  BY <1>4, ServiceStepType DEF NoChallenge
<1>6. \A k \in InUse : Account(k)
  BY ServiceStepType, NothingPending DEF RequestForm
<1>7. ASSUME NEW k \in InUse PROVE Table[k].challenge # chal'[u]
  BY <1>4, <1>6, <1>7, ServiceStepType, ChallengeType DEF Account
<1>8. ~Listed(chal[u])'
  BY <1>1, <1>7 DEF Listed, Same
<1>9. Owns(u)'
  BY <1>1, <1>2, <1>4, <1>5, <1>8, ServiceStepType DEF Owns
<1>10. Seeks(u) /\ Informed(u)
  BY ServiceStepType DEF Served
<1>11. Has(u)' <=> Has(u)
  BY <1>1 DEF Same, Has
<1>12. Seeks(u)' /\ Informed(u)'
  BY <1>1, <1>2, <1>10, <1>11 DEF Seeks, Informed
<1> QED
  BY <1>9, <1>12 DEF Served

(* A running append leaves its user as it was until the entry is stored.   *)
LEMMA AppendServed ==
  ASSUME NEW u, ServiceStep(u), Grow(u) \/ Publish(u) \/ Extend(u)
  PROVE  Served(u)'
<1>1. told' = told /\ result' = result /\ at' = at /\ forms' = forms /\ chal' = chal
  BY DEF Grow, Publish, Extend, history
<1>2. /\ pc[u] \in {"grow", "publish", "extend"} /\ pc'[u] \in {"publish", "store"}
      /\ u \in Appending /\ u \in Appending'
  BY ServiceStepType DEF Grow, Publish, Extend, Goto, Appending
<1>3. chal[u] # NoChallenge /\ ~Listed(chal[u])
  BY <1>2, ServiceStepType DEF Served, Owns
<1>4. ~Listed(chal[u])'
  <2>1. CASE Grow(u)
    BY <1>1, <1>3, <2>1, ServiceStepType, StillSteps DEF Same, Listed
  <2>2. CASE Publish(u) \/ Extend(u)
    <3>1. /\ header'.len = header.len + 1 /\ header.len \in Room'
          /\ \A k \in InUse : Table'[k] = Table[k]
          /\ \A k \in Room' \ InUse : Table'[k] = ZeroEntry
      BY <2>2, ServiceStepType, TableAdd
    <3>2. InUse' = InUse \cup {header.len} /\ header.len \notin InUse
      BY <3>1, ServiceStepType DEF InUse
    <3>3. Table'[header.len].challenge = NoChallenge
      BY <3>1, <3>2 DEF ZeroEntry
    <3>4. \A k \in InUse' : Table'[k].challenge # chal[u]
      BY <1>3, <3>1, <3>2, <3>3 DEF Listed
    <3> QED
      BY <1>1, <3>4 DEF Listed
  <2> QED
    BY <2>1, <2>2
<1>5. Owns(u) /\ Seeks(u) /\ Informed(u)
  BY ServiceStepType DEF Served
<1>6. Has(u) => Has(u)'
  BY StepKeepsEntries DEF EntriesKept, Has
<1>7. Owns(u)'
  BY <1>1, <1>2, <1>4, <1>5 DEF Owns
<1>8. Seeks(u)' /\ Informed(u)'
  BY <1>1, <1>2, <1>5, <1>6 DEF Seeks, Informed
<1> QED
  BY <1>7, <1>8 DEF Served

(* A form that is sent has its entry.                                      *)
LEMMA StoreServed ==
  ASSUME NEW u, ServiceStep(u), Store(u)
  PROVE  Served(u)'
<1>1. told' = told /\ result' = result /\ at' = at /\ forms' = forms
  BY DEF Store, history
<1>2. pc[u] = "store" /\ pc'[u] = "out" /\ u \notin Appending'
  BY ServiceStepType DEF Store, Goto, Appending
<1>3. chal'[u] \in {chal[u], NoChallenge}
  BY ServiceStepType DEF Store
<1>4. Owns(u) /\ Seeks(u) /\ Informed(u)
  BY ServiceStepType DEF Served
<1>5. /\ snap[u].len \in InUse'
      /\ Table'[snap[u].len] = [challenge |-> chal[u], spk |-> None]
  BY ServiceStepType, StoreStep
<1>6. Table'[snap[u].len].challenge = chal[u]
  BY <1>5
<1>7. chal'[u] # NoChallenge => Listed(chal[u])'
  BY <1>3, <1>5, <1>6 DEF Listed
<1>8. Has(u) => Has(u)'
  BY StepKeepsEntries DEF EntriesKept, Has
<1>9. Owns(u)'
  BY <1>1, <1>2, <1>3, <1>4, <1>7 DEF Owns
<1>10. Seeks(u)' /\ Informed(u)'
  BY <1>1, <1>2, <1>4, <1>8 DEF Seeks, Informed
<1> QED
  BY <1>9, <1>10 DEF Served

(* The other handlers change neither the form nor where it is listed.      *)
LEMMA OwnsKept ==
  ASSUME NEW u, ServiceStep(u), u \notin Appending, u \notin Appending',
         chal' = chal, forms' = forms
  PROVE  Owns(u)'
<1>1. /\ Owns(u)
      /\ InUse \subseteq InUse'
      /\ \A k \in InUse : Table[k].challenge # NoChallenge =>
           Table'[k].challenge = Table[k].challenge
  BY ServiceStepType, StepKeepsEntries DEF Served, EntriesKept
<1>2. chal[u] # NoChallenge => \E k \in InUse' : Table'[k].challenge = chal[u]
  BY <1>1 DEF Owns, Listed
<1>3. chal'[u] # NoChallenge => Listed(chal[u])'
  BY <1>2 DEF Listed
<1> QED
  BY <1>1, <1>3 DEF Owns

(* A login or a signup begins at the first entry.                          *)
LEMMA BeginServed ==
  ASSUME NEW u, ServiceStep(u), Submit(u) \/ Verify(u) \/ LogIn(u)
  PROVE  Served(u)'
<1>1. told' = told /\ at' = at /\ forms' = forms /\ chal' = chal
  BY DEF Submit, Verify, LogIn, history
<1>2. Same /\ Owns(u) /\ Seeks(u) /\ Informed(u)
  BY ServiceStepType, StillSteps DEF Served
<1>3. /\ pc[u] \in {"out", "verify"} /\ u \notin Appending /\ at[u] = 0
      /\ result'[u] \in {"other", result[u]}
  BY <1>2, ServiceStepType DEF Submit, Verify, LogIn, Answer, Appending, Seeks
<1>4. /\ pc'[u] \in {"out", "verify", "loop", "login"}
      /\ pc'[u] \in {"verify", "loop"} => chal[u] # NoChallenge /\ result'[u] # "loggedIn"
  BY <1>2, ServiceStepType DEF Submit, Verify, LogIn, Answer, Goto, Seeks
<1>5. u \notin Appending'
  BY <1>4 DEF Appending
<1>6. \A k \in InUse : k >= 0
  BY ServiceStepType
<1>7. pc'[u] = "loop" => \E k \in InUse : k >= at[u] /\ Table[k].challenge = chal[u]
  BY <1>2, <1>3, <1>4, <1>6 DEF Owns, Listed
<1>8. u \in told => \E k \in InUse : k >= at[u] /\ Table[k].spk = u
  BY <1>2, <1>3, <1>6 DEF Informed, Has
<1>9. Seeks(u)'
  BY <1>1, <1>2, <1>3, <1>4, <1>7, <1>8 DEF Seeks, Same
<1>10. Has(u)' <=> Has(u)
  BY <1>2 DEF Same, Has
<1>11. Informed(u)'
  BY <1>1, <1>2, <1>3, <1>10 DEF Informed
<1>12. Owns(u)'
  BY <1>1, <1>3, <1>5, OwnsKept
<1> QED
  BY <1>9, <1>11, <1>12 DEF Served

(* The entry that a loop compares is one of the table.                     *)
LEMMA AtTable ==
  ASSUME NEW u, ServiceStep(u)
  PROVE  /\ AtEnd(u) <=> \A k \in InUse : k < at[u]
         /\ ~AtEnd(u) => at[u] \in InUse /\ Current(at[u]) = Table[at[u]]
<1>1. at[u] \in Nat /\ header.len \in Nat /\ InUse = 0 .. header.len - 1 /\ InUse \subseteq Room
  BY ServiceStepType
<1>2. AtEnd(u) => \A k \in InUse : k < at[u]
  BY <1>1 DEF AtEnd
<1>3. ~AtEnd(u) => at[u] \in InUse /\ ~(at[u] < at[u])
  BY <1>1 DEF AtEnd
<1>4. at[u] \in InUse => Current(at[u]) = Table[at[u]]
  BY <1>1 DEF Table
<1> QED
  BY <1>2, <1>3, <1>4

(* A loop that comes to the end has met the entry that it looked for: the  *)
(* success page is sent to users with an account only.                     *)
LEMMA CompareServed ==
  ASSUME NEW u, ServiceStep(u), Compare(u)
  PROVE  /\ Served(u)'
         /\ AtEnd(u) => Has(u) /\ result[u] # "loggedIn"
<1>1. /\ Same /\ Owns(u) /\ Seeks(u) /\ Informed(u) /\ at[u] \in Nat
      /\ forms' = forms /\ chal' = chal
  BY ServiceStepType, StillSteps DEF Served, Compare
<1>2. /\ pc[u] = "loop" /\ u \notin Appending /\ result[u] # "loggedIn"
      /\ pc'[u] \in {"out", "loop", "assign"}
  BY <1>1, ServiceStepType DEF Compare, Answer, Goto, Appending, Seeks
<1>3. u \notin Appending'
  BY <1>2 DEF Appending
<1>4. Owns(u)'
  BY <1>1, <1>2, <1>3, OwnsKept
<1>5. Has(u) \/ \E k \in InUse : k >= at[u] /\ Table[k].challenge = chal[u]
  BY <1>1, <1>2 DEF Seeks
<1>6. chal[u] # NoChallenge
  BY <1>1, <1>2 DEF Seeks
<1>7. Has(u)' <=> Has(u)
  BY <1>1 DEF Same, Has
<1>8. CASE AtEnd(u)
  <2>1. Has(u)
    BY <1>1, <1>5, <1>8, AtTable, ServiceStepType
  <2>2. /\ pc'[u] = "out" /\ at'[u] = 0 /\ result'[u] = "other"
    BY <1>8, ServiceStepType DEF Compare, Answer, Goto
  <2> QED
    BY <1>2, <1>4, <1>7, <2>1, <2>2 DEF Served, Seeks, Informed
<1>9. CASE ~AtEnd(u) /\ Current(at[u]).challenge # chal[u]
  <2>1. pc' = pc /\ result' = result /\ told' = told /\ at'[u] = at[u] + 1
    BY <1>9, ServiceStepType DEF Compare
  <2>2. at[u] \in InUse /\ Table[at[u]].challenge # chal[u]
    BY <1>9, AtTable
  <2>3. Has(u) \/ \E k \in InUse : k >= at[u] + 1 /\ Table[k].challenge = chal[u]
    <3>1. \A k \in InUse : k >= at[u] /\ k # at[u] => k >= at[u] + 1
      BY <1>1, ServiceStepType
    <3> QED
      BY <1>5, <2>2, <3>1
  <2>4. Seeks(u)'
    BY <1>1, <1>2, <1>6, <1>7, <2>1, <2>3 DEF Seeks, Same
  <2>5. Informed(u)'
    BY <1>1, <1>7, <2>1 DEF Informed
  <2> QED
    BY <1>4, <1>9, <2>4, <2>5 DEF Served
<1>10. CASE ~AtEnd(u) /\ Current(at[u]).challenge = chal[u]
  <2>1. result' = result /\ told' = told /\ at' = at /\ pc'[u] = "assign"
    BY <1>10, ServiceStepType DEF Compare, Goto
  <2>2. at[u] \in InUse /\ Table[at[u]].challenge = chal[u]
    BY <1>10, AtTable
  <2>3. Seeks(u)'
    BY <1>1, <1>2, <1>6, <2>1, <2>2 DEF Seeks, Same
  <2>4. Informed(u)'
    BY <1>1, <1>7, <2>1 DEF Informed
  <2> QED
    BY <1>4, <1>10, <2>3, <2>4 DEF Served
<1> QED
  BY <1>8, <1>9, <1>10

(* A match is still where it was found, and is assigned.                   *)
LEMMA AssignServed ==
  ASSUME NEW u, ServiceStep(u), Assign(u)
  PROVE  /\ Served(u)'
         /\ ~AtEnd(u) /\ Table[at[u]].challenge = chal[u] /\ result' = result
<1>1. /\ Owns(u) /\ Seeks(u) /\ Informed(u) /\ at[u] \in Nat
      /\ forms' = forms /\ chal' = chal /\ told' = told
  BY ServiceStepType DEF Served, Assign, history
<1>2. /\ pc[u] = "assign" /\ u \notin Appending /\ result[u] # "loggedIn"
      /\ at[u] \in InUse /\ Table[at[u]].challenge = chal[u] /\ chal[u] # NoChallenge
  BY <1>1 DEF Assign, Appending, Seeks
<1>3. ~AtEnd(u)
  BY <1>1, <1>2, AtTable
<1>4. pc'[u] = "loop" /\ result' = result /\ at'[u] = at[u] + 1
  BY <1>3, ServiceStepType DEF Assign, Goto
<1>5. u \notin Appending'
  BY <1>4 DEF Appending
<1>6. Owns(u)'
  BY <1>1, <1>2, <1>5, OwnsKept
<1>7. /\ InUse' = InUse /\ Table[at[u]] \in Entry
      /\ Table' = [Table EXCEPT ![at[u]] = [Table[at[u]] EXCEPT !.spk = u]]
  BY <1>2, <1>3, ServiceStepType, AssignStep
<1>8. Table'[at[u]].spk = u
  <2>1. Table'[at[u]] = [Table[at[u]] EXCEPT !.spk = u]
    BY <1>2, <1>7, ServiceStepType
  <2> QED
    BY <1>7, <2>1 DEF Entry
<1>9. Has(u)'
  BY <1>2, <1>7, <1>8 DEF Has
<1>10. Seeks(u)' /\ Informed(u)'
  BY <1>1, <1>2, <1>4, <1>9 DEF Seeks, Informed
<1> QED
  BY <1>2, <1>3, <1>4, <1>6, <1>10 DEF Served

(* A search that comes to the end has passed no entry with the key.        *)
LEMMA SearchServed ==
  ASSUME NEW u, ServiceStep(u), Search(u)
  PROVE  /\ Served(u)'
         /\ result'[u] = "loggedIn" => Has(u) \/ result[u] = "loggedIn"
<1>1. /\ Same /\ Owns(u) /\ Seeks(u) /\ Informed(u) /\ at[u] \in Nat
      /\ forms' = forms /\ chal' = chal /\ told' = told
  BY ServiceStepType, StillSteps DEF Served, Search, history
<1>2. /\ pc[u] = "login" /\ u \notin Appending
      /\ pc'[u] \in {"out", "login"}
  BY ServiceStepType DEF Search, Answer, Goto, Appending
<1>3. u \notin Appending'
  BY <1>2 DEF Appending
<1>4. Owns(u)'
  BY <1>1, <1>2, <1>3, OwnsKept
<1>5. u \in told => \E k \in InUse : k >= at[u] /\ Table[k].spk = u
  BY <1>1, <1>2 DEF Seeks
<1>6. Has(u)' <=> Has(u)
  BY <1>1 DEF Same, Has
<1>7. CASE AtEnd(u)
  <2>1. u \notin told
    BY <1>1, <1>5, <1>7, AtTable, ServiceStepType
  <2>2. pc'[u] = "out" /\ at'[u] = 0 /\ result'[u] \in {"loginFailed", "other"}
    BY <1>7, ServiceStepType DEF Search, Answer, Goto
  <2> QED
    BY <1>1, <1>4, <2>1, <2>2 DEF Served, Seeks, Informed
<1>8. CASE ~AtEnd(u) /\ ~Finds(u, at[u])
  <2>1. pc' = pc /\ result' = result /\ at'[u] = at[u] + 1
    BY <1>8, ServiceStepType DEF Search
  <2>2. at[u] \in InUse /\ Table[at[u]].spk # u
    BY <1>8, AtTable DEF Finds
  <2>3. u \in told => \E k \in InUse : k >= at[u] + 1 /\ Table[k].spk = u
    <3>1. \A k \in InUse : k >= at[u] /\ k # at[u] => k >= at[u] + 1
      BY <1>1, ServiceStepType
    <3> QED
      BY <1>5, <2>2, <3>1
  <2>4. Seeks(u)'
    BY <1>1, <1>2, <2>1, <2>3 DEF Seeks, Same
  <2>5. Informed(u)'
    BY <1>1, <1>6, <2>1 DEF Informed
  <2> QED
    BY <1>4, <2>1, <2>4, <2>5 DEF Served
<1>9. CASE ~AtEnd(u) /\ Finds(u, at[u])
  <2>1. pc'[u] = "out" /\ at'[u] = 0 /\ result'[u] \in {"loggedIn", "other"}
    BY <1>9, ServiceStepType DEF Search, Answer, Goto
  <2>2. Has(u)
    BY <1>9, AtTable DEF Finds, Has
  <2> QED
    BY <1>1, <1>4, <1>6, <2>1, <2>2 DEF Served, Seeks, Informed
<1> QED
  BY <1>7, <1>8, <1>9

(* In order, the service stays in order.                                   *)
LEMMA ServiceStaysInOrder ==
  ASSUME NEW u, ServiceStep(u)
  PROVE  MemoryInOrder' /\ AccountsInOrder' /\ (\A v \in Users : Served(v))'
<1>1. Served(u)'
  BY FormServed, AppendServed, StoreServed, BeginServed, CompareServed, AssignServed,
     SearchServed, ServiceStepType DEF Request
<1>2. \A v \in Users \ {u} : Served(v)'
  BY OthersServed
<1> QED
  BY <1>1, <1>2, MemoryStaysInOrder, AccountsStayInOrder DEF ServiceStep

LEMMA InOrderInit == Init => InOrderInv
<1> SUFFICES ASSUME Init PROVE InOrderInv
  OBVIOUS
<1>1. header.len = 0 /\ Cap(header) = 0 /\ Appending = {} /\ Updating = {}
  BY DEF Init, NilSlice, Cap, Appending, Updating
<1>2. InUse = {} /\ Room = {}
  BY <1>1 DEF InUse, Room
<1>3. MemoryInOrder
  BY <1>1, <1>2 DEF Init, MemoryInOrder, OneWriter, TailEmpty, InOrder
<1>4. AccountsInOrder /\ \A u \in Users : Served(u)
  BY <1>1, <1>2 DEF Init, AccountsInOrder, Served, Owns, Seeks, Informed
<1> QED
  BY <1>3, <1>4 DEF InOrderInv

LEMMA InOrderInvStep == IInv /\ InOrderInv /\ [Next]_vars => InOrderInv'
<1> SUFFICES ASSUME IInv, InOrderInv, [Next]_vars, orderly' PROVE InOrderInv'
  BY DEF InOrderInv
<1>1. CASE UNCHANGED vars
  <2>1. orderly /\ Same
    BY <1>1, TableStill DEF vars, memory, history, Same, IInv
  <2> QED
    BY <1>1, <2>1 DEF vars, memory, history, Same, InOrderInv, MemoryInOrder, OneWriter, TailEmpty,
       InOrder, AccountsInOrder, Account, Pending, Served, Owns, Seeks, Informed, Has, Listed,
       Appending, Updating
<1>2. ASSUME NEW u \in Users, Request(u) PROVE InOrderInv'
  <2>1. orderly
    BY <1>2 DEF Request, RequestForm, Grow, Publish, Extend, Store, Submit, Verify, Compare,
       Assign, LogIn, Search, history
  <2>2. ServiceStep(u)
    BY <1>2, <2>1 DEF InOrderInv, ServiceStep, InOrderStep
  <2> QED
    BY <2>2, ServiceStaysInOrder DEF InOrderInv
<1>3. ~Exit
  BY DEF Exit
<1> QED
  BY <1>1, <1>2, <1>3 DEF Next, Request

LEMMA HasIsRegistered ==
  ASSUME IInv, NEW u PROVE Has(u) <=> Registered(u)
<1>1. \A k \in InUse : k \in Room
  BY TableType DEF IInv
<1> QED
  BY <1>1 DEF Has, Registered, Table, InUse

(* A user who was sent registration_success.html has an entry in the       *)
(* slice, and keeps it, as long as forms are requested in order: the       *)
(* memory is one table that one handler writes at a time, each form has an *)
(* entry of its own, and a loop only leaves entries behind that it does    *)
(* not look for.                                                           *)
THEOREM ToldIsRegistered == Spec => []ToldMeansRegistered
<1>1. IInv /\ InOrderInv => ToldMeansRegistered
  BY HasIsRegistered DEF InOrderInv, Served, Informed, ToldMeansRegistered, IInv, TInv
<1> QED
  BY <1>1, IInvInit, IInvStep, InOrderInit, InOrderInvStep, PTL DEF Spec

(* A login with a valid signature finds the key of a user who was told, in *)
(* a slice that grows while it is searched.                                *)
THEOREM ToldLogsIn == Spec => []ToldCanLogIn
<1>1. InOrderInv => ToldCanLogIn
  BY DEF InOrderInv, Served, Informed, ToldCanLogIn
<1> QED
  BY <1>1, IInvInit, IInvStep, InOrderInit, InOrderInvStep, PTL DEF Spec

-----------------------------------------------------------------------------
(* The slice in order implements the table of accounts.                    *)

\* What was issued, and the accounts: each is that of its only entry.
IssuedView == Issued = {Table[k].challenge : k \in InUse} \ {NoChallenge}

AccountsView ==
  /\ Accounts = [c \in Challenge |-> Accounts[c]]
  /\ \A k \in InUse : Table[k].challenge \in Challenge =>
       Accounts[Table[k].challenge] = Table[k].spk
  /\ \A c \in Challenge : ~Listed(c) => Accounts[c] = None

LEMMA Views == IInv /\ AccountsInOrder => IssuedView /\ AccountsView
<1> SUFFICES ASSUME IInv, AccountsInOrder PROVE IssuedView /\ AccountsView
  OBVIOUS
<1> DEFINE Ks(c) == {k \in InUse : Table[k].challenge = c}
<1>1. \A k \in InUse : Current(k) = Table[k]
  BY TableType DEF IInv, Table
<1>2. ASSUME NEW c \in Challenge
      PROVE  {k \in 0 .. header.len - 1 : Current(k).challenge = c} = Ks(c)
  BY <1>1 DEF InUse
<1>3. \A c \in Challenge :
        Accounts[c] = IF Ks(c) = {} THEN None ELSE Current(CHOOSE k \in Ks(c) : TRUE).spk
  <2> SUFFICES ASSUME NEW c \in Challenge
               PROVE  Accounts[c] = IF Ks(c) = {} THEN None
                                    ELSE Current(CHOOSE k \in Ks(c) : TRUE).spk
    OBVIOUS
  <2> DEFINE ks == {k \in 0 .. header.len - 1 : Current(k).challenge = c}
  <2>1. Accounts[c] = IF ks = {} THEN None ELSE Current(CHOOSE k \in ks : TRUE).spk
    BY DEF Accounts
  <2>2. ks = Ks(c)
    BY <1>2
  <2> HIDE DEF ks, Ks
  <2> QED
    BY <2>1, <2>2
<1>4. ASSUME NEW k \in InUse, Table[k].challenge \in Challenge
      PROVE  Accounts[Table[k].challenge] = Table[k].spk
  <2>1. PICK c \in Challenge : c = Table[k].challenge
    BY <1>4
  <2>2. Ks(c) = {k}
    BY <1>4, <2>1 DEF AccountsInOrder
  <2>3. (CHOOSE j \in Ks(c) : TRUE) = k
    BY <2>2
  <2> QED
    BY <1>1, <1>3, <1>4, <2>1, <2>2, <2>3
<1>5. ASSUME NEW c \in Challenge, ~Listed(c)
      PROVE  Accounts[c] = None
  <2>1. Ks(c) = {}
    BY <1>5 DEF Listed
  <2> QED
    BY <1>3, <2>1
<1>6. Accounts = [c \in Challenge |-> Accounts[c]]
  BY DEF Accounts
<1>7. IssuedView
  BY <1>1 DEF IssuedView, Issued, InUse
<1> QED
  BY <1>4, <1>5, <1>6, <1>7 DEF AccountsView

LEMMA NextViews == IInv' /\ AccountsInOrder' => IssuedView' /\ AccountsView'
BY Views, PTL

\* What the service has promised, as the abstract specification sees it.
LEMMA RegisteredHasAccount ==
  ASSUME IInv, MemoryInOrder, AccountsInOrder, NEW u \in Users, Has(u)
  PROVE  Service!HasAccount(u)
<1>1. PICK k \in InUse : Table[k].spk = u
  BY DEF Has
<1>2. ~Pending(k)
  BY <1>1, NoneAssumption DEF Pending, MemoryInOrder, InOrder, ZeroEntry
<1>3. Table[k].challenge \in Challenge
  BY <1>2 DEF AccountsInOrder, Account
<1>4. Table[k].challenge \in Issued /\ Accounts[Table[k].challenge] = u
  BY <1>1, <1>3, Views, ChallengeType DEF IssuedView, AccountsView
<1> QED
  BY <1>4 DEF Service!HasAccount

LEMMA InsideStep ==
  ASSUME NEW u \in Users, Alone(u)
  PROVE  /\ result'[u] = "loggedIn" => Inside' = Inside \cup {u}
         /\ result'[u] # "loggedIn" => Inside' = Inside \ {u}
         /\ result'[u] = result[u] => Inside' = Inside
BY DEF Alone, Inside

LEMMA NextAccounts ==
  ASSUME NEW u, ServiceStep(u)
  PROVE  IssuedView /\ IssuedView' /\ AccountsView /\ AccountsView'
<1>1. IInv /\ AccountsInOrder
  BY DEF ServiceStep, InOrderStep
<1>2. Next
  BY ServiceStepType DEF Next, Request
<1> QED
  BY <1>1, <1>2, IInvStep, AccountsStayInOrder, Views, NextViews

(* The table stays the same: so do the accounts.                           *)
LEMMA SameAccounts ==
  ASSUME NEW u, ServiceStep(u), Same
  PROVE  Issued' = Issued /\ Accounts' = Accounts
<1>1. Issued' = Issued
  BY NextAccounts DEF IssuedView, Same
<1>2. ASSUME NEW c \in Challenge PROVE Accounts'[c] = Accounts[c]
  <2>1. CASE Listed(c)
    <3>1. PICK k \in InUse : Table[k].challenge = c
      BY <2>1 DEF Listed
    <3> QED
      BY <3>1, NextAccounts DEF AccountsView, Same
  <2>2. CASE ~Listed(c)
    <3>1. ~Listed(c)'
      BY <2>2 DEF Same, Listed
    <3> QED
      BY <2>2, <3>1, NextAccounts DEF AccountsView
  <2> QED
    BY <2>1, <2>2
<1>3. /\ Accounts = [c \in Challenge |-> Accounts[c]]
      /\ Accounts' = [c \in Challenge |-> Accounts'[c]]
  BY NextAccounts DEF AccountsView
<1> QED
  BY <1>1, <1>2, <1>3

(* A new entry is no account until it is stored.                           *)
LEMMA AddedAccounts ==
  ASSUME NEW u, ServiceStep(u), Publish(u) \/ Extend(u)
  PROVE  Issued' = Issued /\ Accounts' = Accounts
<1>1. /\ InUse' = InUse \cup {header.len}
      /\ \A k \in InUse : Table'[k] = Table[k]
      /\ Table'[header.len].challenge = NoChallenge
  <2>1. /\ header'.len = header.len + 1 /\ header.len \in Room'
        /\ \A k \in InUse : Table'[k] = Table[k]
        /\ \A k \in Room' \ InUse : Table'[k] = ZeroEntry
    BY ServiceStepType, TableAdd
  <2>2. header.len \notin InUse /\ InUse' = InUse \cup {header.len}
    BY <2>1, ServiceStepType DEF InUse
  <2> QED
    BY <2>1, <2>2 DEF ZeroEntry
<1>2. Issued' = Issued
  <2>1. Issued' = {Table'[k].challenge : k \in InUse'} \ {NoChallenge}
    BY NextAccounts DEF IssuedView
  <2> QED
    BY <1>1, <2>1, NextAccounts DEF IssuedView
<1>3. ASSUME NEW c \in Challenge PROVE Accounts'[c] = Accounts[c]
  <2>1. CASE Listed(c)
    <3>1. PICK k \in InUse : Table[k].challenge = c
      BY <2>1 DEF Listed
    <3>2. k \in InUse' /\ Table'[k] = Table[k]
      BY <1>1, <3>1
    <3> QED
      BY <3>1, <3>2, NextAccounts DEF AccountsView
  <2>2. CASE ~Listed(c)
    <3>1. ~Listed(c)'
      BY <1>1, <2>2, ChallengeType DEF Listed
    <3> QED
      BY <2>2, <3>1, NextAccounts DEF AccountsView
  <2> QED
    BY <2>1, <2>2
<1>4. /\ Accounts = [c \in Challenge |-> Accounts[c]]
      /\ Accounts' = [c \in Challenge |-> Accounts'[c]]
  BY NextAccounts DEF AccountsView
<1> QED
  BY <1>2, <1>3, <1>4

(* The stored form is a challenge that was not issued before.              *)
LEMMA StoreIssues ==
  ASSUME NEW u, ServiceStep(u), Store(u)
  PROVE  Service!Issue(chal[u]) /\ chal[u] \in Challenge
<1>1. chal[u] \in Challenge /\ ~Listed(chal[u])
  BY ServiceStepType DEF Served, Owns, Store, Appending
<1>2. PICK d \in Challenge : d = chal[u]
  BY <1>1
<1>3. PICK i \in InUse : i = snap[u].len
  BY ServiceStepType, StoreStep
<1>4. /\ InUse' = InUse /\ Table[i] = ZeroEntry
      /\ \A k \in InUse \ {i} : Table'[k] = Table[k]
      /\ Table'[i] = [challenge |-> d, spk |-> None]
  <2>1. /\ InUse' = InUse /\ Table[i] = ZeroEntry
        /\ Table' = [Table EXCEPT ![i] = [challenge |-> d, spk |-> None]]
    BY <1>2, <1>3, ServiceStepType, StoreStep
  <2> QED
    BY <2>1, ServiceStepType
<1>5. Table[i].challenge = NoChallenge /\ Table'[i].challenge = d /\ Table'[i].spk = None
  BY <1>4 DEF ZeroEntry
<1>6. d \notin Issued /\ Issued' = Issued \cup {d}
  <2>1. Issued' = {Table'[k].challenge : k \in InUse} \ {NoChallenge}
    BY <1>4, NextAccounts DEF IssuedView
  <2>2. Issued = {Table[k].challenge : k \in InUse} \ {NoChallenge}
    BY NextAccounts DEF IssuedView
  <2>3. d # NoChallenge
    BY ChallengeType
  <2>4. \A c : c \in Issued' <=> c = d \/ c \in Issued
    BY <1>4, <1>5, <2>1, <2>2, <2>3
  <2>5. d \notin Issued
    BY <1>1, <1>2, <2>2 DEF Listed
  <2> QED
    BY <2>4, <2>5
<1>7. ASSUME NEW c \in Challenge PROVE Accounts'[c] = Accounts[c]
  <2>1. CASE c = d
    <3>1. Accounts[c] = None
      BY <1>1, <1>2, <2>1, NextAccounts DEF AccountsView
    <3>2. Accounts'[c] = None
      BY <1>4, <1>5, <2>1, NextAccounts DEF AccountsView
    <3> QED
      BY <3>1, <3>2
  <2>2. CASE c # d /\ Listed(c)
    <3>1. PICK k \in InUse : Table[k].challenge = c
      BY <2>2 DEF Listed
    <3>2. k # i
      BY <1>5, <3>1, ChallengeType
    <3>3. k \in InUse' /\ Table'[k] = Table[k]
      BY <1>4, <3>2
    <3> QED
      BY <3>1, <3>3, NextAccounts DEF AccountsView
  <2>3. CASE c # d /\ ~Listed(c)
    <3>1. ~Listed(c)'
      BY <1>4, <1>5, <2>3 DEF Listed
    <3> QED
      BY <2>3, <3>1, NextAccounts DEF AccountsView
  <2> QED
    BY <2>1, <2>2, <2>3
<1>8. Accounts' = Accounts
  BY <1>7, NextAccounts DEF AccountsView
<1>9. Inside' = Inside /\ told' = told
  <2>1. result' = result /\ told' = told
    BY DEF Store, history
  <2> QED
    BY <2>1 DEF Inside
<1> QED
  BY <1>2, <1>6, <1>8, <1>9 DEF Service!Issue

(* A registration gives the challenge of one's own form to its owner.      *)
LEMMA AssignRegisters ==
  ASSUME NEW u, ServiceStep(u), Assign(u)
  PROVE  Service!Register(u, chal[u]) /\ chal[u] \in Challenge
<1>1. ~AtEnd(u) /\ Table[at[u]].challenge = chal[u] /\ result' = result
  BY AssignServed
<1>2. /\ chal[u] \in Challenge /\ chal[u].owner = u
  BY ServiceStepType DEF Served, Seeks, Owns, Assign
<1>3. PICK d \in Challenge : d = chal[u]
  BY <1>2
<1>4. PICK i \in InUse : i = at[u]
  BY <1>1, ServiceStepType, AssignStep
<1>5. /\ InUse' = InUse /\ Table[i] \in Entry /\ Table[i].challenge = d
      /\ \A k \in InUse \ {i} : Table'[k] = Table[k]
      /\ Table'[i] = [Table[i] EXCEPT !.spk = u]
  <2>1. /\ InUse' = InUse
        /\ Table' = [Table EXCEPT ![i] = [Table[i] EXCEPT !.spk = u]]
    BY <1>1, <1>4, ServiceStepType, AssignStep
  <2> QED
    BY <1>1, <1>3, <1>4, <2>1, ServiceStepType
<1>6. Table'[i].challenge = d /\ Table'[i].spk = u
  BY <1>5 DEF Entry
<1>7. d \in Issued /\ Issued' = Issued
  <2>1. Issued' = {Table'[k].challenge : k \in InUse} \ {NoChallenge}
    BY <1>5, NextAccounts DEF IssuedView
  <2>2. Issued = {Table[k].challenge : k \in InUse} \ {NoChallenge}
    BY NextAccounts DEF IssuedView
  <2>3. \A k \in InUse : Table'[k].challenge = Table[k].challenge
    BY <1>5, <1>6
  <2>4. d # NoChallenge
    BY ChallengeType
  <2> QED
    BY <1>5, <2>1, <2>2, <2>3, <2>4
<1>8. ASSUME NEW c \in Challenge
      PROVE  Accounts'[c] = IF c = d THEN u ELSE Accounts[c]
  <2>1. CASE c = d
    BY <1>5, <1>6, <2>1, NextAccounts DEF AccountsView
  <2>2. CASE c # d /\ Listed(c)
    <3>1. PICK k \in InUse : Table[k].challenge = c
      BY <2>2 DEF Listed
    <3>2. k # i
      BY <1>5, <2>2, <3>1
    <3>3. k \in InUse' /\ Table'[k] = Table[k]
      BY <1>5, <3>2
    <3> QED
      BY <2>2, <3>1, <3>3, NextAccounts DEF AccountsView
  <2>3. CASE c # d /\ ~Listed(c)
    <3>1. ~Listed(c)'
      BY <1>5, <1>6, <2>3 DEF Listed
    <3> QED
      BY <2>3, <3>1, NextAccounts DEF AccountsView
  <2> QED
    BY <2>1, <2>2, <2>3
<1>9. Accounts' = [Accounts EXCEPT ![d] = u]
  BY <1>8, NextAccounts DEF AccountsView
<1>10. Inside' = Inside /\ told' = told
  <2>1. told' = told
    BY DEF Assign, history
  <2> QED
    BY <1>1, <2>1 DEF Inside
<1> QED
  BY <1>2, <1>3, <1>7, <1>9, <1>10 DEF Service!Register

(* A step that goes on in order is one of the service, or none.            *)
LEMMA ServiceNext ==
  ASSUME NEW u, ServiceStep(u), orderly' = orderly
  PROVE  Service!Serve \/ UNCHANGED Service!vars
<1>1. /\ u \in Users /\ Request(u) /\ Alone(u) /\ orderly' = orderly
  BY ServiceStepType DEF ServiceStep
<1>2. CASE RequestForm(u) \/ Grow(u)
  <2>1. Same /\ result' = result /\ told' = told
    BY <1>2, ServiceStepType, StillSteps DEF RequestForm, Grow, history
  <2> QED
    BY <1>1, <2>1, SameAccounts DEF Service!vars, Inside
<1>3. CASE Publish(u) \/ Extend(u)
  <2>1. result' = result /\ told' = told
    BY <1>3 DEF Publish, Extend, history
  <2> QED
    BY <1>1, <1>3, <2>1, AddedAccounts DEF Service!vars, Inside
<1>4. CASE Store(u)
  BY <1>4, StoreIssues DEF Service!Serve
<1>5. CASE Submit(u) \/ Verify(u) \/ LogIn(u)
  <2>1. Same /\ told' = told /\ (result'[u] = "other" \/ result' = result)
    BY <1>5, ServiceStepType, StillSteps DEF Submit, Verify, LogIn, Answer, history
  <2>2. Inside' = Inside \ {u} \/ Inside' = Inside
    BY <1>1, <2>1, InsideStep
  <2>3. Service!Leave(u) \/ UNCHANGED Service!vars
    BY <1>1, <2>1, <2>2, SameAccounts DEF Service!Leave, Service!vars
  <2> QED
    BY <1>1, <2>3 DEF Service!Serve
<1>6. CASE Compare(u)
  <2>1. Same /\ (AtEnd(u) => Has(u) /\ result[u] # "loggedIn")
    BY <1>6, ServiceStepType, StillSteps, CompareServed
  <2>2. /\ Issued' = Issued /\ Accounts' = Accounts
    BY <2>1, SameAccounts
  <2>3. CASE AtEnd(u)
    <3>1. result'[u] = "other" /\ (told' = told \/ told' = told \cup {u})
      BY <1>6, <2>3, ServiceStepType DEF Compare, Answer
    <3>2. Inside' = Inside
      <4>1. u \notin Inside
        BY <2>1, <2>3 DEF Inside
      <4> QED
        BY <1>1, <3>1, <4>1, InsideStep
    <3>3. Service!HasAccount(u)
      BY <1>1, <2>1, <2>3, RegisteredHasAccount DEF ServiceStep, InOrderStep
    <3>4. Service!Confirm(u) \/ UNCHANGED Service!vars
      BY <1>1, <2>2, <3>1, <3>2, <3>3 DEF Service!Confirm, Service!vars
    <3> QED
      BY <1>1, <3>4 DEF Service!Serve
  <2>4. CASE ~AtEnd(u)
    <3>1. result' = result /\ told' = told
      BY <1>6, <2>4 DEF Compare
    <3> QED
      BY <1>1, <2>2, <3>1 DEF Service!vars, Inside
  <2> QED
    BY <2>3, <2>4
<1>7. CASE Assign(u)
  BY <1>1, <1>7, AssignRegisters DEF Service!Serve
<1>8. CASE Search(u)
  <2>1. Same /\ told' = told /\ (result'[u] = "loggedIn" => Has(u) \/ result[u] = "loggedIn")
    BY <1>8, ServiceStepType, StillSteps, SearchServed DEF Search, history
  <2>2. /\ Issued' = Issued /\ Accounts' = Accounts
    BY <2>1, SameAccounts
  <2>3. CASE result'[u] = "loggedIn" /\ Has(u)
    <3>1. Inside' = Inside \cup {u} /\ Service!HasAccount(u)
      BY <1>1, <2>3, InsideStep, RegisteredHasAccount DEF ServiceStep, InOrderStep
    <3>2. Service!LogIn(u)
      BY <2>1, <2>2, <3>1 DEF Service!LogIn
    <3> QED
      BY <1>1, <3>2 DEF Service!Serve
  <2>4. CASE result'[u] = "loggedIn" /\ result[u] = "loggedIn"
    BY <1>1, <2>1, <2>2, <2>4, InsideStep DEF Service!vars
  <2>5. CASE result'[u] # "loggedIn"
    <3>1. Service!Leave(u)
      BY <1>1, <2>1, <2>2, <2>5, InsideStep DEF Service!Leave
    <3> QED
      BY <1>1, <3>1 DEF Service!Serve
  <2> QED
    BY <2>1, <2>3, <2>4, <2>5
<1> QED
  BY <1>1, <1>2, <1>3, <1>4, <1>5, <1>6, <1>7, <1>8 DEF Request

(* The memory that the goroutines share implements the table of accounts:  *)
(* as long as signup forms are requested in order and the process is not   *)
(* restarted, each step of a handler is one of the service or none, and    *)
(* after that the service promises nothing.                                *)
THEOREM ServiceIsImplemented == Spec => ImplementsService
<1>1. Init => Service!Init
  <2> SUFFICES ASSUME Init PROVE Service!Init
    OBVIOUS
  <2>1. header.len = 0 /\ told = {} /\ orderly = TRUE /\ Inside = {}
    BY DEF Init, NilSlice, Inside
  <2>2. 0 .. header.len - 1 = {}
    BY <2>1
  <2>3. Issued = {} /\ Accounts = [c \in Challenge |-> None]
    BY <2>2 DEF Issued, Accounts
  <2> QED
    BY <2>1, <2>3 DEF Service!Init
<1>2. IInv /\ InOrderInv /\ OrderlyOK /\ [Next]_vars => [Service!Next]_(Service!vars)
  <2> SUFFICES ASSUME IInv, InOrderInv, OrderlyOK, [Next]_vars, orderly'
               PROVE  Service!Next \/ UNCHANGED Service!vars
    BY DEF Service!Next
  <2>1. CASE UNCHANGED vars
    <3>1. arrays' = arrays /\ header' = header /\ result' = result /\ told' = told /\ orderly' = orderly
      BY <2>1 DEF vars, memory, history
    <3>2. Issued' = Issued
      BY <3>1 DEF Issued, Current
    <3>3. Accounts' = Accounts
      BY <3>1 DEF Accounts, Current
    <3>4. Inside' = Inside
      BY <3>1 DEF Inside
    <3> QED
      BY <3>1, <3>2, <3>3, <3>4 DEF Service!vars
  <2>2. ASSUME NEW u \in Users, Request(u)
        PROVE  Service!Next \/ UNCHANGED Service!vars
    <3>1. orderly /\ orderly' = orderly
      BY <2>2 DEF Request, RequestForm, Grow, Publish, Extend, Store, Submit, Verify, Compare,
         Assign, LogIn, Search, history, OrderlyOK
    <3>2. ServiceStep(u)
      BY <2>2, <3>1 DEF InOrderInv, ServiceStep, InOrderStep
    <3> QED
      BY <3>1, <3>2, ServiceNext DEF Service!Next
  <2>3. ~Exit
    BY DEF Exit
  <2> QED
    BY <2>1, <2>2, <2>3 DEF Next, Request
<1> QED
  BY <1>1, <1>2, IInvInit, IInvStep, InOrderInit, InOrderInvStep, OrderlyInit, OrderlyStep, PTL
     DEF Spec, ImplementsService, Service!Spec
=============================================================================
