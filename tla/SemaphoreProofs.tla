-------------------------- MODULE SemaphoreProofs --------------------------
(***************************************************************************)
(* Proofs about the second construction, for groups of any number of       *)
(* members, any texts and any circuit: a root belongs to one list, every   *)
(* member's path leads to it, and so the proofs verify over their group.   *)
(***************************************************************************)
EXTENDS Semaphore, NumberLemmas, TLAPS

-----------------------------------------------------------------------------
(* The levels of the tree.                                                   *)

(* A list is as long as the range of its places.                             *)
LEMMA LengthOf ==
  ASSUME NEW n \in Nat, NEW s, s = [k \in 1 .. n |-> s[k]]
  PROVE  Len(s) = n
<1> DEFINE S == {s[k] : k \in 1 .. n}
<1>1. s \in [1 .. n -> S]
  BY Zenon
<1> HIDE DEF S
<1> QED
  BY <1>1

(* The recursion has its values: each level is made from the one below.      *)
LEMMA LevelsRun ==
  ASSUME NEW members, Len(members) \in Nat
  PROVE  Levels(members) =
           [d \in 0 .. Len(members) |->
              IF d = 0 THEN [k \in DOMAIN members |-> Leaf(members[k])]
              ELSE LevelUp(Levels(members)[d - 1])]
<1> DEFINE n == Len(members)
           bottom == [k \in DOMAIN members |-> Leaf(members[k])]
           Part(s, m) == s = [d \in 0 .. m |-> IF d = 0 THEN bottom ELSE LevelUp(s[d - 1])]
           Good == {m \in 0 .. n : \E s : Part(s, m)}
<1> HIDE DEF bottom
<1>1. 0 \in Good
  <2> DEFINE s == [d \in 0 .. 0 |-> bottom]
  <2>1. Part(s, 0)
    BY SMT
  <2>2. 0 \in 0 .. n
    OBVIOUS
  <2> HIDE DEF s, Part
  <2> QED
    BY <2>1, <2>2, Zenon
<1>2. ASSUME NEW m \in 0 .. n - 1, m \in Good
      PROVE  m + 1 \in Good
  <2>1. PICK s : Part(s, m)
    BY <1>2
  <2> DEFINE t == [d \in 0 .. m + 1 |-> IF d = m + 1 THEN LevelUp(s[m]) ELSE s[d]]
  <2>2. ASSUME NEW d \in 0 .. m + 1
        PROVE  t[d] = IF d = 0 THEN bottom ELSE LevelUp(t[d - 1])
    <3>1. CASE d = m + 1
      <4>1. d # 0 /\ d - 1 = m /\ m \in 0 .. m + 1 /\ m # m + 1
        BY <1>2, <3>1
      <4>2. t[d] = LevelUp(s[m]) /\ t[m] = s[m]
        BY <3>1, <4>1, Zenon
      <4> QED
        BY <4>1, <4>2, Zenon
    <3>2. CASE d # m + 1
      <4>1. d \in 0 .. m /\ (d # 0 => d - 1 \in 0 .. m + 1 /\ d - 1 # m + 1)
        BY <1>2, <3>2
      <4>2. t[d] = s[d] /\ (d # 0 => t[d - 1] = s[d - 1])
        BY <3>2, <4>1, Zenon
      <4>3. s[d] = IF d = 0 THEN bottom ELSE LevelUp(s[d - 1])
        BY <2>1, <4>1, Zenon
      <4> QED
        BY <4>2, <4>3, Zenon
    <3> QED
      BY <3>1, <3>2
  <2>3. Part(t, m + 1)
    BY <2>2, Zenon
  <2>4. m + 1 \in 0 .. n
    BY <1>2
  <2> HIDE DEF t, Part
  <2> QED
    BY <2>3, <2>4, Zenon
<1>3. 0 .. n \subseteq Good
  <2>1. 0 \in Int /\ n \in Int
    OBVIOUS
  <2> HIDE DEF Good, n
  <2> QED
    BY <1>1, <1>2, <2>1, RangeInduction
<1>4. \E s : Part(s, n)
  BY <1>3, n \in 0 .. n
<1> DEFINE chosen == CHOOSE s : Part(s, n)
<1>5. Part(chosen, n)
  BY <1>4, Zenon
<1>6. Levels(members) = chosen
  BY Zenon DEF Levels, bottom
<1> QED
  BY <1>5, <1>6, Zenon DEF bottom

\* A level: the nodes of places 1, 2, and so on, at least one.
IsLevel(level) ==
  /\ Len(level) \in Nat \ {0}
  /\ DOMAIN level = 1 .. Len(level)

(* The level above is half as long, rounded up.                              *)
LEMMA LevelAbove ==
  ASSUME NEW level, IsLevel(level)
  PROVE  /\ IsLevel(LevelUp(level))
         /\ Len(LevelUp(level)) = (Len(level) + 1) \div 2
         /\ \A k \in 1 .. Len(LevelUp(level)) :
              LevelUp(level)[k] = IF 2 * k <= Len(level) THEN Node(level[2 * k - 1], level[2 * k])
                                  ELSE level[2 * k - 1]
<1> DEFINE n == Len(level)
           above == (n + 1) \div 2
           up == LevelUp(level)
<1>1. n \in Nat \ {0} /\ above \in Nat \ {0}
  BY DEF IsLevel
<1>2. up = [k \in 1 .. above |->
              IF 2 * k <= n THEN Node(level[2 * k - 1], level[2 * k]) ELSE level[2 * k - 1]]
  BY Zenon DEF LevelUp
<1> HIDE DEF up, above
<1>3. up = [k \in 1 .. above |-> up[k]]
  BY <1>2, Zenon
<1>4. Len(up) = above
  BY <1>1, <1>3, LengthOf
<1>5. DOMAIN up = 1 .. above
  BY <1>3, Zenon
<1>6. IsLevel(up)
  BY <1>1, <1>4, <1>5, Zenon DEF IsLevel
<1>7. \A k \in 1 .. Len(up) :
        up[k] = IF 2 * k <= n THEN Node(level[2 * k - 1], level[2 * k]) ELSE level[2 * k - 1]
  BY <1>2, <1>4, Zenon
<1> QED
  BY <1>4, <1>6, <1>7, Zenon DEF up, above

\* The nodes of a tree over a list of members, level by level, and the
\* boundaries: the node of place k of level d stands over the members that come
\* after place bound[d][k - 1] and up to place bound[d][k].
Framed(members, bound) ==
  LET n     == Len(members)
      level == Levels(members)
  IN /\ n \in Nat \ {0}
     /\ \A d \in 0 .. n :
          /\ IsLevel(level[d]) /\ (Len(level[d]) = 1 \/ Len(level[d]) <= n - d)
          /\ bound[d] \in [Nat -> 0 .. n] /\ bound[d][0] = 0
          /\ \A j \in Nat : bound[d][j] <= bound[d][j + 1]
          /\ \A j \in Nat : j >= Len(level[d]) => bound[d][j] = n
     /\ Len(level[0]) = n
     /\ \A k \in 1 .. n : level[0][k] = Leaf(members[k]) /\ bound[0][k] = k
     /\ \A d \in 1 .. n :
          /\ level[d] = LevelUp(level[d - 1])
          /\ \A j \in Nat : bound[d][j] = bound[d - 1][2 * j]

(* A tree over a list has boundaries.                                        *)
LEMMA TreeIsFramed ==
  ASSUME NEW A, NEW members \in Seq(A), members # <<>>
  PROVE  \E bound : Framed(members, bound)
<1> DEFINE n     == Len(members)
           level == Levels(members)
           B     == [Nat -> 0 .. n]
           first == [j \in Nat |-> IF j <= n THEN j ELSE n]
           wider == [d \in 0 .. n - 1 |-> [b \in B |-> [j \in Nat |-> b[2 * j]]]]
<1>1. n \in Nat \ {0} /\ DOMAIN members = 1 .. n
  OBVIOUS
<1>2. level = [d \in 0 .. n |-> IF d = 0 THEN [k \in DOMAIN members |-> Leaf(members[k])]
                                ELSE LevelUp(level[d - 1])]
  BY <1>1, LevelsRun, Zenon
<1> HIDE DEF level
<1>3. first \in B
  BY <1>1
<1>4. wider \in [0 .. n - 1 -> [B -> B]]
  <2>1. ASSUME NEW b \in B PROVE [j \in Nat |-> b[2 * j]] \in B
    <3>1. \A j \in Nat : 2 * j \in Nat
      OBVIOUS
    <3> QED
      BY <3>1
  <2> HIDE DEF B
  <2> QED
    BY <2>1, Zenon
<1>5. PICK bound \in [0 .. n -> B] : Runs(bound, first, wider, 0, n)
  <2>1. 0 \in Int /\ n \in Int /\ 0 <= n
    BY <1>1
  <2> HIDE DEF n, B, first, wider
  <2> QED
    BY <1>3, <1>4, <2>1, LoopRuns, Zenon
<1>6. bound[0] = first
  BY <1>1, <1>5 DEF Runs
<1>7. ASSUME NEW d \in 1 .. n
      PROVE  /\ d - 1 \in 0 .. n - 1 /\ d - 1 \in 0 .. n /\ d \in 0 .. n /\ d # 0
             /\ level[d] = LevelUp(level[d - 1])
             /\ \A j \in Nat : bound[d][j] = bound[d - 1][2 * j]
  <2>1. d - 1 \in 0 .. n - 1 /\ d - 1 \in 0 .. n /\ d \in 0 .. n /\ d # 0
    BY <1>1
  <2>2. level[d] = LevelUp(level[d - 1])
    BY <1>2, <2>1, Zenon
  <2>3. bound[d] = wider[d - 1][bound[d - 1]]
    BY <1>5, <2>1, Zenon DEF Runs
  <2>4. bound[d - 1] \in B
    BY <1>5, <2>1, Zenon
  <2>5. bound[d] = [j \in Nat |-> bound[d - 1][2 * j]]
    <3> HIDE DEF B
    <3> QED
      BY <2>1, <2>3, <2>4, Zenon
  <2> QED
    BY <2>1, <2>2, <2>5, Zenon
<1> DEFINE Fits(d) ==
      /\ IsLevel(level[d]) /\ (Len(level[d]) = 1 \/ Len(level[d]) <= n - d)
      /\ bound[d] \in [Nat -> 0 .. n] /\ bound[d][0] = 0
      /\ \A j \in Nat : bound[d][j] <= bound[d][j + 1]
      /\ \A j \in Nat : j >= Len(level[d]) => bound[d][j] = n
           Good == {d \in 0 .. n : Fits(d)}
<1>8. /\ Len(level[0]) = n
      /\ \A k \in 1 .. n : level[0][k] = Leaf(members[k]) /\ bound[0][k] = k
      /\ IsLevel(level[0])
  <2>1. 0 \in 0 .. n
    BY <1>1
  <2>2. level[0] = [k \in 1 .. n |-> Leaf(members[k])]
    BY <1>1, <1>2, <2>1, Zenon
  <2>3. level[0] = [k \in 1 .. n |-> level[0][k]]
    BY <2>2, Zenon
  <2>4. Len(level[0]) = n
    BY <1>1, <2>3, LengthOf
  <2>5. IsLevel(level[0])
    BY <1>1, <2>3, <2>4, Zenon DEF IsLevel
  <2>6. \A k \in 1 .. n : level[0][k] = Leaf(members[k])
    BY <2>2, Zenon
  <2>7. \A k \in 1 .. n : bound[0][k] = k
    BY <1>1, <1>6
  <2> QED
    BY <2>4, <2>5, <2>6, <2>7
<1>9. 0 \in Good
  <2>1. 0 \in 0 .. n /\ n <= n - 0
    BY <1>1
  <2>2. bound[0] \in [Nat -> 0 .. n] /\ bound[0][0] = 0
    BY <1>1, <1>3, <1>6
  <2>3. ASSUME NEW j \in Nat
        PROVE  bound[0][j] = (IF j <= n THEN j ELSE n) /\ j + 1 \in Nat
    BY <1>6
  <2>4. \A j \in Nat : bound[0][j] <= bound[0][j + 1]
    <3> SUFFICES ASSUME NEW j \in Nat PROVE bound[0][j] <= bound[0][j + 1]
      OBVIOUS
    <3>1. n \in Int /\ j + 1 \in Nat /\ j \in Int /\ j + 1 \in Int
      BY <1>1
    <3>2. bound[0][j + 1] = IF j + 1 <= n THEN j + 1 ELSE n
      BY <2>3, <3>1
    <3>3. bound[0][j] = IF j <= n THEN j ELSE n
      BY <2>3
    <3> HIDE DEF n
    <3>4. CASE j + 1 <= n
      BY <3>1, <3>2, <3>3, <3>4
    <3>5. CASE ~(j + 1 <= n)
      <4>1. bound[0][j + 1] = n
        BY <3>2, <3>5
      <4>2. bound[0][j] = n \/ (bound[0][j] = j /\ j <= n)
        BY <3>3
      <4> QED
        BY <3>1, <4>1, <4>2
    <3> QED
      BY <3>4, <3>5
  <2>5. ASSUME NEW j \in Nat, j >= n PROVE bound[0][j] = n
    <3>1. n \in Int
      BY <1>1
    <3>2. bound[0][j] = IF j <= n THEN j ELSE n
      BY <2>3
    <3> HIDE DEF n
    <3>3. j <= n => j = n
      BY <2>5, <3>1
    <3> QED
      BY <3>2, <3>3, Zenon
  <2> HIDE DEF n
  <2> QED
    BY <1>8, <2>1, <2>2, <2>4, <2>5
<1>10. ASSUME NEW i \in 0 .. n - 1, i \in Good
       PROVE  i + 1 \in Good
  <2>1. i + 1 \in 1 .. n /\ i + 1 \in 0 .. n /\ i \in 0 .. n /\ (i + 1) - 1 = i
    BY <1>1, <1>10
  <2>2. Fits(i)
    BY <1>10
  <2>3. /\ level[i + 1] = LevelUp(level[i])
        /\ \A j \in Nat : bound[i + 1][j] = bound[i][2 * j]
    BY <1>7, <2>1
  <2> DEFINE below == Len(level[i])
             above == Len(level[i + 1])
  <2>4. IsLevel(level[i + 1]) /\ above = (below + 1) \div 2
    BY <2>2, <2>3, LevelAbove, Zenon
  <2>5. below \in Nat \ {0} /\ above \in Nat \ {0}
    BY <2>2, <2>4, Zenon DEF IsLevel
  <2>6. bound[i + 1] \in [Nat -> 0 .. n]
    BY <1>5, <2>1
  <2>7. below = 1 \/ below <= n - i
    BY <2>2
  <2> HIDE DEF below, above
  <2>8. above = 1 \/ above <= n - (i + 1)
    BY <1>1, <2>1, <2>4, <2>5, <2>7
  <2>9. bound[i + 1][0] = 0
    <3>1. 2 * 0 = 0
      OBVIOUS
    <3> QED
      BY <2>2, <2>3, <3>1
  <2>10. ASSUME NEW j \in Nat PROVE bound[i + 1][j] <= bound[i + 1][j + 1]
    <3>1. /\ 2 * j \in Nat /\ 2 * j + 1 \in Nat /\ j + 1 \in Nat
          /\ 2 * (j + 1) = (2 * j + 1) + 1 /\ 2 * (j + 1) \in Nat
      OBVIOUS
    <3>2. bound[i][2 * j] <= bound[i][2 * j + 1] /\ bound[i][2 * j + 1] <= bound[i][2 * (j + 1)]
      BY <2>2, <3>1
    <3>3. /\ bound[i][2 * j] \in Int /\ bound[i][2 * j + 1] \in Int
          /\ bound[i][2 * (j + 1)] \in Int
      <4>1. bound[i] \in [Nat -> 0 .. n]
        BY <2>2, Zenon
      <4>2. 0 .. n \subseteq Int
        BY <1>1
      <4> QED
        BY <3>1, <4>1, <4>2, Zenon
    <3>4. bound[i + 1][j] = bound[i][2 * j] /\ bound[i + 1][j + 1] = bound[i][2 * (j + 1)]
      BY <2>3, <3>1
    <3> QED
      BY <3>2, <3>3, <3>4
  <2>11. ASSUME NEW j \in Nat, j >= above PROVE bound[i + 1][j] = n
    <3>1. 2 * j \in Nat /\ 2 * j >= below
      BY <2>4, <2>5, <2>11
    <3>2. bound[i][2 * j] = n
      BY <2>2, <3>1 DEF below
    <3> QED
      BY <2>3, <3>2
  <2>12. Fits(i + 1)
    BY <2>4, <2>6, <2>8, <2>9, <2>10, <2>11 DEF above
  <2> HIDE DEF Fits
  <2> QED
    BY <2>1, <2>12
<1>11. 0 .. n \subseteq Good
  <2>1. 0 \in Int /\ n \in Int
    BY <1>1
  <2> HIDE DEF Good, n
  <2> QED
    BY <1>9, <1>10, <2>1, RangeInduction
<1>12. \A d \in 0 .. n : Fits(d)
  <2> HIDE DEF Fits
  <2> QED
    BY <1>11
<1>13. Framed(members, bound)
  BY <1>1, <1>7, <1>8, <1>12 DEF Framed, level
<1> QED
  BY <1>13

-----------------------------------------------------------------------------
(* A root belongs to one list.                                               *)

(* Terms are equal when they were made from the same parts.                  *)
LEMMA NodesTell ==
  ASSUME NEW v, NEW w, NEW x, NEW y, Node(v, w) = Node(x, y)
  PROVE  v = x /\ w = y
<1>1. Node(v, w).left = v /\ Node(v, w).right = w /\ Node(x, y).left = x /\ Node(x, y).right = y
  BY DEF Node
<1> QED
  BY <1>1, Zenon

LEMMA LeavesTell ==
  ASSUME NEW v, NEW x, Leaf(v) = Leaf(x)
  PROVE  v = x
<1>1. Leaf(v).leaf.base.scalar = v /\ Leaf(x).leaf.base.scalar = x
  BY DEF Leaf, publicKey, secretScalar
<1> QED
  BY <1>1, Zenon

LEMMA LeafIsNoNode ==
  ASSUME NEW v, NEW x, NEW y, Leaf(v) = Node(x, y)
  PROVE  FALSE
<1>1. "leaf" \in DOMAIN Leaf(v) /\ "leaf" \notin DOMAIN Node(x, y)
  BY DEF Leaf, Node
<1> QED
  BY <1>1, Zenon

\* The members of list g after place a and up to b are those of h after x, up to y.
Same(g, a, b, h, x, y) ==
  b - a = y - x /\ \A i \in 1 .. b - a : g[a + i] = h[x + i]

(* Two stretches that follow each other make one.                            *)
LEMMA StretchesJoin ==
  ASSUME NEW g, NEW h, NEW a \in Int, NEW b \in Int, NEW c \in Int,
         NEW x \in Int, NEW y \in Int, NEW z \in Int,
         a <= b, b <= c, Same(g, a, b, h, x, y), Same(g, b, c, h, y, z)
  PROVE  Same(g, a, c, h, x, z)
<1>1. b - a = y - x /\ c - b = z - y
  BY DEF Same
<1>2. c - a = z - x
  BY <1>1
<1>3. ASSUME NEW i \in 1 .. c - a PROVE g[a + i] = h[x + i]
  <2>1. CASE i <= b - a
    <3>1. i \in 1 .. b - a
      BY <1>3, <2>1
    <3> QED
      BY <3>1 DEF Same
  <2>2. CASE ~(i <= b - a)
    <3>1. /\ i - (b - a) \in 1 .. c - b
          /\ b + (i - (b - a)) = a + i /\ y + (i - (b - a)) = x + i
      BY <1>1, <1>3, <2>2
    <3>2. g[b + (i - (b - a))] = h[y + (i - (b - a))]
      BY <3>1 DEF Same
    <3> QED
      BY <3>1, <3>2, Zenon
  <2> QED
    BY <2>1, <2>2
<1> QED
  BY <1>2, <1>3 DEF Same

\* The node of place k of level d was made at a place of some level, over the
\* same members: as a leaf, or of two nodes.
WasMade(g, bound, d, k) ==
  \E e \in 0 .. Len(g), m \in Nat \ {0} :
    /\ m <= Len(Levels(g)[e])
    /\ Levels(g)[d][k] = Levels(g)[e][m]
    /\ bound[d][k] = bound[e][m] /\ bound[d][k - 1] = bound[e][m - 1]
    /\ e = 0 \/ 2 * m <= Len(Levels(g)[e - 1])

(* Every node was: also one that went up as it is, perhaps several times.    *)
LEMMA NodeWasMade ==
  ASSUME NEW g, NEW bound, Framed(g, bound)
  PROVE  \A d \in 0 .. Len(g), k \in Nat \ {0} :
           k <= Len(Levels(g)[d]) => WasMade(g, bound, d, k)
<1> DEFINE n     == Len(g)
           level == Levels(g)
           Made(d, k) ==
             \E e \in 0 .. n, m \in Nat \ {0} :
               /\ m <= Len(level[e])
               /\ level[d][k] = level[e][m]
               /\ bound[d][k] = bound[e][m] /\ bound[d][k - 1] = bound[e][m - 1]
               /\ e = 0 \/ 2 * m <= Len(level[e - 1])
           Good == {d \in 0 .. n : \A k \in Nat \ {0} : k <= Len(level[d]) => Made(d, k)}
<1>1. n \in Nat \ {0}
  BY Zenon DEF Framed
<1>2. ASSUME NEW d \in 0 .. n
      PROVE  /\ IsLevel(level[d]) /\ Len(level[d]) \in Nat \ {0}
             /\ \A j \in Nat : j >= Len(level[d]) => bound[d][j] = n
  <2>1. /\ IsLevel(level[d])
        /\ \A j \in Nat : j >= Len(level[d]) => bound[d][j] = n
    BY <1>2, Zenon DEF Framed
  <2> QED
    BY <2>1, Zenon DEF IsLevel
<1>3. 0 \in Good
  <2>1. 0 \in 0 .. n
    BY <1>1
  <2> HIDE DEF n, level
  <2> QED
    BY <2>1, Zenon
<1>4. ASSUME NEW i \in 0 .. n - 1, i \in Good
      PROVE  i + 1 \in Good
  <2>1. i + 1 \in 0 .. n /\ i + 1 \in 1 .. n /\ (i + 1) - 1 = i /\ i \in 0 .. n
    BY <1>1
  <2>2. level[i + 1] = LevelUp(level[i]) /\ \A j \in Nat : bound[i + 1][j] = bound[i][2 * j]
    <3>1. /\ level[i + 1] = LevelUp(level[(i + 1) - 1])
          /\ \A j \in Nat : bound[i + 1][j] = bound[(i + 1) - 1][2 * j]
      BY <2>1, Zenon DEF Framed
    <3> QED
      BY <2>1, <3>1
  <2> DEFINE below == Len(level[i])
             above == Len(level[i + 1])
  <2>3. /\ below \in Nat \ {0} /\ above \in Nat \ {0} /\ IsLevel(level[i])
        /\ \A j \in Nat : j >= below => bound[i][j] = n
    BY <1>2, <2>1, Zenon
  <2>4. /\ above = (below + 1) \div 2
        /\ \A k \in 1 .. above :
             level[i + 1][k] = IF 2 * k <= below THEN Node(level[i][2 * k - 1], level[i][2 * k])
                               ELSE level[i][2 * k - 1]
    <3> DEFINE up == LevelUp(level[i])
    <3>1. /\ Len(up) = (below + 1) \div 2
          /\ \A k \in 1 .. Len(up) :
               up[k] = IF 2 * k <= below THEN Node(level[i][2 * k - 1], level[i][2 * k])
                       ELSE level[i][2 * k - 1]
      BY <2>3, LevelAbove, Zenon
    <3>2. level[i + 1] = up
      BY <2>2, Zenon
    <3> HIDE DEF up, level, below
    <3> QED
      BY <3>1, <3>2, Zenon
  <2>5. ASSUME NEW k \in Nat \ {0}, k <= above PROVE Made(i + 1, k)
    <3>1. CASE 2 * k <= below
      <4>1. i + 1 \in 0 .. n /\ k <= Len(level[i + 1]) /\ 2 * k <= Len(level[(i + 1) - 1])
        BY <2>1, <2>5, <3>1
      <4> HIDE DEF n, level, below, above
      <4> QED
        BY <2>5, <4>1, Zenon
    <3>2. CASE ~(2 * k <= below)
      <4> HIDE DEF below, above
      <4>1. /\ k \in 1 .. above /\ 2 * k - 1 \in Nat \ {0} /\ 2 * k - 1 = below
            /\ 2 * k - 1 <= below /\ 2 * k \in Nat /\ 2 * k >= below
            /\ k - 1 \in Nat /\ 2 * (k - 1) = (2 * k - 1) - 1 /\ k \in Nat
            /\ 2 * k - 1 \in Nat /\ 2 * k - 1 >= below
        <5>1. 2 * above <= below + 1 /\ below \in Int /\ above \in Int /\ k \in Int /\ k >= 1
          BY <2>3, <2>4
        <5>2. k <= above /\ 2 * k > below
          BY <2>3, <2>5, <3>2
        <5> QED
          BY <5>1, <5>2
      <4>2. level[i + 1][k] = level[i][2 * k - 1]
        BY <2>4, <3>2, <4>1, Zenon
      <4>3. bound[i + 1][k] = bound[i][2 * k - 1]
        <5>1. bound[i + 1][k] = bound[i][2 * k]
          BY <2>2, <4>1, Zenon
        <5>2. bound[i][2 * k] = n /\ bound[i][2 * k - 1] = n
          BY <2>3, <4>1
        <5> QED
          BY <5>1, <5>2
      <4>4. bound[i + 1][k - 1] = bound[i][(2 * k - 1) - 1]
        BY <2>2, <4>1, Zenon
      <4>5. Made(i, 2 * k - 1)
        <5>1. \A l \in Nat \ {0} : l <= Len(level[i]) => Made(i, l)
          BY <1>4
        <5> HIDE DEF Made
        <5> QED
          BY <4>1, <5>1 DEF below
      <4> HIDE DEF n, level
      <4> QED
        BY <4>2, <4>3, <4>4, <4>5, Zenon
    <3> QED
      BY <3>1, <3>2
  <2> HIDE DEF Made
  <2> QED
    BY <2>1, <2>5
<1>5. 0 .. n \subseteq Good
  <2>1. 0 \in Int /\ n \in Int
    BY <1>1
  <2> HIDE DEF Good, n
  <2> QED
    BY <1>3, <1>4, <2>1, RangeInduction
<1> HIDE DEF Made
<1>6. \A d \in 0 .. n, k \in Nat \ {0} : k <= Len(level[d]) => Made(d, k)
  BY <1>5
<1> QED
  BY <1>6, Zenon DEF Made, WasMade

(* Equal nodes stand over the same members, in whatever lists, on whatever   *)
(* levels: an induction over the levels of one of the trees.                 *)
LEMMA NodeNamesItsMembers ==
  ASSUME NEW g, NEW bound, Framed(g, bound), NEW h, NEW edge, Framed(h, edge)
  PROVE  \A d \in 0 .. Len(g), k \in Nat \ {0}, e \in 0 .. Len(h), m \in Nat \ {0} :
           /\ k <= Len(Levels(g)[d]) /\ m <= Len(Levels(h)[e])
           /\ Levels(g)[d][k] = Levels(h)[e][m]
           => Same(g, bound[d][k - 1], bound[d][k], h, edge[e][m - 1], edge[e][m])
<1> DEFINE n     == Len(g)
           level == Levels(g)
           p     == Len(h)
           other == Levels(h)
           Told(d, k) ==
             \A e \in 0 .. p, m \in Nat \ {0} :
               m <= Len(other[e]) /\ level[d][k] = other[e][m]
                 => Same(g, bound[d][k - 1], bound[d][k], h, edge[e][m - 1], edge[e][m])
           Good == {d \in 0 .. n : \A k \in Nat \ {0} : k <= Len(level[d]) => Told(d, k)}
           Origin(e, m) ==
             /\ m <= Len(other[e])
             /\ e = 0 \/ 2 * m <= Len(other[e - 1])
<1>1. n \in Nat \ {0} /\ p \in Nat \ {0}
  BY Zenon DEF Framed
<1>2. ASSUME NEW e \in 0 .. p, NEW m \in Nat \ {0}, m <= Len(other[e])
      PROVE  \E f \in 0 .. p, l \in Nat \ {0} :
               /\ Origin(f, l) /\ other[e][m] = other[f][l]
               /\ edge[e][m] = edge[f][l] /\ edge[e][m - 1] = edge[f][l - 1]
  <2>1. WasMade(h, edge, e, m)
    BY <1>2, NodeWasMade
  <2> HIDE DEF p, other
  <2>2. PICK f \in 0 .. p, l \in Nat \ {0} :
          /\ l <= Len(other[f])
          /\ other[e][m] = other[f][l]
          /\ edge[e][m] = edge[f][l] /\ edge[e][m - 1] = edge[f][l - 1]
          /\ f = 0 \/ 2 * l <= Len(other[f - 1])
    BY <2>1, Zenon DEF WasMade, p, other
  <2>3. Origin(f, l)
    BY <2>2, Zenon
  <2> HIDE DEF Origin
  <2> QED
    BY <2>2, <2>3, Zenon
\* A leaf of the tree, or a node made of two.
<1>3. ASSUME NEW e \in 0 .. p, NEW m \in Nat \ {0}, Origin(e, m)
      PROVE  \/ /\ e = 0 /\ m \in 1 .. p /\ other[e][m] = Leaf(h[m])
                /\ edge[e][m] = m /\ edge[e][m - 1] = m - 1
             \/ /\ e - 1 \in 0 .. p /\ 2 * m - 1 \in Nat \ {0} /\ 2 * m \in Nat \ {0}
                /\ 2 * m - 1 <= Len(other[e - 1]) /\ 2 * m <= Len(other[e - 1])
                /\ other[e][m] = Node(other[e - 1][2 * m - 1], other[e - 1][2 * m])
                /\ edge[e][m] = edge[e - 1][2 * m]
                /\ edge[e][m - 1] = edge[e - 1][(2 * m - 1) - 1]
  <2>1. CASE e = 0
    <3>1. Len(other[0]) = p
      BY Zenon DEF Framed
    <3>2. m \in 1 .. p
      BY <1>1, <1>3, <2>1, <3>1
    <3>3. \A k \in 1 .. p : other[0][k] = Leaf(h[k]) /\ edge[0][k] = k
      BY Zenon DEF Framed
    <3>4. edge[0][m - 1] = m - 1
      <4>1. CASE m = 1
        <5>1. 0 \in 0 .. p /\ m - 1 = 0
          BY <1>1, <4>1
        <5>2. edge[0][0] = 0
          BY <5>1, Zenon DEF Framed
        <5> QED
          BY <5>1, <5>2
      <4>2. CASE m # 1
        <5>1. m - 1 \in 1 .. p
          BY <1>1, <3>2, <4>2
        <5> QED
          BY <3>3, <5>1
      <4> QED
        BY <4>1, <4>2
    <3> QED
      BY <2>1, <3>2, <3>3, <3>4
  <2>2. CASE e # 0
    <3> DEFINE below == Len(other[e - 1])
    <3>1. e \in 1 .. p /\ e - 1 \in 0 .. p
      BY <1>1, <2>2
    <3>2. other[e] = LevelUp(other[e - 1]) /\ \A j \in Nat : edge[e][j] = edge[e - 1][2 * j]
      BY <3>1, Zenon DEF Framed
    <3>3. IsLevel(other[e - 1])
      BY <3>1, Zenon DEF Framed
    <3>4. below \in Nat \ {0}
      BY <3>3, Zenon DEF IsLevel
    <3>5. 2 * m <= below
      BY <1>3, <2>2
    <3>6. /\ Len(LevelUp(other[e - 1])) = (below + 1) \div 2
          /\ \A k \in 1 .. Len(LevelUp(other[e - 1])) :
               LevelUp(other[e - 1])[k] =
                 IF 2 * k <= below THEN Node(other[e - 1][2 * k - 1], other[e - 1][2 * k])
                 ELSE other[e - 1][2 * k - 1]
      BY <3>3, LevelAbove, Zenon
    <3> HIDE DEF below, other
    <3>7. m \in 1 .. (below + 1) \div 2
      <4>1. m \in Int /\ m >= 1
        OBVIOUS
      <4> QED
        BY <3>4, <3>5, <4>1
    <3>8. other[e][m] = Node(other[e - 1][2 * m - 1], other[e - 1][2 * m])
      BY <3>2, <3>5, <3>6, <3>7, Zenon
    <3>9. /\ 2 * m - 1 \in Nat \ {0} /\ 2 * m \in Nat \ {0} /\ 2 * m - 1 <= below
          /\ m \in Nat /\ m - 1 \in Nat /\ 2 * (m - 1) = (2 * m - 1) - 1
      BY <3>4, <3>5
    <3>10. edge[e][m] = edge[e - 1][2 * m] /\ edge[e][m - 1] = edge[e - 1][(2 * m - 1) - 1]
      BY <3>2, <3>9, Zenon
    <3> QED
      BY <3>1, <3>5, <3>8, <3>9, <3>10, Zenon DEF below
  <2> QED
    BY <2>1, <2>2
<1>4. 0 \in Good
  <2>1. 0 \in 0 .. n
    BY <1>1
  <2>2. ASSUME NEW k \in Nat \ {0}, k <= Len(level[0]), NEW e \in 0 .. p, NEW m \in Nat \ {0},
               m <= Len(other[e]), level[0][k] = other[e][m]
        PROVE  Same(g, bound[0][k - 1], bound[0][k], h, edge[e][m - 1], edge[e][m])
    <3>1. PICK f \in 0 .. p, l \in Nat \ {0} :
            /\ Origin(f, l) /\ other[e][m] = other[f][l]
            /\ edge[e][m] = edge[f][l] /\ edge[e][m - 1] = edge[f][l - 1]
      BY <1>2, <2>2, Zenon
    <3>2. /\ k \in 1 .. n /\ level[0][k] = Leaf(g[k])
          /\ bound[0][k] = k /\ bound[0][k - 1] = k - 1
      <4>1. Len(level[0]) = n
        BY Zenon DEF Framed
      <4>2. k \in 1 .. n
        BY <1>1, <2>2, <4>1
      <4>3. \A j \in 1 .. n : level[0][j] = Leaf(g[j]) /\ bound[0][j] = j
        BY Zenon DEF Framed
      <4>4. bound[0][0] = 0
        BY <2>1, Zenon DEF Framed
      <4>5. k = 1 \/ k - 1 \in 1 .. n
        BY <4>2
      <4>6. 1 - 1 = 0
        OBVIOUS
      <4> QED
        BY <4>2, <4>3, <4>4, <4>5, <4>6
    <3>3. f = 0 /\ l \in 1 .. p /\ other[f][l] = Leaf(h[l]) /\ edge[f][l] = l /\ edge[f][l - 1] = l - 1
      <4>1. Leaf(g[k]) = other[f][l]
        BY <2>2, <3>1, <3>2, Zenon
      <4>2. other[f][l] # Node(other[f - 1][2 * l - 1], other[f - 1][2 * l])
        <5> HIDE DEF other
        <5> QED
          BY <4>1, LeafIsNoNode
      <4> HIDE DEF Origin
      <4> QED
        BY <1>3, <3>1, <4>2, Zenon
    <3>4. g[k] = h[l]
      <4>1. Leaf(g[k]) = Leaf(h[l])
        BY <2>2, <3>1, <3>2, <3>3, Zenon
      <4> QED
        BY <4>1, LeavesTell
    <3>5. Same(g, k - 1, k, h, l - 1, l)
      <4>1. k \in Int /\ l \in Int
        OBVIOUS
      <4>2. k - (k - 1) = 1 /\ l - (l - 1) = 1 /\ (k - 1) + 1 = k /\ (l - 1) + 1 = l
        BY <4>1
      <4>3. \A i \in 1 .. 1 : i = 1
        OBVIOUS
      <4> QED
        BY <3>4, <4>2, <4>3, Zenon DEF Same
    <3> QED
      BY <3>1, <3>2, <3>3, <3>5
  <2> HIDE DEF n, level, p, other
  <2> QED
    BY <2>1, <2>2, Zenon
<1>5. ASSUME NEW i \in 0 .. n - 1, i \in Good
      PROVE  i + 1 \in Good
  <2>1. i + 1 \in 0 .. n /\ i + 1 \in 1 .. n /\ (i + 1) - 1 = i /\ i \in 0 .. n
    BY <1>1
  <2>2. level[i + 1] = LevelUp(level[i]) /\ \A j \in Nat : bound[i + 1][j] = bound[i][2 * j]
    <3>1. /\ level[i + 1] = LevelUp(level[(i + 1) - 1])
          /\ \A j \in Nat : bound[i + 1][j] = bound[(i + 1) - 1][2 * j]
      BY <2>1, Zenon DEF Framed
    <3> QED
      BY <2>1, <3>1
  <2>3. /\ IsLevel(level[i]) /\ bound[i] \in [Nat -> 0 .. n]
        /\ \A j \in Nat : bound[i][j] <= bound[i][j + 1]
        /\ \A j \in Nat : j >= Len(level[i]) => bound[i][j] = n
    BY <2>1, Zenon DEF Framed
  <2> DEFINE below == Len(level[i])
             above == Len(level[i + 1])
  <2>4. /\ above = (below + 1) \div 2
        /\ \A k \in 1 .. above :
             level[i + 1][k] = IF 2 * k <= below THEN Node(level[i][2 * k - 1], level[i][2 * k])
                               ELSE level[i][2 * k - 1]
    <3> DEFINE up == LevelUp(level[i])
    <3>1. /\ Len(up) = (below + 1) \div 2
          /\ \A k \in 1 .. Len(up) :
               up[k] = IF 2 * k <= below THEN Node(level[i][2 * k - 1], level[i][2 * k])
                       ELSE level[i][2 * k - 1]
      BY <2>3, LevelAbove, Zenon
    <3>2. level[i + 1] = up
      BY <2>2, Zenon
    <3> HIDE DEF up, level, below
    <3> QED
      BY <3>1, <3>2, Zenon
  <2>5. below \in Nat \ {0}
    BY <2>3, Zenon DEF IsLevel
  <2>6. \A k \in Nat \ {0} : k <= below => Told(i, k)
    BY <1>5
  <2>7. ASSUME NEW k \in Nat \ {0}, k <= above PROVE Told(i + 1, k)
    <3> HIDE DEF below, above, n, level, p, other
    <3>1. k \in 1 .. above /\ k \in Nat /\ k - 1 \in Nat /\ 2 * (k - 1) = (2 * k - 1) - 1
      BY <2>4, <2>5, <2>7
    <3>2. bound[i + 1][k] = bound[i][2 * k] /\ bound[i + 1][k - 1] = bound[i][(2 * k - 1) - 1]
      BY <2>2, <3>1, Zenon
    <3>3. CASE ~(2 * k <= below)
      <4>1. /\ 2 * k - 1 \in Nat \ {0} /\ 2 * k - 1 <= below /\ 2 * k \in Nat
            /\ 2 * k - 1 \in Nat /\ 2 * k - 1 >= below /\ 2 * k >= below
        <5>1. 2 * above <= below + 1 /\ below \in Int /\ above \in Int /\ k \in Int /\ k >= 1
          BY <2>4, <2>5
        <5>2. k <= above /\ 2 * k > below
          BY <2>5, <2>7, <3>3
        <5> QED
          BY <5>1, <5>2
      <4>2. level[i + 1][k] = level[i][2 * k - 1]
        BY <2>4, <3>1, <3>3, Zenon
      <4>3. bound[i][2 * k] = n /\ bound[i][2 * k - 1] = n
        BY <2>3, <4>1 DEF below
      <4>4. Told(i, 2 * k - 1)
        <5> HIDE DEF Told
        <5> QED
          BY <2>6, <4>1
      <4> QED
        BY <3>2, <4>2, <4>3, <4>4, Zenon
    <3>4. CASE 2 * k <= below
      <4>1. /\ 2 * k - 1 \in Nat \ {0} /\ 2 * k \in Nat \ {0} /\ 2 * k - 1 <= below
            /\ (2 * k - 1) - 1 \in Nat /\ 2 * k - 1 \in Nat /\ 2 * k \in Nat
            /\ ((2 * k - 1) - 1) + 1 = 2 * k - 1 /\ (2 * k - 1) + 1 = 2 * k
        BY <2>5, <3>4
      <4>2. level[i + 1][k] = Node(level[i][2 * k - 1], level[i][2 * k])
        BY <2>4, <3>1, <3>4, Zenon
      <4>3. Told(i, 2 * k - 1) /\ Told(i, 2 * k)
        <5> HIDE DEF Told
        <5> QED
          BY <2>6, <3>4, <4>1
      <4>4. ASSUME NEW e \in 0 .. p, NEW m \in Nat \ {0}, m <= Len(other[e]),
                   level[i + 1][k] = other[e][m]
            PROVE  Same(g, bound[i + 1][k - 1], bound[i + 1][k], h, edge[e][m - 1], edge[e][m])
        <5>1. PICK f \in 0 .. p, l \in Nat \ {0} :
                /\ Origin(f, l) /\ other[e][m] = other[f][l]
                /\ edge[e][m] = edge[f][l] /\ edge[e][m - 1] = edge[f][l - 1]
          BY <1>2, <4>4, Zenon
        <5>2. /\ f - 1 \in 0 .. p /\ 2 * l - 1 \in Nat \ {0} /\ 2 * l \in Nat \ {0}
              /\ 2 * l - 1 <= Len(other[f - 1]) /\ 2 * l <= Len(other[f - 1])
              /\ other[f][l] = Node(other[f - 1][2 * l - 1], other[f - 1][2 * l])
              /\ edge[f][l] = edge[f - 1][2 * l]
              /\ edge[f][l - 1] = edge[f - 1][(2 * l - 1) - 1]
          <6>1. other[f][l] = Node(level[i][2 * k - 1], level[i][2 * k])
            BY <4>2, <4>4, <5>1, Zenon
          <6>2. other[f][l] # Leaf(h[l])
            BY <6>1, LeafIsNoNode
          <6> HIDE DEF Origin
          <6> QED
            BY <1>3, <5>1, <6>2, Zenon
        <5>3. /\ level[i][2 * k - 1] = other[f - 1][2 * l - 1]
              /\ level[i][2 * k] = other[f - 1][2 * l]
          <6>1. Node(level[i][2 * k - 1], level[i][2 * k])
                  = Node(other[f - 1][2 * l - 1], other[f - 1][2 * l])
            BY <4>2, <4>4, <5>1, <5>2, Zenon
          <6> QED
            BY <6>1, NodesTell
        <5> DEFINE u == bound[i][(2 * k - 1) - 1]
                   v == bound[i][2 * k - 1]
                   w == bound[i][2 * k]
                   x == edge[f - 1][(2 * l - 1) - 1]
                   y == edge[f - 1][2 * l - 1]
                   z == edge[f - 1][2 * l]
        <5>4. Same(g, u, v, h, x, y)
          BY <4>3, <5>2, <5>3, Zenon
        <5>5. Same(g, v, w, h, y, z)
          <6>1. Same(g, bound[i][2 * k - 1], bound[i][2 * k], h, edge[f - 1][2 * l - 1], edge[f - 1][2 * l])
            BY <4>3, <5>2, <5>3, Zenon
          <6> QED
            BY <6>1, Zenon
        <5>6. u \in Int /\ v \in Int /\ w \in Int /\ u <= v /\ v <= w
          <6>1. 0 .. n \subseteq Int
            BY <1>1
          <6>2. u \in Int /\ v \in Int /\ w \in Int
            BY <2>3, <4>1, <6>1, Zenon
          <6>3. bound[i][(2 * k - 1) - 1] <= bound[i][((2 * k - 1) - 1) + 1]
            BY <2>3, <4>1, Zenon
          <6>4. bound[i][2 * k - 1] <= bound[i][(2 * k - 1) + 1]
            BY <2>3, <4>1, Zenon
          <6>5. u <= v /\ v <= w
            BY <4>1, <6>3, <6>4
          <6> QED
            BY <6>2, <6>5, Zenon
        <5>7. x \in Int /\ y \in Int /\ z \in Int
          <6>1. edge[f - 1] \in [Nat -> 0 .. p]
            BY <5>2, Zenon DEF Framed, p
          <6>2. 0 .. p \subseteq Int
            BY <1>1
          <6>3. (2 * l - 1) - 1 \in Nat /\ 2 * l - 1 \in Nat /\ 2 * l \in Nat
            OBVIOUS
          <6> QED
            BY <6>1, <6>2, <6>3, Zenon
        <5> HIDE DEF u, v, w, x, y, z
        <5>8. Same(g, u, w, h, x, z)
          BY <5>4, <5>5, <5>6, <5>7, StretchesJoin
        <5> QED
          BY <3>2, <5>1, <5>2, <5>8, Zenon DEF u, w, x, z
      <4> QED
        BY <4>4, Zenon
    <3> QED
      BY <3>3, <3>4
  <2> HIDE DEF Told
  <2> QED
    BY <2>1, <2>7
<1>6. 0 .. n \subseteq Good
  <2>1. 0 \in Int /\ n \in Int
    BY <1>1
  <2> HIDE DEF Good, n
  <2> QED
    BY <1>4, <1>5, <2>1, RangeInduction
<1>7. \A d \in 0 .. n, k \in Nat \ {0} : k <= Len(level[d]) => Told(d, k)
  <2> HIDE DEF Told
  <2> QED
    BY <1>6
<1> HIDE DEF n, level, p, other
<1> QED
  <2>1. \A d \in 0 .. n, k \in Nat \ {0}, e \in 0 .. p, m \in Nat \ {0} :
          k <= Len(level[d]) /\ m <= Len(other[e]) /\ level[d][k] = other[e][m]
            => Same(g, bound[d][k - 1], bound[d][k], h, edge[e][m - 1], edge[e][m])
    BY <1>7, Zenon
  <2> QED
    BY <2>1, Zenon DEF n, level, p, other

(* Two lists with one root are one list: no members are left out, changed or *)
(* taken in another order, and no list has the root of another length.       *)
LEMMA RootNamesTheList ==
  ASSUME NEW A, NEW g \in Seq(A), g # <<>>, NEW h \in Seq(A), h # <<>>, root(g) = root(h)
  PROVE  g = h
<1>1. PICK bound : Framed(g, bound)
  BY TreeIsFramed, Zenon
<1>2. PICK edge : Framed(h, edge)
  BY TreeIsFramed, Zenon
<1> DEFINE n == Len(g)
           p == Len(h)
<1>3. n \in Nat \ {0} /\ p \in Nat \ {0}
  OBVIOUS
<1>4. /\ Levels(g)[n][1] = Levels(h)[p][1]
      /\ n \in 0 .. n /\ p \in 0 .. p /\ 1 \in Nat \ {0} /\ 1 \in Nat /\ 1 - 1 = 0
  BY <1>3 DEF root
<1>5. ASSUME NEW s, NEW b, Framed(s, b)
      PROVE  Len(Levels(s)[Len(s)]) = 1 /\ b[Len(s)][0] = 0 /\ b[Len(s)][1] = Len(s)
  <2> DEFINE m   == Len(s)
             top == Levels(s)[m]
  <2>1. m \in Nat \ {0}
    BY <1>5, Zenon DEF Framed
  <2>2. m \in 0 .. m /\ m - m = 0
    BY <2>1
  <2>3. /\ IsLevel(top) /\ (Len(top) = 1 \/ Len(top) <= m - m) /\ b[m][0] = 0
        /\ \A j \in Nat : j >= Len(top) => b[m][j] = m
    BY <1>5, <2>2, Zenon DEF Framed
  <2>4. Len(top) \in Nat \ {0}
    BY <2>3, Zenon DEF IsLevel
  <2> HIDE DEF top, m
  <2>5. Len(top) = 1
    BY <2>2, <2>3, <2>4
  <2>6. b[m][1] = m
    BY <2>3, <2>5
  <2> QED
    BY <2>3, <2>5, <2>6, Zenon DEF top, m
<1>6. Same(g, bound[n][1 - 1], bound[n][1], h, edge[p][1 - 1], edge[p][1])
  <2>1. Len(Levels(g)[n]) = 1 /\ Len(Levels(h)[p]) = 1
    BY <1>1, <1>2, <1>5, Zenon
  <2>2. 1 <= Len(Levels(g)[n]) /\ 1 <= Len(Levels(h)[p])
    BY <2>1
  <2> HIDE DEF n, p
  <2> QED
    BY <1>1, <1>2, <1>4, <2>2, NodeNamesItsMembers, Zenon DEF n, p
<1>7. Same(g, 0, n, h, 0, p)
  BY <1>1, <1>2, <1>4, <1>5, <1>6
<1>8. n = p /\ \A i \in 1 .. n : g[i] = h[i]
  <2>1. n - 0 = p - 0 /\ \A i \in 1 .. n - 0 : g[0 + i] = h[0 + i]
    BY <1>7, Zenon DEF Same
  <2> HIDE DEF n, p
  <2> QED
    BY <1>3, <2>1
<1> QED
  BY <1>8

-----------------------------------------------------------------------------
(* Every member's path leads to the root.                                    *)

\* What the loops of MerklePath compute: the place of the leaf's ancestor on
\* every level, and the neighbours met on the way there.
Places(members, index, at) ==
  at = [d \in 0 .. Len(members) |-> IF d = 0 THEN index ELSE at[d - 1] \div 2]

Beside(place) == IF place % 2 = 1 THEN place - 1 ELSE place + 1

Sibling(level, place) == [sibling |-> level[Beside(place) + 1], isRight |-> place % 2 = 1]

Neighbours(members, at, path) ==
  path = [d \in 0 .. Len(members) |->
            IF d = 0 THEN <<>>
            ELSE IF Beside(at[d - 1]) < Len(Levels(members)[d - 1])
                 THEN Append(path[d - 1], Sibling(Levels(members)[d - 1], at[d - 1]))
            ELSE path[d - 1]]

(* The places have their values: each is half of the one below.              *)
LEMMA PlacesRun ==
  ASSUME NEW members, Len(members) \in Nat \ {0}, NEW index \in Nat
  PROVE  \E at \in [0 .. Len(members) -> Nat] :
           /\ at = CHOOSE v : Places(members, index, v)
           /\ at[0] = index
           /\ \A d \in 1 .. Len(members) : at[d] = at[d - 1] \div 2
<1> DEFINE n == Len(members)
           half == [d \in 0 .. n - 1 |-> [v \in Nat |-> v \div 2]]
           at == CHOOSE v : Places(members, index, v)
<1> HIDE DEF n
<1>1. n \in Nat \ {0} /\ 0 \in Int /\ n \in Int /\ 0 <= n /\ 0 \in 0 .. n
  BY DEF n
<1>2. half \in [0 .. n - 1 -> [Nat -> Nat]]
  <2>1. \A v \in Nat : v \div 2 \in Nat
    OBVIOUS
  <2> QED
    BY <2>1
<1> HIDE DEF half
<1>3. PICK p \in [0 .. n -> Nat] : Runs(p, index, half, 0, n)
  BY <1>1, <1>2, LoopRuns, Zenon
<1>4. ASSUME NEW d \in 0 .. n, d # 0
      PROVE  d - 1 \in 0 .. n - 1 /\ d - 1 \in 0 .. n /\ d \in 1 .. n
  BY <1>1, <1>4
<1>5. ASSUME NEW d \in 0 .. n
      PROVE  p[d] = IF d = 0 THEN index ELSE p[d - 1] \div 2
  <2>1. CASE d = 0
    BY <1>1, <1>3, <2>1, Zenon DEF Runs
  <2>2. CASE d # 0
    <3>1. p[d] = half[d - 1][p[d - 1]]
      BY <1>3, <2>2, Zenon DEF Runs
    <3>2. p[d - 1] \in Nat /\ d - 1 \in 0 .. n - 1
      BY <1>3, <1>4, <2>2
    <3> QED
      BY <2>2, <3>1, <3>2, Zenon DEF half
  <2> QED
    BY <2>1, <2>2
<1>6. Places(members, index, p)
  <2>1. p = [d \in 0 .. n |-> p[d]]
    BY <1>3
  <2>2. p = [d \in 0 .. n |-> IF d = 0 THEN index ELSE p[d - 1] \div 2]
    BY <1>5, <2>1, Zenon
  <2> QED
    BY <2>2, Zenon DEF Places, n
<1>7. Places(members, index, at)
  BY <1>6, Zenon
<1> HIDE DEF at
<1>8. at = [d \in 0 .. n |-> IF d = 0 THEN index ELSE at[d - 1] \div 2]
  BY <1>7, Zenon DEF Places, n
<1> DEFINE Good == {d \in 0 .. n : at[d] = p[d]}
<1>9. 0 .. n \subseteq Good
  <2>1. 0 \in Good
    <3>1. at[0] = index /\ p[0] = index
      BY <1>1, <1>5, <1>8, Zenon
    <3> QED
      BY <1>1, <3>1
  <2>2. ASSUME NEW d \in 0 .. n - 1, d \in Good PROVE d + 1 \in Good
    <3>1. d + 1 \in 0 .. n /\ (d + 1) - 1 = d /\ d + 1 # 0
      BY <1>1
    <3>2. at[d + 1] = at[d] \div 2 /\ p[d + 1] = p[d] \div 2
      <4>1. at[d + 1] = at[(d + 1) - 1] \div 2 /\ p[d + 1] = p[(d + 1) - 1] \div 2
        BY <1>5, <1>8, <3>1, Zenon
      <4> QED
        BY <3>1, <4>1
    <3> QED
      BY <2>2, <3>1, <3>2, Zenon
  <2> HIDE DEF Good
  <2> QED
    BY <1>1, <2>1, <2>2, RangeInduction
<1>10. at \in [0 .. n -> Nat]
  <2>1. \A d \in 0 .. n : at[d] \in Nat
    BY <1>3, <1>9
  <2>2. at = [d \in 0 .. n |-> at[d]]
    BY <1>8, Zenon
  <2> QED
    BY <2>1, <2>2, Zenon
<1>11. at[0] = index
  BY <1>1, <1>8, Zenon
<1>12. ASSUME NEW d \in 1 .. n PROVE at[d] = at[d - 1] \div 2
  <2>1. d \in 0 .. n /\ d # 0
    BY <1>1
  <2> QED
    BY <1>8, <2>1, Zenon
<1> QED
  BY <1>10, <1>11, <1>12, Zenon DEF at, n

\* The path up to each level, whose neighbours are in S.
PathUpTo(members, at, S, path) ==
  /\ path = CHOOSE v : Neighbours(members, at, v)
  /\ path[0] = <<>>
  /\ \A d \in 1 .. Len(members) :
       /\ Sibling(Levels(members)[d - 1], at[d - 1]) \in S
       /\ path[d] = IF Beside(at[d - 1]) < Len(Levels(members)[d - 1])
                    THEN Append(path[d - 1], Sibling(Levels(members)[d - 1], at[d - 1]))
                    ELSE path[d - 1]

(* The path has its values: at each level the neighbour is appended, if      *)
(* there is one.                                                             *)
LEMMA PathRuns ==
  ASSUME NEW members, Len(members) \in Nat \ {0}, NEW at
  PROVE  \E S : \E path \in [0 .. Len(members) -> Seq(S)] : PathUpTo(members, at, S, path)
<1> DEFINE n == Len(members)
           sibling == [d \in 0 .. n - 1 |-> Sibling(Levels(members)[d], at[d])]
           S == {sibling[d] : d \in 0 .. n - 1}
           there == [d \in 0 .. n - 1 |-> Beside(at[d]) < Len(Levels(members)[d])]
           step == [d \in 0 .. n - 1 |->
                      [s \in Seq(S) |-> IF there[d] THEN Append(s, sibling[d]) ELSE s]]
           path == CHOOSE v : Neighbours(members, at, v)
<1> HIDE DEF n
<1>1. n \in Nat \ {0} /\ 0 \in Int /\ n \in Int /\ 0 <= n /\ 0 \in 0 .. n
  BY DEF n
<1>2. \A d \in 0 .. n - 1 : sibling[d] \in S
  OBVIOUS
<1>3. ASSUME NEW d \in 0 .. n - 1
      PROVE  /\ there[d] <=> Beside(at[d]) < Len(Levels(members)[d])
             /\ sibling[d] = Sibling(Levels(members)[d], at[d])
  BY Zenon
<1> HIDE DEF sibling, S, there
<1>4. step \in [0 .. n - 1 -> [Seq(S) -> Seq(S)]]
  <2>1. \A d \in 0 .. n - 1, s \in Seq(S) : Append(s, sibling[d]) \in Seq(S)
    BY <1>2
  <2> QED
    BY <2>1
<1>5. <<>> \in Seq(S)
  OBVIOUS
<1> HIDE DEF step
<1>6. PICK p \in [0 .. n -> Seq(S)] : Runs(p, <<>>, step, 0, n)
  BY <1>1, <1>4, <1>5, LoopRuns, Zenon
<1> DEFINE Turn(v, d) == IF d = 0 THEN <<>>
                         ELSE IF Beside(at[d - 1]) < Len(Levels(members)[d - 1])
                              THEN Append(v[d - 1], Sibling(Levels(members)[d - 1], at[d - 1]))
                         ELSE v[d - 1]
<1>7. ASSUME NEW d \in 0 .. n, d # 0
      PROVE  d - 1 \in 0 .. n - 1 /\ d - 1 \in 0 .. n
  BY <1>1, <1>7
<1>8. ASSUME NEW v, NEW d \in 0 .. n
      PROVE  Turn(v, d) = IF d = 0 THEN <<>>
                          ELSE IF there[d - 1] THEN Append(v[d - 1], sibling[d - 1]) ELSE v[d - 1]
  BY <1>3, <1>7, Zenon
<1>9. ASSUME NEW d \in 0 .. n PROVE p[d] = Turn(p, d)
  <2>1. CASE d = 0
    BY <1>1, <1>6, <2>1, Zenon DEF Runs
  <2>2. CASE d # 0
    <3>1. p[d] = step[d - 1][p[d - 1]]
      BY <1>6, <2>2, Zenon DEF Runs
    <3>2. p[d - 1] \in Seq(S) /\ d - 1 \in 0 .. n - 1
      BY <1>6, <1>7, <2>2
    <3>3. p[d] = IF there[d - 1] THEN Append(p[d - 1], sibling[d - 1]) ELSE p[d - 1]
      BY <3>1, <3>2, Zenon DEF step
    <3> HIDE DEF Turn
    <3> QED
      BY <1>8, <2>2, <3>3, Zenon
  <2> QED
    BY <2>1, <2>2
<1>10. Neighbours(members, at, p)
  <2>1. p = [d \in 0 .. n |-> p[d]]
    BY <1>6
  <2>2. p = [d \in 0 .. n |-> Turn(p, d)]
    <3> HIDE DEF Turn
    <3> QED
      BY <1>9, <2>1, Zenon
  <2> QED
    BY <2>2, Zenon DEF Neighbours, n
<1>11. Neighbours(members, at, path)
  BY <1>10, Zenon
<1> HIDE DEF path
<1>12. path = [d \in 0 .. n |-> Turn(path, d)]
  BY <1>11, Zenon DEF Neighbours, n
<1> HIDE DEF Turn
<1>13. path = [d \in 0 .. n |-> path[d]] /\ \A d \in 0 .. n : path[d] = Turn(path, d)
  BY <1>12, Zenon
<1>14. path[0] = <<>>
  BY <1>1, <1>13, Zenon DEF Turn
<1> DEFINE Good == {d \in 0 .. n : path[d] \in Seq(S)}
<1>15. 0 .. n \subseteq Good
  <2>1. 0 \in Good
    BY <1>1, <1>5, <1>14, Zenon
  <2>2. ASSUME NEW d \in 0 .. n - 1, d \in Good PROVE d + 1 \in Good
    <3>1. d + 1 \in 0 .. n /\ (d + 1) - 1 = d /\ d + 1 # 0
      BY <1>1
    <3>2. path[d + 1] = IF there[d] THEN Append(path[d], sibling[d]) ELSE path[d]
      <4>1. path[d + 1] = IF there[(d + 1) - 1] THEN Append(path[(d + 1) - 1], sibling[(d + 1) - 1])
                          ELSE path[(d + 1) - 1]
        BY <1>8, <1>13, <3>1, Zenon
      <4> QED
        BY <3>1, <4>1
    <3>3. path[d] \in Seq(S) /\ sibling[d] \in S
      BY <1>2, <2>2
    <3>4. Append(path[d], sibling[d]) \in Seq(S)
      BY <3>3
    <3> QED
      BY <3>1, <3>2, <3>3, <3>4, Zenon
  <2> HIDE DEF Good
  <2> QED
    BY <1>1, <2>1, <2>2, RangeInduction
<1>16. path \in [0 .. n -> Seq(S)]
  BY <1>13, <1>15, Zenon
<1>17. ASSUME NEW d \in 1 .. n
       PROVE  /\ Sibling(Levels(members)[d - 1], at[d - 1]) \in S
              /\ path[d] = IF Beside(at[d - 1]) < Len(Levels(members)[d - 1])
                           THEN Append(path[d - 1], Sibling(Levels(members)[d - 1], at[d - 1]))
                           ELSE path[d - 1]
  <2>1. d \in 0 .. n /\ d # 0 /\ d - 1 \in 0 .. n - 1
    BY <1>1
  <2>2. path[d] = Turn(path, d)
    BY <1>13, <2>1, Zenon
  <2>3. Sibling(Levels(members)[d - 1], at[d - 1]) \in S
    BY <1>2, <1>3, <2>1, Zenon
  <2> QED
    BY <2>1, <2>2, <2>3, Zenon DEF Turn
<1>18. PathUpTo(members, at, S, path)
  BY <1>14, <1>17, Zenon DEF path, n, PathUpTo
<1>19. \E v \in [0 .. n -> Seq(S)] : PathUpTo(members, at, S, v)
  BY <1>16, <1>18, Zenon
<1> QED
  BY <1>19, Zenon DEF n

\* What the loop of BinaryMerkleRoot computes: the nodes on the way up.
OneUp(step, below) == IF step.isRight THEN Node(step.sibling, below) ELSE Node(below, step.sibling)

Climbs(leaf, path, node) ==
  node = [i \in 0 .. Len(path) |-> IF i = 0 THEN leaf ELSE OneUp(path[i], node[i - 1])]

(* There is one way up a path.                                               *)
LEMMA OneWayUp ==
  ASSUME NEW leaf, NEW path, Len(path) \in Nat, NEW v, Climbs(leaf, path, v)
  PROVE  BinaryMerkleRoot(leaf, path) = v[Len(path)]
<1> DEFINE n == Len(path)
           w == CHOOSE node : Climbs(leaf, path, node)
<1>1. BinaryMerkleRoot(leaf, path) = w[n]
  BY Zenon DEF BinaryMerkleRoot, Climbs, OneUp
<1>2. Climbs(leaf, path, w)
  BY Zenon
<1> HIDE DEF w
<1> DEFINE Good == {i \in 0 .. n : w[i] = v[i]}
<1>3. 0 \in Int /\ n \in Int /\ n \in 0 .. n /\ 0 \in 0 .. n
  OBVIOUS
<1> HIDE DEF n
<1>4. 0 \in Good
  <2>1. w[0] = leaf /\ v[0] = leaf
    BY <1>2, <1>3, Zenon DEF Climbs, n
  <2> QED
    BY <1>3, <2>1
<1>5. ASSUME NEW i \in 0 .. n - 1, i \in Good PROVE i + 1 \in Good
  <2>1. i + 1 \in 0 .. n /\ i + 1 # 0 /\ (i + 1) - 1 = i
    BY <1>3
  <2>2. /\ w[i + 1] = OneUp(path[i + 1], w[(i + 1) - 1])
        /\ v[i + 1] = OneUp(path[i + 1], v[(i + 1) - 1])
    BY <1>2, <2>1, Zenon DEF Climbs, n
  <2>3. w[i + 1] = v[i + 1]
    BY <1>5, <2>1, <2>2
  <2> QED
    BY <2>1, <2>3
<1>6. 0 .. n \subseteq Good
  <2> HIDE DEF Good
  <2> QED
    BY <1>3, <1>4, <1>5, RangeInduction
<1> QED
  BY <1>1, <1>3, <1>6, Zenon DEF n

(* A longer path leads one node further.                                     *)
LEMMA ClimbsFurther ==
  ASSUME NEW leaf, NEW S, NEW path \in Seq(S), NEW step \in S, NEW v, Climbs(leaf, path, v)
  PROVE  \E w : /\ Climbs(leaf, Append(path, step), w)
                /\ w[Len(Append(path, step))] = OneUp(step, v[Len(path)])
<1> DEFINE n == Len(path)
           longer == Append(path, step)
           w == [i \in 0 .. n + 1 |-> IF i = n + 1 THEN OneUp(step, v[n]) ELSE v[i]]
<1>1. /\ n \in Nat /\ Len(longer) = n + 1 /\ longer[n + 1] = step
      /\ \A i \in 1 .. n : longer[i] = path[i]
  OBVIOUS
<1> HIDE DEF longer
<1>2. ASSUME NEW i \in 0 .. n + 1
      PROVE  w[i] = IF i = 0 THEN leaf ELSE OneUp(longer[i], w[i - 1])
  <2>1. CASE i = n + 1
    <3>1. i # 0 /\ i - 1 = n /\ n \in 0 .. n + 1 /\ n # n + 1
      BY <1>1, <2>1
    <3>2. w[i] = OneUp(step, v[n]) /\ w[n] = v[n]
      BY <2>1, <3>1, Zenon
    <3> HIDE DEF w, n
    <3> QED
      BY <1>1, <2>1, <3>1, <3>2
  <2>2. CASE i # n + 1
    <3>1. /\ i \in 0 .. n
          /\ i # 0 => i \in 1 .. n /\ i - 1 \in 0 .. n + 1 /\ i - 1 # n + 1
      BY <1>1, <2>2
    <3>2. w[i] = v[i] /\ (i # 0 => w[i - 1] = v[i - 1])
      BY <2>2, <3>1, Zenon
    <3>3. v[i] = IF i = 0 THEN leaf ELSE OneUp(path[i], v[i - 1])
      BY <3>1, Zenon DEF Climbs
    <3>4. i # 0 => longer[i] = path[i]
      BY <1>1, <3>1
    <3> HIDE DEF w, n
    <3> QED
      BY <3>2, <3>3, <3>4, Zenon
  <2> QED
    BY <2>1, <2>2
<1>3. Climbs(leaf, longer, w)
  <2>1. w = [i \in 0 .. n + 1 |-> w[i]]
    BY Zenon
  <2> HIDE DEF w
  <2>2. w = [i \in 0 .. n + 1 |-> IF i = 0 THEN leaf ELSE OneUp(longer[i], w[i - 1])]
    BY <1>2, <2>1, Zenon
  <2> QED
    BY <1>1, <2>2 DEF Climbs
<1>4. w[Len(longer)] = OneUp(step, v[n])
  <2>1. n + 1 \in 0 .. n + 1
    BY <1>1
  <2> QED
    BY <1>1, <2>1, Zenon
<1> HIDE DEF w, n
<1> QED
  BY <1>3, <1>4, Zenon DEF longer, n

(* The path of a leaf leads to the root, from every place, also over the     *)
(* levels on which a node has no neighbour.                                  *)
LEMMA PathLeadsToRoot ==
  ASSUME NEW A, NEW members \in Seq(A), NEW index \in 0 .. Len(members) - 1
  PROVE  BinaryMerkleRoot(Leaf(members[index + 1]), MerklePath(members, index)) = root(members)
<1> DEFINE n     == Len(members)
           level == Levels(members)
           leaf  == Leaf(members[index + 1])
<1>1. /\ members # <<>> /\ n \in Nat \ {0} /\ index \in Nat
      /\ index + 1 \in 1 .. n /\ 0 \in 0 .. n /\ n \in 0 .. n /\ 0 \in Int /\ n \in Int
  OBVIOUS
<1>2. PICK bound : Framed(members, bound)
  BY <1>1, TreeIsFramed, Zenon
<1>3. PICK at \in [0 .. n -> Nat] :
        /\ at = CHOOSE v : Places(members, index, v)
        /\ at[0] = index
        /\ \A d \in 1 .. n : at[d] = at[d - 1] \div 2
  BY <1>1, PlacesRun, Zenon
<1>4. PICK S : \E path \in [0 .. n -> Seq(S)] : PathUpTo(members, at, S, path)
  BY <1>1, PathRuns, Zenon
<1>5. PICK path \in [0 .. n -> Seq(S)] :
        /\ path = CHOOSE v : Neighbours(members, at, v)
        /\ path[0] = <<>>
        /\ \A d \in 1 .. n :
             /\ Sibling(level[d - 1], at[d - 1]) \in S
             /\ path[d] = IF Beside(at[d - 1]) < Len(level[d - 1])
                          THEN Append(path[d - 1], Sibling(level[d - 1], at[d - 1]))
                          ELSE path[d - 1]
  BY <1>4, Zenon DEF PathUpTo
<1>6. MerklePath(members, index) = path[n]
  <2>1. MerklePath(members, index) =
          (CHOOSE w : Neighbours(members, CHOOSE v : Places(members, index, v), w))[n]
    BY DEF MerklePath, Neighbours, Places, Sibling, Beside
  <2> QED
    BY <1>3, <1>5, <2>1
<1> DEFINE There(d) ==
      /\ at[d] + 1 \in 1 .. Len(level[d])
      /\ \E node : Climbs(leaf, path[d], node) /\ node[Len(path[d])] = level[d][at[d] + 1]
           Good == {d \in 0 .. n : There(d)}
<1> HIDE DEF n, level
<1>7. 0 \in Good
  <2>1. Len(level[0]) = n /\ level[0][index + 1] = leaf
    BY <1>1, <1>2, Zenon DEF Framed, n, level
  <2>2. at[0] + 1 \in 1 .. Len(level[0])
    BY <1>1, <1>3, <2>1
  <2> DEFINE node == [i \in 0 .. 0 |-> leaf]
  <2>3. Len(path[0]) = 0
    BY <1>5
  <2>4. Climbs(leaf, path[0], node)
    <3>1. node = [i \in 0 .. 0 |-> IF i = 0 THEN leaf ELSE OneUp(path[0][i], node[i - 1])]
      <4>1. \A i \in 0 .. 0 : i = 0
        OBVIOUS
      <4> QED
        BY <4>1, Zenon
    <3> HIDE DEF node
    <3> QED
      BY <2>3, <3>1 DEF Climbs
  <2>5. node[Len(path[0])] = level[0][at[0] + 1]
    <3>1. node[0] = leaf
      BY 0 \in 0 .. 0, Zenon
    <3> HIDE DEF node
    <3> QED
      BY <1>3, <2>1, <2>3, <3>1
  <2> HIDE DEF node, leaf
  <2> QED
    BY <1>1, <2>2, <2>4, <2>5, Zenon
<1>8. ASSUME NEW i \in 0 .. n - 1, i \in Good PROVE i + 1 \in Good
  <2>1. i + 1 \in 0 .. n /\ i + 1 \in 1 .. n /\ (i + 1) - 1 = i /\ i \in 0 .. n
    BY <1>1
  <2> DEFINE x     == at[i]
             y     == at[i + 1]
             below == Len(level[i])
             above == Len(level[i + 1])
  <2>2. x \in Nat /\ y = x \div 2 /\ x + 1 \in 1 .. below
    <3>1. at[i + 1] = at[(i + 1) - 1] \div 2
      BY <1>3, <2>1, Zenon
    <3>2. at[i] \in Nat /\ at[i] + 1 \in 1 .. Len(level[i])
      BY <1>3, <1>8, <2>1
    <3> QED
      BY <2>1, <3>1, <3>2
  <2>3. PICK node : Climbs(leaf, path[i], node) /\ node[Len(path[i])] = level[i][x + 1]
    <3>1. There(i)
      BY <1>8
    <3> HIDE DEF leaf
    <3> QED
      BY <3>1, Zenon
  <2>4. IsLevel(level[i]) /\ level[i + 1] = LevelUp(level[i])
    <3>1. IsLevel(level[i]) /\ level[i + 1] = LevelUp(level[(i + 1) - 1])
      BY <1>2, <2>1, Zenon DEF Framed, n, level
    <3> QED
      BY <2>1, <3>1
  <2>5. /\ above = (below + 1) \div 2
        /\ \A k \in 1 .. above :
             level[i + 1][k] = IF 2 * k <= below THEN Node(level[i][2 * k - 1], level[i][2 * k])
                               ELSE level[i][2 * k - 1]
    <3> DEFINE up == LevelUp(level[i])
    <3>1. /\ Len(up) = (below + 1) \div 2
          /\ \A k \in 1 .. Len(up) :
               up[k] = IF 2 * k <= below THEN Node(level[i][2 * k - 1], level[i][2 * k])
                       ELSE level[i][2 * k - 1]
      BY <2>4, LevelAbove, Zenon
    <3>2. level[i + 1] = up
      BY <2>4, Zenon
    <3> HIDE DEF up, below
    <3> QED
      BY <3>1, <3>2, Zenon
  <2>6. below \in Nat \ {0}
    BY <2>4, Zenon DEF IsLevel
  <2>7. /\ Sibling(level[i], x) \in S
        /\ path[i + 1] = IF Beside(x) < below THEN Append(path[i], Sibling(level[i], x)) ELSE path[i]
    <3>1. /\ Sibling(level[(i + 1) - 1], at[(i + 1) - 1]) \in S
          /\ path[i + 1] = IF Beside(at[(i + 1) - 1]) < Len(level[(i + 1) - 1])
                           THEN Append(path[(i + 1) - 1], Sibling(level[(i + 1) - 1], at[(i + 1) - 1]))
                           ELSE path[(i + 1) - 1]
      BY <1>5, <2>1, Zenon DEF n, level
    <3> QED
      BY <2>1, <3>1
  <2>8. path[i] \in Seq(S)
    BY <1>5, <2>1
  <2> HIDE DEF leaf
  <2>9. PICK v : Climbs(leaf, path[i + 1], v) /\ v[Len(path[i + 1])] = level[i + 1][y + 1]
    <3> HIDE DEF x, y, below, above
    <3>1. y + 1 \in 1 .. above
      BY <2>2, <2>5, <2>6
    <3>2. CASE Beside(x) < below
      <4>1. path[i + 1] = Append(path[i], Sibling(level[i], x))
        BY <2>7, <3>2, Zenon
      <4>2. PICK w : /\ Climbs(leaf, path[i + 1], w)
                     /\ w[Len(path[i + 1])] = OneUp(Sibling(level[i], x), level[i][x + 1])
        <5> DEFINE p    == path[i]
                   step == Sibling(level[i], x)
        <5>1. p \in Seq(S) /\ step \in S /\ Climbs(leaf, p, node)
          BY <2>3, <2>7, <2>8
        <5> HIDE DEF p, step
        <5>2. PICK w : /\ Climbs(leaf, Append(p, step), w)
                       /\ w[Len(Append(p, step))] = OneUp(step, node[Len(p)])
          BY <5>1, ClimbsFurther
        <5>3. path[i + 1] = Append(p, step) /\ node[Len(p)] = level[i][x + 1]
          BY <2>3, <4>1 DEF p, step
        <5> QED
          BY <5>2, <5>3 DEF step
      <4>3. 2 * (y + 1) <= below
        BY <2>2, <2>6, <3>2 DEF Beside
      <4>4. level[i + 1][y + 1] = Node(level[i][2 * (y + 1) - 1], level[i][2 * (y + 1)])
        BY <2>5, <3>1, <4>3, Zenon
      <4>5. OneUp(Sibling(level[i], x), level[i][x + 1]) = level[i + 1][y + 1]
        <5>1. CASE x % 2 = 1
          <6>1. 2 * (y + 1) - 1 = Beside(x) + 1 /\ 2 * (y + 1) = x + 1
            BY <2>2, <5>1 DEF Beside
          <6>2. /\ Sibling(level[i], x).isRight
                /\ Sibling(level[i], x).sibling = level[i][Beside(x) + 1]
            BY <5>1 DEF Sibling
          <6> QED
            BY <4>4, <6>1, <6>2 DEF OneUp
        <5>2. CASE x % 2 # 1
          <6>1. 2 * (y + 1) - 1 = x + 1 /\ 2 * (y + 1) = Beside(x) + 1
            BY <2>2, <5>2 DEF Beside
          <6>2. /\ ~Sibling(level[i], x).isRight
                /\ Sibling(level[i], x).sibling = level[i][Beside(x) + 1]
            BY <5>2 DEF Sibling
          <6> QED
            BY <4>4, <6>1, <6>2 DEF OneUp
        <5> QED
          BY <5>1, <5>2
      <4> QED
        BY <4>2, <4>5
    <3>3. CASE ~(Beside(x) < below)
      <4>1. path[i + 1] = path[i]
        BY <2>7, <3>3, Zenon
      <4>2. ~(2 * (y + 1) <= below) /\ 2 * (y + 1) - 1 = x + 1
        BY <2>2, <2>6, <3>3 DEF Beside
      <4>3. level[i + 1][y + 1] = level[i][2 * (y + 1) - 1]
        BY <2>5, <3>1, <4>2, Zenon
      <4>4. level[i + 1][y + 1] = level[i][x + 1]
        BY <4>2, <4>3
      <4> QED
        BY <2>3, <4>1, <4>4
    <3> QED
      BY <3>2, <3>3
  <2>10. y + 1 \in 1 .. above
    <3> HIDE DEF x, y, below, above
    <3> QED
      BY <2>2, <2>5, <2>6
  <2>11. There(i + 1)
    BY <2>9, <2>10, Zenon
  <2> HIDE DEF There
  <2> QED
    BY <2>1, <2>11
<1>9. There(n)
  <2> HIDE DEF There
  <2>1. 0 .. n \subseteq Good
    <3> HIDE DEF Good
    <3> QED
      BY <1>1, <1>7, <1>8, RangeInduction
  <2> QED
    BY <1>1, <2>1
<1>10. Len(level[n]) = 1
  <2>1. /\ IsLevel(level[n])
        /\ Len(level[n]) = 1 \/ Len(level[n]) <= n - n
    BY <1>1, <1>2, Zenon DEF Framed, n, level
  <2>2. Len(level[n]) \in Nat \ {0}
    BY <2>1, Zenon DEF IsLevel
  <2> QED
    BY <1>1, <2>1, <2>2
<1>11. at[n] + 1 = 1
  <2>1. at[n] \in Nat /\ at[n] + 1 \in 1 .. 1
    BY <1>1, <1>3, <1>9, <1>10
  <2> QED
    BY <2>1
<1>12. PICK node : Climbs(leaf, path[n], node) /\ node[Len(path[n])] = level[n][1]
  <2> HIDE DEF leaf
  <2>1. \E node : Climbs(leaf, path[n], node) /\ node[Len(path[n])] = level[n][at[n] + 1]
    BY <1>9, Zenon
  <2> QED
    BY <1>11, <2>1
<1>13. Len(path[n]) \in Nat
  <2>1. path[n] \in Seq(S)
    BY <1>1, <1>5
  <2> QED
    BY <2>1
<1> HIDE DEF leaf
<1>14. BinaryMerkleRoot(leaf, path[n]) = level[n][1]
  BY <1>12, <1>13, OneWayUp
<1> QED
  BY <1>6, <1>14 DEF root, leaf, n, level

-----------------------------------------------------------------------------
(* The proofs and signatures that were made.                                 *)

\* What is known of a proof: the group it was made over, whose root it shows,
\* and the member, message and scope in its signals.
ProofIsMade(p) ==
  /\ p.group \in Groups
  /\ p.proof = [merkleRoot |-> root(p.group),
                nullifier  |-> [scope |-> convertMessage(p.service), secret |-> secretScalar(p.by)],
                message    |-> convertMessage(p.challenge),
                scope      |-> convertMessage(p.service)]

SignatureIsMade(s) == s.key = publicKey(csk(s.by, s.service))

MadeInv ==
  /\ group \in Groups
  /\ \A p \in made : ProofIsMade(p)
  /\ \A s \in signatures : SignatureIsMade(s)

(* The signals of a proof, one by one.                                       *)
LEMMA SignalsOf ==
  ASSUME NEW p, ProofIsMade(p)
  PROVE  /\ p.proof.merkleRoot = root(p.group)
         /\ p.proof.nullifier = [scope |-> convertMessage(p.service), secret |-> secretScalar(p.by)]
         /\ p.proof.message = convertMessage(p.challenge)
         /\ p.proof.scope = convertMessage(p.service)
<1> DEFINE top       == root(p.group)
           nullifier == [scope |-> convertMessage(p.service), secret |-> secretScalar(p.by)]
           message   == convertMessage(p.challenge)
           scope     == convertMessage(p.service)
<1>1. p.proof = [merkleRoot |-> top, nullifier |-> nullifier, message |-> message, scope |-> scope]
  BY DEF ProofIsMade
<1> HIDE DEF top, nullifier, message, scope
<1>2. /\ p.proof.merkleRoot = top /\ p.proof.nullifier = nullifier
      /\ p.proof.message = message /\ p.proof.scope = scope
  BY <1>1
<1> QED
  BY <1>2 DEF top, nullifier, message, scope

(* The place of a member's leaf is a place of the list, with his key.        *)
LEMMA IndexIsHis ==
  ASSUME group \in Groups, NEW msk, \E k \in DOMAIN group : group[k] = msk
  PROVE  indexOf(msk) \in 0 .. Len(group) - 1 /\ group[indexOf(msk) + 1] = msk
<1> DEFINE First(k) == group[k] = msk /\ \A l \in 1 .. k - 1 : group[l] # msk
           Here == {k \in Nat : k \in DOMAIN group /\ group[k] = msk}
<1>1. DOMAIN group = 1 .. Len(group) /\ Len(group) \in Nat
  <2>1. group \in Seq({group[k] : k \in DOMAIN group})
    BY GroupsAssumption
  <2> QED
    BY <2>1
<1>2. PICK k \in Here : \A l \in Here : k <= l
  <2>1. Here # {}
    BY <1>1
  <2> QED
    BY <2>1, LeastNatural
<1>3. k \in 1 .. Len(group) /\ First(k)
  <2>1. ASSUME NEW l \in 1 .. k - 1, group[l] = msk PROVE FALSE
    <3>1. k \in 1 .. Len(group)
      BY <1>1, <1>2
    <3>2. l \in Nat /\ l \in 1 .. Len(group) /\ l < k
      BY <1>1, <3>1
    <3>3. l \in Here
      BY <1>1, <2>1, <3>2
    <3> QED
      BY <1>2, <3>2, <3>3
  <2> QED
    BY <1>1, <1>2, <2>1
<1> DEFINE place == CHOOSE m \in DOMAIN group : First(m)
<1>4. place \in DOMAIN group /\ First(place)
  <2>1. \E m \in DOMAIN group : First(m)
    BY <1>1, <1>3
  <2> HIDE DEF First
  <2> QED
    BY <2>1, Zenon
<1>5. indexOf(msk) = place - 1
  BY Zenon DEF indexOf
<1> HIDE DEF place
<1>6. place \in 1 .. Len(group) /\ (place - 1) + 1 = place /\ place - 1 \in 0 .. Len(group) - 1
  BY <1>1, <1>4
<1> QED
  BY <1>4, <1>5, <1>6

(* A proof that is made shows the root of the group and says who, what and   *)
(* where.                                                                    *)
LEMMA ProofShowsTheRoot ==
  ASSUME group \in Groups, NEW msk, CanProve(msk), NEW message, NEW scope
  PROVE  generateProof(msk, message, scope) =
           [merkleRoot |-> root(group),
            nullifier  |-> [scope |-> convertMessage(scope), secret |-> secretScalar(msk)],
            message    |-> convertMessage(message),
            scope      |-> convertMessage(scope)]
<1>1. indexOf(msk) \in 0 .. Len(group) - 1 /\ group[indexOf(msk) + 1] = msk
  <2>1. \E k \in DOMAIN group : group[k] = msk
    BY DEF CanProve
  <2> QED
    BY <2>1, IndexIsHis
<1>2. group \in Seq({group[k] : k \in DOMAIN group})
  BY GroupsAssumption
<1>3. BinaryMerkleRoot(Leaf(group[indexOf(msk) + 1]), MerklePath(group, indexOf(msk))) = root(group)
  <2> DEFINE A == {group[k] : k \in DOMAIN group}
             index == indexOf(msk)
  <2>1. group \in Seq(A) /\ index \in 0 .. Len(group) - 1
    BY <1>1, <1>2
  <2> HIDE DEF A, index
  <2>2. BinaryMerkleRoot(Leaf(group[index + 1]), MerklePath(group, index)) = root(group)
    BY <2>1, PathLeadsToRoot
  <2> QED
    BY <2>2 DEF index
<1>4. BinaryMerkleRoot(Leaf(msk), MerklePath(group, indexOf(msk))) = root(group)
  BY <1>1, <1>3
<1> QED
  BY <1>4, Zenon DEF generateProof, Circuit

(* The groups that a service may read have a root each.                      *)
LEMMA RootNamesTheGroup ==
  ASSUME NEW g \in Groups, NEW h \in Groups
  PROVE  root(g) = root(h) <=> g = h
<1> DEFINE A == {g[k] : k \in DOMAIN g}
           B == {h[k] : k \in DOMAIN h}
<1>1. g \in Seq(A) /\ g # <<>> /\ h \in Seq(B) /\ h # <<>>
  BY GroupsAssumption
<1> HIDE DEF A, B
<1>2. g \in Seq(A \cup B) /\ h \in Seq(A \cup B)
  BY <1>1
<1> DEFINE C == A \cup B
<1> HIDE DEF C
<1>3. g \in Seq(C) /\ h \in Seq(C)
  BY <1>2 DEF C
<1>4. root(g) = root(h) => g = h
  BY <1>1, <1>3, RootNamesTheList
<1> QED
  BY <1>4

(* Whatever is made stays as it was made, whatever becomes of the group.     *)
LEMMA MadeRightly == Spec => []MadeInv
<1>1. Init => MadeInv
  BY DEF Init, MadeInv
<1>2. MadeInv /\ [Next]_vars => MadeInv'
  <2> SUFFICES ASSUME MadeInv, [Next]_vars PROVE MadeInv'
    OBVIOUS
  <2>1. CASE NewGroup
    BY <2>1 DEF NewGroup, MadeInv
  <2>2. ASSUME NEW msk \in Secrets, NEW service, NEW challenge \in Texts,
               proveMem(msk, service, challenge)
        PROVE  MadeInv'
    <3> DEFINE new == [by |-> msk, group |-> group, service |-> service, challenge |-> challenge,
                       proof |-> generateProof(msk, challenge, service)]
    <3>1. group \in Groups /\ CanProve(msk)
      BY <2>2 DEF MadeInv, proveMem
    <3>2. ProofIsMade(new)
      <4>1. new.proof = generateProof(msk, challenge, service) /\ new.group = group
            /\ new.by = msk /\ new.service = service /\ new.challenge = challenge
        BY Zenon
      <4>2. generateProof(msk, challenge, service) =
              [merkleRoot |-> root(group),
               nullifier  |-> [scope |-> convertMessage(service), secret |-> secretScalar(msk)],
               message    |-> convertMessage(challenge),
               scope      |-> convertMessage(service)]
        BY <3>1, ProofShowsTheRoot
      <4> HIDE DEF new
      <4> QED
        BY <3>1, <4>1, <4>2 DEF ProofIsMade
    <3>3. made' = made \cup {new} /\ group' = group /\ signatures' = signatures
      BY <2>2 DEF proveMem, Record
    <3> HIDE DEF new
    <3> QED
      BY <3>2, <3>3, Zenon DEF MadeInv
  <2>3. CASE Prove
    <3>1. PICK msk \in Secrets, challenge \in Texts :
            \/ ProveMPKMemb(msk, challenge)
            \/ \E service \in Texts : proveMem(msk, service, challenge)
      BY <2>3 DEF Prove
    <3>2. CASE ProveMPKMemb(msk, challenge)
      BY <2>2, <3>2, Zenon DEF ProveMPKMemb
    <3>3. CASE \E service \in Texts : proveMem(msk, service, challenge)
      BY <2>2, <3>3
    <3> QED
      BY <3>1, <3>2, <3>3
  <2>4. CASE Sign
    <3>1. PICK msk \in Secrets, service \in Texts, challenge \in Texts :
            authProof(msk, service, challenge)
      BY <2>4 DEF Sign
    <3> DEFINE new == [by |-> msk, service |-> service, challenge |-> challenge,
                       key |-> publicKey(csk(msk, service))]
    <3>2. SignatureIsMade(new)
      BY Zenon DEF SignatureIsMade
    <3>3. signatures' = signatures \cup {new} /\ group' = group /\ made' = made
      BY <3>1 DEF authProof
    <3> HIDE DEF new
    <3> QED
      BY <3>2, <3>3, Zenon DEF MadeInv
  <2>5. CASE UNCHANGED vars
    BY <2>5 DEF vars, MadeInv
  <2> QED
    BY <2>1, <2>3, <2>4, <2>5 DEF Next
<1> QED
  BY <1>1, <1>2, PTL DEF Spec

-----------------------------------------------------------------------------
(* A proof verifies over the group that it was made over, whenever the group *)
(* is that list, and over no other: for lists of any length, since a root    *)
(* belongs to one list and every member's path leads to it.                  *)
THEOREM VerifiesOverOneGroup == Spec => []VerifiesOverItsGroupOnly
<1>1. MadeInv => VerifiesOverItsGroupOnly
  <2> SUFFICES ASSUME MadeInv, NEW p \in made, NEW serviceName \in Texts, NEW challenge \in Texts
               PROVE  /\ verifyMem(p.proof, serviceName, challenge)
                           <=> /\ group = p.group /\ SameText(challenge, p.challenge)
                               /\ SameText(serviceName, p.service)
                      /\ VerifyMPKMemb(p.proof, challenge)
                           <=> group = p.group /\ SameText(challenge, p.challenge)
    BY DEF VerifiesOverItsGroupOnly
  <2>1. group \in Groups /\ p.group \in Groups
    BY DEF MadeInv, ProofIsMade
  <2>2. /\ p.proof.merkleRoot = root(p.group)
        /\ p.proof.message = convertMessage(p.challenge)
        /\ p.proof.scope = convertMessage(p.service)
    BY SignalsOf, Zenon DEF MadeInv
  <2>3. root(p.group) = root(group) <=> p.group = group
    BY <2>1, RootNamesTheGroup
  <2> QED
    BY <2>2, <2>3 DEF verifyMem, VerifyMPKMemb, SameText
<1> QED
  BY <1>1, MadeRightly, PTL

(* A nullifier is of one member at one service, whatever the group was.      *)
THEOREM NullifierIsTheMembers == Spec => []NullifierNamesTheMember
<1>1. MadeInv => NullifierNamesTheMember
  <2> SUFFICES ASSUME MadeInv, NEW p \in made, NEW r \in made
               PROVE  getNullifier(p.proof) = getNullifier(r.proof)
                        <=> p.by = r.by /\ SameText(p.service, r.service)
    BY DEF NullifierNamesTheMember
  <2> DEFINE Of(v) == [scope |-> convertMessage(v.service), secret |-> secretScalar(v.by)]
  <2>1. getNullifier(p.proof) = Of(p) /\ getNullifier(r.proof) = Of(r)
    BY SignalsOf, Zenon DEF MadeInv, getNullifier
  <2>2. /\ Of(p).scope = convertMessage(p.service) /\ Of(p).secret.scalar = p.by
        /\ Of(r).scope = convertMessage(r.service) /\ Of(r).secret.scalar = r.by
    BY DEF secretScalar
  <2>3. Of(p) = Of(r) <=> p.by = r.by /\ SameText(p.service, r.service)
    <3>1. p.by = r.by /\ convertMessage(p.service) = convertMessage(r.service) => Of(p) = Of(r)
      BY DEF secretScalar
    <3> HIDE DEF Of
    <3> QED
      BY <2>2, <3>1, Zenon DEF SameText
  <2> HIDE DEF Of
  <2> QED
    BY <2>1, <2>3, Zenon
<1> QED
  BY <1>1, MadeRightly, PTL

(* A signature answers the key of one service and the second component of    *)
(* one secret.                                                               *)
THEOREM SignatureIsTheKeys == Spec => []SignatureNamesTheKey
<1>1. MadeInv => SignatureNamesTheKey
  <2> SUFFICES ASSUME MadeInv, NEW s \in signatures, NEW msk \in Secrets,
                      NEW serviceName \in Texts, NEW challenge \in Texts
               PROVE  authVerify(createSPK(msk, serviceName), s, challenge)
                        <=> /\ msk[2] = s.by[2] /\ SameText(serviceName, s.service)
                            /\ SameText(challenge, s.challenge)
    BY DEF SignatureNamesTheKey
  <2> DEFINE his == publicKey(csk(s.by, s.service))
             key == publicKey(csk(msk, serviceName))
  <2>1. s.key = his
    BY DEF MadeInv, SignatureIsMade
  <2>2. /\ his.base.scalar.secret = s.by[2] /\ his.base.scalar.name = convertMessage(s.service)
        /\ key.base.scalar.secret = msk[2] /\ key.base.scalar.name = convertMessage(serviceName)
    BY DEF publicKey, secretScalar, csk
  <2>3. msk[2] = s.by[2] /\ convertMessage(serviceName) = convertMessage(s.service) => his = key
    BY DEF publicKey, secretScalar, csk
  <2>4. createSPK(msk, serviceName) = key
    BY DEF createSPK
  <2> HIDE DEF his, key
  <2>5. his = key <=> msk[2] = s.by[2] /\ SameText(serviceName, s.service)
    BY <2>2, <2>3, Zenon DEF SameText
  <2>6. authVerify(createSPK(msk, serviceName), s, challenge)
          <=> his = key /\ SameText(s.challenge, challenge)
    BY <2>1, <2>4, Zenon DEF authVerify, SameText
  <2> QED
    BY <2>5, <2>6, Zenon DEF SameText
<1> QED
  BY <1>1, MadeRightly, PTL

=============================================================================
