----------------------------- MODULE MCRingcip -----------------------------
(***************************************************************************)
(* Constants for the run of Ringcip.                                       *)
(***************************************************************************)
EXTENDS Ringcip, TLC

CONSTANTS c1, c2

\* N = 2 as in the proof of concept, n = 3 as in the tests of the library,
\* and three topics, of which two can be used.
MCContexts ==
  { [n |-> 2, m |-> 3, topic_size |-> 0],
    [n |-> 3, m |-> 2, topic_size |-> 0],
    [n |-> 2, m |-> 2, topic_size |-> 3] }

MCMembers == 0 .. 3

\* Keys that differ: 1..4 for geng, shifted once for every topic.
MCVals == [d \in MCMembers |-> [g \in 0 .. 3 |-> 1 + ((d + g) % 4)]]

\* Rings of a power of n, below one and above one; and the ring of the next
\* three when the first member was revoked.
MCRings == {<<0>>, <<0, 1>>, <<0, 1, 2>>, <<1, 2, 3>>, <<0, 1, 2, 3>>}

MCChals == {c1, c2}

MCNames == {"shop", "bank"}

\* The hash of the last member for one of the names is not below the order.
MCSsk ==
  [d \in MCMembers |-> [name \in MCNames |->
     IF name = "bank" THEN 1 + ((d + 1) % 4) ELSE IF d = 3 THEN q ELSE d + 1]]

MCSymmetry == Permutations(MCChals)

\* Scalars that were drawn once; from there each one takes every value, one
\* after the other.
MCDraws(k, m) ==
  LET drawn == 1 .. k.n - 1
      r == [A |-> 1, B |-> 2, C |-> 3, D |-> 4,
            rho |-> [j \in Positions(m) |-> j + 1],
            a   |-> [j \in Positions(m) |-> [i \in drawn |-> (j + 2 * i) % q]]]
  IN IF k.topic_size > 0 THEN {r}
     ELSE UNION { {[r EXCEPT !.A = s], [r EXCEPT !.C = s], [r EXCEPT !.D = s]} : s \in {0, 2} }
          \cup {[r EXCEPT !.B = s] : s \in Scalars \ {0}}
          \cup {[r EXCEPT !.rho[j] = s] : j \in Positions(m), s \in Scalars}
          \cup {[r EXCEPT !.a[j][i] = s] : j \in Positions(m), i \in drawn, s \in Scalars}
=============================================================================
