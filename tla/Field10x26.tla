----------------------------- MODULE Field10x26 -----------------------------
(***************************************************************************)
(* Products of elements in field_10x26_impl.h.  The columns of the product *)
(* are added to two accumulators of one double word each, c for the lower  *)
(* columns and d for the upper ones; what leaves d is multiplied by R0 and *)
(* R1 and comes back into c one round later.                               *)
(***************************************************************************)
EXTENDS FieldLimbs, Sequences

CONSTANT Accumulator  \* the bits of an accumulator: 64 in the sources

R0 == C0 * 2 ^ Slack
R1 == C1 * 2 ^ Slack
B  == 2 ^ Width

Fits(x) == x < 2 ^ Accumulator

\* One round adds a lower and an upper column and leaves one limb, t.
Round(s, c, d) ==
  LET u  == d % B
      cu == c + u * R0
  IN [c    |-> cu \div B + u * R1,
      d    |-> d \div B,
      t    |-> Append(s.t, cu % B),
      safe |-> s.safe /\ Fits(d) /\ Fits(cu)]

\* The column in the middle comes first; its lowest bits wait in `middle`.
Rounds(p) ==
  LET upTo[k \in 0 .. Top] ==
        IF k = 0 THEN [c |-> 0, d |-> p[Top] \div B, t |-> <<>>, safe |-> Fits(p[Top])]
        ELSE LET s == upTo[k - 1] IN Round(s, s.c + p[k - 1], s.d + p[Top + k])
  IN upTo[Top]

\* The last round leaves what exceeds the uppermost limb in c; it goes through the
\* lowest three limbs, and the third of them keeps the last carry.
Lowest3(t, r9, c, safe) ==
  LET d0 == c * C0 + t[1]
      d1 == d0 \div B + c * C1 + t[2]
      d2 == d1 \div B + t[3]
  IN [n |-> [i \in Index |->
               CASE i = 0 -> d0 % B [] i = 1 -> d1 % B [] i = 2 -> d2
                 [] i = Top -> r9 [] OTHER -> t[i + 1]],
      safe |-> safe /\ Fits(d0) /\ Fits(d1) /\ d2 < 2 * B]

Uppermost(s, c) ==
  Lowest3(s.t, c % Size(Top), c \div Size(Top) + s.d * (R1 * 2 ^ Slack), s.safe /\ Fits(c))

Reduced(p, s) == Uppermost(s, s.c + s.d * R0 + (p[Top] % B))

InnerFrom(p) == Reduced(p, Rounds(p))

fe_mul_inner(a, b) == InnerFrom(Columns(a, b))
fe_sqr_inner(a)    == InnerFrom(SquareColumns(a))

ProductOf(r, checks) == Element(r.n, 1, FALSE, r.safe /\ checks)

fe_mul(a, b) ==
  ProductOf(fe_mul_inner(a.n, b.n),
            a.safe /\ b.safe /\ a.magnitude <= MaxMagnitude /\ b.magnitude <= MaxMagnitude)

fe_sqr(a) == ProductOf(fe_sqr_inner(a.n), a.safe /\ a.magnitude <= MaxMagnitude)
=============================================================================
