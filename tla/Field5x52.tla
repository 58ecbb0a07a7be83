----------------------------- MODULE Field5x52 -----------------------------
(***************************************************************************)
(* Products of elements in five limbs, by the C code of                    *)
(* field_5x52_int128_impl.h and by the assembly of field_5x52_asm_impl.h.  *)
(* Both add columns of the product to two accumulators of two words, c and *)
(* d.  The C code checks that every number fits where it is put.  The      *)
(* assembly checks nothing: a shift (shrd) leaves one word of the          *)
(* accumulator, whatever was above it, and the last sums are of one word.  *)
(***************************************************************************)
EXTENDS FieldLimbs, TLC

CONSTANT WordBits  \* 64 in the sources

R == C0 * 2 ^ Slack
B == 2 ^ Width
Word == 2 ^ WordBits

\* What an accumulator holds after >>= Width.
Shifted(x, asm) == IF asm THEN (x \div B) % Word ELSE x \div B

\* C only: the accumulator was not too small, and one word is enough after the shift.
Fits(x, asm) == asm \/ x \div B < Word

\* t3 is the lowest limb of p3 + p8 R.
Third(p, asm, d) ==
  [c |-> Shifted(p[8], asm), d |-> Shifted(d, asm), t3 |-> d % B,
   safe |-> Fits(p[8], asm) /\ Fits(d, asm)]

\* The limb above has Slack bits too many: they wait in tx.
Fourth(s, asm, d) ==
  [d |-> Shifted(d, asm), t3 |-> s.t3, t4 |-> (d % B) % Size(Top), tx |-> (d % B) \div Size(Top),
   safe |-> s.safe /\ Fits(d, asm)]

\* A limb of the result: c is complete, and d loses what went into it.
Limb(s, asm, c, d) ==
  [c |-> Shifted(c, asm), d |-> Shifted(d, asm), t3 |-> s.t3, t4 |-> s.t4,
   safe |-> s.safe /\ Fits(c, asm) /\ Fits(d, asm)]

WithTx(s, asm, p0, d) == Limb(s, asm, p0 + ((d % B) * 2 ^ Slack + s.tx) * C0, d)

Next1(s, asm, pk, d) == Limb(s, asm, s.c + pk + (d % B) * R, d)

\* The limbs r0, r1 and r2 are what the shifts of c leave behind.
Low0(s, p0, d) == (p0 + ((d % B) * 2 ^ Slack + s.tx) * C0) % B
Low1(s, pk, d) == (s.c + pk + (d % B) * R) % B

\* The assembly adds t3 and t4 without a carry.
Uppermost(s, asm, r0, r1, r2) ==
  LET c  == IF asm THEN ((s.c + s.t3) % Word) + s.d * R ELSE s.c + s.d * R + s.t3
      r4 == IF asm THEN (Shifted(c, asm) + s.t4) % Word ELSE Shifted(c, asm) + s.t4
  IN [n |-> (0 :> r0) @@ (1 :> r1) @@ (2 :> r2) @@ (3 :> c % B) @@ (4 :> r4),
      safe |-> s.safe /\ Fits(c, asm) /\ (asm \/ r4 < 2 * Size(Top))]

After2(p, s, asm, r0, r1, d) ==
  Uppermost(Next1(s, asm, p[2], d), asm, r0, r1, Low1(s, p[2], d))

After1(p, s, asm, r0, d) ==
  LET next == Next1(s, asm, p[1], d)
  IN After2(p, next, asm, r0, Low1(s, p[1], d), next.d + p[7])

After0(p, s, asm, d) ==
  LET next == WithTx(s, asm, p[0], d)
  IN After1(p, next, asm, Low0(s, p[0], d), next.d + p[6])

AfterFourth(p, s, asm) == After0(p, s, asm, s.d + p[5])
AfterThird(p, s, asm)  == AfterFourth(p, Fourth(s, asm, s.d + p[4] + s.c * R), asm)

InnerFrom(p, asm) == AfterThird(p, Third(p, asm, p[3] + (p[8] % B) * R), asm)

fe_mul_inner(a, b)  == InnerFrom(Columns(a, b), FALSE)
fe_sqr_inner(a)     == InnerFrom(SquareColumns(a), FALSE)
asm_mul_inner(a, b) == InnerFrom(Columns(a, b), TRUE)
asm_sqr_inner(a)    == InnerFrom(SquareColumns(a), TRUE)

ProductOf(r, checks) == Element(r.n, 1, FALSE, r.safe /\ checks)

MayMultiply(a, b) ==
  a.safe /\ b.safe /\ a.magnitude <= MaxMagnitude /\ b.magnitude <= MaxMagnitude

fe_mul(a, b, asm) ==
  ProductOf(IF asm THEN asm_mul_inner(a.n, b.n) ELSE fe_mul_inner(a.n, b.n), MayMultiply(a, b))

fe_sqr(a, asm) ==
  ProductOf(IF asm THEN asm_sqr_inner(a.n) ELSE fe_sqr_inner(a.n), MayMultiply(a, a))
=============================================================================
