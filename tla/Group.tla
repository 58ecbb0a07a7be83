------------------------------- MODULE Group -------------------------------
(***************************************************************************)
(* Elements of the field (field_impl.h, field_5x52_impl.h) and the group   *)
(* of the curve y^2 = x^3 + CURVE_B over it (group_impl.h).                *)
(* The five words of an element may hold more than their 52 bits; every    *)
(* operation states how far (the magnitude) and what it accepts, in checks *)
(* that a build without VERIFY leaves out.  An element is here its residue *)
(* with its magnitude, whether it is normalized, and whether all checks of *)
(* the operations it comes from held (safe).                               *)
(* ge is an affine point, gej a Jacobian one, which stands for             *)
(* (x/z^2, y/z^3).  A point at infinity keeps whatever its coordinates     *)
(* held.  Operations that the code runs in place take the operand's        *)
(* leftovers along.                                                        *)
(***************************************************************************)
EXTENDS Integers

CONSTANTS
  P,       \* the characteristic of the field
  CURVE_B

ASSUME PAssumption ==
  /\ P \in Nat /\ P > 3 /\ \A d \in 2 .. P - 1 : P % d # 0
  /\ P % 4 = 3  \* field_impl.h:38, square roots are powers

Fe == [val : 0 .. P - 1, magnitude : 0 .. 2048, normalized : BOOLEAN, safe : BOOLEAN]

Residue(v, m, checks) ==
  [val |-> v % P, magnitude |-> m, normalized |-> FALSE, safe |-> checks /\ m <= 2048]

\* An element together with one more check.
Checked(a, check) == [a EXCEPT !.safe = @ /\ check]

fe_set_int(v)         == [val |-> v, magnitude |-> 1, normalized |-> TRUE, safe |-> TRUE]
fe_normalize(a)       == [a EXCEPT !.magnitude = 1, !.normalized = TRUE]
fe_normalize_weak(a)  == [a EXCEPT !.magnitude = 1]
normalizes_to_zero(a) == a.val = 0
fe_is_odd(a)          == a.val % 2 = 1

fe_negate(a, m) == Residue(P - a.val, m + 1, a.safe /\ a.magnitude <= m)
fe_mul_int(a, k) == Residue(a.val * k, a.magnitude * k, a.safe)
fe_add(a, b) == Residue(a.val + b.val, a.magnitude + b.magnitude, a.safe /\ b.safe)

fe_mul(a, b) ==
  Residue(a.val * b.val, 1, a.safe /\ b.safe /\ a.magnitude <= 8 /\ b.magnitude <= 8)

fe_sqr(a) == Residue(a.val * a.val, 1, a.safe /\ a.magnitude <= 8)

\* A conditional move leaves the larger of both magnitudes.
fe_cmov(a, b, flag) ==
  [val        |-> IF flag THEN b.val ELSE a.val,
   magnitude  |-> IF b.magnitude > a.magnitude THEN b.magnitude ELSE a.magnitude,
   normalized |-> a.normalized /\ b.normalized,
   safe       |-> a.safe /\ b.safe]

\* Storage and bytes hold normalized elements.
fe_to_storage(a)  == [stored |-> a.val, safe |-> a.safe /\ a.normalized]
fe_from_storage(s) == Checked(fe_set_int(s.stored), s.safe)

Inverses == [v \in 0 .. P - 1 |-> IF v = 0 THEN 0 ELSE CHOOSE w \in 1 .. P - 1 : (v * w) % P = 1]

fe_inv(a) == Residue(Inverses[a.val], 1, a.safe /\ a.magnitude <= 8)

Powers == LET power[v \in 0 .. P - 1, e \in Nat] == IF e = 0 THEN 1 ELSE (v * power[v, e - 1]) % P
          IN [v \in 0 .. P - 1 |-> power[v, (P + 1) \div 4]]

\* The power that is a square root of every square, and whether it is one here.
fe_sqrt(a) == Residue(Powers[a.val], 1, a.safe /\ a.magnitude <= 8)
HasRoot(a) == (Powers[a.val] * Powers[a.val]) % P = a.val

\* Zero counts as a square (num_jacobi >= 0).
fe_is_quad_var(a) == HasRoot(a)

-----------------------------------------------------------------------------
a \odot b == fe_mul(a, b)
a \oplus b == fe_add(a, b)

Ge(x, y) == [x |-> x, y |-> y, infinity |-> FALSE]
Gej(x, y, z) == [x |-> x, y |-> y, z |-> z, infinity |-> FALSE]

GeSafe(a)  == a.x.safe /\ a.y.safe
GejSafe(a) == a.x.safe /\ a.y.safe /\ a.z.safe

\* A point of which the caller promises that it is not the point at infinity.
Finite(a) == [a EXCEPT !.x = Checked(@, ~a.infinity)]

ge_set_gej_zinv(a, zi) ==
  LET zi2 == fe_sqr(zi)
  IN [x |-> a.x \odot zi2, y |-> a.y \odot (zi2 \odot zi), infinity |-> a.infinity]

ge_set_gej(a) == ge_set_gej_zinv(a, fe_inv(a.z))

gej_set_ge(a) == [x |-> a.x, y |-> a.y, z |-> fe_set_int(1), infinity |-> a.infinity]

\* Clearing leaves zeroes of magnitude 0.
gej_infinity ==
  LET clear == [fe_set_int(0) EXCEPT !.magnitude = 0]
  IN [x |-> clear, y |-> clear, z |-> clear, infinity |-> TRUE]

\* Fault: without the carries.
ge_negFault(a) == [a EXCEPT !.y = fe_negate(@, 1)]

\* Of a point of either kind.
ge_neg(a) == [a EXCEPT !.y = fe_negate(fe_normalize_weak(@), 1)]

\* x^3 + CURVE_B, and the point over x whose y is a square; the code reports
\* whether there is one and leaves in y what the root function returned.
Cubic(x) == fe_set_int(CURVE_B) \oplus (x \odot fe_sqr(x))
OnCurve(x) == HasRoot(Cubic(x))
ge_set_xquad(x) == Ge(x, fe_sqrt(Cubic(x)))

ge_set_xo_var(x, odd) ==
  LET y == fe_normalize(fe_sqrt(Cubic(x)))
  IN Ge(x, IF fe_is_odd(y) # odd THEN fe_negate(y, 1) ELSE y)

ge_is_valid_var(a) == ~a.infinity /\ fe_sqr(a.y).val = Cubic(a.x).val

ge_to_storage(a) ==
  [x |-> fe_to_storage(fe_normalize(Finite(a).x)), y |-> fe_to_storage(fe_normalize(a.y))]

ge_from_storage(s) == Ge(fe_from_storage(s.x), fe_from_storage(s.y))

-----------------------------------------------------------------------------
\* The steps of the doubling are in the order of the code.  With the sum goes
\* the ratio of the new z to the old one (rzr), which callers may ask for.
gej_double_var(a) ==
  IF a.infinity THEN [sum |-> a, ratio |-> fe_set_int(1)]
  ELSE
    LET t1 == fe_mul_int(fe_sqr(a.x), 3)
        t2 == fe_sqr(t1)
        yy == fe_mul_int(fe_sqr(a.y), 2)
        t4 == fe_mul_int(fe_sqr(yy), 2)
        t3 == yy \odot a.x
        x  == fe_negate(fe_mul_int(t3, 4), 4) \oplus t2
        u  == fe_mul_int(t3, 6) \oplus fe_negate(t2, 1)
        y  == (t1 \odot u) \oplus fe_negate(t4, 2)
    IN [sum   |-> Gej(x, y, fe_mul_int(a.z \odot a.y, 2)),
        ratio |-> fe_mul_int(fe_normalize_weak(a.y), 2)]

gej_double_nonzero(a) == gej_double_var(Finite(a)).sum

Difference(u1, u2) == fe_negate(u1, 1) \oplus u2

\* The common end of the three additions below: both points over their common
\* denominator, as (u1, s1) and (u2, s2); h and i are the differences, and the
\* z of a grows by ratio.
Chord(a, u1, s1, h, i, ratio) ==
  IF normalizes_to_zero(h) THEN
    IF normalizes_to_zero(i) THEN gej_double_var(a)
    ELSE [sum |-> [a EXCEPT !.infinity = TRUE], ratio |-> fe_set_int(0)]
  ELSE
    LET h2 == fe_sqr(h)
        h3 == h \odot h2
        t  == u1 \odot h2
        x  == fe_negate(fe_mul_int(t, 2) \oplus h3, 3) \oplus fe_sqr(i)
        y  == ((fe_negate(x, 5) \oplus t) \odot i) \oplus fe_negate(h3 \odot s1, 1)
    IN [sum |-> Gej(x, y, a.z \odot ratio), ratio |-> ratio]

gej_add_var(a, b) ==
  IF a.infinity THEN [sum |-> b, ratio |-> fe_set_int(1)]
  ELSE IF b.infinity THEN [sum |-> a, ratio |-> fe_set_int(1)]
  ELSE
    LET z22 == fe_sqr(b.z)
        z12 == fe_sqr(a.z)
        u1  == a.x \odot z22
        s1  == (a.y \odot z22) \odot b.z
        h   == Difference(u1, b.x \odot z12)
    IN Chord(a, u1, s1, h, Difference(s1, (b.y \odot z12) \odot a.z), h \odot b.z)

\* b over the denominator az.
MixedAddition(a, b, az) ==
  LET z12 == fe_sqr(az)
      u1  == fe_normalize_weak(a.x)
      s1  == fe_normalize_weak(a.y)
      h   == Difference(u1, b.x \odot z12)
  IN Chord(a, u1, s1, h, Difference(s1, (b.y \odot z12) \odot az), h)

gej_add_ge_var(a, b) ==
  IF a.infinity THEN [sum |-> gej_set_ge(b), ratio |-> fe_set_int(1)]
  ELSE IF b.infinity THEN [sum |-> a, ratio |-> fe_set_int(1)]
  ELSE MixedAddition(a, b, a.z)

\* The point b has the z coordinate 1/bzinv.
gej_add_zinv_var(a, b, bzinv) ==
  IF b.infinity THEN a
  ELSE IF a.infinity THEN gej_set_ge(ge_set_gej_zinv(b, bzinv))
  ELSE MixedAddition(a, b, a.z \odot bzinv).sum

\* The end of the addition, with t = u1 + u2 and m = s1 + s2.
SumWithSlope(a, b, t, m, degenerate, rrAlt, mAlt) ==
  LET mm == fe_sqr(mAlt)
      q  == fe_negate(mm \odot t, 1)
      n  == fe_cmov(fe_sqr(mm), m, degenerate)
      z  == a.z \odot mAlt
      x  == fe_normalize_weak(fe_sqr(rrAlt) \oplus q)
      w  == ((fe_mul_int(x, 2) \oplus q) \odot rrAlt) \oplus n
      y  == fe_normalize_weak(fe_negate(w, 3))
  IN [x |-> fe_cmov(fe_mul_int(x, 4), b.x, a.infinity),
      y |-> fe_cmov(fe_mul_int(y, 4), b.y, a.infinity),
      z |-> fe_cmov(fe_mul_int(z, 2), fe_set_int(1), a.infinity),
      infinity |-> normalizes_to_zero(z) /\ ~a.infinity]

UnifiedSum(a, b, u1, u2, s1, s2) ==
  LET t   == u1 \oplus u2
      m   == s1 \oplus s2
      nu2 == fe_negate(u2, 1)
      rr  == fe_sqr(t) \oplus (u1 \odot nu2)
      degenerate == normalizes_to_zero(m) /\ normalizes_to_zero(rr)
  IN SumWithSlope(a, b, t, m, degenerate, fe_cmov(fe_mul_int(s1, 2), rr, ~degenerate),
                  fe_cmov(nu2 \oplus u1, m, ~degenerate))

\* The addition without branches: one formula, whose slope is rr / m, for sums
\* and doubles, another slope when that one degenerates to 0/0, and b itself when
\* a is at infinity.
gej_add_ge(a, b) ==
  LET zz == fe_sqr(a.z)
  IN UnifiedSum(a, b, fe_normalize_weak(a.x), Finite(b).x \odot zz,
                fe_normalize_weak(a.y), (b.y \odot zz) \odot a.z)

\* A point over another denominator.
gej_rescale(a, s) ==
  LET zz == fe_sqr(Checked(s, s.normalized /\ ~normalizes_to_zero(s)))
  IN [a EXCEPT !.x = @ \odot zz, !.y = (@ \odot zz) \odot s, !.z = @ \odot s]

\* Points over one common denominator: ratios[k] leads from the z of point
\* k - 1 to that of point k, and the last z is the common one.
ge_globalz_set_table_gej(made) ==
  LET points == made.points
      ratios == made.ratios
      last == CHOOSE k \in DOMAIN points : k + 1 \notin DOMAIN points
      zs[k \in DOMAIN points] == IF k = last - 1 THEN ratios[last] ELSE zs[k + 1] \odot ratios[k + 1]
  IN [table   |-> [k \in DOMAIN points |->
                     IF k = last THEN Ge(points[k].x, points[k].y)
                     ELSE ge_set_gej_zinv(points[k], zs[k])],
      globalz |-> points[last].z]
=============================================================================
