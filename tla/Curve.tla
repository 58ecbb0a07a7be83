------------------------------- MODULE Curve -------------------------------
(***************************************************************************)
(* A caller of the library: it keeps one point, in a register r, calls the *)
(* operations of the group on it in any order and hands results on as      *)
(* operands, and it keeps a context, which is blinded again at any time.   *)
(* k is the multiple of the generator that the register should stand for,  *)
(* by the textbook addition of points, and is read by the properties only. *)
(***************************************************************************)
EXTENDS Generator

CONSTANTS
  Others,       \* bound: the multiples of the generator used as operands
  Denominators, \* bound: the z of those operands, and of points that ecmult takes
  Scalars,      \* bound: the scalars of multiplications
  Blinds,       \* bound: the blinding scalars
  Hashes        \* bound: what hashes give

ASSUME OperandsAssumption ==
  /\ Others \subseteq Multiplier /\ Scalars \subseteq Multiplier /\ Blinds \subseteq Multiplier \ {0}
  /\ Denominators \subseteq 1 .. P - 1 /\ Hashes \subseteq 1 .. P - 1

VARIABLES r, context, k

vars == <<r, context, k>>

-----------------------------------------------------------------------------
\* Textbook points, <<>> for the one at infinity, and their sum by the chord or
\* the tangent.
PointSum(p, q) ==
  IF p = <<>> THEN q
  ELSE IF q = <<>> THEN p
  ELSE IF p[1] = q[1] /\ p # q THEN <<>>
  ELSE
    LET slope == IF p = q THEN (3 * p[1] * p[1] * Inverses[(2 * p[2]) % P]) % P
                 ELSE ((q[2] - p[2]) * Inverses[(q[1] - p[1]) % P]) % P
        x     == (slope * slope - p[1] - q[1]) % P
    IN <<x, (slope * (p[1] - x) - p[2]) % P>>

Multiple ==
  LET multiple[n \in Multiplier] == IF n = 0 THEN <<>> ELSE PointSum(multiple[n - 1], <<Gx, Gy>>)
  IN multiple

\* The multiple of the generator that a textbook point is, -1 if it is none.
LogOf(p) == IF \E n \in Multiplier : Multiple[n] = p THEN CHOOSE n \in Multiplier : Multiple[n] = p ELSE -1

Point(a) ==
  IF a.infinity THEN <<>>
  ELSE LET zi == Inverses[a.z.val]
           z2 == (zi * zi) % P
       IN <<(a.x.val * z2) % P, (a.y.val * ((z2 * zi) % P)) % P>>

-----------------------------------------------------------------------------
\* Operands that another caller made.
Affine(n) ==
  IF n = 0 THEN ge_set_gej(gej_infinity)
  ELSE Ge(fe_set_int(Multiple[n][1]), fe_set_int(Multiple[n][2]))

Jacobian(n, z) == IF n = 0 THEN gej_infinity ELSE gej_rescale(gej_set_ge(Affine(n)), fe_set_int(z))

Becomes(point, n) == r' = point /\ k' = n % Order /\ UNCHANGED context

Init == r = gej_infinity /\ context = context_create /\ k = 0

Convert == Becomes(gej_set_ge(ge_set_gej(r)), k)

NegatePoint == Becomes(ge_neg(r), -k)

Double == Becomes(gej_double_var(r).sum, 2 * k)

Rescale == ~r.infinity /\ \E s \in Denominators : Becomes(gej_rescale(r, fe_set_int(s)), k)

AddVar == \E n \in Others, z \in Denominators : Becomes(gej_add_var(r, Jacobian(n, z)).sum, k + n)

AddGeVar == \E n \in Others : Becomes(gej_add_ge_var(r, Affine(n)).sum, k + n)

\* The operand has z = s, and its coordinates are not divided by it.
AddZinv ==
  \E n \in Others, s \in Denominators :
    LET b == Jacobian(n, s)
    IN Becomes(gej_add_zinv_var(r, [x |-> b.x, y |-> b.y, infinity |-> b.infinity],
                                fe_inv(fe_set_int(s))), k + n)

AddGe == \E n \in Others \ {0} : Becomes(gej_add_ge(r, Affine(n)), k + n)

IsAffine == ~r.infinity /\ r.z = fe_set_int(1)

\* A multiple of the point in the register, which callers convert first.
MultiplyConst ==
  IsAffine /\ \E s \in Multiplier : Becomes(ecmult_const(ge_set_gej(r), s, Bits), s * k)

\* A sum of multiples as all commitments and proofs build it: the next multiple
\* and the sum so far, which is affine.  The sum so far is not at infinity: for
\* secret scalars that has probability one in Order.
AddMultiple ==
  IsAffine /\ \E n \in Others \ {0}, s \in Scalars :
    Becomes(gej_set_ge(ge_set_gej(gej_add_ge(ecmult_const(Affine(n), s, Bits), ge_set_gej(r)))),
            k + s * n)

\* Values have fewer bits than scalars.
Commit ==
  IsAffine /\ \E sec \in Multiplier, value \in Scalars :
    /\ value < 2 ^ (Bits \div 2)
    /\ Becomes(pedersen_ecmult(sec, value, Bits \div 2, generator, ge_set_gej(r)), value + sec * k)

\* A multiple of a point and one of the generator, over any denominator.
Multiply2 ==
  /\ r.z.val \in Denominators
  /\ \E na \in Scalars, ng \in Scalars :
       Becomes(ecmult_strauss_wnaf(context, <<r>>, <<na>>, ng), na * k + ng)

\* Three points in batches; the first one is in the register.  A call that has
\* room for buckets does not look at the other batches.
MultiplyBatches ==
  /\ IsAffine
  /\ \E n \in Others, nc \in Scalars, simple \in BOOLEAN,
        maxPippenger \in 0 .. 3, maxStrauss \in 0 .. 3 :
       /\ HasMemory(simple, maxPippenger, maxStrauss, 3)
       /\ simple => maxPippenger = 0
       /\ maxPippenger # 1 => maxStrauss = 0
       /\ Becomes(ecmult_multi_var(context, simple, maxPippenger, maxStrauss,
                     <<ge_set_gej(r), Affine(n), generator>>, <<nc, n, nc>>, n),
                  nc * k + n * n + nc + n)

\* The register is overwritten from here on: it is taken when it is fresh.
MultiplyGenerator == r = gej_infinity /\ \E s \in Multiplier : Becomes(ecmult_gen(context, s), s)

Blind ==
  /\ r = gej_infinity
  /\ \E s \in Denominators, b \in Blinds : context' = ecmult_gen_blind(context, fe_set_int(s), b)
  /\ UNCHANGED <<r, k>>

Reset == r = gej_infinity /\ context' = ecmult_gen_unseeded(context) /\ UNCHANGED <<r, k>>

\* The formulas of the paper that the function names, with divisions.
PaperPoint(t) ==
  LET w  == SqrtMinus3 * t * Inverses[(1 + CURVE_B + t * t) % P]
      x1 == (((SqrtMinus3 - 1) * Inverses[2]) - t * (w % P)) % P
      x2 == (-(x1 + 1)) % P
      wi == Inverses[w % P]
      x3 == (1 + wi * wi) % P
      x  == IF OnCurve(fe_set_int(x1)) THEN x1
            ELSE IF OnCurve(fe_set_int(x2)) THEN x2 ELSE x3
      y  == CHOOSE y \in 0 .. P - 1 : (y * y) % P = Cubic(fe_set_int(x)).val /\ \E q \in 0 .. P - 1 : (q * q) % P = y
  IN <<x, IF t % 2 = 1 THEN (-y) % P ELSE y>>

Generate ==
  /\ r = gej_infinity
  /\ \E t1 \in Hashes, t2 \in Hashes, blind \in {0} \cup Blinds :
       LET sum == generated(IF blind = 0 THEN gej_infinity ELSE ecmult_gen(context, blind),
                            fe_set_int(t1), fe_set_int(t2))
       IN /\ ~sum.infinity
          /\ Becomes(gej_set_ge(generator_load(generator_save(ge_set_gej(sum)))),
                     LogOf(PaperPoint(t1)) + LogOf(PaperPoint(t2)) + blind)

Parse ==
  /\ r = gej_infinity
  /\ \E prefix \in 8 .. 12, x \in 0 .. P :
       LET input == [prefix |-> prefix, x |-> x]
           IsSquare(y) == \E q \in 0 .. P - 1 : (q * q) % P = y
           Meant == CHOOSE n \in Multiplier \ {0} : Multiple[n][1] = x /\ (IsSquare(Multiple[n][2]) <=> prefix = 10)
       IN generator_parse_accepts(input)
          /\ Becomes(gej_set_ge(generator_load(generator_parse(input))), Meant)

Next ==
  \/ Convert \/ NegatePoint \/ Double \/ Rescale \/ AddVar \/ AddGeVar \/ AddZinv \/ AddGe
  \/ MultiplyConst \/ AddMultiple \/ Commit \/ Multiply2 \/ MultiplyBatches
  \/ MultiplyGenerator \/ Blind \/ Reset \/ Generate \/ Parse

Spec == Init /\ [][Next]_vars

-----------------------------------------------------------------------------
\* RightPoint: every operation gives the point that the addition of the textbook
\* gives: sums that double or cancel, the 0/0 of gej_add_ge, digits that borrow
\* from each other, the skews taken off again, tables over a common denominator,
\* batches of any size, blindings and generators made from hashes.
RightPoint == Point(r) = Multiple[k]

\* ChecksHold: no VERIFY_CHECK of the operations fails, which builds for release
\* do not contain: no word of an element overflows, no table is read outside, no
\* digit and no bit of a scalar is left over, whatever was called before.  And however
\* long calls feed each other's results, no coordinate in a register needs more room
\* than the additions were written for (the comments on magnitudes at every line of
\* group_impl.h): 6 for x, 4 for y, 2 for z.
ChecksHold ==
  /\ GejSafe(r) /\ GejSafe(context.initial)
  /\ r.x \in Fe /\ r.y \in Fe /\ r.z \in Fe
  /\ r.x.magnitude <= 6 /\ r.y.magnitude <= 4 /\ r.z.magnitude <= 2

\* BlindingCancels: in every context the starting point of ecmult_gen is what
\* takes the blinding scalar off again, however often the context is blinded
\* anew with the help of its previous blinding, or reset.
BlindingCancels == Point(context.initial) = Multiple[negated(context.blind)]

\* SavedPointsReload: the 33 bytes that ringcip and the generators keep of a
\* point, of whose y they store one bit, are read back as the same point.
SavedPointsReload ==
  ~r.infinity =>
    LET ge == ge_set_gej(r)
        Same(a) == GeSafe(a) /\ Point(gej_set_ge(a)) = Point(r)
        gen == generator_save(ge)
    IN /\ Same(generator_load(gen))
       /\ generator_parse_accepts(generator_serialize(gen))
       /\ Same(generator_load(generator_parse(generator_serialize(gen))))
       /\ Same(ge_load_boquila(ge_save_boquila(ge)))
=============================================================================
