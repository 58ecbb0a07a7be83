----------------------------- MODULE Generator -----------------------------
(***************************************************************************)
(* Points outside the program: generators, which are made from hashes      *)
(* (modules/generator/main_impl.h), and the 33 bytes in which ringcip      *)
(* keeps keys and proofs (modules/ringcip/ring_impl.h).  Hashes are        *)
(* external: what they give is any element of the field but zero.  Bytes   *)
(* are numbers; a number from P on is not an element.                      *)
(***************************************************************************)
EXTENDS Multiply

IsElement(bytes) == bytes < P

ge_load(data) ==
  Ge(Checked(fe_set_int(data.x), IsElement(data.x)), Checked(fe_set_int(data.y), IsElement(data.y)))

generator_load(gen) == ge_load(gen)

generator_save(ge) == [x |-> ge.x.val, y |-> ge.y.val]

\* The prefix is 10 or 11, the last bit says that y is no square.
generator_parse_accepts(input) ==
  input.prefix \in {10, 11} /\ IsElement(input.x) /\ OnCurve(fe_set_int(input.x))

generator_parse(input) ==
  LET ge == ge_set_xquad(fe_set_int(input.x))
  IN generator_save(IF input.prefix = 11 THEN ge_neg(ge) ELSE ge)

generator_serialize(gen) ==
  [prefix |-> IF fe_is_quad_var(generator_load(gen).y) THEN 10 ELSE 11, x |-> gen.x]

\* Fault: the bit tells the squares.
ge_save_boquilaFault(ge) == [prefix |-> IF fe_is_quad_var(ge.y) THEN 9 ELSE 8, x |-> ge.x.val]

ge_save_boquila(ge) == [prefix |-> IF fe_is_quad_var(ge.y) THEN 8 ELSE 9, x |-> ge.x.val]

\* Neither the prefix nor the element nor the curve is checked.
ge_load_boquila(buf) ==
  LET ge == ge_set_xquad(fe_set_int(buf.x % P))
  IN IF buf.prefix % 2 = 1 THEN ge_neg(ge) ELSE ge

-----------------------------------------------------------------------------
SqrtMinus3 == CHOOSE c \in 0 .. P - 1 : (c * c + 3) % P = 0

\* A point of the curve for an element of the field: of three candidates for x
\* the first over which there is one, and the sign of y from the parity of t.
shallue_van_de_woestijne(t) ==
  LET c   == fe_set_int(SqrtMinus3)
      d   == fe_set_int(CHOOSE h \in 0 .. P - 1 : (2 * h + 1) % P = SqrtMinus3)
      wn  == c \odot t
      wd  == fe_sqr(t) \oplus fe_set_int(CURVE_B + 1)
      x1n == (d \odot wd) \oplus fe_negate(t \odot wn, 1)
      x2n == fe_negate(x1n \oplus wd, 5)
      x3d == fe_sqr(c \odot t)
      x3n == fe_sqr(wd) \oplus x3d
      jinv == fe_inv(x3d \odot wd)
      x1  == (x1n \odot x3d) \odot jinv
      x2  == (x2n \odot x3d) \odot jinv
      x3  == (x3n \odot wd) \odot jinv
      alphaquad == OnCurve(x1)
      betaquad  == OnCurve(x2)
      moved(v1, v2, v3) ==
        fe_cmov(fe_cmov(v1, v2, ~alphaquad /\ betaquad), v3, ~alphaquad /\ ~betaquad)
      x   == moved(x1, x2, x3)
      y   == moved(fe_sqrt(Cubic(x1)), fe_sqrt(Cubic(x2)), fe_sqrt(Cubic(x3)))
  IN Ge(x, fe_cmov(y, fe_negate(y, 1), fe_is_odd(t)))

\* The sum of the points of two hashes, and of a multiple of the generator if
\* the caller blinds it: `start` is that multiple or the point at infinity.
generated(start, t1, t2) ==
  LET add   == shallue_van_de_woestijne(t1)
      accum == IF start.infinity THEN gej_set_ge(add) ELSE gej_add_ge(start, add)
  IN gej_add_ge(accum, shallue_van_de_woestijne(t2))

\* sec times one generator and value, of `size` bits, times the other.
SumUnlessInfinite(rj, bj) == IF bj.infinity THEN rj ELSE gej_add_ge(rj, ge_set_gej(bj))

pedersen_ecmult(sec, value, size, value_gen, blind_gen) ==
  SumUnlessInfinite(ecmult_const(value_gen, value, size), ecmult_const(blind_gen, sec, Bits))
=============================================================================
