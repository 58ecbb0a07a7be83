------------------------------ MODULE Multiply ------------------------------
(***************************************************************************)
(* Multiples of points: ecmult_const, of which all proofs of ringcip are   *)
(* made (ecmult_const_impl.h), ecmult, which adds a multiple of the        *)
(* generator (ecmult_impl.h), ecmult_gen, which multiplies the generator   *)
(* under a blinding (ecmult_gen_impl.h), and sums of multiples of many     *)
(* points, in batches.  Scalars are numbers modulo the order of the group. *)
(***************************************************************************)
EXTENDS Group, Sequences, FiniteSets

CONSTANTS
  Order,      \* the number of points of the curve, a prime
  Gx, Gy,     \* the generator
  Bits,       \* the bits of a scalar, 256 in the code
  WINDOW_A, WINDOW_G,  \* digits of a multiplication have one bit less
  GenBits,    \* the bits of a digit of ecmult_gen, 4 in the code
  NumsX,      \* the x of a point of which no multiplier is known
  UnseededZ, UnseededBlind,   \* what the pseudo-random generator draws without a seed
  bucket_window(_),           \* how many bits a set of buckets stands for
  ECMULT_PIPPENGER_THRESHOLD  \* the least batch for which buckets pay

ASSUME OrderAssumption ==
  /\ Order \in Nat /\ Order % 2 = 1 /\ Order <= 2 ^ Bits /\ Order > 2 ^ (Bits - 1)
  /\ WINDOW_A \in Nat /\ WINDOW_G \in Nat /\ WINDOW_A > 2 /\ WINDOW_G > 1
  /\ GenBits \in Nat \ {0} /\ Bits % GenBits = 0

Multiplier == 0 .. Order - 1

negated(s)  == (Order - s) % Order
is_high(s) == s > Order \div 2
scalar_add(s, t)  == (s + t) % Order
get_bits(s, offset, count) == (s \div 2 ^ offset) % 2 ^ count

generator == Ge(fe_set_int(Gx), fe_set_int(Gy))

TableSize(w) == 2 ^ (w - 2)

-----------------------------------------------------------------------------
(* The digits of a scalar, all odd: the scalar is made odd, by adding 1 or 2,  *)
(* the skew that the caller takes off again, and negated when it is high.  In  *)
(* a word that is even a unit is borrowed from or lent to the word below.      *)
wnaf_const(s, w, size) ==
  LET flip   == is_high(s)
      minus1 == s = Order - 1
      skew   == IF flip = (s % 2 = 1) THEN 1 ELSE 2
      skewed == IF minus1 THEN s ELSE s + skew
      odd    == IF flip THEN negated(skewed) ELSE skewed
      sign   == IF flip = minus1 THEN 1 ELSE -1
      words  == (size + w - 1) \div w
      word(k) == get_bits(odd, w * k, w)
      even(k) == word(k) % 2 = 0
      u[k \in 0 .. words] ==
        IF k = 0 \/ ~even(k) THEN word(k) ELSE word(k) + (IF u[k - 1] > 0 THEN 1 ELSE -1)
      lent(k) == IF k = words \/ ~even(k + 1) THEN 0 ELSE IF u[k] > 0 THEN 2 ^ w ELSE -(2 ^ w)
  IN [digit |-> [k \in 0 .. words |-> sign * (u[k] - lent(k))],
      skew  |-> skew,
      fits  |-> skewed < Order /\ odd < 2 ^ (w * (words + 1))]

\* Odd multiples of a, over an isomorphic curve on which their difference, the
\* double d, is affine, with the ratios of their z coordinates.
Multiples(n, a, d, aGe) ==
  LET made[k \in 0 .. n - 1] ==
        IF k = 0 THEN [sum |-> Gej(aGe.x, aGe.y, a.z), ratio |-> d.z]
        ELSE gej_add_ge_var(made[k - 1].sum, Ge(d.x, d.y))
  IN made

Separated(n, made, d) ==
  [points |-> [k \in 0 .. n - 1 |-> IF k = n - 1 THEN [made[k].sum EXCEPT !.z = @ \odot d.z]
                                   ELSE made[k].sum],
   ratios |-> [k \in 0 .. n - 1 |-> made[k].ratio]]

FromDouble(n, a, d) == Separated(n, Multiples(n, a, d, ge_set_gej_zinv(a, d.z)), d)

odd_multiples_table(n, a) == FromDouble(n, a, gej_double_nonzero(a))

odd_multiples_table_globalz(a) ==
  ge_globalz_set_table_gej(odd_multiples_table(TableSize(WINDOW_A), a))

\* A multiple from a table of odd multiples: by conditional moves and by index.
InTable(n, w) == n % 2 = 1 /\ n <= 2 ^ (w - 1) - 1 /\ n >= -(2 ^ (w - 1) - 1)

Entry(n) == (IF n > 0 THEN n ELSE -n) \div 2

ECMULT_CONST_TABLE_GET_GE(table, n, w) ==
  LET x == table[Entry(n)].x
      y == fe_normalize_weak(table[Entry(n)].y)
  IN Ge(Checked(x, InTable(n, w)), fe_cmov(y, fe_negate(y, 1), n < 0))

ECMULT_TABLE_GET_GE(table, n, w) ==
  LET a == [table[Entry(n)] EXCEPT !.x = Checked(@, InTable(n, w))]
  IN IF n > 0 THEN a ELSE ge_neg(a)

\* Doubling a point several times.
Doubled(a, times) ==
  LET twice[k \in 0 .. times] == IF k = 0 THEN a ELSE gej_double_nonzero(twice[k - 1])
  IN twice[times]

\* Fault: the point is taken off once whatever was added.
CorrectedFault(r, a, skew) == gej_add_ge(r, ge_neg(ge_from_storage(ge_to_storage(a))))

\* What making the scalar odd added, once or twice the point, is taken off.
Corrected(r, a, skew) ==
  LET double == ge_set_gej(gej_double_var(gej_set_ge(a)).sum)
      once   == ge_to_storage(a)
      twice  == ge_to_storage(double)
  IN gej_add_ge(r, ge_neg(ge_from_storage(IF skew = 2 THEN twice ELSE once)))

\* Every digit is added, after doubling for the digits that were higher.
AddDigits(table, digits, w) ==
  LET top == Cardinality(DOMAIN digits) - 1
      sum[k \in 0 .. top] ==
        IF k = top THEN gej_set_ge(ECMULT_CONST_TABLE_GET_GE(table, digits[k], WINDOW_A))
        ELSE gej_add_ge(Doubled(sum[k + 1], w), ECMULT_CONST_TABLE_GET_GE(table, digits[k], WINDOW_A))
  IN sum[0]

OverDenominator(a, z, fits) == [a EXCEPT !.z = Checked(@ \odot z, fits)]

MultipleConst(a, wnaf, pre) ==
  Corrected(OverDenominator(AddDigits(pre.table, wnaf.digit, WINDOW_A - 1), pre.globalz, wnaf.fits),
            a, wnaf.skew)

ecmult_const(a, scalar, size) ==
  MultipleConst(a, wnaf_const(scalar, WINDOW_A - 1, size), odd_multiples_table_globalz(gej_set_ge(a)))

-----------------------------------------------------------------------------
(* Digits that are odd or zero, at least w places apart: a digit begins at     *)
(* every bit that differs from the carry.                                      *)
ecmult_wnaf(a, w) ==
  LET negative == get_bits(a, Bits - 1, 1) = 1
      s        == IF negative THEN negated(a) ELSE a
      width(bit) == IF w > Bits - bit THEN Bits - bit ELSE w
      scan[bit \in 0 .. Bits, carry \in 0 .. 1] ==
        IF bit = Bits THEN [digit |-> [k \in 0 .. Bits - 1 |-> 0], fits |-> carry = 0]
        ELSE IF get_bits(s, bit, 1) = carry THEN scan[bit + 1, carry]
        ELSE LET word == get_bits(s, bit, width(bit)) + carry
                 over == (word \div 2 ^ (w - 1)) % 2
                 d    == word - over * 2 ^ w
             IN [scan[bit + width(bit), over] EXCEPT !.digit[bit] = IF negative THEN -d ELSE d]
  IN scan[0, 0]

(* The odd multiples of a point, affine, in storage.  Only ratio and y of each *)
(* multiple are kept; x is found again, from the last multiple backwards, as   *)
(* the ratio is the difference of two x coordinates.                           *)
StoredMultiples(n, made, d, dzi) ==
  LET dx == fe_sqr(dzi) \odot d.x
      zi[k \in 0 .. n - 1] ==
        IF k = n - 1 THEN fe_inv(made.points[k].z)
        ELSE zi[k + 1] \odot fe_normalize(made.ratios[k + 1])
      x(k) == fe_negate(fe_normalize(made.ratios[k + 1]) \odot fe_sqr(zi[k]), 1) \oplus dx
      y(k) == fe_normalize(made.points[k].y) \odot (fe_sqr(zi[k]) \odot zi[k])
  IN [k \in 0 .. n - 1 |->
        ge_to_storage(IF k = n - 1 THEN ge_set_gej_zinv(made.points[k], zi[k]) ELSE Ge(x(k), y(k)))]

FromDoubleStored(n, a, d) == StoredMultiples(n, FromDouble(n, a, d), d, fe_inv(d.z))

odd_multiples_table_storage_var(n, a) == FromDoubleStored(n, a, gej_double_nonzero(a))

\* The multiples of the generator, made once for a context.
FromStorage(stored) == [k \in DOMAIN stored |-> ge_from_storage(stored[k])]

ecmult_context_build ==
  FromStorage(odd_multiples_table_storage_var(TableSize(WINDOW_G), gej_set_ge(generator)))

(* The tables of several points over one denominator: each point is brought to *)
(* the z of the last multiple of the one before it.                            *)
StraussTable(points) ==
  LET T    == TableSize(WINDOW_A)
      After(before, p) ==
        [odd_multiples_table(T, gej_rescale(points[p], fe_normalize(before.points[T - 1].z)))
         EXCEPT !.ratios[0] = @ \odot points[p].z]
      made[p \in DOMAIN points] ==
        IF p = 1 THEN odd_multiples_table(T, points[p]) ELSE After(made[p - 1], p)
      index == 0 .. T * Len(points) - 1
  IN ge_globalz_set_table_gej([points |-> [k \in index |-> made[k \div T + 1].points[k % T]],
                               ratios |-> [k \in index |-> made[k \div T + 1].ratios[k % T]]])

\* One bit: twice the sum, and the entries for the digits that begin here.
StraussBit(twice, i, ctx, strauss, wnaf, wnafG, Z) ==
  LET T == TableSize(WINDOW_A)
      table(p) == [k \in 0 .. T - 1 |-> strauss.table[T * (p - 1) + k]]
      Plus(sum, p) ==
        IF wnaf[p].digit[i] = 0 THEN sum
        ELSE gej_add_ge_var(sum, ECMULT_TABLE_GET_GE(table(p), wnaf[p].digit[i], WINDOW_A)).sum
      added[p \in 0 .. Len(wnaf)] == IF p = 0 THEN twice ELSE Plus(added[p - 1], p)
      PlusG(sum) ==
        IF wnafG.digit[i] = 0 THEN sum
        ELSE gej_add_zinv_var(sum, ECMULT_TABLE_GET_GE(ctx.pre_g, wnafG.digit[i], WINDOW_G), Z)
  IN PlusG(added[Len(wnaf)])

StraussSum(ctx, strauss, wnaf, wnafG) ==
  LET Z == IF wnaf = <<>> THEN fe_set_int(1) ELSE strauss.globalz
      sum[i \in 0 .. Bits] ==
        IF i = Bits THEN gej_infinity
        ELSE StraussBit(gej_double_var(sum[i + 1]).sum, i, ctx, strauss, wnaf, wnafG, Z)
      Scaled(r) == [r EXCEPT !.z = Checked(IF r.infinity THEN @ ELSE @ \odot Z,
                                           wnafG.fits /\ \A p \in DOMAIN wnaf : wnaf[p].fits)]
  IN Scaled(sum[0])

(* The sum of multiples of points and of the generator, bit by bit.  Points at *)
(* infinity and multiples by zero are left out.                                *)
ecmult_strauss_wnaf(ctx, a, na, ng) ==
  LET ps == SelectSeq([k \in DOMAIN a |-> k], LAMBDA k : na[k] # 0 /\ ~a[k].infinity)
  IN StraussSum(ctx, IF ps = <<>> THEN <<>> ELSE StraussTable([p \in DOMAIN ps |-> a[ps[p]]]),
                [p \in DOMAIN ps |-> ecmult_wnaf(na[ps[p]], WINDOW_A)], ecmult_wnaf(ng, WINDOW_G))

-----------------------------------------------------------------------------
(* All points affine with a single inversion: the products of the z            *)
(* coordinates up to each point are undone from the last one backwards.        *)
ge_set_all_gej_var(points) ==
  LET n == Len(points)
      z(k) == points[k].z
      product[k \in 0 .. n] == IF k = 0 THEN fe_set_int(1)
                               ELSE IF points[k].infinity THEN product[k - 1]
                               ELSE product[k - 1] \odot z(k)
      u[k \in 1 .. n] == IF k = n THEN fe_inv(product[n])
                         ELSE IF points[k + 1].infinity THEN u[k + 1]
                         ELSE u[k + 1] \odot z(k + 1)
  IN [k \in 1 .. n |-> ge_set_gej_zinv(points[k], product[k - 1] \odot u[k])]

Windows == Bits \div GenBits

Nums == gej_add_ge_var(gej_set_ge(ge_set_xo_var(fe_set_int(NumsX), FALSE)), generator).sum

(* The multiples i * (2^GenBits)^j of the generator, each blinded by a multiple *)
(* of Nums; these are 1, 2, 4, ... and, in the last window, what makes the sum  *)
(* of one entry of every window free of Nums.                                   *)
ecmult_gen_context_build ==
  LET gbase[j \in 0 .. Windows] ==
        IF j = 0 THEN gej_set_ge(generator)
        ELSE LET twice[k \in 0 .. GenBits] ==
                   IF k = 0 THEN gbase[j - 1] ELSE gej_double_var(twice[k - 1]).sum
             IN twice[GenBits]
      numsbase[j \in 0 .. Windows] ==
        IF j = 0 THEN Nums
        ELSE LET twice == gej_double_var(numsbase[j - 1]).sum
             IN IF j = Windows - 1 THEN gej_add_var(ge_neg(twice), Nums).sum ELSE twice
      row(j) == LET entry[i \in 0 .. 2 ^ GenBits - 1] ==
                      IF i = 0 THEN numsbase[j] ELSE gej_add_var(entry[i - 1], gbase[j]).sum
                IN entry
      size == 2 ^ GenBits
      affine == ge_set_all_gej_var([k \in 1 .. Windows * size |-> row((k - 1) \div size)[(k - 1) % size]])
  IN [j \in 0 .. Windows - 1 |-> [i \in 0 .. size - 1 |-> ge_to_storage(affine[j * size + i + 1])]]

\* A context holds a blinding scalar and the point that undoes it.
ecmult_gen(ctx, gn) ==
  LET gnb == scalar_add(gn, ctx.blind)
      sum[j \in 0 .. Windows] ==
        IF j = 0 THEN ctx.initial
        ELSE gej_add_ge(sum[j - 1],
               ge_from_storage(ctx.prec[j - 1][get_bits(gnb, (j - 1) * GenBits, GenBits)]))
  IN sum[Windows]

\* Fault: the context keeps the blinding scalar itself.
ecmult_gen_blindFault(ctx, s, b) ==
  LET rescaled == [ctx EXCEPT !.initial = gej_rescale(@, s)]
  IN [ctx EXCEPT !.blind = b, !.initial = ecmult_gen(rescaled, b)]

\* s and b come from a pseudo-random generator, which repeats until neither is 0.
ecmult_gen_blind(ctx, s, b) ==
  LET rescaled == [ctx EXCEPT !.initial = gej_rescale(@, s)]
  IN [ctx EXCEPT !.blind = negated(b), !.initial = ecmult_gen(rescaled, b)]

\* Without a seed the blinding starts anew, with draws that are always the same.
ecmult_gen_unseeded(ctx) ==
  ecmult_gen_blind([ctx EXCEPT !.blind = 1, !.initial = ge_neg(gej_set_ge(generator))],
                   fe_set_int(UnseededZ), UnseededBlind)

context_create ==
  ecmult_gen_unseeded([pre_g |-> ecmult_context_build, prec |-> ecmult_gen_context_build,
                       blind |-> 0, initial |-> gej_infinity])

-----------------------------------------------------------------------------
(* Sums of multiples of many points (ecmult_impl.h from line 642):             *)
(* Pippenger's buckets, and the batches into which the points are split by the *)
(* memory at hand.  That no multiple of the generator is asked for (NULL) is   *)
(* written as the multiple by 0, of which both batches make nothing.  The      *)
(* callback that delivers points is a sequence here.                           *)

(* Digits that are zero or odd, one per word; the word below lends to an even  *)
(* one, and a lone 1 or -1 above a digit of the other sign is folded into it.  *)
wnaf_fixed(s, w) ==
  LET words == (Bits + w - 1) \div w
      skew  == IF s # 0 /\ s % 2 = 0 THEN 1 ELSE 0
      val(pos) == get_bits(s, pos * w, IF pos = words - 1 THEN Bits - (words - 1) * w ELSE w)
      max_pos  == CHOOSE m \in 0 .. words - 1 : /\ m = 0 \/ val(m) # 0
                                                /\ \A pos \in m + 1 .. words - 1 : val(pos) = 0
      Lent(d, pos) == IF val(pos) % 2 = 0
                      THEN [d EXCEPT ![pos - 1] = @ - 2 ^ w, ![pos] = val(pos) + 1]
                      ELSE [d EXCEPT ![pos] = val(pos)]
      Folded(d, pos) ==
        IF pos < 2 THEN d
        ELSE IF d[pos - 1] = 1 /\ d[pos - 2] < 0
          THEN [d EXCEPT ![pos - 1] = 0, ![pos - 2] = @ + 2 ^ w]
        ELSE IF d[pos - 1] = -1 /\ d[pos - 2] > 0
          THEN [d EXCEPT ![pos - 1] = 0, ![pos - 2] = @ - 2 ^ w]
        ELSE d
      digits[pos \in 0 .. max_pos] ==
        IF pos = 0 THEN [k \in 0 .. words - 1 |-> IF k = 0 THEN get_bits(s, 0, w) + skew ELSE 0]
        ELSE Folded(Lent(digits[pos - 1], pos), pos)
  IN [digit |-> digits[max_pos], skew |-> skew]

(* Word by word, from the highest: every point goes into the bucket of its     *)
(* digit, and the sum 1 * bucket[0] + 3 * bucket[1] + ... is added.            *)
ecmult_pippenger_wnaf(window, sc, pt) ==
  LET words == (Bits + window) \div (window + 1)
      J     == 2 ^ window
      ps    == SelectSeq([p \in DOMAIN pt |-> p], LAMBDA p : sc[p] # 0 /\ ~pt[p].infinity)
      wnaf  == [p \in DOMAIN ps |-> wnaf_fixed(sc[ps[p]], window + 1)]
      Unskewed(b, i, j, p) ==
        IF i = 0 /\ j = 0 /\ wnaf[p].skew = 1 THEN gej_add_ge_var(b, ge_neg(pt[ps[p]])).sum ELSE b
      Put(b, i, j, p) ==
        LET n == wnaf[p].digit[i]
        IN IF n > 0 /\ (n - 1) \div 2 = j THEN gej_add_ge_var(b, pt[ps[p]]).sum
           ELSE IF n < 0 /\ (-(n + 1)) \div 2 = j THEN gej_add_ge_var(b, ge_neg(pt[ps[p]])).sum
           ELSE b
      bucket[i \in 0 .. words - 1, j \in 0 .. J - 1, p \in 0 .. Len(ps)] ==
        IF p = 0 THEN gej_infinity ELSE Put(Unskewed(bucket[i, j, p - 1], i, j, p), i, j, p)
      running[i \in 0 .. words - 1, j \in 0 .. J] ==
        IF j = J THEN gej_infinity
        ELSE gej_add_var(running[i, j + 1], bucket[i, j, Len(ps)]).sum
      Twice(a, times) ==
        LET t[k \in 0 .. times] == IF k = 0 THEN a ELSE gej_double_var(t[k - 1]).sum IN t[times]
      sum[i \in 0 .. words] ==
        IF i = words THEN gej_infinity
        ELSE LET up[j \in 1 .. J] == IF j = J THEN Twice(sum[i + 1], window)
                                     ELSE gej_add_var(up[j + 1], running[i, j]).sum
             IN gej_add_var(gej_double_var(up[1]).sum, running[i, 0]).sum
  IN sum[0]

ecmult_pippenger_batch(points, scalars, ng) ==
  ecmult_pippenger_wnaf(bucket_window(Len(points)), <<ng>> \o scalars, <<generator>> \o points)

ecmult_strauss_batch(ctx, points, scalars, ng) ==
  ecmult_strauss_wnaf(ctx, [p \in DOMAIN points |-> gej_set_ge(points[p])], scalars, ng)

\* Without memory for batches: one multiplication after the other.
ecmult_multi_var_simple(ctx, points, scalars, ng) ==
  LET sum[p \in 0 .. Len(points)] ==
        IF p = 0 THEN ecmult_strauss_wnaf(ctx, <<>>, <<>>, ng)
        ELSE gej_add_var(sum[p - 1],
               ecmult_strauss_wnaf(ctx, <<gej_set_ge(points[p])>>, <<scalars[p]>>, 0)).sum
  IN sum[Len(points)]

Ceiling(n, d) == (n + d - 1) \div d

\* Whether there is memory for the batches that the call decides on.
HasMemory(simple, maxPippenger, maxStrauss, n) ==
  \/ simple \/ n = 0
  \/ /\ maxPippenger > 0
     /\ \/ Ceiling(n, Ceiling(n, maxPippenger)) >= ECMULT_PIPPENGER_THRESHOLD
        \/ maxStrauss > 0

(* There is memory for batches of maxPippenger or maxStrauss points; none at   *)
(* all when simple.  Other calls fail.                                         *)
ecmult_multi_var(ctx, simple, maxPippenger, maxStrauss, points, scalars, ng) ==
  LET n      == Len(points)
      Size(max) == Ceiling(n, Ceiling(n, max))
      buckets == Size(maxPippenger) >= ECMULT_PIPPENGER_THRESHOLD
      size   == IF buckets THEN Size(maxPippenger) ELSE Size(maxStrauss)
      last(i) == IF i * size < n THEN i * size ELSE n
      Batch(i) ==
        LET pts == SubSeq(points, (i - 1) * size + 1, last(i))
            scs == SubSeq(scalars, (i - 1) * size + 1, last(i))
            g   == IF i = 1 THEN ng ELSE 0
        IN IF buckets THEN ecmult_pippenger_batch(pts, scs, g)
           ELSE ecmult_strauss_batch(ctx, pts, scs, g)
      sum[i \in 0 .. Ceiling(n, size)] ==
        IF i = 0 THEN gej_infinity ELSE gej_add_var(sum[i - 1], Batch(i)).sum
  IN IF n = 0 THEN ecmult_strauss_wnaf(ctx, <<>>, <<>>, ng)
     ELSE IF simple THEN ecmult_multi_var_simple(ctx, points, scalars, ng)
     ELSE sum[Ceiling(n, size)]
=============================================================================
