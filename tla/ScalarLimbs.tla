---------------------------- MODULE ScalarLimbs ----------------------------
(***************************************************************************)
(* Numbers modulo the order N of the group in words, as scalar_8x32_impl.h *)
(* computes with them; the C code of scalar_4x64_impl.h does the same with *)
(* half as many.  A scalar is a function from 0 .. Limbs - 1 to words, the *)
(* least significant first.  2^(Limbs Width) - N has one word more than    *)
(* half of the words, and the uppermost of these is 1.                     *)
(***************************************************************************)
EXTENDS FiniteSetsExt, Sequences

CONSTANTS
  Limbs,  \* words of a scalar
  Width,  \* bits of a word
  N       \* the order, in words

Base == 2 ^ Width
Half == Limbs \div 2
Index == 0 .. Limbs - 1

-----------------------------------------------------------------------------
(* The accumulator in which products of scalars are summed: three words c0,    *)
(* c1, c2 of Base values each.  The macros of scalar_8x32_impl.h find each     *)
(* carry by comparing a sum with what was added; `kept` is whether no carry    *)
(* was lost so far, which the macros promise by contract.                      *)
Starting(word) == [c0 |-> word, c1 |-> 0, c2 |-> 0, kept |-> TRUE]

Carry(sum, addend) == IF sum < addend THEN 1 ELSE 0

\* The product of two words as two words.
Low(a, b)  == (a * b) % Base
High(a, b) == (a * b) \div Base

\* The three additions of muladd: tl into c0, th and the carry into c1, the carry
\* into c2.
Added(acc, tl, th) ==
  LET c0 == (acc.c0 + tl) % Base
      t1 == th + Carry(c0, tl)
      c1 == (acc.c1 + t1) % Base
      c2 == acc.c2 + Carry(c1, t1)
  IN [c0 |-> c0, c1 |-> c1, c2 |-> c2 % Base, kept |-> acc.kept /\ t1 < Base /\ c2 < Base]

\* The fast forms do not carry into c2.
AddedFast(acc, tl, th) ==
  LET c0 == (acc.c0 + tl) % Base
      t1 == th + Carry(c0, tl)
      c1 == (acc.c1 + t1) % Base
  IN [c0 |-> c0, c1 |-> c1, c2 |-> acc.c2, kept |-> acc.kept /\ c1 >= t1]

muladd(acc, a, b)      == Added(acc, Low(a, b), High(a, b))
muladd_fast(acc, a, b) == AddedFast(acc, Low(a, b), High(a, b))
sumadd(acc, a)         == Added(acc, a, 0)
sumadd_fast(acc, a)    == [AddedFast(acc, a, 0) EXCEPT !.kept = @ /\ acc.c2 = 0]

\* The upper half is not looked at when the carry fills it (a fault).
DoubledFault(acc, tl, th) ==
  LET tl2 == (2 * tl) % Base
      thd == (2 * th) % Base
      th2 == thd + Carry(tl2, tl)
      c0  == (acc.c0 + tl2) % Base
      t1  == (th2 + Carry(c0, tl2)) % Base
      c1  == (acc.c1 + t1) % Base
      c2  == acc.c2 + Carry(thd, th) + Carry(c1, t1)
  IN [c0 |-> c0, c1 |-> c1, c2 |-> c2 % Base, kept |-> acc.kept /\ th2 < Base /\ c2 < Base]

\* Twice a product: both halves are doubled, and the carry of the lower half may
\* fill the upper one.
Doubled(acc, tl, th) ==
  LET tl2 == (2 * tl) % Base
      thd == (2 * th) % Base
      th2 == thd + Carry(tl2, tl)
      c0  == (acc.c0 + tl2) % Base
      t1  == (th2 + Carry(c0, tl2)) % Base
      c1  == (acc.c1 + t1) % Base
      c2  == acc.c2 + Carry(thd, th) + (IF c0 < tl2 /\ t1 = 0 THEN 1 ELSE 0) + Carry(c1, t1)
  IN [c0 |-> c0, c1 |-> c1, c2 |-> c2 % Base, kept |-> acc.kept /\ th2 < Base /\ c2 < Base]

muladd2(acc, a, b) == Doubled(acc, Low(a, b), High(a, b))

\* extract and extract_fast return c0 and leave this.
extract(acc)      == [c0 |-> acc.c1, c1 |-> acc.c2, c2 |-> 0, kept |-> acc.kept]
extract_fast(acc) == [c0 |-> acc.c1, c1 |-> 0, c2 |-> acc.c2, kept |-> acc.kept /\ acc.c2 = 0]

-----------------------------------------------------------------------------
(* Scalars.                                                                    *)

\* 2^(Limbs Width) - N
N_C == [i \in Index |-> CASE i = 0 -> Base - N[0]
                          [] 0 < i /\ i < Half -> Base - 1 - N[i]
                          [] i = Half -> 1
                          [] OTHER -> 0]

\* N, halved.
N_H == [i \in Index |-> ((N[i] + IF i = Limbs - 1 THEN 0 ELSE Base * N[i + 1]) \div 2) % Base]

Zero == [i \in Index |-> 0]

\* Words and a last carry from sums of words, the carry of each going to the next.
Carried(sum) ==
  LET t[i \in -1 .. Limbs - 1] == IF i = -1 THEN 0 ELSE sum[i] + t[i - 1] \div Base
  IN [d |-> [i \in Index |-> t[i] % Base], carry |-> t[Limbs - 1] \div Base]

Above(a, b) == \E i \in Index : a[i] > b[i] /\ \A j \in i + 1 .. Limbs - 1 : a[j] = b[j]

set_int(v) == [Zero EXCEPT ![0] = v % Base]
set_u64(v) == [Zero EXCEPT ![0] = v % Base, ![1] = (v \div Base) % Base]

check_overflow(a) == Above(a, N) \/ a = N

\* A word plus 0 or 1 times N_C; the last carry, 2^(Limbs Width), is dropped.
reduce(r, overflow) == Carried([i \in Index |-> r[i] + overflow * N_C[i]]).d

Truth(b) == IF b THEN 1 ELSE 0

\* Sum, carry and comparison: at most one N is too much.
Reduced(sum) ==
  LET overflow == sum.carry + Truth(check_overflow(sum.d))
  IN [d |-> reduce(sum.d, overflow), overflow |-> overflow, kept |-> overflow <= 1]

scalar_add(a, b) == Reduced(Carried([i \in Index |-> a[i] + b[i]]))

\* flag = 0 moves the bit out of all words.
WithBit(r, bit, flag) ==
  LET at == IF flag = 1 THEN bit ELSE bit + Limbs * Width
  IN Carried([i \in Index |-> r[i] + IF at \div Width = i THEN 2 ^ (at % Width) ELSE 0])

scalar_cadd_bit(r, bit, flag) ==
  LET sum == WithBit(r, bit, flag)
  IN [d |-> sum.d, kept |-> sum.carry = 0 /\ ~check_overflow(sum.d)]

\* Bytes come most significant first; ByteBits is 8 in the sources.
scalar_set_b32(bytes, ByteBits) ==
  LET per == Width \div ByteBits
      last == Limbs * per - 1
  IN Reduced([carry |-> 0, d |-> [i \in Index |->
       MapThenSumSet(LAMBDA j : bytes[last - (i * per + j)] * 2 ^ (ByteBits * j), 0 .. per - 1)]])

scalar_get_b32(a, ByteBits) ==
  LET per == Width \div ByteBits
      last == Limbs * per - 1
  IN [j \in 0 .. last |->
       (a[(last - j) \div per] \div 2 ^ (ByteBits * ((last - j) % per))) % 2 ^ ByteBits]

is_zero(a) == \A i \in Index : a[i] = 0
is_one(a)  == a[0] = 1 /\ \A i \in Index \ {0} : a[i] = 0

\* N - a as N + ~a + 1, and zero for zero.
Negated(a) ==
  Carried([i \in Index |-> Base - 1 - a[i] + N[i] + IF i = 0 THEN 1 ELSE 0]).d

scalar_negate(a) == IF is_zero(a) THEN Zero ELSE Negated(a)

scalar_is_high(a) == Above(a, N_H)

scalar_cond_negate(r, flag) ==
  [d    |-> IF is_zero(r) THEN Zero ELSE IF flag = 1 THEN Negated(r) ELSE r,
   sign |-> IF flag = 1 THEN -1 ELSE 1]

scalar_eq(a, b) == \A i \in Index : a[i] = b[i]

get_bits(a, offset, count) == (a[offset \div Width] \div 2 ^ (offset % Width)) % 2 ^ count

get_bits_var(a, offset, count) ==
  IF (offset + count - 1) \div Width = offset \div Width THEN get_bits(a, offset, count)
  ELSE (a[offset \div Width] \div 2 ^ (offset % Width)
         + a[offset \div Width + 1] * 2 ^ (Width - (offset % Width))) % 2 ^ count

-----------------------------------------------------------------------------
\* A column is what is added up before a word is extracted: macros with their
\* operands.  Extracting is fast where the macros of the column are.
Applied(acc, term) ==
  CASE term[1] = "sumadd"      -> sumadd(acc, term[2])
    [] term[1] = "sumadd_fast" -> sumadd_fast(acc, term[2])
    [] term[1] = "muladd"      -> muladd(acc, term[2], term[3])
    [] term[1] = "muladd_fast" -> muladd_fast(acc, term[2], term[3])
    [] term[1] = "muladd2"     -> muladd2(acc, term[2], term[3])

Summed(acc, column) ==
  LET sum[n \in 0 .. Len(column)] == IF n = 0 THEN acc ELSE Applied(sum[n - 1], column[n])
  IN sum[Len(column)]

Fast(column) == column[Len(column)][1] \in {"muladd_fast", "sumadd_fast"}

Extracted(acc, column) == IF Fast(column) THEN extract_fast(acc) ELSE extract(acc)

Extend(words, acc, column) == [words |-> Append(words, acc.c0), acc |-> Extracted(acc, column)]

\* The words extracted from columns, and the accumulator that is left.
Columns(first, columns) ==
  LET upTo[n \in 0 .. Len(columns)] ==
        IF n = 0 THEN [words |-> <<>>, acc |-> Starting(first)]
        ELSE LET before == upTo[n - 1]
             IN Extend(before.words, Summed(before.acc, columns[n]), columns[n])
  IN upTo[Len(columns)]

Term(fast, macro, a, b) == IF fast THEN <<macro \o "_fast", a, b>> ELSE <<macro, a, b>>

\* The terms of a column that are there, by rising index.
Terms(term(_), from, to) == [n \in 1 .. to - from + 1 |-> term(from + n - 1)]

Lowest(k)  == IF k < Limbs THEN 0 ELSE k - Limbs + 1
Highest(k) == IF k < Limbs THEN k ELSE Limbs - 1

\* l[k] is the sum of all a[i] b[k - i].
mul_512(a, b) ==
  Columns(0, [k1 \in 1 .. 2 * Limbs - 1 |->
    LET k == k1 - 1
    IN Terms(LAMBDA i : Term(k \in {0, 2 * Limbs - 2}, "muladd", a[i], b[k - i]),
             Lowest(k), Highest(k))])

\* Products of two different words count twice.
sqr_512(a) ==
  Columns(0, [k1 \in 1 .. 2 * Limbs - 1 |->
    LET k == k1 - 1
    IN Terms(LAMBDA i : IF 2 * i = k THEN Term(k \in {0, 2 * Limbs - 2}, "muladd", a[i], a[i])
                        ELSE Term(FALSE, "muladd2", a[i], a[k - i]),
             Lowest(k), k \div 2)])

\* One column of low + high N_C; the uppermost word of N_C is 1.
Column(low, high, k, fast, firstFast) ==
  (IF k > 0 /\ k < Len(low) THEN <<Term(fast \/ firstFast, "sumadd", low[k + 1], 0)>> ELSE <<>>)
    \o SelectSeq(Terms(LAMBDA j : IF k - j \in 0 .. Len(high) - 1
                                  THEN Term(fast, "muladd", high[k - j + 1], N_C[j]) ELSE <<>>,
                       0, Half - 1),
                 LAMBDA t : t # <<>>)
    \o (IF k - Half \in 0 .. Len(high) - 1
        THEN <<Term(fast, "sumadd", high[k - Half + 1], 0)>> ELSE <<>>)

\* The first of n columns starts with low[1]; it and the last are fast, and so is
\* the first term of the second.
Folded(low, high, n) ==
  Columns(low[1], [k1 \in 1 .. n |-> Column(low, high, k1 - 1, k1 \in {1, n}, k1 = 2)])

Product(words, acc) == [l |-> Append(words, acc.c0), kept |-> acc.kept /\ acc.c1 = 0]

\* 512 bits into 385, 258 and 256, and the last reduction.
Last(p, top, kept) ==
  LET sum == Carried([i \in Index |-> p[i + 1] + top * N_C[i]])
  IN [d    |-> Reduced(sum).d,
      kept |-> kept /\ top <= 2 /\ Reduced(sum).kept]

Second(m, top, kept) ==
  LET high == Append(SubSeq(m, Limbs + 1, Len(m)), top)
      p    == Folded(m, high, Limbs)
  IN Last(p.words, p.acc.c0 + top, kept /\ top <= 1 /\ p.acc.kept)

First(m, kept) == Second(m.words, m.acc.c0, kept /\ m.acc.kept)

reduce_512(l) ==
  First(Folded(SubSeq(l.l, 1, Limbs), SubSeq(l.l, Limbs + 1, 2 * Limbs), Limbs + Half), l.kept)

WideProduct(a, b) == LET c == mul_512(a, b) IN Product(c.words, c.acc)
WideSquare(a)     == LET c == sqr_512(a) IN Product(c.words, c.acc)

scalar_mul(a, b) == reduce_512(WideProduct(a, b))
scalar_sqr(a)    == reduce_512(WideSquare(a))

scalar_shr_int(r, n) ==
  [d   |-> [i \in Index |-> (r[i] \div 2 ^ n
              + IF i = Limbs - 1 THEN 0 ELSE r[i + 1] * 2 ^ (Width - n)) % Base],
   ret |-> r[0] % 2 ^ n]

scalar_split_128(a) ==
  [low  |-> [i \in Index |-> IF i < Half THEN a[i] ELSE 0],
   high |-> [i \in Index |-> IF i < Half THEN a[i + Half] ELSE 0]]

\* The product without its lowest shift bits, rounded by the uppermost of these.
Shifted(l, shift) ==
  LET word(j) == IF j < 2 * Limbs THEN l[j + 1] ELSE 0
      low     == shift % Width
  IN [i \in Index |-> word(i + shift \div Width) \div 2 ^ low
        + IF low = 0 THEN 0 ELSE (word(i + 1 + shift \div Width) * 2 ^ (Width - low)) % Base]

scalar_mul_shift_var(a, b, shift) ==
  LET product == WideProduct(a, b)
      bit     == (product.l[(shift - 1) \div Width + 1] \div 2 ^ ((shift - 1) % Width)) % 2
      sum     == scalar_cadd_bit(Shifted(product.l, shift), 0, bit)
  IN [d |-> sum.d, kept |-> product.kept /\ sum.kept]
=============================================================================
