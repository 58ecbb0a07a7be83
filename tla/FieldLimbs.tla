----------------------------- MODULE FieldLimbs -----------------------------
(***************************************************************************)
(* Elements of the field in limbs of fewer bits than a word, as            *)
(* field_10x26_impl.h keeps them: an element is a function from 0 ..       *)
(* Limbs - 1 to limbs, the least significant first, that may be larger     *)
(* than Width bits.  The uppermost limb is Slack bits shorter, and the     *)
(* characteristic is 2^(Limbs Width - Slack) - C0 - C1 2^Width; with C1 = 0 *)
(* this is the arithmetic of field_5x52_impl.h as well.  `safe` is whether *)
(* all checks of a VERIFY build held so far.                               *)
(***************************************************************************)
EXTENDS Integers, FiniteSetsExt

CONSTANTS
  Limbs, Width, Slack, C0, C1,
  MaxMagnitude  \* of factors: 8 in the sources

Top   == Limbs - 1
Index == 0 .. Top

M     == 2 ^ Width - 1
Size(i) == IF i = Top THEN 2 ^ (Width - Slack) ELSE 2 ^ Width

Constant(i) == CASE i = 0 -> C0 [] i = 1 -> C1 [] OTHER -> 0

\* The characteristic.
PLimbs == [i \in Index |-> Size(i) - 1 - Constant(i) + IF i = 0 THEN 1 ELSE 0]

Zero == [i \in Index |-> 0]

\* A reduced value is below the characteristic: adding C0 and C1 does not carry.
AtLeastP(t) ==
  /\ t[Top] = Size(Top) - 1
  /\ \A i \in 2 .. Top - 1 : t[i] = M
  /\ t[1] + C1 + (t[0] + C0) \div 2 ^ Width > M

fe_verify(n, magnitude, normalized) ==
  LET m == IF normalized THEN 1 ELSE 2 * magnitude
  IN /\ \A i \in Index : n[i] \in 0 .. (Size(i) - 1) * m
     /\ magnitude \in 0 .. 32
     /\ normalized => magnitude <= 1 /\ ~AtLeastP(n)

Element(n, magnitude, normalized, checks) ==
  [n |-> n, magnitude |-> magnitude, normalized |-> normalized,
   safe |-> checks /\ fe_verify(n, magnitude, normalized)]

-----------------------------------------------------------------------------
\* x times 2^(Limbs Width - Slack) is x times C0 + C1 2^Width; then each limb
\* passes on what exceeds its Width.  The uppermost one keeps it.
Pass(t, x) ==
  LET u[i \in Index] ==
        t[i] + x * Constant(i) + IF i = 0 THEN 0 ELSE u[i - 1] \div 2 ^ Width
  IN [i \in Index |-> IF i = Top THEN u[i] ELSE u[i] % 2 ^ Width]

\* The first pass: what exceeds the uppermost limb is folded back.
FirstPass(n) == Pass([n EXCEPT ![Top] = @ % Size(Top)], n[Top] \div Size(Top))

OneBitMore(t) == t[Top] \div (2 * Size(Top)) = 0

Excess(t) == IF t[Top] >= Size(Top) \/ AtLeastP(t) THEN 1 ELSE 0

\* The final reduction is always done, by 0 or by 1, or only when there is one.
Final(t, x) == LET u == Pass(t, x)
               IN [n |-> [u EXCEPT ![Top] = @ % Size(Top)], check |-> u[Top] \div Size(Top) = x]

Normalized(a, t, final) == Element(final.n, 1, TRUE, a.safe /\ OneBitMore(t) /\ final.check)

NormalizedFrom(a, t)    == Normalized(a, t, Final(t, Excess(t)))
NormalizedVarFrom(a, t) ==
  Normalized(a, t, IF Excess(t) = 1 THEN Final(t, 1) ELSE [n |-> t, check |-> TRUE])

fe_normalize(a)     == NormalizedFrom(a, FirstPass(a.n))
fe_normalize_var(a) == NormalizedVarFrom(a, FirstPass(a.n))

WeakFrom(a, t) == Element(t, 1, a.normalized, a.safe /\ OneBitMore(t))

fe_normalize_weak(a) == WeakFrom(a, FirstPass(a.n))

\* z0 and z1: the raw values of 0 and of P.
fe_normalizes_to_zero(a) == FirstPass(a.n) \in {Zero, PLimbs}

\* The lowest limb alone says no for most elements.
fe_normalizes_to_zero_var(a) ==
  /\ (a.n[0] + (a.n[Top] \div Size(Top)) * C0) % 2 ^ Width \in {0, PLimbs[0]}
  /\ fe_normalizes_to_zero(a)

-----------------------------------------------------------------------------
fe_set_int(v) == Element([Zero EXCEPT ![0] = v], 1, TRUE, TRUE)
fe_clear      == Element(Zero, 0, TRUE, TRUE)
fe_is_zero(a) == \A i \in Index : a.n[i] = 0
fe_is_odd(a)  == a.n[0] % 2 = 1

Greater(a, b) == \E i \in Index : a[i] > b[i] /\ \A j \in i + 1 .. Top : a[j] = b[j]

fe_cmp_var(a, b) == IF Greater(a.n, b.n) THEN 1 ELSE IF Greater(b.n, a.n) THEN -1 ELSE 0

\* Bit t of digits that have `bits` bits each, the least significant first, and
\* the same number in digits of another size.
BitOf(d, bits, t) == IF t \div bits \in DOMAIN d THEN (d[t \div bits] \div 2 ^ (t % bits)) % 2 ELSE 0

Repacked(d, from, to, count) ==
  [i \in 0 .. count - 1 |-> MapThenSumSet(LAMBDA j : BitOf(d, from, to * i + j) * 2 ^ j, 0 .. to - 1)]

Bits == Limbs * Width - Slack

Reversed(bytes, count) == [j \in 0 .. count - 1 |-> bytes[count - 1 - j]]

\* Bytes come most significant first; ByteBits is 8 in the sources.  A value that is
\* not below the characteristic is refused.
fe_set_b32(bytes, ByteBits) ==
  LET n == Repacked(Reversed(bytes, Bits \div ByteBits), ByteBits, Width, Limbs)
  IN IF AtLeastP(n) THEN [accepted |-> FALSE] ELSE [accepted |-> TRUE, r |-> Element(n, 1, TRUE, TRUE)]

fe_get_b32(a, ByteBits) ==
  Reversed(Repacked(a.n, Width, ByteBits, Bits \div ByteBits), Bits \div ByteBits)

\* Storage has full words, of WordBits bits.
fe_to_storage(a, WordBits) == Repacked(a.n, Width, WordBits, Bits \div WordBits)

fe_from_storage(words, WordBits) ==
  Element(Repacked(words, WordBits, Width, Limbs), 1, TRUE, TRUE)

-----------------------------------------------------------------------------
\* A multiple of the characteristic that no limb of a can exceed, less a.
fe_negate(a, m) ==
  Element([i \in Index |-> PLimbs[i] * 2 * (m + 1) - a.n[i]], m + 1, FALSE,
          a.safe /\ a.magnitude <= m)

fe_mul_int(a, k) ==
  Element([i \in Index |-> a.n[i] * k], a.magnitude * k, FALSE, a.safe)

fe_add(a, b) ==
  Element([i \in Index |-> a.n[i] + b.n[i]], a.magnitude + b.magnitude, FALSE, a.safe /\ b.safe)

fe_cmov(a, b, flag) ==
  [n          |-> IF flag = 1 THEN b.n ELSE a.n,
   magnitude  |-> IF b.magnitude > a.magnitude THEN b.magnitude ELSE a.magnitude,
   normalized |-> a.normalized /\ b.normalized,
   safe       |-> a.safe /\ b.safe]

fe_storage_cmov(a, b, flag) == IF flag = 1 THEN b ELSE a

\* The sum of the products of limbs whose indices add up to k.
Columns(a, b) ==
  [k \in 0 .. 2 * Top |->
    MapThenSumSet(LAMBDA i : a[i] * b[k - i],
                  (IF k > Top THEN k - Top ELSE 0) .. (IF k > Top THEN Top ELSE k))]

\* The same for a square, where products of two different limbs count twice.
SquareColumns(a) ==
  [k \in 0 .. 2 * Top |->
    MapThenSumSet(LAMBDA i : IF 2 * i = k THEN a[i] * a[i] ELSE a[i] * 2 * a[k - i],
                  (IF k > Top THEN k - Top ELSE 0) .. k \div 2)]
=============================================================================
