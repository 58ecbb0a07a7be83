--------------------------- MODULE ScalarRegister ---------------------------
(***************************************************************************)
(* A caller of the scalars: it keeps one in a register of words, calls the *)
(* operations on it in any order and hands results on as operands.  k is   *)
(* the number that the register should stand for, by the arithmetic of     *)
(* numbers, and is read by the properties only.  The same calls are made   *)
(* of the words of scalar_8x32_impl.h, of those of scalar_4x64_impl.h and  *)
(* of its assembly: the caller says which by Assembly and by the sizes.    *)
(***************************************************************************)
EXTENDS Scalar4x64

CONSTANTS
  Assembly,  \* whether products are those of the assembly
  ByteBits,  \* 8 in the sources
  Operands,  \* bound: the numbers used as operands
  Steps      \* bound: the calls that follow each other

VARIABLES scalar, k, calls

vars == <<scalar, k, calls>>

-----------------------------------------------------------------------------
\* Numbers and their words.
Digit(n, i) == (n \div 2 ^ (Width * i)) % Base

Words(n) == [i \in Index |-> Digit(n, i)]

NumberOf(words) == MapThenSumSet(LAMBDA i : words[i] * 2 ^ (Width * i), Index)

Order == NumberOf(N)

Scalar == 0 .. Order - 1

\* a b modulo m, a digit of b at a time: a product needs more room than a number has.
TimesModulo(a, b, m) ==
  LET upTo[i \in 0 .. Limbs] ==
        IF i = 0 THEN 0 ELSE (upTo[i - 1] * Base + a * Digit(b, Limbs - i)) % m
  IN upTo[Limbs]

\* The digits of a b + 2^(shift - 1) from the bit `shift` on: a divided by powers of two.
RoundedQuotient(a, b, shift) ==
  LET column(i) == MapThenSumSet(LAMBDA j : IF i - j \in Index THEN Digit(a, j) * Digit(b, i - j) ELSE 0, Index)
      bit(i)    == IF (shift - 1) \div Width = i THEN 2 ^ ((shift - 1) % Width) ELSE 0
      sum[i \in 0 .. 2 * Limbs] ==
        column(i) + bit(i) + IF i = 0 THEN 0 ELSE sum[i - 1] \div Base
      low == shift % Width
  IN MapThenSumSet(LAMBDA i : ((sum[i] % Base) * 2 ^ (Width * (i - shift \div Width))) \div 2 ^ low,
                   shift \div Width .. 2 * Limbs)

-----------------------------------------------------------------------------
Times(a, b) == IF Assembly THEN asm_scalar_mul(a, b) ELSE scalar_mul(a, b)
Square(a)   == IF Assembly THEN asm_scalar_sqr(a) ELSE scalar_sqr(a)

\* A call that gives words d, and loses no carry as far as its contract goes.
Becomes(result, n) ==
  /\ calls < Steps
  /\ calls' = calls + 1
  /\ scalar' = [d |-> result.d, kept |-> scalar.kept /\ result.kept]
  /\ k' = n

Kept(d) == [d |-> d, kept |-> TRUE]

Init == \E n \in Operands : scalar = Kept(Words(n)) /\ k = n /\ calls = 0

Add == \E n \in Operands : Becomes(scalar_add(scalar.d, Words(n)), (k + n) % Order)

Mul == \E n \in Operands : Becomes(Times(scalar.d, Words(n)), TimesModulo(k, n, Order))

Sqr == Becomes(Square(scalar.d), TimesModulo(k, k, Order))

Negate == Becomes(Kept(scalar_negate(scalar.d)), (-k) % Order)

CondNegate ==
  \E flag \in {0, 1} :
    Becomes(Kept(scalar_cond_negate(scalar.d, flag).d), IF flag = 1 THEN (-k) % Order ELSE k)

\* Callers know that the sum is below the order.
CaddBit ==
  \E bit \in 0 .. Limbs * Width - 1, flag \in {0, 1} :
    /\ flag = 1 => bit < 30 /\ k + 2 ^ bit < Order
    /\ Becomes(scalar_cadd_bit(scalar.d, bit, flag), k + flag * 2 ^ bit)

ShrInt == \E n \in 1 .. Width - 1 : Becomes(Kept(scalar_shr_int(scalar.d, n).d), k \div 2 ^ n)

Split ==
  \E part \in {"low", "high"} :
    Becomes(Kept(scalar_split_128(scalar.d)[part]),
            IF part = "low" THEN k % 2 ^ (Width * Half) ELSE k \div 2 ^ (Width * Half))

\* Shifts are by the length of a scalar or more.
MulShift ==
  \E n \in Operands, shift \in Limbs * Width .. (Limbs + 2) * Width - 1 :
    Becomes(scalar_mul_shift_var(scalar.d, Words(n), shift), RoundedQuotient(k, n, shift))

\* Any bytes; those of a number that is not below the order are reduced.
SetBytes ==
  \E above \in {0, 1} :
    LET n == k + above * Order
    IN /\ n < 2 ^ (Limbs * Width)
       /\ LET sum == scalar_set_b32(scalar_get_b32(Words(n), ByteBits), ByteBits)
          IN Becomes([d |-> sum.d, kept |-> sum.kept /\ sum.overflow = above], k)

Next ==
  \/ Add \/ Mul \/ Sqr \/ Negate \/ CondNegate \/ CaddBit \/ ShrInt \/ Split \/ MulShift
  \/ SetBytes

-----------------------------------------------------------------------------
\* The register holds the number k, reduced, and no carry was lost.
HoldsNumber == scalar.kept /\ scalar.d = Words(k) /\ k \in Scalar

\* What the queries answer is about that number.
Answers ==
  /\ is_zero(scalar.d) <=> k = 0
  /\ is_one(scalar.d) <=> k = 1
  /\ scalar_is_high(scalar.d) <=> k > Order \div 2
  /\ \A n \in Operands : scalar_eq(scalar.d, Words(n)) <=> k = n
  /\ \A offset \in 0 .. Limbs * Width - 2 : \A count \in 1 .. 2 :
       get_bits_var(scalar.d, offset, count) = (k \div 2 ^ offset) % 2 ^ count
=============================================================================
