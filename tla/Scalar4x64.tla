----------------------------- MODULE Scalar4x64 -----------------------------
(***************************************************************************)
(* The x86-64 assembly of scalar_4x64_impl.h, which a build may use for    *)
(* products in place of the C code, for scalars of four words.  Three      *)
(* registers take turns as the words of the accumulator.  Each addition    *)
(* names the registers its carry goes through (add, adc, adc); a carry out *)
(* of the last one is lost, and then `kept` is FALSE.                      *)
(***************************************************************************)
EXTENDS ScalarLimbs

\* One addition into a number held by the given count of registers.
Into(count, x) == [count |-> count, x |-> x]

Twice(count, x) == <<Into(count, x), Into(count, x)>>

AddedUp(sum, addition) ==
  LET total == sum.n + addition.x
  IN [n |-> total % Base ^ addition.count, kept |-> sum.kept /\ total < Base ^ addition.count]

AsmSummed(sum, column) ==
  LET upTo[k \in 0 .. Len(column)] ==
        IF k = 0 THEN sum ELSE AddedUp(upTo[k - 1], column[k])
  IN upTo[Len(column)]

\* A word is moved out after each column; its register becomes the uppermost one.
MovedOut(words, sum) ==
  [words |-> Append(words, sum.n % Base), n |-> sum.n \div Base, kept |-> sum.kept]

AsmColumns(columns) ==
  LET upTo[c \in 0 .. Len(columns)] ==
        IF c = 0 THEN [words |-> <<>>, n |-> 0, kept |-> TRUE]
        ELSE LET before == upTo[c - 1]
             IN MovedOut(before.words, AsmSummed([n |-> before.n, kept |-> before.kept], columns[c]))
  IN upTo[Len(columns)]

\* 512 bits into 385: l0 .. l3 plus n0 .. n3 = l4 .. l7 times N_C.
Asm385(l, c0, c1) ==
  AsmColumns(<<
    <<Into(3, l[1]), Into(2, l[5] * c0)>>,
    <<Into(2, l[2]), Into(3, l[6] * c0), Into(3, l[5] * c1)>>,
    <<Into(3, l[3]), Into(3, l[7] * c0), Into(3, l[6] * c1), Into(3, l[5])>>,
    <<Into(3, l[4]), Into(3, l[8] * c0), Into(3, l[7] * c1), Into(3, l[6])>>,
    <<Into(3, l[8] * c1), Into(3, l[7])>>,
    <<Into(2, l[8])>>,
    <<>> >>)

\* 385 bits into 258: m0 .. m3 plus m4 .. m6 times N_C.
Asm258(m, c0, c1) ==
  AsmColumns(<<
    <<Into(3, m[1]), Into(2, m[5] * c0)>>,
    <<Into(2, m[2]), Into(3, m[6] * c0), Into(3, m[5] * c1)>>,
    <<Into(3, m[3]), Into(3, m[7] * c0), Into(3, m[6] * c1), Into(3, m[5])>>,
    <<Into(2, m[4]), Into(2, m[7] * c1), Into(2, m[6])>>,
    <<Into(1, m[7])>> >>)

\* 258 bits into 256 and a carry: p0 .. p3 plus p4 times N_C.
Asm256(p, c0, c1) ==
  AsmColumns(<<
    <<Into(2, p[5] * c0), Into(2, p[1])>>,
    <<Into(2, p[2]), Into(2, p[5] * c1)>>,
    <<Into(2, p[5]), Into(2, p[3])>>,
    <<Into(2, p[4])>> >>)

AsmLast(r, kept) ==
  LET sum == Reduced([d |-> [i \in Index |-> r.words[i + 1]], carry |-> r.n])
  IN [d |-> sum.d, kept |-> kept /\ r.kept /\ sum.kept]

AsmThird(p, kept)  == AsmLast(Asm256(p.words, N_C[0], N_C[1]), kept /\ p.kept)
AsmSecond(m, kept) == AsmThird(Asm258(m.words, N_C[0], N_C[1]), kept /\ m.kept)

asm_reduce_512(l) == AsmSecond(Asm385(l.words, N_C[0], N_C[1]), l.kept)

asm_mul_512(a, b) ==
  AsmColumns(<<
    <<Into(3, a[0] * b[0])>>,
    <<Into(3, a[0] * b[1]), Into(3, a[1] * b[0])>>,
    <<Into(3, a[0] * b[2]), Into(3, a[1] * b[1]), Into(3, a[2] * b[0])>>,
    <<Into(3, a[0] * b[3]), Into(3, a[1] * b[2]), Into(3, a[2] * b[1]), Into(3, a[3] * b[0])>>,
    <<Into(3, a[1] * b[3]), Into(3, a[2] * b[2]), Into(3, a[3] * b[1])>>,
    <<Into(3, a[2] * b[3]), Into(3, a[3] * b[2])>>,
    <<Into(2, a[3] * b[3])>>,
    <<>> >>)

asm_sqr_512(a) ==
  AsmColumns(<<
    <<Into(3, a[0] * a[0])>>,
    Twice(3, a[0] * a[1]),
    Twice(3, a[0] * a[2]) \o <<Into(3, a[1] * a[1])>>,
    Twice(3, a[0] * a[3]) \o Twice(3, a[1] * a[2]),
    Twice(3, a[1] * a[3]) \o <<Into(3, a[2] * a[2])>>,
    Twice(3, a[2] * a[3]),
    <<Into(2, a[3] * a[3])>>,
    <<>> >>)

asm_scalar_mul(a, b) == asm_reduce_512(asm_mul_512(a, b))
asm_scalar_sqr(a)    == asm_reduce_512(asm_sqr_512(a))
=============================================================================
