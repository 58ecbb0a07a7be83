-------------------------- MODULE ElementRegister --------------------------
(***************************************************************************)
(* A caller of the field: it keeps one element in a register of limbs,     *)
(* calls the operations on it in any order that their contracts allow, and *)
(* hands results on as operands.  The number that the register should      *)
(* stand for is followed modulo coprime factors of the characteristic,     *)
(* which determine it, and is read by the properties only.                 *)
(***************************************************************************)
EXTENDS FieldLimbs, Sequences

CONSTANTS
  Build,       \* "10x26", "5x52" or "5x52 assembly"
  Accumulator, \* bits of an accumulator: 64 in field_10x26_impl.h
  WordBits,    \* bits of a word: 64 in field_5x52_impl.h
  ByteBits,    \* 8 in the sources
  StoredBits,  \* bits of a word of storage: 32 or 64 in the sources
  Factors,     \* of the characteristic
  Steps        \* bound: the calls that follow each other

VARIABLES element, residues, calls

vars == <<element, residues, calls>>

Limbs10x26 == INSTANCE Field10x26
Limbs5x52  == INSTANCE Field5x52

fe_mul(a, b) ==
  IF Build = "10x26" THEN Limbs10x26!fe_mul(a, b)
  ELSE Limbs5x52!fe_mul(a, b, Build = "5x52 assembly")

fe_sqr(a) ==
  IF Build = "10x26" THEN Limbs10x26!fe_sqr(a) ELSE Limbs5x52!fe_sqr(a, Build = "5x52 assembly")

-----------------------------------------------------------------------------
\* What limbs stand for, modulo each factor.
Residues(n) ==
  [f \in DOMAIN Factors |->
    LET from[i \in 0 .. Limbs] ==
          IF i = Limbs THEN 0 ELSE (n[i] + 2 ^ Width * from[i + 1]) % Factors[f]
    IN from[0]]

Each(op(_, _), a, b) == [f \in DOMAIN Factors |-> op(a[f], b[f]) % Factors[f]]

IsZero(a) == \A f \in DOMAIN Factors : a[f] = 0

Largest(m) == [i \in Index |-> (Size(i) - 1) * 2 * m]

\* Bound: the elements that other callers made.  The limbs of a magnitude may all be
\* as large as it allows, or only some of them; normalized ones are next to 0 or to P.
Operands ==
  {fe_set_int(v) : v \in {0, 1, 2}}
    \cup {Element([PLimbs EXCEPT ![0] = @ - 1], 1, TRUE, TRUE),
          Element(PLimbs, 1, FALSE, TRUE),
          Element([Largest(MaxMagnitude) EXCEPT ![0] = 0], MaxMagnitude, FALSE, TRUE),
          Element([Zero EXCEPT ![1] = M - 1, ![Top] = 1], 1, TRUE, TRUE)}
    \cup {Element(Largest(m), m, FALSE, TRUE) : m \in {1, MaxMagnitude}}

Becomes(a, value) ==
  calls < Steps /\ calls' = calls + 1 /\ element' = a /\ residues' = value

Init == \E a \in Operands : element = a /\ residues = Residues(a.n) /\ calls = 0

Normalize     == Becomes(fe_normalize(element), residues)
NormalizeVar  == Becomes(fe_normalize_var(element), residues)
NormalizeWeak == Becomes(fe_normalize_weak(element), residues)

Mul ==
  \E b \in Operands :
    /\ element.magnitude <= MaxMagnitude
    /\ Becomes(fe_mul(element, b), Each(LAMBDA x, y : x * y, residues, Residues(b.n)))

Sqr ==
  /\ element.magnitude <= MaxMagnitude
  /\ Becomes(fe_sqr(element), Each(LAMBDA x, y : x * y, residues, residues))

Add ==
  \E b \in Operands :
    /\ element.magnitude + b.magnitude <= 32
    /\ Becomes(fe_add(element, b), Each(LAMBDA x, y : x + y, residues, Residues(b.n)))

\* The caller names the magnitude, or more.
Negate ==
  \E m \in {element.magnitude, MaxMagnitude, 31} :
    /\ m >= element.magnitude /\ m <= 31
    /\ Becomes(fe_negate(element, m), Each(LAMBDA x, y : -x, residues, residues))

MulInt ==
  \E j \in {0, 2, 8} :
    /\ element.magnitude * j <= 32
    /\ Becomes(fe_mul_int(element, j), Each(LAMBDA x, y : x * j, residues, residues))

Cmov ==
  \E b \in Operands, flag \in {0, 1} :
    Becomes(fe_cmov(element, b, flag), IF flag = 1 THEN Residues(b.n) ELSE residues)

\* Through the bytes or the storage of another element, which must be normalized.
Store ==
  /\ element.normalized
  /\ \E b \in {fe_set_int(1), fe_normalize(fe_negate(fe_set_int(1), 1))}, flag \in {0, 1} :
       Becomes(fe_from_storage(fe_storage_cmov(fe_to_storage(element, StoredBits),
                                               fe_to_storage(b, StoredBits), flag), StoredBits),
               IF flag = 1 THEN Residues(b.n) ELSE residues)

Clear == Becomes(fe_clear, Residues(Zero))

SetB32 ==
  /\ element.normalized
  /\ LET read == fe_set_b32(fe_get_b32(element, ByteBits), ByteBits)
     IN read.accepted /\ Becomes(read.r, residues)

Next ==
  \/ Normalize \/ NormalizeVar \/ NormalizeWeak \/ Mul \/ Sqr \/ Add \/ Negate \/ MulInt
  \/ Cmov \/ Store \/ Clear \/ SetB32

-----------------------------------------------------------------------------
\* The register holds the number, in limbs that no check objects to.
HoldsNumber == element.safe /\ Residues(element.n) = residues

Opposite(a) == fe_normalize(fe_negate(a, a.magnitude))

\* What the queries answer is about that number.  Its opposite is odd when it is
\* even, and opposites are in the opposite order.
Answers ==
  /\ fe_normalizes_to_zero(element) <=> IsZero(residues)
  /\ fe_normalizes_to_zero_var(element) <=> IsZero(residues)
  /\ element.normalized =>
       /\ fe_is_zero(element) <=> IsZero(residues)
       /\ ~fe_is_zero(element) => (fe_is_odd(element) <=> ~fe_is_odd(Opposite(element)))
       /\ \A b \in Operands :
            b.normalized =>
              /\ fe_cmp_var(element, b) = 0 <=> residues = Residues(b.n)
              /\ ~fe_is_zero(element) /\ ~fe_is_zero(b) =>
                   fe_cmp_var(Opposite(element), Opposite(b)) = fe_cmp_var(b, element)
       /\ fe_set_b32(fe_get_b32(element, ByteBits), ByteBits).accepted
  /\ ~fe_set_b32(fe_get_b32(Element(PLimbs, 1, FALSE, TRUE), ByteBits), ByteBits).accepted
=============================================================================
