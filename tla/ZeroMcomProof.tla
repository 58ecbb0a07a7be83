---------------------------- MODULE ZeroMcomProof ----------------------------
(***************************************************************************)
(* The one-out-of-many proof of ring_impl.h: that one of the commitments   *)
(* of a ring opens with the prover's values.  The index of that one is     *)
(* written with m digits in base n.                                        *)
(*                                                                         *)
(* The curve is replaced by what the computation does in the exponents, in *)
(* the field of q elements.  Two families of generators never mix in the   *)
(* code: an identity or a Q[j] is the function of its exponents on         *)
(* geng[0..topic_size], and A, B, C or D has an exponent on genh and a     *)
(* matrix of them on multigen.                                             *)
(*                                                                         *)
(* The construction for one verifier and the one for several (DBPoE)       *)
(* differ in their generators: geng alone, topic = NoTopic, against one    *)
(* for each topic, of which topic_index is left out.                       *)
(***************************************************************************)
EXTENDS Integers, FiniteSets

CONSTANT q  \* the order of the group

ASSUME FieldAssumption ==
  q \in Nat \ {0, 1, 2} /\ \A d \in 2 .. q - 1 : q % d # 0

Scalars == 0 .. q - 1

\* The loops of the code: for (i = first; i < last; i++) a term is added to 0,
\* or a factor multiplied to 1.
SumOf(w, first, last) ==
  LET s[i \in first .. last] == IF i = first THEN 0 ELSE (s[i - 1] + w[i - 1]) % q
  IN s[last]

ProductOf(w, last) ==
  LET p[i \in 0 .. last] == IF i = 0 THEN 1 ELSE (p[i - 1] * w[i - 1]) % q
  IN p[last]

Power(x, m) == ProductOf([j \in 0 .. m - 1 |-> x], m)

-----------------------------------------------------------------------------
NoTopic == -1

Generators(ctx) == 0 .. ctx.topic_size

Positions(m) == 0 .. m - 1

Digits(ctx) == 0 .. ctx.n - 1

\* What a proof with m digits in base n can cover.
Capacity(n, m) ==
  LET tmpN[i \in 0 .. m] == IF i = 0 THEN 1 ELSE tmpN[i - 1] * n
  IN tmpN[m]

get_jth(j, n, num) ==
  LET rem[i \in 0 .. j] == IF i = 0 THEN num ELSE rem[i - 1] \div n
  IN rem[j] - (rem[j] \div n) * n

\* delta_{hat t_j, i}
Delta(ctx, index, j, i) == IF get_jth(j, ctx.n, index) = i THEN 1 ELSE 0

\* The masks a[j][i], of which those with i > 0 are drawn.
Masks(ctx, m, r) ==
  [j \in Positions(m) |-> [i \in Digits(ctx) |->
     IF i = 0 THEN (- SumOf(r.a[j], 1, ctx.n)) % q ELSE r.a[j][i]]]

\* The product is multiplied in place and the coefficient below is overwritten
\* before it is used (a fault).
CoefficientsFault(ctx, index, a, m, t) ==
  LET own(j)  == get_jth(j, ctx.n, t)
      p[j \in 0 .. m] ==
        IF j = 0 THEN [d \in 0 .. m |-> IF d = 0 THEN 1 ELSE 0]
        ELSE LET low == [d \in 0 .. m |-> (p[j - 1][d] * a[j - 1][own(j - 1)]) % q]
             IN [d \in 0 .. m |->
                  (low[d] + IF d = 0 THEN 0
                            ELSE low[d - 1] * Delta(ctx, index, j - 1, own(j - 1))) % q]
  IN p[m]

\* The coefficients of p_t(x), the product over j of (a[j][t_j] + delta x).
Coefficients(ctx, index, a, m, t) ==
  LET own(j)  == get_jth(j, ctx.n, t)
      p[j \in 0 .. m] ==
        IF j = 0 THEN [d \in 0 .. m |-> IF d = 0 THEN 1 ELSE 0]
        ELSE [d \in 0 .. m |->
               (p[j - 1][d] * a[j - 1][own(j - 1)]
                + IF d = 0 THEN 0
                  ELSE p[j - 1][d - 1] * Delta(ctx, index, j - 1, own(j - 1))) % q]
  IN p[m]

\* A commitment to a matrix of exponents.
Commitment(ctx, m, blind, entry(_, _)) ==
  [h |-> blind,
   at |-> [j \in Positions(m) |-> [i \in Digits(ctx) |-> entry(j, i) % q]]]

DigitCommitments(ctx, index, a, m, r) ==
  [A |-> Commitment(ctx, m, r.A, LAMBDA j, i : a[j][i]),
   B |-> Commitment(ctx, m, r.B, LAMBDA j, i : Delta(ctx, index, j, i)),
   C |-> Commitment(ctx, m, r.C, LAMBDA j, i : a[j][i] * (1 - 2 * Delta(ctx, index, j, i))),
   D |-> Commitment(ctx, m, r.D, LAMBDA j, i : - (a[j][i] * a[j][i]))]

\* Q[j]: the ring weighted with the j-th coefficients, under one mask for all
\* generators that take part.
Q(ctx, ring, index, topic, a, m, r) ==
  LET p == [t \in DOMAIN ring |-> Coefficients(ctx, index, a, m, t)] IN
  [j \in Positions(m) |-> [g \in Generators(ctx) |->
     ((IF g = topic THEN 0 ELSE r.rho[j]) + SumOf([t \in DOMAIN ring |-> ring[t][g] * p[t][j]], 0, Cardinality(DOMAIN ring))) % q]]

\* The position of an exponent in the proof skips the topic.
GeneratorAt(topic, k) == IF 0 < topic /\ topic < k THEN k ELSE k - 1

\* The value of generator g in the answer to x: vals[g] x^m less the masks.
Answer(vals, g, m, r, x) ==
  (vals[g] * Power(x, m) - SumOf([j \in Positions(m) |-> r.rho[j] * Power(x, j)], 0, m)) % q

\* The proof with randomness r and the challenge x, the hash of its points
\* with the ring and the message.
CompleteProof(ctx, ring, index, vals, topic, m, r, x) ==
  LET a == Masks(ctx, m, r) IN
  [points |-> DigitCommitments(ctx, index, a, m, r),
   Q  |-> Q(ctx, ring, index, topic, a, m, r),
   f  |-> [j \in Positions(m) |-> [i \in Digits(ctx) \ {0} |->
             (Delta(ctx, index, j, i) * x + a[j][i]) % q]],
   zA |-> (x * r.B + r.A) % q,
   zC |-> (x * r.C + r.D) % q,
   z  |-> [k \in 1 .. Cardinality(Generators(ctx) \ {topic}) |->
             Answer(vals, GeneratorAt(topic, k), m, r, x)]]

-----------------------------------------------------------------------------
(* The three equations of the verifier.                                    *)

\* The f[j][i] with the ones for digit 0, which are not sent.
AllF(ctx, proof, m, x) ==
  [j \in Positions(m) |-> [i \in Digits(ctx) |->
     IF i = 0 THEN (x - SumOf(proof.f[j], 1, ctx.n)) % q ELSE proof.f[j][i]]]

\* The left-hand side is compared with itself (a fault).
RingEquationFault(ctx, proof, ring, topic, m, x) == TRUE

\* The ring, weighted with the products of its f, less the Q's is g^z.
RingEquation(ctx, proof, ring, topic, m, x) ==
  LET f == AllF(ctx, proof, m, x)
      weight(t) == ProductOf([j \in Positions(m) |-> f[j][get_jth(j, ctx.n, t)]], m)
      left(g) == (SumOf([t \in DOMAIN ring |-> ring[t][g] * weight(t)], 0, Cardinality(DOMAIN ring))
                  - SumOf([j \in Positions(m) |-> proof.Q[j][g] * Power(x, j)], 0, m)) % q
      signed == 1 .. Cardinality(Generators(ctx) \ {topic})
  IN /\ \A k \in signed : left(GeneratorAt(topic, k)) = proof.z[k]
     /\ topic \in Generators(ctx) => left(topic) = 0

\* u^x v = h^z prod h_{j,i}^entry
Opens(ctx, u, v, m, x, z, entry(_, _)) ==
  /\ (u.h * x + v.h) % q = z
  /\ \A j \in Positions(m), i \in Digits(ctx) :
       (u.at[j][i] * x + v.at[j][i]) % q = entry(j, i) % q

DigitEquation(ctx, proof, m, x) ==
  LET f == AllF(ctx, proof, m, x) IN
  Opens(ctx, proof.points.B, proof.points.A, m, x, proof.zA, LAMBDA j, i : f[j][i])

BitEquation(ctx, proof, m, x) ==
  LET f == AllF(ctx, proof, m, x) IN
  Opens(ctx, proof.points.C, proof.points.D, m, x, proof.zC,
        LAMBDA j, i : f[j][i] * (x - f[j][i]))

Verifies(ctx, proof, ring, topic, m, x) ==
  /\ RingEquation(ctx, proof, ring, topic, m, x)
  /\ DigitEquation(ctx, proof, m, x)
  /\ BitEquation(ctx, proof, m, x)

-----------------------------------------------------------------------------
\* The buffer the caller allocates, in bytes.
zero_mcom_get_size(ctx, m) == 33 * (4 + m) + 32 * (3 + m * (ctx.n - 1))

\* The scalar of the topic is counted, too (a fault).
zero_mcom_DBPoE_get_sizeFault(ctx, m) ==
  33 * (4 + m) + 32 * (3 + ctx.topic_size + m * (ctx.n - 1))

zero_mcom_DBPoE_get_size(ctx, m) ==
  33 * (4 + m) + 32 * (2 + ctx.topic_size + m * (ctx.n - 1))

\* What the prover writes in it: points of 33 bytes and scalars of 32.
BytesWritten(proof) ==
  LET sent == UNION {{j} \X DOMAIN proof.f[j] : j \in DOMAIN proof.f}
  IN 33 * (Cardinality(DOMAIN proof.points) + Cardinality(DOMAIN proof.Q))
     + 32 * (Cardinality(sent) + 2 + Cardinality(DOMAIN proof.z))
=============================================================================
