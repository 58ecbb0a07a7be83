--------------------------- MODULE AdditionChains ---------------------------
(***************************************************************************)
(* Inverses and square roots are powers whose exponents the sources build  *)
(* by chains of squarings and products: field_impl.h and scalar_impl.h.    *)
(* Here an element is its exponent, as a sequence of bits, the most        *)
(* significant first; the exponents have the full 256 bits.                *)
(***************************************************************************)
EXTENDS SequencesExt, Integers, TLC

VARIABLES
  chain,  \* what is computed: "inv", "sqrt" or "scalar_inverse"
  turn,   \* instructions done
  powers  \* the exponents of the local variables

vars == <<chain, turn, powers>>

-----------------------------------------------------------------------------
BitAt(e, i) == IF i < Len(e) THEN e[Len(e) - i] ELSE 0

\* The sum of two exponents: the exponent of a product.
Plus(e, f) ==
  LET width == IF Len(e) > Len(f) THEN Len(e) ELSE Len(f)
      Bit(acc, i) == [bits  |-> <<(BitAt(e, i) + BitAt(f, i) + acc.carry) % 2>> \o acc.bits,
                      carry |-> (BitAt(e, i) + BitAt(f, i) + acc.carry) \div 2]
      sum == FoldLeft(Bit, [bits |-> <<>>, carry |-> 0], [i \in 1 .. width |-> i - 1])
  IN IF sum.carry = 1 THEN <<1>> \o sum.bits ELSE sum.bits

Squared(e, n) == e \o [i \in 1 .. n |-> 0]

\* An instruction <<r, a, n, b>> squares a n times, multiplies it by b and puts it into
\* r; b = "" is for no product.
Blocks == <<
  <<"x2", "a", 1, "a">>,       <<"x3", "x2", 1, "a">>,       <<"x6", "x3", 3, "x3">>,
  <<"x9", "x6", 3, "x3">>,     <<"x11", "x9", 2, "x2">>,     <<"x22", "x11", 11, "x11">>,
  <<"x44", "x22", 22, "x22">>, <<"x88", "x44", 44, "x44">>,  <<"x176", "x88", 88, "x88">>,
  <<"x220", "x176", 44, "x44">>, <<"x223", "x220", 3, "x3">> >>

fe_sqrt == <<<<"t", "x223", 23, "x22">>, <<"t", "t", 6, "x2">>, <<"r", "t", 2, "">>>>

\* One squaring too many (a fault).
fe_invFault == <<<<"t", "x223", 23, "x22">>, <<"t", "t", 6, "a">>, <<"t", "t", 3, "x2">>,
                 <<"r", "t", 2, "a">>>>

fe_inv == <<<<"t", "x223", 23, "x22">>, <<"t", "t", 5, "a">>, <<"t", "t", 3, "x2">>,
            <<"r", "t", 2, "a">>>>

ScalarBlocks == <<
  <<"u2", "a", 1, "">>,     <<"x2", "u2", 0, "a">>,    <<"u5", "u2", 0, "x2">>,
  <<"x3", "u5", 0, "u2">>,  <<"u9", "x3", 0, "u2">>,   <<"u11", "u9", 0, "u2">>,
  <<"u13", "u11", 0, "u2">>, <<"x6", "u13", 2, "u11">>, <<"x8", "x6", 2, "x2">>,
  <<"x14", "x8", 6, "x6">>, <<"x28", "x14", 14, "x14">>, <<"x56", "x28", 28, "x28">>,
  <<"x112", "x56", 56, "x56">>, <<"t", "x112", 14, "x14">> >>

\* Squarings and factors that follow each other in t.
Windows == <<
  <<3, "u5">>, <<4, "x3">>, <<4, "u5">>, <<5, "u11">>, <<4, "u11">>, <<4, "x3">>, <<5, "x3">>,
  <<6, "u13">>, <<4, "u5">>, <<3, "x3">>, <<5, "u9">>, <<6, "u5">>, <<10, "x3">>, <<4, "x3">>,
  <<9, "x8">>, <<5, "u9">>, <<6, "u11">>, <<4, "u13">>, <<5, "x2">>, <<6, "u13">>,
  <<10, "u13">>, <<4, "u9">>, <<6, "a">> >>

scalar_inverse ==
  ScalarBlocks \o [i \in DOMAIN Windows |-> <<"t", "t", Windows[i][1], Windows[i][2]>>]
    \o <<<<"r", "t", 8, "x6">>>>

Program == [inv |-> Blocks \o fe_inv, sqrt |-> Blocks \o fe_sqrt, scalar_inverse |-> scalar_inverse]

Started == ("a" :> <<1>>) @@ ("" :> <<>>)

Init == chain \in DOMAIN Program /\ turn = 0 /\ powers = Started

Instruction ==
  /\ turn < Len(Program[chain])
  /\ LET step == Program[chain][turn + 1]
     IN powers' = (step[1] :> Plus(Squared(powers[step[2]], step[3]), powers[step[4]])) @@ powers
  /\ turn' = turn + 1
  /\ UNCHANGED chain

Next == Instruction

-----------------------------------------------------------------------------
\* The characteristic and the order, in halves of the words of the sources.
Characteristic == [i \in 1 .. 13 |-> \hFFFF] \o <<\hFFFE, \hFFFF, \hFC2F>>

GroupOrder ==
  [i \in 1 .. 7 |-> \hFFFF]
    \o <<\hFFFE, \hBAAE, \hDCE6, \hAF48, \hA03B, \hBFD2, \h5E8C, \hD036, \h4141>>

\* The bits of such a number and an offset that does not carry out of its last half.
BitsOf(halves, offset) ==
  LET last == [halves EXCEPT ![Len(halves)] = @ + offset]
  IN [i \in 1 .. 16 * Len(halves) |->
       (last[((i - 1) \div 16) + 1] \div 2 ^ (15 - ((i - 1) % 16))) % 2]

WithoutLast(bits, n) == SubSeq(bits, 1, Len(bits) - n)

\* Fermat: the inverse is the power P - 2 or N - 2.  P is 3 modulo 4: the root is the
\* power (P + 1) / 4.
Exponent(c) ==
  CASE c = "inv"            -> BitsOf(Characteristic, -2)
    [] c = "sqrt"           -> WithoutLast(BitsOf(Characteristic, 1), 2)
    [] c = "scalar_inverse" -> BitsOf(GroupOrder, -2)

ChainsAreRight ==
  turn = Len(Program[chain]) =>
    powers["r"] = Exponent(chain)
=============================================================================
