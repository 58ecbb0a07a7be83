------------------------------ MODULE MCCurve ------------------------------
(* Order 13, for which the sources themselves can be compiled for tests,   *)
(* over the least field where shallue_van_de_woestijne takes each branch.  *)
(* Of the x coordinates one, 14, is above the order, and another point has *)
(* the x that is left of it, 1.                                            *)
(* In a behaviour there is one of four callers: of the group, whose        *)
(* register is followed under the context as it is created, while another  *)
(* blinding is used for one multiplication or generator; of the calls that *)
(* change keys; of ECDSA; and of signatures of several signers.            *)
EXTENDS Curve, KeyPair, Ecdsa, Aggsig

VARIABLE caller

-----------------------------------------------------------------------------
MCBucketWindow(n) == IF n <= 2 THEN 1 ELSE 2

\* The points as the textbook has them.
PointX == [m \in 1 .. Order - 1 |-> Multiple[m][1]]
PointY == [m \in 1 .. Order - 1 |-> Multiple[m][2]]

MCBytes == 0 .. 25

\* A nonce function draws once or twice; first anything, and then what makes a signature.
MCDraws == {<<d>> : d \in MCBytes} \cup {<<d, e>> : d \in {0, 13, 14} \cup Scalars, e \in {2, 11}}

MCSeckeys == <<5, 9>>

MCRandomBytes == 0 .. 14

\* A hash of everything; of the signatures with a context one is no scalar.
MCDigest(x, msg, keys) ==
  LET all[i \in 0 .. Len(keys)] == IF i = 0 THEN 3 * x + 5 * msg ELSE 2 * all[i - 1] + keys[i]
  IN IF x = 7 /\ msg = 2 /\ Len(keys) = 3 THEN Order ELSE (all[Len(keys)] * 7 + 1) % Order

\* The keys are points of this curve, and it is one of the groups that the theorems
\* on keys and signatures are about.
ASSUME OneGroup      == N = Order /\ FieldSize = P
ASSUME TheoremsApply == PrimeOrder /\ Coordinates /\ Negatives /\ Squares

-----------------------------------------------------------------------------
NoKeys  == seckey = 0 /\ pubkey = 0 /\ answers = <<>>

CallersInit ==
  /\ Init /\ EcdsaInit /\ AggsigInit
  /\ \/ caller \in {"group", "ecdsa", "aggsig"} /\ NoKeys
     \/ caller = "keys" /\ PairInit

GroupCall ==
  caller = "group" /\ Next /\ UNCHANGED <<caller, pairVars, ecdsaVars, aggsigVars>>

KeyCall ==
  caller = "keys" /\ PairNext /\ UNCHANGED <<caller, vars, ecdsaVars, aggsigVars>>

EcdsaCall ==
  caller = "ecdsa" /\ EcdsaNext /\ UNCHANGED <<caller, vars, pairVars, aggsigVars>>

AggsigCall ==
  caller = "aggsig" /\ AggsigNext /\ UNCHANGED <<caller, vars, pairVars, ecdsaVars>>

CallersNext == GroupCall \/ KeyCall \/ EcdsaCall \/ AggsigCall

CallersSpec ==
  CallersInit /\ [][CallersNext]_<<caller, vars, pairVars, ecdsaVars, aggsigVars>>

OneAtATime == r = gej_infinity \/ context.blind = negated(UnseededBlind)
=============================================================================
