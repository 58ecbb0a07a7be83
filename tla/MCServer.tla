------------------------------ MODULE MCServer ------------------------------
(* Users who ask for forms, register and log in at the same time.          *)
EXTENDS Server, TLC

CONSTANTS u1, u2

TwoUsers == {u1, u2}

\* The symmetry of the users of a run.
UserSymmetry == Permutations(Users)

\* The fourth form, for which the slice does not grow, only in behaviours
\* that were orderly so far; all others have three.
FourthInOrder == forms = 4 => orderly
=============================================================================
