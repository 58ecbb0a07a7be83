---------------------------- MODULE MCSemaphore ----------------------------
(* Groups whose trees have one, two, three and five leaves, with the same  *)
(* member at different places and at different depths.  Two of the secrets *)
(* share their second component, two texts are one number.                 *)
EXTENDS Semaphore

a == <<1, 2>>
b == <<3, 2>>
c == <<1, 4>>
d == <<5, 6>>
e == <<7, 8>>

MCSecrets == {a, b, c}

MCGroups == {<<a>>, <<a, b>>, <<b, a>>, <<a, b, c>>, <<d, b, e, c, a>>}

MCTexts == {"1234", "0x4d2", "abc_service"}

MCNumerals == {"1234", "0x4d2"}

MCToBigInt == [t \in MCNumerals |-> 1234]

MCBytes == [t \in MCTexts |-> IF t = "abc_service" THEN 616263 ELSE 313233]
=============================================================================
