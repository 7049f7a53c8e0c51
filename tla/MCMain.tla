-------------------------------- MODULE MCMain --------------------------------
(* One relay address and one nonce; two digits that give ports below, at   *)
(* and above the largest, which is 15.                                     *)
EXTENDS Main

MCNonces == {1}
SomeDigits == [c \in {"1", "5"} |-> IF c = "1" THEN 1 ELSE 5]
=============================================================================
