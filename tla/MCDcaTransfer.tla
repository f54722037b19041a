--------------------------- MODULE MCDcaTransfer ---------------------------
(***************************************************************************)
(* MSDUs of two, one and three fragments, in turn.                         *)
(***************************************************************************)
EXTENDS DcaTransfer

MCFrags == [m \in 1 .. MaxMsdus |-> IF m % 3 = 1 THEN 2 ELSE IF m % 3 = 2 THEN 1 ELSE 3]
=============================================================================
