----------------------------- MODULE MCBlockAck -----------------------------
(***************************************************************************)
(* Two agreements: one whose sequence numbers come round, in which every   *)
(* packet is sent until it is acknowledged, and one in which up to two     *)
(* transmissions are given up.                                             *)
(***************************************************************************)
EXTENDS BlockAck

MCAgreements == {[first |-> 13, failures |-> 0], [first |-> 2, failures |-> 2]}
=============================================================================
