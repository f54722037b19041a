---------------------------- MODULE MCEdcaTxopN ----------------------------
(***************************************************************************)
(* A category with packets to two recipients and to the group.             *)
(***************************************************************************)
EXTENDS EdcaTxopN, TLC

CONSTANTS sta1, sta2, all

Symmetry == Permutations({sta1, sta2})
=============================================================================
