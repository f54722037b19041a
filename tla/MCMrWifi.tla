------------------------------ MODULE MCMrWifi ------------------------------
(***************************************************************************)
(* Two stations that send aggregates to an access point over two channels, *)
(* as in scratch/multi.cc.                                                 *)
(***************************************************************************)
EXTENDS MrWifi, TLC

CONSTANTS sta1, sta2, ap

MCPeers == [n \in Nodes |-> IF n = ap THEN {} ELSE {ap}]

\* The statistics guard nothing but the bound MaxExchanges, which is out of reach
\* where this view is used.
TokenView == << radio, air, [n \in Nodes |-> dev[n].token] >>

Symmetry == Permutations({sta1, sta2})
=============================================================================
