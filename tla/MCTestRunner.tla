---------------------------- MODULE MCTestRunner ----------------------------
(***************************************************************************)
(* Three suites, one of them to be skipped, and an example on two          *)
(* processors.                                                             *)
(***************************************************************************)
EXTENDS TestRunner

CONSTANTS w1, w2
=============================================================================
