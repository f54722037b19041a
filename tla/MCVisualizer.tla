---------------------------- MODULE MCVisualizer ----------------------------
(***************************************************************************)
(* The visualizer with two timers, the one that is remembered and the one  *)
(* whose handler is nested or about to be dropped, and two messages of     *)
(* PyViz::Pause.                                                           *)
(***************************************************************************)
EXTENDS Visualizer
=============================================================================
