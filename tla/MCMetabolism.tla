---------------------------- MODULE MCMetabolism ----------------------------
(***************************************************************************)
(* Metabolism for TLC: its constants are numbers.                          *)
(***************************************************************************)
EXTENDS Metabolism
=============================================================================
