-------------------------- MODULE MCStreamDelivery --------------------------
(***************************************************************************)
(* StreamDelivery for TLC: its constants are numbers.                      *)
(***************************************************************************)
EXTENDS StreamDelivery
=============================================================================
