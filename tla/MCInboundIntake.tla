---------------------------- MODULE MCInboundIntake ----------------------------
(* A small instance of InboundIntake, under the names of Incoming. *)
EXTENDS Incoming
=============================================================================
