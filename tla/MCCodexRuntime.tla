-------------------------- MODULE MCCodexRuntime --------------------------
(***************************************************************************)
(* CodexRuntime for TLC: its constants are numbers.                        *)
(***************************************************************************)
EXTENDS CodexRuntime
=============================================================================
