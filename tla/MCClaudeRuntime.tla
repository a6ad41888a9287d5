---------------------------- MODULE MCClaudeRuntime ----------------------------
(* A small instance of ClaudeRuntime. *)
EXTENDS ClaudeRuntime
=============================================================================
