----------------------------- MODULE MCA2ATasks ------------------------------
(* A2ATasks for TLC: a task and an MCP call that compete for the lock. *)
EXTENDS A2ATasks
=============================================================================
