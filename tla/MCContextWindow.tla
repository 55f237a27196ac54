--------------------------- MODULE MCContextWindow ---------------------------
(* ContextWindow for TLC: the tool calls are interchangeable. *)
EXTENDS ContextWindow, TLC

CallSymmetry == Permutations(CallId)
=============================================================================
