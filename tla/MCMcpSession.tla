----------------------------- MODULE MCMcpSession -----------------------------
(* McpSession for TLC: a call of a safe tool and one of an unsafe tool.     *)
EXTENDS McpSession
=============================================================================
