--------------------------- MODULE MCOrchestrator ---------------------------
(* Orchestrator for TLC: two commands and a /reset, two questions.          *)
EXTENDS Orchestrator
=============================================================================
