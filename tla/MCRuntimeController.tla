------------------------- MODULE MCRuntimeController -------------------------
(* RuntimeController for TLC, without the tasks of A2ATasks. *)
EXTENDS RuntimeController
=============================================================================
