--------------------------- MODULE MCModelRequests ---------------------------
(* ModelRequests for TLC: the calls of the clients are interchangeable. *)
EXTENDS ModelRequests

RequestSymmetry == Permutations(Call)
=============================================================================
