-------------------------- MODULE MCSpokenQuestion ---------------------------
(* SpokenQuestion for TLC: two questions, of which the second may be asked  *)
(* while the first is still open though its call was given up.              *)
EXTENDS SpokenQuestion
=============================================================================
