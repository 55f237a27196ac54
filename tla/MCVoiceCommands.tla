--------------------------- MODULE MCVoiceCommands ---------------------------
(* VoiceCommands for TLC. *)
EXTENDS VoiceCommands
=============================================================================
