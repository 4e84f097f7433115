------------------------------ MODULE MCPlayer ------------------------------
(* An instance of Player for TLC. *)
EXTENDS Player

Film == <<"video", "audio", "other", "video">>
=============================================================================
