------------------------------- MODULE MCLink -------------------------------
(* Instances of LinkEmulator for TLC. *)
EXTENDS LinkEmulator
=============================================================================
