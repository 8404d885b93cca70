------------------------------- MODULE MCChat -------------------------------
(***************************************************************************)
(* Chat with two nicknames and three connections: a client can leave, and  *)
(* come back when another has taken its descriptor.                        *)
(***************************************************************************)
EXTENDS Chat
=============================================================================
