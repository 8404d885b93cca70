--------------------------- MODULE MCLibraryClient --------------------------
(***************************************************************************)
(* LibraryClient with descriptors for its first connection and a few       *)
(* commands: two logins with what they allow between and after them.       *)
(***************************************************************************)
EXTENDS LibraryClient
=============================================================================
