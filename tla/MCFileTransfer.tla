--------------------------- MODULE MCFileTransfer ---------------------------
(***************************************************************************)
(* FileTransfer for up to two names on the command line, which may be the  *)
(* same; files of none, one and two full pieces and all sizes between.     *)
(***************************************************************************)
EXTENDS FileTransfer
=============================================================================
