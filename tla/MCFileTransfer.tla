--------------------------- MODULE MCFileTransfer ---------------------------
(***************************************************************************)
(* FileTransfer for TLC.                                                   *)
(***************************************************************************)
EXTENDS FileTransfer

=============================================================================
