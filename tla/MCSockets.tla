----------------------------- MODULE MCSockets ------------------------------
(***************************************************************************)
(* Sockets for TLC: two addresses, and a client that starts three times.   *)
(***************************************************************************)
EXTENDS Sockets
=============================================================================
