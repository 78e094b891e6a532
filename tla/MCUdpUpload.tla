---------------------------- MODULE MCUdpUpload -----------------------------
(***************************************************************************)
(* UdpUpload for TLC.  A byte has two values and an index two bytes, so    *)
(* that two blocks can be numbered: file f has as many, file g is empty.   *)
(* The letters of a command stand for the second block.                    *)
(***************************************************************************)
EXTENDS UdpUpload

MCFiles == {"f", "g"}

MCSize == [name \in MCFiles |-> IF name = "f" THEN 2 ELSE 0]

MCCommandIndexes == {1}
=============================================================================
