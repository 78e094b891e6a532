----------------------------- MODULE MCSectors ------------------------------
(***************************************************************************)
(* Sectors for TLC: sectors of three bytes, a long of four bits and one of *)
(* six, and files that reach beyond the point where the offsets of the     *)
(* shorter one have wrapped around to positive numbers (16).               *)
(***************************************************************************)
EXTENDS Sectors

MCLongMax == {7, 31}
=============================================================================
