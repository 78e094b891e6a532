------------------------------- MODULE MCCopy -------------------------------
(***************************************************************************)
(* Copy for TLC, on its own: the promise the abstract specification makes. *)
(***************************************************************************)
EXTENDS Copy

\* Bound: a copy that is continued beyond its end may go on two sectors more.
MaxResume == NumSectors + 2

MCCopySpec == CopyInit /\ [][CopyNext /\ resume' <= MaxResume]_copyVars

=============================================================================
