----------------------------- MODULE MCService ------------------------------
(***************************************************************************)
(* Service for TLC.  Clients and names are interchangeable in the safety   *)
(* runs.                                                                   *)
(***************************************************************************)
EXTENDS Service, TLC

CONSTANTS c1, c2, f, g

MCClients == {c1, c2}
MCTwoNames == {f, g}
MCOneName == {f}

Symmetry == Permutations(MCClients) \cup Permutations(MCTwoNames)
=============================================================================
