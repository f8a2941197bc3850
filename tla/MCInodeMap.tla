----------------------------- MODULE MCInodeMap -----------------------------
(***************************************************************************)
(* Instances of InodeMap for TLC.                                          *)
(***************************************************************************)
EXTENDS InodeMap, TLC

Symmetry == Permutations(Workers) \cup Permutations(Names)
=============================================================================
