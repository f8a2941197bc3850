--------------------------- MODULE MCFileHandles ---------------------------
(***************************************************************************)
(* Instances of FileHandles for TLC.                                       *)
(***************************************************************************)
EXTENDS FileHandles, TLC

Symmetry == Permutations(Workers) \cup Permutations(Handles)
              \cup Permutations(Copies) \cup Permutations(Paths)
=============================================================================
