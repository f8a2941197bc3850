---------------------------- MODULE MCCopyTable ----------------------------
(***************************************************************************)
(* Instances of CopyTable for TLC.  Workers, handles and copies are        *)
(* interchangeable; inodes too, but one is enough for most questions.      *)
(***************************************************************************)
EXTENDS CopyTable, TLC

Symmetry == Permutations(Workers) \cup Permutations(Handles)
              \cup Permutations(Copies)
=============================================================================
