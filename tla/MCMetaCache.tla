----------------------------- MODULE MCMetaCache -----------------------------
(***************************************************************************)
(* Instances of MetaCache for TLC.                                         *)
(***************************************************************************)
EXTENDS MetaCache, TLC

CONSTANTS a, b, f   \* names

\* Two directories, and a file of the same name below each.
TwoTrees == {<<a>>, <<b>>, <<a, f>>, <<b, f>>}

OneFile == {<<a>>}

\* The directories are interchangeable.
Symmetry == Permutations({a, b})
=============================================================================
