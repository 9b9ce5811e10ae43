---------------------------- MODULE MCVideoFolder ----------------------------
(* VideoFolder for TLC: the paths of a subdirectory are interchangeable. *)
EXTENDS VideoFolder, TLC

Symmetry == Permutations(UNION Subfolders)
=============================================================================
