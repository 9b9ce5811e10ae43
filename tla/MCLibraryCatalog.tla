-------------------------- MODULE MCLibraryCatalog --------------------------
(* Instance of LibraryCatalog: names and directories are interchangeable.  *)
EXTENDS LibraryCatalog, TLC

Symmetry == Permutations(Name) \cup Permutations(Dir)
=============================================================================
