----------------------------- MODULE MCNodeTree -----------------------------
(* Instance of NodeTree.  Contents of the same class are interchangeable.  *)
EXTENDS NodeTree, TLC

Symmetry == Permutations(Content \ Roots)
=============================================================================
