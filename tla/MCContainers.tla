---------------------------- MODULE MCContainers ----------------------------
(* Instances of LinkedLists and of RowMapping.  They share nothing: which  *)
(* one a behaviour is about is chosen in its first state.                  *)
EXTENDS LinkedLists, RowMapping

CONSTANTS v, w

VARIABLE subject

TwoValues == {v, w}
SomeBatches == {<<v>>, <<w>>, <<v, w>>}

EitherInit ==
  /\ subject \in {"lists", "mappings"}
  /\ Init /\ RowInit

EitherNext ==
  /\ UNCHANGED subject
  /\ \/ subject = "lists" /\ Next /\ UNCHANGED rowVars
     \/ subject = "mappings" /\ RowNext /\ UNCHANGED vars

EitherSpec == EitherInit /\ [][EitherNext]_<<subject, vars, rowVars>>

Symmetry == Permutations(Addresses) \cup Permutations(Queues)
              \cup Permutations(Stacks)
=============================================================================
