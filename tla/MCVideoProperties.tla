-------------------------- MODULE MCVideoProperties --------------------------
(* Instance of VideoProperties: names, values, addresses and DbVideo slots *)
(* are interchangeable.                                                    *)
EXTENDS VideoProperties, TLC

Symmetry == Permutations(Name) \cup Permutations(Value)
              \cup Permutations(Address) \cup Permutations(DbVideo)
=============================================================================
