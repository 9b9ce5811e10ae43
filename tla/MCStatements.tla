---------------------------- MODULE MCStatements ----------------------------
(* Instance of Statements: all identities are interchangeable.             *)
EXTENDS Statements, TLC

Symmetry == Permutations(Connection) \cup Permutations(Statement)
              \cup Permutations(Query)
=============================================================================
