------------------------------ MODULE MCBoard ------------------------------
(* The board alone, on small tables.                                       *)
EXTENDS Board, TLC

Symmetry == {f \in Permutations(Person) : \A x \in Owners : f[x] \in Owners}
=============================================================================
