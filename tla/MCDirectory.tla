----------------------------- MODULE MCDirectory -----------------------------
(* A token names every group, so that the names are alike.                 *)
EXTENDS Directory, TLC

CONSTANTS s1, u1, h1

MCFolds == [u \in UserName |-> IF u = u1 THEN h1 ELSE Nobody]
MCTokens == {[handle |-> h1, groups |-> Name]}
Symmetry == Permutations(Name)
=============================================================================
