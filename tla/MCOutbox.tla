------------------------------ MODULE MCOutbox ------------------------------
(* The sender on small tables.                                             *)
EXTENDS Outbox, TLC

Symmetry == Permutations(Person)
=============================================================================
