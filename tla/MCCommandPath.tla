---------------------------- MODULE MCCommandPath ----------------------------
(* Instances of CommandPath for TLC: the transactions are interchangeable. *)
EXTENDS CommandPath, TLC

CONSTANTS t1, t2

Symmetry == Permutations(Tasks)
=============================================================================
