---------------------------- MODULE MCTransQueue -----------------------------
(* Instances of TransQueue for TLC: commands are interchangeable, and so   *)
(* are addresses; tasks and addresses are only ever compared.              *)
EXTENDS TransQueue, TLC

CONSTANTS t1, t2, t3, t4, t5, a1, a2

Symmetry == Permutations(Tasks) \cup Permutations(Addresses)
=============================================================================
