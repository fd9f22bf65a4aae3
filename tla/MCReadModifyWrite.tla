-------------------------- MODULE MCReadModifyWrite --------------------------
(* Instances of ReadModifyWrite for TLC: which commands the driver makes,  *)
(* and under which configurations.                                         *)
EXTENDS ReadModifyWrite

Offer(k, l, r) == [kind |-> k, left |-> l, right |-> r]

(* The halves of a block of 256 bytes, written in full and merged, read    *)
(* and mask written.                                                       *)
Blocks == {Offer("full", 0, 2), Offer("full", 2, 4), Offer("read", 0, 2), Offer("mask", 2, 4)}

(* With a full write that is too short to merge.                           *)
Mixed == Blocks \cup {Offer("full", 0, 1)}

Config(mode, merge, backlog) == [mode |-> mode, merge |-> merge, backlog |-> backlog]

Modes == {Config(0, TRUE, FALSE), Config(1, TRUE, FALSE), Config(2, TRUE, FALSE),
          Config(1, FALSE, TRUE)}
Mode1 == {Config(1, TRUE, FALSE)}
=============================================================================
