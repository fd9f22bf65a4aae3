--------------------------- MODULE MCWriteBuffer ---------------------------
(* Instances of WriteBuffer: two lines with two halves, buffers and queue  *)
(* of two, times cut down to a few cycles.                                 *)
EXTENDS WriteBuffer

(* Reads and writes of <<1, 0>> of which a later write may be more urgent, *)
(* or as urgent as can be; one priority for each of the other addresses.   *)
MC_Asks == [type : {"READ"}, addr : {<<1, 0>>}, pri : {1}]
           \cup [type : {"READ"}, addr : {<<2, 0>>}, pri : {0}]
           \cup [type : {"WRITE"}, addr : {<<1, 0>>}, pri : {0, 2}]
           \cup [type : {"WRITE"}, addr : {<<1, 1>>}, pri : {1}]
MC_wr_level == [k \in 1..5 |-> IF k = 5 THEN 1 ELSE 2]
MC_rd_level == [k \in 1..5 |-> 2]
MC_GAP == <<1, 0>>

Plain == [front |-> "rmw", merge |-> FALSE, forward |-> FALSE, byp |-> FALSE, push |-> "none",
          backlog |-> FALSE]
MC_Configs == {[Plain EXCEPT !.front = "ecc", !.push = "timeout", !.byp = TRUE],
               [Plain EXCEPT !.push = "pri"],
               [Plain EXCEPT !.backlog = TRUE],
               [Plain EXCEPT !.merge = TRUE, !.forward = TRUE, !.push = "pri"],
               [Plain EXCEPT !.front = "direct"]}
=============================================================================
