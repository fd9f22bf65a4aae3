----------------------------- MODULE MCInlineEcc -----------------------------
(* Instances of InlineEcc for TLC: the requests and the configurations.    *)
EXTENDS InlineEcc

Ask(y, m, p, s) == [type |-> y, mask |-> m, pdu |-> p, part |-> s]
Mode(p, l, m)   == [push |-> p, level |-> l, merge |-> m]
Modes == {Mode(FALSE, 0, FALSE), Mode(FALSE, 1, FALSE), Mode(TRUE, 0, FALSE), Mode(FALSE, 0, TRUE)}

(* Reads, writes of a whole PDU and of a part, and a masked write.         *)
Kinds == <<Ask("READ", FALSE, 0, {}), Ask("READ", FALSE, 1, {}), Ask("WRITE", FALSE, 0, {1, 2}),
           Ask("WRITE", FALSE, 1, {1}), Ask("WRITE", FALSE, 2, {1, 2}), Ask("WRITE", TRUE, 1, {2})>>

(* n requests; the order of the tasks does not matter, any may be offered. *)
Requests(n) ==
    {[t \in 1..n |-> Kinds[k[t]]] :
        k \in {g \in [1..n -> DOMAIN Kinds] : \A t \in 1..(n - 1) : g[t] <= g[t + 1]}}

(* Full lines of neighbours, one cleaned by a read, and a line needed.     *)
Merging == [config |-> Mode(FALSE, 0, TRUE),
            req |-> <<Ask("WRITE", FALSE, 0, {1, 2}), Ask("WRITE", FALSE, 1, {1, 2}),
                      Ask("READ", FALSE, 0, {}), Ask("WRITE", FALSE, 3, {1}),
                      Ask("WRITE", FALSE, 4, {1})>>]

All == [config : Modes, req : Requests(3)] \cup {Merging}
=============================================================================
