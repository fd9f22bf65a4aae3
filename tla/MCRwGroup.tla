----------------------------- MODULE MCRwGroup -----------------------------
(* Instances of RwGroup for TLC: one controller, and two that agree.       *)
EXTENDS RwGroup

MC_CMD_LEVELL == [d \in Dirs |-> 1]
MC_CMD_LEVELH == [d \in Dirs |-> 2]
MC_SERIAL_LEVELL == [d \in Dirs |-> 0]
MC_SERIAL_LEVELH == [d \in Dirs |-> 1]
MC_GRPCHG_TH == [d \in Dirs |-> 1]

One == [sync |-> "off", chans |-> 1, v580 |-> TRUE, rhit |-> BOOLEAN, quiet |-> BOOLEAN,
        tout |-> FALSE, trans |-> FALSE, begins |-> Begins,
        halves |-> TRUE, longer |-> BOOLEAN, places |-> <<Slots>>]
Timeouts == [One EXCEPT !.v580 = FALSE, !.tout = TRUE, !.trans = TRUE, !.begins = {"act", "col"},
                            !.halves = FALSE]

(* Two channels, one of them (or both) with a single place.                *)
First == {Watched}
Two(mode, p) == [One EXCEPT !.sync = mode, !.chans = 2, !.rhit = {FALSE}, !.quiet = {TRUE},
                            !.begins = {"col"}, !.longer = {FALSE}, !.places = p]

MC_Configs == {One, Timeouts, Two("pool", <<Slots, First>>), Two("master", <<First, Slots>>),
               Two("any", <<First, First>>)}
=============================================================================
