------------------------------ MODULE DramRank ------------------------------
(***************************************************************************)
(* What a DRAM rank accepts: the abstract specification that the command   *)
(* path of the controller implements.  A rank takes commands for its       *)
(* banks only when it is in no low-power state, opens a row only when none *)
(* is open, reads and writes only an open row, refreshes (by command or    *)
(* by itself) only with all rows closed, and leaves every low-power state  *)
(* the way it entered it.                                                  *)
(*                                                                         *)
(* Rank::receiveFromBus executes whatever it gets; nothing in it checks    *)
(* this order, so it is the controller that must keep it.                  *)
(***************************************************************************)
CONSTANT Ranks

VARIABLES
    power,      \* RankStat.state: "IDLE", "PD", "ASREF" or "SRPD"
    open,       \* DramBankState.state = BANK_ACT
    last        \* last command that the rank received

vars == <<power, open, last>>

Init ==
    /\ power = [r \in Ranks |-> "IDLE"]
    /\ open  = [r \in Ranks |-> FALSE]
    /\ last  = [r \in Ranks |-> "NONE"]

Took(r, cmd) == last' = [last EXCEPT ![r] = cmd]
GoTo(r, st)  == power' = [power EXCEPT ![r] = st] /\ UNCHANGED open
Rows(r, b)   == open' = [open EXCEPT ![r] = b] /\ UNCHANGED power

Activate1(r) == power[r] = "IDLE" /\ ~open[r] /\ UNCHANGED <<power, open>> /\ Took(r, "ACT1")
Activate2(r) == power[r] = "IDLE" /\ ~open[r] /\ last[r] = "ACT1" /\ Rows(r, TRUE) /\ Took(r, "ACT2")
Access(r)    == power[r] = "IDLE" /\ open[r] /\ UNCHANGED <<power, open>> /\ Took(r, "RW")
Precharge(r) == /\ power[r] = "IDLE" /\ Rows(r, FALSE)
                /\ Took(r, "PRE_PB") \/ Took(r, "PRE_AB")
Refresh(r)   == power[r] = "IDLE" /\ ~open[r] /\ UNCHANGED <<power, open>> /\ Took(r, "REF")

PowerDown(r)       == power[r] = "IDLE" /\ GoTo(r, "PD") /\ Took(r, "PD")
PowerUp(r)         == power[r] = "PD" /\ GoTo(r, "IDLE") /\ Took(r, "PDX")
SelfRefresh(r)     == power[r] = "IDLE" /\ ~open[r] /\ GoTo(r, "ASREF") /\ Took(r, "ASREF")
SelfRefreshExit(r) == power[r] = "ASREF" /\ GoTo(r, "IDLE") /\ Took(r, "ASREFX")
SrPowerDown(r)     == /\ power[r] \in {"IDLE", "ASREF"} /\ ~open[r]
                      /\ GoTo(r, "SRPD") /\ Took(r, "SRPD")
SrPowerUp(r)       == power[r] = "SRPD" /\ GoTo(r, "ASREF") /\ Took(r, "SRPDX")

Next == \E r \in Ranks :
    \/ Activate1(r) \/ Activate2(r) \/ Access(r) \/ Precharge(r) \/ Refresh(r)
    \/ PowerDown(r) \/ PowerUp(r) \/ SelfRefresh(r) \/ SelfRefreshExit(r)
    \/ SrPowerDown(r) \/ SrPowerUp(r)

Spec == Init /\ [][Next]_vars
=============================================================================
