------------------------------ MODULE LowPower ------------------------------
(***************************************************************************)
(* The low-power part of the memory controller of one channel:             *)
(* MemoryController::update_lp_state, which moves every rank through       *)
(* power-down and self-refresh and the PHY through its own low-power       *)
(* states, and the FIFO of packets on their way to the DRAM.               *)
(*                                                                         *)
(* One call of update_lp_state is LpBegin, one LpRank step for each rank   *)
(* of its last loop, in order, and LpEnd.  CommandPath interleaves them    *)
(* with the other handlers of a clock cycle.                               *)
(***************************************************************************)
EXTENDS Integers, Sequences

CONSTANTS
    NUM_RANKS,                      \* ranks of the channel
    EVERY_OTHER,                    \* LPDDR6 at a rate of at most 6400
    PD_ENABLE, ASREF_ENABLE,        \* power-down, automatic self-refresh
    DMC_V580, DMC_V590,             \* version of the controller
    PD_PRD, ASREF_PRD,              \* idle cycles before each of them
    tPDE, tPDLP, tCSPD, tXP,        \* power-down entry, stay and exit
    tASREFE, tXSR,                  \* self-refresh entry and exit
    tPHYLPE, tPHYLPX,               \* low power of the PHY
    AnyCnt,                         \* what lp_cnt may hold: nothing initialises it
    tCMD_PHY                        \* cycles a packet takes to the DRAM

Ranks == 0 .. NUM_RANKS - 1

ASSUME LpAssumption ==
    /\ NUM_RANKS \in Nat \ {0}
    /\ {EVERY_OTHER, PD_ENABLE, ASREF_ENABLE, DMC_V580, DMC_V590} \subseteq BOOLEAN
    /\ {PD_PRD, ASREF_PRD, tPDE, tPDLP, tCSPD, tXP, tASREFE, tXSR,
        tPHYLPE, tPHYLPX, tCMD_PHY} \cup AnyCnt \subseteq Nat

VARIABLES
    parity,         \* now() % 2
    RankState,      \* lp_state and the three counters of each rank
    PhyLpState,     \* phylp_state and lp_cnt
    rank_has_cmd,   \* the rank has commands, as update_lp_state sees it
    fast_wakeup,    \* the interconnect announces a read of the rank
    wakeup,         \* funcState[rank].wakeup: a precharge or a refresh waits
    pdeWait,        \* cycles from now() to funcState[rank].nextPde
    bankStates,     \* the bank of each rank, as the controller believes it
    refresh_cnt,    \* refreshALL[rank].refresh_cnt: refreshes it owes
    packet,         \* the FIFO of packets to the DRAM
    lpRank          \* loop index of update_lp_state

lpVars == <<RankState, PhyLpState, rank_has_cmd, fast_wakeup, wakeup, packet, lpRank>>

Transitions == {"PDE", "PDX", "ASREFE", "ASREFX", "SRPDE", "SRPDX"}
SelfRefresh == {"ASREFE", "ASREF", "ASREFX", "SRPDE", "SRPD", "SRPDLP", "SRPDX"}
LpStates    == {"IDLE", "PDE", "PD", "PDLP", "PDX"} \cup SelfRefresh
PhyStates   == {"PHYLP_IDLE", "PHYLPE", "PHYLP", "PHYLPX"}
LpCommands  == {"PD", "PDX", "ASREF", "ASREFX", "SRPD", "SRPDX"}

lp_state(r) == RankState[r].lp_state

(* A command may be chosen in an even cycle and leaves in an odd one.      *)
even_cycle == EVERY_OTHER => parity = 1
odd_cycle  == EVERY_OTHER => parity = 0

(* Seeded mistake: a counter runs past zero.                               *)
mut_Less1(n) == n - 1

Less1(n) == IF n > 0 THEN n - 1 ELSE 0
Larger(m, n) == IF m > n THEN m ELSE n
-----------------------------------------------------------------------------
LpInit ==
    /\ RankState = [r \in Ranks |-> [lp_state |-> "IDLE", pd_cnt |-> 0,
                                     asref_cnt |-> 0, state_cnt |-> 0]]
    /\ PhyLpState \in [phylp_state : {"PHYLP_IDLE"}, lp_cnt : AnyCnt]
    /\ rank_has_cmd = [r \in Ranks |-> FALSE]
    /\ fast_wakeup = [r \in Ranks |-> FALSE]
    /\ wakeup = [r \in Ranks |-> FALSE]
    /\ pdeWait = [r \in Ranks |-> 0]
    /\ packet = << >>
    /\ lpRank = 0

(* noc_read_inform: the interconnect announces reads of the ranks W.       *)
NocReadInform(W) == fast_wakeup' = [r \in Ranks |-> r \in W]

(***************************************************************************)
(* The head of update_lp_state: the low-power logic of the PHY, then the   *)
(* counters.  The lowest rank that is entering or leaving a state freezes  *)
(* the counters of the others.                                             *)
(***************************************************************************)
(* Seeded mistake: precharges and refreshes do not wake the PHY up.        *)
mut_PhyWakeup(has) == \E r \in Ranks : has[r] \/ fast_wakeup[r]

PhyWakeup(has) == \E r \in Ranks : has[r] \/ fast_wakeup[r] \/ wakeup[r]
AllRanksLp     == \A r \in Ranks : lp_state(r) \in {"PDLP", "SRPDLP"}

PhyLp(has) ==
    LET cnt == Less1(PhyLpState.lp_cnt)
        met == PhyLpState.lp_cnt = 1
        go(s, n) == [phylp_state |-> s, lp_cnt |-> n]
    IN  CASE PhyLpState.phylp_state = "PHYLP_IDLE" ->
                 IF AllRanksLp THEN go("PHYLPE", tPHYLPE) ELSE go("PHYLP_IDLE", cnt)
          [] PhyLpState.phylp_state = "PHYLPE" ->
                 IF PhyWakeup(has) THEN go("PHYLPX", tPHYLPX)
                 ELSE go(IF met THEN "PHYLP" ELSE "PHYLPE", cnt)
          [] PhyLpState.phylp_state = "PHYLP" ->
                 IF PhyWakeup(has) THEN go("PHYLPX", tPHYLPX) ELSE go("PHYLP", cnt)
          [] PhyLpState.phylp_state = "PHYLPX" ->
                 go(IF met THEN "PHYLP_IDLE" ELSE "PHYLPX", cnt)

Blocked(r) ==
    \E b \in Ranks : /\ lp_state(b) \in Transitions
                     /\ \A s \in Ranks : s < b => lp_state(s) \notin Transitions
                     /\ b # r

CountDown(rs) == [lp_state |-> rs.lp_state, pd_cnt |-> Less1(rs.pd_cnt),
                  asref_cnt |-> Less1(rs.asref_cnt), state_cnt |-> Less1(rs.state_cnt)]

LpBegin(has) ==
    /\ rank_has_cmd' = has
    /\ PhyLpState' = PhyLp(has)
    /\ RankState' = [r \in Ranks |-> IF Blocked(r) THEN RankState[r]
                                     ELSE CountDown(RankState[r])]
    /\ lpRank' = 0
    /\ UNCHANGED <<fast_wakeup, wakeup, packet>>
-----------------------------------------------------------------------------
(***************************************************************************)
(* The state machine of one rank, one action per state.                    *)
(***************************************************************************)
(* Seeded mistake: the rank refreshes itself with a row open.              *)
mut_asref_timing_met(r) == RankState[r].asref_cnt = 0 /\ ASREF_ENABLE /\ even_cycle

pd_timing_met(r)    == RankState[r].pd_cnt = 0 /\ pdeWait[r] = 0 /\ PD_ENABLE /\ even_cycle
asref_timing_met(r) == /\ RankState[r].asref_cnt = 0
                       /\ bankStates[r].state = "Idle"
                       /\ ASREF_ENABLE /\ even_cycle
state_timing_met(r) == RankState[r].state_cnt = 0 /\ PD_ENABLE /\ even_cycle

(* Seeded mistake: transactions in the queue do not wake a sleeping rank.  *)
mut_Wake(r) == fast_wakeup[r] \/ wakeup[r]

Wake(r) == rank_has_cmd[r] \/ fast_wakeup[r] \/ wakeup[r]

Becomes(r, rs)       == RankState' = [RankState EXCEPT ![r] = rs]
Enter(r, st)         == Becomes(r, [RankState[r] EXCEPT !.lp_state = st])
EnterPd(r, st, n)    == Becomes(r, [RankState[r] EXCEPT !.lp_state = st, !.pd_cnt = n])
EnterAsref(r, st, n) == Becomes(r, [RankState[r] EXCEPT !.lp_state = st, !.asref_cnt = n])

(* Seeded mistake: the shortest stay in the low-power state is not timed.  *)
mut_EnterLow(r, st)  == Becomes(r, [RankState[r] EXCEPT !.lp_state = st, !.pd_cnt = tPDLP])

EnterLow(r, st)      == Becomes(r, [RankState[r] EXCEPT !.lp_state = st, !.pd_cnt = tPDLP,
                                                        !.state_cnt = tCSPD])
Reload(r, st, pd, asref) == Becomes(r, [RankState[r] EXCEPT !.lp_state = st,
                                            !.pd_cnt    = IF pd THEN PD_PRD ELSE @,
                                            !.asref_cnt = IF asref THEN ASREF_PRD ELSE @])

(* Seeded mistake: a low-power command takes a cycle more than the others. *)
mut_Send(r, cmd) == packet' = Append(packet, [type |-> cmd, rank |-> r, delay |-> tCMD_PHY + 1])

Send(r, cmd) == packet' = Append(packet, [type |-> cmd, rank |-> r, delay |-> tCMD_PHY])

Stay(r) == UNCHANGED <<RankState, packet>>

LpIdle(r) ==
    /\ lp_state(r) = "IDLE"
    /\ UNCHANGED packet
    /\ IF rank_has_cmd[r] \/ fast_wakeup[r] THEN Reload(r, "IDLE", PD_ENABLE, ASREF_ENABLE)
       ELSE IF wakeup[r] THEN Reload(r, "IDLE", PD_ENABLE /\ ~DMC_V580, FALSE)
       ELSE IF asref_timing_met(r)
       THEN EnterAsref(r, IF pd_timing_met(r) THEN "SRPDE" ELSE "ASREFE", tASREFE)
       ELSE IF pd_timing_met(r) /\ refresh_cnt[r] = 0
       THEN EnterPd(r, "PDE", tPDE)
       ELSE UNCHANGED RankState

LpPde(r) ==
    /\ lp_state(r) = "PDE"
    /\ IF pd_timing_met(r) THEN EnterLow(r, "PD") /\ Send(r, "PD") ELSE Stay(r)

LpPd(r) ==
    /\ lp_state(r) = "PD"
    /\ IF Wake(r) /\ state_timing_met(r)
       THEN EnterPd(r, "PDX", tXP) /\ Send(r, "PDX")
       ELSE IF pd_timing_met(r) THEN Enter(r, "PDLP") /\ UNCHANGED packet
       ELSE Stay(r)

LpPdlp(r) ==
    /\ lp_state(r) = "PDLP"
    /\ IF (Wake(r) \/ asref_timing_met(r)) /\ state_timing_met(r)
       THEN EnterPd(r, "PDX", tXP) /\ Send(r, "PDX") ELSE Stay(r)

LpPdx(r) ==
    /\ lp_state(r) = "PDX"
    /\ UNCHANGED packet
    /\ IF pd_timing_met(r)
       THEN LET reload == ~asref_timing_met(r) /\ ~wakeup[r]
            IN  Reload(r, "IDLE", reload, reload /\ ASREF_ENABLE)
       ELSE UNCHANGED RankState

LpAsrefe(r) ==
    /\ lp_state(r) = "ASREFE"
    /\ IF asref_timing_met(r) THEN Enter(r, "ASREF") /\ Send(r, "ASREF") ELSE Stay(r)

LpAsref(r) ==
    /\ lp_state(r) = "ASREF"
    /\ IF Wake(r) THEN EnterAsref(r, "ASREFX", tXSR) /\ Send(r, "ASREFX")
       ELSE IF ~pd_timing_met(r) THEN Stay(r)
       ELSE IF DMC_V590 THEN EnterLow(r, "SRPD") /\ Send(r, "SRPD")
       ELSE EnterPd(r, "SRPDE", tPDE) /\ UNCHANGED packet

LpAsrefx(r) ==
    /\ lp_state(r) = "ASREFX"
    /\ UNCHANGED packet
    /\ IF asref_timing_met(r) THEN Reload(r, "IDLE", ~wakeup[r], ~wakeup[r])
       ELSE UNCHANGED RankState

LpSrpde(r) ==
    /\ lp_state(r) = "SRPDE"
    /\ IF pd_timing_met(r) THEN EnterLow(r, "SRPD") /\ Send(r, "SRPD") ELSE Stay(r)

LpSrpd(r) ==
    /\ lp_state(r) = "SRPD"
    /\ IF Wake(r) /\ state_timing_met(r)
       THEN EnterPd(r, "SRPDX", tXP) /\ Send(r, "SRPDX")
       ELSE IF pd_timing_met(r) THEN Enter(r, "SRPDLP") /\ UNCHANGED packet
       ELSE Stay(r)

LpSrpdlp(r) ==
    /\ lp_state(r) = "SRPDLP"
    /\ IF Wake(r) /\ state_timing_met(r)
       THEN EnterPd(r, "SRPDX", tXP) /\ Send(r, "SRPDX") ELSE Stay(r)

LpSrpdx(r) ==
    /\ lp_state(r) = "SRPDX"
    /\ IF pd_timing_met(r)
       THEN EnterAsref(r, "ASREFX", tXSR) /\ Send(r, "ASREFX") ELSE Stay(r)

(* One iteration of the loop over the ranks.                               *)
LpRank(r) ==
    /\ lpRank = r
    /\ lpRank' = r + 1
    /\ \/ LpIdle(r)   \/ LpPde(r)   \/ LpPd(r)    \/ LpPdlp(r)
       \/ LpPdx(r)    \/ LpAsrefe(r) \/ LpAsref(r) \/ LpAsrefx(r)
       \/ LpSrpde(r)  \/ LpSrpd(r)  \/ LpSrpdlp(r) \/ LpSrpdx(r)
    /\ UNCHANGED <<PhyLpState, rank_has_cmd, fast_wakeup, wakeup>>

(* The tail: fast wake-ups last one cycle, functional ones until nextPde.  *)
LpEnd ==
    /\ lpRank = NUM_RANKS
    /\ lpRank' = 0
    /\ fast_wakeup' = [r \in Ranks |-> FALSE]
    /\ wakeup' = [r \in Ranks |-> wakeup[r] /\ pdeWait[r] > 0]
    /\ UNCHANGED <<RankState, PhyLpState, rank_has_cmd, packet>>
=============================================================================
