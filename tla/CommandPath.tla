----------------------------- MODULE CommandPath -----------------------------
(***************************************************************************)
(* The path of a command through the memory controller of one channel:     *)
(* from the transaction queue (addTransaction, que_pipeline, lc), the page *)
(* timeout and the refresh logic into CmdQueue, through the scheduler and  *)
(* the command register (generate_packet, exec) into the packet FIFO, and  *)
(* to the DRAM ranks; with the low-power state machine of LowPower, which  *)
(* the same clock cycle runs between the steps.                            *)
(*                                                                         *)
(* One clock cycle is one MemoryController::update; its handlers run in    *)
(* the order of `phase'.  What can go wrong lies between them: a command   *)
(* is chosen in one cycle and leaves several cycles later, while           *)
(* update_lp_state decides on what it sees in between.                     *)
(***************************************************************************)
EXTENDS LowPower, FiniteSets

CONSTANTS
    Tasks,              \* names of the transactions in the queue
    NoTask,             \* the task of a precharge or refresh command
    BURSTS,             \* column commands of a transaction (data_size)
    tCMD_WAKEUP,        \* length of the pipe deqCmdWakeupLp
    tCMD2SCH,           \* cycles from addTransaction to arb_time
    cmd_cycle, pre_cycle, rw_cycle,     \* cycles a command occupies the bus
    tCMDPD, tRDPD, tRPPD,   \* to power-down: after ACT2 or REF, CAS, PRE
    tRAS, tRTP, tRP, tRFC,  \* to precharge: after ACT2, CAS; after PRE, REF
    ACT_LEAD,               \* how much earlier than ACT2 its ACT1 may go
    PAGE_TIMEOUT,           \* idle cycles before an open row is closed
    AREF_EN,                \* refresh by all-bank refresh commands
    ABR_PSTPND_LEVEL,       \* postponed refreshes that force a refresh
    PSTPND_LIMIT,           \* postponed refreshes that stop new requests (8)
    MaxPostponed,           \* bound of the model on postponed refreshes
    InformRanks             \* ranks the interconnect may announce reads of

ASSUME CommandAssumption ==
    /\ NoTask \notin Tasks /\ IsFiniteSet(Tasks)
    /\ BURSTS \in Nat \ {0}
    /\ tCMD_WAKEUP \in 1 .. tCMD2SCH + 1 /\ tCMD2SCH \in Nat
    /\ {cmd_cycle, pre_cycle, rw_cycle} \subseteq Nat \ {0}
    /\ EVERY_OTHER => \A n \in {cmd_cycle, pre_cycle, rw_cycle} : n % 2 = 0
    /\ {tCMDPD, tRDPD, tRPPD, tRAS, tRTP, tRP, tRFC, ACT_LEAD, PAGE_TIMEOUT,
        ABR_PSTPND_LEVEL, PSTPND_LIMIT, MaxPostponed} \subseteq Nat
    /\ AREF_EN \in BOOLEAN
    /\ InformRanks \subseteq Ranks

VARIABLES
    phase,          \* the next handler of update()
    trans,          \* the transaction queue
    rank_cnt,       \* transactions of each rank
    deqCmdWakeupLp, \* rank_cnt of the last tCMD_WAKEUP cycles, oldest first
    CmdQueue,       \* commands ready for the scheduler
    exec_valid, command, command_pend,      \* the command register
    arb_enable,     \* another command may be chosen in this cycle
    refreshALL,     \* refreshWaiting and refreshing of each rank
    scan,           \* position of exec() in packet
    dram,           \* the ranks: power, open row, last command
    quiet           \* history: cycles before the rank may be spoken to

ctlVars  == <<CmdQueue, exec_valid, command, command_pend, arb_enable>>
queVars  == <<trans, rank_cnt, deqCmdWakeupLp>>
bankVars == <<bankStates, refresh_cnt, refreshALL>>
dramVars == <<scan, dram, quiet>>
vars == <<phase, parity, pdeWait, lpVars, ctlVars, queVars, bankVars, dramVars>>

CmdTypes == {"ACT1", "ACT2", "RW", "PRE_PB", "PRE_AB", "REF"}
CmdSet   == [type : CmdTypes, rank : Ranks, task : Tasks \cup {NoTask}]

AgeMax == tCMD2SCH + 1
Queued(t) == trans[t].on
On(t, r)  == trans[t].on /\ trans[t].rank = r
Off       == [on |-> FALSE, rank |-> 0, age |-> 0, issue_size |-> 0, act |-> FALSE]

At(p)   == phase = p
Then(p) == phase' = p

Init ==
    /\ LpInit
    /\ phase = "inform" /\ parity = 0
    /\ bankStates = [r \in Ranks |-> [state |-> "Idle", cnt |-> 0, act_executing |-> FALSE,
                                      delay |-> 0, delay_en |-> FALSE]]
    /\ refresh_cnt = [r \in Ranks |-> 0]
    /\ trans = [t \in Tasks |-> Off]
    /\ rank_cnt = [r \in Ranks |-> 0]
    /\ deqCmdWakeupLp = [r \in Ranks |-> [i \in 1 .. tCMD_WAKEUP |-> 0]]
    /\ CmdQueue = {} /\ arb_enable = TRUE
    /\ exec_valid = FALSE /\ command_pend = 0
    /\ command = [type |-> "PRE_AB", rank |-> 0, task |-> NoTask]
    /\ refreshALL = [r \in Ranks |-> [refreshWaiting |-> FALSE, refreshing |-> FALSE]]
    /\ scan = 1
    /\ dram = [r \in Ranks |-> [power |-> "IDLE", open |-> FALSE, last |-> "NONE"]]
    /\ quiet = [r \in Ranks |-> 0]
-----------------------------------------------------------------------------
(***************************************************************************)
(* Before update(): the front end.                                         *)
(***************************************************************************)
Inform ==
    /\ At("inform") /\ Then("add")
    /\ \E W \in SUBSET InformRanks : NocReadInform(W)
    /\ UNCHANGED <<parity, pdeWait, RankState, PhyLpState, rank_has_cmd, wakeup, packet,
                   lpRank, ctlVars, queVars, bankVars, dramVars>>

(* addTransaction accepts one transaction a cycle, and none while some     *)
(* rank has postponed as many refreshes as the DRAM allows.                *)
refresh_backlog == AREF_EN /\ \E r \in Ranks : refresh_cnt[r] >= PSTPND_LIMIT

addTransaction(t, r) ==
    /\ At("add") /\ Then("lp")
    /\ ~Queued(t) /\ ~refresh_backlog
    /\ trans' = [trans EXCEPT ![t] = [Off EXCEPT !.on = TRUE, !.rank = r]]
    /\ rank_cnt' = [rank_cnt EXCEPT ![r] = @ + 1]
    /\ refreshALL' = [refreshALL EXCEPT ![r].refreshWaiting =
            @ /\ ~(DMC_V590 /\ refresh_cnt[r] < ABR_PSTPND_LEVEL /\ ~refreshALL[r].refreshing)]
    /\ UNCHANGED <<parity, pdeWait, lpVars, ctlVars, deqCmdWakeupLp, bankStates, refresh_cnt,
                   dramVars>>

NoTransaction ==
    /\ At("add") /\ Then("lp")
    /\ UNCHANGED <<parity, pdeWait, lpVars, ctlVars, queVars, bankVars, dramVars>>
-----------------------------------------------------------------------------
(***************************************************************************)
(* update_lp_state.                                                        *)
(***************************************************************************)
(* Seeded mistake: a single transaction does not count.                    *)
mut_has_cmd == [r \in Ranks |-> deqCmdWakeupLp[r][1] > 1]

has_cmd == [r \in Ranks |-> deqCmdWakeupLp[r][1] > 0]

UpdateLpBegin ==
    /\ At("lp") /\ Then("rank")
    /\ LpBegin(has_cmd)
    /\ UNCHANGED <<parity, pdeWait, ctlVars, queVars, bankVars, dramVars>>

UpdateLpRank(r) ==
    /\ At("rank") /\ Then("rank")
    /\ LpRank(r)
    /\ UNCHANGED <<parity, pdeWait, ctlVars, queVars, bankVars, dramVars>>

UpdateLpEnd ==
    /\ At("rank") /\ Then("send")
    /\ LpEnd
    /\ scan' = 1
    /\ UNCHANGED <<parity, pdeWait, ctlVars, queVars, bankVars, dram, quiet>>
-----------------------------------------------------------------------------
(***************************************************************************)
(* exec, first part: the loop over packet sends every packet whose delay   *)
(* is over.  It reads the command at its position, but takes the rank from *)
(* the head of the FIFO and removes the head.                              *)
(***************************************************************************)
receiveFromBus(r, cmd) ==
    /\ dram' = [dram EXCEPT ![r] =
         [power |-> CASE cmd = "PD" -> "PD"
                      [] cmd \in {"ASREF", "SRPDX"} -> "ASREF"
                      [] cmd = "SRPD" -> "SRPD"
                      [] cmd \in {"PDX", "ASREFX"} -> "IDLE"
                      [] OTHER -> @.power,
          open  |-> CASE cmd = "ACT2" -> TRUE
                      [] cmd \in {"PRE_PB", "PRE_AB", "REF"} -> FALSE
                      [] OTHER -> @.open,
          last  |-> cmd]]
    /\ quiet' = [quiet EXCEPT ![r] = CASE cmd \in {"PD", "SRPD"}   -> tCSPD
                                       [] cmd \in {"PDX", "SRPDX"} -> tXP
                                       [] cmd = "ASREFX"           -> tXSR
                                       [] OTHER                    -> @]

Due == packet[scan].delay = 0

SendPacket ==
    /\ At("send") /\ Then("send")
    /\ scan <= Len(packet) /\ Due
    /\ receiveFromBus(Head(packet).rank, packet[scan].type)
    /\ packet' = Tail(packet)
    /\ UNCHANGED <<parity, pdeWait, RankState, PhyLpState, rank_has_cmd, fast_wakeup, wakeup,
                   lpRank, ctlVars, queVars, bankVars, scan>>

SkipPacket ==
    /\ At("send") /\ Then("send")
    /\ scan <= Len(packet) /\ ~Due
    /\ scan' = scan + 1
    /\ UNCHANGED <<parity, pdeWait, lpVars, ctlVars, queVars, bankVars, dram, quiet>>

(* exec, second part: the pending command, and the delays of the packets.  *)
OneLess(q) == [i \in DOMAIN q |-> [q[i] EXCEPT !.delay = Less1(@)]]

Exec ==
    /\ At("send") /\ Then("fresh")
    /\ scan > Len(packet)
    /\ LET pend == Less1(command_pend)
           out  == [type |-> command.type, rank |-> command.rank, delay |-> tCMD_PHY]
       IN  IF exec_valid
           THEN /\ command_pend' = pend
                /\ arb_enable' = (pend <= 1)
                /\ exec_valid' = (pend # 0)
                /\ packet' = OneLess(IF pend = 0 THEN Append(packet, out) ELSE packet)
           ELSE /\ arb_enable' = TRUE
                /\ packet' = OneLess(packet)
                /\ UNCHANGED <<command_pend, exec_valid>>
    /\ UNCHANGED <<parity, pdeWait, RankState, PhyLpState, rank_has_cmd, fast_wakeup, wakeup,
                   lpRank, CmdQueue, command, queVars, bankVars, dramVars>>
-----------------------------------------------------------------------------
(***************************************************************************)
(* state_fresh: a precharge or refresh of a bank comes to its end.         *)
(***************************************************************************)
Over(r) == bankStates[r].cnt <= 1 /\ bankStates[r].state \in {"Precharging", "Refreshing"}

StateFresh ==
    /\ At("fresh") /\ Then("sched")
    /\ bankStates' = [r \in Ranks |-> [bankStates[r] EXCEPT
                        !.cnt = Less1(@), !.state = IF Over(r) THEN "Idle" ELSE @]]
    /\ refreshALL' = [r \in Ranks |->
                        IF Over(r) /\ bankStates[r].state = "Refreshing"
                        THEN [refreshWaiting |-> FALSE, refreshing |-> FALSE]
                        ELSE refreshALL[r]]
    /\ UNCHANGED <<parity, pdeWait, lpVars, ctlVars, queVars, refresh_cnt, dramVars>>
-----------------------------------------------------------------------------
(***************************************************************************)
(* scheduler: choose one command, generate_packet: load it into the        *)
(* command register, fresh_timing: the timers it starts.  Which of the     *)
(* ready commands has the highest priority is left open, except that a     *)
(* transaction that has begun goes on first.  The others are dropped.      *)
(***************************************************************************)
Begun == {c \in CmdQueue : c.task # NoTask /\ trans[c.task].issue_size > 0}
Candidates == IF Begun = {} THEN CmdQueue ELSE Begun

(* Seeded mistake: a precharge of one bank holds the bus one cycle more.   *)
mut_Occupies(c) == CASE c.type \in {"ACT1", "ACT2", "REF"} -> {cmd_cycle}
                     [] c.type = "PRE_AB" -> {pre_cycle}
                     [] c.type = "PRE_PB" -> {rw_cycle + 1}
                     [] c.type = "RW"    -> {rw_cycle, 2 * rw_cycle}

Occupies(c) == CASE c.type \in {"ACT1", "ACT2", "REF"} -> {cmd_cycle}
                 [] c.type = "PRE_AB" -> {pre_cycle}
                 [] c.type = "PRE_PB" -> {rw_cycle}
                 [] c.type = "RW"    -> {rw_cycle, 2 * rw_cycle}   \* WCK on or off

NextPde(c) == CASE c.type = "ACT1" -> 0
                [] c.type \in {"ACT2", "REF"} -> tCMDPD + cmd_cycle - 1
                [] c.type = "RW" -> tRDPD + rw_cycle - 1
                [] c.type = "PRE_AB" -> tRPPD + cmd_cycle - 1
                [] OTHER -> tRPPD

NextBank(b, c) ==
    CASE c.type = "ACT1" -> [b EXCEPT !.act_executing = TRUE]
      [] c.type = "ACT2" -> [b EXCEPT !.state = "RowActive", !.cnt = tRAS,
                                      !.act_executing = FALSE, !.delay = 0, !.delay_en = FALSE]
      [] c.type = "RW"  -> [b EXCEPT !.cnt = Larger(@, tRTP), !.delay = 0, !.delay_en = TRUE]
      [] c.type = "REF"  -> [b EXCEPT !.state = "Refreshing", !.cnt = tRFC + cmd_cycle - 1,
                                      !.delay = 0, !.delay_en = FALSE]
      [] OTHER           -> [b EXCEPT !.state = "Precharging", !.cnt = tRP + cmd_cycle - 1,
                                      !.delay = 0, !.delay_en = FALSE]

NextTrans(t, c) ==
    CASE c.type = "ACT1" /\ t = c.task -> [trans[t] EXCEPT !.act = TRUE]
      [] c.type = "ACT2" /\ t = c.task -> [trans[t] EXCEPT !.act = FALSE]
      [] c.type = "RW" /\ t = c.task  -> [trans[t] EXCEPT !.issue_size = @ + 1]
      [] c.type \in {"PRE_PB", "PRE_AB"} /\ On(t, c.rank) -> [trans[t] EXCEPT !.act = FALSE]
      [] OTHER -> trans[t]

Schedule(c) ==
    /\ At("sched") /\ Then("que")
    /\ c \in Candidates
    /\ CmdQueue' = {} /\ command' = c /\ exec_valid' = TRUE
    /\ command_pend' \in Occupies(c) /\ arb_enable' = (command_pend' = 1)
    /\ pdeWait' = [pdeWait EXCEPT ![c.rank] = Larger(@, NextPde(c))]
    /\ bankStates' = [bankStates EXCEPT ![c.rank] = NextBank(@, c)]
    /\ trans' = [t \in Tasks |-> NextTrans(t, c)]
    /\ refresh_cnt' = [refresh_cnt EXCEPT ![c.rank] = IF c.type = "REF" THEN Less1(@) ELSE @]
    /\ refreshALL' = [refreshALL EXCEPT ![c.rank].refreshing = @ \/ c.type = "REF"]
    /\ UNCHANGED <<parity, lpVars, rank_cnt, deqCmdWakeupLp, dramVars>>

NothingToSchedule ==
    /\ At("sched") /\ Then("que")
    /\ CmdQueue = {}
    /\ UNCHANGED <<parity, pdeWait, lpVars, ctlVars, queVars, bankVars, dramVars>>
-----------------------------------------------------------------------------
(***************************************************************************)
(* update_que: one transaction whose column commands are all issued leaves *)
(* the queue.                                                              *)
(***************************************************************************)
Finished == {t \in Tasks : Queued(t) /\ trans[t].issue_size >= BURSTS}

Retire(t) ==
    /\ At("que") /\ Then("lc")
    /\ t \in Finished
    /\ trans' = [trans EXCEPT ![t] = Off]
    /\ rank_cnt' = [rank_cnt EXCEPT ![trans[t].rank] = @ - 1]
    /\ UNCHANGED <<parity, pdeWait, lpVars, ctlVars, deqCmdWakeupLp, bankVars, dramVars>>

NothingToRetire ==
    /\ At("que") /\ Then("lc")
    /\ Finished = {}
    /\ UNCHANGED <<parity, pdeWait, lpVars, ctlVars, queVars, bankVars, dramVars>>
-----------------------------------------------------------------------------
(***************************************************************************)
(* que_pipeline: every transaction that has waited tCMD2SCH cycles goes    *)
(* through need_issue, which determines its next command, and lc, which    *)
(* puts the command into CmdQueue if nothing holds it back.                *)
(***************************************************************************)
nextCmd(t) ==
    LET b == bankStates[trans[t].rank]
    IN  CASE b.state = "RowActive" -> "RW"
          [] b.state # "RowActive" /\ trans[t].act -> "ACT2"
          [] b.state # "RowActive" /\ ~trans[t].act /\ b.act_executing -> "INVALID"
          [] OTHER -> "ACT1"

BankReady(r) == bankStates[r].state # "RowActive" /\ bankStates[r].cnt <= cmd_cycle

timing_met(r, cmd) == CASE cmd = "RW"  -> TRUE
                        [] cmd = "ACT2" -> BankReady(r)
                        [] cmd = "ACT1" -> bankStates[r].cnt <= cmd_cycle + ACT_LEAD
                        [] OTHER        -> FALSE

lc(t) ==
    LET r == trans[t].rank
    IN  /\ lp_state(r) = "IDLE"
        /\ \/ ~refreshALL[r].refreshWaiting /\ ~refreshALL[r].refreshing
           \/ trans[t].issue_size > 0
           \/ trans[t].act
        /\ trans[t].issue_size < BURSTS
        /\ timing_met(r, nextCmd(t))

Eligible == {t \in Tasks : Queued(t) /\ trans[t].age >= tCMD2SCH /\ lc(t)}

QuePipeline ==
    /\ At("lc") /\ Then("ptp")
    /\ CmdQueue' = IF arb_enable /\ even_cycle
                   THEN CmdQueue \cup {[type |-> nextCmd(t), rank |-> trans[t].rank, task |-> t] :
                                       t \in Eligible}
                   ELSE CmdQueue
    /\ UNCHANGED <<parity, pdeWait, lpVars, exec_valid, command, command_pend, arb_enable,
                   queVars, bankVars, dramVars>>
-----------------------------------------------------------------------------
(***************************************************************************)
(* page_timeout_policy: a row that nobody has accessed for a while is to   *)
(* be closed; if its rank is in a low-power state it is woken up first.    *)
(***************************************************************************)
Unused(r)   == /\ \A t \in Tasks : ~On(t, r)
               /\ bankStates[r].state = "RowActive"
TimedOut(r) == Unused(r) /\ bankStates[r].delay >= PAGE_TIMEOUT

Close(r)    == TimedOut(r) /\ bankStates[r].cnt <= 1 /\ even_cycle /\ arb_enable

(* Seeded mistake: only a rank that sleeps is woken up.                    *)
mut_Woken(W) == [r \in Ranks |-> wakeup[r] \/ (r \in W /\ lp_state(r) # "IDLE")]

Woken(W) == [r \in Ranks |-> wakeup[r] \/ r \in W]

PageTimeoutPolicy ==
    /\ At("ptp") /\ Then("ref")
    /\ wakeup' = Woken({r \in Ranks : Close(r)})
    /\ CmdQueue' = CmdQueue \cup {[type |-> "PRE_PB", rank |-> r, task |-> NoTask] :
                                  r \in {s \in Ranks : Close(s) /\ lp_state(s) = "IDLE"}}
    /\ bankStates' = [r \in Ranks |-> [bankStates[r] EXCEPT !.delay =
                          IF Unused(r) /\ ~TimedOut(r) /\ bankStates[r].delay_en
                          THEN @ + 1 ELSE @]]
    /\ UNCHANGED <<parity, pdeWait, RankState, PhyLpState, rank_has_cmd, fast_wakeup, packet,
                   lpRank, exec_valid, command, command_pend, arb_enable, queVars,
                   refresh_cnt, refreshALL, dramVars>>
-----------------------------------------------------------------------------
(***************************************************************************)
(* refresh with all_bank_refresh.  Every tREFI a rank that does not        *)
(* refresh itself owes one more refresh (the ranks due; when is left       *)
(* open).  Ranks are visited in order, and each one that wants to precharge*)
(* or refresh replaces everything in CmdQueue.                             *)
(***************************************************************************)
Owed(r, due) == refresh_cnt[r] + (IF r \in due THEN 1 ELSE 0)

Visited(r, due) == lp_state(r) \notin SelfRefresh /\ Owed(r, due) > 0

(* Seeded mistake: a bank between ACT1 and ACT2 does not hold the refresh. *)
mut_Hold(r) == \E t \in Tasks : On(t, r) /\ trans[t].issue_size \in 1 .. BURSTS - 1

(* A transaction of the rank has begun, or some bank waits for its ACT2.   *)
Hold(r) == \/ \E t \in Tasks : On(t, r) /\ trans[t].issue_size \in 1 .. BURSTS - 1
           \/ \E s \in Ranks : bankStates[s].act_executing

(* Seeded mistake: the postponed refreshes force nothing.                  *)
mut_Forced(r, due) == refreshALL[r].refreshWaiting

Forced(r, due)  == refreshALL[r].refreshWaiting \/ Owed(r, due) >= ABR_PSTPND_LEVEL
IdleRank(r, due) == Owed(r, due) < ABR_PSTPND_LEVEL /\ rank_cnt[r] = 0

(* Seeded mistake: the refresh does not ask whether a command may be chosen. *)
mut_Wants(r, due) == /\ Visited(r, due) /\ ~Hold(r) /\ Forced(r, due)
                     /\ ~refreshALL[r].refreshing

Wants(r, due) == /\ Visited(r, due) /\ ~Hold(r) /\ Forced(r, due)
                 /\ ~refreshALL[r].refreshing /\ arb_enable
WantsPre(r, due) == Wants(r, due) /\ bankStates[r].state = "RowActive" /\ bankStates[r].cnt <= 1
WantsRef(r, due) == Wants(r, due) /\ BankReady(r)

RefreshWith(due) ==
    LET wants == {r \in Ranks : WantsPre(r, due) \/ WantsRef(r, due)}
        sends == {r \in wants : lp_state(r) = "IDLE" /\ even_cycle}
    IN  /\ refresh_cnt' = [r \in Ranks |-> Owed(r, due)]
        /\ refreshALL' = [r \in Ranks |-> [refreshALL[r] EXCEPT !.refreshWaiting =
                \/ @
                \/ Visited(r, due) /\ Forced(r, due)
                \/ Visited(r, due) /\ ~Hold(r) /\ IdleRank(r, due)]]
        /\ wakeup' = Woken(wants)
        /\ \/ sends = {} /\ UNCHANGED CmdQueue
           \/ \E r \in sends : /\ \A s \in sends : s <= r
                              /\ CmdQueue' = {[type |-> IF WantsPre(r, due) THEN "PRE_AB" ELSE "REF",
                                               rank |-> r, task |-> NoTask]}

CanBeDue == {r \in Ranks : lp_state(r) \notin SelfRefresh /\ refresh_cnt[r] < MaxPostponed}

Refresh ==
    /\ At("ref") /\ Then("data")
    /\ IF AREF_EN THEN \E due \in SUBSET CanBeDue : RefreshWith(due)
       ELSE UNCHANGED <<refresh_cnt, refreshALL, wakeup, CmdQueue>>
    /\ UNCHANGED <<parity, pdeWait, RankState, PhyLpState, rank_has_cmd, fast_wakeup, packet,
                   lpRank, exec_valid, command, command_pend, arb_enable, queVars,
                   bankStates, dramVars>>
-----------------------------------------------------------------------------
(***************************************************************************)
(* update_deque_fifo, the last handler, and the step of the clock: all     *)
(* times that the code compares with now() come one cycle closer.          *)
(***************************************************************************)
EndCycle ==
    /\ At("data") /\ Then("inform")
    /\ deqCmdWakeupLp' = [r \in Ranks |-> [i \in 1 .. tCMD_WAKEUP |->
            IF i = tCMD_WAKEUP THEN rank_cnt[r] ELSE deqCmdWakeupLp[r][i + 1]]]
    /\ parity' = IF EVERY_OTHER THEN 1 - parity ELSE parity
    /\ pdeWait' = [r \in Ranks |-> Less1(pdeWait[r])]
    /\ quiet' = [r \in Ranks |-> Less1(quiet[r])]
    /\ trans' = [t \in Tasks |-> [trans[t] EXCEPT !.age =
                    IF trans[t].on /\ @ < AgeMax THEN @ + 1 ELSE @]]
    /\ UNCHANGED <<lpVars, ctlVars, rank_cnt, bankVars, scan, dram>>
-----------------------------------------------------------------------------
Next ==
    \/ Inform
    \/ \E t \in Tasks, r \in Ranks : addTransaction(t, r)
    \/ NoTransaction
    \/ UpdateLpBegin
    \/ \E r \in Ranks : UpdateLpRank(r)
    \/ UpdateLpEnd
    \/ SendPacket
    \/ SkipPacket
    \/ Exec
    \/ StateFresh
    \/ \E c \in CmdQueue : Schedule(c)
    \/ NothingToSchedule
    \/ \E t \in Tasks : Retire(t)
    \/ NothingToRetire
    \/ QuePipeline
    \/ PageTimeoutPolicy
    \/ Refresh
    \/ EndCycle

Spec == Init /\ [][Next]_vars

(* The simulator calls update() in every cycle, and it always returns.     *)
FairSpec == Spec /\ WF_vars(Next)
-----------------------------------------------------------------------------
(* Every variable has its type.                                            *)
RankStateType == [Ranks -> [lp_state : LpStates, pd_cnt : Nat, asref_cnt : Nat, state_cnt : Nat]]
PhyType       == [phylp_state : PhyStates, lp_cnt : Nat]
BankType  == [state : {"Idle", "RowActive", "Precharging", "Refreshing"}, cnt : Nat,
              act_executing : BOOLEAN, delay : Nat, delay_en : BOOLEAN]
TransType == [on : BOOLEAN, rank : Ranks, age : 0 .. AgeMax, issue_size : Nat, act : BOOLEAN]
DramType  == [power : {"IDLE", "PD", "ASREF", "SRPD"}, open : BOOLEAN,
              last : CmdTypes \cup LpCommands \cup {"NONE"}]
PacketType == [type : CmdTypes \cup LpCommands, rank : Ranks, delay : Nat]
Phases == {"inform", "add", "lp", "rank", "send", "fresh", "sched", "que", "lc", "ptp", "ref",
           "data"}

ClockType == phase \in Phases /\ parity \in 0 .. 1 /\ pdeWait \in [Ranks -> Nat]

LowPowerType ==
    /\ RankState \in RankStateType /\ PhyLpState \in PhyType
    /\ rank_has_cmd \in [Ranks -> BOOLEAN] /\ fast_wakeup \in [Ranks -> BOOLEAN]
    /\ wakeup \in [Ranks -> BOOLEAN] /\ lpRank \in 0 .. NUM_RANKS

QueueType ==
    /\ trans \in [Tasks -> TransType] /\ rank_cnt \in [Ranks -> Int]
    /\ deqCmdWakeupLp \in [Ranks -> [1 .. tCMD_WAKEUP -> Int]]

RegisterType ==
    /\ CmdQueue \in SUBSET CmdSet /\ command \in CmdSet
    /\ exec_valid \in BOOLEAN /\ command_pend \in Nat /\ arb_enable \in BOOLEAN

BanksType ==
    /\ bankStates \in [Ranks -> BankType] /\ refresh_cnt \in [Ranks -> Nat]
    /\ refreshALL \in [Ranks -> [refreshWaiting : BOOLEAN, refreshing : BOOLEAN]]

BusType ==
    /\ packet \in Seq(PacketType) /\ scan \in Nat \ {0}
    /\ dram \in [Ranks -> DramType] /\ quiet \in [Ranks -> Nat]

TypeOK == ClockType /\ LowPowerType /\ QueueType /\ RegisterType /\ BanksType /\ BusType

(* A command that waits to be scheduled is for a rank that is in no        *)
(* low-power state, until the scheduler takes it: data_fresh asserts it    *)
(* at the end of the cycle that queued it, but the scheduler only runs in  *)
(* the next one, after update_lp_state.                                    *)
NoCmdInLpState == \A c \in CmdQueue : lp_state(c.rank) = "IDLE"

(* The scheduler never overwrites a command that still waits in the        *)
(* command register.  Nothing in scheduler() or generate_packet() tests    *)
(* this: it rests on arb_enable having kept CmdQueue empty.                *)
CommandNotLost == At("sched") /\ CmdQueue # {} => ~exec_valid

(* exec's assertion: at a rate of at most 6400, LPDDR6 commands leave in   *)
(* odd cycles only.                                                        *)
LeavesInOddCycle == At("send") /\ exec_valid /\ command_pend <= 1 => odd_cycle

(* Packets leave in order of their delays.  The loop in exec removes the   *)
(* head and takes the rank from it whatever packet it has found due.       *)
PacketSorted == \A i, j \in DOMAIN packet : i <= j => packet[i].delay <= packet[j].delay

(* The DRAM gets no command before tCSPD, tXP or tXSR have passed after    *)
(* the entry to or the exit from a low-power state.                        *)
QuietKept == At("send") /\ scan <= Len(packet) /\ Due => quiet[Head(packet).rank] = 0

(* The flag that holds back all transactions of a rank while it refreshes  *)
(* is up only while its banks do: state_fresh takes it down when the banks *)
(* leave Refreshing, and nobody else does.                                 *)
RefreshEnds == \A r \in Ranks : refreshALL[r].refreshing => bankStates[r].state = "Refreshing"

(* The PHY is out of its low-power states while a command of a bank waits  *)
(* to leave: update_lp_state wakes it together with the ranks, but nothing *)
(* waits for it.                                                           *)
PhyAwake == exec_valid => PhyLpState.phylp_state = "PHYLP_IDLE"

(* A rank that has waited for as long as the wake-up pipe takes stays      *)
(* awake while it has transactions.                                        *)
AwakeUntilServed ==
    [][\A t \in Tasks, r \in Ranks :
          On(t, r) /\ trans[t].age >= tCMD_WAKEUP /\ lp_state(r) = "IDLE"
              => RankState'[r].lp_state = "IDLE"]_vars

(* What the ranks see is what a DRAM accepts.                              *)
Dram == INSTANCE DramRank WITH power <- [r \in Ranks |-> dram[r].power],
                               open  <- [r \in Ranks |-> dram[r].open],
                               last  <- [r \in Ranks |-> dram[r].last]
DramLegal == Dram!Spec

(* A rank with transactions gets out of whatever low-power state it is in. *)
WakesUp == \A r \in Ranks : rank_cnt[r] > 0 ~> lp_state(r) = "IDLE"

(* A rank that has postponed too many refreshes refreshes.                 *)
RefreshHappens ==
    \A r \in Ranks : refresh_cnt[r] >= ABR_PSTPND_LEVEL
                         ~> refreshALL[r].refreshing \/ lp_state(r) \in SelfRefresh
=============================================================================
