---------------------------- MODULE RefreshBank ----------------------------
(***************************************************************************)
(* Per-bank refresh of one rank (refresh, per_bank_refresh and             *)
(* enh_per_bank_refresh of MemoryController.cpp), with the all-bank refresh*)
(* that steps in when too many refreshes are postponed.                    *)
(*                                                                         *)
(* Every tREFI the rank owes a refresh; a round of per-bank refreshes, each*)
(* of a pair of banks, or one all-bank refresh pays it.  A pair is chosen  *)
(* in one cycle and refreshed several cycles later, among commands for the *)
(* same banks that are chosen, started and half done meanwhile.            *)
(*                                                                         *)
(* One cycle of update() is the sequence of phases add, fresh, sched, que, *)
(* ref.  Times are counted down: a value of v stands for `next... - now()'.*)
(* The rank is awake, commands may be sent in every cycle and take one     *)
(* (CommandPath has the low-power states, even_cycle and command_pend);    *)
(* tFAW, the disturb refresh of GD2 and PBR_PARA_EN are left out.          *)
(***************************************************************************)
EXTENDS Integers, FiniteSets, FiniteSetsExt

CONSTANTS
    Configs,            \* configurations, chosen in Init
    Tasks,              \* places of the transaction queue
    NoTask,
    PAIRS,              \* pbr_bank_num: banks b and b + PAIRS are a pair
    SB_GROUPS,          \* pbr_sb_group_num, for enhanced per-bank refresh
    Wanted,             \* the <<bank, row>> that transactions ask for
    BURSTS,             \* column commands of a transaction
    tRP, tRAS, tRTP, tRRD, tAAD, tRFCPB, tRFCAB, tPBR2PBR, tPBR2ACT, SBR_GAP_CNT,
    ACT_LEAD,           \* how much earlier than ACT2 the first ACT may come
    tREFI,
    ABR_PSTPND_LEVEL,
    LIMIT               \* 8: postponed refreshes that stop the simulator

NUM_BANKS == 2 * PAIRS
Banks  == 0..(NUM_BANKS - 1)
Rows   == {w[2] : w \in Wanted}
Config == [enh : BOOLEAN, req : 0..1, weight : 0..4, level : Nat, frcst : Nat, idle : BOOLEAN]
    \* ENH_PBR_EN, SBR_REQ_MODE, SBR_WEIGHT_MODE, PBR_PSTPND_LEVEL, SBR_FRCST_NUM, SBR_IDLE_EN

ASSUME RefreshBankAssumption ==
    /\ Configs \subseteq Config /\ Configs # {}
    /\ PAIRS \in Nat \ {0} /\ SB_GROUPS \in Nat \ {0} /\ NoTask \notin Tasks
    /\ \A w \in Wanted : w[1] \in Banks
    /\ {BURSTS, tRP, tRAS, tRTP, tRRD, tAAD, tRFCPB, tRFCAB, tPBR2PBR, tPBR2ACT} \subseteq Nat \ {0}
    /\ {SBR_GAP_CNT, ACT_LEAD} \subseteq Nat
    /\ {tREFI, ABR_PSTPND_LEVEL, LIMIT} \subseteq Nat \ {0}

VARIABLES
    config, phase,
    trans,              \* the transaction in each place
    bankStates,         \* state, open row, countdowns of each bank
    refreshPerBank,     \* refreshWaiting, refreshWaitingPre, refreshing
    finish_refresh_pb,  \* banks refreshed in this round
    hold_refresh_pb,    \* banks whose refresh is not on its way
    send_pbr,           \* the banks of the pair chosen, or none
    issue_state,        \* banks with a transaction half done
    CmdQueue,
    refresh_cnt,        \* postponed refreshes
    refreshALL,         \* refreshWaiting, refreshing of the all-bank refresh
    force_pbr_refresh, refresh_pbr_has_finish, forceRankBankIndex,
    sbr_gap,            \* until the next pair may be chosen
    until_refi,         \* cycles until the next refresh is due
    lag                 \* history: refreshes due and not done, of each bank

queVars == <<trans, issue_state>>
pbrVars == <<refreshPerBank, finish_refresh_pb, hold_refresh_pb, send_pbr,
             force_pbr_refresh, refresh_pbr_has_finish, forceRankBankIndex, sbr_gap>>
rankVars == <<refresh_cnt, refreshALL, until_refi, lag>>
vars == <<config, phase, bankStates, CmdQueue, queVars, pbrVars, rankVars>>

Empty == [on |-> FALSE, bank |-> 0, row |-> 0, act |-> FALSE, issue |-> 0]

Init ==
    /\ config \in Configs /\ phase = "add"
    /\ trans = [t \in Tasks |-> Empty]
    /\ bankStates = [b \in Banks |-> [state |-> "Idle", row |-> 0, act |-> FALSE, cnt |-> 0,
                                      act1 |-> 0, act2 |-> 0, ref |-> 0, pre |-> 0]]
    /\ refreshPerBank = [b \in Banks |-> [waiting |-> FALSE, pre |-> FALSE, refreshing |-> FALSE]]
    /\ finish_refresh_pb = {} /\ hold_refresh_pb = {} /\ send_pbr = {} /\ issue_state = {}
    /\ CmdQueue = {}
    /\ refresh_cnt = 0 /\ refreshALL = [waiting |-> FALSE, refreshing |-> FALSE]
    /\ force_pbr_refresh = FALSE /\ refresh_pbr_has_finish = FALSE /\ forceRankBankIndex = 0
    /\ sbr_gap = 0 /\ until_refi = tREFI
    /\ lag = [b \in Banks |-> 0]
-----------------------------------------------------------------------------
At(p)   == phase = p
Then(p) == phase' = p
Queued(b)  == {t \in Tasks : trans[t].on /\ trans[t].bank = b}
st(b)      == bankStates[b].state
later(v, d) == IF v > d THEN v ELSE d       \* max(now() + d, next...)
less(v)    == IF v = 0 THEN 0 ELSE v - 1
Pair(b)    == {b, (b + PAIRS) % NUM_BANKS}  \* the banks b, b + pbr_bank_num
First      == 0..(PAIRS - 1)

(* addTransaction; refresh_backlog_blocks_external refuses every request   *)
(* while LIMIT refreshes are postponed.                                    *)
Backlog == refresh_cnt >= LIMIT

AddTransaction(t, w) ==
    /\ At("add") /\ ~trans[t].on /\ ~Backlog
    /\ Then("fresh")
    /\ trans' = [trans EXCEPT ![t] = [Empty EXCEPT !.on = TRUE, !.bank = w[1], !.row = w[2]]]
    /\ UNCHANGED <<config, bankStates, CmdQueue, issue_state, pbrVars, rankVars>>

NoTransaction ==
    /\ At("add") /\ Then("fresh")
    /\ UNCHANGED <<config, bankStates, CmdQueue, queVars, pbrVars, rankVars>>

(***************************************************************************)
(* state_fresh: a precharge or a refresh is over.  The first bank whose    *)
(* per-bank refresh ends starts the gap to the next pair.                  *)
(***************************************************************************)
Ends(b) == bankStates[b].cnt = 1
Tick(k) == [k EXCEPT !.cnt = less(@), !.act1 = less(@), !.act2 = less(@), !.ref = less(@),
                     !.pre = less(@), !.state = IF k.cnt = 1 THEN "Idle" ELSE @]
RefreshEnds == {b \in Banks : Ends(b) /\ st(b) = "Refreshing"}

StateFresh ==
    /\ At("fresh") /\ Then("sched")
    /\ bankStates' = [b \in Banks |-> Tick(bankStates[b])]
    /\ refreshPerBank' = [b \in Banks |->
          IF b \in RefreshEnds THEN [waiting |-> FALSE, pre |-> FALSE, refreshing |-> FALSE]
          ELSE refreshPerBank[b]]
    /\ hold_refresh_pb' = hold_refresh_pb \ RefreshEnds
    /\ refreshALL' = IF RefreshEnds # {} /\ refreshALL.refreshing
                     THEN [waiting |-> FALSE, refreshing |-> FALSE] ELSE refreshALL
    /\ sbr_gap' = IF RefreshEnds # {} /\ ~refreshALL.refreshing THEN SBR_GAP_CNT ELSE less(sbr_gap)
    /\ UNCHANGED <<config, CmdQueue, queVars, finish_refresh_pb, send_pbr, force_pbr_refresh,
                   refresh_pbr_has_finish, forceRankBankIndex, refresh_cnt, until_refi, lag>>
-----------------------------------------------------------------------------
(***************************************************************************)
(* scheduler and generate_packet: one command of CmdQueue, the others are  *)
(* dropped.  A transaction half done goes first, then the priorities; among*)
(* equals the choice is left open.  fresh_timing starts the countdowns.    *)
(***************************************************************************)
priority(c) == CASE c.type \in {"REF", "PRE_AB"} -> 0
                 [] c.type = "PRE" -> IF c.source = 2 THEN 400 ELSE 0
                 [] c.type = "REFPB" -> 400
                 [] c.type = "ACT1" -> 300
                 [] c.type = "ACT2" -> 500
                 [] c.type = "RW" -> 600
Begun == {c \in CmdQueue : c.task # NoTask /\ trans[c.task].issue > 0}
Candidates == IF Begun # {} THEN Begun
              ELSE {c \in CmdQueue : \A d \in CmdQueue : priority(d) <= priority(c)}

Take(c) == c \in Candidates /\ At("sched") /\ Then("que") /\ CmdQueue' = {}

Precharged(k) == [k EXCEPT !.state = "Precharging", !.cnt = tRP, !.row = 0, !.ref = later(@, tRP),
                           !.act1 = later(@, tRP - ACT_LEAD), !.act2 = later(@, tRP)]
Refreshed(k, d) == [k EXCEPT !.state = "Refreshing", !.cnt = d, !.ref = later(@, d),
                             !.act1 = later(@, d - ACT_LEAD), !.act2 = later(@, d)]

Activate1(c) ==
    /\ c.type = "ACT1" /\ Take(c)
    /\ trans' = [trans EXCEPT ![c.task].act = TRUE]
    /\ bankStates' = [b \in Banks |->
          IF b = c.bank THEN [bankStates[b] EXCEPT !.act = TRUE, !.act1 = later(@, tAAD)]
          ELSE [bankStates[b] EXCEPT !.act1 = later(@, tAAD), !.act2 = later(@, tAAD)]]
    /\ UNCHANGED <<config, issue_state, pbrVars, rankVars>>

Activate2(c) ==
    /\ c.type = "ACT2" /\ Take(c)
    /\ trans' = [trans EXCEPT ![c.task].act = FALSE]
    /\ bankStates' = [b \in Banks |->
          IF b = c.bank
          THEN [bankStates[b] EXCEPT !.state = "RowActive", !.row = trans[c.task].row,
                   !.act = FALSE, !.pre = later(@, tRAS),
                   !.act1 = later(@, tRAS + tRP - ACT_LEAD), !.act2 = later(@, tRAS + tRP)]
          ELSE [bankStates[b] EXCEPT !.act1 = later(@, tRRD - ACT_LEAD),
                   !.act2 = later(@, tRRD), !.ref = later(@, tRRD)]]
    /\ UNCHANGED <<config, issue_state, pbrVars, rankVars>>

Column(c) ==
    /\ c.type = "RW" /\ Take(c)
    /\ trans' = [trans EXCEPT ![c.task].issue = @ + 1]
    /\ bankStates' = [bankStates EXCEPT ![c.bank].pre = later(@, tRTP)]
    /\ UNCHANGED <<config, issue_state, pbrVars, rankVars>>

(* A precharge ends what any transaction had begun to activate there.      *)
Closed(S) == [t \in Tasks |-> IF trans[t].on /\ trans[t].bank \in S
                              THEN [trans[t] EXCEPT !.act = FALSE] ELSE trans[t]]

Precharge(c) ==
    /\ c.type = "PRE" /\ Take(c)
    /\ trans' = Closed({c.bank})
    /\ bankStates' = [bankStates EXCEPT ![c.bank] = Precharged(@)]
    /\ refreshPerBank' = [refreshPerBank EXCEPT ![c.bank].pre = c.source = 2]
    /\ UNCHANGED <<config, issue_state, finish_refresh_pb, hold_refresh_pb, send_pbr,
                   force_pbr_refresh, refresh_pbr_has_finish, forceRankBankIndex, sbr_gap, rankVars>>

PrechargeAll(c) ==
    /\ c.type = "PRE_AB" /\ Take(c)
    /\ trans' = Closed(Banks)
    /\ bankStates' = [b \in Banks |-> Precharged(bankStates[b])]
    /\ UNCHANGED <<config, issue_state, pbrVars, rankVars>>

(* The history counts down to -1: a bank may be refreshed more than it owes.*)
Paid(S) == [b \in Banks |-> IF b \in S /\ lag[b] >= 0 THEN lag[b] - 1 ELSE lag[b]]

Finished(p) == p

RefreshPair(c) ==
    /\ c.type = "REFPB" /\ Take(c)
    /\ bankStates' = [b \in Banks |->
          IF b \in c.pair THEN Refreshed(bankStates[b], tRFCPB)
          ELSE [bankStates[b] EXCEPT !.ref = later(@, tPBR2PBR), !.act2 = later(@, tPBR2ACT),
                                     !.act1 = later(@, tPBR2ACT - ACT_LEAD)]]
    /\ refreshPerBank' = [b \in Banks |->
          IF b \in c.pair THEN [waiting |-> FALSE, pre |-> FALSE, refreshing |-> TRUE]
          ELSE refreshPerBank[b]]
    /\ finish_refresh_pb' = finish_refresh_pb \cup Finished(c.pair)
    /\ lag' = Paid(c.pair)
    /\ UNCHANGED <<config, queVars, hold_refresh_pb, send_pbr, force_pbr_refresh,
                   refresh_pbr_has_finish, forceRankBankIndex, sbr_gap, refresh_cnt,
                   refreshALL, until_refi>>

RefreshAll(c) ==
    /\ c.type = "REF" /\ Take(c)
    /\ bankStates' = [b \in Banks |-> Refreshed(bankStates[b], tRFCAB)]
    /\ refreshALL' = [refreshALL EXCEPT !.refreshing = TRUE]
    /\ finish_refresh_pb' = {}
    /\ refresh_cnt' = refresh_cnt - 1
    /\ lag' = Paid(Banks)
    /\ UNCHANGED <<config, queVars, refreshPerBank, hold_refresh_pb, send_pbr, force_pbr_refresh,
                   refresh_pbr_has_finish, forceRankBankIndex, sbr_gap, until_refi>>

NothingToSchedule ==
    /\ At("sched") /\ Then("que") /\ CmdQueue = {}
    /\ UNCHANGED <<config, CmdQueue, bankStates, queVars, pbrVars, rankVars>>
-----------------------------------------------------------------------------
(***************************************************************************)
(* update_que drops a transaction that is done; que_pipeline marks the     *)
(* banks with one half done and takes the others through need_issue and lc.*)
(* A waiting or refreshing bank takes no new transaction, the bank that is *)
(* to be refreshed last is kept free once refreshes are forced, and nobody *)
(* precharges while the precharge for a refresh is outstanding.            *)
(***************************************************************************)
Done(t) == trans[t].on /\ trans[t].issue = BURSTS
Busy    == {t \in Tasks : trans[t].on /\ trans[t].issue < BURSTS}
HalfDone(b) == \E t \in Busy : trans[t].bank = b /\ trans[t].issue > 0
Hit(t)  == st(trans[t].bank) = "RowActive" /\ trans[t].row = bankStates[trans[t].bank].row
hold_precharge(b) == \E t \in Busy : trans[t].bank = b /\ Hit(t)

need_issue(t) ==
    LET b == trans[t].bank
    IN  IF st(b) = "RowActive"
        THEN IF Hit(t) THEN "RW"
             ELSE IF ~hold_precharge(b) \/ trans[t].issue > 0 THEN "PRE" ELSE "INVALID"
        ELSE IF trans[t].act THEN "ACT2"
             ELSE IF bankStates[b].act THEN "INVALID" ELSE "ACT1"

timing_met(b, cmd) == CASE cmd = "RW" -> TRUE
                        [] cmd = "PRE" -> bankStates[b].pre <= 1
                        [] cmd = "ACT1" -> bankStates[b].act1 <= 1
                        [] cmd = "ACT2" -> bankStates[b].act2 <= 1
                        [] OTHER -> FALSE

ForcedBank(b) == /\ force_pbr_refresh /\ config.req = 1
                 /\ b \in {forceRankBankIndex, forceRankBankIndex + PAIRS}
HeldBack(t) ==
    LET b == trans[t].bank
    IN  /\ trans[t].issue = 0
        /\ \/ ForcedBank(b)
           \/ /\ ~trans[t].act
              /\ \/ refreshPerBank[b].waiting \/ refreshPerBank[b].refreshing
                 \/ refreshALL.waiting \/ refreshALL.refreshing
PrechargePending == \E b \in Banks : refreshPerBank[b].waiting /\ ~refreshPerBank[b].pre

lc(t) == /\ ~HeldBack(t)
         /\ need_issue(t) = "PRE" => ~PrechargePending
         /\ timing_met(trans[t].bank, need_issue(t))

Cmd(type, b, t, source, pair) == [type |-> type, bank |-> b, task |-> t, source |-> source, pair |-> pair]

(* page_timeout_policy closes a row nobody asks for; when is left open.    *)
Closable == {b \in Banks : st(b) = "RowActive" /\ bankStates[b].pre <= 1
                           /\ \A t \in Busy : trans[t].bank # b}

QuePipeline ==
    /\ At("que") /\ Then("ref")
    /\ trans' = [t \in Tasks |-> IF Done(t) THEN Empty ELSE trans[t]]
    /\ issue_state' = {b \in Banks : HalfDone(b)}
    /\ \E S \in SUBSET Closable :
          CmdQueue' = {Cmd(need_issue(t), trans[t].bank, t, 0, {}) : t \in {u \in Busy : lc(u)}}
                      \cup {Cmd("PRE", b, NoTask, 1, {}) : b \in S}
    /\ UNCHANGED <<config, bankStates, pbrVars, rankVars>>
-----------------------------------------------------------------------------
(***************************************************************************)
(* refresh: a refresh is due every tREFI, and a round that is finished pays*)
(* for one.                                                                *)
(***************************************************************************)
Due == until_refi = 1
Postponed == refresh_cnt + (IF Due THEN 1 ELSE 0) - (IF refresh_pbr_has_finish THEN 1 ELSE 0)

act2_left == \E b \in Banks : bankStates[b].act
AnyOpen   == \E b \in Banks : st(b) = "RowActive"

(***************************************************************************)
(* all_bank_refresh: at ABR_PSTPND_LEVEL, or when the queue is empty, all  *)
(* banks are precharged and refreshed together.                            *)
(***************************************************************************)
(* Seeded mistake: postponed refreshes do not call for the whole rank.     *)
mut_AllForced == refreshALL.waiting

AllForced == refreshALL.waiting \/ Postponed >= ABR_PSTPND_LEVEL
AllHeld   == (\E b \in Banks : HalfDone(b)) \/ act2_left
AllWants  == Postponed > 0 /\ AllForced /\ ~AllHeld /\ ~refreshALL.refreshing
SendPreAll == AllWants /\ AnyOpen /\ \A b \in Banks : bankStates[b].pre <= 1
SendRef    == AllWants /\ ~AnyOpen /\ \A b \in Banks : bankStates[b].ref <= 1
AllWaiting == \/ refreshALL.waiting
              \/ Postponed > 0 /\ AllForced
              \/ /\ Postponed \in 1..(ABR_PSTPND_LEVEL - 1) /\ ~AllHeld /\ ~config.idle
                 /\ Busy = {}
                 /\ \A b \in Banks : ~refreshPerBank[b].waiting /\ ~refreshPerBank[b].refreshing
AllCommand == {Cmd(IF SendRef THEN "REF" ELSE "PRE_AB", 0, NoTask, 2, {})}
-----------------------------------------------------------------------------
(***************************************************************************)
(* per_bank_refresh, plain or enhanced.  The next pair is the one of least *)
(* weight among those not refreshed in this round; pairs with transactions *)
(* are passed over while refreshes may still be postponed.  A tie, and in  *)
(* enhanced mode the order of the groups, is left open.                    *)
(***************************************************************************)
Heads == IF config.enh THEN Banks ELSE First        \* the banks that the loops visit
Pairs == IF config.enh THEN {p \in kSubset(2, Banks) :
                                \A a, b \in p : a % SB_GROUPS = b % SB_GROUPS}
         ELSE {Pair(b) : b \in First}
Mark(test) == IF test THEN 1 ELSE 0
Weight(p) ==
    LET open == Mark(\E b \in p : st(b) = "RowActive")
        cmd  == Mark(\E b \in p : Queued(b) # {})
    IN  CASE config.weight = 0 -> open
          [] config.weight = 1 -> cmd
          [] config.weight = 2 -> open + cmd
          [] config.weight = 3 -> open + 2 * cmd
          [] config.weight = 4 -> Cardinality({t \in Tasks : trans[t].on /\ trans[t].bank \in p})
PassedOver(p) == Postponed < config.level /\ \E b \in p : Queued(b) # {}
Choosable == {p \in Pairs : p \cap finish_refresh_pb = {} /\ ~PassedOver(p)}
SameGroup(p, q) == \E a \in p, b \in q : a % SB_GROUPS = b % SB_GROUPS
Best == {p \in Choosable : \A q \in Choosable :
            (config.enh => SameGroup(p, q)) => Weight(p) <= Weight(q)}

(* Seeded mistake: a pair that waits does not keep its turn.               *)
mut_have_bank_refresh == \E b \in Heads : refreshPerBank[b].refreshing

have_bank_refresh == \E b \in Heads : refreshPerBank[b].waiting \/ refreshPerBank[b].refreshing
refreshing_now    == \E b \in Heads : refreshPerBank[b].refreshing
Chosen == IF have_bank_refresh THEN {send_pbr} ELSE IF Best = {} THEN {{}} ELSE Best

(* Seeded mistake: a round is over when one bank is left.                  *)
mut_RoundDone == Cardinality(Heads \ finish_refresh_pb) <= 1

RoundDone == Heads \subseteq finish_refresh_pb
FinishedNow == IF RoundDone THEN {} ELSE finish_refresh_pb
refresh_cnt_pb == Cardinality(finish_refresh_pb \cap Heads)
Enough == refresh_cnt_pb >= (IF config.enh THEN 2 ELSE 1) * config.frcst
ForceNow == /\ ~RoundDone
            /\ \/ force_pbr_refresh /\ ~SendRef
               \/ config.req = 0 \/ Enough
HoldNow == hold_refresh_pb \cup (Heads \ FinishedNow)

(* May the pair be refreshed at once?  Without force only the first bank's *)
(* time is looked at in plain mode.                                        *)
(* Seeded mistake: an open row does not keep the refresh back.             *)
mut_Quiet(p) == \A b \in p : st(b) \in {"Idle", "RowActive"} /\ b \notin issue_state

Quiet(p) == \A b \in p : st(b) = "Idle" /\ b \notin issue_state
InTime(p) == \A b \in p : bankStates[b].ref <= 1
FirstInTime(p) == IF config.enh THEN InTime(p) ELSE \A b \in p \cap First : bankStates[b].ref <= 1

(* send_pb_precharge: a forced refresh claims its two banks, precharges the*)
(* open ones one after the other, and refreshes them.                      *)
Claim(k, b) == IF k.waiting THEN [k EXCEPT !.pre = @ /\ st(b) # "RowActive",
                                           !.refreshing = @ /\ st(b) # "RowActive"]
               ELSE [waiting |-> TRUE, refreshing |-> FALSE,
                     pre |-> ~config.enh /\ st(b) # "RowActive"]
Open(p) == {b \in p : st(b) = "RowActive"}
CanClose(b) == bankStates[b].pre <= 1 /\ b \notin issue_state
ToClose(p) == IF config.enh THEN {b \in Open(p) : CanClose(b)}
              ELSE {b \in Open(p) : CanClose(b) /\ \A a \in Open(p) : b <= a}

RefPb(p) == {Cmd("REFPB", Min(p), NoTask, 2, p)}

Forced(p) ==
    IF ForceNow /\ p # {} /\ p \cap FinishedNow = {} /\ ~refreshing_now
    THEN /\ refreshPerBank' = [b \in Banks |-> IF b \in p THEN Claim(refreshPerBank[b], b)
                                               ELSE refreshPerBank[b]]
         /\ IF Quiet(p) /\ InTime(p)
            THEN /\ CmdQueue' = CmdQueue \cup RefPb(p)
                 /\ hold_refresh_pb' = HoldNow \ p
            ELSE IF ToClose(p) # {}
            THEN LET b == Min(ToClose(p))
                 IN  /\ CmdQueue' = CmdQueue \cup {Cmd("PRE", b, NoTask, 2, {})}
                     /\ hold_refresh_pb' = HoldNow \cup {b}
            ELSE UNCHANGED CmdQueue /\ hold_refresh_pb' = HoldNow
    ELSE UNCHANGED <<refreshPerBank, CmdQueue>> /\ hold_refresh_pb' = HoldNow

(* send_pb_refresh: while nothing is forced, a pair that happens to be idle.*)
Offered(p) ==
    /\ UNCHANGED refreshPerBank
    /\ IF ~RoundDone /\ p # {} /\ Min(p) \in HoldNow /\ Quiet(p) /\ FirstInTime(p)
       THEN CmdQueue' = CmdQueue \cup RefPb(p) /\ hold_refresh_pb' = HoldNow \ p
       ELSE UNCHANGED CmdQueue /\ hold_refresh_pb' = HoldNow

Skipped == \/ Postponed = 0 \/ AllWaiting \/ sbr_gap > 0
           \/ ~config.enh /\ act2_left

PerBankRefresh(p) ==
    /\ send_pbr' = p
    /\ forceRankBankIndex' = IF RoundDone THEN forceRankBankIndex ELSE Max(Heads \ finish_refresh_pb)
    /\ refresh_pbr_has_finish' = RoundDone
    /\ force_pbr_refresh' = ForceNow
    /\ finish_refresh_pb' = FinishedNow
    /\ IF ForceNow THEN Forced(p) ELSE Offered(p)

NoPerBankRefresh ==
    /\ refresh_pbr_has_finish' = FALSE
    /\ force_pbr_refresh' = (force_pbr_refresh /\ ~SendRef)
    /\ CmdQueue' = IF SendPreAll \/ SendRef THEN AllCommand ELSE CmdQueue
    /\ UNCHANGED <<refreshPerBank, finish_refresh_pb, hold_refresh_pb, send_pbr, forceRankBankIndex>>

Refresh ==
    /\ At("ref") /\ Then("add")
    /\ refresh_cnt' = Postponed
    /\ until_refi' = IF Due THEN tREFI ELSE until_refi - 1
    /\ lag' = IF Due THEN [b \in Banks |-> lag[b] + 1] ELSE lag
    /\ refreshALL' = [refreshALL EXCEPT !.waiting = AllWaiting]
    /\ IF Skipped THEN NoPerBankRefresh ELSE \E p \in Chosen : PerBankRefresh(p)
    /\ UNCHANGED <<config, bankStates, queVars, sbr_gap>>
-----------------------------------------------------------------------------
Next ==
    \/ \E t \in Tasks, w \in Wanted : AddTransaction(t, w)
    \/ NoTransaction
    \/ StateFresh
    \/ \E c \in CmdQueue : \/ Activate1(c) \/ Activate2(c) \/ Column(c)
                          \/ Precharge(c) \/ PrechargeAll(c)
                          \/ RefreshPair(c) \/ RefreshAll(c)
    \/ NothingToSchedule
    \/ QuePipeline
    \/ Refresh

Spec == Init /\ [][Next]_vars
-----------------------------------------------------------------------------
(* Every variable has a value of its type; countdowns stay within the      *)
(* longest time that starts them (CmdQueue, lag: the invariants below).    *)
TypeOK ==
    /\ config \in Configs /\ phase \in {"add", "fresh", "sched", "que", "ref"}
    /\ \A t \in Tasks : /\ trans[t].bank \in Banks /\ trans[t].issue \in 0..BURSTS
                        /\ trans[t].act => trans[t].on
    /\ \A b \in Banks :
          /\ st(b) \in {"Idle", "RowActive", "Precharging", "Refreshing"}
          /\ bankStates[b].cnt > 0 <=> st(b) \in {"Precharging", "Refreshing"}
    /\ issue_state \subseteq Banks /\ finish_refresh_pb \subseteq Banks
    /\ hold_refresh_pb \subseteq Banks /\ send_pbr \subseteq Banks
    /\ until_refi \in 1..tREFI /\ sbr_gap \in 0..SBR_GAP_CNT /\ refresh_cnt \in Nat

(* At most one pair of the rank is waiting for its refresh or refreshing,  *)
(* whatever new transactions do to the weights meanwhile (the asserts of   *)
(* refresh, MemoryController.cpp:3514-3549).                               *)
Claimed == {b \in Banks : refreshPerBank[b].waiting \/ refreshPerBank[b].refreshing}
OnePair == Claimed = {} \/ Claimed \in Pairs

(* A round refreshes whole pairs: the banks finished are even in number    *)
(* (the assert of enh_per_bank_refresh, MemoryController.cpp:4757).        *)
PairsKept ==
    /\ Cardinality(finish_refresh_pb) % 2 = 0
    /\ ~config.enh => \A b \in finish_refresh_pb : Pair(b) \subseteq finish_refresh_pb

(* The pairs of a round: typed, one at a time, and refreshed whole.        *)
PairsSound == TypeOK /\ OnePair /\ PairsKept

(* No bank falls behind what the rank counts: a bank owes no more than the *)
(* postponed refreshes, one less when the round under way has refreshed it *)
(* or has just ended.                                                      *)
RefreshOwed ==
    \A b \in Banks :
        lag[b] <= refresh_cnt - Mark(refresh_pbr_has_finish) - Mark(b \in finish_refresh_pb)

(* Refreshes are never postponed beyond the limit at which refresh stops   *)
(* the simulator ("Postponed exceed 8", MemoryController.cpp:3465).        *)
PostponedBounded == refresh_cnt <= LIMIT

(* A refresh does not come between the two ACT commands of a bank          *)
(* ("Act2 must be send before refresh", MemoryController.cpp:3898).        *)
ActNotBroken == \A b \in Banks : bankStates[b].act => st(b) # "Refreshing"

(* The bank's timing allows what the scheduler is about to send: banks are *)
(* refreshed and activated when they are idle, closed when a row is open   *)
(* (PRE_AB asks for one open row only: it may meet a refreshing bank).     *)
Legal(c) ==
    CASE c.type = "REFPB" -> \A b \in c.pair : st(b) = "Idle" /\ bankStates[b].ref = 0
      [] c.type = "REF"   -> \A b \in Banks : st(b) = "Idle" /\ bankStates[b].ref = 0
      [] c.type = "ACT1"  -> st(c.bank) \in {"Idle", "Precharging", "Refreshing"}
      [] c.type = "ACT2"  -> st(c.bank) = "Idle" /\ bankStates[c.bank].act
      [] c.type \in {"PRE", "RW"} -> st(c.bank) = "RowActive"
      [] c.type = "PRE_AB" -> AnyOpen
CommandsLegal == ActNotBroken /\ (At("sched") => \A c \in CmdQueue : Legal(c))
=============================================================================
