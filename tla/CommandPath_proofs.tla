------------------------- MODULE CommandPath_proofs -------------------------
(***************************************************************************)
(* Theorems about CommandPath, for every value of the constants that meets *)
(* their assumptions: its types, and the three assertions of the code that *)
(* the order of the handlers and the timing of the wake-up pipe must keep. *)
(***************************************************************************)
EXTENDS CommandPath, FiniteSetTheorems, TLAPS

LEMMA Constants ==
    /\ PD_PRD \in Nat /\ ASREF_PRD \in Nat /\ tPDE \in Nat /\ tPDLP \in Nat /\ tCSPD \in Nat
    /\ tXP \in Nat /\ tASREFE \in Nat /\ tXSR \in Nat /\ tPHYLPE \in Nat /\ tPHYLPX \in Nat
    /\ tCMD_PHY \in Nat /\ tCMDPD \in Nat /\ tRDPD \in Nat /\ tRPPD \in Nat /\ tRAS \in Nat
    /\ tRTP \in Nat /\ tRP \in Nat /\ tRFC \in Nat
    /\ NUM_RANKS \in Nat \ {0} /\ tCMD2SCH \in Nat /\ tCMD_WAKEUP \in 1 .. tCMD2SCH + 1
    /\ cmd_cycle \in Nat \ {0} /\ pre_cycle \in Nat \ {0} /\ rw_cycle \in Nat \ {0}
    BY LpAssumption, CommandAssumption

LEMMA Less1Type == \A n \in Nat : Less1(n) \in Nat
    BY DEF Less1

LEMMA LargerType == \A m, n \in Nat : Larger(m, n) \in Nat
    BY DEF Larger

LEMMA LpRankType ==
    ASSUME LowPowerType, packet \in Seq(PacketType), NEW r \in Ranks, LpRank(r)
    PROVE  RankState' \in RankStateType /\ packet' \in Seq(PacketType) /\ lpRank' \in 0 .. NUM_RANKS
<1> DEFINE Rec == [lp_state : LpStates, pd_cnt : Nat, asref_cnt : Nat, state_cnt : Nat]
           Good == RankState' \in RankStateType
<1>1. RankState[r] \in Rec /\ RankState \in [Ranks -> Rec]
    BY DEF LowPowerType, RankStateType
<1>2. \A rs \in Rec : Becomes(r, rs) => Good
    BY <1>1 DEF Becomes, RankStateType
<1>3. \A st \in LpStates : Enter(r, st) => Good
    BY <1>1, <1>2 DEF Enter
<1>4. \A st \in LpStates, n \in Nat : EnterPd(r, st, n) => Good
    BY <1>1, <1>2 DEF EnterPd
<1>5. \A st \in LpStates, n \in Nat : EnterAsref(r, st, n) => Good
    BY <1>1, <1>2 DEF EnterAsref
<1>6. \A st \in LpStates : EnterLow(r, st) => Good
    BY <1>1, <1>2, Constants DEF EnterLow
<1>7. \A st \in LpStates : \A p, a \in BOOLEAN : Reload(r, st, p, a) => Good
    <2> SUFFICES ASSUME NEW st \in LpStates, NEW p \in BOOLEAN, NEW a \in BOOLEAN, Reload(r, st, p, a)
                 PROVE  Good
        OBVIOUS
    <2>1. /\ (IF p THEN PD_PRD ELSE RankState[r].pd_cnt) \in Nat
          /\ (IF a THEN ASREF_PRD ELSE RankState[r].asref_cnt) \in Nat
        BY <1>1, Constants
    <2> QED
        BY <1>1, <1>2, <2>1 DEF Reload
<1>8. UNCHANGED RankState => Good
    BY <1>1 DEF RankStateType
<1> HIDE DEF Good, Rec
<1>9. \A cmd \in LpCommands : Send(r, cmd) => packet' \in Seq(PacketType)
    BY Constants DEF Send, PacketType
<1>10. UNCHANGED packet => packet' \in Seq(PacketType)
    OBVIOUS
<1>11. lpRank' \in 0 .. NUM_RANKS
    BY Constants DEF LpRank, Ranks
<1>12. LpStates = {"IDLE", "PDE", "PD", "PDLP", "PDX", "ASREFE", "ASREF", "ASREFX", "SRPDE", "SRPD",
                   "SRPDLP", "SRPDX"}
    BY DEF LpStates, SelfRefresh
<1>13. /\ PD_ENABLE \in BOOLEAN /\ ASREF_ENABLE \in BOOLEAN /\ DMC_V580 \in BOOLEAN
       /\ wakeup[r] \in BOOLEAN
    BY LpAssumption DEF LowPowerType
<1>a. /\ PD_PRD \in Nat /\ tPDE \in Nat /\ tXP \in Nat /\ tASREFE \in Nat /\ tXSR \in Nat
    BY Constants
<1>14. Good /\ packet' \in Seq(PacketType)
    <2>1. CASE LpIdle(r)
        BY <2>1, <1>4, <1>5, <1>7, <1>8, <1>10, <1>12, <1>13, <1>a DEF LpIdle
    <2>2. CASE LpPde(r)
        BY <2>2, <1>6, <1>8, <1>9, <1>10, <1>12 DEF LpPde, LpCommands, Stay
    <2>3. CASE LpPd(r)
        BY <2>3, <1>3, <1>4, <1>8, <1>9, <1>10, <1>12, <1>a DEF LpPd, LpCommands, Stay
    <2>4. CASE LpPdlp(r)
        BY <2>4, <1>4, <1>8, <1>9, <1>10, <1>12, <1>a DEF LpPdlp, LpCommands, Stay
    <2>5. CASE LpPdx(r)
        BY <2>5, <1>7, <1>8, <1>10, <1>12, <1>13 DEF LpPdx, asref_timing_met, even_cycle
    <2>6. CASE LpAsrefe(r)
        BY <2>6, <1>3, <1>8, <1>9, <1>10, <1>12 DEF LpAsrefe, LpCommands, Stay
    <2>7. CASE LpAsref(r)
        BY <2>7, <1>4, <1>5, <1>6, <1>8, <1>9, <1>10, <1>12, <1>a DEF LpAsref, LpCommands, Stay
    <2>8. CASE LpAsrefx(r)
        BY <2>8, <1>7, <1>8, <1>10, <1>12, <1>13 DEF LpAsrefx
    <2>9. CASE LpSrpde(r)
        BY <2>9, <1>6, <1>8, <1>9, <1>10, <1>12 DEF LpSrpde, LpCommands, Stay
    <2>10. CASE LpSrpd(r)
        BY <2>10, <1>3, <1>4, <1>8, <1>9, <1>10, <1>12, <1>a DEF LpSrpd, LpCommands, Stay
    <2>11. CASE LpSrpdlp(r)
        BY <2>11, <1>4, <1>8, <1>9, <1>10, <1>12, <1>a DEF LpSrpdlp, LpCommands, Stay
    <2>12. CASE LpSrpdx(r)
        BY <2>12, <1>5, <1>8, <1>9, <1>10, <1>12, <1>a DEF LpSrpdx, LpCommands, Stay
    <2> QED
        BY <2>1, <2>2, <2>3, <2>4, <2>5, <2>6, <2>7, <2>8, <2>9, <2>10, <2>11, <2>12 DEF LpRank
<1> QED
    BY <1>11, <1>14 DEF Good

LEMMA OneLessType == \A q \in Seq(PacketType) : OneLess(q) \in Seq(PacketType)
<1> TAKE q \in Seq(PacketType)
<1>1. \A p \in PacketType : [p EXCEPT !.delay = Less1(@)] \in PacketType
    BY Less1Type DEF PacketType
<1>3. \A i \in DOMAIN q : q[i] \in PacketType
    OBVIOUS
<1>2. DOMAIN q = 1 .. Len(q) /\ Len(q) \in Nat
    OBVIOUS
<1> QED
    BY <1>1, <1>2, <1>3 DEF OneLess

LEMMA NextBankType == \A b \in BankType, c \in CmdSet : NextBank(b, c) \in BankType
<1> TAKE b \in BankType, c \in CmdSet
<1> USE DEF BankType
<1>1. [b EXCEPT !.act_executing = TRUE] \in BankType
    OBVIOUS
<1>2. [b EXCEPT !.state = "RowActive", !.cnt = tRAS, !.act_executing = FALSE, !.delay = 0,
                !.delay_en = FALSE] \in BankType
    BY Constants
<1>3. [b EXCEPT !.cnt = Larger(@, tRTP), !.delay = 0, !.delay_en = TRUE] \in BankType
    BY LargerType, Constants
<1>a. tRFC + cmd_cycle - 1 \in Nat /\ tRP + cmd_cycle - 1 \in Nat
    BY Constants
<1>4. [b EXCEPT !.state = "Refreshing", !.cnt = tRFC + cmd_cycle - 1, !.delay = 0,
                !.delay_en = FALSE] \in BankType
    BY <1>a
<1>5. [b EXCEPT !.state = "Precharging", !.cnt = tRP + cmd_cycle - 1, !.delay = 0,
                !.delay_en = FALSE] \in BankType
    BY <1>a
<1> HIDE DEF BankType
<1> QED
    BY <1>1, <1>2, <1>3, <1>4, <1>5 DEF NextBank

LEMMA RefreshType ==
    ASSUME RegisterType, BanksType, NEW due \in SUBSET CanBeDue, RefreshWith(due)
    PROVE  /\ CmdQueue' \in SUBSET CmdSet
           /\ refresh_cnt' \in [Ranks -> Nat]
           /\ refreshALL' \in [Ranks -> [refreshWaiting : BOOLEAN, refreshing : BOOLEAN]]
<1>1. refresh_cnt' \in [Ranks -> Nat]
    BY DEF RefreshWith, BanksType, Owed
<1>2. refreshALL' \in [Ranks -> [refreshWaiting : BOOLEAN, refreshing : BOOLEAN]]
    <2>1. \A r \in Ranks : [refreshALL[r] EXCEPT !.refreshWaiting =
                \/ @
                \/ Visited(r, due) /\ Forced(r, due)
                \/ Visited(r, due) /\ ~Hold(r) /\ IdleRank(r, due)]
              \in [refreshWaiting : BOOLEAN, refreshing : BOOLEAN]
        BY DEF BanksType
    <2> QED
        BY <2>1 DEF RefreshWith
<1>3. CmdQueue' \in SUBSET CmdSet
    <2>1. \A r \in Ranks : [type |-> IF WantsPre(r, due) THEN "PRE_AB" ELSE "REF",
                            rank |-> r, task |-> NoTask] \in CmdSet
        BY DEF CmdSet, CmdTypes
    <2> QED
        BY <2>1 DEF RefreshWith, RegisterType
<1> QED
    BY <1>1, <1>2, <1>3

LEMMA TypeStep == TypeOK /\ [Next]_vars => TypeOK'
<1> SUFFICES ASSUME TypeOK, [Next]_vars PROVE TypeOK'
    OBVIOUS
<1> USE DEF At, Then, ctlVars, queVars, bankVars, dramVars, lpVars
<1>a. /\ ClockType /\ LowPowerType /\ QueueType /\ RegisterType /\ BanksType /\ BusType
    BY DEF TypeOK
<1>1. CASE Inform
    <2>1. ClockType'
        BY <1>a, <1>1 DEF Inform, ClockType, Phases
    <2>2. LowPowerType'
        BY <1>a, <1>1 DEF Inform, LowPowerType, NocReadInform
    <2>3. QueueType'
        BY <1>a, <1>1 DEF Inform, QueueType
    <2>4. RegisterType'
        BY <1>a, <1>1 DEF Inform, RegisterType
    <2>5. BanksType'
        BY <1>a, <1>1 DEF Inform, BanksType
    <2>6. BusType'
        BY <1>a, <1>1 DEF Inform, BusType
    <2> QED
        BY <2>1, <2>2, <2>3, <2>4, <2>5, <2>6 DEF TypeOK
<1>2. ASSUME NEW t \in Tasks, NEW r \in Ranks, addTransaction(t, r) PROVE TypeOK'
    <2>1. ClockType'
        BY <1>a, <1>2 DEF addTransaction, ClockType, Phases
    <2>2. LowPowerType'
        BY <1>a, <1>2 DEF addTransaction, LowPowerType
    <2>3. QueueType'
        <3>1. [Off EXCEPT !.on = TRUE, !.rank = r] \in TransType
            <4>1. Off \in TransType
                BY Constants DEF Off, TransType, AgeMax, Ranks
            <4> QED
                BY <4>1 DEF TransType
        <3>2. trans' \in [Tasks -> TransType]
            BY <1>a, <3>1, <1>2 DEF addTransaction, QueueType
        <3> QED
            <4>1. rank_cnt' \in [Ranks -> Int]
                BY <1>a, <1>2 DEF addTransaction, QueueType
            <4> QED
                BY <1>a, <3>2, <4>1, <1>2 DEF addTransaction, QueueType
    <2>4. RegisterType'
        BY <1>a, <1>2 DEF addTransaction, RegisterType
    <2>5. BanksType'
        BY <1>a, <1>2 DEF addTransaction, BanksType
    <2>6. BusType'
        BY <1>a, <1>2 DEF addTransaction, BusType
    <2> QED
        BY <2>1, <2>2, <2>3, <2>4, <2>5, <2>6 DEF TypeOK
<1>3. CASE NoTransaction
    BY <1>a, <1>3 DEF TypeOK, NoTransaction, ClockType, LowPowerType, QueueType, RegisterType, BanksType, BusType, Phases
<1>4. CASE UpdateLpBegin
    <2>1. ClockType'
        BY <1>a, <1>4 DEF UpdateLpBegin, ClockType, Phases, LpBegin
    <2>2. LowPowerType'
        <3>1. [r \in Ranks |-> IF Blocked(r) THEN RankState[r] ELSE CountDown(RankState[r])]
                  \in RankStateType
            BY <1>a, Less1Type DEF LowPowerType, RankStateType, CountDown
        <3>2. PhyLp(has_cmd) \in PhyType
            <4>1. /\ PhyLpState.phylp_state \in PhyStates
                  /\ Less1(PhyLpState.lp_cnt) \in Nat
                BY <1>a, Less1Type DEF LowPowerType, PhyType
            <4>2. \A st \in PhyStates, n \in Nat : [phylp_state |-> st, lp_cnt |-> n] \in PhyType
                BY DEF PhyType
            <4> QED
                BY <4>1, <4>2, Constants DEF PhyStates, PhyLp
        <3>3. has_cmd \in [Ranks -> BOOLEAN]
            BY DEF has_cmd
        <3>4. lpRank' \in 0 .. NUM_RANKS
            BY <1>4, Constants DEF UpdateLpBegin, LpBegin
        <3> QED
            BY <1>a, <3>1, <3>2, <3>3, <3>4, <1>4 DEF UpdateLpBegin, LpBegin, LowPowerType
    <2>3. QueueType'
        BY <1>a, <1>4 DEF UpdateLpBegin, QueueType
    <2>4. RegisterType'
        BY <1>a, <1>4 DEF UpdateLpBegin, RegisterType
    <2>5. BanksType'
        BY <1>a, <1>4 DEF UpdateLpBegin, BanksType
    <2>6. BusType'
        BY <1>a, <1>4 DEF UpdateLpBegin, BusType, LpBegin
    <2> QED
        BY <2>1, <2>2, <2>3, <2>4, <2>5, <2>6 DEF TypeOK
<1>5. ASSUME NEW r \in Ranks, UpdateLpRank(r) PROVE TypeOK'
    <2>1. ClockType'
        BY <1>a, <1>5 DEF UpdateLpRank, ClockType, Phases
    <2>2. LowPowerType'
        <3>1. RankState' \in RankStateType /\ lpRank' \in 0 .. NUM_RANKS
            BY <1>a, <1>5, LpRankType DEF UpdateLpRank, BusType
        <3> QED
            BY <1>a, <3>1, <1>5 DEF UpdateLpRank, LpRank, LowPowerType
    <2>3. QueueType'
        BY <1>a, <1>5 DEF UpdateLpRank, QueueType
    <2>4. RegisterType'
        BY <1>a, <1>5 DEF UpdateLpRank, RegisterType
    <2>5. BanksType'
        BY <1>a, <1>5 DEF UpdateLpRank, BanksType
    <2>6. BusType'
        <3>1. packet' \in Seq(PacketType)
            BY <1>a, <1>5, LpRankType DEF UpdateLpRank, BusType
        <3> QED
            BY <1>a, <3>1, <1>5 DEF UpdateLpRank, BusType
    <2> QED
        BY <2>1, <2>2, <2>3, <2>4, <2>5, <2>6 DEF TypeOK
<1>6. CASE UpdateLpEnd
    <2>1. ClockType'
        BY <1>a, <1>6 DEF UpdateLpEnd, ClockType, Phases, LpEnd
    <2>2. LowPowerType'
        BY <1>a, <1>6 DEF UpdateLpEnd, LowPowerType, LpEnd
    <2>3. QueueType'
        BY <1>a, <1>6 DEF UpdateLpEnd, QueueType
    <2>4. RegisterType'
        BY <1>a, <1>6 DEF UpdateLpEnd, RegisterType
    <2>5. BanksType'
        BY <1>a, <1>6 DEF UpdateLpEnd, BanksType
    <2>6. BusType'
        BY <1>a, <1>6 DEF UpdateLpEnd, BusType, LpEnd
    <2> QED
        BY <2>1, <2>2, <2>3, <2>4, <2>5, <2>6 DEF TypeOK
<1>7. CASE SendPacket
    <2>1. ClockType'
        BY <1>a, <1>7 DEF SendPacket, ClockType, Phases
    <2>2. LowPowerType'
        BY <1>a, <1>7 DEF SendPacket, LowPowerType
    <2>3. QueueType'
        BY <1>a, <1>7 DEF SendPacket, QueueType
    <2>4. RegisterType'
        BY <1>a, <1>7 DEF SendPacket, RegisterType
    <2>5. BanksType'
        BY <1>a, <1>7 DEF SendPacket, BanksType
    <2>6. BusType'
        <3>0. packet \in Seq(PacketType) /\ scan \in Nat \ {0} /\ scan <= Len(packet)
            BY <1>a, <1>7 DEF SendPacket, BusType
        <3>1. Len(packet) \in Nat /\ scan \in 1 .. Len(packet) /\ packet # << >>
            BY <3>0
        <3>2. packet[scan] \in PacketType /\ Head(packet) \in PacketType /\ Tail(packet) \in Seq(PacketType)
            BY <3>0, <3>1
        <3> DEFINE r == Head(packet).rank
                   cmd == packet[scan].type
        <3>3. r \in Ranks /\ cmd \in CmdTypes \cup LpCommands
            BY <3>2 DEF PacketType
        <3> HIDE DEF r, cmd
        <3>4. receiveFromBus(r, cmd)
            BY <1>7 DEF SendPacket, r, cmd
        <3>5. dram' \in [Ranks -> DramType]
            BY <1>a, <3>3, <3>4 DEF receiveFromBus, BusType, DramType
        <3>6. quiet' \in [Ranks -> Nat]
            BY <1>a, <3>3, <3>4, Constants DEF receiveFromBus, BusType
        <3> QED
            BY <1>a, <3>2, <3>5, <3>6, <1>7 DEF SendPacket, BusType
    <2> QED
        BY <2>1, <2>2, <2>3, <2>4, <2>5, <2>6 DEF TypeOK
<1>8. CASE SkipPacket
    <2>1. ClockType'
        BY <1>a, <1>8 DEF SkipPacket, ClockType, Phases
    <2>2. LowPowerType'
        BY <1>a, <1>8 DEF SkipPacket, LowPowerType
    <2>3. QueueType'
        BY <1>a, <1>8 DEF SkipPacket, QueueType
    <2>4. RegisterType'
        BY <1>a, <1>8 DEF SkipPacket, RegisterType
    <2>5. BanksType'
        BY <1>a, <1>8 DEF SkipPacket, BanksType
    <2>6. BusType'
        BY <1>a, <1>8 DEF SkipPacket, BusType
    <2> QED
        BY <2>1, <2>2, <2>3, <2>4, <2>5, <2>6 DEF TypeOK
<1>9. CASE Exec
    <2>1. ClockType'
        BY <1>a, <1>9 DEF Exec, ClockType, Phases
    <2>2. LowPowerType'
        BY <1>a, <1>9 DEF Exec, LowPowerType
    <2>3. QueueType'
        BY <1>a, <1>9 DEF Exec, QueueType
    <2>4. RegisterType'
        <3>1. Less1(command_pend) \in Nat
            BY <1>a, Less1Type DEF RegisterType
        <3>2. arb_enable' \in BOOLEAN
            <4>1. arb_enable' = (Less1(command_pend) <= 1) \/ arb_enable' = TRUE
                BY <1>9, Zenon DEF Exec
            <4>2. (Less1(command_pend) <= 1) \in BOOLEAN
                OBVIOUS
            <4> QED
                BY <4>1, <4>2, Zenon
        <3>3. exec_valid' \in BOOLEAN
            BY <1>a, <1>9 DEF Exec, RegisterType
        <3>4. command_pend' \in Nat
            BY <1>a, <3>1, <1>9 DEF Exec, RegisterType
        <3> QED
            BY <1>a, <3>2, <3>3, <3>4, <1>9 DEF Exec, RegisterType
    <2>5. BanksType'
        BY <1>a, <1>9 DEF Exec, BanksType
    <2>6. BusType'
        <3> DEFINE out == [type |-> command.type, rank |-> command.rank, delay |-> tCMD_PHY]
        <3>1. out \in PacketType
            BY <1>a, Constants DEF RegisterType, CmdSet, PacketType
        <3> HIDE DEF out
        <3>2. Append(packet, out) \in Seq(PacketType)
            BY <1>a, <3>1 DEF BusType
        <3>3. \A q \in Seq(PacketType) : OneLess(q) \in Seq(PacketType)
            BY OneLessType
        <3>4. packet' = OneLess(packet) \/ packet' = OneLess(Append(packet, out))
            BY <1>9 DEF Exec, out
        <3> QED
            BY <1>a, <3>2, <3>3, <3>4, <1>9 DEF Exec, BusType
    <2> QED
        BY <2>1, <2>2, <2>3, <2>4, <2>5, <2>6 DEF TypeOK
<1>10. CASE StateFresh
    <2>1. ClockType'
        BY <1>a, <1>10 DEF StateFresh, ClockType, Phases
    <2>2. LowPowerType'
        BY <1>a, <1>10 DEF StateFresh, LowPowerType
    <2>3. QueueType'
        BY <1>a, <1>10 DEF StateFresh, QueueType
    <2>4. RegisterType'
        BY <1>a, <1>10 DEF StateFresh, RegisterType
    <2>5. BanksType'
        <3>1. \A r \in Ranks : [bankStates[r] EXCEPT !.cnt = Less1(@),
                                  !.state = IF Over(r) THEN "Idle" ELSE @] \in BankType
            BY <1>a, Less1Type DEF BanksType, BankType
        <3> QED
            BY <1>a, <3>1, <1>10 DEF StateFresh, BanksType
    <2>6. BusType'
        BY <1>a, <1>10 DEF StateFresh, BusType
    <2> QED
        BY <2>1, <2>2, <2>3, <2>4, <2>5, <2>6 DEF TypeOK
<1>11. ASSUME NEW c \in CmdQueue, Schedule(c) PROVE TypeOK'
    <2>1. ClockType'
        <3>0. /\ tCMDPD + cmd_cycle - 1 \in Nat /\ tRDPD + rw_cycle - 1 \in Nat
              /\ tRPPD + cmd_cycle - 1 \in Nat /\ tRPPD \in Nat /\ c.rank \in Ranks
            BY <1>a, <1>11, Constants DEF RegisterType, CmdSet
        <3>1. c.rank \in Ranks /\ NextPde(c) \in Nat
            BY <3>0 DEF NextPde
        <3> QED
            BY <1>a, <3>1, <1>11, LargerType DEF Schedule, ClockType, Phases
    <2>2. LowPowerType'
        BY <1>a, <1>11 DEF Schedule, LowPowerType
    <2>3. QueueType'
        <3>1. \A t \in Tasks : NextTrans(t, c) \in TransType
            <4> TAKE t \in Tasks
            <4>1. trans[t] \in TransType
                BY <1>a DEF QueueType
            <4>2. [trans[t] EXCEPT !.act = TRUE] \in TransType
                BY <4>1 DEF TransType
            <4>3. [trans[t] EXCEPT !.act = FALSE] \in TransType
                BY <4>1 DEF TransType
            <4>4. [trans[t] EXCEPT !.issue_size = @ + 1] \in TransType
                BY <4>1 DEF TransType
            <4> QED
                BY <4>1, <4>2, <4>3, <4>4 DEF NextTrans
        <3> QED
            BY <1>a, <3>1, <1>11 DEF Schedule, QueueType
    <2>4. RegisterType'
        <3>1. c \in CmdSet /\ Occupies(c) \subseteq Nat
            BY <1>a, <1>11, Constants DEF RegisterType, CmdSet, CmdTypes, Occupies
        <3> QED
            BY <1>a, <3>1, <1>11 DEF Schedule, RegisterType
    <2>5. BanksType'
        <3>1. c.rank \in Ranks
            BY <1>a, <1>11 DEF RegisterType, CmdSet
        <3>2. \A bk \in BankType : NextBank(bk, c) \in BankType
            BY <1>a, <1>11, NextBankType DEF RegisterType, Schedule
        <3>3. bankStates' \in [Ranks -> BankType]
            BY <1>a, <3>1, <3>2, <1>11 DEF Schedule, BanksType
        <3>4. refresh_cnt' \in [Ranks -> Nat]
            BY <1>a, <3>1, Less1Type, <1>11 DEF Schedule, BanksType
        <3>5. refreshALL' \in [Ranks -> [refreshWaiting : BOOLEAN, refreshing : BOOLEAN]]
            BY <1>a, <3>1, <1>11 DEF Schedule, BanksType
        <3> QED
            BY <3>3, <3>4, <3>5 DEF BanksType
    <2>6. BusType'
        BY <1>a, <1>11 DEF Schedule, BusType
    <2> QED
        BY <2>1, <2>2, <2>3, <2>4, <2>5, <2>6 DEF TypeOK
<1>12. CASE NothingToSchedule
    BY <1>a, <1>12 DEF TypeOK, NothingToSchedule, ClockType, LowPowerType, QueueType, RegisterType, BanksType, BusType, Phases
<1>13. ASSUME NEW t \in Tasks, Retire(t) PROVE TypeOK'
    <2>1. ClockType'
        BY <1>a, <1>13 DEF Retire, ClockType, Phases
    <2>2. LowPowerType'
        BY <1>a, <1>13 DEF Retire, LowPowerType
    <2>3. QueueType'
        <3>1. Off \in TransType
            BY Constants DEF Off, TransType, AgeMax, Ranks
        <3>2. trans[t].rank \in Ranks
            BY <1>a DEF QueueType, TransType
        <3> QED
            BY <1>a, <3>1, <3>2, <1>13 DEF Retire, QueueType
    <2>4. RegisterType'
        BY <1>a, <1>13 DEF Retire, RegisterType
    <2>5. BanksType'
        BY <1>a, <1>13 DEF Retire, BanksType
    <2>6. BusType'
        BY <1>a, <1>13 DEF Retire, BusType
    <2> QED
        BY <2>1, <2>2, <2>3, <2>4, <2>5, <2>6 DEF TypeOK
<1>14. CASE NothingToRetire
    BY <1>a, <1>14 DEF TypeOK, NothingToRetire, ClockType, LowPowerType, QueueType, RegisterType, BanksType, BusType, Phases
<1>15. CASE QuePipeline
    <2>1. ClockType'
        BY <1>a, <1>15 DEF QuePipeline, ClockType, Phases
    <2>2. LowPowerType'
        BY <1>a, <1>15 DEF QuePipeline, LowPowerType
    <2>3. QueueType'
        BY <1>a, <1>15 DEF QuePipeline, QueueType
    <2>4. RegisterType'
        <3>1. \A t \in Eligible : [type |-> nextCmd(t), rank |-> trans[t].rank, task |-> t] \in CmdSet
            BY <1>a DEF QueueType, TransType, Eligible, lc, timing_met, nextCmd, CmdSet, CmdTypes
        <3> QED
            BY <1>a, <3>1, <1>15 DEF QuePipeline, RegisterType
    <2>5. BanksType'
        BY <1>a, <1>15 DEF QuePipeline, BanksType
    <2>6. BusType'
        BY <1>a, <1>15 DEF QuePipeline, BusType
    <2> QED
        BY <2>1, <2>2, <2>3, <2>4, <2>5, <2>6 DEF TypeOK
<1>16. CASE PageTimeoutPolicy
    <2>1. ClockType'
        BY <1>a, <1>16 DEF PageTimeoutPolicy, ClockType, Phases
    <2>2. LowPowerType'
        BY <1>a, <1>16 DEF PageTimeoutPolicy, Woken, LowPowerType
    <2>3. QueueType'
        BY <1>a, <1>16 DEF PageTimeoutPolicy, QueueType
    <2>4. RegisterType'
        BY <1>a, <1>16 DEF PageTimeoutPolicy, RegisterType, CmdSet, CmdTypes
    <2>5. BanksType'
        <3>1. \A r \in Ranks : [bankStates[r] EXCEPT !.delay =
                  IF Unused(r) /\ ~TimedOut(r) /\ bankStates[r].delay_en THEN @ + 1 ELSE @] \in BankType
            BY <1>a DEF BanksType, BankType
        <3> QED
            BY <1>a, <3>1, <1>16 DEF PageTimeoutPolicy, BanksType
    <2>6. BusType'
        BY <1>a, <1>16 DEF PageTimeoutPolicy, BusType
    <2> QED
        BY <2>1, <2>2, <2>3, <2>4, <2>5, <2>6 DEF TypeOK
<1>17. CASE Refresh
    <2>1. ClockType'
        BY <1>a, <1>17 DEF Refresh, ClockType, Phases
    <2>2. LowPowerType'
        BY <1>a, <1>17 DEF Refresh, RefreshWith, Woken, LowPowerType
    <2>3. QueueType'
        BY <1>a, <1>17 DEF Refresh, QueueType
    <2>4. RegisterType'
        BY <1>a, <1>17, RefreshType DEF Refresh, RegisterType
    <2>5. BanksType'
        BY <1>a, <1>17, RefreshType DEF Refresh, BanksType
    <2>6. BusType'
        BY <1>a, <1>17 DEF Refresh, BusType
    <2> QED
        BY <2>1, <2>2, <2>3, <2>4, <2>5, <2>6 DEF TypeOK
<1>18. CASE EndCycle
    <2>1. ClockType'
        <3>1. pdeWait' \in [Ranks -> Nat]
            BY <1>a, <1>18, Less1Type DEF EndCycle, ClockType
        <3>2. parity' \in 0 .. 1
            BY <1>a, <1>18, SMTT(20) DEF EndCycle, ClockType
        <3> QED
            BY <3>1, <3>2, <1>18 DEF EndCycle, ClockType, Phases
    <2>2. LowPowerType'
        BY <1>a, <1>18 DEF EndCycle, LowPowerType
    <2>3. QueueType'
        <3>1. \A t \in Tasks : [trans[t] EXCEPT !.age =
                                  IF trans[t].on /\ @ < AgeMax THEN @ + 1 ELSE @] \in TransType
            <4> TAKE t \in Tasks
            <4>1. trans[t] \in TransType
                BY <1>a DEF QueueType
            <4>2. trans[t].age < AgeMax => trans[t].age + 1 \in 0 .. AgeMax
                BY <4>1, Constants DEF TransType, AgeMax
            <4> QED
                BY <4>1, <4>2 DEF TransType
        <3>2. trans' \in [Tasks -> TransType]
            BY <3>1, <1>18 DEF EndCycle
        <3>3. deqCmdWakeupLp' \in [Ranks -> [1 .. tCMD_WAKEUP -> Int]]
            <4>1. \A r \in Ranks : [i \in 1 .. tCMD_WAKEUP |-> IF i = tCMD_WAKEUP THEN rank_cnt[r]
                                    ELSE deqCmdWakeupLp[r][i + 1]] \in [1 .. tCMD_WAKEUP -> Int]
                BY <1>a, Constants DEF QueueType
            <4> QED
                BY <4>1, <1>18 DEF EndCycle
        <3> QED
            BY <1>a, <3>2, <3>3, <1>18 DEF EndCycle, QueueType
    <2>4. RegisterType'
        BY <1>a, <1>18 DEF EndCycle, RegisterType
    <2>5. BanksType'
        BY <1>a, <1>18 DEF EndCycle, BanksType
    <2>6. BusType'
        <3>1. quiet' \in [Ranks -> Nat]
            BY <1>a, <1>18, Less1Type DEF EndCycle, BusType
        <3> QED
            BY <1>a, <3>1, <1>18 DEF EndCycle, BusType
    <2> QED
        BY <2>1, <2>2, <2>3, <2>4, <2>5, <2>6 DEF TypeOK
<1>19. CASE UNCHANGED vars
    BY <1>a, <1>19 DEF vars, TypeOK, ClockType, LowPowerType, QueueType, RegisterType, BanksType, BusType, Phases
<1> QED
    BY <1>1, <1>2, <1>3, <1>4, <1>5, <1>6, <1>7, <1>8, <1>9, <1>10, <1>11, <1>12, <1>13,
       <1>14, <1>15, <1>16, <1>17, <1>18, <1>19 DEF Next

LEMMA TypeInit == Init => TypeOK
<1> SUFFICES ASSUME Init PROVE TypeOK
    OBVIOUS
<1>1. ClockType
    BY DEF Init, LpInit, ClockType, Phases
<1>2. LowPowerType
    <2>1. AnyCnt \subseteq Nat
        BY LpAssumption
    <2>2. PhyLpState \in PhyType
        BY <2>1 DEF Init, LpInit, PhyType, PhyStates
    <2> QED
        BY <2>2, Constants DEF Init, LpInit, LowPowerType, RankStateType, LpStates
<1>3. QueueType
    <2>1. Off \in TransType
        BY Constants DEF Off, TransType, AgeMax, Ranks
    <2> QED
        BY <2>1 DEF Init, QueueType
<1>4. RegisterType
    <2>1. 0 \in Ranks
        BY Constants DEF Ranks
    <2> QED
        BY <2>1 DEF Init, RegisterType, CmdSet, CmdTypes
<1>5. BanksType
    BY DEF Init, BanksType, BankType
<1>6. BusType
    BY DEF Init, LpInit, BusType, DramType
<1> QED
    BY <1>1, <1>2, <1>3, <1>4, <1>5, <1>6 DEF TypeOK

(* Every variable has its type, in every reachable state.                  *)
THEOREM TypeCorrect == Spec => []TypeOK
    BY TypeInit, TypeStep, PTL DEF Spec
-----------------------------------------------------------------------------
(***************************************************************************)
(* The command register.  A command is in CmdQueue only if arb_enable was  *)
(* up when it was queued, and then the register is free when the scheduler *)
(* runs.  With a command every other cycle, the countdown of the register  *)
(* and the parity of the clock stay in step.                               *)
(***************************************************************************)
BeforeExec == phase \in {"inform", "add", "lp", "rank", "send"}
Choosing   == phase \in {"fresh", "sched"}

RegisterInv ==
    /\ exec_valid => command_pend > 0
    /\ arb_enable /\ exec_valid => command_pend = 1
    /\ CmdQueue # {} /\ ~Choosing => arb_enable
    /\ CmdQueue # {} /\ Choosing => ~exec_valid

ParityInv ==
    EVERY_OTHER =>
        /\ exec_valid => (command_pend + parity) % 2 = IF BeforeExec THEN 1 ELSE 0
        /\ CmdQueue # {} => parity = IF BeforeExec \/ Choosing THEN 0 ELSE 1

LEMMA CmdSetOf == TypeOK => \A c \in CmdQueue : c \in CmdSet /\ c.type \in CmdTypes /\ c.rank \in Ranks
    BY DEF TypeOK, RegisterType, CmdSet

LEMMA RegisterStep == TypeOK /\ RegisterInv /\ [Next]_vars => RegisterInv'
<1> SUFFICES ASSUME TypeOK, RegisterInv, [Next]_vars PROVE RegisterInv'
    OBVIOUS
<1> USE DEF RegisterInv, Choosing, At, Then, ctlVars
<1>1. CASE Inform
    BY <1>1 DEF Inform
<1>2. ASSUME NEW t \in Tasks, NEW r \in Ranks, addTransaction(t, r) PROVE RegisterInv'
    BY <1>2 DEF addTransaction
<1>3. CASE NoTransaction
    BY <1>3 DEF NoTransaction
<1>4. CASE UpdateLpBegin
    BY <1>4 DEF UpdateLpBegin
<1>5. ASSUME NEW r \in Ranks, UpdateLpRank(r) PROVE RegisterInv'
    BY <1>5 DEF UpdateLpRank
<1>6. CASE UpdateLpEnd
    BY <1>6 DEF UpdateLpEnd
<1>7. CASE SendPacket
    BY <1>7 DEF SendPacket
<1>8. CASE SkipPacket
    BY <1>8 DEF SkipPacket
<1>9. CASE Exec
    <2>1. command_pend \in Nat
        BY DEF TypeOK, RegisterType
    <2>2. CASE exec_valid
        <3>1. /\ command_pend > 0 /\ command_pend' = command_pend - 1
              /\ arb_enable' = (command_pend' <= 1) /\ exec_valid' = (command_pend' # 0)
              /\ CmdQueue' = CmdQueue /\ phase = "send" /\ phase' = "fresh"
            BY <2>1, <2>2, <1>9 DEF Exec, Less1
        <3>2. /\ arb_enable' => command_pend' <= 1
              /\ exec_valid' <=> command_pend' # 0
            BY <3>1
        <3>3. CmdQueue # {} => command_pend = 1
            BY <2>2, <3>1
        <3>4. CmdQueue' # {} => ~exec_valid'
            BY <3>1, <3>2, <3>3
        <3>5. arb_enable' /\ exec_valid' => command_pend' = 1
            BY <2>1, <3>1, <3>2
        <3>6. exec_valid' => command_pend' > 0
            BY <2>1, <3>1, <3>2
        <3> QED
            BY <3>1, <3>4, <3>5, <3>6
    <2>3. CASE ~exec_valid
        BY <2>3, <1>9 DEF Exec
    <2> QED
        BY <2>2, <2>3
<1>10. CASE StateFresh
    BY <1>10 DEF StateFresh
<1>11. ASSUME NEW c \in CmdQueue, Schedule(c) PROVE RegisterInv'
    <2>1. command_pend' > 0
        BY <1>11, Constants, CmdSetOf DEF Schedule, Occupies, CmdTypes
    <2> QED
        BY <2>1, <1>11 DEF Schedule
<1>12. CASE NothingToSchedule
    BY <1>12 DEF NothingToSchedule
<1>13. ASSUME NEW t \in Tasks, Retire(t) PROVE RegisterInv'
    BY <1>13 DEF Retire
<1>14. CASE NothingToRetire
    BY <1>14 DEF NothingToRetire
<1>15. CASE QuePipeline
    BY <1>15 DEF QuePipeline
<1>16. CASE PageTimeoutPolicy
    BY <1>16 DEF PageTimeoutPolicy, Close
<1>17. CASE Refresh
    BY <1>17 DEF Refresh, RefreshWith, WantsPre, WantsRef, Wants
<1>18. CASE EndCycle
    BY <1>18 DEF EndCycle
<1>19. CASE UNCHANGED vars
    BY <1>19 DEF vars
<1> QED
    BY <1>1, <1>2, <1>3, <1>4, <1>5, <1>6, <1>7, <1>8, <1>9, <1>10, <1>11, <1>12, <1>13,
       <1>14, <1>15, <1>16, <1>17, <1>18, <1>19 DEF Next

LEMMA OneDown == \A m \in Nat, p \in 0 .. 1 : (m + p) % 2 = 1 => (m - 1 + p) % 2 = 0
    OBVIOUS

LEMMA ParityStep == TypeOK /\ RegisterInv /\ ParityInv /\ [Next]_vars => ParityInv'
<1> SUFFICES ASSUME TypeOK, RegisterInv, ParityInv, [Next]_vars PROVE ParityInv'
    OBVIOUS
<1> USE DEF ParityInv, BeforeExec, Choosing, At, Then, ctlVars
<1>1. CASE Inform
    BY <1>1 DEF Inform
<1>2. ASSUME NEW t \in Tasks, NEW r \in Ranks, addTransaction(t, r) PROVE ParityInv'
    BY <1>2 DEF addTransaction
<1>3. CASE NoTransaction
    BY <1>3 DEF NoTransaction
<1>4. CASE UpdateLpBegin
    BY <1>4 DEF UpdateLpBegin
<1>5. ASSUME NEW r \in Ranks, UpdateLpRank(r) PROVE ParityInv'
    BY <1>5 DEF UpdateLpRank
<1>6. CASE UpdateLpEnd
    BY <1>6 DEF UpdateLpEnd
<1>7. CASE SendPacket
    BY <1>7 DEF SendPacket
<1>8. CASE SkipPacket
    BY <1>8 DEF SkipPacket
<1>9. CASE Exec
    <2>1. command_pend \in Nat /\ parity \in 0 .. 1
        BY DEF TypeOK, RegisterType, ClockType
    <2>2. CASE exec_valid
        <3>1. /\ command_pend > 0 /\ command_pend' = command_pend - 1
              /\ exec_valid' = (command_pend' # 0) /\ CmdQueue' = CmdQueue /\ parity' = parity
              /\ phase = "send" /\ phase' = "fresh"
            BY <2>1, <2>2, <1>9 DEF Exec, Less1, RegisterInv
        <3>2. EVERY_OTHER => (command_pend + parity) % 2 = 1
            BY <2>2, <3>1
        <3>3. EVERY_OTHER => (command_pend' + parity') % 2 = 0
            BY <2>1, <3>1, <3>2, OneDown
        <3>4. EVERY_OTHER /\ CmdQueue' # {} => parity' = 0
            BY <3>1
        <3> QED
            BY <3>1, <3>3, <3>4
    <2>3. CASE ~exec_valid
        BY <2>3, <1>9 DEF Exec
    <2> QED
        BY <2>2, <2>3
<1>10. CASE StateFresh
    BY <1>10 DEF StateFresh
<1>11. ASSUME NEW c \in CmdQueue, Schedule(c) PROVE ParityInv'
    <2>1. EVERY_OTHER => command_pend' \in Nat /\ command_pend' % 2 = 0
        <3> SUFFICES ASSUME EVERY_OTHER PROVE command_pend' \in Nat /\ command_pend' % 2 = 0
            OBVIOUS
        <3>1. cmd_cycle % 2 = 0 /\ pre_cycle % 2 = 0 /\ rw_cycle % 2 = 0 /\ (2 * rw_cycle) % 2 = 0
            BY CommandAssumption, Constants
        <3> QED
            BY <3>1, <1>11, Constants, CmdSetOf DEF Schedule, Occupies, CmdTypes
    <2> QED
        BY <2>1, <1>11 DEF Schedule
<1>12. CASE NothingToSchedule
    BY <1>12 DEF NothingToSchedule
<1>13. ASSUME NEW t \in Tasks, Retire(t) PROVE ParityInv'
    BY <1>13 DEF Retire
<1>14. CASE NothingToRetire
    BY <1>14 DEF NothingToRetire
<1>15. CASE QuePipeline
    BY <1>15 DEF QuePipeline, even_cycle
<1>16. CASE PageTimeoutPolicy
    BY <1>16 DEF PageTimeoutPolicy, Close, even_cycle
<1>17. CASE Refresh
    BY <1>17 DEF Refresh, RefreshWith, even_cycle
<1>18. CASE EndCycle
    <2>1. command_pend \in Nat /\ parity \in 0 .. 1
        BY DEF TypeOK, RegisterType, ClockType
    <2> QED
        BY <2>1, <1>18 DEF EndCycle
<1>19. CASE UNCHANGED vars
    BY <1>19 DEF vars
<1> QED
    BY <1>1, <1>2, <1>3, <1>4, <1>5, <1>6, <1>7, <1>8, <1>9, <1>10, <1>11, <1>12, <1>13,
       <1>14, <1>15, <1>16, <1>17, <1>18, <1>19 DEF Next

(* The scheduler never overwrites a command that waits in the register.    *)
THEOREM CommandSafe == Spec => []CommandNotLost
<1>1. Init => RegisterInv
    BY DEF Init, RegisterInv
<1>2. RegisterInv => CommandNotLost
    BY DEF RegisterInv, Choosing, CommandNotLost, At
<1> QED
    BY <1>1, <1>2, TypeInit, TypeStep, RegisterStep, PTL DEF Spec

(* With a command every other cycle, exec's assertion never fails.         *)
THEOREM OddCycleSafe == Spec => []LeavesInOddCycle
<1>1. Init => RegisterInv /\ ParityInv
    BY DEF Init, RegisterInv, ParityInv
<1>2. TypeOK /\ RegisterInv /\ ParityInv => LeavesInOddCycle
    BY DEF TypeOK, RegisterType, ClockType, RegisterInv, ParityInv, BeforeExec, LeavesInOddCycle,
           At, odd_cycle
<1> QED
    BY <1>1, <1>2, TypeInit, TypeStep, RegisterStep, ParityStep, PTL DEF Spec
-----------------------------------------------------------------------------
(***************************************************************************)
(* Why no command is for a rank that sleeps.  Between the cycle that puts  *)
(* a command into CmdQueue and the scheduler of the next one runs          *)
(* update_lp_state.  It keeps the rank awake for a transaction, because    *)
(* the transaction has been in the queue for longer than the wake-up pipe  *)
(* takes, so that the count at the head of the pipe includes it; and for a *)
(* precharge or a refresh because wakeup is still set.                     *)
(***************************************************************************)
(* rank_cnt counts the transactions of each rank.                          *)
QueuedFor(r) == {t \in Tasks : On(t, r)}
RankCnt == \A r \in Ranks : rank_cnt[r] = Cardinality(QueuedFor(r))

(* A transaction is counted by the entries of the pipe younger than it.    *)
PipeFull == \A t \in Tasks, r \in Ranks : On(t, r) =>
                \A i \in 1 .. tCMD_WAKEUP :
                    tCMD_WAKEUP - i < trans[t].age => deqCmdWakeupLp[r][i] > 0

HasInv == phase = "rank" =>
            \A t \in Tasks, r \in Ranks :
                On(t, r) /\ trans[t].age >= tCMD_WAKEUP => rank_has_cmd[r]

(* What keeps the rank of a queued command awake, up to the end of         *)
(* update_lp_state.                                                        *)
Queueing == {"ptp", "ref", "data"}
Waiting  == {"inform", "add", "lp", "rank"}

QueueInv ==
    /\ phase \in {"que", "lc"} => CmdQueue = {}
    /\ \A c \in CmdQueue :
         /\ c.task = NoTask /\ phase \in Queueing \cup Waiting => wakeup[c.rank]
         /\ c.task # NoTask /\ phase \in Queueing =>
                On(c.task, c.rank) /\ trans[c.task].age >= tCMD2SCH
         /\ c.task # NoTask /\ phase \in Waiting =>
                On(c.task, c.rank) /\ trans[c.task].age >= tCMD2SCH + 1

SleepInv == RankCnt /\ PipeFull /\ HasInv /\ QueueInv /\ NoCmdInLpState
-----------------------------------------------------------------------------
(* Only four actions touch the transactions.                               *)
LEMMA NextQueue ==
    [Next]_vars =>
        \/ \E t \in Tasks, r \in Ranks : addTransaction(t, r)
        \/ \E c \in CmdQueue : Schedule(c)
        \/ \E t \in Tasks : Retire(t)
        \/ EndCycle
        \/ UNCHANGED queVars
    BY DEF Next, vars, Inform, NoTransaction, UpdateLpBegin, UpdateLpRank, UpdateLpEnd,
           SendPacket, SkipPacket, Exec, StateFresh, NothingToSchedule, NothingToRetire,
           QuePipeline, PageTimeoutPolicy, Refresh

(* The scheduler and the clock neither add nor remove a transaction.       *)
LEMMA SameQueue ==
    ASSUME TypeOK, EndCycle \/ \E c \in CmdQueue : Schedule(c)
    PROVE  \A t \in Tasks : trans'[t].on = trans[t].on /\ trans'[t].rank = trans[t].rank
<1>1. trans \in [Tasks -> TransType]
    BY DEF TypeOK, QueueType
<1>2. CASE EndCycle
    <2> TAKE t \in Tasks
    <2>1. trans'[t] = [trans[t] EXCEPT !.age = IF trans[t].on /\ @ < AgeMax THEN @ + 1 ELSE @]
        BY <1>2 DEF EndCycle
    <2> QED
        BY <1>1, <2>1 DEF TransType
<1>3. ASSUME NEW c \in CmdQueue, Schedule(c), NEW t \in Tasks
      PROVE  trans'[t].on = trans[t].on /\ trans'[t].rank = trans[t].rank
    <2>1. trans'[t] = NextTrans(t, c)
        BY <1>3 DEF Schedule
    <2>2. \/ trans'[t] = [trans[t] EXCEPT !.act = TRUE]
          \/ trans'[t] = [trans[t] EXCEPT !.act = FALSE]
          \/ trans'[t] = [trans[t] EXCEPT !.issue_size = @ + 1]
          \/ trans'[t] = trans[t]
        BY <2>1 DEF NextTrans
    <2> QED
        BY <1>1, <2>2 DEF TransType
<1> QED
    BY <1>2, <1>3

LEMMA QueuedFinite == \A r \in Ranks : IsFiniteSet(QueuedFor(r)) /\ IsFiniteSet(QueuedFor(r)')
<1>1. \A r \in Ranks : QueuedFor(r) \subseteq Tasks /\ QueuedFor(r)' \subseteq Tasks
    BY DEF QueuedFor
<1> QED
    BY <1>1, CommandAssumption, FS_Subset

LEMMA RankCntStep == TypeOK /\ RankCnt /\ [Next]_vars => RankCnt'
<1> SUFFICES ASSUME TypeOK, RankCnt, [Next]_vars, NEW s \in Ranks
             PROVE  rank_cnt'[s] = Cardinality(QueuedFor(s)')
    BY DEF RankCnt
<1>1. trans \in [Tasks -> TransType] /\ rank_cnt \in [Ranks -> Int]
    BY DEF TypeOK, QueueType
<1>2. rank_cnt[s] = Cardinality(QueuedFor(s)) /\ IsFiniteSet(QueuedFor(s))
    BY QueuedFinite DEF RankCnt
<1>3. ASSUME NEW t \in Tasks, NEW r \in Ranks, addTransaction(t, r)
      PROVE  rank_cnt'[s] = Cardinality(QueuedFor(s)')
    <2>1. ~trans[t].on /\ trans'[t].on /\ trans'[t].rank = r
          /\ \A u \in Tasks : u # t => trans'[u] = trans[u]
        BY <1>1, <1>3 DEF addTransaction, Queued, Off
    <2>2. CASE s = r
        <3>1. QueuedFor(s)' = QueuedFor(s) \cup {t} /\ t \notin QueuedFor(s)
            BY <2>1, <2>2 DEF QueuedFor, On
        <3>2. Cardinality(QueuedFor(s)') = Cardinality(QueuedFor(s)) + 1
            BY <1>2, <3>1, FS_AddElement
        <3>3. rank_cnt'[s] = rank_cnt[s] + 1
            BY <1>1, <1>3, <2>2 DEF addTransaction
        <3> QED
            BY <1>2, <3>2, <3>3
    <2>3. CASE s # r
        <3>1. QueuedFor(s)' = QueuedFor(s)
            BY <2>1, <2>3 DEF QueuedFor, On
        <3>2. rank_cnt'[s] = rank_cnt[s]
            BY <1>1, <1>3, <2>3 DEF addTransaction
        <3> QED
            BY <1>2, <3>1, <3>2
    <2> QED
        BY <2>2, <2>3
<1>4. ASSUME NEW t \in Tasks, Retire(t)
      PROVE  rank_cnt'[s] = Cardinality(QueuedFor(s)')
    <2> DEFINE r == trans[t].rank
    <2>1. trans[t].on /\ ~trans'[t].on /\ \A u \in Tasks : u # t => trans'[u] = trans[u]
        BY <1>1, <1>4 DEF Retire, Finished, Queued, Off
    <2>2. rank_cnt' = [rank_cnt EXCEPT ![r] = @ - 1]
        BY <1>4 DEF Retire
    <2>3. CASE s = r
        <3>1. QueuedFor(s)' = QueuedFor(s) \ {t} /\ t \in QueuedFor(s)
            BY <2>1, <2>3 DEF QueuedFor, On
        <3>2. Cardinality(QueuedFor(s)') = Cardinality(QueuedFor(s)) - 1
            BY <1>2, <3>1, FS_RemoveElement
        <3>3. rank_cnt'[s] = rank_cnt[s] - 1
            BY <1>1, <2>2, <2>3
        <3> QED
            BY <1>2, <3>2, <3>3
    <2>4. CASE s # r
        <3>1. QueuedFor(s)' = QueuedFor(s)
            BY <2>1, <2>4 DEF QueuedFor, On
        <3>2. rank_cnt'[s] = rank_cnt[s]
            BY <1>1, <2>2, <2>4
        <3> QED
            BY <1>2, <3>1, <3>2
    <2> QED
        BY <2>3, <2>4
<1>5. CASE EndCycle \/ \E c \in CmdQueue : Schedule(c)
    <2>1. QueuedFor(s)' = QueuedFor(s)
        BY <1>5, SameQueue DEF QueuedFor, On
    <2>2. rank_cnt' = rank_cnt
        BY <1>5 DEF EndCycle, Schedule
    <2> QED
        BY <1>2, <2>1, <2>2
<1>6. CASE UNCHANGED queVars
    <2>1. QueuedFor(s)' = QueuedFor(s) /\ rank_cnt' = rank_cnt
        BY <1>6 DEF queVars, QueuedFor, On
    <2> QED
        BY <1>2, <2>1
<1> QED
    BY <1>3, <1>4, <1>5, <1>6, NextQueue

LEMMA Counted ==
    ASSUME RankCnt, NEW t \in Tasks, NEW r \in Ranks, On(t, r)
    PROVE  rank_cnt[r] > 0
<1>1. t \in QueuedFor(r) /\ IsFiniteSet(QueuedFor(r))
    BY QueuedFinite DEF QueuedFor
<1>2. Cardinality(QueuedFor(r)) \in Nat /\ Cardinality(QueuedFor(r)) # 0
    BY <1>1, FS_CardinalityType, FS_EmptySet
<1> QED
    BY <1>2 DEF RankCnt
-----------------------------------------------------------------------------
LEMMA PipeFullStep == TypeOK /\ RankCnt /\ PipeFull /\ [Next]_vars => PipeFull'
<1> SUFFICES ASSUME TypeOK, RankCnt, PipeFull, [Next]_vars,
                    NEW t \in Tasks, NEW r \in Ranks, On(t, r)',
                    NEW i \in 1 .. tCMD_WAKEUP, tCMD_WAKEUP - i < trans'[t].age
             PROVE  deqCmdWakeupLp'[r][i] > 0
    BY DEF PipeFull
<1>1. trans \in [Tasks -> TransType] /\ tCMD_WAKEUP \in Nat
    BY Constants DEF TypeOK, QueueType
<1>2. ASSUME NEW u \in Tasks, NEW s \in Ranks, addTransaction(u, s)
      PROVE  deqCmdWakeupLp'[r][i] > 0
    <2>1. u # t
        BY <1>1, <1>2 DEF addTransaction, Off
    <2>2. trans'[t] = trans[t] /\ deqCmdWakeupLp' = deqCmdWakeupLp
        BY <1>1, <1>2, <2>1 DEF addTransaction
    <2> QED
        BY <2>2 DEF PipeFull, On
<1>3. ASSUME NEW u \in Tasks, Retire(u) PROVE deqCmdWakeupLp'[r][i] > 0
    <2>1. u # t
        BY <1>1, <1>3 DEF Retire, Off, On
    <2>2. trans'[t] = trans[t] /\ deqCmdWakeupLp' = deqCmdWakeupLp
        BY <1>1, <1>3, <2>1 DEF Retire
    <2> QED
        BY <2>2 DEF PipeFull, On
<1>4. ASSUME NEW c \in CmdQueue, Schedule(c) PROVE deqCmdWakeupLp'[r][i] > 0
    <2>1. trans'[t] = NextTrans(t, c) /\ deqCmdWakeupLp' = deqCmdWakeupLp
        BY <1>4 DEF Schedule
    <2>2. trans'[t].age = trans[t].age
        BY <1>1, <2>1 DEF NextTrans, TransType
    <2>3. On(t, r)
        BY <1>4, SameQueue DEF On
    <2> QED
        BY <2>1, <2>2, <2>3 DEF PipeFull
<1>5. CASE EndCycle
    <2>1. On(t, r)
        BY <1>5, SameQueue DEF On
    <2>2. deqCmdWakeupLp'[r][i] = IF i = tCMD_WAKEUP THEN rank_cnt[r]
                                  ELSE deqCmdWakeupLp[r][i + 1]
        BY <1>5 DEF EndCycle
    <2>3. CASE i = tCMD_WAKEUP
        BY <2>1, <2>2, <2>3, Counted
    <2>4. CASE i # tCMD_WAKEUP
        <3>1. trans[t].age \in Nat
            BY <1>1, Constants DEF TransType, AgeMax
        <3>2. trans'[t].age = trans[t].age \/ trans'[t].age = trans[t].age + 1
            <4>1. trans'[t] = [trans[t] EXCEPT !.age =
                                 IF trans[t].on /\ @ < AgeMax THEN @ + 1 ELSE @]
                BY <1>5 DEF EndCycle
            <4> QED
                BY <1>1, <4>1 DEF TransType
        <3>3. i + 1 \in 1 .. tCMD_WAKEUP
            BY <1>1, <2>4
        <3>4. tCMD_WAKEUP - (i + 1) < trans[t].age
            BY <1>1, <3>1, <3>2
        <3> QED
            BY <2>1, <2>2, <2>4, <3>3, <3>4 DEF PipeFull
    <2> QED
        BY <2>3, <2>4
<1>6. CASE UNCHANGED queVars
    BY <1>6 DEF queVars, PipeFull, On
<1> QED
    BY <1>2, <1>3, <1>4, <1>5, <1>6, NextQueue
-----------------------------------------------------------------------------
(* Only two actions touch the states of the ranks.                         *)
LEMMA NextLp ==
    [Next]_vars => UpdateLpBegin \/ (\E r \in Ranks : UpdateLpRank(r)) \/ UNCHANGED RankState
    BY DEF Next, vars, lpVars, Inform, addTransaction, NoTransaction, UpdateLpEnd, LpEnd,
           SendPacket, SkipPacket, Exec, StateFresh, Schedule, NothingToSchedule, Retire,
           NothingToRetire, QuePipeline, PageTimeoutPolicy, Refresh, EndCycle

LEMMA BeginKeeps ==
    ASSUME TypeOK, UpdateLpBegin, NEW r \in Ranks
    PROVE  RankState'[r].lp_state = lp_state(r)
<1>1. RankState \in RankStateType
    BY DEF TypeOK, LowPowerType
<1>2. RankState'[r] = IF Blocked(r) THEN RankState[r] ELSE CountDown(RankState[r])
    BY DEF UpdateLpBegin, LpBegin
<1> QED
    BY <1>1, <1>2 DEF CountDown, lp_state

LEMMA LpRankBecomes ==
    ASSUME NEW r \in Ranks, LpRank(r)
    PROVE  RankState' = RankState \/ \E rs : Becomes(r, rs)
<1> USE DEF Stay, Enter, EnterPd, EnterAsref, EnterLow, Reload
<1>1. LpIdle(r) => RankState' = RankState \/ \E rs : Becomes(r, rs)
    BY DEF LpIdle
<1>2. LpPde(r) \/ LpPd(r) \/ LpPdlp(r) => RankState' = RankState \/ \E rs : Becomes(r, rs)
    BY DEF LpPde, LpPd, LpPdlp
<1>3. LpPdx(r) \/ LpAsrefe(r) => RankState' = RankState \/ \E rs : Becomes(r, rs)
    BY DEF LpPdx, LpAsrefe
<1>4. LpAsref(r) \/ LpAsrefx(r) => RankState' = RankState \/ \E rs : Becomes(r, rs)
    BY DEF LpAsref, LpAsrefx
<1>5. LpSrpde(r) \/ LpSrpd(r) => RankState' = RankState \/ \E rs : Becomes(r, rs)
    BY DEF LpSrpde, LpSrpd
<1>6. LpSrpdlp(r) \/ LpSrpdx(r) => RankState' = RankState \/ \E rs : Becomes(r, rs)
    BY DEF LpSrpdlp, LpSrpdx
<1> QED
    BY <1>1, <1>2, <1>3, <1>4, <1>5, <1>6 DEF LpRank

(* The loop over the ranks leaves an idle rank idle if something needs it. *)
LEMMA LpRankKeeps ==
    ASSUME TypeOK, NEW r \in Ranks, LpRank(r), NEW s \in Ranks, lp_state(s) = "IDLE",
           s # r \/ Wake(s)
    PROVE  RankState'[s].lp_state = "IDLE"
<1>1. RankState \in RankStateType
    BY DEF TypeOK, LowPowerType
<1>2. CASE s # r
    BY <1>1, <1>2, LpRankBecomes DEF Becomes, RankStateType, lp_state
<1>3. CASE s = r
    <2>1. LpIdle(r) /\ Wake(r)
        BY <1>3 DEF LpRank, LpPde, LpPd, LpPdlp, LpPdx, LpAsrefe, LpAsref, LpAsrefx,
                    LpSrpde, LpSrpd, LpSrpdlp, LpSrpdx
    <2>2. \E pd, asref : Reload(r, "IDLE", pd, asref)
        BY <2>1 DEF LpIdle, Wake
    <2> QED
        BY <1>1, <1>3, <2>2 DEF Reload, Becomes, RankStateType
<1> QED
    BY <1>2, <1>3
-----------------------------------------------------------------------------
LEMMA HasInvStep == TypeOK /\ PipeFull /\ HasInv /\ [Next]_vars => HasInv'
<1> SUFFICES ASSUME TypeOK, PipeFull, HasInv, [Next]_vars, phase' = "rank",
                    NEW t \in Tasks, NEW r \in Ranks, On(t, r)', trans'[t].age >= tCMD_WAKEUP
             PROVE  rank_has_cmd'[r]
    BY DEF HasInv
<1>1. \/ UpdateLpBegin
      \/ \E s \in Ranks : UpdateLpRank(s)
      \/ UNCHANGED vars
    BY DEF Next, Then, Inform, addTransaction, NoTransaction, UpdateLpEnd, SendPacket, SkipPacket,
           Exec, StateFresh, Schedule, NothingToSchedule, Retire, NothingToRetire, QuePipeline,
           PageTimeoutPolicy, Refresh, EndCycle
<1>2. CASE UpdateLpBegin
    <2>1. trans' = trans /\ rank_has_cmd' = has_cmd
        BY <1>2 DEF UpdateLpBegin, LpBegin, queVars
    <2>2. trans[t].age \in Nat /\ tCMD_WAKEUP \in Nat \ {0}
        BY Constants DEF TypeOK, QueueType, TransType, AgeMax
    <2>3. 1 \in 1 .. tCMD_WAKEUP /\ tCMD_WAKEUP - 1 < trans[t].age
        BY <2>1, <2>2
    <2>4. deqCmdWakeupLp[r][1] > 0
        BY <2>1, <2>3 DEF PipeFull, On
    <2> QED
        BY <2>1, <2>4 DEF has_cmd
<1>3. ASSUME NEW s \in Ranks, UpdateLpRank(s) PROVE rank_has_cmd'[r]
    BY <1>3 DEF UpdateLpRank, LpRank, queVars, At, HasInv, On
<1>4. CASE UNCHANGED vars
    BY <1>4 DEF vars, queVars, lpVars, HasInv, On
<1> QED
    BY <1>1, <1>2, <1>3, <1>4
-----------------------------------------------------------------------------
(* refresh either leaves CmdQueue alone or queues one command, of a rank   *)
(* that is idle and is kept so.                                            *)
LEMMA RefreshQueues ==
    ASSUME Refresh
    PROVE  \/ CmdQueue' = CmdQueue
           \/ \E r \in Ranks, ty \in {"PRE_AB", "REF"} :
                  /\ lp_state(r) = "IDLE" /\ wakeup'[r]
                  /\ CmdQueue' = {[type |-> ty, rank |-> r, task |-> NoTask]}
<1>1. CASE ~AREF_EN
    BY <1>1 DEF Refresh
<1>2. CASE AREF_EN
    <2>1. PICK due \in SUBSET CanBeDue : RefreshWith(due)
        BY <1>2 DEF Refresh
    <2> DEFINE wants == {r \in Ranks : WantsPre(r, due) \/ WantsRef(r, due)}
    <2>2. wakeup' = Woken(wants)
        BY <2>1 DEF RefreshWith
    <2>3. \/ CmdQueue' = CmdQueue
          \/ \E r \in wants : /\ lp_state(r) = "IDLE"
                             /\ CmdQueue' = {[type |-> IF WantsPre(r, due) THEN "PRE_AB" ELSE "REF",
                                              rank |-> r, task |-> NoTask]}
        BY <2>1 DEF RefreshWith
    <2>4. \A r \in wants : r \in Ranks /\ wakeup'[r]
        BY <2>2 DEF Woken
    <2> QED
        BY <2>3, <2>4
<1> QED
    BY <1>1, <1>2

LEMMA QueueInvStep == TypeOK /\ QueueInv /\ [Next]_vars => QueueInv'
<1> SUFFICES ASSUME TypeOK, QueueInv, [Next]_vars PROVE QueueInv'
    OBVIOUS
<1> USE DEF QueueInv, Queueing, Waiting, At, Then, ctlVars, queVars, On
<1>a. trans \in [Tasks -> TransType] /\ tCMD2SCH \in Nat
    BY Constants DEF TypeOK, QueueType
<1>b. \A c \in CmdQueue : c.task \in Tasks \cup {NoTask} /\ c.rank \in Ranks
    BY DEF TypeOK, RegisterType, CmdSet
<1>1. CASE Inform
    BY <1>1 DEF Inform
<1>2. ASSUME NEW t \in Tasks, NEW r \in Ranks, addTransaction(t, r) PROVE QueueInv'
    <2>1. ~trans[t].on /\ \A u \in Tasks : u # t => trans'[u] = trans[u]
        BY <1>a, <1>2 DEF addTransaction, Queued
    <2>2. \A c \in CmdQueue : c.task # NoTask => trans'[c.task] = trans[c.task]
        BY <1>b, <1>2, <2>1 DEF addTransaction
    <2> QED
        BY <1>2, <2>2 DEF addTransaction, lpVars
<1>3. CASE NoTransaction
    BY <1>3 DEF NoTransaction, lpVars
<1>4. CASE UpdateLpBegin
    BY <1>4 DEF UpdateLpBegin, LpBegin
<1>5. ASSUME NEW r \in Ranks, UpdateLpRank(r) PROVE QueueInv'
    BY <1>5 DEF UpdateLpRank, LpRank
<1>6. CASE UpdateLpEnd
    BY <1>6 DEF UpdateLpEnd
<1>7. CASE SendPacket
    BY <1>7 DEF SendPacket
<1>8. CASE SkipPacket
    BY <1>8 DEF SkipPacket
<1>9. CASE Exec
    BY <1>9 DEF Exec
<1>10. CASE StateFresh
    BY <1>10 DEF StateFresh
<1>11. ASSUME NEW c \in CmdQueue, Schedule(c) PROVE QueueInv'
    BY <1>11 DEF Schedule
<1>12. CASE NothingToSchedule
    BY <1>12 DEF NothingToSchedule
<1>13. ASSUME NEW t \in Tasks, Retire(t) PROVE QueueInv'
    BY <1>13 DEF Retire
<1>14. CASE NothingToRetire
    BY <1>14 DEF NothingToRetire
<1>15. CASE QuePipeline
    <2>1. \A c \in CmdQueue' : \E t \in Eligible : c.task = t /\ c.rank = trans[t].rank
        BY <1>15 DEF QuePipeline
    <2>2. \A t \in Eligible : t # NoTask /\ trans[t].on /\ trans[t].age >= tCMD2SCH
        BY CommandAssumption DEF Eligible, Queued
    <2> QED
        BY <1>15, <2>1, <2>2 DEF QuePipeline
<1>16. CASE PageTimeoutPolicy
    <2>1. \A c \in CmdQueue' : c \in CmdQueue \/ (c.task = NoTask /\ c.rank \in Ranks /\ Close(c.rank))
        BY <1>16 DEF PageTimeoutPolicy
    <2>2. \A r \in Ranks : wakeup[r] \/ Close(r) => wakeup'[r]
        BY <1>16 DEF PageTimeoutPolicy, Woken
    <2>3. phase = "ptp" /\ phase' = "ref" /\ trans' = trans
        BY <1>16 DEF PageTimeoutPolicy
    <2> QED
        BY <1>b, <2>1, <2>2, <2>3
<1>17. CASE Refresh
    <2>1. phase = "ref" /\ phase' = "data" /\ trans' = trans
        BY <1>17 DEF Refresh
    <2>2. \A r \in Ranks : wakeup[r] => wakeup'[r]
        BY <1>17 DEF Refresh, RefreshWith, Woken
    <2>3. ASSUME NEW c \in CmdQueue', c \notin CmdQueue
          PROVE  c.task = NoTask /\ c.rank \in Ranks /\ wakeup'[c.rank]
        <3>0. CmdQueue' # CmdQueue
            BY <2>3
        <3>1. PICK r \in Ranks, ty \in {"PRE_AB", "REF"} :
                  /\ lp_state(r) = "IDLE" /\ wakeup'[r]
                  /\ CmdQueue' = {[type |-> ty, rank |-> r, task |-> NoTask]}
            BY <1>17, <3>0, RefreshQueues
        <3>2. c = [type |-> ty, rank |-> r, task |-> NoTask]
            BY <3>1
        <3>3. c.task = NoTask /\ c.rank = r
            BY <3>2
        <3> QED
            BY <3>1, <3>3
    <2> QED
        BY <1>b, <2>1, <2>2, <2>3
<1>18. CASE EndCycle
    <2>1. /\ phase = "data" /\ phase' = "inform" /\ CmdQueue' = CmdQueue /\ wakeup' = wakeup
          /\ \A t \in Tasks : trans'[t] = [trans[t] EXCEPT !.age =
                                  IF trans[t].on /\ @ < AgeMax THEN @ + 1 ELSE @]
        BY <1>18 DEF EndCycle, lpVars
    <2>2. \A t \in Tasks, r \in Ranks :
              On(t, r) /\ trans[t].age >= tCMD2SCH
                  => On(t, r)' /\ trans'[t].age >= tCMD2SCH + 1
        <3> TAKE t \in Tasks, r \in Ranks
        <3>1. HAVE On(t, r) /\ trans[t].age >= tCMD2SCH
        <3>2. trans[t].age \in 0 .. tCMD2SCH + 1 /\ trans[t] \in TransType
            BY <1>a DEF TransType, AgeMax
        <3>3. /\ trans'[t].on = trans[t].on /\ trans'[t].rank = trans[t].rank
              /\ trans'[t].age = IF trans[t].age < AgeMax THEN trans[t].age + 1 ELSE trans[t].age
            <4>1. trans'[t] = [trans[t] EXCEPT !.age =
                                 IF trans[t].age < AgeMax THEN trans[t].age + 1 ELSE trans[t].age]
                BY <2>1, <3>1
            <4> QED
                BY <3>2, <4>1 DEF TransType
        <3>4. trans'[t].age >= tCMD2SCH + 1
            BY <1>a, <3>1, <3>2, <3>3 DEF AgeMax
        <3> QED
            BY <3>1, <3>3, <3>4
    <2> QED
        BY <1>b, <2>1, <2>2
<1>19. CASE UNCHANGED vars
    BY <1>19 DEF vars, lpVars
<1> QED
    BY <1>1, <1>2, <1>3, <1>4, <1>5, <1>6, <1>7, <1>8, <1>9, <1>10, <1>11, <1>12, <1>13,
       <1>14, <1>15, <1>16, <1>17, <1>18, <1>19 DEF Next

(* Only four actions touch CmdQueue.                                       *)
LEMMA NextCmd ==
    [Next]_vars => \/ \E c \in CmdQueue : Schedule(c)
                   \/ QuePipeline \/ PageTimeoutPolicy \/ Refresh
                   \/ UNCHANGED CmdQueue
    BY DEF Next, vars, ctlVars, Inform, addTransaction, NoTransaction, UpdateLpBegin, UpdateLpRank,
           UpdateLpEnd, SendPacket, SkipPacket, Exec, StateFresh, NothingToSchedule, Retire,
           NothingToRetire, EndCycle

LEMMA NoCmdStep ==
    TypeOK /\ HasInv /\ QueueInv /\ NoCmdInLpState /\ [Next]_vars => NoCmdInLpState'
<1> SUFFICES ASSUME TypeOK, HasInv, QueueInv, NoCmdInLpState, [Next]_vars, NEW c \in CmdQueue'
             PROVE  RankState'[c.rank].lp_state = "IDLE"
    BY DEF NoCmdInLpState, lp_state
<1>1. CASE \E d \in CmdQueue : Schedule(d)
    BY <1>1 DEF Schedule
<1>2. CASE QuePipeline
    <2>1. CmdQueue = {} /\ RankState' = RankState
        BY <1>2 DEF QuePipeline, QueueInv, At, lpVars
    <2>2. \E t \in Eligible : c.rank = trans[t].rank
        BY <1>2, <2>1 DEF QuePipeline
    <2> QED
        BY <2>1, <2>2 DEF Eligible, lc, lp_state
<1>3. CASE PageTimeoutPolicy
    BY <1>3 DEF PageTimeoutPolicy, NoCmdInLpState, lp_state
<1>4. CASE Refresh
    <2>1. RankState' = RankState
        BY <1>4 DEF Refresh
    <2>2. c \in CmdQueue \/ lp_state(c.rank) = "IDLE"
        BY <1>4, RefreshQueues
    <2> QED
        BY <2>1, <2>2 DEF NoCmdInLpState, lp_state
<1>5. CASE UNCHANGED CmdQueue
    <2>1. c \in CmdQueue /\ lp_state(c.rank) = "IDLE" /\ c.rank \in Ranks
        BY <1>5 DEF NoCmdInLpState, TypeOK, RegisterType, CmdSet
    <2>2. CASE UpdateLpBegin
        BY <2>1, <2>2, BeginKeeps
    <2>3. ASSUME NEW r \in Ranks, UpdateLpRank(r) PROVE RankState'[c.rank].lp_state = "IDLE"
        <3>1. phase = "rank" /\ LpRank(r)
            BY <2>3 DEF UpdateLpRank, At
        <3>2. CASE c.task = NoTask
            <4>1. Wake(c.rank)
                BY <2>1, <3>1, <3>2 DEF QueueInv, Waiting, Wake
            <4> QED
                BY <2>1, <3>1, <4>1, LpRankKeeps
        <3>3. CASE c.task # NoTask
            <4>1. c.task \in Tasks /\ On(c.task, c.rank) /\ trans[c.task].age >= tCMD2SCH + 1
                BY <2>1, <3>1, <3>3 DEF QueueInv, Waiting, TypeOK, RegisterType, CmdSet
            <4>2. trans[c.task].age >= tCMD_WAKEUP
                <5>1. trans[c.task].age \in Nat
                    BY <4>1, Constants DEF TypeOK, QueueType, TransType, AgeMax
                <5> QED
                    BY <4>1, <5>1, Constants
            <4>3. Wake(c.rank)
                BY <2>1, <3>1, <4>1, <4>2 DEF HasInv, Wake
            <4> QED
                BY <2>1, <3>1, <4>3, LpRankKeeps
        <3> QED
            BY <3>2, <3>3
    <2>4. CASE UNCHANGED RankState
        BY <2>1, <2>4 DEF lp_state
    <2> QED
        BY <2>2, <2>3, <2>4, NextLp
<1> QED
    BY <1>1, <1>2, <1>3, <1>4, <1>5, NextCmd
-----------------------------------------------------------------------------
LEMMA SleepInit == Init => SleepInv
<1> SUFFICES ASSUME Init PROVE SleepInv
    OBVIOUS
<1>1. \A t \in Tasks, r \in Ranks : ~On(t, r)
    BY DEF Init, On, Off
<1>2. RankCnt
    <2>1. \A r \in Ranks : QueuedFor(r) = {}
        BY <1>1 DEF QueuedFor
    <2> QED
        BY <2>1, FS_EmptySet DEF Init, RankCnt
<1>3. PipeFull /\ HasInv
    BY <1>1 DEF PipeFull, HasInv
<1>4. QueueInv /\ NoCmdInLpState
    BY DEF Init, QueueInv, NoCmdInLpState
<1> QED
    BY <1>2, <1>3, <1>4 DEF SleepInv

LEMMA SleepStep == TypeOK /\ SleepInv /\ [Next]_vars => SleepInv'
    BY RankCntStep, PipeFullStep, HasInvStep, QueueInvStep, NoCmdStep DEF SleepInv

(* No command that waits for the scheduler is for a rank in a low-power    *)
(* state: the assertion of data_fresh, carried over to the scheduler.      *)
THEOREM SleepSafe == Spec => []NoCmdInLpState
    BY TypeInit, TypeStep, SleepInit, SleepStep, PTL DEF Spec, SleepInv

(* update_lp_state does not put a rank to sleep that has a transaction     *)
(* older than the wake-up pipe.                                            *)
THEOREM AwakeSafe == Spec => AwakeUntilServed
<1>1. TypeOK /\ SleepInv /\ [Next]_vars =>
        [\A t \in Tasks, r \in Ranks :
            On(t, r) /\ trans[t].age >= tCMD_WAKEUP /\ lp_state(r) = "IDLE"
                => RankState'[r].lp_state = "IDLE"]_vars
    <2> SUFFICES ASSUME TypeOK, SleepInv, [Next]_vars, NEW t \in Tasks, NEW r \in Ranks,
                        On(t, r), trans[t].age >= tCMD_WAKEUP, lp_state(r) = "IDLE"
                 PROVE  RankState'[r].lp_state = "IDLE"
        OBVIOUS
    <2>1. CASE UpdateLpBegin
        BY <2>1, BeginKeeps
    <2>2. ASSUME NEW s \in Ranks, UpdateLpRank(s) PROVE RankState'[r].lp_state = "IDLE"
        <3>1. Wake(r) /\ LpRank(s)
            BY <2>2 DEF UpdateLpRank, At, SleepInv, HasInv, Wake
        <3> QED
            BY <3>1, LpRankKeeps
    <2>3. CASE UNCHANGED RankState
        BY <2>3 DEF lp_state
    <2> QED
        BY <2>1, <2>2, <2>3, NextLp
<1> QED
    BY <1>1, TypeInit, TypeStep, SleepInit, SleepStep, PTL DEF Spec, AwakeUntilServed
=============================================================================
