--------------------------- MODULE DramLegal_proofs ---------------------------
(***************************************************************************)
(* Why what the DRAM receives is legal, for every value of the constants:  *)
(* theorems about the banks of CommandPath, about the packets on their     *)
(* way, about what a rank will have been told when they have arrived, and  *)
(* about the PHY, which must be awake when a command leaves.               *)
(***************************************************************************)
EXTENDS CommandPath_proofs

(***************************************************************************)
(* The banks.  Between the two commands of an activation the bank belongs  *)
(* to one transaction; a queued command finds its bank as it was when it   *)
(* was queued; a bank that refreshes is left alone until it is done.       *)
(***************************************************************************)
Activating(t, r) == On(t, r) /\ trans[t].act
HalfDone(t)      == trans[t].issue_size \in 1 .. BURSTS - 1

ActInv ==
    /\ \A t \in Tasks, r \in Ranks : Activating(t, r) =>
          /\ bankStates[r].act_executing
          /\ trans[t].issue_size < BURSTS /\ trans[t].age >= tCMD2SCH
          /\ \A u \in Tasks : Activating(u, r) => u = t
    /\ \A r \in Ranks : bankStates[r].act_executing =>
          /\ bankStates[r].state # "RowActive"
          /\ \E t \in Tasks : Activating(t, r)

CmdOk(c) ==
    /\ c.type \in {"ACT1", "ACT2", "RW"} =>
          /\ c.task \in Tasks /\ On(c.task, c.rank)
          /\ trans[c.task].issue_size < BURSTS /\ trans[c.task].age >= tCMD2SCH
    /\ c.type \in {"RW", "PRE_PB", "PRE_AB"} <=> bankStates[c.rank].state = "RowActive"
    /\ c.type = "ACT1" => ~bankStates[c.rank].act_executing
    /\ c.type = "ACT2" => trans[c.task].act
    /\ c.type = "REF" => /\ \A s \in Ranks : ~bankStates[s].act_executing
                         /\ \A t \in Tasks : On(t, c.rank) => ~HalfDone(t)

CmdInv == \A c \in CmdQueue : CmdOk(c)

RefInv == \A r \in Ranks : refreshALL[r].refreshing =>
    /\ bankStates[r].state = "Refreshing" /\ ~bankStates[r].act_executing
    /\ \A c \in CmdQueue : c.rank # r
    /\ \A t \in Tasks : On(t, r) => ~HalfDone(t)

BankInv == ActInv /\ CmdInv /\ RefInv
-----------------------------------------------------------------------------
(* Which actions touch the transactions, the banks and CmdQueue.           *)
LEMMA NextBankVars ==
    [Next]_vars =>
        \/ \E t \in Tasks, r \in Ranks : addTransaction(t, r)
        \/ StateFresh
        \/ \E c \in CmdQueue : Schedule(c)
        \/ \E t \in Tasks : Retire(t)
        \/ QuePipeline
        \/ PageTimeoutPolicy
        \/ Refresh
        \/ EndCycle
        \/ UNCHANGED <<trans, bankStates, refreshALL, CmdQueue>>
    BY DEF Next, vars, ctlVars, queVars, bankVars, Inform, NoTransaction, UpdateLpBegin, UpdateLpRank,
           UpdateLpEnd, SendPacket, SkipPacket, Exec, NothingToSchedule, NothingToRetire

(* What the scheduler does to the transactions.                            *)
LEMMA ScheduleTrans ==
    ASSUME TypeOK, NEW c \in CmdQueue, Schedule(c), NEW t \in Tasks
    PROVE  /\ trans'[t].on <=> trans[t].on
           /\ trans'[t].rank = trans[t].rank /\ trans'[t].age = trans[t].age
           /\ ~(c.type = "RW" /\ t = c.task) => trans'[t].issue_size = trans[t].issue_size
           /\ c.type = "RW" /\ t = c.task => trans'[t].issue_size = trans[t].issue_size + 1
           /\ trans'[t].act <=> \/ c.type = "ACT1" /\ t = c.task
                                \/ /\ trans[t].act
                                   /\ ~(c.type = "ACT2" /\ t = c.task)
                                   /\ ~(c.type \in {"PRE_PB", "PRE_AB"} /\ On(t, c.rank))
<1>1. trans[t] \in TransType
    BY DEF TypeOK, QueueType
<1>2. trans'[t] = NextTrans(t, c)
    BY DEF Schedule
<1> QED
    BY <1>1, <1>2 DEF NextTrans, TransType

(* What the scheduler does to the banks.                                   *)
LEMMA ScheduleBank ==
    ASSUME TypeOK, NEW c \in CmdQueue, Schedule(c), NEW r \in Ranks
    PROVE  /\ r # c.rank => bankStates'[r] = bankStates[r]
           /\ r = c.rank =>
                /\ bankStates'[r].state = CASE c.type = "ACT2" -> "RowActive"
                                            [] c.type = "REF" -> "Refreshing"
                                            [] c.type \in {"PRE_PB", "PRE_AB"} -> "Precharging"
                                            [] c.type \in {"ACT1", "RW"} -> bankStates[r].state
                /\ bankStates'[r].act_executing <=>
                      c.type = "ACT1" \/ (c.type # "ACT2" /\ bankStates[r].act_executing)
<1>1. bankStates \in [Ranks -> BankType] /\ bankStates[r] \in BankType
    BY DEF TypeOK, BanksType
<1>2. c.type \in CmdTypes /\ c.rank \in Ranks
    BY CmdSetOf
<1>3. bankStates' = [bankStates EXCEPT ![c.rank] = NextBank(bankStates[c.rank], c)]
    BY DEF Schedule
<1>4. r # c.rank => bankStates'[r] = bankStates[r]
    BY <1>1, <1>3
<1>5. r = c.rank => bankStates'[r] = NextBank(bankStates[r], c)
    BY <1>1, <1>3
<1> QED
    BY <1>1, <1>2, <1>4, <1>5 DEF NextBank, CmdTypes, BankType

(* The other actions that touch both.                                      *)
LEMMA FreshBank ==
    ASSUME TypeOK, StateFresh, NEW r \in Ranks
    PROVE  /\ bankStates'[r].act_executing <=> bankStates[r].act_executing
           /\ bankStates'[r].state = IF Over(r) THEN "Idle" ELSE bankStates[r].state
<1>1. bankStates[r] \in BankType
    BY DEF TypeOK, BanksType
<1> QED
    BY <1>1 DEF StateFresh, BankType

LEMMA TimeoutBank ==
    ASSUME TypeOK, PageTimeoutPolicy, NEW r \in Ranks
    PROVE  /\ bankStates'[r].act_executing <=> bankStates[r].act_executing
           /\ bankStates'[r].state = bankStates[r].state
<1>1. bankStates[r] \in BankType
    BY DEF TypeOK, BanksType
<1> QED
    BY <1>1 DEF PageTimeoutPolicy, BankType

LEMMA ClockTrans ==
    ASSUME TypeOK, EndCycle, NEW t \in Tasks
    PROVE  /\ trans'[t].on <=> trans[t].on
           /\ trans'[t].act <=> trans[t].act
           /\ trans'[t].rank = trans[t].rank /\ trans'[t].issue_size = trans[t].issue_size
           /\ trans'[t].age \in Nat /\ trans[t].age \in Nat /\ trans'[t].age >= trans[t].age
<1>1. trans[t] \in TransType /\ AgeMax \in Nat
    BY Constants DEF TypeOK, QueueType, AgeMax
<1>2. trans'[t] = [trans[t] EXCEPT !.age = IF trans[t].on /\ @ < AgeMax THEN @ + 1 ELSE @]
    BY DEF EndCycle
<1> QED
    BY <1>1, <1>2 DEF TransType

LEMMA AddTrans ==
    ASSUME TypeOK, NEW s \in Tasks, NEW q \in Ranks, addTransaction(s, q), NEW t \in Tasks
    PROVE  /\ t # s => trans'[t] = trans[t]
           /\ t = s => ~trans[t].on /\ trans'[t].rank = q /\ ~trans'[t].act /\ trans'[t].issue_size = 0
    BY DEF addTransaction, TypeOK, QueueType, TransType, Off, Queued

LEMMA RetireTrans ==
    ASSUME TypeOK, NEW s \in Tasks, Retire(s), NEW t \in Tasks
    PROVE  /\ t # s => trans'[t] = trans[t]
           /\ t = s => trans[t].issue_size >= BURSTS /\ ~trans'[t].on
    BY DEF Retire, TypeOK, QueueType, TransType, Off, Finished

(* What refresh may queue.                                                 *)
LEMMA RefreshWants ==
    ASSUME Refresh
    PROVE  \/ CmdQueue' = CmdQueue
           \/ \E r \in Ranks, ty \in {"PRE_AB", "REF"} :
                  /\ CmdQueue' = {[type |-> ty, rank |-> r, task |-> NoTask]}
                  /\ ~Hold(r) /\ ~refreshALL[r].refreshing
                  /\ (ty = "PRE_AB" <=> bankStates[r].state = "RowActive")
<1>1. CASE ~AREF_EN
    BY <1>1 DEF Refresh
<1>2. CASE AREF_EN
    <2>1. PICK due \in SUBSET CanBeDue : RefreshWith(due)
        BY <1>2 DEF Refresh
    <2>2. \/ CmdQueue' = CmdQueue
          \/ \E r \in Ranks : /\ WantsPre(r, due) \/ WantsRef(r, due)
                             /\ CmdQueue' = {[type |-> IF WantsPre(r, due) THEN "PRE_AB" ELSE "REF",
                                              rank |-> r, task |-> NoTask]}
        BY <2>1 DEF RefreshWith
    <2> QED
        BY <2>2 DEF WantsPre, WantsRef, Wants, BankReady
<1> QED
    BY <1>1, <1>2

LEMMA RefreshingKept ==
    ASSUME TypeOK, Refresh, NEW r \in Ranks
    PROVE  refreshALL'[r].refreshing = refreshALL[r].refreshing
<1>1. refreshALL[r] \in [refreshWaiting : BOOLEAN, refreshing : BOOLEAN]
    BY DEF TypeOK, BanksType
<1> QED
    BY <1>1 DEF Refresh, RefreshWith
-----------------------------------------------------------------------------
LEMMA TaskNames == NoTask \notin Tasks
    BY CommandAssumption

LEMMA TransTypes ==
    ASSUME TypeOK, NEW t \in Tasks
    PROVE  /\ trans[t].age \in Nat /\ trans[t].issue_size \in Nat /\ trans[t].rank \in Ranks
           /\ trans[t].act \in BOOLEAN /\ trans[t].on \in BOOLEAN
           /\ BURSTS \in Nat /\ tCMD2SCH \in Nat
    BY CommandAssumption, Constants DEF TypeOK, QueueType, TransType, AgeMax

LEMMA ActStep == TypeOK /\ QueueInv /\ BankInv /\ [Next]_vars => ActInv'
<1> SUFFICES ASSUME TypeOK, QueueInv, BankInv, [Next]_vars PROVE ActInv'
    OBVIOUS
<1> USE DEF ActInv, Activating, On
<1>a. ActInv
    BY DEF BankInv
<1>1. ASSUME NEW s \in Tasks, NEW q \in Ranks, addTransaction(s, q) PROVE ActInv'
    <2>1. bankStates' = bankStates
        BY <1>1 DEF addTransaction
    <2>2. \A t \in Tasks, r \in Ranks : /\ Activating(t, r)' <=> Activating(t, r)
                                        /\ Activating(t, r) => trans'[t] = trans[t]
        BY <1>1, AddTrans
    <2> QED
        BY <1>a, <2>1, <2>2
<1>2. CASE StateFresh
    <2>1. trans' = trans
        BY <1>2 DEF StateFresh, queVars
    <2> QED
        BY <1>a, <1>2, <2>1, FreshBank
<1>3. ASSUME NEW c \in CmdQueue, Schedule(c) PROVE ActInv'
    <2>0. c.rank \in Ranks /\ c.type \in CmdTypes /\ CmdOk(c)
        BY CmdSetOf DEF BankInv, CmdInv
    <2>1. CASE c.type = "ACT1"
        <3>1. \A t \in Tasks, r \in Ranks :
                 /\ bankStates'[r].state = bankStates[r].state
                 /\ bankStates'[r].act_executing <=> r = c.rank \/ bankStates[r].act_executing
                 /\ Activating(t, r)' <=> (t = c.task /\ r = c.rank) \/ Activating(t, r)
                 /\ trans'[t].age = trans[t].age /\ trans'[t].issue_size = trans[t].issue_size
            <4> TAKE t \in Tasks, r \in Ranks
            <4>1. bankStates[r] \in BankType
                BY DEF TypeOK, BanksType
            <4>2. /\ bankStates'[r].state = bankStates[r].state
                  /\ bankStates'[r].act_executing <=> r = c.rank \/ bankStates[r].act_executing
                BY <1>3, <2>0, <2>1, <4>1, ScheduleBank DEF BankType
            <4>3. Activating(t, r)' <=> (t = c.task /\ r = c.rank) \/ Activating(t, r)
                BY <1>3, <2>0, <2>1, ScheduleTrans, TransTypes DEF CmdOk
            <4> QED
                BY <1>3, <2>1, <4>2, <4>3, ScheduleTrans
        <3>2. \A t \in Tasks : ~Activating(t, c.rank)
            BY <1>a, <2>0, <2>1 DEF CmdOk
        <3>3. /\ c.task \in Tasks /\ trans[c.task].issue_size < BURSTS /\ trans[c.task].age >= tCMD2SCH
              /\ bankStates[c.rank].state # "RowActive"
            BY <2>0, <2>1 DEF CmdOk
        <3> HIDE DEF Activating
        <3> QED
            BY <1>a, <2>0, <3>1, <3>2, <3>3
    <2>2. CASE c.type = "ACT2"
        <3>1. Activating(c.task, c.rank) /\ c.task \in Tasks
            BY <2>0, <2>2 DEF CmdOk
        <3>2. \A t \in Tasks, r \in Ranks :
                 /\ r # c.rank => /\ bankStates'[r] = bankStates[r]
                                  /\ Activating(t, r)' <=> Activating(t, r)
                 /\ r = c.rank => ~bankStates'[r].act_executing /\ ~Activating(t, r)'
                 /\ trans'[t].age = trans[t].age /\ trans'[t].issue_size = trans[t].issue_size
            <4> TAKE t \in Tasks, r \in Ranks
            <4>1. r # c.rank => bankStates'[r] = bankStates[r]
                BY <1>3, ScheduleBank
            <4>2. r = c.rank => ~bankStates'[r].act_executing
                BY <1>3, <2>2, ScheduleBank
            <4>3. r # c.rank => (Activating(t, r)' <=> Activating(t, r))
                BY <1>3, <2>2, <3>1, ScheduleTrans
            <4>4. r = c.rank => ~Activating(t, r)'
                BY <1>a, <1>3, <2>0, <2>2, <3>1, ScheduleTrans
            <4> QED
                BY <1>3, <2>2, <4>1, <4>2, <4>3, <4>4, ScheduleTrans
        <3> HIDE DEF Activating
        <3> QED
            BY <1>a, <2>0, <3>1, <3>2
    <2>3. CASE c.type \in {"RW", "PRE_PB", "PRE_AB"}
        <3>1. bankStates[c.rank].state = "RowActive" /\ ~bankStates[c.rank].act_executing
            BY <1>a, <2>0, <2>3 DEF CmdOk
        <3>2. \A t \in Tasks : ~Activating(t, c.rank)
            BY <1>a, <2>0, <3>1
        <3>3. \A t \in Tasks, r \in Ranks :
                 /\ r # c.rank => /\ bankStates'[r] = bankStates[r]
                                  /\ Activating(t, r)' <=> Activating(t, r)
                                  /\ Activating(t, r) => trans'[t].age = trans[t].age
                                           /\ trans'[t].issue_size = trans[t].issue_size
                 /\ r = c.rank => ~bankStates'[r].act_executing /\ ~Activating(t, r)'
            <4> TAKE t \in Tasks, r \in Ranks
            <4>1. r # c.rank => bankStates'[r] = bankStates[r]
                BY <1>3, ScheduleBank
            <4>2. r = c.rank => ~bankStates'[r].act_executing
                BY <1>3, <2>3, <3>1, ScheduleBank
            <4>3. r # c.rank => (Activating(t, r)' <=> Activating(t, r))
                BY <1>3, <2>3, ScheduleTrans
            <4>4. r = c.rank => ~Activating(t, r)'
                BY <1>3, <2>3, <3>2, ScheduleTrans
            <4>5. r # c.rank /\ Activating(t, r) => trans'[t].age = trans[t].age
                                           /\ trans'[t].issue_size = trans[t].issue_size
                BY <1>3, <2>0, <2>3, ScheduleTrans DEF CmdOk
            <4> QED
                BY <4>1, <4>2, <4>3, <4>4, <4>5
        <3>4. \A t \in Tasks, r \in Ranks : Activating(t, r)' =>
                  /\ bankStates'[r].act_executing /\ trans'[t].issue_size < BURSTS
                  /\ trans'[t].age >= tCMD2SCH
                  /\ \A u \in Tasks : Activating(u, r)' => u = t
            <4> HIDE DEF Activating
            <4> QED
                BY <1>a, <3>3
        <3>5. \A r \in Ranks : bankStates'[r].act_executing =>
                  bankStates'[r].state # "RowActive" /\ \E t \in Tasks : Activating(t, r)'
            <4>1. \A r \in Ranks : bankStates'[r].act_executing => bankStates'[r] = bankStates[r] /\ r # c.rank
                BY <1>3, <2>3, <3>1, ScheduleBank
            <4> HIDE DEF Activating
            <4> QED
                BY <1>a, <3>3, <4>1
        <3> QED
            BY <3>4, <3>5
    <2>4. CASE c.type = "REF"
        <3>1. \A r \in Ranks : /\ ~bankStates[r].act_executing
                               /\ bankStates'[r].act_executing <=> bankStates[r].act_executing
            BY <1>3, <2>0, <2>4, ScheduleBank DEF CmdOk
        <3>2. \A t \in Tasks, r \in Ranks : ~Activating(t, r)
            BY <1>a, <3>1
        <3>3. \A t \in Tasks, r \in Ranks : ~Activating(t, r)'
            BY <1>3, <2>4, <3>2, ScheduleTrans
        <3> HIDE DEF Activating
        <3> QED
            BY <3>1, <3>3
    <2> QED
        BY <2>0, <2>1, <2>2, <2>3, <2>4 DEF CmdTypes
<1>4. ASSUME NEW s \in Tasks, Retire(s) PROVE ActInv'
    <2>1. bankStates' = bankStates
        BY <1>4 DEF Retire, bankVars
    <2>2. \A r \in Ranks : ~Activating(s, r)
        BY <1>a, <1>4, RetireTrans, TransTypes
    <2>3. \A t \in Tasks, r \in Ranks : /\ Activating(t, r)' <=> Activating(t, r)
                                        /\ Activating(t, r) => trans'[t] = trans[t]
        BY <1>4, <2>2, RetireTrans
    <2> HIDE DEF Activating
    <2> QED
        BY <1>a, <2>1, <2>3
<1>5. CASE PageTimeoutPolicy
    <2>1. trans' = trans
        BY <1>5 DEF PageTimeoutPolicy, queVars
    <2> QED
        BY <1>a, <1>5, <2>1, TimeoutBank
<1>6. CASE EndCycle
    <2>1. bankStates' = bankStates
        BY <1>6 DEF EndCycle, bankVars
    <2>2. \A t \in Tasks, r \in Ranks : /\ Activating(t, r)' <=> Activating(t, r)
                                        /\ trans'[t].issue_size = trans[t].issue_size
                                        /\ trans[t].age >= tCMD2SCH => trans'[t].age >= tCMD2SCH
        BY <1>6, ClockTrans, TransTypes
    <2> HIDE DEF Activating
    <2> QED
        BY <1>a, <2>1, <2>2
<1>7. CASE UNCHANGED <<trans, bankStates>>
    BY <1>a, <1>7
<1>8. QuePipeline \/ Refresh => UNCHANGED <<trans, bankStates>>
    BY DEF QuePipeline, Refresh, queVars, bankVars
<1> QED
    BY <1>1, <1>2, <1>3, <1>4, <1>5, <1>6, <1>7, <1>8, NextBankVars

LEMMA CmdStep == TypeOK /\ QueueInv /\ BankInv /\ [Next]_vars => CmdInv'
<1> SUFFICES ASSUME TypeOK, QueueInv, BankInv, [Next]_vars, NEW c \in CmdQueue' PROVE CmdOk(c)'
    BY DEF CmdInv
<1>a. ActInv /\ CmdInv /\ RefInv
    BY DEF BankInv
<1>b. c \in CmdQueue => CmdOk(c) /\ c \in CmdSet /\ c.rank \in Ranks
    BY <1>a, CmdSetOf DEF CmdInv
<1>1. ASSUME NEW s \in Tasks, NEW q \in Ranks, addTransaction(s, q) PROVE CmdOk(c)'
    <2>1. c \in CmdQueue /\ bankStates' = bankStates
        BY <1>1 DEF addTransaction, ctlVars
    <2>2. \A t \in Tasks : \/ trans'[t] = trans[t] /\ (On(t, c.rank)' <=> On(t, c.rank))
                           \/ t = s /\ ~trans[t].on /\ ~HalfDone(t)'
        BY <1>1, AddTrans, CommandAssumption DEF On, HalfDone
    <2>3. \A t \in Tasks : On(t, c.rank)' /\ HalfDone(t)' => On(t, c.rank) /\ HalfDone(t)
        BY <2>2 DEF HalfDone
    <2>4. \A t \in Tasks : On(t, c.rank) => trans'[t] = trans[t] /\ On(t, c.rank)'
        BY <2>2 DEF On
    <2> QED
        BY <1>b, <2>1, <2>3, <2>4 DEF CmdOk
<1>2. CASE StateFresh
    <2>1. c \in CmdQueue /\ trans' = trans
        BY <1>2 DEF StateFresh, queVars, ctlVars
    <2>2. /\ \A r \in Ranks : bankStates'[r].act_executing <=> bankStates[r].act_executing
          /\ bankStates'[c.rank].state = "RowActive" <=> bankStates[c.rank].state = "RowActive"
        BY <1>2, <1>b, <2>1, FreshBank DEF Over
    <2> QED
        BY <1>b, <2>1, <2>2 DEF CmdOk, On, HalfDone
<1>3. ASSUME NEW d \in CmdQueue, Schedule(d) PROVE CmdOk(c)'
    BY <1>3 DEF Schedule
<1>4. ASSUME NEW s \in Tasks, Retire(s) PROVE CmdOk(c)'
    BY <1>4 DEF Retire, At, ctlVars, QueueInv
<1>5. CASE QuePipeline
    <2>1. CmdQueue = {} /\ trans' = trans /\ bankStates' = bankStates
        BY <1>5 DEF QuePipeline, QueueInv, At, queVars, bankVars
    <2>2. PICK t \in Eligible : c = [type |-> nextCmd(t), rank |-> trans[t].rank, task |-> t]
        BY <1>5, <2>1 DEF QuePipeline
    <2>3. /\ t \in Tasks /\ On(t, c.rank) /\ trans[t].issue_size < BURSTS
          /\ trans[t].age >= tCMD2SCH /\ c.task = t /\ c.type = nextCmd(t) /\ c.rank = trans[t].rank
          /\ c.type \in {"RW", "ACT1", "ACT2"}
        BY <2>2 DEF Eligible, lc, timing_met, On, Queued, nextCmd
    <2>4. /\ c.type = "RW" <=> bankStates[c.rank].state = "RowActive"
          /\ c.type = "ACT1" => ~bankStates[c.rank].act_executing
          /\ c.type = "ACT2" => trans[t].act
        BY <2>3 DEF nextCmd
    <2> QED
        BY <2>1, <2>3, <2>4 DEF CmdOk, On
<1>6. CASE PageTimeoutPolicy
    <2>1. trans' = trans
        BY <1>6 DEF PageTimeoutPolicy, queVars
    <2>2. \A r \in Ranks : /\ bankStates'[r].act_executing <=> bankStates[r].act_executing
                           /\ bankStates'[r].state = bankStates[r].state
        BY <1>6, TimeoutBank
    <2>3. CASE c \in CmdQueue
        BY <1>b, <2>1, <2>2, <2>3 DEF CmdOk, On, HalfDone
    <2>4. CASE c \notin CmdQueue
        <3>1. c.rank \in Ranks /\ c.type = "PRE_PB" /\ bankStates[c.rank].state = "RowActive"
            BY <1>6, <2>4 DEF PageTimeoutPolicy, Close, TimedOut, Unused
        <3> QED
            BY <2>2, <3>1 DEF CmdOk
    <2> QED
        BY <2>3, <2>4
<1>7. CASE Refresh
    <2>1. trans' = trans /\ bankStates' = bankStates
        BY <1>7 DEF Refresh, queVars
    <2>2. CASE c \in CmdQueue
        BY <1>b, <2>1, <2>2 DEF CmdOk, On, HalfDone
    <2>3. ASSUME NEW r \in Ranks, NEW ty \in {"PRE_AB", "REF"},
                 c = [type |-> ty, rank |-> r, task |-> NoTask], ~Hold(r),
                 ty = "PRE_AB" <=> bankStates[r].state = "RowActive"
          PROVE  CmdOk(c)'
        <3>1. c.rank = r /\ c.type = ty
            BY <2>3
        <3>2. /\ \A s \in Ranks : ~bankStates[s].act_executing
              /\ \A t \in Tasks : On(t, r) => ~HalfDone(t)
            BY <2>3 DEF Hold, HalfDone
        <3> QED
            BY <2>1, <2>3, <3>1, <3>2 DEF CmdOk, On, HalfDone
    <2> QED
        BY <1>7, <2>2, <2>3, RefreshWants
<1>8. CASE EndCycle
    <2>1. c \in CmdQueue /\ bankStates' = bankStates
        BY <1>8 DEF EndCycle, ctlVars, bankVars
    <2>2. \A t \in Tasks : /\ On(t, c.rank)' <=> On(t, c.rank)
                           /\ HalfDone(t)' <=> HalfDone(t)
                           /\ trans'[t].act <=> trans[t].act
                           /\ trans'[t].issue_size = trans[t].issue_size
                           /\ trans[t].age >= tCMD2SCH => trans'[t].age >= tCMD2SCH
        BY <1>8, ClockTrans, TransTypes DEF On, HalfDone
    <2> QED
        BY <1>b, <2>1, <2>2 DEF CmdOk
<1>9. CASE UNCHANGED <<trans, bankStates, CmdQueue>>
    BY <1>9, <1>b DEF CmdOk, On, HalfDone
<1> QED
    BY <1>1, <1>2, <1>3, <1>4, <1>5, <1>6, <1>7, <1>8, <1>9, NextBankVars

LEMMA RefStep == TypeOK /\ QueueInv /\ BankInv /\ [Next]_vars => RefInv'
<1> SUFFICES ASSUME TypeOK, QueueInv, BankInv, [Next]_vars, NEW r \in Ranks,
                    refreshALL'[r].refreshing
             PROVE  /\ bankStates'[r].state = "Refreshing" /\ ~bankStates'[r].act_executing
                    /\ \A c \in CmdQueue' : c.rank # r
                    /\ \A t \in Tasks : On(t, r)' => ~HalfDone(t)'
    BY DEF RefInv
<1> DEFINE Goal == /\ bankStates'[r].state = "Refreshing" /\ ~bankStates'[r].act_executing
                   /\ \A c \in CmdQueue' : c.rank # r
                   /\ \A t \in Tasks : On(t, r)' => ~HalfDone(t)'
<1>a. ActInv /\ CmdInv
    BY DEF BankInv
<1>b. refreshALL[r].refreshing =>
          /\ bankStates[r].state = "Refreshing" /\ ~bankStates[r].act_executing
          /\ \A c \in CmdQueue : c.rank # r
          /\ \A t \in Tasks : On(t, r) => ~HalfDone(t)
    BY DEF BankInv, RefInv
<1>c. refreshALL[r] \in [refreshWaiting : BOOLEAN, refreshing : BOOLEAN]
    BY DEF TypeOK, BanksType
<1>1. ASSUME NEW s \in Tasks, NEW q \in Ranks, addTransaction(s, q) PROVE Goal
    <2>1. CmdQueue' = CmdQueue /\ bankStates' = bankStates
        BY <1>1 DEF addTransaction, ctlVars
    <2>2. refreshALL[r].refreshing
        <3>1. refreshALL'[r] = refreshALL[r] \/ \E w : refreshALL'[r] = [refreshALL[r] EXCEPT !.refreshWaiting = w]
            BY <1>1 DEF addTransaction, TypeOK, BanksType
        <3> QED
            BY <1>c, <3>1
    <2>3. \A t \in Tasks : On(t, r)' /\ HalfDone(t)' => On(t, r) /\ HalfDone(t)
        BY <1>1, AddTrans, CommandAssumption DEF On, HalfDone
    <2> QED
        BY <1>b, <2>1, <2>2, <2>3
<1>2. CASE StateFresh
    <2>1. CmdQueue' = CmdQueue /\ trans' = trans
        BY <1>2 DEF StateFresh, queVars, ctlVars
    <2>2. /\ refreshALL'[r] = IF Over(r) /\ bankStates[r].state = "Refreshing"
                              THEN [refreshWaiting |-> FALSE, refreshing |-> FALSE] ELSE refreshALL[r]
        BY <1>2 DEF StateFresh
    <2>3. refreshALL[r].refreshing /\ ~Over(r)
        BY <1>b, <2>2
    <2> QED
        BY <1>2, <1>b, <2>1, <2>3, FreshBank DEF On, HalfDone
<1>3. ASSUME NEW c \in CmdQueue, Schedule(c) PROVE Goal
    <2>0. c.rank \in Ranks /\ c.type \in CmdTypes /\ CmdOk(c) /\ CmdQueue' = {}
        BY <1>a, <1>3, CmdSetOf DEF CmdInv, Schedule
    <2>1. CASE r = c.rank
        <3>1. c.type = "REF"
            <4>1. refreshALL'[r].refreshing <=> refreshALL[r].refreshing \/ c.type = "REF"
                <5>1. refreshALL'[r] = [refreshALL[r] EXCEPT !.refreshing = @ \/ c.type = "REF"]
                    BY <1>3, <2>1 DEF Schedule, TypeOK, BanksType
                <5> QED
                    BY <1>c, <5>1
            <4> QED
                BY <1>b, <2>1, <4>1
        <3>2. /\ bankStates'[r].state = "Refreshing" /\ ~bankStates'[r].act_executing
            BY <1>3, <2>0, <2>1, <3>1, ScheduleBank DEF CmdOk
        <3>3. \A t \in Tasks : On(t, r)' => ~HalfDone(t)'
            BY <1>3, <2>0, <2>1, <3>1, ScheduleTrans DEF CmdOk, On, HalfDone
        <3> QED
            BY <2>0, <3>2, <3>3
    <2>2. CASE r # c.rank
        <3>1. bankStates'[r] = bankStates[r]
            BY <1>3, <2>2, ScheduleBank
        <3>2. refreshALL'[r] = refreshALL[r]
            BY <1>3, <2>2 DEF Schedule, TypeOK, BanksType
        <3>3. \A t \in Tasks : On(t, r)' => On(t, r) /\ trans'[t].issue_size = trans[t].issue_size
            <4> TAKE t \in Tasks
            <4>1. c.type = "RW" => trans[c.task].rank = c.rank
                BY <2>0 DEF CmdOk, On
            <4> QED
                BY <1>3, <2>2, <4>1, ScheduleTrans DEF On
        <3> QED
            BY <1>b, <2>0, <3>1, <3>2, <3>3 DEF HalfDone
    <2> QED
        BY <2>1, <2>2
<1>4. ASSUME NEW s \in Tasks, Retire(s) PROVE Goal
    <2>1. CmdQueue' = CmdQueue /\ bankStates' = bankStates /\ refreshALL' = refreshALL
        BY <1>4 DEF Retire, ctlVars, bankVars
    <2>2. \A t \in Tasks : On(t, r)' => trans'[t] = trans[t] /\ On(t, r)
        BY <1>4, RetireTrans DEF On
    <2> QED
        BY <1>b, <2>1, <2>2 DEF HalfDone
<1>5. CASE QuePipeline
    <2>1. CmdQueue = {} /\ trans' = trans /\ bankStates' = bankStates /\ refreshALL' = refreshALL
        BY <1>5 DEF QuePipeline, QueueInv, At, queVars, bankVars
    <2>2. ASSUME NEW t \in Eligible PROVE trans[t].rank # r
        <3>1. /\ t \in Tasks /\ On(t, trans[t].rank) /\ trans[t].issue_size < BURSTS
              /\ \/ ~refreshALL[trans[t].rank].refreshing
                 \/ trans[t].issue_size > 0
                 \/ trans[t].act
            BY DEF Eligible, lc, On, Queued
        <3>2. trans[t].rank = r => ~HalfDone(t) /\ ~trans[t].act
            BY <1>a, <1>b, <2>1, <3>1 DEF ActInv, Activating
        <3>3. trans[t].issue_size > 0 => HalfDone(t)
            BY <3>1, TransTypes DEF HalfDone
        <3> QED
            BY <2>1, <3>1, <3>2, <3>3
    <2>3. \A c \in CmdQueue' : \E t \in Eligible : c.rank = trans[t].rank
        BY <1>5, <2>1 DEF QuePipeline
    <2> QED
        BY <1>b, <2>1, <2>2, <2>3 DEF On, HalfDone
<1>6. CASE PageTimeoutPolicy
    <2>1. trans' = trans /\ refreshALL' = refreshALL
        BY <1>6 DEF PageTimeoutPolicy, queVars
    <2>2. /\ bankStates'[r].act_executing <=> bankStates[r].act_executing
          /\ bankStates'[r].state = bankStates[r].state
        BY <1>6, TimeoutBank
    <2>3. \A c \in CmdQueue' : c \in CmdQueue \/ bankStates[c.rank].state = "RowActive"
        BY <1>6 DEF PageTimeoutPolicy, Close, TimedOut, Unused
    <2> QED
        BY <1>b, <2>1, <2>2, <2>3 DEF On, HalfDone
<1>7. CASE Refresh
    <2>1. trans' = trans /\ bankStates' = bankStates
        BY <1>7 DEF Refresh, queVars
    <2>2. refreshALL[r].refreshing
        BY <1>7, RefreshingKept
    <2>3. \A c \in CmdQueue' : c.rank # r
        BY <1>7, <1>b, <2>2, RefreshWants
    <2> QED
        BY <1>b, <2>1, <2>2, <2>3 DEF On, HalfDone
<1>8. CASE EndCycle
    <2>1. CmdQueue' = CmdQueue /\ bankStates' = bankStates /\ refreshALL' = refreshALL
        BY <1>8 DEF EndCycle, ctlVars, bankVars
    <2>2. \A t \in Tasks : (On(t, r)' <=> On(t, r)) /\ (HalfDone(t)' <=> HalfDone(t))
        BY <1>8, ClockTrans DEF On, HalfDone
    <2> QED
        BY <1>b, <2>1, <2>2
<1>9. CASE UNCHANGED <<trans, bankStates, refreshALL, CmdQueue>>
    BY <1>9, <1>b DEF On, HalfDone
<1> QED
    BY <1>1, <1>2, <1>3, <1>4, <1>5, <1>6, <1>7, <1>8, <1>9, NextBankVars

LEMMA BankInit == Init => BankInv
    BY DEF Init, Off, BankInv, ActInv, CmdInv, RefInv, Activating, On

LEMMA BankStep == TypeOK /\ QueueInv /\ BankInv /\ [Next]_vars => BankInv'
    BY ActStep, CmdStep, RefStep DEF BankInv

(* A rank is refreshing only while its banks are.                          *)
THEOREM RefreshEndsHolds == Spec => []RefreshEnds
<1>1. BankInv => RefreshEnds
    BY DEF BankInv, RefInv, RefreshEnds
<1> QED
    BY <1>1, TypeInit, TypeStep, SleepInit, SleepStep, BankInit, BankStep, PTL DEF Spec, SleepInv
-----------------------------------------------------------------------------
(***************************************************************************)
(* The packets on their way.                                               *)
(***************************************************************************)
PacketInv ==
    /\ PacketSorted
    /\ \A i \in DOMAIN packet : packet[i].delay <= tCMD_PHY
    /\ phase = "send" => \A i \in DOMAIN packet : i < scan => packet[i].delay # 0

LEMMA PacketTypes ==
    ASSUME NEW p \in Seq(PacketType)
    PROVE  /\ Len(p) \in Nat /\ DOMAIN p = 1 .. Len(p)
           /\ \A i \in 1 .. Len(p) : /\ p[i] \in PacketType /\ p[i].delay \in Nat
                                     /\ p[i].rank \in Ranks /\ p[i].type \in CmdTypes \cup LpCommands
<1>1. Len(p) \in Nat /\ DOMAIN p = 1 .. Len(p) /\ \A i \in 1 .. Len(p) : p[i] \in PacketType
    OBVIOUS
<1>2. \A x \in PacketType : x.delay \in Nat /\ x.rank \in Ranks /\ x.type \in CmdTypes \cup LpCommands
    BY DEF PacketType
<1> HIDE DEF PacketType
<1> QED
    BY <1>1, <1>2

(* The packet that the loop of exec finds due is the head.                 *)
LEMMA DueIsHead ==
    ASSUME TypeOK, PacketInv, At("send"), scan <= Len(packet), Due
    PROVE  scan = 1 /\ packet # << >> /\ Head(packet) = packet[scan] /\ packet[scan] = packet[1]
<1>1. packet \in Seq(PacketType) /\ scan \in Nat \ {0} /\ Len(packet) \in Nat
    BY DEF TypeOK, BusType
<1>2. \A i \in 1 .. Len(packet) : packet[i].delay \in Nat
    BY <1>1, PacketTypes
<1>3. ASSUME scan # 1 PROVE FALSE
    <2>1. 1 \in 1 .. Len(packet) /\ scan \in 1 .. Len(packet) /\ 1 < scan
        BY <1>1, <1>3
    <2>2. packet[1].delay # 0 /\ packet[1].delay <= packet[scan].delay
        BY <1>1, <2>1 DEF PacketInv, PacketSorted, At
    <2> QED
        BY <1>2, <2>1, <2>2 DEF Due
<1> QED
    BY <1>1, <1>3

(* Four actions touch the packets.                                         *)
LEMMA NextPacket ==
    [Next]_vars =>
        \/ \E r \in Ranks : UpdateLpRank(r)
        \/ UpdateLpEnd
        \/ SendPacket
        \/ SkipPacket
        \/ Exec
        \/ UNCHANGED <<packet, scan, phase>>
        \/ UNCHANGED packet /\ phase' # "send"
    BY DEF Next, vars, lpVars, dramVars, At, Then, Inform, addTransaction, NoTransaction, UpdateLpBegin,
           LpBegin, StateFresh, Schedule, NothingToSchedule, Retire, NothingToRetire, QuePipeline,
           PageTimeoutPolicy, Refresh, EndCycle

LEMMA LpRankPacket ==
    ASSUME NEW r \in Ranks, LpRank(r)
    PROVE  packet' = packet \/ \E cmd \in LpCommands : Send(r, cmd)
<1> USE DEF Stay, LpCommands
<1>1. LpIdle(r) \/ LpPdx(r) \/ LpAsrefx(r) => packet' = packet
    BY DEF LpIdle, LpPdx, LpAsrefx
<1>2. LpPde(r) \/ LpPd(r) \/ LpPdlp(r) => packet' = packet \/ \E cmd \in LpCommands : Send(r, cmd)
    BY DEF LpPde, LpPd, LpPdlp
<1>3. LpAsrefe(r) \/ LpAsref(r) => packet' = packet \/ \E cmd \in LpCommands : Send(r, cmd)
    BY DEF LpAsrefe, LpAsref
<1>4. LpSrpde(r) \/ LpSrpd(r) => packet' = packet \/ \E cmd \in LpCommands : Send(r, cmd)
    BY DEF LpSrpde, LpSrpd
<1>5. LpSrpdlp(r) \/ LpSrpdx(r) => packet' = packet \/ \E cmd \in LpCommands : Send(r, cmd)
    BY DEF LpSrpdlp, LpSrpdx
<1> QED
    BY <1>1, <1>2, <1>3, <1>4, <1>5 DEF LpRank

(* One more packet with the longest delay keeps the order; so does one     *)
(* cycle less of delay.                                                    *)
Ordered(p) == /\ \A i, j \in DOMAIN p : i <= j => p[i].delay <= p[j].delay
              /\ \A i \in DOMAIN p : p[i].delay <= tCMD_PHY

LEMMA AppendOrdered ==
    ASSUME NEW p \in Seq(PacketType), Ordered(p), NEW x \in PacketType, x.delay = tCMD_PHY
    PROVE  Append(p, x) \in Seq(PacketType) /\ Ordered(Append(p, x))
<1> DEFINE a == Append(p, x)
<1>1. /\ a \in Seq(PacketType) /\ Len(a) = Len(p) + 1 /\ Len(p) \in Nat
      /\ \A i \in 1 .. Len(p) : a[i] = p[i]
      /\ a[Len(p) + 1] = x
    OBVIOUS
<1>2. \A i \in 1 .. Len(p) : p[i].delay <= tCMD_PHY /\ p[i].delay \in Nat
    BY PacketTypes DEF Ordered
<1>3. ASSUME NEW i \in DOMAIN a PROVE a[i].delay <= tCMD_PHY
    <2>1. i \in 1 .. Len(p) \/ i = Len(p) + 1
        BY <1>1
    <2>2. tCMD_PHY \in Nat
        BY Constants
    <2> HIDE DEF a
    <2> QED
        BY <1>1, <1>2, <2>1, <2>2
<1>4. ASSUME NEW i \in DOMAIN a, NEW j \in DOMAIN a, i <= j PROVE a[i].delay <= a[j].delay
    <2>1. CASE j = Len(p) + 1
        BY <1>1, <1>3, <2>1
    <2>2. CASE j # Len(p) + 1
        <3>1. i \in DOMAIN p /\ j \in DOMAIN p
            BY <1>1, <1>4, <2>2
        <3> QED
            BY <1>1, <1>4, <3>1 DEF Ordered
    <2> QED
        BY <2>1, <2>2
<1> QED
    BY <1>1, <1>3, <1>4 DEF Ordered

LEMMA OneLessIs ==
    ASSUME NEW p \in Seq(PacketType)
    PROVE  /\ OneLess(p) \in Seq(PacketType) /\ Len(OneLess(p)) = Len(p)
           /\ \A i \in 1 .. Len(p) : /\ OneLess(p)[i].type = p[i].type
                                     /\ OneLess(p)[i].rank = p[i].rank
                                     /\ OneLess(p)[i].delay = Less1(p[i].delay)
<1>1. DOMAIN p = 1 .. Len(p) /\ Len(p) \in Nat /\ \A i \in 1 .. Len(p) : p[i] \in PacketType
    OBVIOUS
<1>2. OneLess(p) = [i \in 1 .. Len(p) |-> [p[i] EXCEPT !.delay = Less1(@)]]
    BY <1>1 DEF OneLess
<1>3. OneLess(p) \in Seq(PacketType)
    BY OneLessType
<1>4. Len(OneLess(p)) = Len(p)
    BY <1>1, <1>2, <1>3
<1> QED
    BY <1>1, <1>2, <1>3, <1>4 DEF PacketType

LEMMA OneLessOrdered ==
    ASSUME NEW p \in Seq(PacketType), Ordered(p)
    PROVE  Ordered(OneLess(p))
<1>1. DOMAIN p = 1 .. Len(p) /\ DOMAIN OneLess(p) = 1 .. Len(p)
    BY OneLessIs
<1>2. \A i \in 1 .. Len(p) : OneLess(p)[i].delay = Less1(p[i].delay) /\ p[i].delay \in Nat
    BY OneLessIs, PacketTypes
<1> QED
    BY <1>1, <1>2, Constants DEF Ordered, Less1

LEMMA PacketStep == TypeOK /\ PacketInv /\ [Next]_vars => PacketInv'
<1> SUFFICES ASSUME TypeOK, PacketInv, [Next]_vars PROVE PacketInv'
    OBVIOUS
<1>a. packet \in Seq(PacketType) /\ scan \in Nat \ {0} /\ Ordered(packet)
    BY DEF TypeOK, BusType, PacketInv, PacketSorted, Ordered
<1>b. Ordered(packet') => PacketSorted' /\ \A i \in DOMAIN packet' : packet'[i].delay <= tCMD_PHY
    BY DEF PacketSorted, Ordered
<1>1. ASSUME NEW r \in Ranks, UpdateLpRank(r) PROVE PacketInv'
    <2>1. phase' # "send" /\ LpRank(r)
        BY <1>1 DEF UpdateLpRank, Then
    <2>2. Ordered(packet')
        <3>1. CASE packet' = packet
            BY <1>a, <3>1
        <3>2. ASSUME NEW cmd \in LpCommands, Send(r, cmd) PROVE Ordered(packet')
            BY <1>a, <3>2, AppendOrdered, Constants DEF Send, PacketType
        <3> QED
            BY <2>1, <3>1, <3>2, LpRankPacket
    <2> QED
        BY <1>b, <2>1, <2>2 DEF PacketInv
<1>2. CASE UpdateLpEnd
    <2>1. packet' = packet /\ scan' = 1
        BY <1>2 DEF UpdateLpEnd, LpEnd
    <2> QED
        BY <1>a, <2>1 DEF PacketInv, PacketSorted
<1>3. CASE SendPacket
    <2>1. packet' = Tail(packet) /\ scan' = scan /\ At("send") /\ scan <= Len(packet) /\ Due
        BY <1>3 DEF SendPacket
    <2>2. scan = 1 /\ packet # << >>
        BY <2>1, DueIsHead
    <2>3. /\ DOMAIN Tail(packet) = 1 .. Len(packet) - 1
          /\ \A i \in 1 .. Len(packet) - 1 : Tail(packet)[i] = packet[i + 1] /\ i + 1 \in DOMAIN packet
        BY <1>a, <2>2
    <2>4. Ordered(packet')
        BY <1>a, <2>1, <2>3 DEF Ordered
    <2> QED
        BY <1>b, <2>1, <2>2, <2>3, <2>4 DEF PacketInv
<1>4. CASE SkipPacket
    <2>1. packet' = packet /\ scan' = scan + 1 /\ phase = "send" /\ packet[scan].delay # 0
        BY <1>4 DEF SkipPacket, lpVars, Due, At
    <2> QED
        BY <1>a, <2>1 DEF PacketInv, PacketSorted
<1>5. CASE Exec
    <2>1. phase' # "send"
        BY <1>5 DEF Exec, Then
    <2> DEFINE out == [type |-> command.type, rank |-> command.rank, delay |-> tCMD_PHY]
    <2>2. out \in PacketType
        BY Constants DEF TypeOK, RegisterType, CmdSet, PacketType
    <2>3. packet' = OneLess(packet) \/ packet' = OneLess(Append(packet, out))
        BY <1>5 DEF Exec
    <2> HIDE DEF out
    <2>4. Append(packet, out) \in Seq(PacketType) /\ Ordered(Append(packet, out))
        BY <1>a, <2>2, AppendOrdered DEF out
    <2>5. Ordered(packet')
        BY <1>a, <2>3, <2>4, OneLessOrdered
    <2> QED
        BY <1>b, <2>1, <2>5 DEF PacketInv
<1>6. CASE UNCHANGED <<packet, scan, phase>>
    BY <1>6 DEF PacketInv, PacketSorted
<1>7. CASE UNCHANGED packet /\ phase' # "send"
    BY <1>7 DEF PacketInv, PacketSorted
<1> QED
    BY <1>1, <1>2, <1>3, <1>4, <1>5, <1>6, <1>7, NextPacket

LEMMA PacketInit == Init => PacketInv
    BY DEF Init, LpInit, PacketInv, PacketSorted

(* Packets leave in the order of their delays.                             *)
THEOREM PacketSortedHolds == Spec => []PacketSorted
<1>1. PacketInv => PacketSorted
    BY DEF PacketInv
<1> QED
    BY <1>1, TypeInit, TypeStep, PacketInit, PacketStep, PTL DEF Spec
-----------------------------------------------------------------------------
(***************************************************************************)
(* Why the rank of a command is awake when the command leaves.  A bank     *)
(* between ACT1 and ACT2 belongs to a transaction that is in the queue for *)
(* longer than the wake-up pipe takes; a rank that refreshes itself has    *)
(* its bank closed, and only a rank with a closed bank begins to.          *)
(***************************************************************************)
AgeInv ==
    /\ \A t \in Tasks, r \in Ranks : Activating(t, r) => trans[t].age >= tCMD2SCH + 1
    /\ phase \notin Queueing =>
         \A c \in CmdQueue : c.type \in {"ACT1", "ACT2", "RW"} =>
                trans[c.task].age >= tCMD2SCH + 1

Sleeping == /\ \A r \in Ranks : bankStates[r].act_executing => lp_state(r) = "IDLE"
            /\ \A r \in Ranks : lp_state(r) \in SelfRefresh => bankStates[r].state = "Idle"

AwakeInv == AgeInv /\ Sleeping

(* The handlers that queue commands are not followed by others.            *)
LEMMA NextQueueing ==
    [Next]_vars => \/ phase \in Queueing /\ phase' \in Queueing
                   \/ QuePipeline \/ EndCycle
                   \/ phase \notin Queueing /\ phase' \notin Queueing
    BY DEF Next, vars, At, Then, Queueing, Inform, addTransaction, NoTransaction, UpdateLpBegin,
           UpdateLpRank, UpdateLpEnd, SendPacket, SkipPacket, Exec, StateFresh, Schedule,
           NothingToSchedule, Retire, NothingToRetire, QuePipeline, PageTimeoutPolicy, Refresh,
           EndCycle

LEMMA AgeStep == TypeOK /\ QueueInv /\ BankInv /\ AgeInv /\ [Next]_vars => AgeInv'
<1> SUFFICES ASSUME TypeOK, QueueInv, BankInv, AgeInv, [Next]_vars PROVE AgeInv'
    OBVIOUS
<1>a. \A c \in CmdQueue : c.type \in {"ACT1", "ACT2", "RW"} =>
          c.task \in Tasks /\ On(c.task, c.rank) /\ trans[c.task].age >= tCMD2SCH
    BY DEF BankInv, CmdInv, CmdOk
<1>b. tCMD2SCH \in Nat /\ AgeMax = tCMD2SCH + 1
    BY Constants DEF AgeMax
<1>1. ASSUME NEW s \in Tasks, NEW q \in Ranks, addTransaction(s, q) PROVE AgeInv'
    <2>1. CmdQueue' = CmdQueue /\ phase \notin Queueing /\ phase' \notin Queueing
        BY <1>1 DEF addTransaction, ctlVars, At, Then, Queueing
    <2>2. \A t \in Tasks, r \in Ranks : /\ Activating(t, r)' => Activating(t, r)
                                        /\ On(t, r) => trans'[t] = trans[t]
        BY <1>1, AddTrans DEF Activating, On
    <2>3. \A c \in CmdQueue : c.rank \in Ranks
        BY CmdSetOf
    <2> QED
        BY <1>a, <2>1, <2>2, <2>3 DEF AgeInv, Activating
<1>2. ASSUME NEW c \in CmdQueue, Schedule(c) PROVE AgeInv'
    <2>1. CmdQueue' = {} /\ phase \notin Queueing
        BY <1>2 DEF Schedule, At, Queueing
    <2>2. \A t \in Tasks, r \in Ranks :
              Activating(t, r)' => Activating(t, r) \/ (c.type = "ACT1" /\ t = c.task)
        BY <1>2, ScheduleTrans DEF Activating, On
    <2>3. \A t \in Tasks : trans'[t].age = trans[t].age
        BY <1>2, ScheduleTrans
    <2> QED
        BY <2>1, <2>2, <2>3 DEF AgeInv
<1>3. ASSUME NEW s \in Tasks, Retire(s) PROVE AgeInv'
    <2>1. CmdQueue' = {} /\ phase' \notin Queueing
        BY <1>3 DEF Retire, ctlVars, At, Then, Queueing, QueueInv
    <2>2. \A t \in Tasks, r \in Ranks : Activating(t, r)' => Activating(t, r) /\ trans'[t] = trans[t]
        BY <1>3, RetireTrans DEF Activating, On
    <2> QED
        BY <2>1, <2>2 DEF AgeInv
<1>4. CASE EndCycle
    <2>1. CmdQueue' = CmdQueue
        BY <1>4 DEF EndCycle, ctlVars
    <2>2. \A t \in Tasks, r \in Ranks :
              /\ Activating(t, r)' => Activating(t, r)
              /\ On(t, r) /\ trans[t].age >= tCMD2SCH => trans'[t].age >= tCMD2SCH + 1
        <3> TAKE t \in Tasks, r \in Ranks
        <3>1. Activating(t, r)' => Activating(t, r)
            BY <1>4, ClockTrans DEF Activating, On
        <3>2. trans[t] \in TransType /\ trans[t].age \in Nat
            BY TransTypes DEF TypeOK, QueueType
        <3>3. trans'[t] = [trans[t] EXCEPT !.age = IF trans[t].on /\ @ < AgeMax THEN @ + 1 ELSE @]
            BY <1>4 DEF EndCycle
        <3>4. trans[t].on => trans'[t].age = IF trans[t].age < AgeMax THEN trans[t].age + 1 ELSE trans[t].age
            BY <3>2, <3>3 DEF TransType
        <3> QED
            BY <1>b, <3>1, <3>2, <3>4 DEF On
    <2>3. \A t \in Tasks, r \in Ranks : Activating(t, r) => On(t, r) /\ trans[t].age >= tCMD2SCH
        BY DEF BankInv, ActInv, Activating
    <2>4. \A c \in CmdQueue : c.rank \in Ranks
        BY CmdSetOf
    <2> HIDE DEF On, Activating
    <2> QED
        BY <1>a, <2>1, <2>2, <2>3, <2>4 DEF AgeInv
<1>5. CASE QuePipeline \/ PageTimeoutPolicy \/ Refresh
    <2>1. trans' = trans /\ phase' \in Queueing
        BY <1>5 DEF QuePipeline, PageTimeoutPolicy, Refresh, queVars, Then, Queueing
    <2> QED
        BY <2>1 DEF AgeInv, Activating, On
<1>6. CASE StateFresh \/ UNCHANGED <<trans, bankStates, refreshALL, CmdQueue>>
    <2>1. trans' = trans /\ CmdQueue' = CmdQueue
        BY <1>6 DEF StateFresh, queVars, ctlVars
    <2>2. CASE phase \in Queueing => phase' \in Queueing
        BY <2>1, <2>2 DEF AgeInv, Activating, On
    <2>3. CASE QuePipeline \/ EndCycle
        BY <1>4, <1>5, <2>3
    <2> QED
        BY <2>2, <2>3, NextQueueing
<1> QED
    BY <1>1, <1>2, <1>3, <1>4, <1>5, <1>6, NextBankVars

(* Which actions touch the banks.                                          *)
LEMMA NextBanks ==
    [Next]_vars => \/ StateFresh
                   \/ \E c \in CmdQueue : Schedule(c)
                   \/ PageTimeoutPolicy
                   \/ UNCHANGED bankStates
    BY DEF Next, vars, bankVars, Inform, addTransaction, NoTransaction, UpdateLpBegin, UpdateLpRank,
           UpdateLpEnd, SendPacket, SkipPacket, Exec, NothingToSchedule, Retire, NothingToRetire,
           QuePipeline, Refresh, EndCycle

LEMMA NextBanksLp ==
    StateFresh \/ (\E c \in CmdQueue : Schedule(c)) \/ PageTimeoutPolicy => RankState' = RankState
    BY DEF StateFresh, Schedule, PageTimeoutPolicy, lpVars

(* One step of update_lp_state changes the state of its rank only.         *)
LEMMA LpRankOthers ==
    ASSUME TypeOK, NEW r \in Ranks, LpRank(r), NEW s \in Ranks, s # r
    PROVE  RankState'[s] = RankState[s]
    BY LpRankBecomes DEF Becomes, TypeOK, LowPowerType, RankStateType

(* What the steps of the state machine leave in RankState.                 *)
LEMMA EnterIs ==
    ASSUME TypeOK, NEW r \in Ranks, NEW st \in LpStates, NEW n \in Nat, NEW p, NEW a
    PROVE  /\ Enter(r, st) => /\ RankState'[r].lp_state = st
                              /\ RankState'[r].pd_cnt = RankState[r].pd_cnt
                              /\ RankState'[r].state_cnt = RankState[r].state_cnt
           /\ EnterPd(r, st, n) => RankState'[r].lp_state = st /\ RankState'[r].pd_cnt = n
           /\ EnterAsref(r, st, n) => RankState'[r].lp_state = st /\ RankState'[r].asref_cnt = n
           /\ EnterLow(r, st) => RankState'[r].lp_state = st /\ RankState'[r].state_cnt = tCSPD
           /\ Reload(r, st, p, a) => RankState'[r].lp_state = st
<1> DEFINE Rec == [lp_state : LpStates, pd_cnt : Nat, asref_cnt : Nat, state_cnt : Nat]
<1>1. RankState \in [Ranks -> Rec] /\ RankState[r] \in Rec
    BY DEF TypeOK, LowPowerType, RankStateType
<1>2. \A rs : Becomes(r, rs) => RankState'[r] = rs
    BY <1>1 DEF Becomes
<1>3. Enter(r, st) => /\ RankState'[r].lp_state = st
                      /\ RankState'[r].pd_cnt = RankState[r].pd_cnt
                      /\ RankState'[r].state_cnt = RankState[r].state_cnt
    BY <1>1, <1>2 DEF Enter
<1>4. EnterPd(r, st, n) => RankState'[r].lp_state = st /\ RankState'[r].pd_cnt = n
    BY <1>1, <1>2 DEF EnterPd
<1>5. EnterAsref(r, st, n) => RankState'[r].lp_state = st /\ RankState'[r].asref_cnt = n
    BY <1>1, <1>2 DEF EnterAsref
<1>6. EnterLow(r, st) => RankState'[r].lp_state = st /\ RankState'[r].state_cnt = tCSPD
    BY <1>1, <1>2 DEF EnterLow
<1>7. Reload(r, st, p, a) => RankState'[r].lp_state = st
    BY <1>1, <1>2 DEF Reload
<1> QED
    BY <1>3, <1>4, <1>5, <1>6, <1>7

(* What update_lp_state does with one rank, in two kinds: a change of      *)
(* state that the DRAM is not told, and one that sends a command.  Cnt is  *)
(* the counter that keeps the rank where it is.                            *)
Cnt(r) == CASE lp_state(r) \in {"PD", "PDLP", "SRPD", "SRPDLP"} -> RankState[r].state_cnt
            [] lp_state(r) \in {"PDX", "SRPDX"} -> RankState[r].pd_cnt
            [] lp_state(r) = "ASREFX" -> RankState[r].asref_cnt
            [] OTHER -> 0

PowerOf(lp) == CASE lp \in {"IDLE", "PDE", "PDX", "ASREFE", "ASREFX"} -> {"IDLE"}
                 [] lp \in {"PD", "PDLP"} -> {"PD"}
                 [] lp \in {"ASREF", "SRPDX"} -> {"ASREF"}
                 [] lp \in {"SRPD", "SRPDLP"} -> {"SRPD"}
                 [] lp = "SRPDE" -> {"IDLE", "ASREF"}

SilentMove(r) ==
    LET new == RankState'[r].lp_state
    IN  /\ packet' = packet
        /\ PowerOf(lp_state(r)) \subseteq PowerOf(new)
        /\ Cnt(r)' = Cnt(r)
        /\ lp_state(r) = "IDLE" /\ new # "IDLE" =>
               \/ new \in {"ASREFE", "SRPDE"} /\ bankStates[r].state = "Idle"
               \/ new = "PDE" /\ pdeWait[r] = 0
        /\ lp_state(r) \notin SelfRefresh /\ new \in SelfRefresh => bankStates[r].state = "Idle"

(* The command, the power state of the rank before and after it, and how   *)
(* long the rank must not be spoken to.                                    *)
LpTable ==
    {<<"PD", "PDE", "PD">>, <<"PDX", "PD", "PDX">>, <<"PDX", "PDLP", "PDX">>,
     <<"ASREF", "ASREFE", "ASREF">>, <<"ASREFX", "ASREF", "ASREFX">>,
     <<"ASREFX", "SRPDX", "ASREFX">>, <<"SRPD", "ASREF", "SRPD">>, <<"SRPD", "SRPDE", "SRPD">>,
     <<"SRPDX", "SRPD", "SRPDX">>, <<"SRPDX", "SRPDLP", "SRPDX">>}

QuietAfter(cmd) == CASE cmd \in {"PD", "SRPD"}   -> tCSPD
                     [] cmd \in {"PDX", "SRPDX"} -> tXP
                     [] cmd = "ASREFX"           -> tXSR
                     [] OTHER                    -> 0

LoudMove(r, cmd) == /\ Send(r, cmd)
                    /\ <<cmd, lp_state(r), RankState'[r].lp_state>> \in LpTable
                    /\ Cnt(r) = 0 /\ Cnt(r)' = QuietAfter(cmd)

LEMMA LpMoves ==
    ASSUME TypeOK, NEW r \in Ranks, LpRank(r)
    PROVE  SilentMove(r) \/ \E cmd \in LpCommands : LoudMove(r, cmd)
<1> DEFINE Goal == SilentMove(r) \/ \E cmd \in LpCommands : LoudMove(r, cmd)
<1> USE DEF PowerOf, Cnt, QuietAfter, lp_state, SelfRefresh, LpTable, LpCommands
<1>a. /\ tPDE \in Nat /\ tXP \in Nat /\ tASREFE \in Nat /\ tXSR \in Nat
    BY Constants
<1>b. \A st \in {"IDLE", "PDE", "PD", "PDLP", "PDX", "ASREFE", "ASREF", "ASREFX", "SRPDE", "SRPD",
                 "SRPDLP", "SRPDX"} : st \in LpStates
    BY DEF LpStates
<1>c. UNCHANGED <<RankState, packet>> => SilentMove(r)
    BY DEF SilentMove
<1>1. CASE LpIdle(r)
    <2>1. /\ lp_state(r) = "IDLE" /\ packet' = packet
          /\ \/ \E p, a : Reload(r, "IDLE", p, a)
             \/ EnterAsref(r, "SRPDE", tASREFE) /\ bankStates[r].state = "Idle"
             \/ EnterAsref(r, "ASREFE", tASREFE) /\ bankStates[r].state = "Idle"
             \/ EnterPd(r, "PDE", tPDE) /\ pdeWait[r] = 0
             \/ UNCHANGED RankState
        BY <1>1 DEF LpIdle, asref_timing_met, pd_timing_met
    <2>2. \/ RankState'[r].lp_state = "IDLE"
          \/ RankState'[r].lp_state \in {"ASREFE", "SRPDE"} /\ bankStates[r].state = "Idle"
          \/ RankState'[r].lp_state = "PDE" /\ pdeWait[r] = 0
        BY <1>a, <1>b, <2>1, EnterIs
    <2> QED
        BY <2>1, <2>2 DEF SilentMove
<1>2. CASE LpPde(r)
    BY <1>2, <1>a, <1>b, <1>c, EnterIs DEF LpPde, Stay, LoudMove
<1>3. CASE LpPd(r)
    BY <1>3, <1>a, <1>b, <1>c, EnterIs DEF LpPd, Stay, LoudMove, SilentMove, state_timing_met
<1>4. CASE LpPdlp(r)
    BY <1>4, <1>a, <1>b, <1>c, EnterIs DEF LpPdlp, Stay, LoudMove, SilentMove, state_timing_met
<1>5. CASE LpPdx(r)
    BY <1>5, <1>a, <1>b, <1>c, EnterIs DEF LpPdx, SilentMove, pd_timing_met
<1>6. CASE LpAsrefe(r)
    BY <1>6, <1>a, <1>b, <1>c, EnterIs DEF LpAsrefe, Stay, LoudMove
<1>7. CASE LpAsref(r)
    BY <1>7, <1>a, <1>b, <1>c, EnterIs DEF LpAsref, Stay, LoudMove, SilentMove
<1>8. CASE LpAsrefx(r)
    BY <1>8, <1>a, <1>b, <1>c, EnterIs DEF LpAsrefx, SilentMove, asref_timing_met
<1>9. CASE LpSrpde(r)
    BY <1>9, <1>a, <1>b, <1>c, EnterIs DEF LpSrpde, Stay, LoudMove
<1>10. CASE LpSrpd(r)
    BY <1>10, <1>a, <1>b, <1>c, EnterIs DEF LpSrpd, Stay, LoudMove, SilentMove, state_timing_met
<1>11. CASE LpSrpdlp(r)
    BY <1>11, <1>a, <1>b, <1>c, EnterIs DEF LpSrpdlp, Stay, LoudMove, SilentMove, state_timing_met
<1>12. CASE LpSrpdx(r)
    BY <1>12, <1>a, <1>b, <1>c, EnterIs DEF LpSrpdx, Stay, LoudMove, pd_timing_met
<1> QED
    BY <1>1, <1>2, <1>3, <1>4, <1>5, <1>6, <1>7, <1>8, <1>9, <1>10, <1>11, <1>12 DEF LpRank

(* Self-refresh begins with the bank closed.                               *)
LEMMA LpRankSelf ==
    ASSUME TypeOK, NEW r \in Ranks, LpRank(r), RankState'[r].lp_state \in SelfRefresh
    PROVE  lp_state(r) \in SelfRefresh \/ bankStates[r].state = "Idle"
<1>1. ASSUME NEW cmd \in LpCommands, LoudMove(r, cmd) PROVE lp_state(r) \in SelfRefresh
    BY <1>1 DEF LoudMove, LpTable, SelfRefresh
<1> QED
    BY <1>1, LpMoves DEF SilentMove

LEMMA SleepingStep ==
    TypeOK /\ SleepInv /\ BankInv /\ AwakeInv /\ [Next]_vars => Sleeping'
<1> SUFFICES ASSUME TypeOK, SleepInv, BankInv, AwakeInv, [Next]_vars, NEW r \in Ranks
             PROVE  /\ bankStates'[r].act_executing => RankState'[r].lp_state = "IDLE"
                    /\ RankState'[r].lp_state \in SelfRefresh => bankStates'[r].state = "Idle"
    BY DEF Sleeping, lp_state
<1>a. /\ bankStates[r].act_executing => lp_state(r) = "IDLE"
      /\ lp_state(r) \in SelfRefresh => bankStates[r].state = "Idle"
    BY DEF AwakeInv, Sleeping
<1>1. CASE StateFresh
    BY <1>1, <1>a, FreshBank, NextBanksLp DEF lp_state
<1>2. ASSUME NEW c \in CmdQueue, Schedule(c)
      PROVE  /\ bankStates'[r].act_executing => RankState'[r].lp_state = "IDLE"
             /\ RankState'[r].lp_state \in SelfRefresh => bankStates'[r].state = "Idle"
    <2>1. lp_state(c.rank) = "IDLE" /\ RankState' = RankState /\ "IDLE" \notin SelfRefresh
        BY <1>2, NextBanksLp DEF SleepInv, NoCmdInLpState, SelfRefresh
    <2> QED
        BY <1>2, <1>a, <2>1, ScheduleBank DEF lp_state
<1>3. CASE PageTimeoutPolicy
    BY <1>3, <1>a, TimeoutBank, NextBanksLp DEF lp_state
<1>4. CASE UNCHANGED bankStates
    <2>1. CASE UpdateLpBegin
        BY <2>1, <1>4, <1>a, BeginKeeps
    <2>2. ASSUME NEW s \in Ranks, UpdateLpRank(s)
          PROVE  /\ bankStates'[r].act_executing => RankState'[r].lp_state = "IDLE"
                 /\ RankState'[r].lp_state \in SelfRefresh => bankStates'[r].state = "Idle"
        <3>1. phase = "rank" /\ LpRank(s)
            BY <2>2 DEF UpdateLpRank, At
        <3>2. CASE s # r
            BY <1>4, <1>a, <3>1, <3>2, LpRankOthers DEF lp_state
        <3>3. CASE s = r
            <4>1. ASSUME bankStates[r].act_executing PROVE RankState'[r].lp_state = "IDLE"
                <5>1. PICK t \in Tasks : Activating(t, r)
                    BY <4>1 DEF BankInv, ActInv
                <5>2. trans[t].age >= tCMD_WAKEUP
                    BY <5>1, TransTypes, Constants DEF AwakeInv, AgeInv
                <5>3. Wake(r)
                    BY <3>1, <5>1, <5>2 DEF SleepInv, HasInv, Wake, Activating
                <5> QED
                    BY <1>a, <3>1, <4>1, <5>3, LpRankKeeps
            <4>2. RankState'[r].lp_state \in SelfRefresh => bankStates[r].state = "Idle"
                BY <1>a, <3>1, <3>3, LpRankSelf
            <4> QED
                BY <1>4, <4>1, <4>2
        <3> QED
            BY <3>2, <3>3
    <2>3. CASE UNCHANGED RankState
        BY <2>3, <1>4, <1>a DEF lp_state
    <2> QED
        BY <2>1, <2>2, <2>3, NextLp
<1> QED
    BY <1>1, <1>2, <1>3, <1>4, NextBanks

LEMMA AwakeInit == Init => AwakeInv
    BY DEF Init, LpInit, Off, AwakeInv, AgeInv, Sleeping, Activating, On, lp_state, SelfRefresh

LEMMA AwakeStep == TypeOK /\ SleepInv /\ BankInv /\ AwakeInv /\ [Next]_vars => AwakeInv'
    BY AgeStep, SleepingStep DEF AwakeInv, SleepInv
-----------------------------------------------------------------------------
(***************************************************************************)
(* The command in the register.  It was chosen for a rank that is awake    *)
(* and waits for as long as it occupies the bus.  What keeps the rank      *)
(* awake until then are the timers the command has started: none of them   *)
(* may be over before the command has left.  The controller takes this for *)
(* granted; the timings come from the configuration.                       *)
(***************************************************************************)
TimingsCoverBus ==
    /\ tRFC > 0 /\ tRP > 0
    /\ pre_cycle <= tRP + cmd_cycle - 1 /\ rw_cycle <= tRP + cmd_cycle - 1
    /\ tCMDPD > 0 /\ rw_cycle < tRDPD
    /\ pre_cycle <= tRPPD + cmd_cycle - 1 /\ rw_cycle <= tRPPD

Closing == {"PRE_PB", "PRE_AB", "REF"}

(* Power-down may begin in the cycle in which the command leaves, but not  *)
(* before, and then its command goes behind.                               *)
PendInv == exec_valid =>
    LET r == command.rank
        b == bankStates[command.rank]
    IN  /\ command.type = "ACT1" => b.act_executing
        /\ command.type \in {"ACT2", "RW"} => b.state = "RowActive"
        /\ command.type \in Closing =>
             /\ b.state \in {"Precharging", "Refreshing"}
             /\ command_pend + (IF phase = "fresh" THEN 1 ELSE 0) <= b.cnt
        /\ command.type # "ACT1" => command_pend <= pdeWait[r] + (IF BeforeExec THEN 1 ELSE 0)
        /\ \/ lp_state(r) = "IDLE"
           \/ /\ lp_state(r) = "PDE" /\ command.type # "ACT1" /\ command_pend <= 1
              /\ (phase = "rank" /\ lpRank > r) \/ phase = "send"

LEMMA NextPend ==
    [Next]_vars =>
        \/ \E r \in Ranks : UpdateLpRank(r)
        \/ UpdateLpBegin \/ UpdateLpEnd \/ Exec \/ StateFresh
        \/ \E c \in CmdQueue : Schedule(c)
        \/ PageTimeoutPolicy \/ EndCycle
        \/ /\ UNCHANGED <<RankState, bankStates, pdeWait, exec_valid, command, command_pend>>
           /\ BeforeExec' <=> BeforeExec
           /\ phase # "rank" /\ (phase' = "send" <=> phase = "send") /\ phase' # "fresh"
        \/ UNCHANGED vars
    BY DEF Next, At, Then, BeforeExec, lpVars, ctlVars, bankVars, Inform, addTransaction, NoTransaction,
           SendPacket, SkipPacket, NothingToSchedule, Retire, NothingToRetire, QuePipeline, Refresh

LEMMA PendTypes ==
    ASSUME TypeOK
    PROVE  /\ command.rank \in Ranks /\ command.type \in CmdTypes /\ command_pend \in Nat
           /\ exec_valid \in BOOLEAN /\ lpRank \in Nat
           /\ \A r \in Ranks : /\ pdeWait[r] \in Nat /\ bankStates[r].cnt \in Nat /\ r \in Nat
                               /\ bankStates[r].act_executing \in BOOLEAN
<1>1. \A r \in Ranks : bankStates[r] \in BankType
    BY DEF TypeOK, BanksType
<1>2. command \in CmdSet /\ NUM_RANKS \in Nat
    BY Constants DEF TypeOK, RegisterType
<1>3. lpRank \in 0 .. NUM_RANKS /\ exec_valid \in BOOLEAN /\ command_pend \in Nat
    BY DEF TypeOK, LowPowerType, RegisterType
<1>4. \A r \in Ranks : pdeWait[r] \in Nat /\ r \in Nat
    BY <1>2 DEF TypeOK, ClockType, Ranks
<1>5. \A r \in Ranks : bankStates[r].cnt \in Nat /\ bankStates[r].act_executing \in BOOLEAN
    BY <1>1 DEF BankType
<1> QED
    BY <1>2, <1>3, <1>4, <1>5 DEF CmdSet

(* The timers that the scheduler starts.                                   *)
LEMMA ScheduleTimers ==
    ASSUME TypeOK, TimingsCoverBus, NEW c \in CmdQueue, Schedule(c)
    PROVE  /\ command_pend' \in Nat
           /\ c.type \in Closing => /\ bankStates'[c.rank].cnt \in Nat
                                    /\ command_pend' <= bankStates'[c.rank].cnt
           /\ pdeWait'[c.rank] \in Nat
           /\ c.type # "ACT1" => command_pend' <= pdeWait'[c.rank]
<1>1. c.type \in CmdTypes /\ c.rank \in Ranks
    BY CmdSetOf
<1>2. /\ cmd_cycle \in Nat /\ pre_cycle \in Nat /\ rw_cycle \in Nat /\ tRFC \in Nat /\ tRP \in Nat
      /\ tCMDPD \in Nat /\ tRDPD \in Nat /\ tRPPD \in Nat /\ cmd_cycle > 0 /\ rw_cycle > 0
    BY Constants
<1>3. command_pend' \in Occupies(c)
    BY DEF Schedule
<1>4. command_pend' \in Nat
    BY <1>1, <1>2, <1>3 DEF Occupies, CmdTypes
<1>5. bankStates'[c.rank] = NextBank(bankStates[c.rank], c) /\ bankStates[c.rank] \in BankType
    BY <1>1 DEF Schedule, TypeOK, BanksType
<1>6. c.type \in Closing => bankStates'[c.rank].cnt = IF c.type = "REF" THEN tRFC + cmd_cycle - 1
                                                      ELSE tRP + cmd_cycle - 1
    BY <1>5 DEF NextBank, Closing, BankType
<1>7. pdeWait'[c.rank] = Larger(pdeWait[c.rank], NextPde(c)) /\ pdeWait[c.rank] \in Nat
    BY <1>1 DEF Schedule, TypeOK, ClockType
<1>8. NextPde(c) \in Nat
    BY <1>1, <1>2 DEF NextPde
<1>9. c.type # "ACT1" => command_pend' <= NextPde(c)
    BY <1>1, <1>2, <1>3 DEF NextPde, Occupies, CmdTypes, TimingsCoverBus
<1>10. c.type \in Closing => command_pend' <= bankStates'[c.rank].cnt /\ bankStates'[c.rank].cnt \in Nat
    BY <1>2, <1>3, <1>6 DEF Occupies, Closing, TimingsCoverBus
<1> QED
    BY <1>4, <1>7, <1>8, <1>9, <1>10 DEF Larger

LEMMA PendStep ==
    ASSUME TimingsCoverBus, TypeOK, RegisterInv, SleepInv, BankInv, AwakeInv, PendInv, [Next]_vars
    PROVE  PendInv'
<1> SUFFICES ASSUME exec_valid' PROVE PendInv'
    BY DEF PendInv
<1> USE DEF At, Then, BeforeExec
<1> DEFINE r == command.rank
<1>a. /\ r \in Ranks /\ command_pend \in Nat /\ pdeWait[r] \in Nat /\ bankStates[r].cnt \in Nat
      /\ lpRank \in Nat /\ r \in Nat
    BY PendTypes
<1>1. ASSUME NEW s \in Ranks, UpdateLpRank(s) PROVE PendInv'
    <2>1. /\ phase = "rank" /\ phase' = "rank" /\ LpRank(s) /\ lpRank = s /\ lpRank' = s + 1
          /\ UNCHANGED <<bankStates, pdeWait, exec_valid, command, command_pend>>
        BY <1>1 DEF UpdateLpRank, LpRank, ctlVars, bankVars
    <2>2. CASE s # r
        <3>1. RankState'[r] = RankState[r]
            BY <1>a, <2>1, <2>2, LpRankOthers
        <3> QED
            BY <1>a, <2>1, <3>1 DEF PendInv, lp_state
    <2>3. CASE s = r
        <3>1. lp_state(r) = "IDLE"
            BY <1>a, <2>1, <2>3 DEF PendInv
        <3>2. SilentMove(r)
            <4>1. ASSUME NEW cmd, LoudMove(r, cmd) PROVE FALSE
                BY <3>1, <4>1 DEF LoudMove, LpTable
            <4> QED
                BY <2>1, <2>3, <4>1, LpMoves
        <3>3. \/ RankState'[r].lp_state = "IDLE"
              \/ RankState'[r].lp_state = "PDE" /\ pdeWait[r] = 0
              \/ bankStates[r].state = "Idle"
            BY <3>1, <3>2 DEF SilentMove
        <3>4. bankStates[r].state = "Idle" => command.type = "ACT1"
            BY <1>a, <2>1, PendTypes DEF PendInv, Closing, CmdTypes
        <3>5. command.type = "ACT1" => RankState'[r].lp_state = "IDLE"
            BY <1>a, <2>1, SleepingStep DEF PendInv, Sleeping, lp_state
        <3> QED
            BY <1>a, <2>1, <2>3, <3>3, <3>4, <3>5 DEF PendInv, lp_state
    <2> QED
        BY <2>2, <2>3
<1>2. CASE UpdateLpBegin
    <2>1. /\ phase = "lp" /\ phase' = "rank"
          /\ UNCHANGED <<bankStates, pdeWait, exec_valid, command, command_pend>>
        BY <1>2 DEF UpdateLpBegin, ctlVars, bankVars
    <2>2. RankState'[r].lp_state = lp_state(r)
        BY <1>a, <1>2, BeginKeeps
    <2> QED
        BY <2>1, <2>2 DEF PendInv, lp_state
<1>3. CASE UpdateLpEnd
    <2>1. /\ phase = "rank" /\ phase' = "send"
          /\ UNCHANGED <<RankState, bankStates, pdeWait, exec_valid, command, command_pend>>
        BY <1>3 DEF UpdateLpEnd, LpEnd, ctlVars, bankVars
    <2> QED
        BY <2>1 DEF PendInv, lp_state
<1>4. CASE Exec
    <2>1. /\ phase = "send" /\ phase' = "fresh" /\ exec_valid
          /\ command_pend' = Less1(command_pend) /\ command_pend' # 0
          /\ UNCHANGED <<RankState, bankStates, pdeWait, command>>
        BY <1>4 DEF Exec, bankVars
    <2>2. command_pend > 1 /\ command_pend' = command_pend - 1
        BY <1>a, <2>1 DEF Less1
    <2> QED
        BY <1>a, <2>1, <2>2 DEF PendInv, lp_state
<1>5. CASE StateFresh
    <2>1. /\ phase = "fresh" /\ phase' = "sched"
          /\ UNCHANGED <<RankState, pdeWait, exec_valid, command, command_pend>>
        BY <1>5 DEF StateFresh, ctlVars, lpVars
    <2>2. command_pend > 0
        BY <2>1 DEF RegisterInv
    <2>3. bankStates'[r].cnt = Less1(bankStates[r].cnt)
        BY <1>5, <1>a DEF StateFresh, TypeOK, BanksType, BankType
    <2>4. command.type \in Closing => /\ ~Over(r) /\ command_pend <= Less1(bankStates[r].cnt)
        BY <1>a, <2>1, <2>2 DEF PendInv, Over, Less1
    <2>5. command.type \in {"ACT2", "RW"} => ~Over(r)
        BY <2>1 DEF PendInv, Over
    <2>6. /\ bankStates'[r].act_executing <=> bankStates[r].act_executing
          /\ bankStates'[r].state = IF Over(r) THEN "Idle" ELSE bankStates[r].state
        BY <1>5, <1>a, FreshBank
    <2>7. command.type \in Closing => command_pend + 0 <= Less1(bankStates[r].cnt)
        BY <1>a, <2>4
    <2> QED
        BY <2>1, <2>3, <2>4, <2>5, <2>6, <2>7 DEF PendInv, lp_state
<1>6. ASSUME NEW c \in CmdQueue, Schedule(c) PROVE PendInv'
    <2>1. /\ phase = "sched" /\ phase' = "que" /\ command' = c /\ RankState' = RankState
          /\ c.rank \in Ranks /\ c.type \in CmdTypes /\ CmdOk(c)
          /\ lp_state(c.rank) = "IDLE"
        BY <1>6, CmdSetOf DEF Schedule, lpVars, BankInv, CmdInv, SleepInv, NoCmdInLpState
    <2>2. /\ c.type = "ACT1" => bankStates'[c.rank].act_executing
          /\ c.type \in {"ACT2", "RW"} => bankStates'[c.rank].state = "RowActive"
          /\ c.type \in Closing => bankStates'[c.rank].state \in {"Precharging", "Refreshing"}
        BY <1>6, <2>1, ScheduleBank DEF CmdOk, Closing
    <2>3. /\ c.type \in Closing => /\ bankStates'[c.rank].cnt \in Nat
                                   /\ command_pend' <= bankStates'[c.rank].cnt
          /\ c.type # "ACT1" => command_pend' <= pdeWait'[c.rank]
          /\ command_pend' \in Nat /\ pdeWait'[c.rank] \in Nat
        BY <1>6, ScheduleTimers
    <2> QED
        BY <2>1, <2>2, <2>3 DEF PendInv, lp_state
<1>7. CASE PageTimeoutPolicy
    <2>1. /\ phase = "ptp" /\ phase' = "ref"
          /\ UNCHANGED <<RankState, pdeWait, exec_valid, command, command_pend>>
        BY <1>7 DEF PageTimeoutPolicy
    <2>2. bankStates'[r].cnt = bankStates[r].cnt
        BY <1>7, <1>a DEF PageTimeoutPolicy, TypeOK, BanksType, BankType
    <2>3. /\ bankStates'[r].act_executing <=> bankStates[r].act_executing
          /\ bankStates'[r].state = bankStates[r].state
        BY <1>7, <1>a, TimeoutBank
    <2> QED
        BY <2>1, <2>2, <2>3 DEF PendInv, lp_state
<1>8. CASE EndCycle
    <2>1. /\ phase = "data" /\ phase' = "inform"
          /\ UNCHANGED <<RankState, bankStates, exec_valid, command, command_pend>>
          /\ pdeWait'[r] = Less1(pdeWait[r])
        BY <1>8, <1>a DEF EndCycle, ctlVars, bankVars, lpVars
    <2>2. command_pend <= pdeWait[r] => command_pend <= Less1(pdeWait[r]) + 1
        BY <1>a DEF Less1
    <2> QED
        BY <1>a, <2>1, <2>2 DEF PendInv, lp_state
<1>9. CASE /\ UNCHANGED <<RankState, bankStates, pdeWait, exec_valid, command, command_pend>>
           /\ BeforeExec' <=> BeforeExec
           /\ phase # "rank" /\ (phase' = "send" <=> phase = "send") /\ phase' # "fresh"
    <2> HIDE DEF BeforeExec
    <2>1. command_pend + (IF phase = "fresh" THEN 1 ELSE 0) <= bankStates[r].cnt =>
              command_pend + 0 <= bankStates[r].cnt
        BY <1>a
    <2> QED
        BY <1>9, <1>a, <2>1 DEF PendInv, lp_state
<1>10. CASE UNCHANGED vars
    BY <1>10 DEF vars, lpVars, ctlVars, bankVars, PendInv, lp_state
<1> QED
    BY <1>1, <1>2, <1>3, <1>4, <1>5, <1>6, <1>7, <1>8, <1>9, <1>10, NextPend
-----------------------------------------------------------------------------
(***************************************************************************)
(* What a rank will have been told when all packets have arrived.  The     *)
(* packets arrive one after the other; each must be legal when it comes,   *)
(* and at the end the ranks are where the controller believes them to be,  *)
(* but for the command in the register.                                    *)
(***************************************************************************)
After(d, cmd) ==
    [power |-> CASE cmd = "PD" -> "PD"
                 [] cmd \in {"ASREF", "SRPDX"} -> "ASREF"
                 [] cmd = "SRPD" -> "SRPD"
                 [] cmd \in {"PDX", "ASREFX"} -> "IDLE"
                 [] OTHER -> d.power,
     open  |-> CASE cmd = "ACT2" -> TRUE
                 [] cmd \in {"PRE_PB", "PRE_AB", "REF"} -> FALSE
                 [] OTHER -> d.open,
     last  |-> cmd]

Told(d, p) == [d EXCEPT ![p.rank] = After(@, p.type)]

(* The guards of DramRank.                                                 *)
Legal(d, cmd) ==
    /\ cmd \in CmdTypes \cup {"PD", "ASREF"} => d.power = "IDLE"
    /\ cmd \in {"ACT1", "ACT2", "REF", "ASREF", "SRPD"} => ~d.open
    /\ cmd = "ACT2" => d.last = "ACT1"
    /\ cmd = "RW" => d.open
    /\ cmd = "PDX" => d.power = "PD"
    /\ cmd = "ASREFX" => d.power = "ASREF"
    /\ cmd = "SRPD" => d.power \in {"IDLE", "ASREF"}
    /\ cmd = "SRPDX" => d.power = "SRPD"

(* s[i] is what the ranks have been told by the first i packets.           *)
Course(p, d, f, s) ==
    /\ s \in [0 .. Len(p) -> [Ranks -> DramType]]
    /\ s[0] = d /\ s[Len(p)] = f
    /\ \A i \in 1 .. Len(p) : /\ Legal(s[i - 1][p[i].rank], p[i].type)
                              /\ s[i] = Told(s[i - 1], p[i])

InFlight(p, d, f) == \E s : Course(p, d, f, s)

(* The controller's own idea of a rank.                                    *)
Agrees(d, r) ==
    /\ d.power \in PowerOf(lp_state(r))
    /\ d.open <=> bankStates[r].state = "RowActive"
    /\ bankStates[r].act_executing => d.last = "ACT1"

Pending(r) == exec_valid /\ command.rank = r

Lands(f, r) == IF Pending(r) THEN Legal(f[r], command.type) /\ Agrees(After(f[r], command.type), r)
               ELSE Agrees(f[r], r)

FlightInv == \E f \in [Ranks -> DramType] : InFlight(packet, dram, f) /\ \A r \in Ranks : Lands(f, r)
-----------------------------------------------------------------------------
LEMMA AfterType ==
    ASSUME NEW d \in DramType, NEW cmd \in CmdTypes \cup LpCommands
    PROVE  After(d, cmd) \in DramType
    BY DEF After, DramType

LEMMA ToldType ==
    ASSUME NEW d \in [Ranks -> DramType], NEW x \in PacketType
    PROVE  /\ Told(d, x) \in [Ranks -> DramType]
           /\ x.rank \in Ranks /\ Told(d, x)[x.rank] = After(d[x.rank], x.type)
           /\ \A r \in Ranks : r # x.rank => Told(d, x)[r] = d[r]
<1>1. x.rank \in Ranks /\ x.type \in CmdTypes \cup LpCommands
    BY DEF PacketType
<1>2. After(d[x.rank], x.type) \in DramType
    BY <1>1, AfterType
<1> QED
    BY <1>1, <1>2 DEF Told

LEMMA NothingInFlight ==
    ASSUME NEW d \in [Ranks -> DramType]
    PROVE  InFlight(<< >>, d, d)
<1>1. Course(<< >>, d, d, [i \in 0 .. 0 |-> d])
    BY DEF Course
<1> QED
    BY <1>1 DEF InFlight

LEMMA OneMoreInFlight ==
    ASSUME NEW p \in Seq(PacketType), NEW d, NEW f \in [Ranks -> DramType], InFlight(p, d, f),
           NEW x \in PacketType, Legal(f[x.rank], x.type)
    PROVE  InFlight(Append(p, x), d, Told(f, x))
<1> DEFINE n == Len(p)
<1>1. PICK s : Course(p, d, f, s)
    BY DEF InFlight
<1> DEFINE t == [i \in 0 .. n + 1 |-> IF i = n + 1 THEN Told(f, x) ELSE s[i]]
           a == Append(p, x)
<1>2. n \in Nat /\ Len(a) = n + 1 /\ a[n + 1] = x /\ \A i \in 1 .. n : a[i] = p[i]
    OBVIOUS
<1>3. Told(f, x) \in [Ranks -> DramType]
    BY ToldType
<1>4. s \in [0 .. n -> [Ranks -> DramType]] /\ s[0] = d /\ s[n] = f
    BY <1>1 DEF Course
<1> HIDE DEF a, n
<1>5. t \in [0 .. n + 1 -> [Ranks -> DramType]] /\ t[0] = d /\ t[n + 1] = Told(f, x)
      /\ \A i \in 0 .. n : t[i] = s[i]
    BY <1>2, <1>3, <1>4
<1> HIDE DEF t
<1>6. ASSUME NEW i \in 1 .. n + 1
      PROVE  Legal(t[i - 1][a[i].rank], a[i].type) /\ t[i] = Told(t[i - 1], a[i])
    <2>1. CASE i = n + 1
        <3>1. i - 1 = n /\ n \in 0 .. n
            BY <1>2, <2>1
        <3> QED
            BY <1>2, <1>4, <1>5, <2>1, <3>1
    <2>2. CASE i # n + 1
        <3>1. i \in 1 .. n /\ i \in 0 .. n /\ i - 1 \in 0 .. n
            BY <1>2, <2>2
        <3>2. Legal(s[i - 1][p[i].rank], p[i].type) /\ s[i] = Told(s[i - 1], p[i])
            BY <1>1, <3>1 DEF Course, n
        <3> QED
            BY <1>2, <1>5, <3>1, <3>2
    <2> QED
        BY <2>1, <2>2
<1>7. Course(a, d, Told(f, x), t)
    BY <1>2, <1>5, <1>6 DEF Course
<1> QED
    BY <1>7 DEF InFlight, a

LEMMA FirstInFlight ==
    ASSUME NEW p \in Seq(PacketType), p # << >>, NEW d, NEW f, InFlight(p, d, f)
    PROVE  Legal(d[p[1].rank], p[1].type) /\ InFlight(Tail(p), Told(d, p[1]), f)
<1> DEFINE n == Len(p)
           q == Tail(p)
<1>1. PICK s : Course(p, d, f, s)
    BY DEF InFlight
<1> DEFINE t == [i \in 0 .. n - 1 |-> s[i + 1]]
<1>2. /\ n \in Nat /\ n >= 1 /\ Len(q) = n - 1 /\ q \in Seq(PacketType)
      /\ \A i \in 1 .. n - 1 : q[i] = p[i + 1]
    OBVIOUS
<1>3. s \in [0 .. n -> [Ranks -> DramType]] /\ s[0] = d /\ s[n] = f
    BY <1>1 DEF Course
<1>4. \A i \in 1 .. n : Legal(s[i - 1][p[i].rank], p[i].type) /\ s[i] = Told(s[i - 1], p[i])
    BY <1>1 DEF Course
<1> HIDE DEF n, q
<1>5. Legal(d[p[1].rank], p[1].type) /\ s[1] = Told(d, p[1])
    <2>1. 1 \in 1 .. n /\ 1 - 1 = 0
        BY <1>2
    <2> QED
        BY <1>3, <1>4, <2>1
<1>6. \A i \in 0 .. n - 1 : i + 1 \in 0 .. n /\ t[i] = s[i + 1]
    BY <1>2
<1>7. t \in [0 .. n - 1 -> [Ranks -> DramType]] /\ t[0] = s[1] /\ t[n - 1] = f
    <2>1. 0 \in 0 .. n - 1 /\ n - 1 \in 0 .. n - 1 /\ (n - 1) + 1 = n /\ 0 + 1 = 1
        BY <1>2
    <2>2. t[n - 1] = s[n]
        BY <1>6, <2>1
    <2> QED
        BY <1>2, <1>3, <1>6, <2>1, <2>2
<1> HIDE DEF t
<1>8. ASSUME NEW i \in 1 .. n - 1
      PROVE  Legal(t[i - 1][q[i].rank], q[i].type) /\ t[i] = Told(t[i - 1], q[i])
    <2>1. i + 1 \in 1 .. n /\ i \in 0 .. n - 1 /\ i - 1 \in 0 .. n - 1 /\ (i - 1) + 1 = i
          /\ (i + 1) - 1 = i
        BY <1>2
    <2>2. t[i - 1] = s[i] /\ t[i] = s[i + 1] /\ q[i] = p[i + 1]
        BY <1>2, <1>6, <2>1
    <2>3. Legal(s[i][p[i + 1].rank], p[i + 1].type) /\ s[i + 1] = Told(s[i], p[i + 1])
        BY <1>4, <2>1
    <2> QED
        BY <2>2, <2>3
<1>9. Course(q, s[1], f, t)
    BY <1>2, <1>7, <1>8 DEF Course
<1> QED
    BY <1>5, <1>9 DEF InFlight, q

LEMMA OneLessInFlight ==
    ASSUME NEW p \in Seq(PacketType), NEW d, NEW f, InFlight(p, d, f)
    PROVE  InFlight(OneLess(p), d, f)
<1>1. PICK s : Course(p, d, f, s)
    BY DEF InFlight
<1>2. Len(OneLess(p)) = Len(p) /\ \A i \in 1 .. Len(p) : OneLess(p)[i].type = p[i].type
                                                        /\ OneLess(p)[i].rank = p[i].rank
    BY OneLessIs
<1>3. Course(OneLess(p), d, f, s)
    BY <1>1, <1>2 DEF Course, Told
<1> QED
    BY <1>3 DEF InFlight
-----------------------------------------------------------------------------
LEMMA NextFlight ==
    [Next]_vars =>
        \/ \E r \in Ranks : UpdateLpRank(r)
        \/ UpdateLpBegin \/ SendPacket \/ Exec \/ StateFresh
        \/ \E c \in CmdQueue : Schedule(c)
        \/ PageTimeoutPolicy
        \/ UNCHANGED <<RankState, bankStates, exec_valid, command, packet, dram>>
    BY DEF Next, vars, lpVars, ctlVars, bankVars, dramVars, Inform, addTransaction, NoTransaction,
           UpdateLpEnd, LpEnd, SkipPacket, NothingToSchedule, Retire, NothingToRetire, QuePipeline,
           Refresh, EndCycle

(* Who leaves the register and what the controller knows of the ranks      *)
(* alone, leaves alone where the packets land.                             *)
LEMMA LandsSame ==
    ASSUME UNCHANGED <<exec_valid, command>>, NEW f, NEW r,
           RankState'[r].lp_state = lp_state(r),
           bankStates'[r].state = "RowActive" <=> bankStates[r].state = "RowActive",
           bankStates'[r].act_executing <=> bankStates[r].act_executing,
           Lands(f, r)
    PROVE  Lands(f, r)'
    BY DEF Lands, Agrees, Pending, lp_state

(* update_lp_state sends nothing to a rank for which a command waits, and  *)
(* nothing that the rank would not accept.                                 *)
LEMMA LoudLands ==
    ASSUME TypeOK, PendInv, AwakeInv, NEW r \in Ranks, UpdateLpRank(r), NEW cmd \in LpCommands,
           LoudMove(r, cmd), NEW f \in [Ranks -> DramType], Lands(f, r)
    PROVE  /\ Legal(f[r], cmd)
           /\ ~Pending(r)' /\ Agrees(After(f[r], cmd), r)'
<1>1. /\ phase = "rank" /\ lpRank = r /\ UNCHANGED <<exec_valid, command, bankStates>>
    BY DEF UpdateLpRank, At, LpRank, ctlVars, bankVars
<1>2. lp_state(r) # "IDLE" /\ RankState'[r].lp_state # "IDLE"
    BY DEF LoudMove, LpTable
<1>3. ~Pending(r)
    <2>1. ~(lpRank > r)
        BY <1>1, PendTypes
    <2> QED
        BY <1>1, <1>2, <2>1 DEF Pending, PendInv
<1>4. Agrees(f[r], r) /\ ~Pending(r)'
    BY <1>1, <1>3 DEF Lands, Pending
<1>5. lp_state(r) \in SelfRefresh => bankStates[r].state # "RowActive"
    BY DEF AwakeInv, Sleeping
<1>6. ~bankStates[r].act_executing
    BY <1>2 DEF AwakeInv, Sleeping
<1>7. f[r].power \in PowerOf(lp_state(r)) /\ (f[r].open <=> bankStates[r].state = "RowActive")
    BY <1>4 DEF Agrees
<1>8. Legal(f[r], cmd)
    <2>1. <<cmd, lp_state(r), RankState'[r].lp_state>> \in LpTable
        BY DEF LoudMove
    <2>2. cmd \in {"ASREF", "SRPD"} => ~f[r].open
        BY <1>5, <1>7, <2>1 DEF LpTable, SelfRefresh
    <2> QED
        BY <1>7, <2>1, <2>2 DEF Legal, LpTable, PowerOf, CmdTypes, LpCommands
<1>9. After(f[r], cmd).power \in PowerOf(RankState'[r].lp_state)
    BY <1>7 DEF LoudMove, LpTable, After, PowerOf
<1>10. After(f[r], cmd).open = f[r].open
    BY DEF After, LpCommands
<1> QED
    BY <1>1, <1>4, <1>6, <1>7, <1>8, <1>9, <1>10 DEF Agrees, lp_state

(* The scheduler chooses what the rank will accept once all packets have   *)
(* arrived.                                                                *)
LEMMA ScheduleLands ==
    ASSUME TypeOK, SleepInv, BankInv, NEW c \in CmdQueue, Schedule(c),
           NEW f \in [Ranks -> DramType], Agrees(f[c.rank], c.rank)
    PROVE  Legal(f[c.rank], c.type) /\ Agrees(After(f[c.rank], c.type), c.rank)'
<1> DEFINE r == c.rank
           d == f[c.rank]
<1>1. /\ r \in Ranks /\ c.type \in CmdTypes /\ CmdOk(c) /\ RankState' = RankState
      /\ lp_state(r) = "IDLE"
    BY CmdSetOf, NextBanksLp DEF BankInv, CmdInv, SleepInv, NoCmdInLpState
<1>2. d.power = "IDLE" /\ (d.open <=> bankStates[r].state = "RowActive")
      /\ (bankStates[r].act_executing => d.last = "ACT1")
    BY <1>1 DEF Agrees, PowerOf
<1>3. /\ c.type \in {"RW", "PRE_PB", "PRE_AB"} <=> bankStates[r].state = "RowActive"
      /\ c.type = "REF" => ~bankStates[r].act_executing
      /\ c.type = "ACT2" => bankStates[r].act_executing
      /\ bankStates[r].act_executing => bankStates[r].state # "RowActive"
    BY <1>1 DEF CmdOk, BankInv, ActInv, Activating
<1>4. /\ bankStates'[r].state = CASE c.type = "ACT2" -> "RowActive"
                                  [] c.type = "REF" -> "Refreshing"
                                  [] c.type \in {"PRE_PB", "PRE_AB"} -> "Precharging"
                                  [] c.type \in {"ACT1", "RW"} -> bankStates[r].state
      /\ bankStates'[r].act_executing <=>
            c.type = "ACT1" \/ (c.type # "ACT2" /\ bankStates[r].act_executing)
    BY <1>1, ScheduleBank
<1> HIDE DEF d, r
<1>5. Legal(d, c.type)
    BY <1>1, <1>2, <1>3 DEF Legal, CmdTypes
<1>6. After(d, c.type).power = "IDLE" /\ After(d, c.type).last = c.type
    BY <1>1, <1>2 DEF After, CmdTypes
<1>7. After(d, c.type).open <=> bankStates'[r].state = "RowActive"
    BY <1>1, <1>2, <1>3, <1>4 DEF After, CmdTypes
<1>8. bankStates'[r].act_executing => c.type = "ACT1"
    BY <1>1, <1>3, <1>4 DEF CmdTypes
<1>9. After(d, c.type).power \in PowerOf(RankState'[r].lp_state)
    BY <1>1, <1>6 DEF PowerOf, lp_state
<1> QED
    BY <1>5, <1>6, <1>7, <1>8, <1>9 DEF Agrees, lp_state, d, r

LEMMA FlightStep ==
    ASSUME TypeOK, RegisterInv, SleepInv, BankInv, AwakeInv, PacketInv, PendInv, FlightInv,
           [Next]_vars
    PROVE  FlightInv'
<1>a. packet \in Seq(PacketType)
    BY DEF TypeOK, BusType
<1>b. PICK f \in [Ranks -> DramType] : InFlight(packet, dram, f) /\ \A r \in Ranks : Lands(f, r)
    BY DEF FlightInv
<1>1. ASSUME NEW r \in Ranks, UpdateLpRank(r) PROVE FlightInv'
    <2>1. /\ LpRank(r) /\ UNCHANGED <<exec_valid, command, bankStates, dram>>
        BY <1>1 DEF UpdateLpRank, ctlVars, bankVars, dramVars
    <2>2. \A s \in Ranks : s # r => Lands(f, s)'
        BY <1>b, <2>1, LpRankOthers, LandsSame DEF lp_state
    <2>3. CASE SilentMove(r)
        <3>1. packet' = packet /\ PowerOf(lp_state(r)) \subseteq PowerOf(RankState'[r].lp_state)
            BY <2>3 DEF SilentMove
        <3>2. Lands(f, r)'
            BY <1>b, <2>1, <3>1 DEF Lands, Agrees, Pending, lp_state
        <3> QED
            BY <1>b, <2>1, <2>2, <3>1, <3>2 DEF FlightInv
    <2>4. ASSUME NEW cmd \in LpCommands, LoudMove(r, cmd) PROVE FlightInv'
        <3> DEFINE x == [type |-> cmd, rank |-> r, delay |-> tCMD_PHY]
        <3>1. x \in PacketType /\ x.rank = r /\ x.type = cmd /\ packet' = Append(packet, x)
            BY <2>4, Constants DEF PacketType, LoudMove, Send
        <3> HIDE DEF x
        <3>2. Legal(f[r], cmd) /\ ~Pending(r)' /\ Agrees(After(f[r], cmd), r)'
            BY <1>1, <1>b, <2>4, LoudLands
        <3>3. InFlight(packet', dram', Told(f, x))
            BY <1>a, <1>b, <2>1, <3>1, <3>2, OneMoreInFlight
        <3>4. /\ Told(f, x) \in [Ranks -> DramType] /\ Told(f, x)[r] = After(f[r], cmd)
              /\ \A s \in Ranks : s # r => Told(f, x)[s] = f[s]
            BY <3>1, ToldType
        <3>5. Lands(Told(f, x), r)'
            BY <3>2, <3>4 DEF Lands
        <3>6. \A s \in Ranks : s # r => Lands(Told(f, x), s)'
            BY <2>2, <3>4 DEF Lands
        <3> QED
            BY <3>3, <3>4, <3>5, <3>6 DEF FlightInv
    <2> QED
        BY <2>1, <2>3, <2>4, LpMoves
<1>2. CASE UpdateLpBegin
    <2>1. UNCHANGED <<exec_valid, command, bankStates, packet, dram>>
        BY <1>2 DEF UpdateLpBegin, LpBegin, ctlVars, bankVars, dramVars
    <2>2. \A r \in Ranks : Lands(f, r)'
        BY <1>2, <1>b, <2>1, BeginKeeps, LandsSame
    <2> QED
        BY <1>b, <2>1, <2>2 DEF FlightInv
<1>3. CASE SendPacket
    <2>1. /\ UNCHANGED <<exec_valid, command, bankStates, RankState>>
          /\ packet' = Tail(packet) /\ receiveFromBus(Head(packet).rank, packet[scan].type)
          /\ scan = 1 /\ packet # << >> /\ Head(packet) = packet[1]
        BY <1>3, DueIsHead DEF SendPacket, ctlVars, bankVars
    <2>2. dram' = Told(dram, packet[1])
        BY <2>1 DEF receiveFromBus, Told, After
    <2>3. InFlight(packet', dram', f)
        BY <1>a, <1>b, <2>1, <2>2, FirstInFlight
    <2>4. \A r \in Ranks : Lands(f, r)'
        BY <1>b, <2>1, LandsSame DEF lp_state
    <2> QED
        BY <2>3, <2>4 DEF FlightInv
<1>4. CASE Exec
    <2>1. UNCHANGED <<command, bankStates, RankState, dram>>
        BY <1>4 DEF Exec, bankVars, dramVars
    <2>2. CASE exec_valid /\ Less1(command_pend) = 0
        <3> DEFINE out == [type |-> command.type, rank |-> command.rank, delay |-> tCMD_PHY]
        <3>0. out \in PacketType /\ out.rank = command.rank /\ out.type = command.type
            BY PendTypes, Constants DEF PacketType
        <3>1. packet' = OneLess(Append(packet, out)) /\ ~exec_valid'
            BY <1>4, <2>2 DEF Exec
        <3> HIDE DEF out
        <3> PICK x \in PacketType : x = out
            BY <3>0
        <3>2. x \in PacketType /\ x.rank = command.rank /\ x.type = command.type
            BY <3>0
        <3>3. Legal(f[x.rank], x.type) /\ Agrees(After(f[x.rank], x.type), x.rank)
            BY <1>b, <2>2, <3>2, PendTypes DEF Lands, Pending
        <3>4. InFlight(Append(packet, x), dram, Told(f, x)) /\ Append(packet, x) \in Seq(PacketType)
            BY <1>a, <1>b, <3>2, <3>3, OneMoreInFlight
        <3>5. InFlight(packet', dram', Told(f, x))
            BY <2>1, <3>1, <3>4, OneLessInFlight
        <3>6. /\ Told(f, x) \in [Ranks -> DramType] /\ Told(f, x)[x.rank] = After(f[x.rank], x.type)
              /\ \A s \in Ranks : s # x.rank => Told(f, x)[s] = f[s]
            BY <3>2, ToldType
        <3>7. ASSUME NEW s \in Ranks PROVE Lands(Told(f, x), s)'
            <4>1. CASE s = x.rank
                BY <2>1, <3>1, <3>3, <3>6, <4>1 DEF Lands, Pending, Agrees, lp_state
            <4>2. CASE s # x.rank
                <5>1. Agrees(f[s], s)
                    BY <1>b, <3>2, <4>2 DEF Lands, Pending
                <5> QED
                    BY <2>1, <3>1, <3>6, <4>2, <5>1 DEF Lands, Pending, Agrees, lp_state
            <4> QED
                BY <4>1, <4>2
        <3> QED
            BY <3>5, <3>6, <3>7 DEF FlightInv
    <2>3. CASE ~(exec_valid /\ Less1(command_pend) = 0)
        <3>1. packet' = OneLess(packet) /\ exec_valid' = exec_valid
            BY <1>4, <2>3, PendTypes DEF Exec
        <3>2. InFlight(packet', dram', f)
            BY <1>a, <1>b, <2>1, <3>1, OneLessInFlight
        <3>3. \A r \in Ranks : Lands(f, r)'
            BY <1>b, <2>1, <3>1, LandsSame DEF lp_state
        <3> QED
            BY <3>2, <3>3 DEF FlightInv
    <2> QED
        BY <2>2, <2>3
<1>5. CASE StateFresh
    <2>1. UNCHANGED <<exec_valid, command, packet, dram>> /\ RankState' = RankState
        BY <1>5 DEF StateFresh, ctlVars, lpVars, dramVars
    <2>2. \A r \in Ranks : Lands(f, r)'
        <3> TAKE r \in Ranks
        <3>1. /\ bankStates'[r].act_executing <=> bankStates[r].act_executing
              /\ bankStates'[r].state = "RowActive" <=> bankStates[r].state = "RowActive"
            BY <1>5, FreshBank DEF Over
        <3> QED
            BY <1>b, <2>1, <3>1, LandsSame DEF lp_state
    <2> QED
        BY <1>b, <2>1, <2>2 DEF FlightInv
<1>6. ASSUME NEW c \in CmdQueue, Schedule(c) PROVE FlightInv'
    <2>1. /\ ~exec_valid /\ exec_valid' /\ command' = c /\ c.rank \in Ranks
          /\ UNCHANGED <<RankState, packet, dram>>
        BY <1>6, CmdSetOf DEF Schedule, lpVars, dramVars, RegisterInv, Choosing, At
    <2>2. \A r \in Ranks : Agrees(f[r], r)
        BY <1>b, <2>1 DEF Lands, Pending
    <2>3. Lands(f, c.rank)'
        BY <1>6, <2>1, <2>2, ScheduleLands DEF Lands, Pending
    <2>4. \A r \in Ranks : r # c.rank => Lands(f, r)'
        <3>1. \A r \in Ranks : r # c.rank => bankStates'[r] = bankStates[r]
            BY <1>6, ScheduleBank
        <3> QED
            BY <2>1, <2>2, <3>1 DEF Lands, Pending, Agrees, lp_state
    <2> QED
        BY <1>b, <2>1, <2>3, <2>4 DEF FlightInv
<1>7. CASE PageTimeoutPolicy
    <2>1. UNCHANGED <<exec_valid, command, packet, dram>> /\ RankState' = RankState
        BY <1>7 DEF PageTimeoutPolicy, dramVars
    <2>2. \A r \in Ranks : Lands(f, r)'
        BY <1>7, <1>b, <2>1, TimeoutBank, LandsSame DEF lp_state
    <2> QED
        BY <1>b, <2>1, <2>2 DEF FlightInv
<1>8. CASE UNCHANGED <<RankState, bankStates, exec_valid, command, packet, dram>>
    <2>1. \A r \in Ranks : Lands(f, r)'
        BY <1>b, <1>8, LandsSame DEF lp_state
    <2> QED
        BY <1>b, <1>8, <2>1 DEF FlightInv
<1> QED
    BY <1>1, <1>2, <1>3, <1>4, <1>5, <1>6, <1>7, <1>8, NextFlight

LEMMA FlightInit == Init => PendInv /\ FlightInv
<1> SUFFICES ASSUME Init PROVE PendInv /\ FlightInv
    OBVIOUS
<1>1. PendInv
    BY DEF Init, PendInv
<1>2. dram \in [Ranks -> DramType] /\ packet = << >>
    BY DEF Init, LpInit, DramType
<1>3. InFlight(packet, dram, dram)
    BY <1>2, NothingInFlight
<1>4. \A r \in Ranks : Lands(dram, r)
    BY DEF Init, LpInit, Lands, Pending, Agrees, PowerOf, lp_state
<1> QED
    BY <1>1, <1>2, <1>3, <1>4 DEF FlightInv
-----------------------------------------------------------------------------
(***************************************************************************)
(* The refinement.  Only SendPacket is a step of the ranks.                *)
(***************************************************************************)
LEMMA NextDram == [Next]_vars => SendPacket \/ UNCHANGED dram
    BY DEF Next, vars, dramVars, Inform, addTransaction, NoTransaction, UpdateLpBegin, UpdateLpRank,
           UpdateLpEnd, SkipPacket, Exec, StateFresh, Schedule, NothingToSchedule, Retire,
           NothingToRetire, QuePipeline, PageTimeoutPolicy, Refresh, EndCycle

(* A rank that gets a legal command makes a step of DramRank.              *)
LEMMA LegalIsStep ==
    ASSUME dram \in [Ranks -> DramType], NEW x \in PacketType, dram' = Told(dram, x),
           Legal(dram[x.rank], x.type)
    PROVE  Dram!Next
<1> DEFINE r == x.rank
           power == [s \in Ranks |-> dram[s].power]
           open == [s \in Ranks |-> dram[s].open]
           last == [s \in Ranks |-> dram[s].last]
           a == After(dram[r], x.type)
<1>1. r \in Ranks /\ x.type \in CmdTypes \cup LpCommands /\ dram[r] \in DramType
    BY DEF PacketType
<1>2. dram'[r] = a /\ \A s \in Ranks : s # r => dram'[s] = dram[s]
    BY ToldType
<1> HIDE DEF r, a
<1>3. /\ power' = [power EXCEPT ![r] = a.power]
      /\ open' = [open EXCEPT ![r] = a.open]
      /\ last' = [last EXCEPT ![r] = a.last]
    BY <1>1, <1>2
<1>4. /\ power[r] = dram[r].power /\ open[r] = dram[r].open /\ last[r] = dram[r].last
    BY <1>1
<1>5. /\ a.power = dram[r].power => power' = power
      /\ a.open = dram[r].open => open' = open
    BY <1>1, <1>3, <1>4
<1>6. a = After(dram[r], x.type) /\ a.last = x.type /\ Legal(dram[r], x.type)
    BY DEF a, r, After
<1> DEFINE cmd == x.type
<1>7. cmd = "ACT1" => Dram!Activate1(r)
    BY <1>3, <1>4, <1>5, <1>6 DEF Dram!Activate1, Dram!Took, Legal, After, CmdTypes
<1>8. cmd = "ACT2" => Dram!Activate2(r)
    BY <1>3, <1>4, <1>5, <1>6 DEF Dram!Activate2, Dram!Rows, Dram!Took, Legal, After, CmdTypes
<1>9. cmd = "RW" => Dram!Access(r)
    BY <1>3, <1>4, <1>5, <1>6 DEF Dram!Access, Dram!Took, Legal, After, CmdTypes
<1>10. cmd \in {"PRE_PB", "PRE_AB"} => Dram!Precharge(r)
    BY <1>3, <1>4, <1>5, <1>6 DEF Dram!Precharge, Dram!Rows, Dram!Took, Legal, After, CmdTypes
<1>11. cmd = "REF" => Dram!Refresh(r)
    BY <1>1, <1>3, <1>4, <1>5, <1>6 DEF Dram!Refresh, Dram!Took, Legal, After, CmdTypes, DramType
<1>12. cmd = "PD" => Dram!PowerDown(r)
    BY <1>3, <1>4, <1>5, <1>6 DEF Dram!PowerDown, Dram!GoTo, Dram!Took, Legal, After
<1>13. cmd = "PDX" => Dram!PowerUp(r)
    BY <1>3, <1>4, <1>5, <1>6 DEF Dram!PowerUp, Dram!GoTo, Dram!Took, Legal, After
<1>14. cmd = "ASREF" => Dram!SelfRefresh(r)
    BY <1>3, <1>4, <1>5, <1>6 DEF Dram!SelfRefresh, Dram!GoTo, Dram!Took, Legal, After
<1>15. cmd = "ASREFX" => Dram!SelfRefreshExit(r)
    BY <1>3, <1>4, <1>5, <1>6 DEF Dram!SelfRefreshExit, Dram!GoTo, Dram!Took, Legal, After
<1>16. cmd = "SRPD" => Dram!SrPowerDown(r)
    BY <1>3, <1>4, <1>5, <1>6 DEF Dram!SrPowerDown, Dram!GoTo, Dram!Took, Legal, After
<1>17. cmd = "SRPDX" => Dram!SrPowerUp(r)
    BY <1>3, <1>4, <1>5, <1>6 DEF Dram!SrPowerUp, Dram!GoTo, Dram!Took, Legal, After
<1> QED
    BY <1>1, <1>7, <1>8, <1>9, <1>10, <1>11, <1>12, <1>13, <1>14, <1>15, <1>16, <1>17
       DEF Dram!Next, CmdTypes, LpCommands

(* What the safety of the command path rests on, all together.             *)
PathInv == TypeOK /\ RegisterInv /\ SleepInv /\ BankInv /\ AwakeInv /\ PacketInv

LEMMA PathInit == Init => PathInv
<1>1. Init => RegisterInv
    BY DEF Init, RegisterInv
<1> QED
    BY <1>1, TypeInit, SleepInit, BankInit, AwakeInit, PacketInit DEF PathInv

LEMMA PathStep == PathInv /\ [Next]_vars => PathInv'
<1>1. SleepInv => QueueInv
    BY DEF SleepInv
<1> QED
    BY <1>1, TypeStep, RegisterStep, SleepStep, BankStep, AwakeStep, PacketStep DEF PathInv

LEMMA DramInit == Init => Dram!Init
    BY DEF Init, Dram!Init

LEMMA DramStep ==
    PathInv /\ FlightInv /\ [Next]_vars => [Dram!Next]_(Dram!vars)
<1> SUFFICES ASSUME PathInv, FlightInv, [Next]_vars PROVE [Dram!Next]_(Dram!vars)
    OBVIOUS
<1>1. CASE SendPacket
    <2>1. /\ receiveFromBus(Head(packet).rank, packet[scan].type)
          /\ scan = 1 /\ packet # << >> /\ Head(packet) = packet[1]
        BY <1>1, DueIsHead DEF SendPacket, PathInv
    <2>2. packet[1] \in PacketType /\ dram \in [Ranks -> DramType] /\ packet \in Seq(PacketType)
        BY <2>1 DEF PathInv, TypeOK, BusType
    <2>3. dram' = Told(dram, packet[1])
        BY <2>1 DEF receiveFromBus, Told, After
    <2>4. Legal(dram[packet[1].rank], packet[1].type)
        BY <2>1, <2>2, FirstInFlight DEF FlightInv
    <2> QED
        BY <2>2, <2>3, <2>4, LegalIsStep
<1>2. CASE UNCHANGED dram
    BY <1>2 DEF Dram!vars
<1> QED
    BY <1>1, <1>2, NextDram

(* What the DRAM receives is legal: every step of the controller is a step *)
(* that DramRank allows its ranks, or none of theirs.                      *)
THEOREM DramLegalHolds == ASSUME TimingsCoverBus PROVE Spec => DramLegal
<1>1. Init => PathInv /\ PendInv /\ FlightInv /\ Dram!Init
    BY PathInit, FlightInit, DramInit
<1>2. PathInv /\ PendInv /\ FlightInv /\ [Next]_vars => (PathInv /\ PendInv /\ FlightInv)'
    BY PathStep, PendStep, FlightStep DEF PathInv
<1>3. PathInv /\ FlightInv /\ [Next]_vars => [Dram!Next]_(Dram!vars)
    BY DramStep
<1> QED
    BY <1>1, <1>2, <1>3, PTL DEF Spec, DramLegal, Dram!Spec
-----------------------------------------------------------------------------
(***************************************************************************)
(* The quiet times.  A packet arrives delay cycles from now, and the rank  *)
(* must be out of its quiet time by then.  The controller keeps a rank in  *)
(* its state for as long as Cnt says, which is as long as the quiet time   *)
(* that begins when the packet sent last arrives.                          *)
(***************************************************************************)
HasQuiet == {"PD", "SRPD", "PDX", "SRPDX", "ASREFX"}

(* The cycle's end is one step further away before exec than after it.     *)
Offset(ph)   == IF ph \in {"inform", "add", "lp", "rank", "send"} THEN 0 ELSE 1
Early(ph) == ph \in {"inform", "add", "lp"}

Hushed(d, x, off) == IF x.type \in HasQuiet
                     THEN [d EXCEPT ![x.rank] = x.delay + off + QuietAfter(x.type)] ELSE d

QuietCourse(p, off, d, f, s) ==
    /\ s \in [0 .. Len(p) -> [Ranks -> Nat]]
    /\ s[0] = d /\ s[Len(p)] = f
    /\ \A i \in 1 .. Len(p) : /\ s[i - 1][p[i].rank] <= p[i].delay + off
                              /\ s[i] = Hushed(s[i - 1], p[i], off)

QuietFlight(p, off, d, f) == \E s : QuietCourse(p, off, d, f, s)

Left(r) == IF Early(phase) THEN Less1(Cnt(r)) ELSE Cnt(r)

QuietInv == \E f \in [Ranks -> Nat] : /\ QuietFlight(packet, Offset(phase), quiet, f)
                                      /\ \A r \in Ranks : f[r] <= tCMD_PHY + Left(r)
-----------------------------------------------------------------------------
LEMMA CntType ==
    ASSUME TypeOK, NEW r \in Ranks
    PROVE  Cnt(r) \in Nat
    BY DEF TypeOK, LowPowerType, RankStateType, Cnt

LEMMA QuietAfterType == \A cmd : QuietAfter(cmd) \in Nat /\ (cmd \notin HasQuiet => QuietAfter(cmd) = 0)
    BY Constants DEF QuietAfter, HasQuiet

LEMMA HushedType ==
    ASSUME NEW d \in [Ranks -> Nat], NEW x \in PacketType, NEW off \in Nat
    PROVE  /\ Hushed(d, x, off) \in [Ranks -> Nat] /\ x.rank \in Ranks /\ x.delay \in Nat
           /\ \A r \in Ranks : Hushed(d, x, off)[r] =
                  IF r = x.rank /\ x.type \in HasQuiet THEN x.delay + off + QuietAfter(x.type) ELSE d[r]
<1>1. x.rank \in Ranks /\ x.delay \in Nat
    BY DEF PacketType
<1>2. x.delay + off + QuietAfter(x.type) \in Nat
    BY <1>1, QuietAfterType
<1> QED
    BY <1>1, <1>2 DEF Hushed

LEMMA OneMoreQuiet ==
    ASSUME NEW p \in Seq(PacketType), NEW off \in Nat, NEW d, NEW f \in [Ranks -> Nat],
           QuietFlight(p, off, d, f), NEW x \in PacketType, f[x.rank] <= x.delay + off
    PROVE  QuietFlight(Append(p, x), off, d, Hushed(f, x, off))
<1> DEFINE n == Len(p)
<1>1. PICK s : QuietCourse(p, off, d, f, s)
    BY DEF QuietFlight
<1> DEFINE t == [i \in 0 .. n + 1 |-> IF i = n + 1 THEN Hushed(f, x, off) ELSE s[i]]
           a == Append(p, x)
<1>2. n \in Nat /\ Len(a) = n + 1 /\ a[n + 1] = x /\ \A i \in 1 .. n : a[i] = p[i]
    OBVIOUS
<1>3. Hushed(f, x, off) \in [Ranks -> Nat]
    BY HushedType
<1>4. s \in [0 .. n -> [Ranks -> Nat]] /\ s[0] = d /\ s[n] = f
    BY <1>1 DEF QuietCourse
<1> HIDE DEF a, n
<1>5. t \in [0 .. n + 1 -> [Ranks -> Nat]] /\ t[0] = d /\ t[n + 1] = Hushed(f, x, off)
      /\ \A i \in 0 .. n : t[i] = s[i]
    BY <1>2, <1>3, <1>4
<1> HIDE DEF t
<1>6. ASSUME NEW i \in 1 .. n + 1
      PROVE  t[i - 1][a[i].rank] <= a[i].delay + off /\ t[i] = Hushed(t[i - 1], a[i], off)
    <2>1. CASE i = n + 1
        <3>1. i - 1 = n /\ n \in 0 .. n
            BY <1>2, <2>1
        <3> QED
            BY <1>2, <1>4, <1>5, <2>1, <3>1
    <2>2. CASE i # n + 1
        <3>1. i \in 1 .. n /\ i \in 0 .. n /\ i - 1 \in 0 .. n
            BY <1>2, <2>2
        <3>2. s[i - 1][p[i].rank] <= p[i].delay + off /\ s[i] = Hushed(s[i - 1], p[i], off)
            BY <1>1, <3>1 DEF QuietCourse, n
        <3> QED
            BY <1>2, <1>5, <3>1, <3>2
    <2> QED
        BY <2>1, <2>2
<1>7. QuietCourse(a, off, d, Hushed(f, x, off), t)
    BY <1>2, <1>5, <1>6 DEF QuietCourse
<1> QED
    BY <1>7 DEF QuietFlight, a

LEMMA FirstQuiet ==
    ASSUME NEW p \in Seq(PacketType), p # << >>, NEW off \in Nat, NEW d, NEW f,
           QuietFlight(p, off, d, f)
    PROVE  d[p[1].rank] <= p[1].delay + off /\ QuietFlight(Tail(p), off, Hushed(d, p[1], off), f)
<1> DEFINE n == Len(p)
           q == Tail(p)
<1>1. PICK s : QuietCourse(p, off, d, f, s)
    BY DEF QuietFlight
<1> DEFINE t == [i \in 0 .. n - 1 |-> s[i + 1]]
<1>2. /\ n \in Nat /\ n >= 1 /\ Len(q) = n - 1 /\ q \in Seq(PacketType)
      /\ \A i \in 1 .. n - 1 : q[i] = p[i + 1]
    OBVIOUS
<1>3. s \in [0 .. n -> [Ranks -> Nat]] /\ s[0] = d /\ s[n] = f
    BY <1>1 DEF QuietCourse
<1>4. \A i \in 1 .. n : s[i - 1][p[i].rank] <= p[i].delay + off /\ s[i] = Hushed(s[i - 1], p[i], off)
    BY <1>1 DEF QuietCourse
<1> HIDE DEF n, q
<1>5. d[p[1].rank] <= p[1].delay + off /\ s[1] = Hushed(d, p[1], off)
    <2>1. 1 \in 1 .. n /\ 1 - 1 = 0
        BY <1>2
    <2> QED
        BY <1>3, <1>4, <2>1
<1>6. \A i \in 0 .. n - 1 : i + 1 \in 0 .. n /\ t[i] = s[i + 1]
    BY <1>2
<1>7. t \in [0 .. n - 1 -> [Ranks -> Nat]] /\ t[0] = s[1] /\ t[n - 1] = f
    <2>1. 0 \in 0 .. n - 1 /\ n - 1 \in 0 .. n - 1 /\ (n - 1) + 1 = n /\ 0 + 1 = 1
        BY <1>2
    <2>2. t[n - 1] = s[n]
        BY <1>6, <2>1
    <2> QED
        BY <1>2, <1>3, <1>6, <2>1, <2>2
<1> HIDE DEF t
<1>8. ASSUME NEW i \in 1 .. n - 1
      PROVE  t[i - 1][q[i].rank] <= q[i].delay + off /\ t[i] = Hushed(t[i - 1], q[i], off)
    <2>1. i + 1 \in 1 .. n /\ i \in 0 .. n - 1 /\ i - 1 \in 0 .. n - 1 /\ (i - 1) + 1 = i
          /\ (i + 1) - 1 = i
        BY <1>2
    <2>2. t[i - 1] = s[i] /\ t[i] = s[i + 1] /\ q[i] = p[i + 1]
        BY <1>2, <1>6, <2>1
    <2>3. s[i][p[i + 1].rank] <= p[i + 1].delay + off /\ s[i + 1] = Hushed(s[i], p[i + 1], off)
        BY <1>4, <2>1
    <2> QED
        BY <2>2, <2>3
<1>9. QuietCourse(q, off, s[1], f, t)
    BY <1>2, <1>7, <1>8 DEF QuietCourse
<1> QED
    BY <1>5, <1>9 DEF QuietFlight, q

(* exec: a cycle less for the packets, the cycle's end a step closer.      *)
LEMMA OneLessQuiet ==
    ASSUME NEW p \in Seq(PacketType), NEW d, NEW f, QuietFlight(p, 0, d, f),
           \A i \in 1 .. Len(p) : p[i].delay = 0 => p[i].type \notin HasQuiet
    PROVE  QuietFlight(OneLess(p), 1, d, f)
<1>1. PICK s : QuietCourse(p, 0, d, f, s)
    BY DEF QuietFlight
<1> DEFINE o == OneLess(p)
<1>2. Len(o) = Len(p)
    BY OneLessIs
<1>3. ASSUME NEW i \in 1 .. Len(p)
      PROVE  s[i - 1][o[i].rank] <= o[i].delay + 1 /\ s[i] = Hushed(s[i - 1], o[i], 1)
    <2>1. /\ o[i].type = p[i].type /\ o[i].rank = p[i].rank /\ o[i].delay = Less1(p[i].delay)
        BY OneLessIs
    <2>2. p[i].delay \in Nat /\ p[i].rank \in Ranks
        BY PacketTypes
    <2>3. s[i - 1][p[i].rank] <= p[i].delay /\ s[i] = Hushed(s[i - 1], p[i], 0)
        <3>1. s[i - 1][p[i].rank] <= p[i].delay + 0 /\ s[i] = Hushed(s[i - 1], p[i], 0)
            BY <1>1 DEF QuietCourse
        <3> QED
            BY <2>2, <3>1
    <2>4. s[i - 1][p[i].rank] \in Nat
        <3>1. i - 1 \in 0 .. Len(p) /\ s \in [0 .. Len(p) -> [Ranks -> Nat]]
            BY <1>1 DEF QuietCourse
        <3> QED
            BY <2>2, <3>1
    <2>5. s[i - 1][o[i].rank] <= o[i].delay + 1
        BY <2>1, <2>2, <2>3, <2>4 DEF Less1
    <2>6. p[i].type \in HasQuiet => p[i].delay + 0 = o[i].delay + 1
        <3>1. p[i].type \in HasQuiet => p[i].delay # 0
            OBVIOUS
        <3> HIDE DEF o
        <3> QED
            BY <2>1, <2>2, <3>1 DEF Less1
    <2> QED
        BY <2>1, <2>3, <2>5, <2>6 DEF Hushed
<1>4. QuietCourse(o, 1, d, f, s)
    BY <1>1, <1>2, <1>3 DEF QuietCourse
<1> QED
    BY <1>4 DEF QuietFlight

(* The clock: a cycle less for all quiet times.                            *)
Lower(d) == [r \in Ranks |-> Less1(d[r])]

LEMMA ClockQuiet ==
    ASSUME NEW p \in Seq(PacketType), NEW d, NEW f, QuietFlight(p, 1, d, f)
    PROVE  QuietFlight(p, 0, Lower(d), Lower(f))
<1>1. PICK s : QuietCourse(p, 1, d, f, s)
    BY DEF QuietFlight
<1> DEFINE n == Len(p)
           t == [i \in 0 .. n |-> Lower(s[i])]
<1>2. n \in Nat /\ s \in [0 .. n -> [Ranks -> Nat]] /\ s[0] = d /\ s[n] = f
    BY <1>1 DEF QuietCourse
<1>3. \A i \in 0 .. n : Lower(s[i]) \in [Ranks -> Nat]
    BY <1>2, Less1Type DEF Lower
<1>4. t \in [0 .. n -> [Ranks -> Nat]] /\ t[0] = Lower(d) /\ t[n] = Lower(f)
    BY <1>2, <1>3
<1>5. ASSUME NEW i \in 1 .. n
      PROVE  t[i - 1][p[i].rank] <= p[i].delay + 0 /\ t[i] = Hushed(t[i - 1], p[i], 0)
    <2>1. i \in 0 .. n /\ i - 1 \in 0 .. n
        BY <1>2
    <2>2. p[i].delay \in Nat /\ p[i].rank \in Ranks /\ QuietAfter(p[i].type) \in Nat
        BY PacketTypes, QuietAfterType
    <2>3. s[i - 1] \in [Ranks -> Nat] /\ s[i] \in [Ranks -> Nat]
        BY <1>2, <2>1
    <2>4. s[i - 1][p[i].rank] <= p[i].delay + 1 /\ s[i] = Hushed(s[i - 1], p[i], 1)
        BY <1>1 DEF QuietCourse
    <2>5. t[i - 1] = Lower(s[i - 1]) /\ t[i] = Lower(s[i])
        BY <2>1
    <2> HIDE DEF t
    <2>6. Lower(s[i - 1])[p[i].rank] <= p[i].delay + 0
        <3>1. s[i - 1][p[i].rank] \in Nat
            BY <2>2, <2>3
        <3> QED
            BY <2>2, <2>4, <3>1 DEF Lower, Less1
    <2>7. Lower(s[i]) = Hushed(Lower(s[i - 1]), p[i], 0)
        <3>1. CASE p[i].type \notin HasQuiet
            BY <2>4, <3>1 DEF Hushed
        <3>2. CASE p[i].type \in HasQuiet
            <4>1. s[i] = [s[i - 1] EXCEPT ![p[i].rank] = p[i].delay + 1 + QuietAfter(p[i].type)]
                BY <2>4, <3>2 DEF Hushed
            <4>2. Less1(p[i].delay + 1 + QuietAfter(p[i].type)) = p[i].delay + 0 + QuietAfter(p[i].type)
                BY <2>2 DEF Less1
            <4>3. \A r \in Ranks : Less1(s[i][r]) = IF r = p[i].rank THEN p[i].delay + 0 + QuietAfter(p[i].type)
                                                   ELSE Less1(s[i - 1][r])
                BY <2>2, <2>3, <4>1, <4>2
            <4>4. Lower(s[i]) = [Lower(s[i - 1]) EXCEPT ![p[i].rank] = p[i].delay + 0 + QuietAfter(p[i].type)]
                BY <4>3 DEF Lower
            <4> QED
                BY <3>2, <4>4 DEF Hushed
        <3> QED
            BY <3>1, <3>2
    <2> QED
        BY <2>5, <2>6, <2>7
<1> HIDE DEF t
<1>6. QuietCourse(p, 0, Lower(d), Lower(f), t)
    BY <1>4, <1>5 DEF QuietCourse
<1> QED
    BY <1>6 DEF QuietFlight

LEMMA NoQuiet ==
    ASSUME NEW d \in [Ranks -> Nat]
    PROVE  QuietFlight(<< >>, 0, d, d)
<1>1. QuietCourse(<< >>, 0, d, d, [i \in 0 .. 0 |-> d])
    BY DEF QuietCourse
<1> QED
    BY <1>1 DEF QuietFlight
-----------------------------------------------------------------------------
LEMMA NextQuiet ==
    [Next]_vars =>
        \/ \E r \in Ranks : UpdateLpRank(r)
        \/ UpdateLpBegin \/ SendPacket \/ Exec \/ EndCycle
        \/ /\ UNCHANGED <<RankState, packet, quiet>>
           /\ Offset(phase') = Offset(phase) /\ (Early(phase') <=> Early(phase))
    BY DEF Next, vars, lpVars, dramVars, At, Then, Offset, Early, Inform, addTransaction, NoTransaction,
           UpdateLpEnd, LpEnd, SkipPacket, StateFresh, Schedule, NothingToSchedule, Retire,
           NothingToRetire, QuePipeline, PageTimeoutPolicy, Refresh

(* The head of update_lp_state takes at most one from every counter.       *)
LEMMA BeginCnt ==
    ASSUME TypeOK, UpdateLpBegin, NEW r \in Ranks
    PROVE  Less1(Cnt(r)) <= Cnt(r)'
<1>1. RankState[r] \in [lp_state : LpStates, pd_cnt : Nat, asref_cnt : Nat, state_cnt : Nat]
    BY DEF TypeOK, LowPowerType, RankStateType
<1>2. RankState'[r] = IF Blocked(r) THEN RankState[r] ELSE CountDown(RankState[r])
    BY DEF UpdateLpBegin, LpBegin
<1>3. CASE Blocked(r)
    <2>1. Cnt(r)' = Cnt(r)
        BY <1>2, <1>3 DEF Cnt, lp_state
    <2> QED
        BY <2>1, CntType DEF Less1
<1>4. CASE ~Blocked(r)
    <2>1. /\ RankState'[r].lp_state = RankState[r].lp_state
          /\ RankState'[r].pd_cnt = Less1(RankState[r].pd_cnt)
          /\ RankState'[r].asref_cnt = Less1(RankState[r].asref_cnt)
          /\ RankState'[r].state_cnt = Less1(RankState[r].state_cnt)
        BY <1>2, <1>4 DEF CountDown
    <2>2. Less1(0) = 0
        BY DEF Less1
    <2>3. Cnt(r)' = Less1(Cnt(r))
        BY <2>1, <2>2 DEF Cnt, lp_state
    <2>4. Less1(Cnt(r)) \in Nat
        BY CntType, Less1Type
    <2> QED
        BY <2>3, <2>4
<1> QED
    BY <1>3, <1>4

LEMMA QuietStep ==
    ASSUME PathInv, PendInv, QuietInv, [Next]_vars
    PROVE  QuietInv'
<1>a. packet \in Seq(PacketType) /\ TypeOK /\ PacketInv /\ quiet \in [Ranks -> Nat] /\ tCMD_PHY \in Nat
    BY Constants DEF PathInv, TypeOK, BusType
<1>b. PICK f \in [Ranks -> Nat] : /\ QuietFlight(packet, Offset(phase), quiet, f)
                                  /\ \A r \in Ranks : f[r] <= tCMD_PHY + Left(r)
    BY DEF QuietInv
<1>c. \A r \in Ranks : Cnt(r) \in Nat /\ f[r] \in Nat
    BY <1>a, CntType
<1>1. ASSUME NEW r \in Ranks, UpdateLpRank(r) PROVE QuietInv'
    <2>1. /\ LpRank(r) /\ quiet' = quiet /\ phase = "rank" /\ phase' = "rank"
          /\ Offset("rank") = 0 /\ ~Early("rank")
        BY <1>1 DEF UpdateLpRank, dramVars, At, Then, Offset, Early
    <2>2. \A s \in Ranks : s # r => Cnt(s)' = Cnt(s)
        BY <1>a, <2>1, LpRankOthers DEF Cnt, lp_state
    <2>3. CASE SilentMove(r)
        BY <1>b, <2>1, <2>2, <2>3 DEF SilentMove, QuietInv, Left
    <2>4. ASSUME NEW cmd \in LpCommands, LoudMove(r, cmd) PROVE QuietInv'
        <3> DEFINE x == [type |-> cmd, rank |-> r, delay |-> tCMD_PHY]
        <3>1. x \in PacketType /\ x.rank = r /\ x.type = cmd /\ x.delay = tCMD_PHY
              /\ packet' = Append(packet, x)
            BY <2>4, Constants DEF PacketType, LoudMove, Send
        <3> HIDE DEF x
        <3>2. Cnt(r) = 0 /\ Cnt(r)' = QuietAfter(cmd)
            BY <2>4 DEF LoudMove
        <3>3. f[r] <= tCMD_PHY + 0
            BY <1>b, <2>1, <3>2 DEF Left
        <3>4. QuietFlight(packet', 0, quiet', Hushed(f, x, 0))
            BY <1>a, <1>b, <2>1, <3>1, <3>3, OneMoreQuiet
        <3>5. /\ Hushed(f, x, 0) \in [Ranks -> Nat]
              /\ \A s \in Ranks : Hushed(f, x, 0)[s] =
                     IF s = r /\ cmd \in HasQuiet THEN tCMD_PHY + 0 + QuietAfter(cmd) ELSE f[s]
            <4>1. /\ Hushed(f, x, 0) \in [Ranks -> Nat]
                  /\ \A s \in Ranks : Hushed(f, x, 0)[s] =
                         IF s = x.rank /\ x.type \in HasQuiet THEN x.delay + 0 + QuietAfter(x.type)
                         ELSE f[s]
                <5>1. 0 \in Nat
                    OBVIOUS
                <5> QED
                    BY <3>1, <5>1, HushedType
            <4> HIDE DEF Hushed
            <4> QED
                BY <3>1, <4>1
        <3>6. \A s \in Ranks : Hushed(f, x, 0)[s] <= tCMD_PHY + Cnt(s)'
            <4> TAKE s \in Ranks
            <4>1. CASE s # r
                BY <1>b, <2>1, <2>2, <3>5, <4>1 DEF Left
            <4>2. CASE s = r
                BY <1>a, <1>c, <3>2, <3>3, <3>5, <4>2, QuietAfterType
            <4> QED
                BY <4>1, <4>2
        <3> QED
            BY <2>1, <3>4, <3>5, <3>6 DEF QuietInv, Left
    <2> QED
        BY <1>a, <2>1, <2>3, <2>4, LpMoves
<1>2. CASE UpdateLpBegin
    <2>1. /\ UNCHANGED <<packet, quiet>> /\ phase = "lp" /\ phase' = "rank"
          /\ Offset("lp") = 0 /\ Offset("rank") = 0 /\ Early("lp") /\ ~Early("rank")
        BY <1>2 DEF UpdateLpBegin, LpBegin, dramVars, At, Then, Offset, Early
    <2>2. \A r \in Ranks : f[r] <= tCMD_PHY + Cnt(r)'
        <3> TAKE r \in Ranks
        <3>1. f[r] <= tCMD_PHY + Less1(Cnt(r))
            BY <1>b, <2>1 DEF Left
        <3>2. Less1(Cnt(r)) <= Cnt(r)' /\ Cnt(r)' \in Nat /\ Less1(Cnt(r)) \in Nat
            <4>1. TypeOK'
                BY <1>a, TypeStep
            <4>2. Cnt(r)' \in Nat
                BY <4>1 DEF TypeOK, LowPowerType, RankStateType, Cnt
            <4> QED
                BY <1>2, <1>a, <1>c, <4>2, BeginCnt, Less1Type
        <3> QED
            BY <1>a, <1>c, <3>1, <3>2
    <2> QED
        BY <1>b, <2>1, <2>2 DEF QuietInv, Left
<1>3. CASE SendPacket
    <2>1. /\ RankState' = RankState /\ phase = "send" /\ phase' = "send" /\ Offset("send") = 0
          /\ packet' = Tail(packet) /\ receiveFromBus(Head(packet).rank, packet[scan].type)
          /\ scan = 1 /\ packet # << >> /\ Head(packet) = packet[1] /\ packet[1].delay = 0
        BY <1>3, <1>a, DueIsHead DEF SendPacket, At, Then, Offset, Due
    <2>2. quiet' = Hushed(quiet, packet[1], 0)
        <3>1. packet[1] \in PacketType
            BY <1>a, <2>1
        <3>2. 0 + 0 + QuietAfter(packet[1].type) = QuietAfter(packet[1].type)
            BY QuietAfterType
        <3>3. packet[1].type \notin HasQuiet => quiet' = quiet
            BY <1>a, <2>1, <3>1 DEF receiveFromBus, HasQuiet, PacketType
        <3>4. packet[1].type \in HasQuiet =>
                 quiet' = [quiet EXCEPT ![packet[1].rank] = QuietAfter(packet[1].type)]
            BY <2>1 DEF receiveFromBus, HasQuiet, QuietAfter
        <3> QED
            BY <2>1, <3>2, <3>3, <3>4 DEF Hushed
    <2>3. QuietFlight(packet', 0, quiet', f)
        BY <1>a, <1>b, <2>1, <2>2, FirstQuiet
    <2> QED
        BY <1>b, <2>1, <2>3 DEF QuietInv, Left, Cnt, lp_state
<1>4. CASE Exec
    <2>1. /\ UNCHANGED <<command, RankState, quiet>> /\ phase = "send" /\ phase' = "fresh"
          /\ Offset("send") = 0 /\ Offset("fresh") = 1 /\ ~Early("send") /\ ~Early("fresh")
          /\ scan > Len(packet)
        BY <1>4 DEF Exec, dramVars, At, Then, Offset, Early
    <2>2. \A i \in 1 .. Len(packet) : packet[i].delay # 0
        BY <1>a, <2>1, PacketTypes DEF PacketInv, TypeOK, BusType
    <2>3. \A r \in Ranks : f[r] <= tCMD_PHY + Left(r)'
        BY <1>b, <2>1 DEF Left, Cnt, lp_state
    <2>4. CASE exec_valid /\ Less1(command_pend) = 0
        <3> DEFINE out == [type |-> command.type, rank |-> command.rank, delay |-> tCMD_PHY]
        <3>0. out \in PacketType /\ out.rank = command.rank /\ out.type = command.type
              /\ out.delay = tCMD_PHY
            BY <1>a, PendTypes DEF PacketType
        <3>1. packet' = OneLess(Append(packet, out))
            BY <1>4, <2>4 DEF Exec
        <3> HIDE DEF out
        <3> PICK x \in PacketType : x = out
            BY <3>0
        <3>2. /\ x.rank = command.rank /\ x.type = command.type /\ x.delay = tCMD_PHY
              /\ x.type \notin HasQuiet /\ x.rank \in Ranks
            BY <1>a, <3>0, PendTypes DEF HasQuiet, CmdTypes
        <3>3. Cnt(x.rank) = 0
            BY <2>4, <3>2 DEF PendInv, Cnt
        <3>4. f[x.rank] <= x.delay + 0
            BY <1>b, <2>1, <3>2, <3>3 DEF Left
        <3>5. QuietFlight(Append(packet, x), 0, quiet, f)
            <4>1. Hushed(f, x, 0) = f
                BY <3>2 DEF Hushed
            <4>2. QuietFlight(packet, 0, quiet, f) /\ 0 \in Nat
                BY <1>b, <2>1
            <4>3. QuietFlight(Append(packet, x), 0, quiet, Hushed(f, x, 0))
                BY <1>a, <1>b, <3>4, <4>2, OneMoreQuiet
            <4> QED
                BY <4>1, <4>3
        <3>6. /\ Append(packet, x) \in Seq(PacketType)
              /\ \A i \in 1 .. Len(Append(packet, x)) :
                     Append(packet, x)[i].delay = 0 => Append(packet, x)[i].type \notin HasQuiet
            BY <1>a, <2>2, <3>2
        <3>7. QuietFlight(packet', 1, quiet', f)
            BY <2>1, <3>1, <3>5, <3>6, OneLessQuiet
        <3> QED
            BY <2>1, <2>3, <3>7 DEF QuietInv
    <2>5. CASE ~(exec_valid /\ Less1(command_pend) = 0)
        <3>1. packet' = OneLess(packet)
            BY <1>4, <2>5 DEF Exec
        <3>2. QuietFlight(packet', 1, quiet', f)
            BY <1>a, <1>b, <2>1, <2>2, <3>1, OneLessQuiet
        <3> QED
            BY <2>1, <2>3, <3>2 DEF QuietInv
    <2> QED
        BY <2>4, <2>5
<1>5. CASE EndCycle
    <2>1. /\ UNCHANGED <<packet, RankState>> /\ quiet' = Lower(quiet)
          /\ phase = "data" /\ phase' = "inform" /\ Offset("data") = 1 /\ Offset("inform") = 0
          /\ ~Early("data") /\ Early("inform")
        BY <1>5 DEF EndCycle, lpVars, At, Then, Offset, Early, Lower
    <2>2. QuietFlight(packet, 0, Lower(quiet), Lower(f))
        BY <1>a, <1>b, <2>1, ClockQuiet
    <2>3. Lower(f) \in [Ranks -> Nat] /\ \A r \in Ranks : Lower(f)[r] = Less1(f[r])
        BY <1>c, Less1Type DEF Lower
    <2>4. \A r \in Ranks : Lower(f)[r] <= tCMD_PHY + Left(r)'
        <3> TAKE r \in Ranks
        <3>1. f[r] <= tCMD_PHY + Cnt(r)
            BY <1>b, <2>1 DEF Left
        <3>2. Left(r)' = Less1(Cnt(r))
            BY <2>1 DEF Left, Cnt, lp_state
        <3> QED
            BY <1>a, <1>c, <2>3, <3>1, <3>2 DEF Less1
    <2> QED
        BY <2>1, <2>2, <2>3, <2>4 DEF QuietInv
<1>6. CASE /\ UNCHANGED <<RankState, packet, quiet>>
           /\ Offset(phase') = Offset(phase) /\ (Early(phase') <=> Early(phase))
    BY <1>b, <1>6 DEF QuietInv, Left, Cnt, lp_state
<1> QED
    BY <1>1, <1>2, <1>3, <1>4, <1>5, <1>6, NextQuiet

LEMMA QuietInit == Init => QuietInv
<1> SUFFICES ASSUME Init PROVE QuietInv
    OBVIOUS
<1>1. quiet \in [Ranks -> Nat] /\ packet = << >> /\ Offset(phase) = 0
    BY DEF Init, LpInit, Offset
<1>2. QuietFlight(packet, 0, quiet, quiet)
    BY <1>1, NoQuiet
<1>3. \A r \in Ranks : quiet[r] <= tCMD_PHY + Left(r)
    <2> TAKE r \in Ranks
    <2>1. quiet[r] = 0
        BY DEF Init, LpInit
    <2>2. Early(phase) /\ Cnt(r) = 0
        BY DEF Init, LpInit, Early, Cnt, lp_state
    <2>3. Left(r) = 0
        BY <2>2 DEF Left, Less1
    <2> QED
        BY <2>1, <2>3, Constants
<1> QED
    BY <1>1, <1>2, <1>3 DEF QuietInv

(* No packet reaches a rank in its quiet time.                             *)
THEOREM QuietKeptHolds == ASSUME TimingsCoverBus PROVE Spec => []QuietKept
<1>1. Init => PathInv /\ PendInv /\ QuietInv
    BY PathInit, FlightInit, QuietInit
<1>2. PathInv /\ PendInv /\ QuietInv /\ [Next]_vars => (PathInv /\ PendInv /\ QuietInv)'
    BY PathStep, PendStep, QuietStep DEF PathInv
<1>3. PathInv /\ QuietInv => QuietKept
    <2> SUFFICES ASSUME PathInv, QuietInv, At("send"), scan <= Len(packet), Due
                 PROVE  quiet[Head(packet).rank] = 0
        BY DEF QuietKept
    <2>1. /\ scan = 1 /\ packet # << >> /\ Head(packet) = packet[1] /\ packet[1].delay = 0
          /\ Offset(phase) = 0
        BY DueIsHead DEF PathInv, Due, At, Offset
    <2>2. packet \in Seq(PacketType) /\ quiet \in [Ranks -> Nat] /\ packet[1].rank \in Ranks
        BY <2>1, PacketTypes DEF PathInv, TypeOK, BusType
    <2>3. PICK f \in [Ranks -> Nat] : QuietFlight(packet, 0, quiet, f)
        BY <2>1 DEF QuietInv
    <2>4. quiet[packet[1].rank] <= packet[1].delay + 0
        <3>1. 0 \in Nat
            OBVIOUS
        <3> QED
            BY <2>1, <2>2, <2>3, <3>1, FirstQuiet
    <2>5. quiet[packet[1].rank] \in Nat
        BY <2>2
    <2> QED
        BY <2>1, <2>4, <2>5
<1> QED
    BY <1>1, <1>2, <1>3, PTL DEF Spec
-----------------------------------------------------------------------------
(***************************************************************************)
(* The PHY.  update_lp_state wakes the PHY up together with the ranks, and *)
(* nothing waits for it.  For the command of a transaction it is awake in  *)
(* time because the transaction is in the queue for longer than the        *)
(* wake-up pipe and the PHY take together, and because a rank takes at     *)
(* least as long to get up as the PHY, so that a PHY which falls asleep    *)
(* while the rank of the transaction still sleeps is back before the rank. *)
(***************************************************************************)
PhyTimings ==
    /\ 1 <= tPHYLPX /\ tPHYLPX <= tXP
    /\ tCMD_WAKEUP + tPHYLPX <= tCMD2SCH + 1

(* Calls of update_lp_state until the PHY is awake, if one wakes it now,   *)
(* and until a rank that is woken up now is.                               *)
PhyRem == CASE PhyLpState.phylp_state = "PHYLP_IDLE" -> 0
            [] PhyLpState.phylp_state = "PHYLPX" -> PhyLpState.lp_cnt
            [] OTHER -> tPHYLPX + 1

UpTime(r) == CASE lp_state(r) \in {"PD", "PDLP", "SRPD", "SRPDLP"} -> tXP
               [] lp_state(r) \in {"PDX", "SRPDX"} -> RankState[r].pd_cnt
               [] OTHER -> 0

(* Calls until the transaction may have a command in CmdQueue.             *)
Ahead(t) == tCMD2SCH + 1 + (IF Early(phase) THEN 1 ELSE 0) - trans[t].age

PhyWaking == PhyLpState.phylp_state = "PHYLPX" => PhyLpState.lp_cnt \in 1 .. tPHYLPX

TaskPhy ==
    \A t \in Tasks, r \in Ranks : On(t, r) /\ trans[t].age >= tCMD_WAKEUP =>
        PhyRem <= Ahead(t) \/ PhyRem <= 1 + UpTime(r)

PhyForTasks ==
    /\ phase \in {"rank", "send", "fresh", "sched"} =>
           \A c \in CmdQueue : c.task # NoTask => PhyRem = 0
    /\ exec_valid /\ command.task # NoTask => PhyRem = 0

PhyInv == PhyWaking /\ TaskPhy /\ PhyForTasks
-----------------------------------------------------------------------------
(* Only the head of update_lp_state touches the PHY.                       *)
LEMMA NextPhy ==
    [Next]_vars =>
        \/ UpdateLpBegin
        \/ \E r \in Ranks : UpdateLpRank(r)
        \/ EndCycle
        \/ UNCHANGED <<PhyLpState, RankState>> /\ (Early(phase') <=> Early(phase))
    BY DEF Next, vars, lpVars, At, Then, Early, Inform, addTransaction, NoTransaction,
           UpdateLpEnd, LpEnd, SendPacket, SkipPacket, Exec, StateFresh, Schedule,
           NothingToSchedule, Retire, NothingToRetire, QuePipeline, PageTimeoutPolicy, Refresh

LEMMA PhyKept == [Next]_vars => UpdateLpBegin \/ UNCHANGED PhyLpState
    BY NextPhy DEF UpdateLpRank, LpRank, EndCycle, lpVars

LEMMA PhyTypes ==
    ASSUME TypeOK
    PROVE  /\ PhyLpState.phylp_state \in PhyStates /\ PhyLpState.lp_cnt \in Nat
           /\ PhyRem \in Nat
           /\ \A r \in Ranks : UpTime(r) \in Nat
<1>1. PhyLpState \in PhyType /\ \A r \in Ranks : RankState[r].pd_cnt \in Nat
    BY DEF TypeOK, LowPowerType, RankStateType
<1> QED
    BY <1>1, Constants DEF PhyType, PhyRem, UpTime

(* The head of update_lp_state brings the PHY one cycle nearer, if a       *)
(* transaction has passed the wake-up pipe; it may put it to sleep if all  *)
(* ranks are.                                                              *)
LEMMA BeginPhy ==
    ASSUME TypeOK, PhyWaking, UpdateLpBegin, tPHYLPX >= 1
    PROVE  /\ PhyWaking'
           /\ PhyRem = 0 /\ ~AllRanksLp => PhyRem' = 0
           /\ PhyRem = 0 => PhyRem' = 0 \/ PhyRem' = tPHYLPX + 1
           /\ PhyRem > 0 /\ PhyWakeup(has_cmd) => PhyRem' = PhyRem - 1
<1>1. PhyLpState.phylp_state \in PhyStates /\ PhyLpState.lp_cnt \in Nat /\ tPHYLPX \in Nat
    BY PhyTypes, Constants
<1>2. PhyLpState' = PhyLp(has_cmd)
    BY DEF UpdateLpBegin, LpBegin
<1> HIDE DEF PhyWakeup, AllRanksLp
<1>3. CASE PhyLpState.phylp_state = "PHYLP_IDLE"
    BY <1>1, <1>2, <1>3 DEF PhyLp, PhyRem, PhyWaking
<1>4. CASE PhyLpState.phylp_state = "PHYLPX"
    <2>1. PhyLpState.lp_cnt >= 1 /\ PhyRem = PhyLpState.lp_cnt
        BY <1>4 DEF PhyWaking, PhyRem
    <2>2. PhyLpState' = [phylp_state |-> IF PhyLpState.lp_cnt = 1 THEN "PHYLP_IDLE" ELSE "PHYLPX",
                         lp_cnt |-> PhyLpState.lp_cnt - 1]
        BY <1>1, <1>2, <1>4, <2>1 DEF PhyLp, Less1
    <2> QED
        BY <1>1, <2>1, <2>2 DEF PhyRem, PhyWaking
<1>5. CASE PhyLpState.phylp_state \in {"PHYLPE", "PHYLP"}
    <2>1. PhyRem = tPHYLPX + 1
        BY <1>5 DEF PhyRem
    <2>2. PhyWakeup(has_cmd) => PhyLpState' = [phylp_state |-> "PHYLPX", lp_cnt |-> tPHYLPX]
        BY <1>2, <1>5 DEF PhyLp
    <2>3. ~PhyWakeup(has_cmd) => PhyLpState'.phylp_state \in {"PHYLPE", "PHYLP"}
        BY <1>2, <1>5 DEF PhyLp
    <2> QED
        BY <1>1, <2>1, <2>2, <2>3 DEF PhyRem, PhyWaking
<1> QED
    BY <1>1, <1>3, <1>4, <1>5 DEF PhyStates

LEMMA BeginUpTime ==
    ASSUME TypeOK, UpdateLpBegin, NEW r \in Ranks
    PROVE  /\ UpTime(r)' \in Nat
           /\ UpTime(r) <= UpTime(r)' + 1
           /\ lp_state(r) \in {"PD", "PDLP", "SRPD", "SRPDLP"} => UpTime(r)' = tXP
<1>1. RankState[r] \in [lp_state : LpStates, pd_cnt : Nat, asref_cnt : Nat, state_cnt : Nat]
    BY DEF TypeOK, LowPowerType, RankStateType
<1>2. RankState'[r] = IF Blocked(r) THEN RankState[r] ELSE CountDown(RankState[r])
    BY DEF UpdateLpBegin, LpBegin
<1>3. RankState'[r].lp_state = RankState[r].lp_state
      /\ (RankState'[r].pd_cnt = RankState[r].pd_cnt \/ RankState'[r].pd_cnt = Less1(RankState[r].pd_cnt))
    BY <1>2 DEF CountDown
<1>4. RankState'[r].pd_cnt \in Nat /\ RankState[r].pd_cnt <= RankState'[r].pd_cnt + 1
    BY <1>1, <1>3 DEF Less1
<1> QED
    BY <1>3, <1>4, Constants DEF UpTime, lp_state

(* The state machine of a rank never shortens its way up.                  *)
LEMMA RankUpTime ==
    ASSUME TypeOK, NEW r \in Ranks, LpRank(r)
    PROVE  UpTime(r)' >= UpTime(r)
<1> DEFINE Goal == UpTime(r)' >= UpTime(r)
<1> USE DEF UpTime, lp_state
<1>a. /\ tPDE \in Nat /\ tXP \in Nat /\ tASREFE \in Nat /\ tXSR \in Nat
    BY Constants
<1>b. \A st \in {"IDLE", "PDE", "PD", "PDLP", "PDX", "ASREFE", "ASREF", "ASREFX", "SRPDE", "SRPD",
                 "SRPDLP", "SRPDX"} : st \in LpStates
    BY DEF LpStates, SelfRefresh
<1>c. UNCHANGED RankState => Goal
    BY PhyTypes
<1>e. UpTime(r)' \in Nat
    <2>1. RankState' \in RankStateType
        BY LpRankType DEF TypeOK, BusType
    <2> QED
        BY <2>1, <1>a DEF RankStateType
<1>1. CASE LpIdle(r)
    BY <1>1, <1>e DEF LpIdle
<1>2. CASE LpPde(r)
    BY <1>2, <1>e DEF LpPde
<1>3. CASE LpPd(r)
    BY <1>3, <1>a, <1>b, <1>c, EnterIs DEF LpPd, Stay
<1>4. CASE LpPdlp(r)
    BY <1>4, <1>a, <1>b, <1>c, EnterIs DEF LpPdlp, Stay
<1>5. CASE LpPdx(r)
    BY <1>5, <1>c, <1>e DEF LpPdx, pd_timing_met
<1>6. CASE LpAsrefe(r)
    BY <1>6, <1>e DEF LpAsrefe
<1>7. CASE LpAsref(r)
    BY <1>7, <1>e DEF LpAsref
<1>8. CASE LpAsrefx(r)
    BY <1>8, <1>e DEF LpAsrefx
<1>9. CASE LpSrpde(r)
    BY <1>9, <1>e DEF LpSrpde
<1>10. CASE LpSrpd(r)
    BY <1>10, <1>a, <1>b, <1>c, EnterIs DEF LpSrpd, Stay
<1>11. CASE LpSrpdlp(r)
    BY <1>11, <1>a, <1>b, <1>c, EnterIs DEF LpSrpdlp, Stay
<1>12. CASE LpSrpdx(r)
    BY <1>12, <1>c, <1>e DEF LpSrpdx, pd_timing_met, Stay
<1> QED
    BY <1>1, <1>2, <1>3, <1>4, <1>5, <1>6, <1>7, <1>8, <1>9, <1>10, <1>11, <1>12 DEF LpRank

-----------------------------------------------------------------------------
(* The transactions of the next state, and how old they have become.       *)
LEMMA NextAges ==
    ASSUME TypeOK, [Next]_vars, NEW t \in Tasks, NEW r \in Ranks, On(t, r)',
           trans'[t].age >= tCMD_WAKEUP
    PROVE  /\ On(t, r)
           /\ ~EndCycle => trans'[t].age = trans[t].age
           /\ EndCycle => trans'[t].age = IF trans[t].age < AgeMax THEN trans[t].age + 1
                                          ELSE trans[t].age
<1>a. trans \in [Tasks -> TransType] /\ tCMD_WAKEUP \in Nat /\ tCMD_WAKEUP > 0
    <2>1. tCMD_WAKEUP \in Nat /\ tCMD_WAKEUP > 0
        BY Constants
    <2> QED
        BY <2>1 DEF TypeOK, QueueType
<1>1. ASSUME NEW u \in Tasks, NEW s \in Ranks, addTransaction(u, s)
      PROVE  On(t, r) /\ trans'[t].age = trans[t].age /\ ~EndCycle
    <2>1. u # t
        BY <1>a, <1>1 DEF addTransaction, Off
    <2> QED
        BY <1>a, <1>1, <2>1 DEF addTransaction, On, EndCycle, At
<1>2. ASSUME NEW c \in CmdQueue, Schedule(c)
      PROVE  On(t, r) /\ trans'[t].age = trans[t].age /\ ~EndCycle
    BY <1>2, ScheduleTrans DEF On, Schedule, EndCycle, At
<1>3. ASSUME NEW u \in Tasks, Retire(u)
      PROVE  On(t, r) /\ trans'[t].age = trans[t].age /\ ~EndCycle
    BY <1>3, RetireTrans DEF On, Retire, EndCycle, At
<1>4. CASE EndCycle
    <2>1. trans'[t] = [trans[t] EXCEPT !.age = IF trans[t].on /\ @ < AgeMax THEN @ + 1 ELSE @]
        BY <1>4 DEF EndCycle
    <2>2. On(t, r)
        BY <1>4, SameQueue DEF On
    <2> QED
        BY <1>a, <1>4, <2>1, <2>2 DEF On, TransType
<1>5. CASE UNCHANGED queVars /\ ~EndCycle
    BY <1>5 DEF queVars, On
<1> QED
    BY <1>1, <1>2, <1>3, <1>4, <1>5, NextQueue

LEMMA TaskPhyStep ==
    ASSUME PhyTimings, TypeOK, SleepInv, PhyWaking, TaskPhy, [Next]_vars
    PROVE  TaskPhy'
<1> SUFFICES ASSUME NEW t \in Tasks, NEW r \in Ranks, On(t, r)', trans'[t].age >= tCMD_WAKEUP
             PROVE  PhyRem' <= Ahead(t)' \/ PhyRem' <= 1 + UpTime(r)'
    BY DEF TaskPhy
<1>a. /\ tCMD_WAKEUP \in Nat /\ tCMD_WAKEUP > 0 /\ tCMD2SCH \in Nat /\ tPHYLPX \in Nat /\ tXP \in Nat
      /\ AgeMax = tCMD2SCH + 1 /\ trans[t].age \in 0 .. tCMD2SCH + 1
      /\ PhyRem \in Nat /\ UpTime(r) \in Nat
    <2>1. /\ tCMD_WAKEUP \in Nat /\ tCMD_WAKEUP > 0 /\ tCMD2SCH \in Nat /\ tPHYLPX \in Nat
          /\ tXP \in Nat
        BY Constants
    <2>2. trans[t] \in TransType
        BY DEF TypeOK, QueueType
    <2> QED
        BY <2>1, <2>2, PhyTypes DEF AgeMax, TransType
<1>b. PhyRem' \in Nat /\ UpTime(r)' \in Nat /\ trans'[t].age \in Nat
    <2>1. TypeOK'
        BY TypeStep
    <2>2. PhyLpState' \in PhyType /\ RankState' \in RankStateType /\ trans'[t] \in TransType
        BY <2>1 DEF TypeOK, LowPowerType, QueueType
    <2>3. PhyRem' \in Nat
        BY <2>2, <1>a DEF PhyType, PhyRem
    <2>4. RankState'[r].pd_cnt \in Nat
        BY <2>2 DEF RankStateType
    <2>5. UpTime(r)' \in Nat
        BY <2>4, <1>a DEF UpTime
    <2>6. trans'[t].age \in Nat
        BY <2>2, <1>a DEF TransType
    <2> QED
        BY <2>3, <2>5, <2>6
<1>c. /\ On(t, r)
      /\ ~EndCycle => trans'[t].age = trans[t].age
      /\ EndCycle => trans'[t].age = IF trans[t].age < AgeMax THEN trans[t].age + 1 ELSE trans[t].age
    BY NextAges
<1>d. /\ Ahead(t) = tCMD2SCH + 1 + (IF Early(phase) THEN 1 ELSE 0) - trans[t].age
      /\ Ahead(t)' = tCMD2SCH + 1 + (IF Early(phase') THEN 1 ELSE 0) - trans'[t].age
    BY DEF Ahead
<1>e. ~EndCycle => PhyRem <= Ahead(t) \/ PhyRem <= 1 + UpTime(r)
    BY <1>c DEF TaskPhy
<1> HIDE DEF Ahead
<1>1. CASE UpdateLpBegin
    <2>1. Early(phase) /\ ~Early(phase') /\ ~EndCycle /\ trans' = trans
        BY <1>1 DEF UpdateLpBegin, At, Then, Early, EndCycle, queVars
    <2>2. PhyWakeup(has_cmd)
        <3>1. deqCmdWakeupLp[r][1] > 0
            BY <1>a, <1>c, <2>1 DEF SleepInv, PipeFull
        <3> QED
            BY <3>1 DEF PhyWakeup, has_cmd
    <2>3. Ahead(t)' = Ahead(t) - 1
        BY <1>a, <1>c, <1>d, <2>1
    <2>4. UpTime(r) <= UpTime(r)' + 1
        BY <1>1, BeginUpTime
    <2>5. CASE PhyRem > 0
        <3>1. PhyRem' = PhyRem - 1
            BY <1>1, <2>2, <2>5, BeginPhy DEF PhyTimings
        <3>2. Ahead(t) \in Int
            BY <1>a, <1>d
        <3> QED
            BY <1>a, <1>b, <1>e, <2>1, <2>3, <2>4, <3>1, <3>2
    <2>6. CASE PhyRem = 0
        <3>1. CASE AllRanksLp
            <4>1. UpTime(r)' = tXP
                BY <1>1, <3>1, BeginUpTime DEF AllRanksLp
            <4>2. PhyRem' = 0 \/ PhyRem' = tPHYLPX + 1
                BY <1>1, <2>6, BeginPhy DEF PhyTimings
            <4> QED
                BY <1>a, <4>1, <4>2 DEF PhyTimings
        <3>2. CASE ~AllRanksLp
            <4>1. PhyRem' = 0
                BY <1>1, <2>6, <3>2, BeginPhy DEF PhyTimings
            <4> QED
                BY <1>b, <4>1
        <3> QED
            BY <3>1, <3>2
    <2> QED
        BY <1>a, <2>5, <2>6
<1>2. ASSUME NEW s \in Ranks, UpdateLpRank(s)
      PROVE  PhyRem' <= Ahead(t)' \/ PhyRem' <= 1 + UpTime(r)'
    <2>1. /\ LpRank(s) /\ PhyLpState' = PhyLpState /\ ~EndCycle
          /\ ~Early(phase) /\ ~Early(phase')
        BY <1>2 DEF UpdateLpRank, LpRank, At, Then, Early, EndCycle
    <2>2. UpTime(r)' >= UpTime(r)
        <3>1. CASE s = r
            BY <2>1, <3>1, RankUpTime
        <3>2. CASE s # r
            <4>1. RankState'[r] = RankState[r]
                BY <2>1, <3>2, LpRankOthers
            <4> QED
                BY <1>a, <4>1 DEF UpTime, lp_state
        <3> QED
            BY <3>1, <3>2
    <2>3. PhyRem' = PhyRem /\ Ahead(t)' = Ahead(t)
        BY <1>c, <1>d, <2>1 DEF PhyRem
    <2>4. Ahead(t) \in Int
        BY <1>a, <1>d
    <2> QED
        BY <1>a, <1>b, <1>e, <2>1, <2>2, <2>3, <2>4
<1>3. CASE EndCycle
    <2>1. /\ UNCHANGED <<PhyLpState, RankState>> /\ ~Early(phase) /\ Early(phase')
        BY <1>3 DEF EndCycle, lpVars, At, Then, Early
    <2>2. PhyRem' = PhyRem /\ UpTime(r)' = UpTime(r)
        BY <2>1 DEF PhyRem, UpTime, lp_state
    <2>3. trans'[t].age = IF trans[t].age < AgeMax THEN trans[t].age + 1 ELSE trans[t].age
        BY <1>3, <1>c
    <2>4. CASE trans[t].age >= tCMD_WAKEUP
        <3>1. PhyRem <= Ahead(t) \/ PhyRem <= 1 + UpTime(r)
            BY <1>c, <2>4 DEF TaskPhy
        <3>2. CASE trans[t].age < AgeMax
            BY <1>a, <1>d, <2>1, <2>2, <2>3, <3>1, <3>2
        <3>3. CASE ~(trans[t].age < AgeMax)
            <4>1. Ahead(t) = 0
                BY <1>a, <1>d, <2>1, <3>3
            <4> QED
                BY <1>a, <2>2, <3>1, <4>1
        <3> QED
            BY <3>2, <3>3
    <2>5. CASE ~(trans[t].age >= tCMD_WAKEUP)
        <3>1. trans'[t].age = tCMD_WAKEUP
            BY <1>a, <1>b, <2>3, <2>5
        <3>2. PhyRem <= 1 + tPHYLPX
            <4>1. PhyLpState.phylp_state = "PHYLPX" => PhyLpState.lp_cnt <= tPHYLPX
                BY DEF PhyWaking
            <4> QED
                BY <1>a, <4>1 DEF PhyRem
        <3> QED
            BY <1>a, <1>d, <2>1, <2>2, <3>1, <3>2 DEF PhyTimings
    <2> QED
        BY <2>4, <2>5
<1>4. CASE UNCHANGED <<PhyLpState, RankState>> /\ (Early(phase') <=> Early(phase)) /\ ~EndCycle
    <2>1. PhyRem' = PhyRem /\ UpTime(r)' = UpTime(r)
        BY <1>4 DEF PhyRem, UpTime, lp_state
    <2>2. Ahead(t)' = Ahead(t)
        BY <1>4, <1>c, <1>d
    <2> QED
        BY <1>4, <1>e, <2>1, <2>2
<1> QED
    BY <1>1, <1>2, <1>3, <1>4, NextPhy

(* What the steps other than the scheduler's do to CmdQueue and the        *)
(* command register, as far as it matters here.                            *)
LEMMA NextRegister ==
    [Next]_vars =>
        \/ UpdateLpBegin
        \/ \E c \in CmdQueue : Schedule(c)
        \/ /\ phase' \in {"rank", "send", "fresh", "sched"} =>
                  phase \in {"rank", "send", "fresh", "sched"} /\ CmdQueue' = CmdQueue
           /\ exec_valid' => exec_valid /\ command' = command
<1> SUFFICES ASSUME [Next]_vars, ~UpdateLpBegin, ~\E c \in CmdQueue : Schedule(c)
             PROVE  /\ phase' \in {"rank", "send", "fresh", "sched"} =>
                           phase \in {"rank", "send", "fresh", "sched"} /\ CmdQueue' = CmdQueue
                    /\ exec_valid' => exec_valid /\ command' = command
    OBVIOUS
<1>1. CASE Exec
    BY <1>1 DEF Exec, At, Then
<1>2. CASE UNCHANGED <<exec_valid, command>>
    BY <1>2 DEF Next, vars, ctlVars, At, Then, Inform, addTransaction, NoTransaction, UpdateLpRank,
           UpdateLpEnd, SendPacket, SkipPacket, Exec, StateFresh,
           NothingToSchedule, Retire, NothingToRetire, QuePipeline, PageTimeoutPolicy, Refresh, EndCycle
<1> QED
    BY <1>1, <1>2 DEF Next, vars, ctlVars, Inform, addTransaction, NoTransaction, UpdateLpRank,
           UpdateLpEnd, SendPacket, SkipPacket, StateFresh,
           NothingToSchedule, Retire, NothingToRetire, QuePipeline, PageTimeoutPolicy, Refresh, EndCycle

LEMMA PhyForTasksStep ==
    ASSUME PhyTimings, TypeOK, SleepInv, PendInv, PhyInv, [Next]_vars
    PROVE  PhyForTasks'
<1>1. CASE UpdateLpBegin
    <2>0. /\ phase = "lp" /\ phase' = "rank" /\ UNCHANGED <<CmdQueue, exec_valid, command>>
        BY <1>1 DEF UpdateLpBegin, At, Then, ctlVars
    <2>1. ASSUME NEW c \in CmdQueue, c.task # NoTask PROVE PhyRem' = 0
        <3> PICK t, r : t = c.task /\ r = c.rank
            OBVIOUS
        <3>1. /\ t \in Tasks /\ r \in Ranks /\ On(t, r) /\ trans[t].age >= tCMD2SCH + 1
              /\ lp_state(r) = "IDLE"
            BY <2>0, <2>1 DEF SleepInv, QueueInv, Waiting, NoCmdInLpState, TypeOK, RegisterType, CmdSet
        <3>2. /\ trans[t].age \in Nat /\ tCMD2SCH \in Nat /\ tCMD_WAKEUP \in Nat \ {0}
              /\ tCMD_WAKEUP <= tCMD2SCH + 1 /\ PhyRem \in Nat
            BY <3>1, Constants, TransTypes, PhyTypes
        <3>3. UpTime(r) = 0 /\ Ahead(t) <= 1
            BY <2>0, <3>1, <3>2 DEF UpTime, Ahead, Early
        <3>4. PhyRem <= 1
            BY <3>1, <3>2, <3>3 DEF PhyInv, TaskPhy, Ahead
        <3>5. ~AllRanksLp
            BY <3>1 DEF AllRanksLp
        <3>6. PhyWakeup(has_cmd)
            <4>1. deqCmdWakeupLp[r][1] > 0
                BY <3>1, <3>2 DEF SleepInv, PipeFull
            <4> QED
                BY <3>1, <4>1 DEF PhyWakeup, has_cmd
        <3> QED
            BY <1>1, <3>2, <3>4, <3>5, <3>6, BeginPhy DEF PhyInv, PhyTimings
    <2>2. ASSUME exec_valid, command.task # NoTask PROVE PhyRem' = 0
        <3>1. PhyRem = 0
            BY <2>2 DEF PhyInv, PhyForTasks
        <3>2. lp_state(command.rank) \notin {"PDLP", "SRPDLP"} /\ command.rank \in Ranks
            BY <2>2, PendTypes DEF PendInv
        <3>3. ~AllRanksLp
            BY <3>2 DEF AllRanksLp
        <3> QED
            BY <1>1, <3>1, <3>3, BeginPhy DEF PhyInv, PhyTimings
    <2> QED
        BY <2>0, <2>1, <2>2 DEF PhyForTasks
<1>2. CASE UNCHANGED PhyLpState
    <2>0. PhyRem' = PhyRem
        BY <1>2 DEF PhyRem
    <2>1. ASSUME NEW c \in CmdQueue, Schedule(c) PROVE PhyForTasks'
        BY <2>0, <2>1 DEF Schedule, At, Then, PhyInv, PhyForTasks
    <2>2. CASE /\ phase' \in {"rank", "send", "fresh", "sched"} =>
                      phase \in {"rank", "send", "fresh", "sched"} /\ CmdQueue' = CmdQueue
               /\ exec_valid' => exec_valid /\ command' = command
        BY <2>0, <2>2 DEF PhyInv, PhyForTasks
    <2>3. CASE UpdateLpBegin
        BY <1>1, <2>3
    <2> QED
        BY <2>1, <2>2, <2>3, NextRegister
<1> QED
    BY <1>1, <1>2, PhyKept

(* The PHY is in none of its low-power states.                             *)
LEMMA PhyRemZero ==
    ASSUME TypeOK, PhyWaking, tPHYLPX >= 1, PhyRem = 0
    PROVE  PhyLpState.phylp_state = "PHYLP_IDLE"
    BY PhyTypes, Constants DEF PhyRem, PhyWaking, PhyStates

LEMMA PhyWakingStep ==
    ASSUME TypeOK, PhyWaking, tPHYLPX >= 1, [Next]_vars
    PROVE  PhyWaking'
<1>1. CASE UNCHANGED PhyLpState
    BY <1>1 DEF PhyWaking
<1> QED
    BY <1>1, BeginPhy, PhyKept

(* While the command of a transaction is in the register the PHY is awake. *)
TransactionAwake == exec_valid /\ command.task # NoTask => PhyLpState.phylp_state = "PHYLP_IDLE"

THEOREM TransactionAwakeHolds ==
    ASSUME TimingsCoverBus, PhyTimings
    PROVE  Spec => []TransactionAwake
<1>0. tPHYLPX >= 1 /\ tPHYLPX \in Nat
    BY Constants DEF PhyTimings
<1>1. Init => PathInv /\ PendInv /\ PhyInv
    <2>1. Init => PhyInv
        BY <1>0 DEF Init, LpInit, PhyInv, PhyWaking, TaskPhy, PhyForTasks, On, Off
    <2> QED
        BY <2>1, PathInit, FlightInit
<1>2. PathInv /\ PendInv /\ PhyInv /\ [Next]_vars => (PathInv /\ PendInv /\ PhyInv)'
    <2>1. PathInv /\ PendInv /\ PhyInv /\ [Next]_vars => PhyInv'
        BY <1>0, PhyWakingStep, TaskPhyStep, PhyForTasksStep DEF PathInv, PhyInv
    <2> QED
        BY <2>1, PathStep, PendStep DEF PathInv
<1>3. PathInv /\ PhyInv => TransactionAwake
    BY <1>0, PhyRemZero DEF PathInv, PhyInv, PhyForTasks, TransactionAwake
<1> QED
    BY <1>1, <1>2, <1>3, PTL DEF Spec
-----------------------------------------------------------------------------
(***************************************************************************)
(* The PHY and the precharges and refreshes, which wait for nothing but    *)
(* their rank.  A rank that is woken up calls the PHY in the same call of  *)
(* update_lp_state, unless the PHY falls asleep in that very call: then it *)
(* takes whatever woke the rank up to call the PHY again one cycle later.  *)
(* A transaction stays in the queue, and a precharge or a refresh is still *)
(* wanted, because a controller whose ranks all sleep changes no bank.     *)
(***************************************************************************)
WakeTimings == 1 <= tPHYLPX /\ tCMD_WAKEUP + tPHYLPX <= tXP + 1

(* No rank leaves power-down to refresh itself.                            *)
NoSelfWake == \A r \in Ranks :
    lp_state(r) = "PDLP" /\ RankState'[r].lp_state = "PDX" => Wake(r)

ArbFree == ~exec_valid => arb_enable

RefreshingIs == \A r \in Ranks :
    bankStates[r].state = "Refreshing" => refreshALL[r].refreshing

(* A transaction is retired in the cycle of its last command.              *)
FinishedInv == \A t \in Finished :
    /\ phase = "que" /\ exec_valid
    /\ t = command.task /\ On(t, command.rank) /\ trans[t].age >= tCMD2SCH + 1

ServedInv == ArbFree /\ RefreshingIs /\ FinishedInv
-----------------------------------------------------------------------------
LEMMA ArbFreeStep == TypeOK /\ ArbFree /\ [Next]_vars => ArbFree'
<1> SUFFICES ASSUME TypeOK, ArbFree, [Next]_vars PROVE ArbFree'
    OBVIOUS
<1>1. CASE Exec
    <2>1. Less1(command_pend) \in Nat
        BY PendTypes, Less1Type
    <2>2. Less1(command_pend) = 0 => Less1(command_pend) <= 1
        OBVIOUS
    <2> QED
        BY <1>1, <2>2, Zenon DEF Exec, ArbFree
<1>2. ASSUME NEW c \in CmdQueue, Schedule(c) PROVE ArbFree'
    BY <1>2 DEF Schedule, ArbFree
<1>3. CASE UNCHANGED <<exec_valid, arb_enable>>
    BY <1>3 DEF ArbFree
<1> QED
    BY <1>1, <1>2, <1>3 DEF Next, vars, ctlVars, Inform, addTransaction, NoTransaction, UpdateLpBegin,
        UpdateLpRank, UpdateLpEnd, SendPacket, SkipPacket, StateFresh, NothingToSchedule, Retire,
        NothingToRetire, QuePipeline, PageTimeoutPolicy, Refresh, EndCycle

LEMMA RefreshingIsStep == TypeOK /\ RefreshingIs /\ [Next]_vars => RefreshingIs'
<1> SUFFICES ASSUME TypeOK, RefreshingIs, [Next]_vars, NEW r \in Ranks,
                    bankStates'[r].state = "Refreshing"
             PROVE  refreshALL'[r].refreshing
    BY DEF RefreshingIs
<1>a. refreshALL \in [Ranks -> [refreshWaiting : BOOLEAN, refreshing : BOOLEAN]]
    BY DEF TypeOK, BanksType
<1>b. bankStates[r].state = "Refreshing" => refreshALL[r].refreshing
    BY DEF RefreshingIs
<1>1. ASSUME NEW t \in Tasks, NEW s \in Ranks, addTransaction(t, s)
      PROVE  refreshALL'[r].refreshing
    BY <1>1, <1>a, <1>b DEF addTransaction
<1>2. CASE StateFresh
    <2>1. bankStates'[r].state = IF Over(r) THEN "Idle" ELSE bankStates[r].state
        BY <1>2, FreshBank
    <2>2. ~Over(r) /\ bankStates[r].state = "Refreshing"
        BY <2>1
    <2>3. refreshALL'[r] = refreshALL[r]
        BY <1>2, <2>2 DEF StateFresh
    <2> QED
        BY <1>b, <2>2, <2>3
<1>3. ASSUME NEW c \in CmdQueue, Schedule(c) PROVE refreshALL'[r].refreshing
    <2>1. c.rank \in Ranks /\ c.type \in CmdTypes
        BY CmdSetOf
    <2>2. refreshALL'[r].refreshing = (refreshALL[r].refreshing \/ (r = c.rank /\ c.type = "REF"))
        BY <1>3, <1>a, <2>1 DEF Schedule
    <2>3. bankStates[r].state = "Refreshing" \/ (r = c.rank /\ c.type = "REF")
        BY <1>3, <2>1, ScheduleBank DEF CmdTypes
    <2> QED
        BY <1>b, <2>2, <2>3
<1>4. CASE PageTimeoutPolicy
    BY <1>4, <1>b, TimeoutBank DEF PageTimeoutPolicy
<1>5. CASE Refresh
    BY <1>5, <1>b, RefreshingKept DEF Refresh
<1>6. CASE UNCHANGED <<bankStates, refreshALL>>
    BY <1>6, <1>b
<1> QED
    BY <1>1, <1>2, <1>3, <1>4, <1>5, <1>6 DEF Next, vars, bankVars, Inform, NoTransaction, UpdateLpBegin,
        UpdateLpRank, UpdateLpEnd, SendPacket, SkipPacket, Exec, NothingToSchedule, Retire,
        NothingToRetire, QuePipeline, EndCycle

LEMMA FinishedStep ==
    ASSUME TypeOK, BankInv, AwakeInv, FinishedInv, [Next]_vars
    PROVE  FinishedInv'
<1> USE DEF Finished, Queued
<1>a. phase # "que" => Finished = {}
    BY DEF FinishedInv
<1>b. \A t \in Tasks : trans[t] \in TransType /\ trans[t].issue_size \in Nat
    BY TransTypes DEF TypeOK, QueueType
<1>1. ASSUME NEW s \in Tasks, NEW q \in Ranks, addTransaction(s, q) PROVE FinishedInv'
    <2>1. Finished = {} /\ BURSTS > 0 /\ BURSTS \in Nat
        BY <1>a, <1>1, CommandAssumption DEF addTransaction, At
    <2>2. Finished' = {}
        BY <1>1, <2>1, AddTrans
    <2> QED
        BY <2>2 DEF FinishedInv
<1>2. ASSUME NEW c \in CmdQueue, Schedule(c) PROVE FinishedInv'
    <2>1. /\ Finished = {} /\ phase' = "que" /\ exec_valid' /\ command' = c
          /\ phase \notin Queueing
        BY <1>a, <1>2 DEF Schedule, At, Then, Queueing
    <2>2. CmdOk(c)
        BY DEF BankInv, CmdInv
    <2> SUFFICES ASSUME NEW t \in Finished'
                 PROVE  t = c.task /\ On(t, c.rank)' /\ trans'[t].age >= tCMD2SCH + 1
        BY <2>1 DEF FinishedInv
    <2>3. t \in Tasks /\ trans'[t].on /\ trans'[t].issue_size >= BURSTS
        OBVIOUS
    <2>4. c.type = "RW" /\ t = c.task
        BY <1>2, <2>1, <2>3, ScheduleTrans
    <2>5. On(t, c.rank) /\ trans[t].age >= tCMD2SCH + 1
        BY <2>1, <2>2, <2>4 DEF CmdOk, AwakeInv, AgeInv
    <2> QED
        BY <1>2, <2>3, <2>4, <2>5, ScheduleTrans DEF On
<1>3. ASSUME NEW s \in Tasks, Retire(s) PROVE FinishedInv'
    <2>1. s \in Finished
        BY <1>3 DEF Retire
    <2>2. \A t \in Finished' : t \in Finished /\ t # s
        BY <1>3, RetireTrans
    <2>3. Finished' = {}
        BY <2>1, <2>2 DEF FinishedInv
    <2> QED
        BY <2>3 DEF FinishedInv
<1>4. CASE EndCycle
    <2>1. Finished = {}
        BY <1>a, <1>4 DEF EndCycle, At
    <2>2. Finished' = {}
        BY <1>4, <2>1, ClockTrans
    <2> QED
        BY <2>2 DEF FinishedInv
<1>5. CASE UNCHANGED queVars
    <2>1. CASE Finished = {}
        <3>1. Finished' = {}
            BY <1>5, <2>1 DEF queVars
        <3> QED
            BY <3>1 DEF FinishedInv
    <2>2. CASE phase = "que" /\ Finished # {}
        <3>1. (\E s \in Tasks : Retire(s)) \/ NothingToRetire \/ UNCHANGED vars
            BY <2>2 DEF Next, At, Inform, addTransaction, NoTransaction, UpdateLpBegin,
                UpdateLpRank, UpdateLpEnd, SendPacket, SkipPacket, Exec, StateFresh, Schedule,
                NothingToSchedule, QuePipeline, PageTimeoutPolicy, Refresh, EndCycle
        <3>2. UNCHANGED vars => FinishedInv'
            BY DEF vars, queVars, ctlVars, FinishedInv, On
        <3> QED
            BY <1>3, <2>2, <3>1, <3>2 DEF NothingToRetire
    <2> QED
        BY <1>a, <2>1, <2>2
<1> QED
    BY <1>1, <1>2, <1>3, <1>4, <1>5, NextQueue

LEMMA ServedInit == Init => ServedInv
    BY DEF Init, ServedInv, ArbFree, RefreshingIs, FinishedInv, Finished, Queued, Off

LEMMA ServedStep == PathInv /\ ServedInv /\ [Next]_vars => ServedInv'
    BY ArbFreeStep, RefreshingIsStep, FinishedStep DEF ServedInv, PathInv
-----------------------------------------------------------------------------
(* The pipe says of a rank that sleeps only what is true: some transaction *)
(* of it is in the queue.  What it says of transactions that have left     *)
(* keeps the rank awake until they have left the pipe as well.             *)
HasIs == phase = "rank" => \A r \in Ranks : rank_has_cmd[r] = has_cmd[r]

Seen(r, i) == \E t \in Tasks : On(t, r) /\ tCMD_WAKEUP - i < trans[t].age

PipeTrue == \A r \in Ranks, i \in 1 .. tCMD_WAKEUP : deqCmdWakeupLp[r][i] > 0 =>
    \/ Seen(r, i)
    \/ lp_state(r) = "IDLE" /\ \A j \in 1 .. i : deqCmdWakeupLp[r][j] > 0

LEMMA HasIsStep == HasIs /\ [Next]_vars => HasIs'
<1> SUFFICES ASSUME HasIs, [Next]_vars, phase' = "rank", NEW r \in Ranks
             PROVE  rank_has_cmd'[r] = has_cmd'[r]
    BY DEF HasIs
<1>1. \/ UpdateLpBegin
      \/ \E s \in Ranks : UpdateLpRank(s)
      \/ UNCHANGED vars
    BY DEF Next, Then, Inform, addTransaction, NoTransaction, UpdateLpEnd, SendPacket, SkipPacket,
           Exec, StateFresh, Schedule, NothingToSchedule, Retire, NothingToRetire, QuePipeline,
           PageTimeoutPolicy, Refresh, EndCycle
<1>2. CASE UpdateLpBegin
    BY <1>2 DEF UpdateLpBegin, LpBegin, queVars, has_cmd
<1>3. CASE \E s \in Ranks : UpdateLpRank(s)
    BY <1>3 DEF UpdateLpRank, LpRank, queVars, has_cmd, HasIs, At
<1>4. CASE UNCHANGED vars
    BY <1>4 DEF vars, queVars, lpVars, has_cmd, HasIs
<1> QED
    BY <1>1, <1>2, <1>3, <1>4

LEMMA SeenKept ==
    ASSUME TypeOK, [Next]_vars, ~EndCycle, \A t \in Tasks : ~Retire(t), NEW r \in Ranks, NEW t \in Tasks,
           On(t, r)
    PROVE  On(t, r)' /\ trans'[t].age = trans[t].age
<1>1. ASSUME NEW u \in Tasks, NEW s \in Ranks, addTransaction(u, s) PROVE trans'[t] = trans[t]
    BY <1>1, AddTrans DEF On
<1>2. ASSUME NEW c \in CmdQueue, Schedule(c) PROVE On(t, r)' /\ trans'[t].age = trans[t].age
    BY <1>2, ScheduleTrans DEF On
<1> QED
    BY <1>1, <1>2, NextQueue DEF On, queVars

LEMMA PipeTrueStep ==
    ASSUME TypeOK, SleepInv, PendInv, FinishedInv, HasIs, PipeTrue, [Next]_vars
    PROVE  PipeTrue'
<1> SUFFICES ASSUME NEW r \in Ranks, NEW i \in 1 .. tCMD_WAKEUP, deqCmdWakeupLp'[r][i] > 0
             PROVE  \/ Seen(r, i)'
                    \/ /\ RankState'[r].lp_state = "IDLE"
                       /\ \A j \in 1 .. i : deqCmdWakeupLp'[r][j] > 0
    BY DEF PipeTrue, lp_state
<1> DEFINE Full == \A j \in 1 .. i : deqCmdWakeupLp[r][j] > 0
<1>a. tCMD_WAKEUP \in Nat \ {0} /\ tCMD2SCH \in Nat /\ tCMD_WAKEUP <= tCMD2SCH + 1
    BY Constants
<1>b. deqCmdWakeupLp[r][i] > 0 => Seen(r, i) \/ (lp_state(r) = "IDLE" /\ Full)
    BY DEF PipeTrue
<1>c. ~EndCycle => deqCmdWakeupLp' = deqCmdWakeupLp
    BY NextQueue DEF addTransaction, Schedule, Retire, queVars
<1>1. CASE EndCycle
    <2>1. \A j \in 1 .. tCMD_WAKEUP : deqCmdWakeupLp'[r][j] =
              IF j = tCMD_WAKEUP THEN rank_cnt[r] ELSE deqCmdWakeupLp[r][j + 1]
        BY <1>1 DEF EndCycle
    <2>2. \A t \in Tasks : On(t, r) => /\ On(t, r)'
                                       /\ trans[t].age \in Nat
                                       /\ \/ trans'[t].age = trans[t].age + 1
                                          \/ trans'[t].age = tCMD2SCH + 1
        <3> TAKE t \in Tasks
        <3>1. trans'[t] = [trans[t] EXCEPT !.age = IF trans[t].on /\ @ < AgeMax THEN @ + 1 ELSE @]
            BY <1>1 DEF EndCycle
        <3>2. trans[t] \in TransType
            BY DEF TypeOK, QueueType
        <3>3. On(t, r) => trans'[t].age = IF trans[t].age < AgeMax THEN trans[t].age + 1
                                          ELSE trans[t].age
            BY <3>1, <3>2 DEF On, TransType
        <3>4. trans[t].age \in Nat /\ trans[t].age <= tCMD2SCH + 1
            BY <1>a, <3>2 DEF TransType, AgeMax
        <3> QED
            BY <1>1, <1>a, <3>3, <3>4, ClockTrans DEF On, AgeMax
    <2>3. CASE i = tCMD_WAKEUP
        <3>1. rank_cnt[r] > 0 /\ rank_cnt[r] = Cardinality(QueuedFor(r))
            BY <2>1, <2>3 DEF SleepInv, RankCnt
        <3>2. QueuedFor(r) # {}
            BY <3>1, FS_EmptySet
        <3>3. PICK t \in Tasks : On(t, r)
            BY <3>2 DEF QueuedFor
        <3>4. On(t, r)' /\ tCMD_WAKEUP - i < trans'[t].age
            BY <1>a, <2>2, <2>3, <3>3
        <3> QED
            BY <3>4 DEF Seen
    <2>4. CASE i # tCMD_WAKEUP
        <3>1. i + 1 \in 1 .. tCMD_WAKEUP /\ deqCmdWakeupLp[r][i + 1] > 0
            BY <1>a, <2>1, <2>4
        <3>2. CASE Seen(r, i + 1)
            <4>1. PICK t \in Tasks : On(t, r) /\ tCMD_WAKEUP - (i + 1) < trans[t].age
                BY <3>2 DEF Seen
            <4>2. On(t, r)' /\ tCMD_WAKEUP - i < trans'[t].age
                BY <1>a, <2>2, <4>1
            <4> QED
                BY <4>2 DEF Seen
        <3>3. CASE lp_state(r) = "IDLE" /\ \A j \in 1 .. i + 1 : deqCmdWakeupLp[r][j] > 0
            <4>1. RankState' = RankState
                BY <1>1 DEF EndCycle, lpVars
            <4>2. ASSUME NEW j \in 1 .. i PROVE deqCmdWakeupLp'[r][j] > 0
                <5>1. j \in 1 .. tCMD_WAKEUP /\ j # tCMD_WAKEUP /\ j + 1 \in 1 .. i + 1
                    BY <1>a, <2>4
                <5> QED
                    BY <2>1, <3>3, <5>1
            <4> QED
                BY <3>3, <4>1, <4>2 DEF lp_state
        <3> QED
            BY <3>1, <3>2, <3>3 DEF PipeTrue
    <2> QED
        BY <2>3, <2>4
<1>2. ASSUME NEW u \in Tasks, Retire(u)
      PROVE  Seen(r, i)' \/ (RankState'[r].lp_state = "IDLE" /\ Full)
    <2>1. RankState' = RankState /\ ~EndCycle
        BY <1>2 DEF Retire, lpVars, EndCycle, At
    <2>2. CASE lp_state(r) = "IDLE" /\ Full
        BY <2>1, <2>2 DEF lp_state
    <2>3. CASE Seen(r, i)
        <3>1. PICK t \in Tasks : On(t, r) /\ tCMD_WAKEUP - i < trans[t].age
            BY <2>3 DEF Seen
        <3>2. CASE t # u
            BY <1>2, <3>1, <3>2, RetireTrans DEF Seen, On
        <3>3. CASE t = u
            <4>1. /\ phase = "que" /\ exec_valid /\ On(t, command.rank)
                  /\ trans[t].age >= tCMD2SCH + 1
                BY <1>2, <3>3 DEF Retire, FinishedInv
            <4>2. r = command.rank
                BY <3>1, <4>1 DEF On
            <4>3. lp_state(r) = "IDLE"
                BY <4>1, <4>2 DEF PendInv
            <4>4. \A j \in 1 .. i : j \in 1 .. tCMD_WAKEUP /\ tCMD_WAKEUP - j < trans[t].age
                BY <1>a, <4>1, TransTypes
            <4>5. Full
                BY <3>1, <4>4 DEF SleepInv, PipeFull
            <4> QED
                BY <2>1, <4>3, <4>5 DEF lp_state
        <3> QED
            BY <3>2, <3>3
    <2> QED
        BY <1>b, <1>c, <2>1, <2>2, <2>3
<1>3. CASE ~EndCycle /\ \A u \in Tasks : ~Retire(u)
    <2>1. Seen(r, i) => Seen(r, i)'
        BY <1>3, SeenKept DEF Seen
    <2>2. ASSUME lp_state(r) = "IDLE", Full PROVE RankState'[r].lp_state = "IDLE"
        <3>1. CASE UpdateLpBegin
            BY <2>2, <3>1, BeginKeeps
        <3>2. ASSUME NEW s \in Ranks, UpdateLpRank(s) PROVE RankState'[r].lp_state = "IDLE"
            <4>1. phase = "rank" /\ LpRank(s)
                BY <3>2 DEF UpdateLpRank, At
            <4>2. deqCmdWakeupLp[r][1] > 0
                BY <1>a, <2>2
            <4>3. Wake(r)
                BY <4>1, <4>2 DEF HasIs, has_cmd, Wake
            <4> QED
                BY <2>2, <4>1, <4>3, LpRankKeeps
        <3> QED
            BY <2>2, <3>1, <3>2, NextLp DEF lp_state
    <2> QED
        BY <1>3, <1>b, <1>c, <2>1, <2>2
<1> QED
    BY <1>1, <1>2, <1>3, <1>c, Zenon
-----------------------------------------------------------------------------
(* A rank leaves power-down only in an even cycle, and then takes all of   *)
(* tXP; it goes to sleep only from its idle state.                         *)
PdStates  == {"PDE", "PD", "PDLP", "PDX"}
DeepSleep == {"PDLP", "SRPDLP"}

LEMMA LpLeaves ==
    ASSUME TypeOK, NEW r \in Ranks, LpRank(r)
    PROVE  /\ lp_state(r) \in DeepSleep /\ RankState'[r].lp_state \notin DeepSleep =>
                /\ even_cycle /\ RankState'[r].pd_cnt = tXP /\ UpTime(r)' = tXP
                /\ lp_state(r) = "PDLP" => RankState'[r].lp_state = "PDX"
                /\ lp_state(r) = "SRPDLP" => Wake(r)
           /\ lp_state(r) = "PDX" /\ RankState[r].pd_cnt # 0 => RankState'[r] = RankState[r]
<1> USE DEF UpTime, lp_state, DeepSleep
<1>a. tXP \in Nat /\ "PDX" \in LpStates /\ "SRPDX" \in LpStates
    BY Constants DEF LpStates, SelfRefresh
<1>1. CASE lp_state(r) = "PDLP"
    <2>1. LpPdlp(r)
        BY <1>1 DEF LpRank, LpIdle, LpPde, LpPd, LpPdx, LpAsrefe, LpAsref, LpAsrefx, LpSrpde, LpSrpd,
                    LpSrpdlp, LpSrpdx
    <2>2. (EnterPd(r, "PDX", tXP) /\ even_cycle) \/ RankState' = RankState
        BY <2>1 DEF LpPdlp, Stay, state_timing_met
    <2>3. EnterPd(r, "PDX", tXP) => RankState'[r].lp_state = "PDX" /\ RankState'[r].pd_cnt = tXP
        BY <1>a, EnterIs
    <2> QED
        BY <1>1, <2>2, <2>3
<1>2. CASE lp_state(r) = "SRPDLP"
    <2>1. LpSrpdlp(r)
        BY <1>2 DEF LpRank, LpIdle, LpPde, LpPd, LpPdlp, LpPdx, LpAsrefe, LpAsref, LpAsrefx, LpSrpde,
                    LpSrpd, LpSrpdx
    <2>2. (EnterPd(r, "SRPDX", tXP) /\ even_cycle /\ Wake(r)) \/ RankState' = RankState
        BY <2>1 DEF LpSrpdlp, Stay, state_timing_met
    <2>3. EnterPd(r, "SRPDX", tXP) => RankState'[r].lp_state = "SRPDX" /\ RankState'[r].pd_cnt = tXP
        BY <1>a, EnterIs
    <2> QED
        BY <1>2, <2>2, <2>3
<1>3. CASE lp_state(r) = "PDX"
    <2>1. LpPdx(r)
        BY <1>3 DEF LpRank, LpIdle, LpPde, LpPd, LpPdlp, LpAsrefe, LpAsref, LpAsrefx, LpSrpde, LpSrpd,
                    LpSrpdlp, LpSrpdx
    <2> QED
        BY <1>3, <2>1 DEF LpPdx, pd_timing_met
<1> QED
    BY <1>1, <1>2, <1>3

LEMMA LpEnters ==
    ASSUME TypeOK, NEW r \in Ranks, LpRank(r)
    PROVE  LET old == lp_state(r)
               new == RankState'[r].lp_state
           IN  /\ new \in PdStates => old \in PdStates \/ (old = "IDLE" /\ pdeWait[r] = 0)
               /\ new \in SelfRefresh => old \in SelfRefresh \/ (old = "IDLE" /\ ~wakeup[r])
<1> DEFINE old == lp_state(r)
           new == RankState'[r].lp_state
           Goal == /\ new \in PdStates => old \in PdStates \/ (old = "IDLE" /\ pdeWait[r] = 0)
                   /\ new \in SelfRefresh => old \in SelfRefresh \/ (old = "IDLE" /\ ~wakeup[r])
<1> USE DEF lp_state, PdStates, SelfRefresh
<1>a. tPDE \in Nat /\ tXP \in Nat /\ tASREFE \in Nat /\ tXSR \in Nat
    BY Constants
<1>b. \A st \in {"IDLE", "PDE", "PD", "PDLP", "PDX", "ASREFE", "ASREF", "ASREFX", "SRPDE", "SRPD",
                 "SRPDLP", "SRPDX"} : st \in LpStates
    BY DEF LpStates
<1>c. RankState' = RankState => Goal
    <2>1. lp_state(r) \in LpStates
        BY DEF TypeOK, LowPowerType, RankStateType
    <2> QED
        BY <2>1 DEF LpStates
<1>1. CASE LpIdle(r)
    <2>1. /\ old = "IDLE"
          /\ \/ \E p, a : Reload(r, "IDLE", p, a)
             \/ ~wakeup[r] /\ EnterAsref(r, "SRPDE", tASREFE)
             \/ ~wakeup[r] /\ EnterAsref(r, "ASREFE", tASREFE)
             \/ EnterPd(r, "PDE", tPDE) /\ pdeWait[r] = 0
             \/ RankState' = RankState
        BY <1>1 DEF LpIdle, pd_timing_met
    <2>2. \/ new = "IDLE"
          \/ ~wakeup[r] /\ new \in {"SRPDE", "ASREFE"}
          \/ new = "PDE" /\ pdeWait[r] = 0
        BY <1>a, <1>b, <2>1, EnterIs
    <2> QED
        BY <2>1, <2>2
<1>2. CASE LpPde(r)
    BY <1>2, <1>a, <1>b, <1>c, EnterIs DEF LpPde, Stay
<1>3. CASE LpPd(r)
    BY <1>3, <1>a, <1>b, <1>c, EnterIs DEF LpPd, Stay
<1>4. CASE LpPdlp(r)
    BY <1>4, <1>a, <1>b, <1>c, EnterIs DEF LpPdlp, Stay
<1>5. CASE LpPdx(r)
    BY <1>5, <1>a, <1>b, <1>c, EnterIs DEF LpPdx
<1>6. CASE LpAsrefe(r)
    BY <1>6, <1>a, <1>b, <1>c, EnterIs DEF LpAsrefe, Stay
<1>7. CASE LpAsref(r)
    BY <1>7, <1>a, <1>b, <1>c, EnterIs DEF LpAsref, Stay
<1>8. CASE LpAsrefx(r)
    BY <1>8, <1>a, <1>b, <1>c, EnterIs DEF LpAsrefx
<1>9. CASE LpSrpde(r)
    BY <1>9, <1>a, <1>b, <1>c, EnterIs DEF LpSrpde, Stay
<1>10. CASE LpSrpd(r)
    BY <1>10, <1>a, <1>b, <1>c, EnterIs DEF LpSrpd, Stay
<1>11. CASE LpSrpdlp(r)
    BY <1>11, <1>a, <1>b, <1>c, EnterIs DEF LpSrpdlp, Stay
<1>12. CASE LpSrpdx(r)
    BY <1>12, <1>a, <1>b, <1>c, EnterIs DEF LpSrpdx, Stay
<1> QED
    BY <1>1, <1>2, <1>3, <1>4, <1>5, <1>6, <1>7, <1>8, <1>9, <1>10, <1>11, <1>12 DEF LpRank
-----------------------------------------------------------------------------
(* A rank that sleeps is called by nobody, from the end of update_lp_state *)
(* until the page timeout and the refresh of the same cycle; one that      *)
(* refreshes itself never is, and without announced reads no fast wake-up  *)
(* is either.                                                              *)
AfterLp == {"send", "fresh", "sched", "que", "lc", "ptp"}

NotCalled == \A r \in Ranks :
    /\ lp_state(r) \in PdStates => pdeWait[r] = 0 /\ (phase \in AfterLp => ~wakeup[r])
    /\ lp_state(r) \in SelfRefresh => ~wakeup[r]
    /\ ~fast_wakeup[r]

LEMMA FastStep ==
    ASSUME InformRanks = {}, [Next]_vars, NEW r \in Ranks, ~fast_wakeup[r]
    PROVE  ~fast_wakeup'[r]
<1>1. CASE Inform
    <2>1. PICK W \in SUBSET InformRanks : NocReadInform(W)
        BY <1>1 DEF Inform
    <2> QED
        BY <2>1 DEF NocReadInform
<1>2. CASE UpdateLpEnd
    BY <1>2 DEF UpdateLpEnd, LpEnd
<1>3. CASE UNCHANGED fast_wakeup
    BY <1>3
<1> QED
    BY <1>1, <1>2, <1>3 DEF Next, vars, lpVars, addTransaction, NoTransaction, UpdateLpBegin, LpBegin,
        UpdateLpRank, LpRank, SendPacket, SkipPacket, Exec, StateFresh, Schedule, NothingToSchedule,
        Retire, NothingToRetire, QuePipeline, PageTimeoutPolicy, Refresh, EndCycle

(* Which actions touch the timers and flags of power-down.                 *)
LEMMA NextWakeup ==
    [Next]_vars =>
        \/ UpdateLpBegin
        \/ \E r \in Ranks : UpdateLpRank(r)
        \/ UpdateLpEnd
        \/ \E c \in CmdQueue : Schedule(c)
        \/ PageTimeoutPolicy \/ Refresh \/ EndCycle
        \/ /\ UNCHANGED <<RankState, wakeup, pdeWait>>
           /\ phase' \in AfterLp => phase \in AfterLp
    BY DEF Next, vars, At, Then, AfterLp, lpVars, Inform, addTransaction, NoTransaction,
        SendPacket, SkipPacket, Exec, StateFresh, NothingToSchedule, Retire, NothingToRetire, QuePipeline

(* Whom the page timeout and the refresh wake up.                          *)
LEMMA RefreshWakes ==
    ASSUME TypeOK, Refresh, NEW r \in Ranks
    PROVE  \/ wakeup'[r] = wakeup[r]
           \/ \E due \in SUBSET CanBeDue :
                  /\ AREF_EN /\ RefreshWith(due) /\ wakeup'[r]
                  /\ WantsPre(r, due) \/ WantsRef(r, due)
<1>1. CASE ~AREF_EN
    BY <1>1 DEF Refresh
<1>2. CASE AREF_EN
    <2>1. PICK due \in SUBSET CanBeDue : RefreshWith(due)
        BY <1>2 DEF Refresh
    <2> DEFINE wants == {s \in Ranks : WantsPre(s, due) \/ WantsRef(s, due)}
    <2>2. wakeup' = Woken(wants) /\ wakeup[r] \in BOOLEAN
        BY <2>1 DEF RefreshWith, TypeOK, LowPowerType
    <2>3. r \in wants <=> WantsPre(r, due) \/ WantsRef(r, due)
        OBVIOUS
    <2> HIDE DEF wants
    <2>4. wakeup'[r] = (wakeup[r] \/ r \in wants)
        BY <2>2 DEF Woken
    <2>5. CASE r \in wants
        BY <1>2, <2>1, <2>3, <2>4, <2>5
    <2>6. CASE r \notin wants
        <3>1. wakeup'[r] = wakeup[r]
            BY <2>2, <2>4, <2>6
        <3> QED
            BY <3>1
    <2> QED
        BY <2>5, <2>6
<1> QED
    BY <1>1, <1>2

LEMMA NotCalledStep ==
    ASSUME InformRanks = {}, TypeOK, SleepInv, Sleeping, NotCalled, [Next]_vars
    PROVE  NotCalled'
<1> SUFFICES ASSUME NEW r \in Ranks
             PROVE  /\ RankState'[r].lp_state \in PdStates =>
                           pdeWait'[r] = 0 /\ (phase' \in AfterLp => ~wakeup'[r])
                    /\ RankState'[r].lp_state \in SelfRefresh => ~wakeup'[r]
                    /\ ~fast_wakeup'[r]
    BY DEF NotCalled, lp_state
<1> DEFINE Same == /\ RankState'[r].lp_state \in PdStates =>
                           pdeWait'[r] = 0 /\ (phase' \in AfterLp => ~wakeup'[r])
                   /\ RankState'[r].lp_state \in SelfRefresh => ~wakeup'[r]
<1>a. /\ lp_state(r) \in PdStates => pdeWait[r] = 0 /\ (phase \in AfterLp => ~wakeup[r])
      /\ lp_state(r) \in SelfRefresh => ~wakeup[r]
    BY DEF NotCalled
<1>b. ~fast_wakeup'[r]
    BY FastStep DEF NotCalled
<1>c. "IDLE" \notin PdStates /\ "IDLE" \notin SelfRefresh
    BY DEF PdStates, SelfRefresh
<1>1. CASE UpdateLpBegin
    <2>1. phase' \notin AfterLp /\ UNCHANGED <<wakeup, pdeWait>>
        BY <1>1 DEF UpdateLpBegin, LpBegin, Then, AfterLp
    <2> QED
        BY <1>1, <1>a, <1>b, <2>1, BeginKeeps
<1>2. ASSUME NEW s \in Ranks, UpdateLpRank(s) PROVE Same
    <2>1. phase' \notin AfterLp /\ UNCHANGED <<wakeup, pdeWait>> /\ LpRank(s)
        BY <1>2 DEF UpdateLpRank, LpRank, Then, AfterLp
    <2>2. CASE s = r
        BY <1>a, <1>c, <2>1, <2>2, LpEnters
    <2>3. CASE s # r
        BY <1>a, <2>1, <2>3, LpRankOthers DEF lp_state
    <2> QED
        BY <2>2, <2>3
<1>3. CASE UpdateLpEnd
    <2>1. /\ RankState' = RankState /\ pdeWait' = pdeWait
          /\ wakeup'[r] = (wakeup[r] /\ pdeWait[r] > 0)
        BY <1>3 DEF UpdateLpEnd, LpEnd
    <2>2. wakeup'[r] => wakeup[r] /\ pdeWait[r] > 0
        BY <2>1, Zenon
    <2>3. pdeWait[r] = 0 => ~(pdeWait[r] > 0)
        OBVIOUS
    <2> QED
        BY <1>a, <1>b, <2>1, <2>2, <2>3, Zenon DEF lp_state
<1>4. ASSUME NEW c \in CmdQueue, Schedule(c) PROVE Same
    <2>1. RankState' = RankState /\ wakeup' = wakeup /\ phase = "sched"
        BY <1>4 DEF Schedule, lpVars, At
    <2>2. lp_state(c.rank) = "IDLE"
        BY DEF SleepInv, NoCmdInLpState
    <2>3. r # c.rank => pdeWait'[r] = pdeWait[r]
        BY <1>4 DEF Schedule, TypeOK, ClockType
    <2> QED
        BY <1>a, <1>c, <2>1, <2>2, <2>3 DEF lp_state, AfterLp
<1>5. CASE PageTimeoutPolicy
    <2>1. /\ RankState' = RankState /\ pdeWait' = pdeWait /\ phase' \notin AfterLp
          /\ wakeup'[r] = (wakeup[r] \/ Close(r))
        BY <1>5 DEF PageTimeoutPolicy, Then, AfterLp, Woken
    <2>2. Close(r) => lp_state(r) \notin SelfRefresh
        BY DEF Close, TimedOut, Unused, Sleeping
    <2> QED
        BY <1>a, <1>b, <2>1, <2>2 DEF lp_state
<1>6. CASE Refresh
    <2>1. RankState' = RankState /\ pdeWait' = pdeWait /\ phase' \notin AfterLp
        BY <1>6 DEF Refresh, Then, AfterLp
    <2>2. wakeup'[r] = wakeup[r] \/ lp_state(r) \notin SelfRefresh
        BY <1>6, RefreshWakes DEF WantsPre, WantsRef, Wants, Visited
    <2> QED
        BY <1>a, <1>b, <2>1, <2>2 DEF lp_state
<1>7. CASE EndCycle
    <2>1. /\ RankState' = RankState /\ wakeup' = wakeup /\ phase' \notin AfterLp
          /\ pdeWait'[r] = Less1(pdeWait[r])
        BY <1>7 DEF EndCycle, lpVars, Then, AfterLp
    <2>2. pdeWait[r] = 0 => Less1(pdeWait[r]) = 0
        BY DEF Less1
    <2> QED
        BY <1>a, <1>b, <2>1, <2>2 DEF lp_state
<1>8. CASE UNCHANGED <<RankState, wakeup, pdeWait>> /\ (phase' \in AfterLp => phase \in AfterLp)
    BY <1>8, <1>a, <1>b DEF lp_state
<1> QED
    BY <1>1, <1>2, <1>3, <1>4, <1>5, <1>6, <1>7, <1>8, <1>b, NextWakeup
-----------------------------------------------------------------------------
(* What wakes a rank up out of power-down: a transaction of it, a refresh  *)
(* that the controller wants for as long as its banks do not change, or a  *)
(* row to be closed, which it wants in even cycles only.                   *)
HasTask(r) == \E t \in Tasks : On(t, r)

RefReason(r) ==
    /\ AREF_EN /\ refresh_cnt[r] > 0 /\ ~Hold(r)
    /\ refreshALL[r].refreshWaiting \/ refresh_cnt[r] >= ABR_PSTPND_LEVEL
    /\ ~refreshALL[r].refreshing /\ bankStates[r].state # "Refreshing"
    /\ (bankStates[r].state = "RowActive" /\ bankStates[r].cnt <= 1) \/ BankReady(r)

CloseReason(r) == TimedOut(r) /\ bankStates[r].cnt <= 1

Reason(r) ==
    \/ HasTask(r)
    \/ RefReason(r)
    \/ CloseReason(r) /\ (EVERY_OTHER => parity = IF phase \in {"ref", "data"} THEN 1 ELSE 0)

(* wakeup[r] is up for what the rank was woken up for in this cycle.       *)
Calling(r) == \/ phase \in {"ref", "data", "inform", "add", "lp"}
              \/ phase = "rank" /\ lpRank <= r

WakeReason == \A r \in Ranks : lp_state(r) = "PDLP" /\ wakeup[r] /\ Calling(r) => Reason(r)

(* Reasons only depend on the banks, the transactions and the refreshes.   *)
LEMMA ReasonsKept ==
    ASSUME NEW r \in Ranks, UNCHANGED <<trans, bankStates, refresh_cnt, refreshALL>>
    PROVE  /\ HasTask(r)' <=> HasTask(r)
           /\ RefReason(r)' <=> RefReason(r)
           /\ CloseReason(r)' <=> CloseReason(r)
    BY DEF HasTask, RefReason, CloseReason, TimedOut, Unused, Hold, BankReady, On

LEMMA WantsAre ==
    ASSUME TypeOK, NEW r \in Ranks, NEW due \in SUBSET Ranks
    PROVE  /\ RefReason(r) /\ lp_state(r) \notin SelfRefresh /\ arb_enable =>
                  WantsPre(r, due) \/ WantsRef(r, due)
           /\ refresh_cnt[r] \in Nat /\ Owed(r, due) \in Nat /\ Owed(r, due) >= refresh_cnt[r]
<1>1. refresh_cnt[r] \in Nat /\ ABR_PSTPND_LEVEL \in Nat
    BY CommandAssumption DEF TypeOK, BanksType
<1>2. Owed(r, due) \in Nat /\ Owed(r, due) >= refresh_cnt[r]
    BY <1>1 DEF Owed
<1> HIDE DEF Owed
<1>3. refresh_cnt[r] > 0 => Owed(r, due) > 0
    BY <1>1, <1>2
<1>4. refresh_cnt[r] >= ABR_PSTPND_LEVEL => Owed(r, due) >= ABR_PSTPND_LEVEL
    BY <1>1, <1>2
<1> HIDE DEF Hold, BankReady, lp_state
<1> QED
    BY <1>1, <1>2, <1>3, <1>4 DEF RefReason, WantsPre, WantsRef, Wants, Visited, Forced

(* The refresh of a rank stays wanted, and one that begins to be is.       *)
LEMMA RefreshReasons ==
    ASSUME TypeOK, RefreshingIs, Refresh, NEW r \in Ranks
    PROVE  /\ HasTask(r)' <=> HasTask(r)
           /\ CloseReason(r)' <=> CloseReason(r)
           /\ RefReason(r) => RefReason(r)'
           /\ wakeup'[r] = wakeup[r] \/ RefReason(r)'
<1>1. UNCHANGED <<trans, bankStates>>
    BY DEF Refresh, queVars
<1>2. (HasTask(r)' <=> HasTask(r)) /\ (CloseReason(r)' <=> CloseReason(r))
    BY <1>1 DEF HasTask, CloseReason, TimedOut, Unused, On
<1>3. (Hold(r)' <=> Hold(r)) /\ (BankReady(r)' <=> BankReady(r))
    BY <1>1 DEF Hold, BankReady, On
<1>4. ASSUME AREF_EN, NEW due \in SUBSET CanBeDue, RefreshWith(due)
      PROVE  /\ RefReason(r) => RefReason(r)'
             /\ WantsPre(r, due) \/ WantsRef(r, due) => RefReason(r)'
    <2>1. refreshALL[r] \in [refreshWaiting : BOOLEAN, refreshing : BOOLEAN]
        BY DEF TypeOK, BanksType
    <2>2. /\ refresh_cnt'[r] = Owed(r, due)
          /\ refreshALL[r].refreshWaiting => refreshALL'[r].refreshWaiting
          /\ Visited(r, due) /\ Forced(r, due) => refreshALL'[r].refreshWaiting
          /\ refreshALL'[r].refreshing = refreshALL[r].refreshing
        BY <1>4, <2>1 DEF RefreshWith
    <2>3. /\ refresh_cnt[r] \in Nat /\ Owed(r, due) \in Nat /\ Owed(r, due) >= refresh_cnt[r]
          /\ ABR_PSTPND_LEVEL \in Nat
        BY <1>4, WantsAre, CommandAssumption DEF CanBeDue
    <2> HIDE DEF Hold, BankReady, Owed, Forced
    <2>4. RefReason(r) => RefReason(r)'
        BY <1>1, <1>3, <2>2, <2>3 DEF RefReason
    <2>5. ASSUME Wants(r, due)
          PROVE  /\ Owed(r, due) > 0 /\ ~Hold(r) /\ refreshALL'[r].refreshWaiting
                 /\ ~refreshALL[r].refreshing /\ bankStates[r].state # "Refreshing"
        BY <2>2, <2>5 DEF Wants, Visited, RefreshingIs
    <2> QED
        BY <1>1, <1>3, <1>4, <2>2, <2>4, <2>5 DEF RefReason, WantsPre, WantsRef
<1>5. RefReason(r) => RefReason(r)'
    <2>1. CASE AREF_EN
        <3>1. PICK due \in SUBSET CanBeDue : RefreshWith(due)
            BY <2>1 DEF Refresh
        <3> QED
            BY <1>4, <2>1, <3>1
    <2> QED
        BY <2>1 DEF RefReason
<1> QED
    BY <1>2, <1>4, <1>5, RefreshWakes

LEMMA EndReasons ==
    ASSUME TypeOK, EndCycle, NEW r \in Ranks
    PROVE  /\ HasTask(r) => HasTask(r)'
           /\ RefReason(r) => RefReason(r)'
           /\ CloseReason(r) => CloseReason(r)'
<1>1. UNCHANGED <<bankStates, refresh_cnt, refreshALL>>
    BY DEF EndCycle, bankVars
<1>2. \A t \in Tasks : /\ On(t, r)' <=> On(t, r)
                       /\ trans'[t].issue_size = trans[t].issue_size
    BY ClockTrans DEF On
<1> QED
    BY <1>1, <1>2 DEF HasTask, RefReason, CloseReason, TimedOut, Unused, Hold, BankReady

LEMMA AddReasons ==
    ASSUME TypeOK, NEW u \in Tasks, NEW s \in Ranks, addTransaction(u, s), NEW r \in Ranks
    PROVE  /\ HasTask(r) => HasTask(r)'
           /\ RefReason(r) => RefReason(r)' \/ HasTask(r)'
           /\ CloseReason(r) => CloseReason(r)' \/ HasTask(r)'
<1>1. \A t \in Tasks : On(t, r) => On(t, r)'
    BY AddTrans DEF On
<1>2. CASE s = r
    <2>1. On(u, r)'
        BY <1>2 DEF addTransaction, On, Off, TypeOK, QueueType
    <2> QED
        BY <2>1 DEF HasTask
<1>3. CASE s # r
    <2>1. refreshALL'[r] = refreshALL[r] /\ UNCHANGED <<bankStates, refresh_cnt>>
        BY <1>3 DEF addTransaction, TypeOK, BanksType
    <2>2. \A t \in Tasks : On(t, r)' => On(t, r) /\ trans'[t] = trans[t]
        <3> TAKE t \in Tasks
        <3>1. CASE t = u
            BY <1>3, <3>1, AddTrans DEF On
        <3>2. CASE t # u
            BY <3>2, AddTrans DEF On
        <3> QED
            BY <3>1, <3>2
    <2>3. (Hold(r)' => Hold(r)) /\ (BankReady(r)' <=> BankReady(r))
        BY <2>1, <2>2 DEF Hold, BankReady
    <2>4. RefReason(r) => RefReason(r)'
        BY <2>1, <2>3 DEF RefReason
    <2>5. CloseReason(r) => CloseReason(r)'
        BY <2>1, <2>2 DEF CloseReason, TimedOut, Unused
    <2> QED
        BY <1>1, <2>4, <2>5 DEF HasTask
<1> QED
    BY <1>2, <1>3

(* Which actions are taken while wakeup[r] says why.                       *)
LEMMA NextCalling ==
    ASSUME TypeOK, [Next]_vars, NEW r \in Ranks, Calling(r)'
    PROVE  \/ \E u \in Tasks, s \in Ranks : addTransaction(u, s)
           \/ \E s \in Ranks : UpdateLpRank(s) /\ s # r /\ Calling(r)
           \/ UpdateLpBegin \/ PageTimeoutPolicy \/ Refresh \/ EndCycle
           \/ /\ UNCHANGED <<RankState, wakeup, parity, trans, bankVars>> /\ Calling(r)
              /\ phase' \in {"ref", "data"} <=> phase \in {"ref", "data"}
<1>1. ASSUME NEW s \in Ranks, UpdateLpRank(s) PROVE s # r /\ Calling(r)
    <2>1. phase = "rank" /\ phase' = "rank" /\ lpRank = s /\ lpRank' = s + 1
        BY <1>1 DEF UpdateLpRank, LpRank, At, Then
    <2>2. s + 1 <= r /\ r \in Int /\ s \in Int
        BY <2>1 DEF Calling, Ranks
    <2> QED
        BY <2>1, <2>2 DEF Calling
<1> QED
    BY <1>1 DEF Next, vars, At, Then, Calling, lpVars, queVars, bankVars, Inform, NoTransaction,
        UpdateLpEnd, SendPacket, SkipPacket, Exec, StateFresh, Schedule, NothingToSchedule,
        Retire, NothingToRetire, QuePipeline

LEMMA WakeReasonStep ==
    ASSUME TypeOK, RefreshingIs, NotCalled, WakeReason, [Next]_vars
    PROVE  WakeReason'
<1> SUFFICES ASSUME NEW r \in Ranks, RankState'[r].lp_state = "PDLP", wakeup'[r], Calling(r)'
             PROVE  Reason(r)'
    BY DEF WakeReason, lp_state
<1>a. lp_state(r) = "PDLP" /\ wakeup[r] /\ Calling(r) => Reason(r)
    BY DEF WakeReason
<1>1. ASSUME NEW u \in Tasks, NEW s \in Ranks, addTransaction(u, s) PROVE Reason(r)'
    <2>1. UNCHANGED <<RankState, wakeup, parity>> /\ phase = "add" /\ phase' = "lp"
        BY <1>1 DEF addTransaction, lpVars, At, Then
    <2>2. Reason(r)
        BY <1>a, <2>1 DEF Calling, lp_state
    <2> QED
        BY <1>1, <2>1, <2>2, AddReasons DEF Reason
<1>2. ASSUME NEW s \in Ranks, UpdateLpRank(s), s # r, Calling(r) PROVE Reason(r)'
    <2>1. /\ UNCHANGED <<parity, trans, bankVars, wakeup>> /\ phase = "rank" /\ phase' = "rank" /\ LpRank(s)
        BY <1>2 DEF UpdateLpRank, LpRank, queVars, At, Then
    <2>2. RankState'[r] = RankState[r]
        BY <1>2, <2>1, LpRankOthers
    <2>3. Reason(r)
        BY <1>2, <1>a, <2>1, <2>2 DEF lp_state
    <2> QED
        BY <2>1, <2>3, ReasonsKept DEF Reason, bankVars
<1>3. CASE UpdateLpBegin
    <2>1. /\ UNCHANGED <<parity, trans, bankVars, wakeup>> /\ phase = "lp" /\ phase' = "rank"
        BY <1>3 DEF UpdateLpBegin, LpBegin, queVars, At, Then
    <2>2. Reason(r)
        BY <1>3, <1>a, <2>1, BeginKeeps DEF Calling
    <2> QED
        BY <2>1, <2>2, ReasonsKept DEF Reason, bankVars
<1>4. CASE PageTimeoutPolicy
    <2>1. /\ UNCHANGED <<parity, trans, RankState>> /\ phase = "ptp" /\ phase' = "ref"
          /\ wakeup'[r] = (wakeup[r] \/ Close(r))
        BY <1>4 DEF PageTimeoutPolicy, queVars, At, Then, Woken
    <2>2. ~wakeup[r]
        BY <2>1 DEF NotCalled, lp_state, PdStates, AfterLp
    <2>3. TimedOut(r) /\ bankStates[r].cnt <= 1 /\ even_cycle
        BY <2>1, <2>2 DEF Close
    <2>4. bankStates'[r] = bankStates[r]
        <3>1. bankStates[r] \in BankType
            BY DEF TypeOK, BanksType
        <3>2. bankStates'[r] = [bankStates[r] EXCEPT !.delay = bankStates[r].delay]
            BY <1>4, <2>3 DEF PageTimeoutPolicy
        <3> QED
            BY <3>1, <3>2 DEF BankType
    <2>5. CloseReason(r)'
        BY <2>1, <2>3, <2>4 DEF CloseReason, TimedOut, Unused, On
    <2> QED
        BY <2>1, <2>3, <2>5 DEF Reason, even_cycle
<1>5. CASE Refresh
    <2>1. /\ UNCHANGED <<parity, RankState>> /\ phase = "ref" /\ phase' = "data"
        BY <1>5 DEF Refresh, At, Then
    <2>2. CASE wakeup'[r] = wakeup[r]
        <3>1. Reason(r)
            BY <1>a, <2>1, <2>2 DEF Calling, lp_state
        <3> QED
            BY <1>5, <2>1, <3>1, RefreshReasons DEF Reason
    <2>3. CASE RefReason(r)'
        BY <2>3 DEF Reason
    <2> QED
        BY <1>5, <2>2, <2>3, RefreshReasons
<1>6. CASE EndCycle
    <2>1. /\ UNCHANGED <<wakeup, RankState>> /\ phase = "data" /\ phase' = "inform"
          /\ parity' = IF EVERY_OTHER THEN 1 - parity ELSE parity
        BY <1>6 DEF EndCycle, lpVars, At, Then
    <2>2. Reason(r)
        BY <1>a, <2>1 DEF Calling, lp_state
    <2> QED
        BY <1>6, <2>1, <2>2, EndReasons DEF Reason
<1>7. CASE /\ UNCHANGED <<RankState, wakeup, parity, trans, bankVars>> /\ Calling(r)
           /\ phase' \in {"ref", "data"} <=> phase \in {"ref", "data"}
    <2>1. Reason(r)
        BY <1>7, <1>a DEF lp_state
    <2> QED
        BY <1>7, <2>1, ReasonsKept DEF Reason, bankVars
<1> QED
    BY <1>1, <1>2, <1>3, <1>4, <1>5, <1>6, <1>7, NextCalling
-----------------------------------------------------------------------------
(* The PHY and a rank that is not asleep: the PHY is awake, or will be as  *)
(* soon as the rank, or sleeps and will be called in time: by a            *)
(* transaction, when it has passed the wake-up pipe, or by the precharge   *)
(* or refresh that the rank was woken up for, in the next cycle.           *)
Asleep == PhyLpState.phylp_state \in {"PHYLPE", "PHYLP"}

(* Calls of update_lp_state that will not see the transaction yet.         *)
Unseen(t) == Larger(0, tCMD_WAKEUP - trans[t].age - (IF Early(phase) THEN 0 ELSE 1))

Soon(r) == \E t \in Tasks : On(t, r) /\ Unseen(t) + tPHYLPX <= UpTime(r)

Called(r) ==
    /\ lp_state(r) = "PDX" /\ RankState[r].pd_cnt = tXP
    /\ \/ phase \in {"ref", "data", "inform", "add", "lp"} /\ wakeup[r]
       \/ phase \notin {"data", "inform", "add", "lp"} /\ RefReason(r)
       \/ phase \notin {"ref", "data", "inform", "add", "lp"} /\ CloseReason(r) /\ ~EVERY_OTHER

PhyReady(r) ==
    \/ PhyLpState.phylp_state = "PHYLP_IDLE"
    \/ PhyLpState.phylp_state = "PHYLPX" /\ PhyLpState.lp_cnt <= 1 + UpTime(r)
    \/ Asleep /\ (Soon(r) \/ Called(r))

PhyComes == \A r \in Ranks : lp_state(r) \notin DeepSleep => PhyReady(r)

QueuePhy == CmdQueue # {} =>
    \/ PhyLpState.phylp_state = "PHYLP_IDLE"
    \/ /\ phase \notin {"rank", "send", "fresh", "sched"}
       /\ PhyLpState.phylp_state = "PHYLPX" /\ PhyLpState.lp_cnt <= 1

WakeNums ==
    /\ tXP \in Nat /\ tPHYLPX \in Nat /\ tPHYLPX >= 1 /\ tPHYLPX <= tXP
    /\ tCMD_WAKEUP \in Nat /\ tCMD_WAKEUP >= 1 /\ tCMD_WAKEUP <= tCMD2SCH + 1 /\ tCMD2SCH \in Nat
    /\ tCMD_WAKEUP + tPHYLPX <= tXP + 1

LEMMA WakeNumbers == ASSUME WakeTimings PROVE WakeNums
    BY Constants DEF WakeTimings, WakeNums

LEMMA UnseenType ==
    ASSUME TypeOK, WakeNums, NEW t \in Tasks
    PROVE  /\ trans[t].age \in Nat /\ Unseen(t) \in Nat
           /\ Unseen(t) <= tCMD_WAKEUP
           /\ ~Early(phase) => Unseen(t) <= tCMD_WAKEUP - 1
           /\ Early(phase) /\ trans[t].age < tCMD_WAKEUP => Unseen(t) = tCMD_WAKEUP - trans[t].age
<1>1. trans[t].age \in Nat
    BY TransTypes
<1> QED
    BY <1>1 DEF WakeNums, Unseen, Larger

(* A rank that leaves its sleep while the PHY sleeps was woken up by       *)
(* something that is still there.                                          *)
LEMMA LeavesReady ==
    ASSUME WakeNums, TypeOK, PhyWaking, HasIs, PipeTrue, NotCalled, WakeReason, NoSelfWake,
           NEW r \in Ranks, UpdateLpRank(r), lp_state(r) \in DeepSleep,
           RankState'[r].lp_state \notin DeepSleep
    PROVE  PhyReady(r)'
<1>1. /\ phase = "rank" /\ phase' = "rank" /\ LpRank(r) /\ lpRank = r
      /\ UNCHANGED <<PhyLpState, trans, bankVars, wakeup, parity>>
    BY DEF UpdateLpRank, LpRank, At, Then, queVars
<1>2. /\ even_cycle /\ RankState'[r].pd_cnt = tXP /\ UpTime(r)' = tXP
      /\ lp_state(r) = "PDLP" => RankState'[r].lp_state = "PDX"
    BY <1>1, LpLeaves
<1>3. Wake(r)
    BY <1>1, <1>2, LpLeaves DEF NoSelfWake, DeepSleep
<1>4. HasTask(r) => Soon(r)'
    <2> SUFFICES ASSUME NEW t \in Tasks, On(t, r) PROVE Soon(r)'
        BY DEF HasTask
    <2>1. Unseen(t)' = Unseen(t) /\ On(t, r)'
        BY <1>1 DEF Unseen, On
    <2>2. Unseen(t) \in Nat /\ Unseen(t) <= tCMD_WAKEUP - 1
        BY <1>1, UnseenType DEF Early
    <2>3. Unseen(t)' + tPHYLPX <= UpTime(r)'
        BY <1>2, <2>1, <2>2 DEF WakeNums
    <2> QED
        BY <2>1, <2>3 DEF Soon
<1>5. HasTask(r) \/ (RefReason(r) /\ lp_state(r) = "PDLP")
      \/ (CloseReason(r) /\ ~EVERY_OTHER /\ lp_state(r) = "PDLP")
    <2>1. CASE rank_has_cmd[r]
        <3>1. has_cmd[r]
            BY <1>1, <2>1, Zenon DEF HasIs
        <3>2. deqCmdWakeupLp[r][1] > 0
            BY <3>1, Zenon DEF has_cmd
        <3>3. 1 \in 1 .. tCMD_WAKEUP /\ lp_state(r) # "IDLE"
            BY DEF WakeNums, DeepSleep
        <3> QED
            BY <3>2, <3>3 DEF PipeTrue, Seen, HasTask
    <2>2. CASE wakeup[r]
        <3>1. lp_state(r) = "PDLP"
            BY <2>2 DEF NotCalled, DeepSleep, SelfRefresh
        <3>2. Calling(r)
            <4>1. r <= r
                BY DEF Ranks
            <4> QED
                BY <1>1, <4>1 DEF Calling
        <3>3. Reason(r)
            BY <2>2, <3>1, <3>2 DEF WakeReason
        <3> QED
            BY <1>1, <1>2, <3>1, <3>3 DEF Reason, even_cycle
    <2> QED
        BY <1>3, <2>1, <2>2 DEF Wake, NotCalled
<1>6. Soon(r)' \/ Called(r)'
    BY <1>1, <1>2, <1>4, <1>5, ReasonsKept DEF Called, bankVars, lp_state
<1>7. PhyLpState.phylp_state = "PHYLPX" => PhyLpState.lp_cnt <= 1 + UpTime(r)'
    BY <1>2 DEF PhyWaking, WakeNums
<1>8. PhyLpState.phylp_state \in PhyStates
    BY PhyTypes
<1> QED
    BY <1>1, <1>6, <1>7, <1>8 DEF PhyReady, Asleep, PhyStates

(* The others only come nearer.                                            *)
LEMMA RankReady ==
    ASSUME WakeNums, TypeOK, NEW r \in Ranks, NEW s \in Ranks, UpdateLpRank(s),
           lp_state(r) \notin DeepSleep, PhyReady(r)
    PROVE  PhyReady(r)'
<1>1. /\ phase = "rank" /\ phase' = "rank" /\ LpRank(s)
      /\ UNCHANGED <<PhyLpState, trans, bankVars, wakeup>>
    BY DEF UpdateLpRank, LpRank, At, Then, queVars
<1>2. UpTime(r)' >= UpTime(r) /\ UpTime(r) \in Nat
    <2>1. CASE s = r
        BY <1>1, <2>1, RankUpTime, PhyTypes
    <2>2. CASE s # r
        <3>1. RankState'[r] = RankState[r]
            BY <1>1, <2>2, LpRankOthers
        <3> QED
            BY <3>1, PhyTypes DEF UpTime, lp_state
    <2> QED
        BY <2>1, <2>2
<1>3. UpTime(r)' \in Nat
    <2>1. RankState' \in RankStateType
        BY <1>1, LpRankType DEF TypeOK, BusType
    <2>2. RankState'[r].pd_cnt \in Nat
        BY <2>1 DEF RankStateType
    <2> QED
        BY <2>2 DEF UpTime, WakeNums
<1>4. Soon(r) => Soon(r)'
    <2> SUFFICES ASSUME NEW t \in Tasks, On(t, r), Unseen(t) + tPHYLPX <= UpTime(r) PROVE Soon(r)'
        BY DEF Soon
    <2>1. Unseen(t)' = Unseen(t) /\ On(t, r)'
        BY <1>1 DEF Unseen, On
    <2>2. Unseen(t)' + tPHYLPX <= UpTime(r)'
        BY <1>2, <1>3, <2>1, UnseenType DEF WakeNums
    <2> QED
        BY <2>1, <2>2 DEF Soon
<1>5. Called(r) => Called(r)'
    <2>1. Called(r) => RankState'[r] = RankState[r]
        <3>1. Called(r) => lp_state(r) = "PDX" /\ RankState[r].pd_cnt # 0
            BY DEF Called, WakeNums
        <3> QED
            BY <1>1, <3>1, LpLeaves, LpRankOthers
    <2> QED
        BY <1>1, <2>1, ReasonsKept DEF Called, bankVars, lp_state
<1>6. /\ PhyLpState.lp_cnt \in Nat
      /\ PhyLpState.lp_cnt <= 1 + UpTime(r) => PhyLpState.lp_cnt <= 1 + UpTime(r)'
    BY <1>2, <1>3, PhyTypes
<1> QED
    BY <1>1, <1>4, <1>5, <1>6 DEF PhyReady, Asleep

(* In a call of update_lp_state the PHY comes nearer, or is called, or the *)
(* transaction that will call it comes nearer.                             *)
LEMMA BeginReady ==
    ASSUME WakeNums, TypeOK, SleepInv, PhyWaking, NEW r \in Ranks, UpdateLpBegin,
           lp_state(r) \notin DeepSleep, PhyReady(r)
    PROVE  PhyReady(r)'
<1>1. /\ phase = "lp" /\ phase' = "rank" /\ trans' = trans /\ PhyLpState' = PhyLp(has_cmd)
    BY DEF UpdateLpBegin, LpBegin, At, Then, queVars
<1>2. /\ UpTime(r) \in Nat /\ UpTime(r)' \in Nat /\ UpTime(r) <= UpTime(r)' + 1
      /\ PhyLpState.lp_cnt \in Nat
    BY PhyTypes, BeginUpTime
<1>3. ~AllRanksLp
    BY DEF AllRanksLp, DeepSleep
<1> HIDE DEF AllRanksLp, PhyWakeup, UpTime
<1>4. CASE PhyLpState.phylp_state = "PHYLP_IDLE"
    BY <1>1, <1>3, <1>4 DEF PhyLp, PhyReady
<1>5. CASE PhyLpState.phylp_state = "PHYLPX"
    <2>1. PhyLpState.lp_cnt >= 1 /\ PhyLpState.lp_cnt <= 1 + UpTime(r)
        BY <1>5 DEF PhyWaking, PhyReady, Asleep
    <2>2. PhyLpState' = [phylp_state |-> IF PhyLpState.lp_cnt = 1 THEN "PHYLP_IDLE" ELSE "PHYLPX",
                         lp_cnt |-> PhyLpState.lp_cnt - 1]
        BY <1>1, <1>2, <1>5, <2>1 DEF PhyLp, Less1
    <2>3. PhyLpState.lp_cnt - 1 <= 1 + UpTime(r)'
        BY <1>2, <2>1
    <2> QED
        BY <2>2, <2>3 DEF PhyReady
<1>6. CASE Asleep
    <2>1. PhyWakeup(has_cmd) => PhyLpState' = [phylp_state |-> "PHYLPX", lp_cnt |-> tPHYLPX]
        BY <1>1, <1>6 DEF PhyLp, Asleep
    <2>2. PhyWakeup(has_cmd) \/ Asleep'
        BY <1>1, <1>6 DEF PhyLp, Asleep
    <2>3. PhyWakeup(has_cmd) /\ tPHYLPX <= 1 + UpTime(r)' => PhyReady(r)'
        BY <2>1 DEF PhyReady
    <2>4. CASE Soon(r)
        <3>1. PICK t \in Tasks : On(t, r) /\ Unseen(t) + tPHYLPX <= UpTime(r)
            BY <2>4 DEF Soon
        <3>2. trans[t].age \in Nat /\ Unseen(t) \in Nat
            BY UnseenType
        <3>3. tPHYLPX <= 1 + UpTime(r)'
            BY <1>2, <3>1, <3>2 DEF WakeNums
        <3>4. CASE trans[t].age >= tCMD_WAKEUP
            <4>1. 1 \in 1 .. tCMD_WAKEUP /\ tCMD_WAKEUP - 1 < trans[t].age
                BY <3>2, <3>4 DEF WakeNums
            <4>2. deqCmdWakeupLp[r][1] > 0
                BY <3>1, <4>1 DEF SleepInv, PipeFull
            <4>3. PhyWakeup(has_cmd)
                BY <4>2 DEF PhyWakeup, has_cmd
            <4> QED
                BY <2>3, <3>3, <4>3
        <3>5. CASE ~(trans[t].age >= tCMD_WAKEUP)
            <4>1. Unseen(t) = tCMD_WAKEUP - trans[t].age
                BY <1>1, <3>2, <3>5, UnseenType DEF Early, WakeNums
            <4>2. Unseen(t)' = tCMD_WAKEUP - trans[t].age - 1
                BY <1>1, <3>2, <3>5 DEF Unseen, Early, Larger, WakeNums
            <4>3. Unseen(t)' + tPHYLPX <= UpTime(r)'
                BY <1>2, <3>1, <3>2, <4>1, <4>2 DEF WakeNums
            <4>4. Soon(r)'
                BY <1>1, <3>1, <4>3 DEF Soon, On
            <4> QED
                BY <2>2, <2>3, <3>3, <4>4 DEF PhyReady
        <3> QED
            BY <3>4, <3>5
    <2>5. CASE Called(r)
        <3>1. lp_state(r) = "PDX" /\ RankState[r].pd_cnt = tXP /\ wakeup[r]
            BY <1>1, <2>5 DEF Called
        <3>2. PhyWakeup(has_cmd) /\ UpTime(r) = tXP
            BY <3>1 DEF PhyWakeup, UpTime
        <3> QED
            BY <1>2, <2>3, <3>2 DEF WakeNums
    <2> QED
        BY <1>6, <2>4, <2>5 DEF PhyReady, Asleep
<1> QED
    BY <1>4, <1>5, <1>6 DEF PhyReady

(* While the PHY sleeps nothing is on its way to the ranks.                *)
LEMMA AsleepQuiet ==
    ASSUME ArbFree, FinishedInv, QueuePhy, PhyAwake, Asleep
    PROVE  /\ arb_enable /\ Finished = {}
           /\ phase = "sched" => CmdQueue = {}
    BY DEF ArbFree, FinishedInv, QueuePhy, PhyAwake, Asleep

LEMMA FreshReasons ==
    ASSUME TypeOK, StateFresh, NEW r \in Ranks
    PROVE  /\ RefReason(r) => RefReason(r)'
           /\ CloseReason(r) => CloseReason(r)'
<1>1. bankStates[r] \in BankType /\ cmd_cycle \in Nat
    BY Constants DEF TypeOK, BanksType
<1>2. /\ UNCHANGED <<trans, refresh_cnt>>
      /\ bankStates'[r] = [bankStates[r] EXCEPT !.cnt = Less1(@), !.state = IF Over(r) THEN "Idle" ELSE @]
      /\ bankStates[r].state # "Refreshing" => refreshALL'[r] = refreshALL[r]
    BY DEF StateFresh, queVars
<1>3. /\ bankStates'[r].state = IF Over(r) THEN "Idle" ELSE bankStates[r].state
      /\ bankStates'[r].cnt = Less1(bankStates[r].cnt)
      /\ bankStates'[r].delay = bankStates[r].delay
      /\ bankStates[r].cnt \in Nat
    BY <1>1, <1>2 DEF BankType
<1>4. \A n \in Nat : bankStates[r].cnt <= n => bankStates'[r].cnt <= n
    BY <1>3 DEF Less1
<1>5. bankStates[r].cnt <= 1 => bankStates'[r].cnt <= 1
    BY <1>4
<1>6. BankReady(r) => BankReady(r)'
    BY <1>1, <1>3, <1>4 DEF BankReady
<1>7. bankStates[r].state = "RowActive" => bankStates'[r].state = "RowActive"
    BY <1>3 DEF Over
<1>8. bankStates[r].state # "Refreshing" => bankStates'[r].state # "Refreshing"
    BY <1>3
<1>9. Hold(r) <=> Hold(r)'
    BY <1>2, FreshBank DEF Hold, On
<1> HIDE DEF Hold, BankReady
<1>10. RefReason(r) => RefReason(r)'
    BY <1>2, <1>5, <1>6, <1>7, <1>8, <1>9 DEF RefReason
<1>11. CloseReason(r) => CloseReason(r)'
    BY <1>2, <1>3, <1>5, <1>7 DEF CloseReason, TimedOut, Unused, On
<1> QED
    BY <1>10, <1>11

(* Which actions are taken between two calls of update_lp_state.           *)
LEMMA NextSleeping ==
    [Next]_vars =>
        \/ UpdateLpBegin
        \/ \E r \in Ranks : UpdateLpRank(r)
        \/ \E t \in Tasks, r \in Ranks : addTransaction(t, r)
        \/ UpdateLpEnd \/ StateFresh
        \/ \E c \in CmdQueue : Schedule(c)
        \/ \E t \in Tasks : Retire(t)
        \/ PageTimeoutPolicy \/ Refresh \/ EndCycle
        \/ /\ UNCHANGED <<RankState, wakeup, trans, bankVars>>
           /\ phase' \in {"ref", "data", "inform", "add", "lp"}
                 <=> phase \in {"ref", "data", "inform", "add", "lp"}
           /\ phase' \in {"data", "inform", "add", "lp"} <=> phase \in {"data", "inform", "add", "lp"}
    BY DEF Next, vars, At, Then, lpVars, queVars, bankVars, Inform, NoTransaction, SendPacket,
        SkipPacket, Exec, NothingToSchedule, NothingToRetire, QuePipeline

(* A rank is called again for what it was woken up for.                    *)
LEMMA CalledStep ==
    ASSUME TypeOK, ServedInv, QueuePhy, PhyAwake, Asleep, [Next]_vars, NEW r \in Ranks, Called(r),
           UNCHANGED RankState, ~UpdateLpBegin, \A s \in Ranks : ~UpdateLpRank(s)
    PROVE  Called(r)'
<1>a. /\ arb_enable /\ Finished = {}
      /\ phase = "sched" => CmdQueue = {}
    BY AsleepQuiet DEF ServedInv
<1>b. lp_state(r) = "PDX" /\ RankState[r].pd_cnt = tXP /\ lp_state(r)' = "PDX"
      /\ RankState'[r].pd_cnt = tXP
    BY DEF Called, lp_state
<1>1. ASSUME NEW t \in Tasks, NEW s \in Ranks, addTransaction(t, s) PROVE Called(r)'
    BY <1>1, <1>b DEF addTransaction, lpVars, At, Then, Called
<1>2. CASE UpdateLpEnd
    <2>1. /\ UNCHANGED <<trans, bankVars>> /\ phase = "rank" /\ phase' = "send"
        BY <1>2 DEF UpdateLpEnd, queVars, At, Then
    <2> QED
        BY <1>b, <2>1, ReasonsKept DEF Called, bankVars
<1>3. CASE StateFresh
    <2>1. phase = "fresh" /\ phase' = "sched"
        BY <1>3 DEF StateFresh, At, Then
    <2> QED
        BY <1>3, <1>b, <2>1, FreshReasons DEF Called
<1>4. ASSUME NEW c \in CmdQueue, Schedule(c) PROVE Called(r)'
    BY <1>4, <1>a DEF Schedule, At
<1>5. ASSUME NEW t \in Tasks, Retire(t) PROVE Called(r)'
    BY <1>5, <1>a DEF Retire
<1>6. CASE PageTimeoutPolicy
    <2>1. phase = "ptp" /\ phase' = "ref" /\ wakeup'[r] = (wakeup[r] \/ Close(r))
        BY <1>6 DEF PageTimeoutPolicy, At, Then, Woken
    <2>2. CASE CloseReason(r) /\ ~EVERY_OTHER
        <3>1. Close(r)
            BY <1>a, <2>2 DEF Close, CloseReason, even_cycle
        <3> QED
            BY <1>b, <2>1, <3>1 DEF Called
    <2>3. CASE RefReason(r)
        <3>1. UNCHANGED <<trans, refresh_cnt, refreshALL>>
            BY <1>6 DEF PageTimeoutPolicy, queVars
        <3>2. /\ bankStates'[r].cnt = bankStates[r].cnt /\ bankStates'[r].state = bankStates[r].state
              /\ \A s \in Ranks : bankStates'[s].act_executing <=> bankStates[s].act_executing
            <4>1. bankStates[r] \in BankType
                BY DEF TypeOK, BanksType
            <4>2. \E n : bankStates'[r] = [bankStates[r] EXCEPT !.delay = n]
                BY <1>6 DEF PageTimeoutPolicy
            <4>3. bankStates'[r].cnt = bankStates[r].cnt
                BY <4>1, <4>2 DEF BankType
            <4> QED
                BY <1>6, <4>3, TimeoutBank
        <3>3. Hold(r)' <=> Hold(r)
            BY <3>1, <3>2 DEF Hold, On
        <3>4. RefReason(r)'
            BY <2>3, <3>1, <3>2, <3>3 DEF RefReason, BankReady
        <3> QED
            BY <1>b, <2>1, <3>4 DEF Called
    <2> QED
        BY <2>1, <2>2, <2>3 DEF Called
<1>7. CASE Refresh
    <2>1. phase = "ref" /\ phase' = "data"
        BY <1>7 DEF Refresh, At, Then
    <2>2. wakeup[r] \/ RefReason(r)
        BY <2>1 DEF Called
    <2>3. wakeup'[r]
        <3>1. CASE ~AREF_EN
            BY <1>7, <2>2, <3>1 DEF Refresh, RefReason
        <3>2. CASE AREF_EN
            <4>1. PICK due \in SUBSET CanBeDue : RefreshWith(due)
                BY <1>7, <3>2 DEF Refresh
            <4> DEFINE wants == {s \in Ranks : WantsPre(s, due) \/ WantsRef(s, due)}
            <4>2. wakeup' = Woken(wants)
                BY <4>1 DEF RefreshWith
            <4>3. RefReason(r) => r \in wants
                <5>1. due \in SUBSET Ranks /\ lp_state(r) \notin SelfRefresh
                    BY <1>b DEF CanBeDue, SelfRefresh
                <5> QED
                    BY <1>a, <5>1, WantsAre
            <4> HIDE DEF wants
            <4> QED
                BY <2>2, <4>2, <4>3 DEF Woken
        <3> QED
            BY <3>1, <3>2
    <2> QED
        BY <1>b, <2>1, <2>3 DEF Called
<1>8. CASE EndCycle
    BY <1>8, <1>b DEF EndCycle, lpVars, At, Then, Called
<1>9. CASE /\ UNCHANGED <<RankState, wakeup, trans, bankVars>>
           /\ phase' \in {"ref", "data", "inform", "add", "lp"}
                 <=> phase \in {"ref", "data", "inform", "add", "lp"}
           /\ phase' \in {"data", "inform", "add", "lp"} <=> phase \in {"data", "inform", "add", "lp"}
    BY <1>9, <1>b, ReasonsKept DEF Called, bankVars
<1> QED
    BY <1>1, <1>2, <1>3, <1>4, <1>5, <1>6, <1>7, <1>8, <1>9, NextSleeping

LEMMA PhyComesStep ==
    ASSUME WakeNums, TypeOK, SleepInv, ServedInv, PhyWaking, HasIs, PipeTrue, NotCalled, WakeReason,
           PhyComes, QueuePhy, PhyAwake, NoSelfWake, [Next]_vars
    PROVE  PhyComes'
<1> SUFFICES ASSUME NEW r \in Ranks, RankState'[r].lp_state \notin DeepSleep PROVE PhyReady(r)'
    BY DEF PhyComes, lp_state
<1>a. lp_state(r) \notin DeepSleep => PhyReady(r)
    BY DEF PhyComes
<1>1. CASE UpdateLpBegin
    BY <1>1, <1>a, BeginKeeps, BeginReady
<1>2. ASSUME NEW s \in Ranks, UpdateLpRank(s) PROVE PhyReady(r)'
    <2>1. CASE lp_state(r) \notin DeepSleep
        BY <1>2, <1>a, <2>1, RankReady
    <2>2. CASE lp_state(r) \in DeepSleep
        <3>1. s = r
            BY <1>2, <2>2, LpRankOthers DEF UpdateLpRank, lp_state
        <3> QED
            BY <1>2, <2>2, <3>1, LeavesReady
    <2> QED
        BY <2>1, <2>2
<1>3. CASE UNCHANGED <<PhyLpState, RankState>> /\ ~UpdateLpBegin /\ \A s \in Ranks : ~UpdateLpRank(s)
    <2>1. PhyReady(r) /\ (UpTime(r)' = UpTime(r)) /\ (Asleep' <=> Asleep)
        BY <1>3, <1>a DEF lp_state, UpTime, Asleep
    <2>2. CASE ~Asleep
        BY <1>3, <2>1, <2>2 DEF PhyReady
    <2>3. CASE Asleep /\ Called(r)
        BY <1>3, <2>1, <2>3, CalledStep DEF PhyReady
    <2>4. CASE Asleep /\ Soon(r)
        <3>1. PICK t \in Tasks : On(t, r) /\ Unseen(t) + tPHYLPX <= UpTime(r)
            BY <2>4 DEF Soon
        <3>2. On(t, r)' /\ Unseen(t)' = Unseen(t)
            <4>1. CASE EndCycle
                <5>1. ~Early(phase) /\ Early(phase')
                    BY <4>1 DEF EndCycle, At, Then, Early
                <5>2. On(t, r)'
                    BY <3>1, <4>1, ClockTrans DEF On
                <5>3. trans[t] \in TransType /\ trans[t].age \in Nat /\ trans[t].age <= AgeMax
                      /\ AgeMax = tCMD2SCH + 1
                    BY DEF TypeOK, QueueType, TransType, AgeMax, WakeNums
                <5>4. trans'[t].age = IF trans[t].age < AgeMax THEN trans[t].age + 1 ELSE trans[t].age
                    <6>1. trans'[t] = [trans[t] EXCEPT !.age = IF trans[t].on /\ @ < AgeMax
                                                                THEN @ + 1 ELSE @]
                        BY <4>1 DEF EndCycle
                    <6> QED
                        BY <3>1, <5>3, <6>1 DEF On, TransType
                <5>5. Unseen(t)' = Unseen(t)
                    <6>1. /\ Unseen(t) = Larger(0, tCMD_WAKEUP - trans[t].age - 1)
                          /\ Unseen(t)' = Larger(0, tCMD_WAKEUP - trans'[t].age - 0)
                        BY <5>1 DEF Unseen
                    <6> QED
                        BY <5>3, <5>4, <6>1 DEF Larger, WakeNums
                <5> QED
                    BY <5>2, <5>5
            <4>2. CASE ~EndCycle
                <5>1. \A u \in Tasks : ~Retire(u)
                    BY <2>4, AsleepQuiet DEF ServedInv, Retire
                <5>2. Early(phase') <=> Early(phase)
                    BY <1>3, <4>2, NextPhy
                <5>3. On(t, r)' /\ trans'[t].age = trans[t].age
                    BY <3>1, <4>2, <5>1, SeenKept
                <5> QED
                    BY <5>2, <5>3 DEF Unseen
            <4> QED
                BY <4>1, <4>2
        <3>3. Soon(r)'
            BY <2>1, <3>1, <3>2 DEF Soon
        <3> QED
            BY <2>1, <2>4, <3>3 DEF PhyReady
    <2> QED
        BY <2>1, <2>2, <2>3, <2>4 DEF PhyReady, Asleep
<1> QED
    BY <1>1, <1>2, <1>3, NextLp, PhyKept

(* While a rank is idle the PHY is awake, or will be after the next call.  *)
LEMMA IdleReady ==
    ASSUME WakeNums, TypeOK, PhyComes, NEW r \in Ranks, lp_state(r) = "IDLE"
    PROVE  \/ PhyLpState.phylp_state = "PHYLP_IDLE"
           \/ PhyLpState.phylp_state = "PHYLPX" /\ PhyLpState.lp_cnt <= 1
<1>1. PhyReady(r) /\ UpTime(r) = 0 /\ ~Called(r)
    BY DEF PhyComes, UpTime, Called, DeepSleep
<1>2. ~Soon(r)
    <2>1. \A t \in Tasks : ~(Unseen(t) + tPHYLPX <= 0)
        BY UnseenType DEF WakeNums
    <2> QED
        BY <1>1, <2>1 DEF Soon
<1> QED
    BY <1>1, <1>2 DEF PhyReady

LEMMA BeginAwake ==
    ASSUME TypeOK, PhyWaking, UpdateLpBegin, ~AllRanksLp,
           \/ PhyLpState.phylp_state = "PHYLP_IDLE"
           \/ PhyLpState.phylp_state = "PHYLPX" /\ PhyLpState.lp_cnt <= 1
    PROVE  PhyLpState'.phylp_state = "PHYLP_IDLE"
<1>1. PhyLpState' = PhyLp(has_cmd) /\ PhyLpState.lp_cnt \in Nat
    BY PhyTypes DEF UpdateLpBegin, LpBegin
<1>2. PhyLpState.phylp_state = "PHYLPX" => PhyLpState.lp_cnt = 1
    BY <1>1 DEF PhyWaking
<1> HIDE DEF AllRanksLp
<1> QED
    BY <1>1, <1>2 DEF PhyLp

LEMMA QueuePhyStep ==
    ASSUME WakeNums, TypeOK, SleepInv, PhyWaking, PhyComes, QueuePhy, [Next]_vars
    PROVE  QueuePhy'
<1> SUFFICES ASSUME CmdQueue' # {} PROVE QueuePhy'
    BY DEF QueuePhy
<1>1. CASE \E c \in CmdQueue : Schedule(c)
    BY <1>1 DEF Schedule
<1>2. CASE UpdateLpBegin
    <2>1. PICK c \in CmdQueue : TRUE
        BY <1>2 DEF UpdateLpBegin, ctlVars
    <2>2. c.rank \in Ranks /\ lp_state(c.rank) = "IDLE"
        BY CmdSetOf DEF SleepInv, NoCmdInLpState
    <2>3. ~AllRanksLp
        BY <2>2 DEF AllRanksLp
    <2> QED
        BY <1>2, <2>2, <2>3, IdleReady, BeginAwake DEF QueuePhy
<1>3. CASE QuePipeline \/ PageTimeoutPolicy \/ Refresh
    <2>1. /\ UNCHANGED <<RankState, PhyLpState>> /\ phase' \in {"ptp", "ref", "data"}
        BY <1>3 DEF QuePipeline, PageTimeoutPolicy, Refresh, lpVars, Then
    <2>2. PICK c \in CmdQueue' : c \in CmdSet
        <3>1. TypeOK'
            BY TypeStep
        <3> QED
            BY <3>1 DEF TypeOK, RegisterType
    <2>3. c.rank \in Ranks /\ RankState'[c.rank].lp_state = "IDLE"
        BY <2>2, NoCmdStep DEF SleepInv, CmdSet, NoCmdInLpState, lp_state
    <2>4. \/ PhyLpState.phylp_state = "PHYLP_IDLE"
          \/ PhyLpState.phylp_state = "PHYLPX" /\ PhyLpState.lp_cnt <= 1
        BY <2>1, <2>3, IdleReady DEF lp_state
    <2> QED
        BY <2>1, <2>4 DEF QueuePhy
<1>4. CASE UNCHANGED <<CmdQueue, PhyLpState>>
           /\ (phase' \in {"rank", "send", "fresh", "sched"} => phase \in {"rank", "send", "fresh", "sched"})
    BY <1>4 DEF QueuePhy
<1> QED
    BY <1>1, <1>2, <1>3, <1>4, NextCmd, NextRegister, PhyKept

LEMMA PhyAwakeStep ==
    ASSUME TypeOK, PendInv, PhyWaking, QueuePhy, PhyAwake, [Next]_vars
    PROVE  PhyAwake'
<1>1. CASE UpdateLpBegin
    <2> SUFFICES ASSUME exec_valid PROVE PhyLpState'.phylp_state = "PHYLP_IDLE"
        BY <1>1 DEF PhyAwake, UpdateLpBegin, ctlVars
    <2>1. command.rank \in Ranks /\ lp_state(command.rank) \in {"IDLE", "PDE"}
        BY PendTypes DEF PendInv
    <2>2. ~AllRanksLp
        BY <2>1 DEF AllRanksLp
    <2> QED
        BY <1>1, <2>2, BeginAwake DEF PhyAwake
<1>2. ASSUME NEW c \in CmdQueue, Schedule(c) PROVE PhyAwake'
    <2>1. phase = "sched" /\ PhyLpState' = PhyLpState
        BY <1>2 DEF Schedule, At, lpVars
    <2> QED
        BY <2>1 DEF QueuePhy, PhyAwake
<1>3. CASE UNCHANGED PhyLpState /\ (exec_valid' => exec_valid)
    BY <1>3 DEF PhyAwake
<1> QED
    BY <1>1, <1>2, <1>3, NextRegister, PhyKept
-----------------------------------------------------------------------------
WakeInv == /\ PathInv /\ PendInv /\ ServedInv /\ PhyWaking
           /\ HasIs /\ PipeTrue /\ NotCalled /\ WakeReason
           /\ PhyComes /\ QueuePhy /\ PhyAwake

LEMMA WakeInit == ASSUME WakeNums PROVE Init => WakeInv
<1> SUFFICES ASSUME Init PROVE WakeInv
    OBVIOUS
<1>1. PathInv /\ PendInv /\ ServedInv
    BY PathInit, FlightInit, ServedInit
<1>2. PhyWaking /\ PhyComes /\ QueuePhy /\ PhyAwake
    BY DEF Init, LpInit, PhyWaking, PhyComes, PhyReady, QueuePhy, PhyAwake
<1>3. HasIs /\ NotCalled /\ WakeReason
    BY DEF Init, LpInit, HasIs, NotCalled, WakeReason, lp_state, PdStates, SelfRefresh
<1>4. PipeTrue
    <2>1. \A r \in Ranks, i \in 1 .. tCMD_WAKEUP : deqCmdWakeupLp[r][i] = 0
        BY DEF Init
    <2>2. ~(0 > 0)
        OBVIOUS
    <2> QED
        BY <2>1, <2>2, Zenon DEF PipeTrue
<1> QED
    BY <1>1, <1>2, <1>3, <1>4 DEF WakeInv

LEMMA WakeStep ==
    ASSUME TimingsCoverBus, WakeNums, InformRanks = {}, WakeInv, [Next]_vars, NoSelfWake
    PROVE  WakeInv'
<1>a. /\ PathInv /\ PendInv /\ ServedInv /\ PhyWaking /\ HasIs /\ PipeTrue /\ NotCalled /\ WakeReason
      /\ PhyComes /\ QueuePhy /\ PhyAwake
    BY DEF WakeInv
<1>b. /\ TypeOK /\ RegisterInv /\ SleepInv /\ BankInv /\ AwakeInv /\ Sleeping
      /\ ArbFree /\ RefreshingIs /\ FinishedInv
    BY <1>a DEF PathInv, ServedInv, AwakeInv
<1>1. PathInv' /\ PendInv' /\ ServedInv'
    BY <1>a, <1>b, PathStep, PendStep, ServedStep
<1>2. PhyWaking' /\ HasIs'
    BY <1>a, <1>b, PhyWakingStep, HasIsStep DEF WakeNums
<1>3. PipeTrue' /\ NotCalled' /\ WakeReason'
    BY <1>a, <1>b, PipeTrueStep, NotCalledStep, WakeReasonStep
<1>4. PhyComes' /\ QueuePhy' /\ PhyAwake'
    BY <1>a, <1>b, PhyComesStep, QueuePhyStep, PhyAwakeStep
<1> QED
    BY <1>1, <1>2, <1>3, <1>4 DEF WakeInv

(* While a command waits to leave the PHY is awake, unless reads are       *)
(* announced or a rank leaves power-down to refresh itself.                *)
THEOREM PhyAwakeHolds ==
    ASSUME TimingsCoverBus, WakeTimings, InformRanks = {}
    PROVE  Spec /\ [][NoSelfWake]_vars => []PhyAwake
<1>1. WakeNums
    BY WakeNumbers
<1>2. Init => WakeInv
    BY <1>1, WakeInit
<1>3. WakeInv /\ [Next]_vars /\ [NoSelfWake]_vars => WakeInv'
    <2>1. UNCHANGED vars => NoSelfWake
        BY DEF vars, lpVars, NoSelfWake, lp_state
    <2> QED
        BY <1>1, <2>1, WakeStep
<1>4. WakeInv => PhyAwake
    BY DEF WakeInv
<1> QED
    BY <1>2, <1>3, <1>4, PTL DEF Spec

(* Without automatic self-refresh no rank does.                            *)
LEMMA NoAsref ==
    ASSUME TypeOK, ~ASREF_ENABLE, [Next]_vars
    PROVE  NoSelfWake
<1> SUFFICES ASSUME NEW r \in Ranks, lp_state(r) = "PDLP", RankState'[r].lp_state = "PDX" PROVE Wake(r)
    BY DEF NoSelfWake
<1>1. ~UpdateLpBegin /\ RankState' # RankState
    BY BeginKeeps DEF lp_state
<1>2. PICK s \in Ranks : UpdateLpRank(s)
    BY <1>1, NextLp
<1>3. LpRank(r)
    BY <1>2, LpRankOthers DEF UpdateLpRank, lp_state
<1>4. LpPdlp(r)
    BY <1>3 DEF LpRank, LpIdle, LpPde, LpPd, LpPdx, LpAsrefe, LpAsref, LpAsrefx, LpSrpde, LpSrpd,
                LpSrpdlp, LpSrpdx
<1> QED
    BY <1>1, <1>4 DEF LpPdlp, asref_timing_met, Stay

(* So without automatic self-refresh the PHY is awake in every behaviour.  *)
COROLLARY PhyAwakeWithoutAsref ==
    ASSUME TimingsCoverBus, WakeTimings, InformRanks = {}, ~ASREF_ENABLE
    PROVE  Spec => []PhyAwake
<1>1. TypeOK /\ [Next]_vars => [NoSelfWake]_vars
    BY NoAsref
<1>2. Spec => []TypeOK
    BY TypeCorrect
<1>3. Spec /\ [][NoSelfWake]_vars => []PhyAwake
    BY PhyAwakeHolds
<1> QED
    BY <1>1, <1>2, <1>3, PTL DEF Spec
=============================================================================
