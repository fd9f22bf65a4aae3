------------------------------ MODULE RwGroup ------------------------------
(***************************************************************************)
(* Read and write groups.  A controller prefers one direction at a time    *)
(* (update_rwgroup_state), and several channels may be made to prefer the  *)
(* same one (update_rw_sync_group of LPMemorySystemTop).                   *)
(*                                                                         *)
(* A decision takes effect STAGES cycles after it was made.  Meanwhile and *)
(* afterwards three handlers act on counters that two others change: the   *)
(* gate in lc holds commands of the other direction back, but for the first*)
(* few (in_write_group says whether a command of the new direction has been*)
(* sent yet).                                                              *)
(*                                                                         *)
(* One cycle is the sequence of phases add, sync, and for each channel in  *)
(* turn sched, lc, group.  A transaction is one or two column commands,    *)
(* after the commands that open its row, unless that is open; a row stays  *)
(* open.  Whether the timing of a command that passes the gate is met, the *)
(* use of the bus (availability) and the row hits (stat_quc_rhit_high) are *)
(* open.  PRECHARGE, which the gate lets pass, the switches for reads of   *)
(* high qos, LQOS_BP_EN, bp_by_tout, HBM and GRP_RANK_EN are left out.     *)
(***************************************************************************)
EXTENDS Integers, FiniteSets, Sequences, SequencesExt, FiniteSetsExt

CONSTANTS
    Configs,
    Slots,              \* places of a transaction queue
    Watched,            \* one of them, in the first channel: they are all alike
    STAGES,             \* 8: entries of rw_group_state
    WIDTH,              \* 256: values of an uint8_t
    ENGRP_LEVEL, EXGRP_LEVEL,
    CMD_LEVELL, CMD_LEVELH,     \* CMD_RLEVELL, CMD_WLEVELL, ... by direction
    SERIAL_LEVELL, SERIAL_LEVELH,
    GRPCHG_TH,          \* RW_GRPCHG_W2R_TH for "READ", RW_GRPCHG_R2W_TH for "WRITE"
    RLEVEL_R2W

Dirs    == {"READ", "WRITE"}
Groups  == Dirs \cup {"NO"}
other(d) == IF d = "READ" THEN "WRITE" ELSE "READ"
Begins  == {"blocked", "act", "col"}
(* "act2" when ACTIVATE1 has been sent for it (act_executing), "rest" when *)
(* some but not all of its column commands have (issue_size).              *)
States  == Begins \cup {"act2", "rest"}
Config  == [sync : {"off", "master", "any", "pool"},    \* DMC_RW_SYNC_EN, _MODE 0, 1, 2
            chans : Nat, v580 : BOOLEAN,                \* NUM_CHANS, DMC_V580 or DMC_V590
            rhit : SUBSET BOOLEAN,                      \* what HARDWARE_RHIT_EN may find,
           quiet : SUBSET BOOLEAN,                     \* and RWGRP_AUTO_BW
            tout : BOOLEAN, trans : BOOLEAN,            \* timeouts; RWGRP_TRANS_BY_TOUT
            begins : SUBSET Begins,                     \* how transactions enter the queue
            halves : BOOLEAN,                           \* LPDDR: ACTIVATE1 and ACTIVATE2
            longer : SUBSET BOOLEAN,                    \* data_size of two column commands
           places : Seq(SUBSET Slots)]                 \* DMC_QUEUE_DEPTH of each channel

ASSUME RwGroupAssumption ==
    /\ Configs \subseteq Config
    /\ \A c \in Configs : /\ c.chans > 0 /\ Len(c.places) = c.chans
                          /\ {} \notin {c.rhit, c.quiet} /\ FALSE \in c.longer
    /\ Watched \in Slots /\ {STAGES, WIDTH} \subseteq Nat \ {0} /\ {ENGRP_LEVEL, EXGRP_LEVEL, RLEVEL_R2W} \subseteq Nat
    /\ \A f \in {CMD_LEVELL, CMD_LEVELH, SERIAL_LEVELL, SERIAL_LEVELH, GRPCHG_TH} :
          f \in [Dirs -> Nat]

VARIABLES
    config, phase, turn,    \* the channel that is updated
    transactionQueue,       \* of each channel: what is in each place
    CmdQueue,               \* of each channel: places that have passed the gate
    schedulable,            \* rw_schedulable_*_cnt # 0: directions
    rw_group_state, in_write_group,
    serial_cmd_cnt, rwgrp_ch_cmd_cnt,
    sch_tout,               \* sch_tout_cmd, sch_tout_type: a direction or none
    rw_sync_in_write_group, rw_sync_ch_cmd_cnt,     \* of each controller
    rw_sync_group,          \* the direction given to all of them
    rw_sync_group_state, rw_sync_serial_cmd_cnt,    \* of LPMemorySystemTop
    retired,                \* read_, write_retired_delta
    timed_out,              \* timeout_read, timeout_write: directions
    idle                    \* history: cycles the gate has let nothing pass

queVars   == <<transactionQueue, CmdQueue, schedulable>>
groupVars == <<rw_group_state, in_write_group, serial_cmd_cnt, rwgrp_ch_cmd_cnt, sch_tout>>
syncVars  == <<rw_sync_in_write_group, rw_sync_ch_cmd_cnt, rw_sync_group>>
topVars   == <<rw_sync_group_state, rw_sync_serial_cmd_cnt, retired, timed_out>>
vars == <<config, phase, turn, queVars, groupVars, syncVars, topVars, idle>>

Chans == 1..config.chans
Synced == config.sync # "off"
(* Whose own group is looked at (GetLocalRwGroup).  The others go on, and  *)
(* so do in_write_group and its count under Synced, but nothing reads them.*)
Leads(c) == config.sync \in {"off", "any"} \/ (config.sync = "master" /\ c = 1)
Empty == [type |-> "none", state |-> "blocked", timeout |-> FALSE]
Place == [type : Dirs, state : States, timeout : BOOLEAN] \cup {Empty}

Init ==
    /\ config \in Configs /\ phase = "add" /\ turn = 1
    /\ transactionQueue = [c \in Chans |-> [s \in Slots |-> Empty]]
    /\ CmdQueue = [c \in Chans |-> {}] /\ schedulable = [c \in Chans |-> {}]
    /\ rw_group_state = [c \in Chans |-> [k \in 1..STAGES |-> "NO"]]
    /\ in_write_group = [c \in Chans |-> FALSE]
    /\ serial_cmd_cnt = [c \in Chans |-> 0] /\ rwgrp_ch_cmd_cnt = [c \in Chans |-> 0]
    /\ sch_tout = [c \in Chans |-> "none"]
    /\ rw_sync_in_write_group = [c \in Chans |-> FALSE]
    /\ rw_sync_ch_cmd_cnt = [c \in Chans |-> 0]
    /\ rw_sync_group = "NO"
    /\ rw_sync_group_state = [k \in 1..STAGES |-> "NO"] /\ rw_sync_serial_cmd_cnt = 0
    /\ retired = [d \in Dirs |-> 0] /\ timed_out = {}
    /\ idle = [c \in Chans |-> 0]
-----------------------------------------------------------------------------
At(p, c) == phase = p /\ turn = c
Then(p)  == phase' = p /\ UNCHANGED turn
trans(c, s) == transactionQueue[c][s]
Of(c, d) == {s \in Slots : trans(c, s).type = d}        \* que_read_cnt, que_write_cnt
Count(c, d) == Cardinality(Of(c, d))
Ready(c, s) == trans(c, s).type # "none" /\ trans(c, s).state # "blocked"
Next8(n) == (n + 1) % WIDTH                             \* ++ of an uint8_t

(***************************************************************************)
(* addTransaction, and what makes a transaction schedulable (its data have *)
(* come, its address conflict is over) or lets its time run out.           *)
(***************************************************************************)
AddTransaction(c, s, d, b) ==
    /\ phase = "add" /\ trans(c, s) = Empty /\ s \in config.places[c] /\ b \in config.begins
    /\ transactionQueue' = [transactionQueue EXCEPT ![c][s] =
                               [type |-> d, state |-> b, timeout |-> FALSE]]
    /\ UNCHANGED <<config, phase, turn, CmdQueue, schedulable, groupVars, syncVars, topVars, idle>>

Unblock(c, s, b) ==
    /\ phase = "add" /\ trans(c, s).type # "none" /\ trans(c, s).state = "blocked"
    /\ b \in {"act", "col"}
    /\ transactionQueue' = [transactionQueue EXCEPT ![c][s].state = b]
    /\ UNCHANGED <<config, phase, turn, CmdQueue, schedulable, groupVars, syncVars, topVars, idle>>

TimeOut(c, s) ==
    /\ phase = "add" /\ config.tout /\ Ready(c, s) /\ ~trans(c, s).timeout
    /\ transactionQueue' = [transactionQueue EXCEPT ![c][s].timeout = TRUE]
    /\ UNCHANGED <<config, phase, turn, CmdQueue, schedulable, groupVars, syncVars, topVars, idle>>
-----------------------------------------------------------------------------
(***************************************************************************)
(* What makes a group change: `q' is what one controller, or all of them   *)
(* together, have in the queues (n of them, with their sum compared to n   *)
(* times the level).  A group that has served SERIAL_LEVELH commands, or   *)
(* SERIAL_LEVELL of them and the queue is in favour, or that has none left,*)
(* gives way to the other if that has one.                                 *)
(***************************************************************************)
Favours(d, q, n, rhit) ==
    IF d = "READ"
    THEN IF config.v580
         THEN IF rhit THEN q.cnt["READ"] < CMD_LEVELL["READ"] * n
              ELSE q.cnt["WRITE"] >= CMD_LEVELH["WRITE"] * n /\ q.cnt["READ"] <= RLEVEL_R2W * n
         ELSE q.cnt["WRITE"] >= CMD_LEVELH["WRITE"] * n
    ELSE IF config.v580 /\ rhit THEN q.cnt["READ"] > CMD_LEVELH["READ"] * n
         ELSE q.cnt["WRITE"] <= CMD_LEVELL["WRITE"] * n

(* Seeded mistake: no limit on the commands of a group.                    *)
mut_GivesWay(d, q, n, rhit) ==
    /\ (q.serial >= SERIAL_LEVELL[d] * n /\ Favours(d, q, n, rhit)) \/ d \notin q.has
    /\ other(d) \in q.has

GivesWay(d, q, n, rhit) ==
    /\ \/ q.serial >= SERIAL_LEVELL[d] * n /\ Favours(d, q, n, rhit)
       \/ q.serial >= SERIAL_LEVELH[d] * n
       \/ d \notin q.has
    /\ other(d) \in q.has

Size(q) == q.cnt["READ"] + q.cnt["WRITE"]
(* The next group after d: quiet is availability <= RWGRP_AUTO_BW.         *)
NextGroup(d, q, n, quiet, rhit) ==
    IF d = "NO"
    THEN IF Size(q) < ENGRP_LEVEL * n THEN "NO"
         ELSE IF q.cnt["WRITE"] >= CMD_LEVELH["WRITE"] * n \/ "READ" \notin q.has THEN "WRITE"
         ELSE "READ"
    ELSE IF Size(q) < EXGRP_LEVEL * n /\ quiet THEN "NO"
    ELSE IF other(d) \in q.tout \/ GivesWay(d, q, n, rhit) THEN other(d)
    ELSE d

Shifted(state, g) == Append(Tail(state), g)
-----------------------------------------------------------------------------
(***************************************************************************)
(* update_rw_sync_group.  The pool has no use for its own in_write_group   *)
(* and its count of commands in the other direction: nothing reads them.   *)
(***************************************************************************)
Sum(f) == FoldFunction(+, 0, f)
(* Above the last level one count is like another.                         *)
Limit == config.chans * Max({SERIAL_LEVELL[d] : d \in Dirs} \cup {SERIAL_LEVELH[d] : d \in Dirs})
Serial ==
    LET n == rw_sync_serial_cmd_cnt + retired[Head(rw_sync_group_state)]
    IN  IF Head(rw_sync_group_state) = "NO" THEN rw_sync_serial_cmd_cnt
        ELSE IF n > Limit THEN Limit ELSE n
Pool == [cnt |-> [d \in Dirs |-> Sum([c \in Chans |-> Count(c, d)])],
         has |-> UNION {schedulable[c] : c \in Chans}, serial |-> Serial, tout |-> timed_out]

Locals == {Head(rw_group_state[c]) : c \in Chans}
AnyGroup == IF "READ" \in Locals THEN "READ" ELSE IF "WRITE" \in Locals THEN "WRITE" ELSE "NO"

(* SetRwSyncGroup of every controller.                                     *)
SetRwSyncGroup(g) ==
    /\ rw_sync_group' = g
    /\ rw_sync_ch_cmd_cnt' = [c \in Chans |-> IF g = rw_sync_group THEN rw_sync_ch_cmd_cnt[c] ELSE 0]
    /\ UNCHANGED rw_sync_in_write_group

SyncPool(quiet, rhit) ==
    LET d == Last(rw_sync_group_state)
        g == NextGroup(d, Pool, config.chans, quiet, rhit)
        state == Shifted(rw_sync_group_state, g)
    IN  /\ rw_sync_group_state' = state
        /\ rw_sync_serial_cmd_cnt' = IF d # "NO" /\ g # d THEN 0 ELSE Serial
        /\ SetRwSyncGroup(Head(state))

UpdateRwSyncGroup ==
    /\ phase = "add" /\ phase' = "sched" /\ turn' = 1
    /\ retired' = [d \in Dirs |-> 0] /\ timed_out' = {}
    /\ \/ config.sync = "pool" /\ \E quiet \in config.quiet, rhit \in config.rhit : SyncPool(quiet, rhit)
       \/ /\ config.sync = "master" /\ SetRwSyncGroup(Head(rw_group_state[1]))
          /\ UNCHANGED <<rw_sync_group_state, rw_sync_serial_cmd_cnt>>
       \/ /\ config.sync = "any" /\ SetRwSyncGroup(AnyGroup)
          /\ UNCHANGED <<rw_sync_group_state, rw_sync_serial_cmd_cnt>>
       \/ /\ ~Synced /\ UNCHANGED <<syncVars, rw_sync_group_state, rw_sync_serial_cmd_cnt>>
    /\ UNCHANGED <<config, queVars, groupVars, idle>>
-----------------------------------------------------------------------------
(***************************************************************************)
(* update: the directions with something to schedule are found out, the    *)
(* scheduler sends one command, update_que drops the transaction that is   *)
(* done.  A command of the new direction ends the change of group; a       *)
(* transaction that has timed out counts for nothing.                      *)
(***************************************************************************)
(* Seeded mistake: a transaction that has to wait counts as well.          *)
mut_Schedulable(c) == {d \in Dirs : Of(c, d) # {}}

Schedulable(c) == {d \in Dirs : \E s \in Of(c, d) : Ready(c, s)}

(* Who counts where: d is the direction of the transaction, g the group.   *)
(* Every command of the group makes the change; counted is what is done.   *)
CountLocal(c, d, done) ==
    LET g == Head(rw_group_state[c])
    IN  /\ serial_cmd_cnt' = IF done /\ g = d /\ Leads(c)
                             THEN [serial_cmd_cnt EXCEPT ![c] = Next8(@)] ELSE serial_cmd_cnt
        /\ rwgrp_ch_cmd_cnt' = IF done /\ g = other(d) /\ ~Synced
                               THEN [rwgrp_ch_cmd_cnt EXCEPT ![c] = Next8(@)] ELSE rwgrp_ch_cmd_cnt
        /\ in_write_group' = IF g = d /\ ~Synced THEN [in_write_group EXCEPT ![c] = (d = "WRITE")]
                             ELSE in_write_group

Preferred(w) == IF w THEN "WRITE" ELSE "READ"
CountSync(c, d, done) ==
    LET changes == Synced /\ rw_sync_group = d /\ Preferred(rw_sync_in_write_group[c]) # d
    IN  /\ rw_sync_in_write_group' = IF changes THEN [rw_sync_in_write_group EXCEPT ![c] = (d = "WRITE")]
                                     ELSE rw_sync_in_write_group
        /\ rw_sync_ch_cmd_cnt' =
              IF changes THEN [rw_sync_ch_cmd_cnt EXCEPT ![c] = 0]
              ELSE IF done /\ Synced /\ rw_sync_group = other(d)
              THEN [rw_sync_ch_cmd_cnt EXCEPT ![c] = Next8(@)] ELSE rw_sync_ch_cmd_cnt
        /\ retired' = IF done /\ config.sync = "pool" THEN [retired EXCEPT ![d] = @ + 1] ELSE retired

ByTimeout(c, t) == config.trans /\ t.timeout

Column(c, s, more) ==
    LET t == trans(c, s)
        d == t.type
    IN  /\ t.state = "col" \/ (t.state = "rest" /\ ~more)
        /\ transactionQueue' = [transactionQueue EXCEPT ![c][s] =
                                   IF more THEN [@ EXCEPT !.state = "rest"] ELSE Empty]
        /\ IF t.timeout
           THEN UNCHANGED <<serial_cmd_cnt, rwgrp_ch_cmd_cnt, in_write_group, rw_sync_in_write_group,
                            rw_sync_ch_cmd_cnt, retired>>
           ELSE CountLocal(c, d, ~more) /\ CountSync(c, d, ~more)
        /\ sch_tout' = IF ByTimeout(c, t) THEN [sch_tout EXCEPT ![c] = d] ELSE sch_tout
        /\ timed_out' = IF ByTimeout(c, t) /\ config.sync = "pool" THEN timed_out \cup {d}
                        ELSE timed_out

Activate(c, s) ==
    /\ trans(c, s).state \in {"act", "act2"}
    /\ transactionQueue' = [transactionQueue EXCEPT ![c][s].state =
                               IF @ = "act" /\ config.halves THEN "act2" ELSE "col"]
    /\ UNCHANGED <<serial_cmd_cnt, rwgrp_ch_cmd_cnt, in_write_group, sch_tout, timed_out,
                   rw_sync_in_write_group, rw_sync_ch_cmd_cnt, retired>>

Schedule(c, s) ==
    /\ At("sched", c) /\ Then("lc") /\ s \in CmdQueue[c]
    /\ Activate(c, s) \/ \E more \in config.longer : Column(c, s, more)
    /\ CmdQueue' = [CmdQueue EXCEPT ![c] = {}]
    /\ schedulable' = [schedulable EXCEPT ![c] = Schedulable(c)]
    /\ UNCHANGED <<config, rw_group_state, rw_sync_group, rw_sync_group_state,
                   rw_sync_serial_cmd_cnt, idle>>

NothingToSchedule(c) ==
    /\ At("sched", c) /\ Then("lc")
    /\ CmdQueue' = [CmdQueue EXCEPT ![c] = {}]
    /\ schedulable' = [schedulable EXCEPT ![c] = Schedulable(c)]
    /\ UNCHANGED <<config, transactionQueue, groupVars, syncVars, topVars, idle>>
-----------------------------------------------------------------------------
(***************************************************************************)
(* que_pipeline and lc: while a group is in force, and has something to    *)
(* schedule, the other direction may only finish what it has begun, and    *)
(* what it has rows open for until a command of the group is sent or enough*)
(* of them have gone.                                                      *)
(***************************************************************************)
EffectiveGroup(c) == IF Synced THEN rw_sync_group ELSE Head(rw_group_state[c])
EffectiveIn(c)    == Preferred(IF Synced THEN rw_sync_in_write_group[c] ELSE in_write_group[c])
EffectiveCnt(c)   == IF Synced THEN rw_sync_ch_cmd_cnt[c] ELSE rwgrp_ch_cmd_cnt[c]

HeldBack(c, t) ==
    LET g == EffectiveGroup(c)
    IN  /\ ~t.timeout /\ t.state \notin {"act2", "rest"}
        /\ g \in Dirs /\ t.type = other(g) /\ g \in schedulable[c]
        /\ t.state = "act" \/ EffectiveCnt(c) >= GRPCHG_TH[g] \/ EffectiveIn(c) = g

Passing(c) == {s \in Slots : Ready(c, s) /\ ~HeldBack(c, trans(c, s))}
Blocked(c) == Passing(c) = {} /\ \E s \in Slots : Ready(c, s)

QuePipeline(c) ==
    /\ At("lc", c) /\ Then("group")
    /\ CmdQueue' = [CmdQueue EXCEPT ![c] = Passing(c)]
    /\ idle' = [idle EXCEPT ![c] = IF ~Blocked(c) THEN 0 ELSE IF @ = 0 THEN 1 ELSE 2]
    /\ UNCHANGED <<config, transactionQueue, schedulable, groupVars, syncVars, topVars>>
-----------------------------------------------------------------------------
(***************************************************************************)
(* update_rwgroup_state.                                                   *)
(***************************************************************************)
Local(c) == [cnt |-> [d \in Dirs |-> Count(c, d)], has |-> Schedulable(c),
             serial |-> serial_cmd_cnt[c], tout |-> {sch_tout[c]} \cap Dirs]

(* A change by timeout is one at once; the others wait for a command.      *)
Entered(d, g, q) == IF d = "NO" \/ other(d) \notin q.tout THEN g = "READ" ELSE g = "WRITE"
GrayEnds(c, d) == Preferred(in_write_group[c]) = other(d) /\ rwgrp_ch_cmd_cnt[c] >= GRPCHG_TH[d]

UpdateRwGroup(c, quiet, rhit) ==
    LET d == Last(rw_group_state[c])
        q == Local(c)
        g == NextGroup(d, q, 1, quiet, rhit)
        leaves == d # "NO" /\ g # d
        ends   == g = d /\ d # "NO" /\ GrayEnds(c, d)
    IN  /\ rw_group_state' = [rw_group_state EXCEPT ![c] = Shifted(@, g)]
        /\ serial_cmd_cnt' = IF leaves THEN [serial_cmd_cnt EXCEPT ![c] = 0] ELSE serial_cmd_cnt
        /\ rwgrp_ch_cmd_cnt' = IF (leaves \/ ends) /\ ~Synced THEN [rwgrp_ch_cmd_cnt EXCEPT ![c] = 0]
                               ELSE rwgrp_ch_cmd_cnt
        /\ in_write_group' = IF Synced THEN in_write_group
                             ELSE IF ends THEN [in_write_group EXCEPT ![c] = (d = "WRITE")]
                             ELSE IF g # d /\ g # "NO"
                             THEN [in_write_group EXCEPT ![c] = Entered(d, g, q)]
                             ELSE in_write_group

UpdateGroup(c) ==
    /\ At("group", c)
    /\ IF c < config.chans THEN phase' = "sched" /\ turn' = c + 1 ELSE phase' = "add" /\ turn' = 1
    /\ schedulable' = [schedulable EXCEPT ![c] = Schedulable(c)]
    /\ sch_tout' = [sch_tout EXCEPT ![c] = "none"]
    /\ IF Leads(c) THEN \E quiet \in config.quiet, rhit \in config.rhit : UpdateRwGroup(c, quiet, rhit)
       ELSE UNCHANGED <<rw_group_state, serial_cmd_cnt, rwgrp_ch_cmd_cnt, in_write_group>>
    /\ UNCHANGED <<config, transactionQueue, CmdQueue, syncVars, topVars, idle>>
-----------------------------------------------------------------------------
Environment ==
    \E c \in Chans, s \in Slots :
        \/ \E d \in Dirs, b \in Begins : AddTransaction(c, s, d, b)
        \/ \E b \in Begins : Unblock(c, s, b)
        \/ TimeOut(c, s)

Update ==
    \/ UpdateRwSyncGroup
    \/ \E c \in Chans : \/ \E s \in Slots : Schedule(c, s)
                        \/ NothingToSchedule(c)
                        \/ QuePipeline(c)
                        \/ UpdateGroup(c)

Next == Environment \/ Update

Spec == Init /\ [][Next]_vars

AllChans == 1..Max({k.chans : k \in Configs})
(* The cycles go on.  What passes the gate again and again is chosen: some *)
(* command of the channel, when the timing of one is met, and in the end   *)
(* the watched one, since age gives priority; its time runs out as well.   *)
FairSpec ==
    /\ Spec /\ WF_vars(Next)
    /\ \A c \in AllChans : SF_vars(\E s \in Slots : c \in Chans /\ Schedule(c, s))
    /\ SF_vars(Schedule(1, Watched)) /\ SF_vars(TimeOut(1, Watched))
-----------------------------------------------------------------------------
(* The types of the variables.                                             *)
TypeOK ==
    /\ config \in Configs /\ phase \in {"add", "sched", "lc", "group"} /\ turn \in Chans
    /\ transactionQueue \in [Chans -> [Slots -> Place]]
    /\ CmdQueue \in [Chans -> SUBSET Slots] /\ schedulable \in [Chans -> SUBSET Dirs]
    /\ rw_group_state \in [Chans -> [1..STAGES -> Groups]] /\ in_write_group \in [Chans -> BOOLEAN]
    /\ serial_cmd_cnt \in [Chans -> 0..(WIDTH - 1)] /\ rwgrp_ch_cmd_cnt \in [Chans -> 0..(WIDTH - 1)]
    /\ sch_tout \in [Chans -> Dirs \cup {"none"}]
    /\ rw_sync_in_write_group \in [Chans -> BOOLEAN]
    /\ rw_sync_ch_cmd_cnt \in [Chans -> 0..(WIDTH - 1)] /\ rw_sync_group \in Groups
    /\ rw_sync_group_state \in [1..STAGES -> Groups] /\ rw_sync_serial_cmd_cnt \in Nat
    /\ retired \in [Dirs -> Nat] /\ timed_out \subseteq Dirs /\ idle \in [Chans -> 0..2]

(* The gate never holds everything back: after a cycle in which no ready   *)
(* transaction of a channel passes (the last one of the preferred direction*)
(* has just gone, and lc still sees the count from before) comes one in    *)
(* which some transaction does.                                            *)
GateOpens == TypeOK /\ \A c \in Chans : idle[c] < 2

(* Nobody starves: a transaction that is ready leaves, whatever keeps      *)
(* coming in the other direction (update_rwgroup_state).  Not so when a    *)
(* channel follows the group of others (DMC_RW_SYNC_MODE 0, 1) that do not *)
(* ask for what this one has: then only a timeout helps.  Nor where a      *)
(* SERIAL_LEVELH is not below WIDTH, as the 1024 of IniReader.cpp:1230     *)
(* would be: a count of eight bits never reaches it.  In the run the       *)
(* levels are below WIDTH.                                                 *)
Reliable == config.sync \in {"off", "pool"}
NobodyStarves == (Reliable /\ Ready(1, Watched)) ~> (trans(1, Watched) = Empty)
=============================================================================
