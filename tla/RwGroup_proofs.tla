--------------------------- MODULE RwGroup_proofs ---------------------------
(***************************************************************************)
(* For any number of channels, places and levels: the gate of the groups   *)
(* never holds everything back for two cycles (GateHolds).                 *)
(***************************************************************************)
EXTENDS RwGroup, SequenceTheorems, TLAPS

(* A channel that nothing has passed has nothing to schedule, and when the *)
(* gate is asked again it sees the counts of this cycle.                   *)
Shut(c) == /\ idle[c] = 1 => CmdQueue[c] = {}
           /\ idle[c] = 1 /\ At("lc", c) => schedulable[c] = Schedulable(c)

GateInv == GateOpens /\ \A c \in Chans : Shut(c)

(* The parts of TypeOK.                                                    *)
HereT  == config \in Configs /\ phase \in {"add", "sched", "lc", "group"} /\ turn \in Chans
TransT == transactionQueue \in [Chans -> [Slots -> Place]]
CmdT   == CmdQueue \in [Chans -> SUBSET Slots]
SchedT == schedulable \in [Chans -> SUBSET Dirs]
GroupT == /\ rw_group_state \in [Chans -> [1..STAGES -> Groups]]
          /\ in_write_group \in [Chans -> BOOLEAN]
          /\ serial_cmd_cnt \in [Chans -> 0..(WIDTH - 1)]
          /\ rwgrp_ch_cmd_cnt \in [Chans -> 0..(WIDTH - 1)]
          /\ sch_tout \in [Chans -> Dirs \cup {"none"}]
SyncT  == /\ rw_sync_in_write_group \in [Chans -> BOOLEAN]
          /\ rw_sync_ch_cmd_cnt \in [Chans -> 0..(WIDTH - 1)] /\ rw_sync_group \in Groups
TopT   == /\ rw_sync_group_state \in [1..STAGES -> Groups] /\ rw_sync_serial_cmd_cnt \in Nat
          /\ retired \in [Dirs -> Nat] /\ timed_out \subseteq Dirs
IdleT  == idle \in [Chans -> 0..2]

(* TypeOK is made of these.                                                *)
LEMMA Parts == TypeOK <=> HereT /\ TransT /\ CmdT /\ SchedT /\ GroupT /\ SyncT /\ TopT /\ IdleT
  BY DEF TypeOK, HereT, TransT, CmdT, SchedT, GroupT, SyncT, TopT, IdleT

(* After a step as well.                                                   *)
LEMMA PartsNext ==
  TypeOK' <=> HereT' /\ TransT' /\ CmdT' /\ SchedT' /\ GroupT' /\ SyncT' /\ TopT' /\ IdleT'
  BY DEF TypeOK, HereT, TransT, CmdT, SchedT, GroupT, SyncT, TopT, IdleT

(* What the assumption says of the numbers.                                *)
LEMMA Numbers ==
  /\ STAGES \in Nat \ {0} /\ WIDTH \in Nat \ {0}
  /\ SERIAL_LEVELL \in [Dirs -> Nat] /\ SERIAL_LEVELH \in [Dirs -> Nat]
  /\ \A k \in Configs : k.chans \in Nat
  BY RwGroupAssumption DEF RwGroupAssumption, Config
-----------------------------------------------------------------------------
(* The pipeline of decisions keeps its length, and its ends are groups.    *)
LEMMA Pipeline ==
  ASSUME NEW s \in [1..STAGES -> Groups], NEW g \in Groups
  PROVE  Head(s) \in Groups /\ Last(s) \in Groups /\ Shifted(s, g) \in [1..STAGES -> Groups]
<1>1. s \in Seq(Groups) /\ Len(s) = STAGES
  BY Numbers, LenProperties DEF Groups
<1>2. s # <<>>
  BY <1>1, Numbers
<1>3. Tail(s) \in Seq(Groups) /\ Len(Tail(s)) = STAGES - 1 /\ Head(s) \in Groups
  BY <1>1, <1>2, HeadTailProperties
<1>4. Last(s) \in Groups
  BY <1>1, Numbers DEF Last
<1>5. Append(Tail(s), g) \in Seq(Groups) /\ Len(Append(Tail(s), g)) = STAGES
  BY <1>3, AppendProperties, Numbers
<1> QED
  BY <1>3, <1>4, <1>5, LenProperties DEF Shifted

(* The next group is a group.                                              *)
LEMMA NextGroupType ==
  ASSUME NEW d \in Groups, NEW q, NEW n, NEW quiet, NEW rhit
  PROVE  NextGroup(d, q, n, quiet, rhit) \in Groups
  BY DEF NextGroup, Groups, Dirs, other

(* A direction is among those to schedule when a transaction is.           *)
LEMMA SchedulableType ==
  ASSUME NEW c
  PROVE  Schedulable(c) \in SUBSET Dirs
  BY DEF Schedulable

(* The last level is a number.                                             *)
LEMMA LimitType ==
  ASSUME TypeOK
  PROVE  Limit \in Nat
<1> DEFINE S == {SERIAL_LEVELL[d] : d \in Dirs} \cup {SERIAL_LEVELH[d] : d \in Dirs}
           a == SERIAL_LEVELL["READ"]
           b == SERIAL_LEVELL["WRITE"]
           e == SERIAL_LEVELH["READ"]
           f == SERIAL_LEVELH["WRITE"]
<1>1. a \in Nat /\ b \in Nat /\ e \in Nat /\ f \in Nat
  BY Numbers DEF Dirs
<1>2. S = {a, b, e, f}
  BY DEF Dirs
<1> HIDE DEF S, a, b, e, f
<1>3. \E x \in {a, b, e, f} : \A y \in {a, b, e, f} : x >= y
  BY <1>1
<1>4. Max(S) \in S
  BY <1>2, <1>3 DEF Max
<1>5. config.chans \in Nat /\ Max(S) \in Nat
  BY <1>1, <1>2, <1>4, Numbers, Parts DEF HereT
<1> QED
  BY <1>5 DEF Limit, S

(* The bounded count of the commands of a group.                           *)
LEMMA SerialType ==
  ASSUME TypeOK
  PROVE  Serial \in Nat
<1>1. \A d \in Dirs : retired[d] \in Nat
  BY Parts DEF TopT
<1>2. rw_sync_serial_cmd_cnt \in Nat /\ Head(rw_sync_group_state) \in Groups
  BY Parts, Pipeline DEF TopT, Groups
<1>3. Limit \in Nat
  BY LimitType
<1> QED
  BY <1>1, <1>2, <1>3 DEF Serial, Groups
-----------------------------------------------------------------------------
(* A channel whose counts are those of this cycle lets something pass: of  *)
(* the direction that holds the other one back there is something ready,   *)
(* and the gate does not hold that back.                                   *)
LEMMA FreshCounts ==
  ASSUME NEW c, schedulable[c] = Schedulable(c)
  PROVE  ~Blocked(c)
<1> SUFFICES ASSUME Blocked(c) PROVE FALSE
  OBVIOUS
<1> DEFINE g == EffectiveGroup(c)
<1>1. PICK s \in Slots : Ready(c, s) /\ HeldBack(c, trans(c, s))
  BY DEF Blocked, Passing
<1>2. g \in Dirs /\ g \in Schedulable(c)
  BY <1>1 DEF HeldBack
<1>3. PICK u \in Slots : trans(c, u).type = g /\ Ready(c, u)
  BY <1>2 DEF Schedulable, Of
<1>4. HeldBack(c, trans(c, u))
  BY <1>3 DEF Blocked, Passing
<1>5. trans(c, u).type = other(g)
  BY <1>4 DEF HeldBack
<1> QED
  BY <1>2, <1>3, <1>5 DEF other, Dirs

(* At the start the queues and the pipelines are empty.                    *)
LEMMA GateInit == Init => GateInv
<1> SUFFICES ASSUME Init PROVE GateInv
  OBVIOUS
<1>1. HereT
  <2>1. config \in Configs /\ phase = "add" /\ turn = 1
    BY DEF Init
  <2>2. config.chans \in Nat /\ config.chans > 0
    BY <2>1, RwGroupAssumption, Numbers DEF RwGroupAssumption
  <2> QED
    BY <2>1, <2>2 DEF HereT, Chans
<1>2. TransT /\ CmdT /\ SchedT /\ SyncT /\ IdleT
  BY Numbers DEF Init, TransT, CmdT, SchedT, SyncT, IdleT, Place, Dirs, Groups
<1>3. GroupT /\ TopT
  BY Numbers DEF Init, GroupT, TopT, Dirs, Groups
<1>4. \A c \in Chans : idle[c] < 2 /\ Shut(c)
  BY DEF Init, Shut
<1> QED
  BY <1>1, <1>2, <1>3, <1>4, Parts DEF GateInv, GateOpens
-----------------------------------------------------------------------------
(* What comes from outside changes the queue only, before the cycle.       *)
LEMMA EnvironmentStep == GateInv /\ Environment => GateInv'
<1> SUFFICES ASSUME GateInv, NEW c \in Chans, NEW s \in Slots,
                    \/ \E d \in Dirs, b \in Begins : AddTransaction(c, s, d, b)
                    \/ \E b \in Begins : Unblock(c, s, b)
                    \/ TimeOut(c, s)
             PROVE  GateInv'
  BY DEF Environment
<1> USE DEF GateInv, GateOpens
<1>1. /\ UNCHANGED <<config, phase, turn, CmdQueue, schedulable, groupVars, syncVars, topVars, idle>>
      /\ phase = "add"
  BY DEF AddTransaction, Unblock, TimeOut
<1>2. Chans' = Chans
  BY <1>1 DEF Chans
<1>3. TransT'
  <2>1. CASE \E d \in Dirs, b \in Begins : AddTransaction(c, s, d, b)
    BY <2>1, <1>1, <1>2, Parts DEF TransT, AddTransaction, Place, States
  <2>2. CASE \E b \in Begins : Unblock(c, s, b)
    BY <2>2, <1>1, <1>2, Parts DEF TransT, Unblock, Place, Empty, trans, Begins, States
  <2>3. CASE TimeOut(c, s)
    <3>1. trans(c, s).type # "none" /\ ~trans(c, s).timeout
      BY <2>3 DEF TimeOut, Ready
    <3>2. trans(c, s) \in [type : Dirs, state : States, timeout : BOOLEAN]
      BY <3>1, Parts DEF TransT, Place, Empty, trans
    <3>3. [trans(c, s) EXCEPT !.timeout = TRUE] \in Place
      BY <3>2 DEF Place
    <3> QED
      BY <2>3, <3>3, <1>2, Parts DEF TransT, TimeOut, trans
  <2> QED
    BY <2>1, <2>2, <2>3
<1>4. HereT' /\ CmdT' /\ SchedT' /\ GroupT' /\ SyncT' /\ TopT' /\ IdleT'
  BY <1>1, <1>2, Parts DEF HereT, CmdT, SchedT, GroupT, SyncT, TopT, IdleT, groupVars, syncVars, topVars
<1>5. \A k \in Chans : (idle[k] < 2)' /\ Shut(k)'
  BY <1>1 DEF Shut, At
<1> QED
  BY <1>2, <1>3, <1>4, <1>5, PartsNext

(* update_rw_sync_group touches no queue and no gate.                      *)
LEMMA SyncStep == GateInv /\ UpdateRwSyncGroup => GateInv'
<1> SUFFICES ASSUME GateInv, UpdateRwSyncGroup PROVE GateInv'
  OBVIOUS
<1> USE DEF GateInv, GateOpens
<1>1. /\ UNCHANGED <<config, queVars, groupVars, idle>>
      /\ phase' = "sched" /\ turn' = 1 /\ retired' = [d \in Dirs |-> 0] /\ timed_out' = {}
  BY DEF UpdateRwSyncGroup
<1>2. Chans' = Chans
  BY <1>1 DEF Chans
<1>3. ASSUME NEW g \in Groups, SetRwSyncGroup(g) PROVE SyncT'
  BY <1>2, <1>3, Parts, Numbers DEF SetRwSyncGroup, SyncT
<1>4. SyncT' /\ TopT'
  <2>1. ASSUME NEW quiet, NEW rhit, SyncPool(quiet, rhit) PROVE SyncT' /\ TopT'
    <3> DEFINE d == Last(rw_sync_group_state)
               g == NextGroup(d, Pool, config.chans, quiet, rhit)
    <3>1. d \in Groups
      BY Parts, Pipeline DEF TopT, Groups
    <3>2. g \in Groups
      BY <3>1, NextGroupType
    <3> HIDE DEF d, g
    <3>3. /\ rw_sync_group_state' = Shifted(rw_sync_group_state, g)
          /\ rw_sync_serial_cmd_cnt' = IF d # "NO" /\ g # d THEN 0 ELSE Serial
          /\ SetRwSyncGroup(Head(Shifted(rw_sync_group_state, g)))
      BY <2>1 DEF SyncPool, d, g
    <3>4. Shifted(rw_sync_group_state, g) \in [1..STAGES -> Groups]
      BY <3>2, Parts, Pipeline DEF TopT
    <3>5. Head(Shifted(rw_sync_group_state, g)) \in Groups
      BY <3>2, <3>4, Pipeline
    <3>6. rw_sync_serial_cmd_cnt' \in Nat
      BY <3>3, SerialType
    <3> QED
      BY <1>1, <1>3, <3>3, <3>4, <3>5, <3>6 DEF TopT
  <2>2. CASE /\ SetRwSyncGroup(Head(rw_group_state[1]))
             /\ UNCHANGED <<rw_sync_group_state, rw_sync_serial_cmd_cnt>>
    <3>1. 1 \in Chans
      BY RwGroupAssumption, Numbers, Parts DEF HereT, Chans, RwGroupAssumption
    <3>2. Head(rw_group_state[1]) \in Groups
      BY <3>1, Parts, Pipeline DEF GroupT, Groups
    <3> QED
      BY <2>2, <3>2, <1>1, <1>3, Parts DEF TopT
  <2>3. CASE SetRwSyncGroup(AnyGroup) /\ UNCHANGED <<rw_sync_group_state, rw_sync_serial_cmd_cnt>>
    <3>1. AnyGroup \in Groups
      BY DEF AnyGroup, Groups, Dirs
    <3> QED
      BY <2>3, <3>1, <1>1, <1>3, Parts DEF TopT
  <2>4. CASE UNCHANGED <<syncVars, rw_sync_group_state, rw_sync_serial_cmd_cnt>>
    BY <2>4, <1>1, <1>2, Parts DEF SyncT, TopT, syncVars
  <2> QED
    BY <2>1, <2>2, <2>3, <2>4 DEF UpdateRwSyncGroup
<1>5. HereT' /\ TransT' /\ CmdT' /\ SchedT' /\ GroupT' /\ IdleT'
  <2>1. 1 \in Chans
    BY RwGroupAssumption, Numbers, Parts DEF HereT, Chans, RwGroupAssumption
  <2> QED
    BY <2>1, <1>1, <1>2, Parts DEF HereT, TransT, CmdT, SchedT, GroupT, IdleT, queVars, groupVars
<1>6. \A k \in Chans : (idle[k] < 2)' /\ Shut(k)'
  BY <1>1 DEF Shut, At, queVars
<1> QED
  BY <1>2, <1>4, <1>5, <1>6, PartsNext
-----------------------------------------------------------------------------
(* An uint8_t stays one.                                                   *)
LEMMA Next8Type ==
  ASSUME NEW n \in 0..(WIDTH - 1)
  PROVE  Next8(n) \in 0..(WIDTH - 1)
  BY Numbers DEF Next8

(* A command that is sent and counted, or not.                             *)
LEMMA CommandType ==
  ASSUME TypeOK, NEW c \in Chans, NEW s \in Slots,
         Activate(c, s) \/ \E more \in BOOLEAN : Column(c, s, more),
         UNCHANGED <<config, rw_group_state, rw_sync_group, rw_sync_group_state,
                     rw_sync_serial_cmd_cnt>>
  PROVE  TransT' /\ GroupT' /\ SyncT' /\ TopT'
<1> DEFINE t == trans(c, s)
           d == t.type
<1>0. Chans' = Chans
  BY DEF Chans
<1>1. CASE Activate(c, s)
  <2>1. TransT'
    BY <1>0, <1>1, Parts DEF Activate, TransT, trans, Place, Empty, Begins, States
  <2> QED
    BY <1>0, <1>1, <2>1, Parts DEF Activate, GroupT, SyncT, TopT
<1>2. ASSUME NEW more \in BOOLEAN, Column(c, s, more) PROVE TransT' /\ GroupT' /\ SyncT' /\ TopT'
  <2>1. d \in Dirs
    BY <1>2, Parts DEF Column, TransT, trans, Place, Empty
  <2>2. TransT'
    BY <1>0, <1>2, <2>1, Parts DEF Column, TransT, Place, Empty, trans, States
  <2>3. sch_tout' \in [Chans -> Dirs \cup {"none"}] /\ timed_out' \subseteq Dirs
    BY <1>2, <2>1, Parts DEF Column, GroupT, TopT
  <2>4. CASE t.timeout
    <3>1. UNCHANGED <<serial_cmd_cnt, rwgrp_ch_cmd_cnt, in_write_group, rw_sync_in_write_group,
                      rw_sync_ch_cmd_cnt, retired>>
      BY <1>2, <2>4 DEF Column
    <3> QED
      BY <1>0, <2>2, <2>3, <3>1, Parts DEF GroupT, SyncT, TopT
  <2>5. CASE ~t.timeout
    <3>1. CountLocal(c, d, ~more) /\ CountSync(c, d, ~more)
      BY <1>2, <2>5 DEF Column
    <3>2. /\ serial_cmd_cnt' \in [Chans -> 0..(WIDTH - 1)]
          /\ rwgrp_ch_cmd_cnt' \in [Chans -> 0..(WIDTH - 1)]
          /\ in_write_group' \in [Chans -> BOOLEAN]
      <4>1. serial_cmd_cnt' \in [Chans -> 0..(WIDTH - 1)]
        BY <3>1, Next8Type, Parts DEF CountLocal, GroupT
      <4>2. rwgrp_ch_cmd_cnt' \in [Chans -> 0..(WIDTH - 1)]
        BY <3>1, Next8Type, Parts DEF CountLocal, GroupT
      <4>3. in_write_group' \in [Chans -> BOOLEAN]
        BY <3>1, Parts DEF CountLocal, GroupT
      <4> QED
        BY <4>1, <4>2, <4>3
    <3>3. /\ rw_sync_in_write_group' \in [Chans -> BOOLEAN]
          /\ rw_sync_ch_cmd_cnt' \in [Chans -> 0..(WIDTH - 1)]
          /\ retired' \in [Dirs -> Nat]
      <4>1. rw_sync_in_write_group' \in [Chans -> BOOLEAN]
        BY <3>1, Parts DEF CountSync, SyncT
      <4>2. rw_sync_ch_cmd_cnt' \in [Chans -> 0..(WIDTH - 1)]
        BY <3>1, Next8Type, Numbers, Parts DEF CountSync, SyncT
      <4>3. retired' \in [Dirs -> Nat]
        BY <3>1, <2>1, Parts DEF CountSync, TopT
      <4> QED
        BY <4>1, <4>2, <4>3
    <3> QED
      BY <1>0, <2>2, <2>3, <3>2, <3>3, Parts DEF GroupT, SyncT, TopT
  <2> QED
    BY <2>4, <2>5
<1> QED
  BY <1>1, <1>2

(* The scheduler takes the command register of the queue away, and in a    *)
(* channel that nothing has passed it leaves everything else as it is.     *)
LEMMA ScheduleStep ==
  ASSUME GateInv, NEW c \in Chans,
         NothingToSchedule(c) \/ \E s \in Slots : Schedule(c, s)
  PROVE  GateInv'
<1> USE DEF GateInv, GateOpens
<1>1. /\ UNCHANGED <<config, idle, turn>> /\ At("sched", c) /\ phase' = "lc"
      /\ CmdQueue' = [CmdQueue EXCEPT ![c] = {}]
      /\ schedulable' = [schedulable EXCEPT ![c] = Schedulable(c)]
  BY DEF Schedule, NothingToSchedule, Then
<1>2. Chans' = Chans
  BY <1>1 DEF Chans
<1>3. TransT' /\ GroupT' /\ SyncT' /\ TopT'
  <2>1. CASE NothingToSchedule(c)
    BY <2>1, <1>2, Parts DEF NothingToSchedule, TransT, GroupT, SyncT, TopT, groupVars, syncVars, topVars
  <2>2. CASE \E s \in Slots : Schedule(c, s)
    <3>1. config.longer \subseteq BOOLEAN
      BY RwGroupAssumption, Parts DEF HereT, RwGroupAssumption, Config
    <3> QED
      BY <2>2, <3>1, CommandType DEF Schedule
  <2> QED
    BY <2>1, <2>2
<1>4. HereT' /\ CmdT' /\ SchedT' /\ IdleT'
  BY <1>1, <1>2, SchedulableType, Parts DEF HereT, CmdT, SchedT, IdleT
<1>5. ASSUME NEW k \in Chans PROVE (idle[k] < 2)' /\ Shut(k)'
  <2>1. idle[k] = 1 => CmdQueue'[k] = {}
    BY <1>1, Parts DEF Shut, CmdT
  <2>2. ASSUME idle[k] = 1, k = c PROVE schedulable'[k] = Schedulable(k)'
    <3>1. CmdQueue[c] = {}
      BY <2>2 DEF Shut
    <3>2. NothingToSchedule(c)
      BY <3>1 DEF Schedule
    <3>3. Schedulable(c)' = Schedulable(c)
      BY <3>2 DEF NothingToSchedule, Schedulable, Of, Ready, trans
    <3> QED
      BY <3>3, <2>2, <1>1, Parts DEF SchedT
  <2>3. At("lc", k)' => k = c
    BY <1>1 DEF At
  <2> QED
    BY <1>1, <2>1, <2>2, <2>3 DEF Shut
<1> QED
  BY <1>2, <1>3, <1>4, <1>5, PartsNext

(* The gate: after a cycle in which nothing has passed something does.     *)
LEMMA GateStep == ASSUME GateInv, NEW c \in Chans, QuePipeline(c) PROVE GateInv'
<1> USE DEF GateInv, GateOpens
<1>1. /\ UNCHANGED <<config, turn, transactionQueue, schedulable, groupVars, syncVars, topVars>>
      /\ At("lc", c) /\ phase' = "group"
      /\ CmdQueue' = [CmdQueue EXCEPT ![c] = Passing(c)]
      /\ idle' = [idle EXCEPT ![c] = IF ~Blocked(c) THEN 0 ELSE IF @ = 0 THEN 1 ELSE 2]
  BY DEF QuePipeline, Then
<1>2. Chans' = Chans
  BY <1>1 DEF Chans
<1>3. Passing(c) \in SUBSET Slots
  BY DEF Passing
<1>4. TypeOK'
  <2>1. HereT' /\ TransT' /\ SchedT' /\ GroupT' /\ SyncT' /\ TopT'
    BY <1>1, <1>2, Parts DEF HereT, TransT, SchedT, GroupT, SyncT, TopT, groupVars, syncVars, topVars
  <2>2. CmdT' /\ IdleT'
    BY <1>1, <1>2, <1>3, Parts DEF CmdT, IdleT
  <2> QED
    BY <2>1, <2>2, PartsNext
<1>5. idle[c] = 1 => ~Blocked(c)
  BY <1>1, FreshCounts DEF Shut
<1>6. ASSUME NEW k \in Chans PROVE (idle[k] < 2)' /\ Shut(k)'
  <2>1. CASE k = c
    <3>1. idle[c] \in {0, 1}
      BY Parts DEF IdleT
    <3>2. idle'[c] \in {0, 1} /\ (idle'[c] = 1 => CmdQueue'[c] = {})
      BY <1>1, <1>5, <3>1, Parts DEF IdleT, CmdT, Blocked
    <3> QED
      BY <2>1, <3>2, <1>1 DEF Shut, At
  <2>2. CASE k # c
    BY <2>2, <1>1, Parts DEF Shut, At, IdleT, CmdT
  <2> QED
    BY <2>1, <2>2
<1> QED
  BY <1>2, <1>4, <1>6

(* update_rwgroup_state: the pipeline moves on, and the channels do.       *)
LEMMA GroupStep == ASSUME GateInv, NEW c \in Chans, UpdateGroup(c) PROVE GateInv'
<1> USE DEF GateInv, GateOpens
<1>1. /\ UNCHANGED <<config, transactionQueue, CmdQueue, syncVars, topVars, idle>>
      /\ schedulable' = [schedulable EXCEPT ![c] = Schedulable(c)]
      /\ sch_tout' = [sch_tout EXCEPT ![c] = "none"]
      /\ \/ c < config.chans /\ phase' = "sched" /\ turn' = c + 1
         \/ phase' = "add" /\ turn' = 1
  BY DEF UpdateGroup
<1>2. Chans' = Chans
  BY <1>1 DEF Chans
<1>3. /\ rw_group_state' \in [Chans -> [1..STAGES -> Groups]]
      /\ serial_cmd_cnt' \in [Chans -> 0..(WIDTH - 1)]
      /\ rwgrp_ch_cmd_cnt' \in [Chans -> 0..(WIDTH - 1)]
      /\ in_write_group' \in [Chans -> BOOLEAN]
  <2>1. ASSUME NEW quiet, NEW rhit, UpdateRwGroup(c, quiet, rhit)
        PROVE  /\ rw_group_state' \in [Chans -> [1..STAGES -> Groups]]
               /\ serial_cmd_cnt' \in [Chans -> 0..(WIDTH - 1)]
               /\ rwgrp_ch_cmd_cnt' \in [Chans -> 0..(WIDTH - 1)]
               /\ in_write_group' \in [Chans -> BOOLEAN]
    <3> DEFINE d == Last(rw_group_state[c])
               q == Local(c)
               g == NextGroup(d, q, 1, quiet, rhit)
    <3>1. d \in Groups
      BY Parts, Pipeline DEF GroupT, Groups
    <3>2. g \in Groups
      BY <3>1, NextGroupType
    <3>3. Shifted(rw_group_state[c], g) \in [1..STAGES -> Groups]
      BY <3>2, Parts, Pipeline DEF GroupT
    <3>4. rw_group_state' = [rw_group_state EXCEPT ![c] = Shifted(@, g)]
      BY <2>1 DEF UpdateRwGroup
    <3>5. Entered(d, g, q) \in BOOLEAN /\ (d = "WRITE") \in BOOLEAN
      BY DEF Entered
    <3>6. in_write_group' \in [Chans -> BOOLEAN]
      BY <2>1, <3>5, Parts DEF UpdateRwGroup, GroupT
    <3>7. /\ serial_cmd_cnt' \in [Chans -> 0..(WIDTH - 1)]
          /\ rwgrp_ch_cmd_cnt' \in [Chans -> 0..(WIDTH - 1)]
      BY <2>1, Numbers, Parts DEF UpdateRwGroup, GroupT
    <3> QED
      BY <3>3, <3>4, <3>6, <3>7, Parts DEF GroupT
  <2>2. CASE UNCHANGED <<rw_group_state, serial_cmd_cnt, rwgrp_ch_cmd_cnt, in_write_group>>
    BY <2>2, Parts DEF GroupT
  <2> QED
    BY <2>1, <2>2 DEF UpdateGroup
<1>4. HereT'
  BY <1>1, <1>2, Numbers, Parts DEF HereT, Chans
<1>5. SchedT' /\ GroupT'
  BY <1>1, <1>2, <1>3, SchedulableType, Parts DEF SchedT, GroupT
<1>6. TransT' /\ CmdT' /\ SyncT' /\ TopT' /\ IdleT'
  BY <1>1, <1>2, Parts DEF TransT, CmdT, SyncT, TopT, IdleT, syncVars, topVars
<1>7. \A k \in Chans : (idle[k] < 2)' /\ Shut(k)'
  BY <1>1 DEF Shut, At
<1> QED
  BY <1>2, <1>4, <1>5, <1>6, <1>7, PartsNext

(* Every step.                                                             *)
LEMMA GateNext == GateInv /\ [Next]_vars => GateInv'
<1> SUFFICES ASSUME GateInv, [Next]_vars PROVE GateInv'
  OBVIOUS
<1>1. CASE UNCHANGED vars
  BY <1>1 DEF vars, queVars, groupVars, syncVars, topVars, GateInv, GateOpens, TypeOK, Shut, At,
              Chans, Schedulable, Of, Ready, trans
<1>2. CASE Environment
  BY <1>2, EnvironmentStep
<1>3. CASE Update
  BY <1>3, SyncStep, ScheduleStep, GateStep, GroupStep DEF Update
<1> QED
  BY <1>1, <1>2, <1>3 DEF Next

(* The gate never holds everything back in two cycles that follow each     *)
(* other, in whatever mode the channels agree on a group.                  *)
THEOREM GateHolds == Spec => []GateOpens
<1>1. GateInv => GateOpens
  BY DEF GateInv
<1> QED
  BY <1>1, GateInit, GateNext, PTL DEF Spec
=============================================================================
