--------------------------- MODULE ReadModifyWrite ----------------------------
(***************************************************************************)
(* The read-modify-write stage of a channel (Rmw), between the gate of the *)
(* channel and the transaction queue: it turns a mask write into a read    *)
(* and a write, merges two neighbouring full writes into one, holds back   *)
(* what conflicts with an older command, and keeps the beats of write data *)
(* in step with the commands it passes on.                                 *)
(*                                                                         *)
(* One channel, one bank and one row; inline ECC and the write buffer are  *)
(* off, RMW_ENABLE is on, and only time ends the wait of a write for its   *)
(* partner (merge_to_cmd_en off).  Addresses count units of RMW_CONF_SIZE, *)
(* taken as 64 bytes, and a beat fills a unit.  The driver offers commands *)
(* in order and their data in the same order (main.cpp).  Of the memory    *)
(* controller only its room, its order of write data and the end of its    *)
(* transactions are kept: TransQueue models the rest.                      *)
(***************************************************************************)
EXTENDS Naturals, Sequences, FiniteSets

CONSTANTS
    NTasks,             \* commands the driver makes, tasks 1 .. NTasks
    Offers,             \* the commands it may make, as [kind, left, right]
    RMW_QUE_DEPTH,
    WRITE_MERGE_TIMEOUT,    \* cycles a write waits for a partner, 0 for ever
    UNPAIRED_TO_RMW_EN, \* then it becomes a mask write
    TRANS_QUEUE_DEPTH,  \* transactions the controller holds
    Configs             \* configurations to choose from, as [mode, merge, backlog]

NoTask == 0
Tasks == 1 .. NTasks

ASSUME RmwAssumption ==
    /\ NTasks \in Nat /\ {RMW_QUE_DEPTH, TRANS_QUEUE_DEPTH} \subseteq Nat \ {0}
    /\ WRITE_MERGE_TIMEOUT \in Nat /\ UNPAIRED_TO_RMW_EN \in BOOLEAN
    /\ Configs \subseteq [mode : 0 .. 2, merge : BOOLEAN, backlog : BOOLEAN]
    /\ Offers \subseteq [kind : {"read", "full", "mask"}, left : Nat, right : Nat]
    /\ \A c \in Offers : c.left < c.right

VARIABLES
    config,             \* the configuration, read when the program starts
    phase,              \* the next handler of the cycle
    cmds,               \* history: the commands made, in order
    accepted,           \* how many of them the gate has taken
    write_task,         \* the driver's beats to send, one task per beat
    RmwQue,             \* with RmwCmdState and RmwConfCnt in its entries
    fast_bypass,        \* fast_bypass_write_data_cnt, beats per task
    remaps,             \* write_merge_data_remaps
    bypassed,           \* bypassed_merged_writes
    rd_finish,          \* rmw_rd_finish: "none", "open" or "back"
    WdataToSend, order, \* order: wdata_order_queue of Rmw
    write_map,          \* beats the channel still expects of each task
    mcOrder,            \* wdata_order_queue of the controller
    transactionQueue,   \* what the controller holds
    data_taken,         \* pre_req_data_time: it has had its beat this cycle
    answered,           \* history: tasks whose response has been sent
    asserted            \* "RMW WDATA ORDER ERROR" has stopped the program

hostVars  == <<cmds, accepted, write_task>>
mergeVars == <<fast_bypass, remaps, bypassed>>
sendVars  == <<WdataToSend, order, asserted>>
dataVars  == <<write_map, mcOrder, data_taken>>
mcVars    == <<transactionQueue, answered>>
vars == <<config, phase, hostVars, RmwQue, mergeVars, rd_finish, sendVars, dataVars, mcVars>>

(* 0, 2: full writes do not wait for data; 1: they do.                     *)
RMW_CMD_MODE == config.mode
(* Full writes of 128 bytes wait for a partner.                            *)
WCMD_MERGE_EN == config.merge
(* A refresh backlog may refuse transactions.                              *)
AREF_EN == config.backlog

At(p)   == phase = p /\ ~asserted
Then(p) == phase' = p /\ UNCHANGED config
Read(c) == c.kind = "read"
Beats(c) == c.right - c.left
Range1(s) == {s[i] : i \in DOMAIN s}
Count(s, t) == Cardinality({i \in DOMAIN s : s[i] = t})
EraseAt(s, n) == [k \in 1 .. Len(s) - 1 |-> s[IF k < n THEN k ELSE k + 1]]
First(S) == CHOOSE i \in S : \A j \in S : i <= j
Copies(t, n) == [i \in 1 .. n |-> t]

Init ==
    /\ config \in Configs
    /\ phase = "cmd" /\ cmds = <<>> /\ accepted = 0 /\ write_task = <<>>
    /\ RmwQue = <<>> /\ remaps = <<>> /\ bypassed = {}
    /\ fast_bypass = [t \in Tasks |-> 0] /\ write_map = [t \in Tasks |-> 0]
    /\ rd_finish = [t \in Tasks |-> "none"]
    /\ WdataToSend = <<>> /\ order = <<>> /\ mcOrder = <<>>
    /\ transactionQueue = {} /\ data_taken = FALSE
    /\ answered = {} /\ asserted = FALSE
-----------------------------------------------------------------------------
(***************************************************************************)
(* Conflicts.  address_conf compares the ends of one command with the      *)
(* range of one in front of it in the queue: it misses a command that      *)
(* reaches beyond the one in front on both sides.                          *)
(***************************************************************************)
address_conf(t, c) ==
    \/ t.left >= c.left /\ t.left < c.right
    \/ t.right > c.left /\ t.right <= c.right

Conflict(t, c) == ~(Read(t) /\ Read(c)) /\ address_conf(t, c)

(* cmd_set_conflict counts for a new entry what rebuild_conflict_state     *)
(* counts for every entry again: those in front of it in the queue that it *)
(* conflicts with.  A merged write stands where the older of its two       *)
(* stood, so who is in front may hold the newer command.                   *)
ConfCnt(q, e, n) == Cardinality({j \in 1 .. n : Conflict(e, q[j])})

(* Seeded mistake: the counts stay when a command leaves or merges.        *)
mut_rebuild_conflict_state(q) == q

rebuild_conflict_state(q) ==
    [i \in DOMAIN q |-> [q[i] EXCEPT !.conf = ConfCnt(q, q[i], i - 1)]]

AgeMax == IF WRITE_MERGE_TIMEOUT > 2 THEN WRITE_MERGE_TIMEOUT ELSE 2

NewEntry(t, c) ==
    [task |-> t, first |-> NoTask, kind |-> c.kind, left |-> c.left, right |-> c.right,
     ready |-> 0, state |-> "waiting", conf |-> ConfCnt(RmwQue, c, Len(RmwQue)), age |-> 0]
-----------------------------------------------------------------------------
(***************************************************************************)
(* Which full writes wait for a partner, and which pairs merge: the two    *)
(* halves of an aligned block of four units.                               *)
(***************************************************************************)
is_write_merge_candidate(c) == WCMD_MERGE_EN /\ c.kind = "full" /\ Beats(c) = 2

can_merge_write_pair(a, b) ==
    /\ is_write_merge_candidate(a) /\ is_write_merge_candidate(b)
    /\ \/ a.left % 4 = 0 /\ b.left = a.left + 2
       \/ b.left % 4 = 0 /\ a.left = b.left + 2

is_unpaired_write_merge_timeout(e) ==
    /\ is_write_merge_candidate(e)
    /\ WRITE_MERGE_TIMEOUT # 0 /\ e.age >= WRITE_MERGE_TIMEOUT

Partners(c) == {i \in DOMAIN RmwQue : /\ can_merge_write_pair(RmwQue[i], c)
                                      /\ ~is_unpaired_write_merge_timeout(RmwQue[i])}

(* The merged write takes the place of the first in the queue and the task *)
(* of the second; the data the first has got stays with it.                *)
(* Seeded mistake: the merged write starts without the data of the first.  *)
mut_build_merged(e, t, c) ==
    LET low == IF c.left < e.left THEN c.left ELSE e.left
    IN  [e EXCEPT !.task = t, !.first = e.task, !.left = low, !.right = low + 4,
                  !.ready = 0, !.state = "waiting", !.age = 0]

build_merged(e, t, c) ==
    LET low == IF c.left < e.left THEN c.left ELSE e.left
    IN  [e EXCEPT !.task = t, !.first = e.task, !.left = low, !.right = low + 4,
                  !.state = "waiting", !.age = 0]
-----------------------------------------------------------------------------
(***************************************************************************)
(* The controller: it takes a transaction when it has room, and expects    *)
(* the data of the writes in the order it took them.                       *)
(***************************************************************************)
room == Cardinality(transactionQueue) < TRANS_QUEUE_DEPTH

push_after_rmw(t, f, kind) ==
    transactionQueue' = transactionQueue \cup {[task |-> t, first |-> f, kind |-> kind]}

(* Seeded mistake: the data of the youngest write is taken first.          *)
mut_Expect(t, n) == mcOrder' = <<[task |-> t, beats |-> n]>> \o mcOrder

Expect(t, n) == mcOrder' = Append(mcOrder, [task |-> t, beats |-> n])

(* rmw_slot_cnt: commands in the queue, and commands that have left it and *)
(* whose data has not.                                                     *)
full == Len(RmwQue) + Len(order) >= RMW_QUE_DEPTH
-----------------------------------------------------------------------------
(***************************************************************************)
(* The driver makes a command and offers it until it is taken; the gate    *)
(* then expects its data (submitTransaction).                              *)
(***************************************************************************)
Pending == accepted < Len(cmds)
Task == accepted + 1
Cmd == cmds[Task]
Accept ==
    /\ At("cmd") /\ Then("data") /\ Pending
    /\ accepted' = accepted + 1
    /\ write_task' = IF Read(Cmd) THEN write_task ELSE write_task \o Copies(Task, Beats(Cmd))
    /\ UNCHANGED <<cmds, fast_bypass, sendVars, data_taken, answered>>

NewCommand ==
    /\ At("cmd") /\ ~Pending /\ Len(cmds) < NTasks
    /\ \E c \in Offers : cmds' = Append(cmds, c)
    /\ UNCHANGED <<config, phase, accepted, write_task, RmwQue, mergeVars, rd_finish, sendVars,
                   dataVars, mcVars>>

NoCommand ==
    /\ At("cmd") /\ Then("data") /\ ~Pending
    /\ UNCHANGED <<hostVars, RmwQue, mergeVars, rd_finish, sendVars, dataVars, mcVars>>

(* handle_write_merge_transaction finds a partner.  The data of the first  *)
(* that is still to come gets a new address: an entry in                   *)
(* write_merge_data_remaps or, in mode 2, in bypassed_merged_writes.       *)
Merge ==
    /\ Accept
    /\ Partners(Cmd) # {}
    /\ LET i == First(Partners(Cmd))
           e == RmwQue[i]
           left == Beats(e) - e.ready
       IN  /\ RmwQue' = rebuild_conflict_state([RmwQue EXCEPT ![i] = build_merged(e, Task, Cmd)])
           /\ IF RMW_CMD_MODE = 2
              THEN /\ bypassed' = bypassed \cup
                          {[first |-> e.task, merged |-> Task, r1 |-> left, r2 |-> Beats(Cmd)]}
                   /\ UNCHANGED remaps
              ELSE /\ remaps' = IF left = 0 THEN remaps
                                ELSE Append(remaps, [src |-> e.task, dst |-> Task, left |-> left])
                   /\ UNCHANGED bypassed
           /\ write_map' = [write_map EXCEPT ![Task] = Beats(e) + Beats(Cmd),
                                             ![e.task] = IF RMW_CMD_MODE = 1 THEN 0 ELSE @]
    /\ UNCHANGED <<rd_finish, mcOrder, transactionQueue>>

rd_begin(c) == [rd_finish EXCEPT ![Task] = IF c.kind = "mask" THEN "open" ELSE @]

(* A command that finds the queue empty goes straight to the controller,   *)
(* unless its data has to be waited for.                                   *)
Bypasses(c) ==
    /\ RmwQue = <<>> /\ ~is_write_merge_candidate(c)
    /\ Read(c) \/ (c.kind = "full" /\ RMW_CMD_MODE = 0)

Enqueue ==
    /\ Accept
    /\ Partners(Cmd) = {} /\ ~full /\ ~Bypasses(Cmd)
    /\ RmwQue' = Append(RmwQue, NewEntry(Task, Cmd))
    /\ rd_finish' = rd_begin(Cmd)
    /\ write_map' = [write_map EXCEPT ![Task] = IF Read(Cmd) THEN 0 ELSE Beats(Cmd)]
    /\ UNCHANGED <<remaps, bypassed, mcOrder, transactionQueue>>

Bypass ==
    /\ Accept
    /\ ~full /\ Bypasses(Cmd) /\ room
    /\ push_after_rmw(Task, NoTask, IF Read(Cmd) THEN "read" ELSE "write")
    /\ IF Read(Cmd) THEN UNCHANGED <<write_map, mcOrder>>
       ELSE /\ write_map' = [write_map EXCEPT ![Task] = Beats(Cmd)]
            /\ Expect(Task, Beats(Cmd))
    /\ UNCHANGED <<RmwQue, remaps, bypassed, rd_finish>>

Refused ==
    /\ At("cmd") /\ Then("data") /\ Pending
    /\ Partners(Cmd) = {}
    /\ full \/ (Bypasses(Cmd) /\ (~room \/ AREF_EN))
    /\ UNCHANGED <<hostVars, RmwQue, mergeVars, rd_finish, sendVars, dataVars, mcVars>>
-----------------------------------------------------------------------------
(***************************************************************************)
(* The data.  MemorySystem::submitData gives a beat to the controller,     *)
(* which takes one per cycle and only of the write it expects first.       *)
(***************************************************************************)
Took(o) == IF o = <<>> THEN o
           ELSE IF o[1].beats = 1 THEN Tail(o) ELSE [o EXCEPT ![1].beats = @ - 1]

canReceiveWdata(t) == mcOrder # <<>> /\ mcOrder[1].task = t

FullQueued(t) == \E i \in DOMAIN RmwQue : RmwQue[i].task = t /\ RmwQue[i].kind = "full"

CanSubmit(t) ==
    /\ canReceiveWdata(t) /\ ~data_taken
    /\ ~(RMW_CMD_MODE = 0 /\ FullQueued(t))
    /\ write_map[t] > 0

submitData(t) ==
    /\ CanSubmit(t)
    /\ mcOrder' = Took(mcOrder) /\ data_taken' = TRUE
    /\ write_map' = [write_map EXCEPT ![t] = @ - 1]

(* check_write_data: the beats go to the writes in the order in which they *)
(* left the queue, or the program stops.                                   *)
check_write_data(t) ==
    IF order # <<>> /\ order[1].task = t THEN order' = Took(order) /\ UNCHANGED asserted
    ELSE asserted' = TRUE /\ UNCHANGED order

has_queued_write_data(t) == Count(WdataToSend, t) > 0

(* remap_write_merge_data: does it find a new address for a beat of t, and *)
(* does the beat get there?  If not, addData goes on as if there was none. *)
BypassedOf(t) == {b \in bypassed : \/ t = b.first /\ b.r1 > 0
                                   \/ t = b.merged /\ b.r2 > 0}
RemapsOf(t) == {n \in DOMAIN remaps : remaps[n].src = t}
Holder(t) == {i \in DOMAIN RmwQue : RmwQue[i].task = t /\ ~Read(RmwQue[i])}
Lacking(t) == {i \in Holder(t) : RmwQue[i].ready < Beats(RmwQue[i])}

RemapFits(n) == IF RMW_CMD_MODE = 1 THEN Lacking(remaps[n].dst) # {}
                ELSE CanSubmit(remaps[n].dst)

MergedFits(b) == ~has_queued_write_data(b.merged) /\ CanSubmit(b.merged)

Route(t) ==
    IF \E b \in BypassedOf(t) : MergedFits(b) THEN "bypassed"
    ELSE IF RemapsOf(t) # {} /\ RemapFits(First(RemapsOf(t))) THEN "remap"
    ELSE IF fast_bypass[t] > 0 THEN "fast"
    ELSE IF Lacking(t) # {} THEN "queue"
    ELSE IF Holder(t) # {} THEN "dropped"
    ELSE "controller"

(* A beat by the route r.  No action takes the route "dropped", where the  *)
(* code accepts a beat that a queued write has no use for: were it ever    *)
(* taken, the model would stop.                                            *)
Beat(r) ==
    /\ At("data") /\ Then("sch")
    /\ write_task # <<>> /\ Route(Head(write_task)) = r
    /\ write_task' = Tail(write_task)
    /\ UNCHANGED <<cmds, accepted, rd_finish, WdataToSend, mcVars>>

ready_beat(i) == [RmwQue EXCEPT ![i].ready = @ + 1]

BeatToMerged ==
    /\ Beat("bypassed")
    /\ \E b \in BypassedOf(Head(write_task)) :
          /\ submitData(b.merged) /\ ~has_queued_write_data(b.merged)
          /\ check_write_data(b.merged)
          /\ LET c == IF Head(write_task) = b.first THEN [b EXCEPT !.r1 = @ - 1]
                      ELSE [b EXCEPT !.r2 = @ - 1]
             IN  bypassed' = (bypassed \ {b}) \cup (IF c.r1 = 0 /\ c.r2 = 0 THEN {} ELSE {c})
    /\ UNCHANGED <<RmwQue, fast_bypass, remaps>>

BeatRemapped ==
    /\ Beat("remap")
    /\ LET n == First(RemapsOf(Head(write_task)))
           dst == remaps[n].dst
       IN  /\ remaps' = IF remaps[n].left = 1 THEN EraseAt(remaps, n)
                        ELSE [remaps EXCEPT ![n].left = @ - 1]
           /\ IF RMW_CMD_MODE = 1
              THEN /\ RmwQue' = ready_beat(First(Lacking(dst)))
                   /\ UNCHANGED <<dataVars, order, asserted>>
              ELSE /\ submitData(dst) /\ check_write_data(dst)
                   /\ UNCHANGED RmwQue
    /\ UNCHANGED <<fast_bypass, bypassed>>

(* The rest of a write that left the queue without all of its data.        *)
BeatFast ==
    /\ Beat("fast")
    /\ LET t == Head(write_task)
       IN  /\ submitData(t) /\ ~has_queued_write_data(t)
           /\ check_write_data(t)
           /\ fast_bypass' = [fast_bypass EXCEPT ![t] = @ - 1]
    /\ UNCHANGED <<RmwQue, remaps, bypassed>>

BeatQueued ==
    /\ Beat("queue")
    /\ RmwQue' = ready_beat(First(Lacking(Head(write_task))))
    /\ UNCHANGED <<mergeVars, order, asserted, dataVars>>

(* The data of a write Rmw does not hold goes on without a check.          *)
BeatPassed ==
    /\ Beat("controller")
    /\ submitData(Head(write_task))
    /\ UNCHANGED <<RmwQue, mergeVars, order, asserted>>

NoBeat ==
    /\ At("data") /\ Then("sch")
    /\ write_task # <<>> =>
          LET t == Head(write_task)
          IN  \/ Route(t) = "fast" /\ (~CanSubmit(t) \/ has_queued_write_data(t))
              \/ Route(t) = "controller" /\ ~CanSubmit(t)
    /\ UNCHANGED <<hostVars, RmwQue, mergeVars, rd_finish, sendVars, dataVars, mcVars>>
-----------------------------------------------------------------------------
(***************************************************************************)
(* sch_que: a mask write is ready with its data and the data read; a full  *)
(* write is ready with its data, in mode 1 and when nobody comes to merge. *)
(* With UNPAIRED_TO_RMW_EN the latter becomes a mask write of twice the    *)
(* length.                                                                 *)
(***************************************************************************)
Filled(e) == e.ready >= Beats(e)
MaskReady(e) == e.kind = "mask" /\ Filled(e) /\ rd_finish[e.task] = "back"
Converted(e) == UNPAIRED_TO_RMW_EN /\ e.kind = "full" /\ is_unpaired_write_merge_timeout(e)

(* Seeded mistake: a mask write does not wait for the data of its read.    *)
mut_NowReady(e) ==
    \/ e.kind = "mask" /\ Filled(e)
    \/ e.kind = "full" /\ Filled(e) /\ RMW_CMD_MODE = 1
    \/ is_unpaired_write_merge_timeout(e) /\ Filled(e) /\ ~UNPAIRED_TO_RMW_EN

NowReady(e) ==
    \/ MaskReady(e)
    \/ e.kind = "full" /\ Filled(e) /\ RMW_CMD_MODE = 1
    \/ is_unpaired_write_merge_timeout(e) /\ Filled(e) /\ ~UNPAIRED_TO_RMW_EN

sch_entry(e) ==
    LET s == IF NowReady(e) THEN [e EXCEPT !.state = "ready"] ELSE e
    IN  IF Converted(e) THEN [s EXCEPT !.kind = "mask", !.right = @ + Beats(e)] ELSE s

SchQue ==
    /\ At("sch") /\ Then("arb")
    /\ RmwQue' = [i \in DOMAIN RmwQue |-> sch_entry(RmwQue[i])]
    /\ rd_finish' = [t \in Tasks |->
          IF \E i \in Holder(t) : MaskReady(RmwQue[i]) THEN "none"
          ELSE IF \E i \in Holder(t) : Converted(RmwQue[i]) THEN "open"
          ELSE rd_finish[t]]
    /\ UNCHANGED <<hostVars, mergeVars, sendVars, dataVars, mcVars>>
-----------------------------------------------------------------------------
(***************************************************************************)
(* arb_node: the oldest command that may go, if the controller takes it.   *)
(* A refusal for want of room leaves the others no chance either.          *)
(***************************************************************************)
arb_time(e) == IF Read(e) THEN 1 ELSE 2

(* Seeded mistake: a write does not give up waiting for a partner.         *)
mut_MayGoPaired(e) ==
    /\ e.age >= arb_time(e)
    /\ e.conf = 0
    /\ ~(e.kind = "mask" /\ e.state = "merge_read")
    /\ ~is_write_merge_candidate(e)
    /\ e.kind = "full" /\ RMW_CMD_MODE = 1 => e.state = "ready"

MayGo(e) ==
    /\ e.age >= arb_time(e)
    /\ e.conf = 0
    /\ ~(e.kind = "mask" /\ e.state = "merge_read")
    /\ is_write_merge_candidate(e) => is_unpaired_write_merge_timeout(e)
    /\ e.kind = "full" /\ RMW_CMD_MODE = 1 => e.state = "ready"

Eligible == {i \in DOMAIN RmwQue : MayGo(RmwQue[i])}
NeedsRead(e) == e.kind = "mask" /\ e.state # "ready"

Arb == At("arb") /\ Then("wdata") /\ UNCHANGED <<hostVars, rd_finish, answered>>
Turn == Arb /\ Eligible # {} /\ room
Next1 == First(Eligible)

(* The read goes out as a copy of the mask write, under its task.          *)
SendMergeRead ==
    /\ Turn /\ NeedsRead(RmwQue[Next1])
    /\ push_after_rmw(RmwQue[Next1].task, NoTask, "merge")
    /\ RmwQue' = [RmwQue EXCEPT ![Next1].state = "merge_read"]
    /\ UNCHANGED <<mergeVars, sendVars, dataVars>>

SendRead ==
    /\ Turn /\ Read(RmwQue[Next1])
    /\ push_after_rmw(RmwQue[Next1].task, NoTask, "read")
    /\ RmwQue' = rebuild_conflict_state(EraseAt(RmwQue, Next1))
    /\ UNCHANGED <<mergeVars, sendVars, dataVars>>

Buffered(e) == IF e.kind = "mask" \/ RMW_CMD_MODE = 1 THEN Beats(e) ELSE e.ready

(* Seeded mistake: the order waits for a beat too many.                    *)
mut_track_write_command(e) == Append(order, [task |-> e.task, beats |-> Beats(e) + 1])

track_write_command(e) == Append(order, [task |-> e.task, beats |-> Beats(e)])

(* A write goes with the data Rmw holds for it, and the rest follows by    *)
(* itself.  Here merged_write_tasks learns the task merged away.           *)
SendWrite ==
    /\ Turn /\ ~Read(RmwQue[Next1]) /\ ~NeedsRead(RmwQue[Next1])
    /\ LET e == RmwQue[Next1]
       IN  /\ push_after_rmw(e.task, e.first, "write")
           /\ Expect(e.task, Beats(e))
           /\ order' = track_write_command(e)
           /\ WdataToSend' = WdataToSend \o Copies(e.task, Buffered(e))
           /\ fast_bypass' = IF Buffered(e) < Beats(e) /\ ~(e.first # NoTask /\ RMW_CMD_MODE = 2)
                             THEN [fast_bypass EXCEPT ![e.task] = Beats(e) - Buffered(e)]
                             ELSE fast_bypass
           /\ RmwQue' = rebuild_conflict_state(EraseAt(RmwQue, Next1))
    /\ UNCHANGED <<remaps, bypassed, asserted, write_map, data_taken>>

(* MemoryController::addTransaction resets a transaction (trans_state_init)*)
(* before it sees the refresh backlog and refuses; the loop offers every   *)
(* command, but the read of a mask write as a copy.                        *)
BacklogRefuses ==
    /\ Turn /\ AREF_EN
    /\ RmwQue' = [i \in DOMAIN RmwQue |->
          IF i \in Eligible /\ ~NeedsRead(RmwQue[i]) THEN [RmwQue[i] EXCEPT !.ready = 0]
          ELSE RmwQue[i]]
    /\ UNCHANGED <<mergeVars, sendVars, dataVars, transactionQueue>>

NoneSent ==
    /\ Arb /\ (Eligible = {} \/ ~room)
    /\ UNCHANGED <<RmwQue, mergeVars, sendVars, dataVars, transactionQueue>>
-----------------------------------------------------------------------------
SendWdata ==
    /\ At("wdata") /\ Then("mc")
    /\ WdataToSend # <<>>
    /\ submitData(Head(WdataToSend)) /\ check_write_data(Head(WdataToSend))
    /\ WdataToSend' = Tail(WdataToSend)
    /\ UNCHANGED <<hostVars, RmwQue, mergeVars, rd_finish, mcVars>>

NoWdata ==
    /\ At("wdata") /\ Then("mc")
    /\ WdataToSend # <<>> => ~CanSubmit(Head(WdataToSend))
    /\ UNCHANGED <<hostVars, RmwQue, mergeVars, rd_finish, sendVars, dataVars, mcVars>>
-----------------------------------------------------------------------------
(***************************************************************************)
(* The controller finishes transactions in an order of its own, a write    *)
(* once it has its data.  The read of a mask write tells Rmw; the response *)
(* of a merged write answers both its tasks.  The cycle ends.              *)
(***************************************************************************)
Ages == RmwQue' = [i \in DOMAIN RmwQue |->
                      [RmwQue[i] EXCEPT !.age = IF @ < AgeMax THEN @ + 1 ELSE @]]

HasData(t) == \A i \in DOMAIN mcOrder : mcOrder[i].task # t

Answers(x) == IF x.kind = "merge" THEN {} ELSE {x.task, x.first} \ {NoTask}

Finish(x) ==
    /\ At("mc") /\ Then("cmd")
    /\ x \in transactionQueue /\ (x.kind = "write" => HasData(x.task))
    /\ transactionQueue' = transactionQueue \ {x}
    /\ answered' = answered \cup Answers(x)
    /\ rd_finish' = IF x.kind = "merge" THEN [rd_finish EXCEPT ![x.task] = "back"]
                    ELSE rd_finish
    /\ Ages /\ data_taken' = FALSE
    /\ UNCHANGED <<hostVars, mergeVars, sendVars, write_map, mcOrder>>

FinishNone ==
    /\ At("mc") /\ Then("cmd")
    /\ Ages /\ data_taken' = FALSE
    /\ UNCHANGED <<hostVars, mergeVars, rd_finish, sendVars, write_map, mcOrder, mcVars>>
-----------------------------------------------------------------------------
(* A failed assertion ends the program.                                    *)
Stopped == asserted /\ UNCHANGED vars

Next ==
    \/ NewCommand \/ NoCommand
    \/ Merge \/ Enqueue \/ Bypass \/ Refused
    \/ BeatToMerged \/ BeatRemapped \/ BeatFast \/ BeatQueued \/ BeatPassed \/ NoBeat
    \/ SchQue
    \/ SendMergeRead \/ SendRead \/ SendWrite \/ BacklogRefuses \/ NoneSent
    \/ SendWdata \/ NoWdata
    \/ (\E x \in transactionQueue : Finish(x)) \/ FinishNone
    \/ Stopped

Spec == Init /\ [][Next]_vars

(* The cycles go on, and the controller finishes each transaction whose    *)
(* data it has; that it has room now and then follows.                     *)
Fairness ==
    /\ WF_vars(Next)
    /\ \A t \in Tasks : SF_vars(\E x \in transactionQueue : x.task = t /\ Finish(x))

FairSpec == Spec /\ Fairness
-----------------------------------------------------------------------------
(***************************************************************************)
(* What must hold.                                                         *)
(***************************************************************************)
Entries == [task : Tasks, first : Tasks \cup {NoTask}, kind : {"read", "full", "mask"},
            left : Nat, right : Nat, ready : Nat, state : {"waiting", "merge_read", "ready"},
            conf : Nat, age : 0 .. AgeMax]

(* The state keeps its shape; no entry has more data than its burst, and a *)
(* read never leaves the waiting state (the assertion in arb_node).        *)
TypeOK ==
    /\ config \in Configs
    /\ phase \in {"cmd", "data", "sch", "arb", "wdata", "mc"}
    /\ cmds \in Seq(Offers) /\ accepted \in 0 .. Len(cmds) /\ Len(cmds) <= NTasks
    /\ write_task \in Seq(Tasks)
    /\ RmwQue \in Seq(Entries)
    /\ \A e \in Range1(RmwQue) : e.ready <= Beats(e) /\ (Read(e) => e.state = "waiting")
    /\ fast_bypass \in [Tasks -> Nat] /\ write_map \in [Tasks -> Nat]
    /\ remaps \in Seq([src : Tasks, dst : Tasks, left : Nat \ {0}])
    /\ bypassed \subseteq [first : Tasks, merged : Tasks, r1 : Nat, r2 : Nat]
    /\ rd_finish \in [Tasks -> {"none", "open", "back"}]
    /\ WdataToSend \in Seq(Tasks)
    /\ order \in Seq([task : Tasks, beats : Nat \ {0}])
    /\ mcOrder \in Seq([task : Tasks, beats : Nat \ {0}])
    /\ transactionQueue \subseteq [task : Tasks, first : Tasks \cup {NoTask},
                                   kind : {"read", "merge", "write"}]
    /\ {data_taken, asserted} \subseteq BOOLEAN
    /\ answered \subseteq Tasks

Given(t) == IF t = NoTask \/ t > accepted \/ Read(cmds[t]) THEN 0
            ELSE Beats(cmds[t]) - Count(write_task, t)
Burst(t) == IF t = NoTask THEN 0 ELSE Beats(cmds[t])
Owed(t) == IF \E w \in Range1(mcOrder) : w.task = t
           THEN (CHOOSE w \in Range1(mcOrder) : w.task = t).beats ELSE 0

(* No beat of write data is lost or counted twice on its way, however it   *)
(* is held, remapped or passed on: a queued write has all the beats the    *)
(* driver has sent for its one or two tasks, and of a write that has left  *)
(* the controller still expects what the driver or Rmw has yet to send.    *)
(* A refresh backlog is left out: BacklogRefuses forgets what has come.    *)
WdataKept ==
    ~AREF_EN =>
    /\ \A e \in Range1(RmwQue) : ~Read(e) => e.ready = Given(e.task) + Given(e.first)
    /\ \A x \in transactionQueue : x.kind = "write" =>
          Owed(x.task) = (Burst(x.task) - Given(x.task)) + (Burst(x.first) - Given(x.first))
                             + Count(WdataToSend, x.task)

Tracked == {i \in DOMAIN mcOrder : \E w \in Range1(order) : w.task = mcOrder[i].task}

(* Rmw and the controller agree on whose data comes next: what Rmw checks  *)
(* the beats against is the controller's own order, but for the writes     *)
(* that found the queue empty and were not tracked, and the beats come in  *)
(* that order.  Otherwise the one or the other would stop the program with *)
(* a WDATA ORDER ERROR (RMW.cpp:1178).  In mode 2 that does happen: a beat *)
(* that remap_write_merge_data holds back goes on unchecked.               *)
OrdersInStep ==
    RMW_CMD_MODE # 2 =>
        /\ ~asserted
        /\ \E f \in [DOMAIN order -> Tracked] :
              /\ \A i, j \in DOMAIN order : i < j => f[i] < f[j]
              /\ \A k \in Tracked : \E i \in DOMAIN order : f[i] = k
              /\ \A i \in DOMAIN order : order[i] = mcOrder[f[i]]

Overlap(a, b) == a.left < b.right /\ b.left < a.right /\ ~(Read(a) /\ Read(b))
Gone(i) == \A j \in DOMAIN RmwQue' : RmwQue'[j].task # RmwQue[i].task /\
                                     RmwQue'[j].first # RmwQue[i].task
Leaves(i) == Gone(i) \/ \E x \in transactionQueue' \ transactionQueue : x.task = RmwQue[i].task

(* The commands an entry stands for, and the two ways in which one of them *)
(* may pass an older one.  It was merged into a write that is older still  *)
(* and has taken its place (handle_write_merge_transaction), or the entry  *)
(* reaches beyond the other on both sides (address_conf).                  *)
TasksOf(e) == {e.task, e.first} \ {NoTask}
Carried(e, a) == e.first # NoTask /\ e.first < a
Beyond(e, d) == e.left < d.left /\ d.right < e.right

(* No command leaves the queue, and no mask write reads, while an older    *)
(* command that touches the same memory is in it: a read would get old     *)
(* data, a write be overwritten by older data.  But for the two ways above *)
(* this holds of the commands as the driver made them, by their tasks and  *)
(* their own addresses, however they were merged and counted again.        *)
ConflictsOrdered ==
    [][\A i, j \in DOMAIN RmwQue : i # j /\ Leaves(i) =>
          \A b \in TasksOf(RmwQue[i]), a \in TasksOf(RmwQue[j]) :
              a < b /\ Overlap(cmds[b], cmds[a]) =>
                  Carried(RmwQue[i], a) \/ Beyond(RmwQue[i], RmwQue[j])]_vars

(* The slots are never overdrawn: rmw_que_cnt.at in check_cnt would throw. *)
SlotsBounded == Len(RmwQue) + Len(order) <= RMW_QUE_DEPTH

Places(t) ==
    Cardinality({i \in DOMAIN RmwQue : RmwQue[i].task = t})
    + Cardinality({i \in DOMAIN RmwQue : RmwQue[i].first = t})
    + Cardinality({x \in transactionQueue : x.kind # "merge" /\ t \in {x.task, x.first}})
    + (IF t \in answered THEN 1 ELSE 0)

(* Every accepted command is served once: it is waiting in Rmw, or in the  *)
(* controller, or answered, by itself or as one half of a merged write.    *)
ServedOnce == \A t \in Tasks : Places(t) = (IF t <= accepted THEN 1 ELSE 0)

Merging(t) == \E x \in transactionQueue : x.task = t /\ x.kind = "merge"

(* A mask write and its read never pass each other: the read is sent once, *)
(* while the write waits for it in the queue with an open rmw_rd_finish    *)
(* ("Merge Read Data Mismatch" otherwise), and the write is ready only     *)
(* with the data read and all of its own sent.                             *)
MergeReadFirst ==
    /\ \A t \in Tasks : Merging(t) =>
          /\ rd_finish[t] = "open"
          /\ \E e \in Range1(RmwQue) : e.task = t /\ e.state = "merge_read"
    /\ \A e \in Range1(RmwQue) : (e.kind = "mask" /\ e.state = "ready") =>
          Given(e.task) = Beats(e) /\ rd_finish[e.task] = "none"
    /\ \A e \in Range1(RmwQue) : (e.kind = "mask" /\ e.state = "merge_read") =>
          (Merging(e.task) <=> rd_finish[e.task] = "open")

(* Nothing is left behind when everything is answered: no order to follow, *)
(* no beat to move, no data expected.  A leftover would hold a slot or     *)
(* stand in the way of the next write.  In modes 0 and 2 write_map and     *)
(* fast_bypass keep counts of the tasks of a merged write that nobody      *)
(* reads again, and in mode 2 the order may keep a beat (OrdersInStep).    *)
NothingLeft ==
    answered = 1 .. accepted =>
        /\ RmwQue = <<>> /\ mcOrder = <<>> /\ WdataToSend = <<>> /\ write_task = <<>>
        /\ RMW_CMD_MODE # 2 => order = <<>> /\ remaps = <<>> /\ bypassed = {}
        /\ \A t \in Tasks : rd_finish[t] = "none"
        /\ RMW_CMD_MODE = 1 => \A t \in Tasks : write_map[t] = 0 /\ fast_bypass[t] = 0

(* The queue of Rmw: typed, with as many entries as it has slots, every    *)
(* command in one place and nothing behind it (addTransaction to arb_node).*)
QueueSound == TypeOK /\ SlotsBounded /\ ServedOnce /\ NothingLeft

(* Every accepted command is answered in the end, a write that waits for a *)
(* partner and both halves of a merged write among them.                   *)
EveryCommandAnswered == \A t \in Tasks : (t <= accepted) ~> (t \in answered)
=============================================================================
