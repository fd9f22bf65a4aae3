---------------------------- MODULE WriteBuffer ----------------------------
(***************************************************************************)
(* WriteBuff (write_buffer.cpp): the two buffers in front of the queue of  *)
(* the controller.  Reads pass while the buffer is idle; writes are held   *)
(* back and sent in groups.                                                *)
(*                                                                         *)
(* A read waits for counters, one for the writes of its address in the     *)
(* buffer and one for the commands of its address in the queue, which are  *)
(* set when it arrives and counted down by other handlers.  A write waits  *)
(* for none.                                                               *)
(*                                                                         *)
(* An address is <<line, half>>; a line lies in one bank and row.  Which   *)
(* banks, bank groups and ranks the controller has no use for at the       *)
(* moment, and which commands it ends, is left open.  One rank count,      *)
(* row-hit orders and the counters that only logs show are left out.       *)
(***************************************************************************)
EXTENDS Integers, FiniteSets, Sequences, FiniteSetsExt, SequencesExt

CONSTANTS
    NTasks,             \* requests, numbered as they come
    Asks,               \* the requests that may come: type, addr, pri (its qos)
    Configs,
    WB_RDEPTH, WB_WDEPTH, TRANS_QUEUE_DEPTH,
    BEATS,              \* data beats of a write of 64 bytes
    RARB, WARB,         \* 6, 8: cycles before a read, a write is arbitrated
    GBUF_RCMD_TIMEOUT, GBUF_WCMD_PRIADAPT,
    wr_level, rd_level, \* the five levels that start a group of writes
    WR_MOST_LEVEL, NO_CMD_SCH_TH,
    GAP,                \* 8, 16: gaps after a group, in state_trig 5 and else
    IDLE_TRIG           \* 255: cycles without reads that start a group

Ask    == [type : {"READ", "WRITE"}, addr : Nat \X {0, 1}, pri : Nat]
Config == [front : {"rmw", "ecc", "direct"}, merge : BOOLEAN, forward : BOOLEAN, byp : BOOLEAN,
           push : {"none", "pri", "timeout"}, backlog : BOOLEAN]
    \* MERGE_ENABLE, FORWARD_ENABLE, DYN_BYP_EN, RQ_ADCONF_PUSH_EN with grp_mode6;
    \* front: Rmw holds the data of a write before it sends it on, Inline_ECC
    \* and, without them, the driver send the data after the write;
    \* backlog: refreshes may pile up, so that the controller takes nothing
    \* (with the data of Rmw: those of a refused write do not come again)

ASSUME WriteBufferAssumption ==
    /\ NTasks \in Nat
    /\ \A a \in Asks : a \in Ask
    /\ \A c \in Configs : c \in Config /\ (c.backlog => c.front = "rmw")
    /\ {WB_RDEPTH, WB_WDEPTH, TRANS_QUEUE_DEPTH, BEATS, WR_MOST_LEVEL} \subseteq Nat \ {0}
    /\ {RARB, WARB, GBUF_RCMD_TIMEOUT, GBUF_WCMD_PRIADAPT} \subseteq Nat \ {0}
    /\ {NO_CMD_SCH_TH, IDLE_TRIG} \subseteq Nat
    /\ \A k \in 1..5 : {wr_level[k], rd_level[k]} \subseteq Nat
    /\ \A k \in 1..2 : GAP[k] \in Nat

VARIABLES
    config, next,       \* the task of the next request
    added,              \* pre_req_time = now(): one has come in this cycle
    Rbuff, Wbuff,
    wbuff_state, state_trig, wbuff_state_gap,
    no_cmd_sch_cnt, ser_write_cnt, idle_trig_time,
    wr_timeout_cnt,
    until_adapt,        \* cycles until GBUF_WCMD_PRIADAPT is over again
    WdataToSend,        \* tasks, one for each beat
    queue,              \* transactionQueue of the controller
    wdata_order_queue,  \* of the controller: tasks, one for each beat expected
    order_error,        \* receiveFromCPU: MC WDATA ORDER ERROR
    left                \* history: what has been sent to the controller

bufVars   == <<Rbuff, Wbuff, wr_timeout_cnt>>
stateVars == <<wbuff_state, state_trig, wbuff_state_gap, no_cmd_sch_cnt, ser_write_cnt,
               idle_trig_time, until_adapt>>
dmcVars   == <<WdataToSend, queue, wdata_order_queue, order_error, left>>
vars == <<config, next, added, bufVars, stateVars, dmcVars>>

Init ==
    /\ config \in Configs /\ next = 1 /\ added = FALSE
    /\ Rbuff = <<>> /\ Wbuff = <<>> /\ wr_timeout_cnt = 0
    /\ wbuff_state = "IDLE" /\ state_trig = 0 /\ wbuff_state_gap = 0
    /\ no_cmd_sch_cnt = 0 /\ ser_write_cnt = 0 /\ idle_trig_time = 0
    /\ until_adapt = GBUF_WCMD_PRIADAPT
    /\ WdataToSend = <<>> /\ queue = {} /\ wdata_order_queue = <<>>
    /\ order_error = FALSE /\ left = {}
-----------------------------------------------------------------------------
full       == Cardinality(queue) >= TRANS_QUEUE_DEPTH
Read_Cnt   == Cardinality({q \in queue : q.type = "READ"})
less(n)    == IF n = 0 THEN 0 ELSE n - 1                    \* PROTECT_SUB
(* How many commands of the address are in the buffer or the queue.        *)
Held(S, a) == Cardinality({c \in S : c.addr = a})

(***************************************************************************)
(* addTransaction: a read may be answered from the buffer or urge the      *)
(* writes of its address on; a write may be merged into the other half of  *)
(* its line, which then has the column of the lower half.                  *)
(***************************************************************************)
Forwards(a) == config.forward /\ \E i \in DOMAIN Wbuff : Wbuff[i].ready /\ Wbuff[i].addr = a
Partners(a) == {i \in DOMAIN Wbuff : /\ ~Wbuff[i].wide /\ Wbuff[i].ready
                                     /\ Wbuff[i].addr = <<a[1], 1 - a[2]>>}

(* rcmd_push_wcmd: it counts a write that has timed out already once more. *)
Urge(w) == IF config.push = "pri" THEN [w EXCEPT !.pri = 1] ELSE [w EXCEPT !.timeout = TRUE]
Urged(a) == IF config.push = "timeout" THEN Held(ToSet(Wbuff), a) ELSE 0
push_wcmd(a) ==
    IF config.push = "none" THEN UNCHANGED <<Wbuff, wr_timeout_cnt>>
    ELSE /\ Wbuff' = [i \in DOMAIN Wbuff |-> IF Wbuff[i].addr = a THEN Urge(Wbuff[i]) ELSE Wbuff[i]]
         /\ wr_timeout_cnt' = wr_timeout_cnt + Urged(a)

(* rcmd_set_conflict, rcmd_set_timeout and the bypass.                     *)
NewRead(k) == [task |-> next, addr |-> k.addr, pri |-> k.pri, wait |-> 0, timeout |-> FALSE,
               active |-> config.byp /\ ~full,
               gbuf |-> Held(ToSet(Wbuff), k.addr), dmc |-> Held(queue, k.addr)]
NewWrite(k) == [task |-> next, addr |-> k.addr, qos |-> k.pri, pri |-> k.pri, wait |-> 0,
                timeout |-> FALSE, ready |-> config.front = "rmw", wide |-> FALSE]

Comes == /\ ~added /\ next <= NTasks /\ ~order_error
         /\ Len(Rbuff) < WB_RDEPTH /\ Len(Wbuff) < WB_WDEPTH
         /\ next' = next + 1 /\ added' = TRUE

AddForwarded(k) ==
    /\ Comes /\ k.type = "READ" /\ Forwards(k.addr)
    /\ UNCHANGED <<config, bufVars, stateVars, dmcVars>>

AddRead(k) ==
    /\ Comes /\ k.type = "READ" /\ ~Forwards(k.addr)
    /\ push_wcmd(k.addr)
    /\ Rbuff' = Append(Rbuff, NewRead(k))
    /\ UNCHANGED <<config, stateVars, dmcVars>>

AddMerged(k) ==
    /\ Comes /\ k.type = "WRITE" /\ config.merge /\ Partners(k.addr) # {}
    /\ Wbuff' = [Wbuff EXCEPT ![Min(Partners(k.addr))] =
                    [@ EXCEPT !.wide = TRUE, !.addr = <<k.addr[1], 0>>]]
    /\ UNCHANGED <<config, Rbuff, wr_timeout_cnt, stateVars, dmcVars>>

AddWrite(k) ==
    /\ Comes /\ k.type = "WRITE" /\ (config.merge => Partners(k.addr) = {})
    /\ Wbuff' = Append(Wbuff, NewWrite(k))
    /\ UNCHANGED <<config, Rbuff, wr_timeout_cnt, stateVars, dmcVars>>

(* addData.  Inline_ECC sends the data of its writes in their order; the   *)
(* driver's are let in (submitData) when the controller expects them.      *)
Incomplete == {i \in DOMAIN Wbuff : ~Wbuff[i].ready}
canReceiveWdata(task) == wdata_order_queue # <<>> /\ Head(wdata_order_queue) = task

AddData ==
    /\ Incomplete # {} /\ ~order_error
    /\ LET i == Min(Incomplete)
       IN /\ \/ config.front = "ecc"
             \/ config.front = "direct" /\ canReceiveWdata(Wbuff[i].task)
          /\ Wbuff' = [Wbuff EXCEPT ![i].ready = TRUE]
    /\ UNCHANGED <<config, next, added, Rbuff, wr_timeout_cnt, stateVars, dmcVars>>

(* dmc_release_conflict: the controller has ended a command.               *)
Release(q) ==
    /\ q \in queue /\ ~order_error
    /\ queue' = queue \ {q}
    /\ Rbuff' = [i \in DOMAIN Rbuff |->
                    IF Rbuff[i].addr = q.addr THEN [Rbuff[i] EXCEPT !.dmc = less(@)] ELSE Rbuff[i]]
    /\ UNCHANGED <<config, next, added, Wbuff, wr_timeout_cnt, stateVars, WdataToSend,
                   wdata_order_queue, order_error, left>>
-----------------------------------------------------------------------------
(***************************************************************************)
(* update_state_trig: what makes the buffer turn to the writes.  A write   *)
(* that has timed out counts last; wr_timeout_cnt is that of the cycle     *)
(* before.                                                                 *)
(***************************************************************************)
rd_cnt    == Read_Cnt + Len(Rbuff)
LevelTrig == {k \in 1..5 : /\ Len(Wbuff) > wr_level[k] /\ (k < 5 => Len(Wbuff) <= wr_level[k + 1])
                           /\ rd_cnt < rd_level[k]}
IdleTrig  == LevelTrig = {} /\ Wbuff # <<>> /\ rd_cnt = 0
Idle      == wbuff_state = "IDLE"


Trig == IF ~Idle THEN state_trig
        ELSE IF LevelTrig # {} THEN Max(LevelTrig)
        ELSE IF (IdleTrig /\ idle_trig_time = IDLE_TRIG) \/ wr_timeout_cnt > 0 THEN 1 ELSE 0
IdleTime == IF ~Idle THEN idle_trig_time
            ELSE IF IdleTrig THEN Min({idle_trig_time + 1, IDLE_TRIG}) ELSE 0

(***************************************************************************)
(* check_timeout: reads by their age, writes by a priority that falls      *)
(* every GBUF_WCMD_PRIADAPT cycles.                                        *)
(***************************************************************************)
Adapts     == until_adapt = 1
AgedRead(r)  == [r EXCEPT !.timeout = @ \/ r.wait >= GBUF_RCMD_TIMEOUT \/ r.pri = 0]
AgedWrite(w) == IF Adapts THEN [w EXCEPT !.pri = less(@), !.timeout = @ \/ w.pri <= 1] ELSE w
AgedReads  == [i \in DOMAIN Rbuff |-> AgedRead(Rbuff[i])]
AgedWrites == [i \in DOMAIN Wbuff |-> AgedWrite(Wbuff[i])]
NewlyTimedOut == Cardinality({i \in DOMAIN Wbuff : AgedWrites[i].timeout /\ ~Wbuff[i].timeout})

(***************************************************************************)
(* sch_rque: the reads that may be sent, in the idle state only.           *)
(***************************************************************************)
(* Seeded mistake: a read waits for the queue, not for the buffer.         *)
mut_ReadMay(r) == r.wait >= (IF r.active THEN 1 ELSE RARB) /\ r.dmc = 0

ReadMay(r) == r.wait >= (IF r.active THEN 1 ELSE RARB) /\ r.dmc + r.gbuf = 0
ReadCands == IF full \/ ~Idle THEN {} ELSE {i \in DOMAIN Rbuff : ReadMay(AgedReads[i])}
(* The oldest of the urgent reads, any other one only without them.        *)
ReadChosen(i) ==
    LET U == {j \in ReadCands : AgedReads[j].timeout \/ AgedReads[j].active}
    IN i \in ReadCands /\ (U # {} => i = Min(U))

(***************************************************************************)
(* sch_wque: how the state changes, and which writes may be sent.          *)
(***************************************************************************)
Starts == Idle /\ less(wbuff_state_gap) = 0 /\ Trig # 0
Ends   == ~Idle /\ (ser_write_cnt >= WR_MOST_LEVEL \/ no_cmd_sch_cnt > NO_CMD_SCH_TH)
State  == IF Starts THEN "WRITE" ELSE IF Ends THEN "IDLE" ELSE wbuff_state

WriteMay(w, Blocked) == w.wait >= WARB /\ w.ready /\ (w.timeout \/ w.addr[1] \notin Blocked)
WriteCands(Blocked) == IF Idle THEN {} ELSE {i \in DOMAIN Wbuff : WriteMay(AgedWrites[i], Blocked)}

(* One of a row that hits can be as urgent as one that has timed out;      *)
(* writes of one address differ in their own urgency only.                 *)
WriteChosen(i, C) ==
    LET U == {j \in C : AgedWrites[j].timeout \/ AgedWrites[j].pri = 0}
    IN /\ i \in C /\ \A j \in U : i <= j
       /\ i \in U \/ \A j \in C : j < i => AgedWrites[j].addr # AgedWrites[i].addr

(***************************************************************************)
(* arb_node and send_wdata: one command goes to the controller, and one    *)
(* beat.  A command that leaves the buffer counts down the reads of its    *)
(* address: a write the count for the buffer; a read that for the queue,   *)
(* which it has just entered.                                              *)
(*                                                                         *)
(* A full controller leaves a write as it is.  One with a refresh backlog  *)
(* has reset it before it refuses it (trans_state_init): the data count as *)
(* not there, the deadline of a read as over, and a write has the priority *)
(* again with which it came.                                               *)
(***************************************************************************)
Grown(buf) == [i \in DOMAIN buf |->
                 [buf[i] EXCEPT !.wait = Min({@ + 1, Max({RARB, WARB, GBUF_RCMD_TIMEOUT})})]]
Cmd(c, t, qos) == [task |-> c.task, type |-> t, addr |-> c.addr, qos |-> qos]

(* arb_node counts the beats of a write, and addTransaction again.         *)
Expects(w) == [b \in 1..(IF w.wide THEN 2 * BEATS ELSE BEATS) |-> w.task]
(* Seeded mistake: a merged write is sent with the beats of one half.      *)
mut_Beats(w) == [b \in 1..BEATS |-> w.task]

Beats(w)   == [b \in 1..(IF w.wide THEN 2 * BEATS ELSE BEATS) |-> w.task]

(* receiveFromCPU takes the beat when its task is the next one expected.   *)
Send(beats, expected) ==
    LET out == WdataToSend \o beats
        exp == wdata_order_queue \o expected
    IN IF out = <<>> THEN UNCHANGED <<WdataToSend, order_error>> /\ wdata_order_queue' = exp
       ELSE /\ WdataToSend' = Tail(out)
            /\ IF exp # <<>> /\ Head(exp) = Head(out)
               THEN wdata_order_queue' = Tail(exp) /\ UNCHANGED order_error
               ELSE wdata_order_queue' = exp /\ order_error' = TRUE

(* addTransaction of the controller takes command c with its beats.        *)
Takes(c) == ~full /\ queue' = queue \cup {c} /\ left' = left \cup {c}
Refuses  == UNCHANGED <<queue, left>>

SendRead(i) ==
    /\ Takes(Cmd(Rbuff[i], "READ", Rbuff[i].pri)) /\ Send(<<>>, <<>>)
    /\ Rbuff' = RemoveAt(Grown([j \in DOMAIN Rbuff |->
                    IF Rbuff[j].addr = Rbuff[i].addr THEN [AgedReads[j] EXCEPT !.dmc = less(@)]
                    ELSE AgedReads[j]]), i)
    /\ Wbuff' = Grown(AgedWrites)
    /\ wr_timeout_cnt' = wr_timeout_cnt + NewlyTimedOut

(* Seeded mistake: the reads that wait for the write are not told.         *)
mut_Told(w) == Grown(AgedReads)

Told(w) == Grown([j \in DOMAIN Rbuff |->
              IF Rbuff[j].addr = w.addr THEN [AgedReads[j] EXCEPT !.gbuf = less(@)] ELSE AgedReads[j]])
SendWrite(i) ==
    /\ Takes(Cmd(Wbuff[i], "WRITE", Wbuff[i].qos)) /\ Send(Beats(Wbuff[i]), Expects(Wbuff[i]))
    /\ Rbuff' = Told(Wbuff[i])
    /\ Wbuff' = RemoveAt(Grown(AgedWrites), i)
    /\ wr_timeout_cnt' = wr_timeout_cnt + NewlyTimedOut - (IF AgedWrites[i].timeout THEN 1 ELSE 0)

SendNone(R, W) ==
    /\ Refuses /\ Send(<<>>, <<>>)
    /\ Rbuff' = Grown(R) /\ Wbuff' = Grown(W)
    /\ wr_timeout_cnt' = wr_timeout_cnt + NewlyTimedOut

RefuseRead(i)  == SendNone([AgedReads EXCEPT ![i].timeout = TRUE], AgedWrites)
RefuseWrite(i) ==
    SendNone(AgedReads, [AgedWrites EXCEPT ![i].ready = FALSE, ![i].pri = Wbuff[i].qos])

Sent == Cardinality(left') - Cardinality(left)
NextCounters(C) ==
    LET base == IF Starts \/ Ends THEN 0 ELSE no_cmd_sch_cnt
    IN /\ no_cmd_sch_cnt' = IF State = "IDLE" THEN base
                            ELSE IF C = {} THEN base + 1 ELSE 0
       /\ wbuff_state_gap' = IF ~Ends THEN less(wbuff_state_gap)
                             ELSE IF state_trig = 5 THEN GAP[1] ELSE GAP[2] + ser_write_cnt

ArbNode(C) ==
    \/ C = {} /\ ReadCands = {} /\ SendNone(AgedReads, AgedWrites)
    \/ \E i \in ReadCands : ReadChosen(i) /\ SendRead(i)
    \/ \E i \in C : WriteChosen(i, C) /\ SendWrite(i)
    \/ \E i \in C : WriteChosen(i, C) /\ full /\ SendNone(AgedReads, AgedWrites)
    \/ \E i \in ReadCands : config.backlog /\ ReadChosen(i) /\ RefuseRead(i)
    \/ \E i \in C : config.backlog /\ ~full /\ WriteChosen(i, C) /\ RefuseWrite(i)

Update ==
    /\ ~order_error /\ added' = FALSE
    /\ state_trig' = Trig /\ idle_trig_time' = IdleTime /\ wbuff_state' = State
    /\ until_adapt' = IF Adapts THEN GBUF_WCMD_PRIADAPT ELSE until_adapt - 1
    /\ \E Blocked \in SUBSET {a.addr[1] : a \in Asks} :
          LET C == WriteCands(Blocked)
          IN /\ ArbNode(C)
             /\ NextCounters(C \cup ReadCands)
    /\ ser_write_cnt' = (IF Ends THEN 0 ELSE ser_write_cnt) + (IF Idle THEN 0 ELSE Sent)
    /\ UNCHANGED <<config, next>>
-----------------------------------------------------------------------------
Next ==
    \/ \E k \in Asks : AddForwarded(k) \/ AddRead(k) \/ AddMerged(k) \/ AddWrite(k)
    \/ AddData
    \/ \E q \in queue : Release(q)
    \/ Update

Spec == Init /\ [][Next]_vars

(* Every cycle the buffer is updated; the controller ends what it takes.   *)
FairSpec == /\ Spec /\ WF_vars(Update) /\ WF_vars(AddData)
            /\ WF_vars(\E q \in queue : Release(q))
-----------------------------------------------------------------------------
(* The buffers keep to their depths, and the write group to its length.    *)
TypeOK ==
    /\ config \in Configs /\ next \in 1..(NTasks + 1) /\ added \in BOOLEAN
    /\ Len(Rbuff) <= WB_RDEPTH /\ Len(Wbuff) <= WB_WDEPTH
    /\ \A r \in ToSet(Rbuff) : r.gbuf \in 0..WB_WDEPTH /\ r.dmc \in 0..TRANS_QUEUE_DEPTH
    /\ \A w \in ToSet(Wbuff) : w.task \in 1..NTasks /\ w.pri \in Nat /\ w.wide \in BOOLEAN
    /\ wbuff_state \in {"IDLE", "WRITE"} /\ state_trig \in 0..5 /\ until_adapt \in 1..GBUF_WCMD_PRIADAPT
    /\ no_cmd_sch_cnt \in 0..(NO_CMD_SCH_TH + 1) /\ ser_write_cnt \in 0..WR_MOST_LEVEL
    /\ idle_trig_time \in 0..IDLE_TRIG /\ wr_timeout_cnt \in Nat /\ wbuff_state_gap \in Nat
    /\ Cardinality(queue) <= TRANS_QUEUE_DEPTH /\ queue \subseteq left
    /\ order_error \in BOOLEAN

(* Where nothing is lost: a refused write loses its data and is overtaken, *)
(* and merging leaves the upper half of the line without its conflicts.    *)
Stuckless == ~config.merge /\ ~config.backlog

(* The urgency a write may count on: it has come with it, or a read has    *)
(* urged it.  c has come with more than w may count on (0 is the most).    *)
Urgency(w) == Max({w.qos, IF config.push = "pri" THEN 1 ELSE 0})
MoreUrgent(c, w) == c.qos < Urgency(w)

(* A write leaves the buffer (sch_wque) before every later write of its    *)
(* address, whatever times out or is urged on in between (check_timeout,   *)
(* rcmd_push_wcmd), unless the later one has come with more urgency.       *)
WritesInOrder ==
    Stuckless => \A w \in ToSet(Wbuff), c \in left :
                    c.type = "WRITE" /\ c.addr = w.addr => c.task < w.task \/ MoreUrgent(c, w)

(* A read that goes to the controller (sch_rque) leaves no earlier write   *)
(* of its address behind in the buffer, unless one that has come after the *)
(* read has overtaken that write: wcmd_release_conflict does not ask which *)
(* of the two the read waits for.                                          *)
ReadAfterWrite ==
    Stuckless => \A w \in ToSet(Wbuff), c \in left :
        c.type = "READ" /\ c.addr = w.addr =>
            \/ c.task < w.task
            \/ \E d \in left : /\ d.type = "WRITE" /\ d.addr = w.addr
                               /\ c.task < d.task /\ MoreUrgent(d, w)

(* So of two commands of one address, the first a write, the first goes    *)
(* first, but for writes whose requester has given them precedence.        *)
AddressOrder == WritesInOrder /\ ReadAfterWrite

(* The counter that a read waits for (rcmd_set_conflict) is the number of  *)
(* the earlier writes of its address still in the buffer, less the later   *)
(* ones that have overtaken them: it is never stuck above zero.            *)
Ahead(r) == {w \in ToSet(Wbuff) : w.addr = r.addr /\ w.task < r.task}
Overtook(r) == {c \in left : c.type = "WRITE" /\ c.addr = r.addr /\ r.task < c.task}
ConflictCounts ==
    ~config.merge => \A r \in ToSet(Rbuff) :
        r.gbuf = Max({0, Cardinality(Ahead(r)) - Cardinality(Overtook(r))})

(* wr_timeout_cnt never misses a write that has timed out: that a group is *)
(* started for it (update_state_trig) depends on it alone.                 *)
TimedOutCounted ==
    wr_timeout_cnt >= Cardinality({i \in DOMAIN Wbuff : Wbuff[i].timeout})

(* The buffers and the counters that stand between them (rcmd_set_conflict,*)
(* arb_node, check_timeout).                                               *)
CountersSound == TypeOK /\ ConflictCounts /\ TimedOutCounted

(* receiveFromCPU never finds another task at the head of                  *)
(* wdata_order_queue (MC WDATA ORDER ERROR).                               *)
NoOrderError == ~order_error

=============================================================================
