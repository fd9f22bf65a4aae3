------------------------------ MODULE TransQueue ------------------------------
(***************************************************************************)
(* The transaction queue of one memory controller and what stands around   *)
(* it: the driver that offers commands and write data (main.cpp), the gate *)
(* of the channel (MemorySystem::submitTransaction and submitData), the    *)
(* address conflicts that keep the order of requests (check_conflict, lc,  *)
(* update_que), the beats of write data, and the responses.                *)
(*                                                                         *)
(* One clock cycle runs the handlers in the order of `phase'.  When a      *)
(* command may go by the timing of the DRAM, which of the ready ones has   *)
(* priority, and how long data travels, is left open here: CommandPath     *)
(* models the first.  Transactions without bank state are left out         *)
(* (pre_act), as are the priorities and the groups (MC_GROUP_LRU_EN).      *)
(***************************************************************************)
EXTENDS Naturals, Sequences, FiniteSets

CONSTANTS
    Tasks,              \* the commands of CommandQueue (task ids)
    TestTasks,          \* the commands of CommandQueueTest, all reads
    NoTask,             \* no task
    Addresses,          \* addresses without ALIGNED_SIZE
    TRANS_QUEUE_DEPTH,  \* transactions the queue holds
    BEATS,              \* beats of write data of a write, burst_length + 1
    BURSTS,             \* column commands of a transaction (data_size)
    EXEC_NUMBER,        \* transactions begun and not finished at a time
    DRESP_BP_TH,        \* responses waiting that stop new transactions
    RDATA_TYPE,         \* 0: respond to a read when it begins; 1: at its end
    tPIPE_PRE_DMC,      \* length of the pipe in front of the controller
    AREF_EN             \* refresh may refuse transactions

AllTasks == Tasks \cup TestTasks

ASSUME QueueAssumption ==
    /\ NoTask \notin AllTasks /\ Tasks \cap TestTasks = {}
    /\ {TRANS_QUEUE_DEPTH, BEATS, BURSTS, EXEC_NUMBER, DRESP_BP_TH} \subseteq Nat \ {0}
    /\ RDATA_TYPE \in {0, 1} /\ tPIPE_PRE_DMC \in Nat /\ AREF_EN \in BOOLEAN

VARIABLES
    phase,              \* the next handler of the cycle
    fresh,              \* tasks the driver has not made a command of
    CommandQueue,       \* head of CommandQueue, at most one command
    CommandQueueTest,   \* head of CommandQueueTest, at most one command
    write_task,         \* the driver's beats to send, one task per beat
    backend_locked, locked_task,    \* the gate waits for a refused task
    PreDmcPipeQueue,    \* commands on their way to the controller
    pre_req,            \* the pipe has delivered for this cycle already
    write_map,          \* beats the channel still expects of each task
    transactionQueue, wdata_order_queue, WdataPipe,
    CmdQueue,           \* tasks whose column command is ready
    WriteResp, ReadResp, dresp_cnt,
    answered            \* history: tasks whose response has been taken

hostVars == <<fresh, CommandQueue, CommandQueueTest, write_task, answered>>
gateVars == <<backend_locked, locked_task, PreDmcPipeQueue, pre_req, write_map>>
dataVars == <<wdata_order_queue, WdataPipe>>
respVars == <<WriteResp, ReadResp, dresp_cnt>>
vars == <<phase, hostVars, gateVars, dataVars, respVars, transactionQueue, CmdQueue>>

Read(c) == c.type = "READ"
Commands == [task : AllTasks, type : {"READ", "WRITE"}, address : Addresses]
At(p)   == phase = p
Then(p) == phase' = p

Init ==
    /\ phase = "new" /\ fresh = AllTasks
    /\ CommandQueue = <<>> /\ CommandQueueTest = <<>> /\ write_task = <<>>
    /\ backend_locked = FALSE /\ locked_task = NoTask
    /\ PreDmcPipeQueue = <<>> /\ pre_req = FALSE
    /\ write_map = [t \in AllTasks |-> 0]
    /\ transactionQueue = <<>> /\ wdata_order_queue = <<>> /\ WdataPipe = <<>>
    /\ CmdQueue = {}
    /\ WriteResp = <<>> /\ ReadResp = <<>> /\ dresp_cnt = 0
    /\ answered = {}
-----------------------------------------------------------------------------
(***************************************************************************)
(* addTransaction, once nothing refuses the command c.  check_conflict     *)
(* blocks it behind the last queued transaction of its address, unless     *)
(* both read.                                                              *)
(***************************************************************************)
full == Len(transactionQueue) >= TRANS_QUEUE_DEPTH

(* Seeded mistake: two writes to one address do not conflict.              *)
mut_Conflict(a, b) == a.address = b.address /\ Read(a) # Read(b)

Conflict(a, b) == a.address = b.address /\ ~(Read(a) /\ Read(b))

Blockers(c) == {i \in DOMAIN transactionQueue : Conflict(transactionQueue[i], c)}

check_conflict(c) ==
    IF Blockers(c) = {} THEN NoTask
    ELSE transactionQueue[CHOOSE i \in Blockers(c) : \A j \in Blockers(c) : j <= i].task

Entry(c) == [task |-> c.task, type |-> c.type, address |-> c.address,
             addrconf |-> Blockers(c) # {}, addr_block_source_id |-> check_conflict(c),
             issue_size |-> 0, data_ready_cnt |-> 0]

(* Seeded mistake: the data of the youngest write is taken first.          *)
mut_addTransaction(c) ==
    /\ ~full
    /\ transactionQueue' = Append(transactionQueue, Entry(c))
    /\ wdata_order_queue' = IF Read(c) THEN wdata_order_queue
                            ELSE <<[task |-> c.task, remaining_beats |-> BEATS]>>
                                     \o wdata_order_queue

addTransaction(c) ==
    /\ ~full
    /\ transactionQueue' = Append(transactionQueue, Entry(c))
    /\ wdata_order_queue' = IF Read(c) THEN wdata_order_queue
                            ELSE Append(wdata_order_queue,
                                        [task |-> c.task, remaining_beats |-> BEATS])
-----------------------------------------------------------------------------
(***************************************************************************)
(* The driver: rand_command makes commands, send_command offers one of     *)
(* them per cycle.  A due test command goes first, and then nothing else   *)
(* is offered in that cycle.                                               *)
(***************************************************************************)
NewCommand ==
    /\ At("new") /\ Then("send")
    /\ \E t \in fresh, ty \in {"READ", "WRITE"}, a \in Addresses :
         LET c == [task |-> t, type |-> ty, address |-> a]
         IN  /\ fresh' = fresh \ {t}
             /\ \/ /\ t \in Tasks /\ CommandQueue = <<>>
                   /\ CommandQueue' = <<c>> /\ UNCHANGED CommandQueueTest
                \/ /\ t \in TestTasks /\ Read(c) /\ CommandQueueTest = <<>>
                   /\ CommandQueueTest' = <<c>> /\ UNCHANGED CommandQueue
    /\ UNCHANGED <<write_task, answered, gateVars, dataVars, respVars, transactionQueue,
                   CmdQueue>>

NoNewCommand ==
    /\ At("new") /\ Then("send")
    /\ UNCHANGED <<hostVars, gateVars, dataVars, respVars, transactionQueue, CmdQueue>>

Offered == IF CommandQueueTest # <<>> THEN CommandQueueTest ELSE CommandQueue
TakeOffered == IF CommandQueueTest # <<>>
               THEN CommandQueueTest' = <<>> /\ UNCHANGED CommandQueue
               ELSE CommandQueue' = <<>> /\ UNCHANGED CommandQueueTest

(* The gate: after a refusal only the refused task may try again, and a    *)
(* cycle in which the pipe delivers takes nothing from outside.            *)
LockedOut == backend_locked /\ Offered[1].task # locked_task

SendNothing ==
    /\ At("send") /\ Then("data")
    /\ \/ Offered = <<>>
       \/ Offered # <<>> /\ (LockedOut \/ pre_req)
    /\ pre_req' = FALSE
    /\ UNCHANGED <<hostVars, backend_locked, locked_task, PreDmcPipeQueue, write_map,
                   dataVars, respVars, transactionQueue, CmdQueue>>

(* Refused: the queue or the pipe is full, or too many refreshes wait      *)
(* (refresh_backlog_blocks_external; when is left open).                   *)
Refused ==
    /\ At("send") /\ Then("data")
    /\ Offered # <<>> /\ ~LockedOut /\ ~pre_req
    /\ IF tPIPE_PRE_DMC = 0 THEN full \/ AREF_EN ELSE Len(PreDmcPipeQueue) >= tPIPE_PRE_DMC
    /\ backend_locked' = TRUE /\ locked_task' = Offered[1].task
    /\ UNCHANGED <<hostVars, PreDmcPipeQueue, pre_req, write_map, dataVars, respVars,
                   transactionQueue, CmdQueue>>

Beats(t) == [i \in 1 .. BEATS |-> t]

Accepted ==
    /\ At("send") /\ Then("data")
    /\ Offered # <<>> /\ ~LockedOut /\ ~pre_req
    /\ LET c == Offered[1]
       IN  /\ IF tPIPE_PRE_DMC = 0
              THEN addTransaction(c) /\ UNCHANGED PreDmcPipeQueue
              ELSE /\ Len(PreDmcPipeQueue) < tPIPE_PRE_DMC
                   /\ PreDmcPipeQueue' = Append(PreDmcPipeQueue, c)
                   /\ UNCHANGED <<transactionQueue, wdata_order_queue>>
           /\ write_map'  = IF Read(c) THEN write_map ELSE [write_map EXCEPT ![c.task] = BEATS]
           /\ write_task' = IF Read(c) THEN write_task ELSE write_task \o Beats(c.task)
    /\ backend_locked' = FALSE
    /\ TakeOffered
    /\ UNCHANGED <<fresh, answered, locked_task, pre_req, WdataPipe, respVars, CmdQueue>>
-----------------------------------------------------------------------------
(***************************************************************************)
(* send_wdata offers the next beat; submitData takes it when the oldest    *)
(* write that misses data is its write and the channel knows the task.     *)
(* receiveFromCPU puts it into WdataPipe.                                  *)
(***************************************************************************)
canReceiveWdata(t) == wdata_order_queue # <<>> /\ Head(wdata_order_queue).task = t

CountBeat(q) == IF Head(q).remaining_beats = 1 THEN Tail(q)
                ELSE <<[Head(q) EXCEPT !.remaining_beats = @ - 1]>> \o Tail(q)

SubmitData ==
    /\ At("data") /\ Then("wdata")
    /\ write_task # <<>>
    /\ LET t == Head(write_task)
       IN  /\ canReceiveWdata(t) /\ write_map[t] > 0
           /\ wdata_order_queue' = CountBeat(wdata_order_queue)
           /\ WdataPipe' = Append(WdataPipe, t)
           /\ write_map' = [write_map EXCEPT ![t] = @ - 1]
    /\ write_task' = Tail(write_task)
    /\ UNCHANGED <<fresh, CommandQueue, CommandQueueTest, answered, backend_locked, locked_task,
                   PreDmcPipeQueue, pre_req, respVars, transactionQueue, CmdQueue>>

NoDataSent ==
    /\ At("data") /\ Then("wdata")
    /\ UNCHANGED <<hostVars, gateVars, dataVars, respVars, transactionQueue, CmdQueue>>

erase(s, i) == [k \in 1 .. Len(s) - 1 |-> s[IF k < i THEN k ELSE k + 1]]

(* update_wdata: one beat that has arrived goes to its write.              *)
UpdateWdata ==
    /\ At("wdata") /\ Then("resp")
    /\ \E i \in DOMAIN WdataPipe, q \in DOMAIN transactionQueue :
         LET Matches(n, m) == /\ ~Read(transactionQueue[m])
                              /\ transactionQueue[m].task = WdataPipe[n]
                              /\ transactionQueue[m].data_ready_cnt < BEATS
         IN  /\ Matches(i, q)
             /\ \A n \in 1 .. i - 1, m \in DOMAIN transactionQueue : ~Matches(n, m)
             /\ transactionQueue' = [transactionQueue EXCEPT ![q].data_ready_cnt = @ + 1]
             /\ WdataPipe' = erase(WdataPipe, i)
    /\ UNCHANGED <<hostVars, gateVars, wdata_order_queue, respVars, CmdQueue>>

NoDataArrives ==
    /\ At("wdata") /\ Then("resp")
    /\ UNCHANGED <<hostVars, gateVars, dataVars, respVars, transactionQueue, CmdQueue>>
-----------------------------------------------------------------------------
(***************************************************************************)
(* exec: at most one write and one read response leave per cycle; the      *)
(* receiver may refuse either.                                             *)
(***************************************************************************)
Respond(w, r) ==
    /\ At("resp") /\ Then("sched")
    /\ w => WriteResp # <<>>
    /\ r => ReadResp # <<>>
    /\ WriteResp' = IF w THEN Tail(WriteResp) ELSE WriteResp
    /\ ReadResp'  = IF r THEN Tail(ReadResp) ELSE ReadResp
    /\ dresp_cnt' = dresp_cnt - (IF w THEN 1 ELSE 0) - (IF r THEN 1 ELSE 0)
    /\ answered' = answered \cup (IF w THEN {Head(WriteResp)} ELSE {})
                            \cup (IF r THEN {Head(ReadResp)} ELSE {})
    /\ UNCHANGED <<fresh, CommandQueue, CommandQueueTest, write_task, gateVars, dataVars,
                   transactionQueue, CmdQueue>>
-----------------------------------------------------------------------------
(***************************************************************************)
(* scheduler: the column command of one ready transaction is chosen.  The  *)
(* others are dropped and found again by que_pipeline.                     *)
(***************************************************************************)
Begun(e) == e.issue_size \in 1 .. BURSTS - 1

Schedule(i) ==
    /\ At("sched") /\ Then("que")
    /\ transactionQueue[i].task \in CmdQueue
    /\ transactionQueue' = [transactionQueue EXCEPT ![i].issue_size = @ + 1]
    /\ LET e == transactionQueue[i]
           resp == RDATA_TYPE = 0 /\ Read(e) /\ e.issue_size = 0
       IN  /\ ReadResp'  = IF resp THEN Append(ReadResp, e.task) ELSE ReadResp
           /\ dresp_cnt' = IF resp THEN dresp_cnt + 1 ELSE dresp_cnt
    /\ CmdQueue' = {}
    /\ UNCHANGED <<hostVars, gateVars, dataVars, WriteResp>>

ScheduleSome == \E i \in DOMAIN transactionQueue : Schedule(i)

ScheduleNone ==
    /\ At("sched") /\ Then("que")
    /\ UNCHANGED <<hostVars, gateVars, dataVars, respVars, transactionQueue, CmdQueue>>
-----------------------------------------------------------------------------
(***************************************************************************)
(* update_que: the first transaction whose column commands are all issued  *)
(* leaves the queue and releases what it blocks.                           *)
(***************************************************************************)
Releases(e, x) == /\ x.addrconf /\ x.address = e.address
                  /\ x.addr_block_source_id = e.task
                  /\ Read(e) => ~Read(x)

(* Seeded mistake: the loop starts one transaction too late.               *)
mut_Released(q, n) ==
    [j \in DOMAIN q |-> IF j > n + 1 /\ Releases(q[n], q[j])
                        THEN [q[j] EXCEPT !.addrconf = FALSE] ELSE q[j]]

Released(q, n) ==
    [j \in DOMAIN q |-> IF j > n /\ Releases(q[n], q[j])
                        THEN [q[j] EXCEPT !.addrconf = FALSE] ELSE q[j]]

Finished(n) == transactionQueue[n].issue_size >= BURSTS

Retire(n) ==
    /\ At("que") /\ Then("lc")
    /\ Finished(n) /\ \A m \in 1 .. n - 1 : ~Finished(m)
    /\ transactionQueue' = erase(Released(transactionQueue, n), n)
    /\ LET e == transactionQueue[n]
           rresp == Read(e) /\ RDATA_TYPE = 1
       IN  /\ WriteResp' = IF Read(e) THEN WriteResp ELSE Append(WriteResp, e.task)
           /\ ReadResp'  = IF rresp THEN Append(ReadResp, e.task) ELSE ReadResp
           /\ dresp_cnt' = IF rresp \/ ~Read(e) THEN dresp_cnt + 1 ELSE dresp_cnt
    /\ UNCHANGED <<hostVars, gateVars, dataVars, CmdQueue>>

RetireNone ==
    /\ At("que") /\ Then("lc")
    /\ \A n \in DOMAIN transactionQueue : ~Finished(n)
    /\ UNCHANGED <<hostVars, gateVars, dataVars, respVars, transactionQueue, CmdQueue>>
-----------------------------------------------------------------------------
(***************************************************************************)
(* que_pipeline, need_issue and lc: which transactions may send a column   *)
(* command, as far as the queue itself decides.                            *)
(***************************************************************************)
rw_exec_cnt == Cardinality({i \in DOMAIN transactionQueue : Begun(transactionQueue[i])})

(* Seeded mistake: a write does not wait for its last beat.                *)
mut_lc(e) ==
    /\ ~e.addrconf
    /\ e.issue_size < BURSTS
    /\ rw_exec_cnt < EXEC_NUMBER \/ e.issue_size # 0
    /\ dresp_cnt < DRESP_BP_TH \/ e.issue_size # 0
    /\ Read(e) \/ e.data_ready_cnt >= BEATS - 1

(* Seeded mistake: back pressure sets in one response too late.            *)
mut_lcBp(e) ==
    /\ ~e.addrconf
    /\ e.issue_size < BURSTS
    /\ rw_exec_cnt < EXEC_NUMBER \/ e.issue_size # 0
    /\ dresp_cnt <= DRESP_BP_TH \/ e.issue_size # 0
    /\ Read(e) \/ e.data_ready_cnt >= BEATS

lc(e) ==
    /\ ~e.addrconf
    /\ e.issue_size < BURSTS
    /\ rw_exec_cnt < EXEC_NUMBER \/ e.issue_size # 0
    /\ dresp_cnt < DRESP_BP_TH \/ e.issue_size # 0
    /\ Read(e) \/ e.data_ready_cnt >= BEATS

QuePipeline ==
    /\ At("lc") /\ Then("pipe")
    /\ CmdQueue' = {transactionQueue[i].task :
                        i \in {j \in DOMAIN transactionQueue : lc(transactionQueue[j])}}
    /\ UNCHANGED <<hostVars, gateVars, dataVars, respVars, transactionQueue>>
-----------------------------------------------------------------------------
(***************************************************************************)
(* The end of MemorySystem::update: the pipe delivers its head, if its     *)
(* delay is over and the controller takes it.  The clock has advanced, so  *)
(* the delivery counts for the next cycle.                                 *)
(***************************************************************************)
PipeDelivers ==
    /\ At("pipe") /\ Then("new")
    /\ PreDmcPipeQueue # <<>>
    /\ addTransaction(Head(PreDmcPipeQueue))
    /\ PreDmcPipeQueue' = Tail(PreDmcPipeQueue) /\ pre_req' = TRUE
    /\ UNCHANGED <<hostVars, backend_locked, locked_task, write_map, WdataPipe, respVars,
                   CmdQueue>>

PipeWaits ==
    /\ At("pipe") /\ Then("new")
    /\ UNCHANGED <<hostVars, gateVars, dataVars, respVars, transactionQueue, CmdQueue>>
-----------------------------------------------------------------------------
Next ==
    \/ NewCommand \/ NoNewCommand
    \/ SendNothing \/ Refused \/ Accepted
    \/ SubmitData \/ NoDataSent
    \/ UpdateWdata \/ NoDataArrives
    \/ \E w, r \in BOOLEAN : Respond(w, r)
    \/ ScheduleSome \/ ScheduleNone
    \/ (\E n \in DOMAIN transactionQueue : Retire(n)) \/ RetireNone
    \/ QuePipeline
    \/ PipeDelivers \/ PipeWaits

Spec == Init /\ [][Next]_vars

(***************************************************************************)
(* The cycles go on; a command that is offered again and again without the *)
(* gate or the queue against it is not refused for ever by refresh; a beat *)
(* is sent and arrives; the receiver takes responses; and among ready      *)
(* commands the scheduler chooses one now and then.                        *)
(***************************************************************************)
Fairness ==
    /\ WF_vars(Next)
    /\ SF_vars(Accepted) /\ SF_vars(PipeDelivers)
    /\ SF_vars(SubmitData) /\ SF_vars(UpdateWdata)
    /\ SF_vars(\E r \in BOOLEAN : Respond(TRUE, r))
    /\ SF_vars(\E w \in BOOLEAN : Respond(w, TRUE))
    /\ SF_vars(ScheduleSome)

FairSpec == Spec /\ Fairness
-----------------------------------------------------------------------------
(***************************************************************************)
(* What must hold.                                                         *)
(***************************************************************************)
Entries == [task : AllTasks, type : {"READ", "WRITE"}, address : Addresses, addrconf : BOOLEAN,
            addr_block_source_id : AllTasks \cup {NoTask}, issue_size : 0 .. BURSTS,
            data_ready_cnt : 0 .. BEATS]

(* The state keeps its shape: in particular no transaction issues more     *)
(* than its size (the assertion in update_que), no task is queued twice    *)
(* (the assertion in addTransaction) and no write has more data than beats.*)
TypeOK ==
    /\ phase \in {"new", "send", "data", "wdata", "resp", "sched", "que", "lc", "pipe"}
    /\ fresh \subseteq AllTasks /\ answered \subseteq AllTasks
    /\ CommandQueue \in {<<>>} \cup {<<c>> : c \in Commands}
    /\ CommandQueueTest \in {<<>>} \cup {<<c>> : c \in Commands}
    /\ write_task \in Seq(AllTasks)
    /\ backend_locked \in BOOLEAN /\ locked_task \in AllTasks \cup {NoTask}
    /\ PreDmcPipeQueue \in Seq(Commands) /\ Len(PreDmcPipeQueue) <= tPIPE_PRE_DMC
    /\ pre_req \in BOOLEAN
    /\ write_map \in [AllTasks -> 0 .. BEATS]
    /\ transactionQueue \in Seq(Entries) /\ Len(transactionQueue) <= TRANS_QUEUE_DEPTH
    /\ \A i, j \in DOMAIN transactionQueue :
          i # j => transactionQueue[i].task # transactionQueue[j].task
    /\ wdata_order_queue \in Seq([task : AllTasks, remaining_beats : 1 .. BEATS])
    /\ WdataPipe \in Seq(AllTasks)
    /\ CmdQueue \subseteq AllTasks
    /\ WriteResp \in Seq(AllTasks) /\ ReadResp \in Seq(AllTasks) /\ dresp_cnt \in Nat

OlderConflicts(j) == {i \in 1 .. j - 1 : Conflict(transactionQueue[i], transactionQueue[j])}
HasBegun(j) == transactionQueue[j].issue_size > 0

(* "keep order", as the comment above check_conflict has it: of two        *)
(* conflicting transactions the younger one does not begin before the      *)
(* older one has issued everything.  The code does not keep this: a write  *)
(* waits for the last of several older reads only.                         *)
OrderKept ==
    \A j \in DOMAIN transactionQueue :
        HasBegun(j) => \A i \in OlderConflicts(j) : Finished(i)

(* What check_conflict does keep: nothing overtakes an older write to its  *)
(* address, neither a read (it would get old data) nor a write (the older  *)
(* data would stay).                                                       *)
OlderWritesFirst ==
    \A j \in DOMAIN transactionQueue :
        HasBegun(j) => \A i \in OlderConflicts(j) :
                           Read(transactionQueue[i]) \/ Finished(i)

(* A blocked transaction waits for one that is still queued before it and  *)
(* will release it when it leaves.  A transaction blocked by a task that   *)
(* has gone would stay in the queue for ever.                              *)
BlockerQueued ==
    \A j \in DOMAIN transactionQueue : transactionQueue[j].addrconf =>
        \E i \in 1 .. j - 1 : Releases(transactionQueue[i], transactionQueue[j])

Range1(s) == {s[i] : i \in DOMAIN s}
Count(s, t) == Cardinality({i \in DOMAIN s : s[i] = t})
QueuedWrite(e) == e \in Range1(transactionQueue) /\ ~Read(e)
Awaited(t) == IF \E w \in Range1(wdata_order_queue) : w.task = t
              THEN (CHOOSE w \in Range1(wdata_order_queue) : w.task = t).remaining_beats
              ELSE 0

(* No beat of write data is lost, taken twice or delivered to nobody: the  *)
(* beats a queued write has, those in WdataPipe and those it still awaits  *)
(* make up its burst; there are none of a write that is not queued; and    *)
(* the channel expects what the driver has left to send.                   *)
WdataConserved ==
    /\ \A e \in Range1(transactionQueue) : ~Read(e) =>
          e.data_ready_cnt + Count(WdataPipe, e.task) + Awaited(e.task) = BEATS
    /\ \A t \in AllTasks :
          (Count(WdataPipe, t) > 0 \/ Awaited(t) > 0) =>
              \E e \in Range1(transactionQueue) : e.task = t /\ ~Read(e)
    /\ \A t \in AllTasks : write_map[t] = Count(write_task, t)

FirstPipedWrite(k) == /\ ~Read(PreDmcPipeQueue[k])
                      /\ \A n \in 1 .. k - 1 : Read(PreDmcPipeQueue[n])

(* The driver and the controller agree whose data comes next.  They keep   *)
(* separate queues, and the driver's has one head: once it offered a beat  *)
(* the controller does not want, no data would ever move again.            *)
WdataInStep ==
    write_task # <<>> =>
        IF wdata_order_queue # <<>> THEN Head(write_task) = Head(wdata_order_queue).task
        ELSE \E k \in DOMAIN PreDmcPipeQueue :
                 FirstPipedWrite(k) /\ Head(write_task) = PreDmcPipeQueue[k].task

(* The write data: typed, complete, and in the order driver, channel and   *)
(* controller each remember (send_wdata, submitData, receiveFromCPU).      *)
WdataSound == TypeOK /\ WdataConserved /\ WdataInStep

(* Every task is answered at most once, and a write only when the driver   *)
(* has sent all its data (the assertion "Wresp receive before all wdata    *)
(* send out" in main.cpp).                                                 *)
AnswersSound ==
    /\ \A i, j \in DOMAIN (WriteResp \o ReadResp) :
          i # j => (WriteResp \o ReadResp)[i] # (WriteResp \o ReadResp)[j]
    /\ Range1(WriteResp \o ReadResp) \cap answered = {}
    /\ Range1(WriteResp) \cap Range1(write_task) = {}

(* Back pressure holds: with DRESP_BP_TH responses waiting nothing new     *)
(* begins, so that only what had begun before can still add to them; and   *)
(* no more than EXEC_NUMBER transactions are begun at a time.  Both are    *)
(* checked a cycle before the command is chosen.                           *)
DrespBounded ==
    /\ dresp_cnt = Len(WriteResp) + Len(ReadResp)
    /\ dresp_cnt < DRESP_BP_TH + EXEC_NUMBER
    /\ rw_exec_cnt <= EXEC_NUMBER

(* The gate waits for the task it has refused, and the driver offers       *)
(* nothing but a test command that is due: nothing can change that.        *)
Crossed == CommandQueueTest # <<>> /\ LockedOut
Outside(t) == \E c \in Range1(CommandQueue \o CommandQueueTest) : c.task = t

(* Every command the driver has made is answered in the end, but for those *)
(* still in front of the gate when gate and driver have crossed            *)
(* (MemorySystem.cpp:332 with main.cpp:714): what the gate has taken is    *)
(* answered even then, and in no other way is a command left waiting.      *)
EveryCommandServed ==
    \A t \in AllTasks : (t \notin fresh) ~> (t \in answered \/ (Crossed /\ Outside(t)))
=============================================================================
