----------------------------- MODULE InlineEcc -----------------------------
(***************************************************************************)
(* Inline ECC of one memory controller (Inline_ECC.cpp).  The ECC of a PDU *)
(* (512 bytes of data) lies in the DRAM next to the data.  Two small       *)
(* buffers hold the ECC of some PDUs: a read brings the ECC of its PDU in  *)
(* with an ECC read; a write leaves its ECC in the write buffer, dirty,    *)
(* until an ECC write takes it out.                                        *)
(*                                                                         *)
(* proc_iecc is a state machine that serves one request over several       *)
(* calls.  One action is one of its cases; a call lasts from Offer to the  *)
(* action that sets `in_call' to FALSE, and between two calls commands end *)
(* in the controller behind (Finish).  The controller refuses a command    *)
(* when its queue is full; its other reasons to refuse (a second command   *)
(* in a cycle, refreshes postponed) pass like a full queue and are left    *)
(* out.  So is the restart of the state machine by Rmw::arb_node.          *)
(***************************************************************************)
EXTENDS Naturals, Sequences, FiniteSets, SequencesExt

CONSTANTS
    NTasks,             \* no run has more requests
    Cases,              \* the configurations, and the requests made
    Pdus,               \* PDU addresses: neighbours differ by one
    PDU_RD_DEPTH, PDU_WR_DEPTH,     \* lines of the two buffers
    Sectors,            \* the parts of a PDU a write covers
    TRANS_QUEUE_DEPTH,  \* commands the controller holds
    IECC_CONFLICT_CNT,  \* calls the machine waits after a write-back
    MERGE_DEPTH,        \* searches a full line waits for its neighbour
    None                \* 0xffff, NULL

RdIds   == 1..PDU_RD_DEPTH
WrIds   == 1..PDU_WR_DEPTH
Request == [type : {"READ", "WRITE"}, mask : BOOLEAN, pdu : Pdus, part : SUBSET Sectors]
Config  == [push : BOOLEAN, level : Nat, merge : BOOLEAN]   \* PDU_PUSH_MODE,
                            \* PDU_HIT_LEVEL, ECC_MERGE_ENABLE

ASSUME EccAssumption ==
    /\ {NTasks, PDU_RD_DEPTH, PDU_WR_DEPTH, TRANS_QUEUE_DEPTH} \subseteq Nat \ {0}
    /\ IECC_CONFLICT_CNT \in Nat /\ MERGE_DEPTH \in Nat /\ Pdus \subseteq Nat
    /\ Sectors # {}
    /\ \A c \in Cases : /\ c = [config |-> c.config, req |-> c.req] /\ c.config \in Config
                       /\ \E n \in 1..NTasks : c.req \in [1..n -> Request]
    /\ None \notin Nat

VARIABLES
    config, req,        \* the configuration, what each task asks for
    waiting,            \* tasks not accepted yet
    iecc_owner_task,    \* the task the machine works for
    in_call,            \* inside proc_iecc
    ecc_model_state, ecc_pre_state, iecc_add_cnt, ecc_delay,
    avail_rd, avail_wr, \* avail_rd_ecc_buf_id, avail_wr_ecc_buf_id
    current_wr_pdu_hit,
    rd_ecc_buf, wr_ecc_buf,         \* the lines
    rd_pri, wr_pri,     \* ecc_pri of the lines, 1 is the last used
    recycle_rd, recycle_wr,         \* index_recycle_*: lines to take
    ecc_merge_flag,     \* the next ECC write takes two lines out
    pdu_push_pending,   \* the line whose ECC is to be pushed, or None
    queue,              \* tasks in the controller
    finished,           \* tasks_info: ended, not seen by the buffers
    sent,               \* history: tasks whose data command was pushed
    owed,               \* history: PDUs written since their last ECC write
    holds,              \* history: the PDU whose latest ECC a line holds
    stale,              \* history: a read was sent to a line without its ECC
    miss_dirty          \* history: ECC_RD_MISS_DIRTY was entered

Tasks == DOMAIN req

hostVars  == <<config, req, waiting, iecc_owner_task>>
stateVars == <<ecc_model_state, ecc_pre_state, iecc_add_cnt, ecc_delay>>
availVars == <<avail_rd, avail_wr, current_wr_pdu_hit>>
rdVars    == <<rd_ecc_buf, rd_pri, recycle_rd>>
wrVars    == <<wr_ecc_buf, wr_pri, recycle_wr>>
dmcVars   == <<queue, finished>>
histVars  == <<sent, owed, holds, stale, miss_dirty>>
vars == <<hostVars, in_call, stateVars, availVars, rdVars, wrVars, ecc_merge_flag,
          pdu_push_pending, dmcVars, histVars>>

Init ==
    /\ \E c \in Cases : config = c.config /\ req = c.req
    /\ waiting = Tasks /\ iecc_owner_task = None /\ in_call = FALSE
    /\ ecc_model_state = "TRY_HIT_ECC_BUF" /\ ecc_pre_state = "TRY_HIT_ECC_BUF"
    /\ iecc_add_cnt = 0 /\ ecc_delay = 0
    /\ avail_rd = None /\ avail_wr = None /\ current_wr_pdu_hit = FALSE
    /\ rd_ecc_buf = [i \in RdIds |-> [vld |-> FALSE, pdu |-> 0, tasks |-> <<>>]]
    /\ wr_ecc_buf = [i \in WrIds |-> [vld |-> FALSE, pdu |-> 0, tasks |-> <<>>, pos |-> {},
                                      dirty |-> FALSE, wr_ecc |-> FALSE,
                                      merge_cnt |-> 0, hit_cnt |-> 0]]
    /\ rd_pri = [i \in RdIds |-> PDU_RD_DEPTH] /\ wr_pri = [i \in WrIds |-> PDU_WR_DEPTH]
    /\ recycle_rd = {} /\ recycle_wr = {}
    /\ ecc_merge_flag = FALSE /\ pdu_push_pending = None
    /\ queue = {} /\ finished = {}
    /\ sent = {} /\ owed = {} /\ holds = [i \in RdIds |-> None]
    /\ stale = FALSE /\ miss_dirty = FALSE
-----------------------------------------------------------------------------
task    == iecc_owner_task
Me      == req[task]
IsRead  == Me.type = "READ"
Accepts == Cardinality(queue) < TRANS_QUEUE_DEPTH
Goto(s) == ecc_model_state' = s
In(s)   == in_call /\ ecc_model_state = s
Return  == in_call' = FALSE
Accepted == waiting' = waiting \ {task} /\ iecc_owner_task' = None
Refused  == UNCHANGED <<waiting, iecc_owner_task>>

(* The task of the next ECC command: ecc_task counts up from 0x80000000;   *)
(* here a number comes back when no line lists it any more.                *)
Listed == (UNION {ToSet(rd_ecc_buf[i].tasks) : i \in RdIds})
    \cup (UNION {ToSet(wr_ecc_buf[i].tasks) : i \in WrIds})
ecc_task == CHOOSE n \in (NTasks + 1)..(NTasks + Cardinality(Listed) + 1) :
                /\ n \notin Listed
                /\ \A m \in (NTasks + 1)..(n - 1) : m \in Listed

(* replace_pri_update: line i becomes the last used, or the next to go.    *)
Used(pri, i) == [j \in DOMAIN pri |-> IF j = i THEN 1
                                      ELSE IF pri[j] < pri[i] THEN pri[j] + 1 ELSE pri[j]]
Spent(pri, i) == [j \in DOMAIN pri |-> IF j = i THEN PDU_WR_DEPTH
                                       ELSE IF pri[j] > pri[i] THEN pri[j] - 1 ELSE pri[j]]
Oldest(S, pri) == CHOOSE i \in S : \A j \in S : pri[j] < pri[i] \/ (pri[j] = pri[i] /\ j <= i)
-----------------------------------------------------------------------------
(***************************************************************************)
(* update_rd_ecc_buf and update_wr_ecc_buf drop the tasks that have ended  *)
(* from the lists; the loop steps over the task that follows one it drops. *)
(* A line whose list is empty may be taken for another PDU.                *)
(***************************************************************************)
Sweep(list) ==
    FoldLeft(LAMBDA acc, t : IF t \in finished /\ ~acc.skip
                             THEN [kept |-> acc.kept, skip |-> TRUE]
                             ELSE [kept |-> Append(acc.kept, t), skip |-> FALSE],
             [kept |-> <<>>, skip |-> FALSE], list).kept
Swept(buf) == [i \in DOMAIN buf |-> [buf[i] EXCEPT !.tasks = Sweep(@)]]
(* Seeded mistake: the task stepped over is forgotten as well.             *)
mut_Unlisted(buf) == finished \cap UNION {ToSet(buf[i].tasks) : i \in DOMAIN buf}

Unlisted(buf) == UNION {ToSet(buf[i].tasks) \ ToSet(Sweep(buf[i].tasks)) : i \in DOMAIN buf}
(* Seeded mistake: only a line that had commands comes free.               *)
mut_Free(buf, recycle) ==
    recycle \cup {i \in DOMAIN buf : Sweep(buf[i].tasks) = <<>> /\ buf[i].tasks # <<>>}

Free(buf, recycle) == recycle \cup {i \in DOMAIN buf : Sweep(buf[i].tasks) = <<>>}

(***************************************************************************)
(* The four commands the machine sends to the controller.                  *)
(***************************************************************************)
ListRd(buf, i, t) == [buf EXCEPT ![i].tasks = Append(@, t)]

(* ecc_try_add_rd_trans: the data of the request, with the ECC of line i.  *)
DataRead(buf, i) ==
    /\ queue' = queue \cup {task} /\ sent' = sent \cup {task}
    /\ rd_ecc_buf' = ListRd(buf, i, task)
    /\ stale' = (stale \/ holds[i] # Me.pdu)
    /\ UNCHANGED <<owed, holds>>

(* ecc_try_add_wr_trans: the ECC of the data stays in line i.              *)
Written(l) == [l EXCEPT !.tasks = Append(@, task), !.dirty = TRUE, !.pos = @ \cup Me.part,
                        !.pdu = Me.pdu,
                        !.hit_cnt = IF current_wr_pdu_hit THEN @ + 1 ELSE @]
DataWrite(i) ==
    /\ queue' = queue \cup {task} /\ sent' = sent \cup {task}
    /\ wr_ecc_buf' = [wr_ecc_buf EXCEPT ![i] = Written(@)]
    /\ owed' = owed \cup {Me.pdu}
    /\ holds' = [j \in RdIds |-> IF holds[j] = Me.pdu THEN None ELSE holds[j]]
    /\ UNCHANGED stale

(* try_add_ecc_rd.                                                         *)
EccRead(buf, i) ==
    /\ queue' = queue \cup {ecc_task}
    /\ rd_ecc_buf' = ListRd(buf, i, ecc_task)
    /\ holds' = [holds EXCEPT ![i] = IF Me.pdu \in owed THEN None ELSE Me.pdu]
    /\ UNCHANGED <<sent, owed, stale>>

(* try_add_ecc_wr: lines of the read buffer with the same PDU lose theirs. *)
Invalid(buf, p) == [i \in RdIds |-> IF buf[i].pdu = p THEN [buf[i] EXCEPT !.vld = FALSE]
                                    ELSE buf[i]]

EccWrite(buf, i) ==
    /\ queue' = queue \cup {ecc_task}
    /\ rd_ecc_buf' = Invalid(buf, wr_ecc_buf[i].pdu)
    /\ owed' = owed \ {wr_ecc_buf[i].pdu}
    /\ ecc_merge_flag' = FALSE
    /\ UNCHANGED <<sent, holds, stale>>
-----------------------------------------------------------------------------
(***************************************************************************)
(* addTransaction: while an ECC write is to be pushed every call tries     *)
(* that and nothing else; the machine works for one request at a time.     *)
(***************************************************************************)
Offer(t) ==
    /\ ~in_call /\ pdu_push_pending = None
    /\ t \in waiting /\ iecc_owner_task \in {None, t}
    /\ iecc_owner_task' = t /\ in_call' = TRUE
    /\ rd_ecc_buf' = Swept(rd_ecc_buf) /\ recycle_rd' = Free(rd_ecc_buf, recycle_rd)
    /\ wr_ecc_buf' = Swept(wr_ecc_buf) /\ recycle_wr' = Free(wr_ecc_buf, recycle_wr)
    /\ finished' = finished \ (Unlisted(rd_ecc_buf) \cup Unlisted(wr_ecc_buf))
    /\ UNCHANGED <<config, req, waiting, stateVars, availVars, rd_pri, wr_pri, ecc_merge_flag,
                   pdu_push_pending, queue, histVars>>

(* The same in update, a cycle later.                                      *)
PushedOut(l) == [l EXCEPT !.tasks = Append(@, ecc_task), !.hit_cnt = 0,
                          !.dirty = @ /\ ~config.push]
PushPending ==
    /\ ~in_call /\ pdu_push_pending # None /\ Accepts
    /\ EccWrite(rd_ecc_buf, pdu_push_pending)
    /\ wr_ecc_buf' = [wr_ecc_buf EXCEPT ![pdu_push_pending] = PushedOut(@)]
    /\ pdu_push_pending' = None
    /\ Goto("TRY_HIT_ECC_BUF") /\ ecc_pre_state' = "ADD_WR_ECC_TRANS"
    /\ UNCHANGED <<hostVars, in_call, iecc_add_cnt, ecc_delay, availVars, rd_pri, recycle_rd,
                   wr_pri, recycle_wr, finished, miss_dirty>>

(* A command of the controller ends (data_fresh).                          *)
Finish(t) ==
    /\ ~in_call /\ t \in queue
    /\ queue' = queue \ {t} /\ finished' = finished \cup {t}
    /\ UNCHANGED <<hostVars, in_call, stateVars, availVars, rdVars, wrVars, ecc_merge_flag,
                   pdu_push_pending, histVars>>
-----------------------------------------------------------------------------
(***************************************************************************)
(* proc_iecc: the cases of the state machine.                              *)
(***************************************************************************)
callVars == <<config, req, pdu_push_pending, finished>>

(* hit_ecc_buf, and what the request needs.  A dirty line of the write     *)
(* buffer must be written back before its ECC can be read.                 *)
Hits(buf) == {i \in DOMAIN buf : buf[i].vld /\ buf[i].pdu = Me.pdu}
LastHit(buf) == IF Hits(buf) = {} THEN None ELSE Oldest(Hits(buf), [i \in Hits(buf) |-> 0])
UsedHit(pri, i) == IF i = None THEN pri ELSE Used(pri, i)

(* Seeded mistake: a line that was just written is good enough to read.    *)
mut_NextState(r, dirty, w) ==
    IF IsRead THEN IF r = None THEN "GET_ECC_BUF" ELSE "ECC_ADD_TRANS"
    ELSE IF w = None THEN "GET_ECC_BUF" ELSE "ECC_ADD_TRANS"

NextState(r, dirty, w) ==
    IF IsRead
    THEN IF dirty THEN IF r = None THEN "ECC_RD_MISS_DIRTY" ELSE "ECC_RD_HIT_DIRTY"
         ELSE IF r = None THEN "GET_ECC_BUF" ELSE "ECC_ADD_TRANS"
    ELSE IF w = None THEN "GET_ECC_BUF" ELSE "ECC_ADD_TRANS"

TryHit ==
    /\ In("TRY_HIT_ECC_BUF")
    /\ LET r == LastHit(rd_ecc_buf)
           w == LastHit(wr_ecc_buf)
           dirty == w # None /\ wr_ecc_buf[w].dirty
       IN  /\ avail_rd' = r /\ avail_wr' = w
           /\ rd_pri' = UsedHit(rd_pri, r) /\ wr_pri' = UsedHit(wr_pri, w)
           /\ wr_ecc_buf' = [i \in WrIds |-> IF i = w THEN [wr_ecc_buf[i] EXCEPT !.merge_cnt = 0]
                                              ELSE wr_ecc_buf[i]]
           /\ current_wr_pdu_hit' = IF IsRead THEN current_wr_pdu_hit ELSE w # None
           /\ Goto(NextState(r, dirty, w))
           /\ miss_dirty' = (miss_dirty \/ NextState(r, dirty, w) = "ECC_RD_MISS_DIRTY")
    /\ UNCHANGED <<callVars, waiting, iecc_owner_task, in_call, ecc_pre_state, iecc_add_cnt,
                   ecc_delay, rd_ecc_buf, recycle_rd, recycle_wr, ecc_merge_flag, queue,
                   sent, owed, holds, stale>>

(* GET_ECC_BUF calls update_rd_ecc_buf and update_wr_ecc_buf first.        *)
SweepBoth == finished' = finished \ (Unlisted(rd_ecc_buf) \cup Unlisted(wr_ecc_buf))
getVars == <<config, req, waiting, iecc_owner_task, pdu_push_pending, queue, histVars,
             ecc_pre_state, iecc_add_cnt, ecc_delay, current_wr_pdu_hit>>

(* No line of the buffer the request needs is free: the caller tries again.*)
NoLine ==
    /\ In("GET_ECC_BUF") /\ SweepBoth
    /\ IF IsRead THEN /\ Free(rd_ecc_buf, recycle_rd) = {}
                      /\ avail_rd' = None /\ UNCHANGED avail_wr
                 ELSE /\ Free(wr_ecc_buf, recycle_wr) = {}
                      /\ avail_wr' = None /\ UNCHANGED avail_rd
    /\ rd_ecc_buf' = Swept(rd_ecc_buf) /\ recycle_rd' = Free(rd_ecc_buf, recycle_rd)
    /\ wr_ecc_buf' = Swept(wr_ecc_buf) /\ recycle_wr' = Free(wr_ecc_buf, recycle_wr)
    /\ Return
    /\ UNCHANGED <<getVars, ecc_model_state, rd_pri, wr_pri, ecc_merge_flag>>

(* get_avail_rd_ecc_buf_id, and the line becomes the PDU's at once.        *)
GetRead ==
    /\ In("GET_ECC_BUF") /\ IsRead /\ SweepBoth
    /\ Free(rd_ecc_buf, recycle_rd) # {}
    /\ LET i == Oldest(Free(rd_ecc_buf, recycle_rd), rd_pri)
       IN  /\ avail_rd' = i /\ rd_pri' = Used(rd_pri, i)
           /\ rd_ecc_buf' = [Swept(rd_ecc_buf) EXCEPT ![i].vld = TRUE, ![i].pdu = Me.pdu]
           /\ recycle_rd' = Free(rd_ecc_buf, recycle_rd) \ {i}
    /\ wr_ecc_buf' = Swept(wr_ecc_buf) /\ recycle_wr' = Free(wr_ecc_buf, recycle_wr)
    /\ Goto("ADD_RD_ECC_TRANS")
    /\ UNCHANGED <<getVars, in_call, avail_wr, wr_pri, ecc_merge_flag>>

(***************************************************************************)
(* get_avail_wr_ecc_buf_id.  Without merging: a full line, or else an idle *)
(* one, or else any; of these the one unused for longest.  With merging    *)
(* two full lines of neighbouring PDUs go together, and a full line is     *)
(* spared MERGE_DEPTH searches to wait for its neighbour.                  *)
(***************************************************************************)
FullLine(i) == wr_ecc_buf[i].pos = Sectors
Idle(i)     == wr_ecc_buf[i].pos = {}
Neighbours(i, j) == \/ wr_ecc_buf[i].pdu = wr_ecc_buf[j].pdu + 1
                    \/ wr_ecc_buf[j].pdu = wr_ecc_buf[i].pdu + 1
First(S) == CHOOSE i \in S : \A j \in S : i <= j

Victim(S) ==
    LET full == {i \in S : FullLine(i)}
        idle == {i \in S : Idle(i)}
    IN  IF full # {} THEN Oldest(full, wr_pri)
        ELSE IF idle # {} THEN Oldest(idle, wr_pri) ELSE Oldest(S, wr_pri)

Partners(S, i) == {j \in S : FullLine(i) /\ FullLine(j) /\ Neighbours(i, j)}
Paired(S) == {i \in S : Partners(S, i) # {}}
MergeVictim(S) ==
    LET full == {i \in S : FullLine(i)}
        old  == {i \in full : wr_ecc_buf[i].merge_cnt >= MERGE_DEPTH}
        i    == First(Paired(S))
        j    == First(Partners(S, i))
    IN  IF Paired(S) # {} THEN IF wr_pri[i] > wr_pri[j] THEN i ELSE j
        ELSE IF old # {} THEN Oldest(old, wr_pri)
        ELSE IF S # full THEN Oldest(S \ full, wr_pri)
        ELSE First({k \in S : \A l \in S : wr_pri[l] <= wr_pri[k]})
Partner(S, v) == LET i == First(Paired(S)) IN IF v = i THEN First(Partners(S, i)) ELSE i

(* The full lines the search has passed over.                              *)
Waited(S) ==
    LET passed == {k \in S : FullLine(k) /\ (Paired(S) = {} \/ k < First(Paired(S)))}
    IN  [k \in WrIds |-> IF k \in passed /\ wr_ecc_buf[k].merge_cnt < MERGE_DEPTH
                         THEN [Swept(wr_ecc_buf)[k] EXCEPT !.merge_cnt = @ + 1]
                         ELSE Swept(wr_ecc_buf)[k]]

(* The line is marked valid and empty; its old ECC, if dirty, is to be     *)
(* written first, unless PDU_PUSH_MODE takes it for pushed.  A partner is  *)
(* emptied with it.                                                        *)
Taken(l, push) ==
    [l EXCEPT !.vld = TRUE, !.pos = {}, !.merge_cnt = 0, !.hit_cnt = 0, !.dirty = FALSE,
              !.wr_ecc = (@ \/ l.dirty) /\ push]
Given(l) == [l EXCEPT !.pos = {}, !.merge_cnt = 0, !.dirty = FALSE]

GetWrite ==
    /\ In("GET_ECC_BUF") /\ ~IsRead /\ SweepBoth
    /\ Free(wr_ecc_buf, recycle_wr) # {}
    /\ LET S == Free(wr_ecc_buf, recycle_wr)
           pair == config.merge /\ Paired(S) # {}
           v == IF config.merge THEN MergeVictim(S) ELSE Victim(S)
           push == config.push /\ ~Me.mask
           buf == IF config.merge THEN Waited(S) ELSE Swept(wr_ecc_buf)
       IN  /\ ecc_merge_flag => pair
           /\ ecc_merge_flag' = pair
           /\ avail_wr' = v
           /\ wr_ecc_buf' = [i \in WrIds |-> IF i = v THEN Taken(buf[i], push)
                                            ELSE IF pair /\ i = Partner(S, v) THEN Given(buf[i])
                                            ELSE buf[i]]
           /\ wr_pri' = IF pair THEN Spent(Used(wr_pri, v), Partner(S, v)) ELSE Used(wr_pri, v)
           /\ recycle_wr' = IF pair THEN S ELSE S \ {v}
           /\ Goto(IF (buf[v].wr_ecc \/ buf[v].dirty) /\ ~push THEN "ADD_WR_ECC_TRANS"
                                                               ELSE "ECC_ADD_TRANS")
    /\ rd_ecc_buf' = Swept(rd_ecc_buf) /\ recycle_rd' = Free(rd_ecc_buf, recycle_rd)
    /\ UNCHANGED <<getVars, in_call, avail_rd, rd_pri>>

(* ecc_merge_flag is left over from a search whose line needed no write:   *)
(* merge_id is 0xffff and wr_ecc_buf.at(merge_id) throws.                  *)
OutOfRange ==
    /\ In("GET_ECC_BUF") /\ ~IsRead
    /\ Free(wr_ecc_buf, recycle_wr) # {}
    /\ ecc_merge_flag /\ Paired(Free(wr_ecc_buf, recycle_wr)) = {}
    /\ Goto("out_of_range")
    /\ UNCHANGED <<hostVars, in_call, ecc_pre_state, iecc_add_cnt, ecc_delay, availVars,
                   rdVars, wrVars, ecc_merge_flag, pdu_push_pending, dmcVars, histVars>>

(* A command the controller has no room for: the caller tries again.       *)
Refuse ==
    /\ \/ In("ECC_ADD_TRANS") \/ In("ADD_RD_ECC_TRANS") \/ In("ADD_WR_ECC_TRANS")
       \/ In("ECC_RD_HIT_DIRTY")
    /\ ~Accepts /\ Return
    /\ UNCHANGED <<hostVars, stateVars, availVars, rdVars, wrVars, ecc_merge_flag,
                   pdu_push_pending, dmcVars, histVars>>

addVars == <<config, req, availVars, finished, miss_dirty, rd_pri, recycle_rd, wr_pri, recycle_wr>>

AddRead ==
    /\ In("ECC_ADD_TRANS") /\ IsRead /\ Accepts
    /\ DataRead(rd_ecc_buf, avail_rd) /\ Accepted /\ Return /\ Goto("TRY_HIT_ECC_BUF")
    /\ UNCHANGED <<addVars, ecc_pre_state, iecc_add_cnt, ecc_delay, wr_ecc_buf,
                   ecc_merge_flag, pdu_push_pending>>

(* The line is the PDU's only now.  A push follows in PDU_PUSH_MODE and    *)
(* after PDU_HIT_LEVEL hits, for a write without mask.                     *)
PushWrite ==
    /\ ~Me.mask
    /\ \/ config.push
       \/ current_wr_pdu_hit /\ config.level # 0 /\ wr_ecc_buf[avail_wr].hit_cnt + 1 >= config.level

AddWrite ==
    /\ In("ECC_ADD_TRANS") /\ ~IsRead /\ Accepts
    /\ DataWrite(avail_wr) /\ Accepted /\ Return /\ Goto("TRY_HIT_ECC_BUF")
    /\ IF PushWrite THEN pdu_push_pending' = avail_wr /\ ecc_pre_state' = "ADD_WR_ECC_TRANS"
                    ELSE UNCHANGED <<pdu_push_pending, ecc_pre_state>>
    /\ current_wr_pdu_hit' = FALSE
    /\ UNCHANGED <<config, req, avail_rd, avail_wr, finished, miss_dirty, rdVars,
                   wr_pri, recycle_wr, iecc_add_cnt, ecc_delay, ecc_merge_flag>>

AddEccRead ==
    /\ In("ADD_RD_ECC_TRANS") /\ Accepts
    /\ EccRead(rd_ecc_buf, avail_rd) /\ Return /\ Goto("ECC_ADD_TRANS")
    /\ UNCHANGED <<addVars, waiting, iecc_owner_task, ecc_pre_state, iecc_add_cnt, ecc_delay,
                   wr_ecc_buf, ecc_merge_flag, pdu_push_pending>>

(* The ECC of the line's old PDU goes; the line is the new PDU's.          *)
GivenTo(l) == [l EXCEPT !.tasks = Append(@, ecc_task), !.pdu = Me.pdu]

(* Seeded mistake: the new PDU is set before the ECC write is made.        *)
mut_AddEccWrite ==
    /\ In("ADD_WR_ECC_TRANS") /\ Accepts
    /\ queue' = queue \cup {ecc_task} /\ rd_ecc_buf' = Invalid(rd_ecc_buf, Me.pdu)
    /\ owed' = owed \ {Me.pdu} /\ ecc_merge_flag' = FALSE
    /\ UNCHANGED <<sent, holds, stale>>
    /\ wr_ecc_buf' = [wr_ecc_buf EXCEPT ![avail_wr] = GivenTo(@)]
    /\ Return /\ Goto("WAIT_ECC_DATA_FINISH") /\ ecc_pre_state' = "ADD_WR_ECC_TRANS"
    /\ UNCHANGED <<addVars, waiting, iecc_owner_task, iecc_add_cnt, ecc_delay, pdu_push_pending>>

AddEccWrite ==
    /\ In("ADD_WR_ECC_TRANS") /\ Accepts
    /\ EccWrite(rd_ecc_buf, avail_wr)
    /\ wr_ecc_buf' = [wr_ecc_buf EXCEPT ![avail_wr] = GivenTo(@)]
    /\ Return /\ Goto("WAIT_ECC_DATA_FINISH") /\ ecc_pre_state' = "ADD_WR_ECC_TRANS"
    /\ UNCHANGED <<addVars, waiting, iecc_owner_task, iecc_add_cnt, ecc_delay, pdu_push_pending>>

(* Seeded mistake: after the wait every request goes on to send its data.  *)
mut_WaitOver == Goto("ECC_ADD_TRANS") /\ Refused

(* After the wait a write still has to send its data; a read has done so.  *)
WaitOver ==
    IF ecc_pre_state = "ADD_WR_ECC_TRANS" THEN Goto("ECC_ADD_TRANS") /\ Refused
                                          ELSE Goto("TRY_HIT_ECC_BUF") /\ Accepted

WaitData ==
    /\ In("WAIT_ECC_DATA_FINISH") /\ Return
    /\ IF ecc_delay > IECC_CONFLICT_CNT
       THEN WaitOver /\ ecc_delay' = 0
       ELSE Refused /\ ecc_delay' = ecc_delay + 1 /\ UNCHANGED ecc_model_state
    /\ UNCHANGED <<config, req, ecc_pre_state, iecc_add_cnt, availVars, rdVars, wrVars,
                   ecc_merge_flag, pdu_push_pending, dmcVars, histVars>>

(***************************************************************************)
(* ECC_RD_HIT_DIRTY and ECC_RD_MISS_DIRTY write the line back, read the    *)
(* ECC again and send the read, one command a call (iecc_add_cnt).  `buf'  *)
(* is the read buffer at the time, i the line the ECC goes to.  Only after *)
(* a hit does the line get its PDU.                                        *)
(***************************************************************************)
CleanLine(l) == [l EXCEPT !.tasks = Append(@, ecc_task), !.dirty = FALSE, !.vld = FALSE]
Cleaned == [wr_ecc_buf EXCEPT ![avail_wr] = CleanLine(@)]

DirtyWrite(buf) ==
    /\ iecc_add_cnt = 0 /\ iecc_add_cnt' = 1
    /\ EccWrite(buf, avail_wr) /\ wr_ecc_buf' = Cleaned
    /\ UNCHANGED <<ecc_model_state, ecc_pre_state>>

DirtyRead(buf, i) ==
    /\ iecc_add_cnt = 2 /\ iecc_add_cnt' = 0
    /\ DataRead(buf, i)
    /\ ecc_pre_state' = ecc_model_state /\ Goto("WAIT_ECC_DATA_FINISH")
    /\ UNCHANGED <<wr_ecc_buf, ecc_merge_flag>>

HitDirty ==
    /\ In("ECC_RD_HIT_DIRTY") /\ Accepts /\ Return
    /\ \/ DirtyWrite(rd_ecc_buf) /\ UNCHANGED rd_pri
       \/ /\ iecc_add_cnt = 1 /\ iecc_add_cnt' = 2
          /\ EccRead([rd_ecc_buf EXCEPT ![avail_rd].pdu = Me.pdu, ![avail_rd].vld = TRUE], avail_rd)
          /\ rd_pri' = Used(rd_pri, avail_rd)
          /\ UNCHANGED <<wr_ecc_buf, ecc_merge_flag, ecc_model_state, ecc_pre_state>>
       \/ DirtyRead(rd_ecc_buf, avail_rd) /\ UNCHANGED rd_pri
    /\ UNCHANGED <<hostVars, ecc_delay, availVars, recycle_rd, wr_pri, recycle_wr,
                   pdu_push_pending, finished, miss_dirty>>

(* Every call takes another line; without one the request starts over.     *)
MissDirty ==
    /\ In("ECC_RD_MISS_DIRTY") /\ Return
    /\ finished' = finished \ Unlisted(rd_ecc_buf)
    /\ LET S == Free(rd_ecc_buf, recycle_rd)
           i == Oldest(S, rd_pri)
           buf == Swept(rd_ecc_buf)
       IN  IF S = {}
           THEN /\ Goto("GET_ECC_BUF") /\ avail_rd' = None /\ recycle_rd' = S
                /\ rd_ecc_buf' = buf
                /\ UNCHANGED <<iecc_add_cnt, ecc_pre_state, queue, wr_ecc_buf, ecc_merge_flag,
                               sent, owed, holds, stale>>
           ELSE /\ avail_rd' = i /\ recycle_rd' = S \ {i}
                /\ \/ Accepts /\ DirtyWrite(buf)
                   \/ /\ Accepts /\ iecc_add_cnt = 1 /\ iecc_add_cnt' = 2
                      /\ EccRead(buf, i)
                      /\ UNCHANGED <<wr_ecc_buf, ecc_merge_flag, ecc_model_state, ecc_pre_state>>
                   \/ Accepts /\ DirtyRead(buf, i)
                   \/ /\ ~Accepts /\ rd_ecc_buf' = buf
                      /\ UNCHANGED <<iecc_add_cnt, ecc_model_state, ecc_pre_state, queue,
                                     wr_ecc_buf, ecc_merge_flag, sent, owed, holds, stale>>
    /\ UNCHANGED <<hostVars, ecc_delay, avail_wr, current_wr_pdu_hit, rd_pri, wr_pri, recycle_wr,
                   pdu_push_pending, miss_dirty>>
-----------------------------------------------------------------------------
Case == \/ TryHit \/ NoLine \/ GetRead \/ GetWrite \/ OutOfRange \/ Refuse
        \/ AddRead \/ AddWrite \/ AddEccRead \/ AddEccWrite \/ WaitData
        \/ HitDirty \/ MissDirty

(* Every request is accepted, or the simulator has ended.                  *)
Ended ==
    /\ \/ waiting = {} /\ queue = {} /\ pdu_push_pending = None
       \/ ecc_model_state = "out_of_range"
    /\ UNCHANGED vars

Next ==
    \/ \E t \in Tasks : Offer(t)
    \/ Case \/ PushPending
    \/ \E t \in queue : Finish(t)
    \/ Ended

Spec == Init /\ [][Next]_vars

(* The caller offers again in the next cycle what was refused, and update  *)
(* runs every cycle.  Commands end between calls only, so SF: the          *)
(* controller ends what it has taken although calls go on.                 *)
FairSpec ==
    /\ Spec
    /\ WF_vars(\E t \in Tasks : Offer(t)) /\ WF_vars(Case) /\ WF_vars(PushPending)
    /\ SF_vars(\E t \in queue : Finish(t))
-----------------------------------------------------------------------------
States == {"TRY_HIT_ECC_BUF", "GET_ECC_BUF", "ECC_ADD_TRANS", "ADD_RD_ECC_TRANS",
           "ADD_WR_ECC_TRANS", "WAIT_ECC_DATA_FINISH", "ECC_RD_HIT_DIRTY", "ECC_RD_MISS_DIRTY",
           "out_of_range"}

(* The types of the variables.                                             *)
TypeOK ==
    /\ [config |-> config, req |-> req] \in Cases
    /\ waiting \subseteq Tasks /\ iecc_owner_task \in Tasks \cup {None}
    /\ in_call \in BOOLEAN /\ {ecc_model_state, ecc_pre_state} \subseteq States
    /\ iecc_add_cnt \in 0..2 /\ ecc_delay \in 0..(IECC_CONFLICT_CNT + 1)
    /\ avail_rd \in RdIds \cup {None} /\ avail_wr \in WrIds \cup {None}
    /\ current_wr_pdu_hit \in BOOLEAN /\ ecc_merge_flag \in BOOLEAN
    /\ rd_ecc_buf \in [RdIds -> [vld : BOOLEAN, pdu : Nat, tasks : Seq(Nat)]]
    /\ wr_ecc_buf \in [WrIds -> [vld : BOOLEAN, pdu : Nat, tasks : Seq(Nat), pos : SUBSET Sectors,
                                 dirty : BOOLEAN, wr_ecc : BOOLEAN, merge_cnt : 0..MERGE_DEPTH,
                                 hit_cnt : 0..NTasks]]
    /\ rd_pri \in [RdIds -> 1..PDU_RD_DEPTH] /\ wr_pri \in [WrIds -> 1..PDU_WR_DEPTH]
    /\ recycle_rd \subseteq RdIds /\ recycle_wr \subseteq WrIds
    /\ pdu_push_pending \in WrIds \cup {None}
    /\ queue \subseteq Nat /\ finished \subseteq Nat
    /\ sent \subseteq Tasks /\ owed \subseteq Pdus /\ holds \in [RdIds -> Pdus \cup {None}]
    /\ stale \in BOOLEAN /\ miss_dirty \in BOOLEAN

(* No ECC is lost: as long as the ECC of data that was written has not     *)
(* gone to the DRAM, a valid dirty line has it, or it is on its way out of *)
(* the line that GET_ECC_BUF took.  Merging two lines, and PDU_PUSH_MODE   *)
(* with masked writes among the others, break this (README).               *)
Kept(p) ==
    \E i \in WrIds : /\ wr_ecc_buf[i].pdu = p /\ wr_ecc_buf[i].vld
                     /\ \/ wr_ecc_buf[i].dirty
                        \/ i = avail_wr /\ ecc_model_state = "ADD_WR_ECC_TRANS"
MaskedPush == config.push /\ \E t \in Tasks : req[t].mask
EccKept == ~config.merge /\ ~MaskedPush => \A p \in owed : Kept(p)

(* A read never goes to a line that lacks the latest ECC of its PDU, in a  *)
(* run that has not used the unfinished state ECC_RD_MISS_DIRTY.           *)
FreshEcc == miss_dirty \/ config.merge \/ MaskedPush \/ ~stale

(* A PDU is in one line of each buffer at most (a line GET_ECC_BUF has     *)
(* taken keeps the old PDU until the data is sent).                        *)
OneLine ==
    /\ \A i, j \in RdIds : rd_ecc_buf[i].vld /\ rd_ecc_buf[j].vld
                            /\ rd_ecc_buf[i].pdu = rd_ecc_buf[j].pdu => i = j
    /\ ecc_model_state = "TRY_HIT_ECC_BUF" =>
         \A i, j \in WrIds : wr_ecc_buf[i].vld /\ wr_ecc_buf[j].vld
                            /\ wr_ecc_buf[i].pdu = wr_ecc_buf[j].pdu => i = j

(* The data command of a request is sent once: a task that is sent and     *)
(* still waits is a read in the pause after its write-back.                *)
SentOnce ==
    \A t \in sent \cap waiting : /\ t = iecc_owner_task
                                 /\ ecc_model_state = "WAIT_ECC_DATA_FINISH"
                                 /\ ecc_pre_state # "ADD_WR_ECC_TRANS"

(* A task that a line lists is known: it runs, or its end will be seen, so *)
(* that the line comes free again.                                         *)
LinesReturn == Listed \subseteq queue \cup finished

(* The lines: typed, one for a PDU, and none lost to a command that nobody *)
(* will see the end of (hit_ecc_buf, update_rd_ecc_buf, update_wr_ecc_buf).*)
LinesSound == TypeOK /\ OneLine /\ LinesReturn

(* Every request is accepted in the end.                                   *)
EveryRequestAccepted == <>(waiting = {} \/ ecc_model_state = "out_of_range")
=============================================================================
