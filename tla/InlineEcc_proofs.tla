-------------------------- MODULE InlineEcc_proofs --------------------------
(***************************************************************************)
(* For any requests, buffers and queue of the controller: a request sends  *)
(* its data command once (SentOnceHolds), no ECC is lost (EccKeptHolds),   *)
(* no read goes to a line with an old ECC (FreshEccHolds), the last two    *)
(* under the conditions EccKept and FreshEcc name, and a PDU has one line, *)
(* which comes free again (LinesSoundHolds, in every configuration).       *)
(*                                                                         *)
(* Three layers, each inductive given the one before it: Control says whom *)
(* the machine works for, LinesInv that the line it has chosen may be      *)
(* used, FreshInv that the lines agree on who has the ECC of a PDU.        *)
(* SoundInv stands beside the last two: what the lists of the lines hold,  *)
(* and which lines have the PDU of the request.                            *)
(***************************************************************************)
EXTENDS InlineEcc, FiniteSetTheorems, WellFoundedInduction, TLAPS

(* Who the machine works for, and when.                                    *)
Asked   == /\ config \in Config /\ \E n \in 1..NTasks : req \in [1..n -> Request]
           /\ waiting \subseteq Tasks /\ iecc_owner_task \in waiting \cup {None}
Working == in_call \/ ecc_model_state # "TRY_HIT_ECC_BUF" => iecc_owner_task # None
Pushing == pdu_push_pending # None => ~in_call /\ iecc_owner_task = None

Control == Asked /\ Working /\ Pushing /\ SentOnce

(* What the assumption says of tasks and lines.                            *)
LEMMA Constants ==
  /\ NTasks \in Nat \ {0} /\ PDU_RD_DEPTH \in Nat \ {0} /\ PDU_WR_DEPTH \in Nat \ {0}
  /\ Pdus \subseteq Nat /\ None \notin Nat
  BY EccAssumption DEF EccAssumption

(* A task is not None.                                                     *)
LEMMA TasksType ==
  ASSUME Asked
  PROVE  Tasks \subseteq Nat /\ None \notin Tasks /\ \A t \in Tasks : req[t] \in Request
<1>1. PICK n \in 1..NTasks : req \in [1..n -> Request]
  BY DEF Asked
<1> QED
  BY <1>1, Constants DEF Tasks

(* At the start nothing is accepted.                                       *)
LEMMA ControlInit == Init => Control
<1> SUFFICES ASSUME Init PROVE Control
  OBVIOUS
<1>1. PICK c \in Cases : config = c.config /\ req = c.req
  BY DEF Init
<1>2. Asked
  BY <1>1, EccAssumption DEF EccAssumption, Init, Asked, Tasks
<1> QED
  BY <1>2 DEF Init, Control, Working, Pushing, SentOnce

-----------------------------------------------------------------------------
(* Every step keeps the order of a request.                                *)
LEMMA ControlNext == Control /\ [Next]_vars => Control'
<1> SUFFICES ASSUME Control, [Next]_vars PROVE Control'
  OBVIOUS
<1> USE DEF Control, Working, Pushing, SentOnce, In, Goto, Return
<1>1. None \notin Tasks /\ None \notin waiting
  BY TasksType DEF Asked
<1>2. ASSUME UNCHANGED <<config, req>>, waiting' \subseteq waiting,
             iecc_owner_task' \in waiting' \cup {None}
      PROVE  Asked'
  BY <1>2 DEF Asked, Tasks
<1>3. CASE UNCHANGED <<hostVars, in_call, ecc_model_state, ecc_pre_state, sent, pdu_push_pending>>
  BY <1>2, <1>3 DEF hostVars, Asked
<1>4. ASSUME NEW t \in Tasks, Offer(t) PROVE Control'
  BY <1>1, <1>2, <1>4 DEF Offer, Asked, stateVars, histVars
<1>5. CASE PushPending
  BY <1>1, <1>2, <1>5 DEF PushPending, EccWrite, Asked, hostVars
<1>6. ASSUME NEW t \in queue, Finish(t) PROVE Control'
  BY <1>3, <1>6 DEF Finish, stateVars, histVars
<1>7. CASE TryHit
  BY <1>1, <1>2, <1>7 DEF TryHit, NextState, callVars, Asked
<1>8. CASE NoLine
  BY <1>1, <1>2, <1>8 DEF NoLine, getVars, histVars, Asked
<1>9. CASE GetRead
  BY <1>1, <1>2, <1>9 DEF GetRead, getVars, histVars, Asked
<1>10. CASE GetWrite
  BY <1>1, <1>2, <1>10 DEF GetWrite, getVars, histVars, Asked
<1>11. CASE OutOfRange
  BY <1>1, <1>2, <1>11 DEF OutOfRange, hostVars, histVars, Asked
<1>12. CASE Refuse
  BY <1>1, <1>2, <1>12 DEF Refuse, hostVars, stateVars, histVars, Asked
<1>13. CASE AddRead
  BY <1>1, <1>2, <1>13 DEF AddRead, DataRead, Accepted, addVars, task, Asked
<1>14. CASE AddWrite
  BY <1>1, <1>2, <1>14 DEF AddWrite, DataWrite, Accepted, task, Asked
<1>15. CASE AddEccRead
  BY <1>1, <1>2, <1>15 DEF AddEccRead, EccRead, addVars, Asked
<1>16. CASE AddEccWrite
  BY <1>1, <1>2, <1>16 DEF AddEccWrite, EccWrite, addVars, Asked
<1>17. CASE WaitData
  BY <1>1, <1>2, <1>17 DEF WaitData, WaitOver, Accepted, Refused, task, histVars, Asked
<1>18. CASE HitDirty
  BY <1>1, <1>2, <1>18 DEF HitDirty, DirtyWrite, DirtyRead, EccWrite, EccRead, DataRead, task,
                           hostVars, Asked
<1>19. CASE MissDirty
  BY <1>1, <1>2, <1>19 DEF MissDirty, DirtyWrite, DirtyRead, EccWrite, EccRead, DataRead, task,
                           hostVars, Asked
<1>20. CASE UNCHANGED vars
  BY <1>3, <1>20 DEF vars, hostVars, stateVars, histVars
<1> QED
  BY <1>4, <1>5, <1>6, <1>7, <1>8, <1>9, <1>10, <1>11, <1>12, <1>13, <1>14, <1>15, <1>16, <1>17,
     <1>18, <1>19, <1>20 DEF Next, Case, Ended

(* SentOnce, for every configuration and any requests: whatever the        *)
(* controller refuses and whatever is written back in between, proc_iecc   *)
(* sends the data command of a request once.                               *)
THEOREM SentOnceHolds == Spec => []SentOnce
<1>1. Control => SentOnce
  BY DEF Control
<1> QED
  BY <1>1, ControlInit, ControlNext, PTL DEF Spec
-----------------------------------------------------------------------------
(* Some numbers, not none and not too large, have a largest one.           *)
LEMMA LargestIn ==
  ASSUME NEW n \in Nat, NEW S \in SUBSET (0..n), S # {}
  PROVE  \E i \in S : \A j \in S : j <= i
<1> DEFINE R == OpToRel(<, Nat)
           T == {k \in Nat : n - k \in S}
<1>1. \A x, y \in Nat : x < y => <<x, y>> \in R
  BY DEF OpToRel
<1>2. IsWellFoundedOn(R, Nat)
  BY NatLessThanWellFounded
<1> HIDE DEF R
<1>3. T # {} /\ T \subseteq Nat
  <2>1. PICK i \in S : TRUE
    OBVIOUS
  <2>2. n - i \in Nat /\ n - (n - i) = i
    OBVIOUS
  <2> QED
    BY <2>2
<1>4. PICK k \in T : \A y \in T : ~ (<<y, k>> \in R)
  <2> HIDE DEF T
  <2> QED
    BY <1>2, <1>3, WFMin
<1>5. ASSUME NEW j \in S PROVE j <= n - k
  <2>1. n - j \in Nat /\ n - (n - j) = j
    OBVIOUS
  <2>2. ~(n - j < k)
    BY <1>1, <1>3, <1>4, <2>1
  <2> QED
    BY <2>1, <2>2, <1>3
<1> QED
  BY <1>4, <1>5

(* Of some lines there is one unused for longest.                          *)
LEMMA OldestIn ==
  ASSUME NEW n \in Nat, NEW m \in Nat, NEW S \in SUBSET (1..n), S # {},
         NEW pri, \A j \in S : pri[j] \in 0..m
  PROVE  Oldest(S, pri) \in S
<1>0. \A x \in 1..n : x \in 0..n
  OBVIOUS
<1> DEFINE V == {pri[j] : j \in S}
<1>1. V \in SUBSET (0..m) /\ V # {}
  OBVIOUS
<1>2. PICK v \in V : \A w \in V : w <= v
  <2> HIDE DEF V
  <2> QED
    BY <1>1, LargestIn
<1> DEFINE L == {j \in S : pri[j] = v}
<1>3. L \in SUBSET (0..n) /\ L # {}
  <2>1. PICK k \in S : pri[k] = v
    BY <1>2
  <2>2. k \in L
    BY <2>1
  <2>3. \A x \in S : x \in 0..n
    BY <1>0
  <2> QED
    BY <2>2, <2>3
<1>4. PICK i \in L : \A j \in L : j <= i
  <2> HIDE DEF L
  <2> QED
    BY <1>3, LargestIn
<1>5. i \in S /\ \A j \in S : pri[j] < pri[i] \/ (pri[j] = pri[i] /\ j <= i)
  <2>1. ASSUME NEW j \in S PROVE pri[j] < pri[i] \/ (pri[j] = pri[i] /\ j <= i)
    <3>1. pri[j] \in Nat /\ v \in Nat /\ pri[i] = v /\ pri[j] <= v
      <4>1. pri[j] \in V /\ pri[i] = v
        BY <1>4
      <4> HIDE DEF V
      <4> QED
        BY <1>1, <1>2, <4>1
    <3>2. CASE pri[j] = v
      <4>1. j \in L
        BY <3>2
      <4> HIDE DEF L
      <4>2. j <= i
        BY <1>4, <4>1
      <4> QED
        BY <3>1, <3>2, <4>2
    <3> QED
      BY <3>1, <3>2
  <2> QED
    BY <1>4, <2>1
<1> QED
  BY <1>5 DEF Oldest
-----------------------------------------------------------------------------
(* Neither two lines are merged, nor is PDU_PUSH_MODE mixed with masked    *)
(* writes.                                                                 *)
Plain == ~config.merge /\ ~MaskedPush

Line(T) == [vld : BOOLEAN, pdu : Nat, tasks : T, pos : SUBSET Sectors, dirty : BOOLEAN,
            wr_ecc : BOOLEAN, merge_cnt : Nat, hit_cnt : Nat]
LineT == /\ \E T : wr_ecc_buf \in [WrIds -> Line(T)]
         /\ wr_pri \in [WrIds -> 1..PDU_WR_DEPTH] /\ recycle_wr \subseteq WrIds

Waits(s) == ecc_model_state = "WAIT_ECC_DATA_FINISH" /\ ecc_pre_state = s
(* The line that is taken for a write: its old ECC goes out next, or it is *)
(* the PDU's, or has nothing to lose.                                      *)
Chosen ==
  /\ ecc_model_state = "ADD_WR_ECC_TRANS" =>
       ~IsRead /\ avail_wr \in WrIds /\ wr_ecc_buf[avail_wr].vld /\ ~wr_ecc_buf[avail_wr].dirty
  /\ (ecc_model_state = "ECC_ADD_TRANS" \/ Waits("ADD_WR_ECC_TRANS")) /\ ~IsRead =>
       /\ avail_wr \in WrIds /\ wr_ecc_buf[avail_wr].vld
       /\ wr_ecc_buf[avail_wr].pdu = Me.pdu \/ ~wr_ecc_buf[avail_wr].dirty
  /\ ecc_model_state \in {"ECC_RD_HIT_DIRTY", "ECC_RD_MISS_DIRTY"} => IsRead /\ avail_wr \in WrIds
  /\ ecc_model_state = "ADD_RD_ECC_TRANS" => IsRead
(* In PDU_PUSH_MODE a line is dirty only until it is pushed.               *)
Pushed ==
  /\ pdu_push_pending \in WrIds \cup {None}
  /\ config.push => \A i \in WrIds : wr_ecc_buf[i].dirty => pdu_push_pending = i

Lines == LineT /\ Chosen /\ Pushed /\ \A p \in owed : Kept(p)
LinesInv == Control /\ (Plain => Lines)

(* At the start nothing is owed.                                           *)
LEMMA LinesInit == Init => LinesInv
<1> SUFFICES ASSUME Init PROVE LinesInv
  OBVIOUS
<1>1. wr_ecc_buf \in [WrIds -> Line({<<>>})]
  BY DEF Init, Line
<1>2. wr_pri \in [WrIds -> 1..PDU_WR_DEPTH] /\ recycle_wr \subseteq WrIds
  BY Constants DEF Init
<1> QED
  BY <1>1, <1>2, ControlInit DEF Init, LinesInv, Lines, LineT, Chosen, Waits, Pushed

(* What a line keeps when it only forgets tasks.                           *)
LEMMA SweptType ==
  ASSUME LineT
  PROVE  /\ \E T : Swept(wr_ecc_buf) \in [WrIds -> Line(T)]
         /\ \A i \in WrIds : /\ Swept(wr_ecc_buf)[i].vld = wr_ecc_buf[i].vld
                             /\ Swept(wr_ecc_buf)[i].pdu = wr_ecc_buf[i].pdu
                             /\ Swept(wr_ecc_buf)[i].dirty = wr_ecc_buf[i].dirty
         /\ Free(wr_ecc_buf, recycle_wr) \subseteq WrIds
<1>1. PICK T : wr_ecc_buf \in [WrIds -> Line(T)]
  BY DEF LineT
<1>2. \A i \in WrIds :
         [wr_ecc_buf[i] EXCEPT !.tasks = Sweep(@)] \in Line(T \cup {Sweep(wr_ecc_buf[j].tasks) : j \in WrIds})
  BY <1>1 DEF Line
<1>3. Swept(wr_ecc_buf) \in [WrIds -> Line(T \cup {Sweep(wr_ecc_buf[j].tasks) : j \in WrIds})]
  BY <1>1, <1>2 DEF Swept
<1>4. \A i \in WrIds : /\ Swept(wr_ecc_buf)[i].vld = wr_ecc_buf[i].vld
                       /\ Swept(wr_ecc_buf)[i].pdu = wr_ecc_buf[i].pdu
                       /\ Swept(wr_ecc_buf)[i].dirty = wr_ecc_buf[i].dirty
  BY <1>1 DEF Swept, Line
<1>5. Free(wr_ecc_buf, recycle_wr) \subseteq WrIds
  BY <1>1 DEF Free, LineT
<1> QED
  BY <1>3, <1>4, <1>5

(* A hit is a line of the buffer.                                          *)
LEMMA HitIn ==
  ASSUME NEW n \in Nat, NEW buf, DOMAIN buf = 1..n, LastHit(buf) # None
  PROVE  LastHit(buf) \in Hits(buf) /\ Hits(buf) \subseteq 1..n
<1> DEFINE S == Hits(buf)
<1>1. S \in SUBSET (1..n) /\ S # {}
  BY DEF Hits, LastHit
<1>2. \A j \in S : [i \in S |-> 0][j] \in 0..0
  OBVIOUS
<1>3. Oldest(S, [i \in S |-> 0]) \in S
  <2> HIDE DEF S
  <2> QED
    BY <1>1, <1>2, OldestIn
<1> QED
  BY <1>1, <1>3 DEF LastHit

(* The line that is taken is one of those offered.                         *)
LEMMA VictimIn ==
  ASSUME LineT, NEW S \in SUBSET WrIds, S # {}
  PROVE  Victim(S) \in S
<1> DEFINE full == {i \in S : FullLine(i)}
           idle == {i \in S : Idle(i)}
<1>1. \A X \in SUBSET S : X # {} => Oldest(X, wr_pri) \in X
  <2> SUFFICES ASSUME NEW X \in SUBSET S, X # {} PROVE Oldest(X, wr_pri) \in X
    OBVIOUS
  <2>1. X \in SUBSET (1..PDU_WR_DEPTH) /\ \A j \in X : wr_pri[j] \in 0..PDU_WR_DEPTH
    BY Constants DEF LineT, WrIds
  <2> QED
    BY <2>1, OldestIn, Constants
<1>2. full \in SUBSET S /\ idle \in SUBSET S
  OBVIOUS
<1> QED
  BY <1>1, <1>2 DEF Victim

(* The priorities stay in their range.                                     *)
LEMMA UsedType ==
  ASSUME LineT, NEW i \in WrIds
  PROVE  Used(wr_pri, i) \in [WrIds -> 1..PDU_WR_DEPTH]
<1>1. ASSUME NEW j \in WrIds
      PROVE  (IF j = i THEN 1 ELSE IF wr_pri[j] < wr_pri[i] THEN wr_pri[j] + 1 ELSE wr_pri[j])
                \in 1..PDU_WR_DEPTH
  BY Constants DEF LineT
<1> QED
  BY <1>1 DEF Used, LineT
-----------------------------------------------------------------------------
SameLine(i) == /\ wr_ecc_buf'[i].vld = wr_ecc_buf[i].vld
               /\ wr_ecc_buf'[i].pdu = wr_ecc_buf[i].pdu
               /\ wr_ecc_buf'[i].dirty = wr_ecc_buf[i].dirty

(* A step that leaves the lines, but for their tasks, as they are.         *)
LEMMA LinesSame ==
  ASSUME Lines, LineT', \A i \in WrIds : SameLine(i), UNCHANGED <<config, owed, pdu_push_pending>>,
         ecc_model_state = "ADD_WR_ECC_TRANS" => UNCHANGED <<ecc_model_state, avail_wr>>
  PROVE  Pushed' /\ \A p : Kept(p) => Kept(p)'
<1>1. Pushed'
  BY DEF Lines, Pushed, SameLine
<1>2. ASSUME NEW p, Kept(p) PROVE Kept(p)'
  <2>1. PICK i \in WrIds : /\ wr_ecc_buf[i].pdu = p /\ wr_ecc_buf[i].vld
                           /\ \/ wr_ecc_buf[i].dirty
                              \/ i = avail_wr /\ ecc_model_state = "ADD_WR_ECC_TRANS"
    BY <1>2 DEF Kept
  <2> QED
    BY <2>1 DEF Kept, SameLine
<1> QED
  BY <1>1, <1>2

(* Nothing of the lines changes.                                           *)
LEMMA LinesUnchanged ==
  ASSUME LineT, UNCHANGED wrVars
  PROVE  LineT' /\ \A i \in WrIds : SameLine(i)
  BY DEF LineT, wrVars, SameLine

(* Only tasks are forgotten.                                               *)
LEMMA LinesSwept ==
  ASSUME LineT, wr_ecc_buf' = Swept(wr_ecc_buf), recycle_wr' = Free(wr_ecc_buf, recycle_wr),
         wr_pri' = wr_pri
  PROVE  LineT' /\ \A i \in WrIds : SameLine(i)
<1>1. LineT'
  BY SweptType DEF LineT
<1>2. \A i \in WrIds : SameLine(i)
  BY SweptType DEF SameLine
<1> QED
  BY <1>1, <1>2

(* A change of line w matters to the ECC of its own PDU only.              *)
LEMMA LinesWritten ==
  ASSUME NEW w \in WrIds, \A i \in WrIds \ {w} : SameLine(i),
         ecc_model_state = "ADD_WR_ECC_TRANS" => w = avail_wr
  PROVE  \A p : Kept(p) /\ p # wr_ecc_buf[w].pdu => Kept(p)'
<1> SUFFICES ASSUME NEW p, Kept(p), p # wr_ecc_buf[w].pdu PROVE Kept(p)'
  OBVIOUS
<1>1. PICK i \in WrIds : /\ wr_ecc_buf[i].pdu = p /\ wr_ecc_buf[i].vld
                         /\ \/ wr_ecc_buf[i].dirty
                            \/ i = avail_wr /\ ecc_model_state = "ADD_WR_ECC_TRANS"
  BY DEF Kept
<1>2. i # w /\ wr_ecc_buf[i].dirty
  BY <1>1
<1> QED
  BY <1>1, <1>2 DEF Kept, SameLine

(* The line that GET_ECC_BUF takes for a write.                            *)
LEMMA LinesTaken ==
  ASSUME Control, Plain, Lines, GetWrite
  PROVE  /\ Lines' /\ \A p : Kept(p) => Kept(p)'
         /\ wr_ecc_buf'[avail_wr'].pdu = wr_ecc_buf[avail_wr'].pdu
         /\ \A i \in WrIds \ {avail_wr'} : SameLine(i)
<1> USE DEF Control, Lines
<1> DEFINE S == Free(wr_ecc_buf, recycle_wr)
           v == Victim(S)
           push == config.push /\ ~Me.mask
           buf == Swept(wr_ecc_buf)
<1>1. /\ ~IsRead /\ S # {} /\ in_call /\ ecc_model_state = "GET_ECC_BUF"
      /\ avail_wr' = v /\ wr_pri' = Used(wr_pri, v) /\ recycle_wr' = S \ {v}
      /\ wr_ecc_buf' = [i \in WrIds |-> IF i = v THEN Taken(buf[i], push) ELSE buf[i]]
      /\ ecc_model_state' = IF (buf[v].wr_ecc \/ buf[v].dirty) /\ ~push THEN "ADD_WR_ECC_TRANS"
                            ELSE "ECC_ADD_TRANS"
      /\ UNCHANGED <<config, req, iecc_owner_task, owed, pdu_push_pending>>
  BY DEF GetWrite, Plain, In, Goto, getVars, histVars
<1>2. S \in SUBSET WrIds /\ v \in S /\ v \in WrIds
  BY <1>1, SweptType, VictimIn
<1>3. pdu_push_pending = None
  BY <1>1 DEF Pushing
<1>4. config.push => push
  <2>1. task \in Tasks
    BY <1>1, TasksType DEF Working, Asked, task
  <2> QED
    BY <2>1, TasksType DEF Plain, MaskedPush, Me, Request
<1>5. config.push => ~wr_ecc_buf[v].dirty
  BY <1>2, <1>3, Constants DEF Pushed, WrIds
<1>6. PICK T : buf \in [WrIds -> Line(T)]
  BY SweptType
<1>7. push \in BOOLEAN
  BY DEF Me
<1> HIDE DEF S, v, push, buf
<1>8. \A i \in WrIds : Taken(buf[i], push) \in Line(T)
  BY <1>6, <1>7 DEF Taken, Line
<1>9. /\ wr_ecc_buf'[v].vld /\ ~wr_ecc_buf'[v].dirty /\ wr_ecc_buf'[v].pdu = wr_ecc_buf[v].pdu
      /\ \A i \in WrIds \ {v} : SameLine(i)
  BY <1>1, <1>2, <1>6, SweptType DEF Taken, Line, SameLine, buf
<1>10. LineT'
  <2>1. wr_ecc_buf' \in [WrIds -> Line(T)]
    BY <1>1, <1>6, <1>8
  <2>2. wr_pri' \in [WrIds -> 1..PDU_WR_DEPTH]
    BY <1>1, <1>2, UsedType
  <2> QED
    BY <1>1, <1>2, <2>1, <2>2 DEF LineT
<1>11. Chosen'
  BY <1>1, <1>2, <1>9 DEF Chosen, Waits, IsRead, Me, task
<1>12. Pushed'
  BY <1>1, <1>3, <1>9, Constants DEF Pushed, SameLine, WrIds
<1>13. ASSUME NEW p, Kept(p) PROVE Kept(p)'
  <2>1. PICK i \in WrIds : wr_ecc_buf[i].pdu = p /\ wr_ecc_buf[i].vld /\ wr_ecc_buf[i].dirty
    BY <1>1, <1>13 DEF Kept
  <2>2. CASE i = v
    <3>1. ~push /\ buf[v].dirty
      BY <1>2, <1>4, <1>5, <2>1, <2>2, SweptType DEF buf, push
    <3> QED
      BY <1>1, <1>2, <1>9, <2>1, <2>2, <3>1 DEF Kept
  <2>3. CASE i # v
    BY <1>9, <2>1, <2>3 DEF Kept, SameLine
  <2> QED
    BY <2>2, <2>3
<1> QED
  BY <1>1, <1>9, <1>10, <1>11, <1>12, <1>13

(* One line changes, the others do not.                                    *)
LEMMA LineSet ==
  ASSUME LineT, NEW w \in WrIds, NEW T, wr_ecc_buf \in [WrIds -> Line(T)],
         NEW list, NEW l \in Line(T \cup {list}), UNCHANGED <<wr_pri, recycle_wr>>,
         wr_ecc_buf' = [wr_ecc_buf EXCEPT ![w] = l]
  PROVE  LineT' /\ wr_ecc_buf'[w] = l /\ \A i \in WrIds \ {w} : SameLine(i)
<1>1. \A i \in WrIds : wr_ecc_buf[i] \in Line(T \cup {list})
  BY DEF Line
<1>2. wr_ecc_buf' \in [WrIds -> Line(T \cup {list})]
  BY <1>1
<1> QED
  BY <1>2 DEF LineT, SameLine

(* A write is accepted: its ECC is in the line that was taken for it.      *)
LEMMA LinesWrite ==
  ASSUME Control, Plain, Lines, AddWrite
  PROVE  /\ Lines' /\ \A p : Kept(p) \/ p = Me.pdu => Kept(p)'
         /\ wr_ecc_buf'[avail_wr].pdu = Me.pdu /\ \A i \in WrIds \ {avail_wr} : SameLine(i)
<1> USE DEF Control, Lines
<1>1. /\ ~IsRead /\ in_call /\ ecc_model_state = "ECC_ADD_TRANS"
      /\ ecc_model_state' = "TRY_HIT_ECC_BUF"
      /\ wr_ecc_buf' = [wr_ecc_buf EXCEPT ![avail_wr] = Written(@)]
      /\ owed' = owed \cup {Me.pdu}
      /\ IF PushWrite THEN pdu_push_pending' = avail_wr ELSE pdu_push_pending' = pdu_push_pending
      /\ UNCHANGED <<config, req, wr_pri, recycle_wr>>
  BY DEF AddWrite, DataWrite, In, Goto
<1>2. task \in Tasks /\ Me \in Request
  BY <1>1, TasksType DEF Working, Asked, task, Me
<1>3. /\ avail_wr \in WrIds /\ wr_ecc_buf[avail_wr].vld
      /\ wr_ecc_buf[avail_wr].pdu = Me.pdu \/ ~wr_ecc_buf[avail_wr].dirty
  BY <1>1 DEF Chosen
<1>4. PICK T : wr_ecc_buf \in [WrIds -> Line(T)]
  BY DEF LineT
<1>5. wr_ecc_buf[avail_wr] \in Line(T) /\ Me.pdu \in Nat /\ Me.part \in SUBSET Sectors
  BY <1>2, <1>3, <1>4, Constants DEF Request
<1> DEFINE l == wr_ecc_buf[avail_wr]
           U == T \cup {Append(l.tasks, task)}
<1>6. Written(l) \in Line(U) /\ Written(l).vld /\ Written(l).dirty /\ Written(l).pdu = Me.pdu
  <2> DEFINE h == IF current_wr_pdu_hit THEN l.hit_cnt + 1 ELSE l.hit_cnt
             list == Append(l.tasks, task)
  <2>1. l \in Line(T) /\ h \in Nat
    BY <1>5 DEF Line
  <2>2. Written(l) = [l EXCEPT !.tasks = list, !.dirty = TRUE, !.pos = l.pos \cup Me.part,
                               !.pdu = Me.pdu, !.hit_cnt = h]
    BY Zenon DEF Written
  <2>3. l.pos \cup Me.part \in SUBSET Sectors
    BY <1>5, <2>1 DEF Line
  <2> HIDE DEF h, l, list
  <2> QED
    BY <1>3, <1>5, <2>1, <2>2, <2>3 DEF Line, l, list
<1>7. LineT' /\ wr_ecc_buf'[avail_wr] = Written(l) /\ \A i \in WrIds \ {avail_wr} : SameLine(i)
  <2>1. wr_ecc_buf' = [wr_ecc_buf EXCEPT ![avail_wr] = Written(l)]
    BY <1>1
  <2> HIDE DEF l
  <2> QED
    BY <1>1, <1>3, <1>4, <1>6, <2>1, LineSet
<1>9. Chosen'
  BY <1>1 DEF Chosen, Waits
<1>10. Pushed'
  <2>1. pdu_push_pending = None
    BY <1>1 DEF Pushing
  <2>2. config.push => PushWrite
    <3>1. config.push => ~Me.mask
      BY <1>2 DEF Plain, MaskedPush, Me
    <3> QED
      BY <3>1 DEF PushWrite
  <2>3. config.push => \A i \in WrIds : ~wr_ecc_buf[i].dirty
    BY <2>1, Constants DEF Pushed, WrIds
  <2> QED
    BY <1>1, <1>3, <1>6, <1>7, <2>1, <2>2, <2>3 DEF Pushed, SameLine
<1>11. ASSUME NEW p, Kept(p) \/ p = Me.pdu PROVE Kept(p)'
  <2>1. CASE p = Me.pdu
    BY <1>3, <1>6, <1>7, <2>1 DEF Kept
  <2>2. CASE p # Me.pdu
    <3>1. PICK i \in WrIds : wr_ecc_buf[i].pdu = p /\ wr_ecc_buf[i].vld /\ wr_ecc_buf[i].dirty
      BY <1>1, <1>11, <2>2 DEF Kept
    <3>2. i # avail_wr
      BY <1>3, <2>2, <3>1
    <3> QED
      BY <1>7, <3>1, <3>2 DEF Kept, SameLine
  <2> QED
    BY <2>1, <2>2
<1> QED
  BY <1>1, <1>6, <1>7, <1>9, <1>10, <1>11

(* The ECC of line w goes out (EccWrite, and the line is l from then on).  *)
LEMMA LinesEccWrite ==
  ASSUME Lines, NEW w \in WrIds, NEW buf, EccWrite(buf, w), UNCHANGED <<config, wr_pri, recycle_wr>>,
         NEW list, NEW l, \A T : wr_ecc_buf[w] \in Line(T) => l \in Line(T \cup {list}),
         wr_ecc_buf' = [wr_ecc_buf EXCEPT ![w] = l],
         ecc_model_state = "ADD_WR_ECC_TRANS" => w = avail_wr
  PROVE  /\ LineT' /\ wr_ecc_buf'[w] = l /\ \A i \in WrIds \ {w} : SameLine(i)
         /\ \A p : Kept(p) /\ p # wr_ecc_buf[w].pdu => Kept(p)'
         /\ \A p \in owed' : Kept(p)'
<1>1. PICK T : wr_ecc_buf \in [WrIds -> Line(T)]
  BY DEF Lines, LineT
<1>2. LineT' /\ wr_ecc_buf'[w] = l /\ \A i \in WrIds \ {w} : SameLine(i)
  BY <1>1, LineSet DEF Lines
<1>3. owed' = owed \ {wr_ecc_buf[w].pdu}
  BY DEF EccWrite
<1> QED
  BY <1>2, <1>3, LinesWritten DEF Lines

(* The pending push: the line keeps its PDU, which owes nothing any more.  *)
LEMMA LinesPush ==
  ASSUME Control, Lines, PushPending
  PROVE  /\ Lines' /\ \A p : Kept(p) /\ p # wr_ecc_buf[pdu_push_pending].pdu => Kept(p)'
         /\ \A i \in WrIds : /\ wr_ecc_buf'[i].vld = wr_ecc_buf[i].vld
                             /\ wr_ecc_buf'[i].pdu = wr_ecc_buf[i].pdu
<1> USE DEF Control, Lines
<1> DEFINE w == pdu_push_pending
           list == Append(wr_ecc_buf[w].tasks, ecc_task)
           l == PushedOut(wr_ecc_buf[w])
<1>1. /\ w # None /\ w \in WrIds /\ ecc_model_state = "TRY_HIT_ECC_BUF"
      /\ ecc_model_state' = "TRY_HIT_ECC_BUF" /\ pdu_push_pending' = None
      /\ EccWrite(rd_ecc_buf, w) /\ wr_ecc_buf' = [wr_ecc_buf EXCEPT ![w] = l]
      /\ UNCHANGED <<config, wr_pri, recycle_wr>>
  <2>1. wr_ecc_buf' = [wr_ecc_buf EXCEPT ![w] = l]
    BY DEF PushPending
  <2> QED
    BY <2>1 DEF PushPending, Pushing, Working, Pushed, Goto, hostVars
<1>2. \A T : wr_ecc_buf[w] \in Line(T) =>
               /\ l \in Line(T \cup {list}) /\ (config.push => ~l.dirty)
               /\ l.vld = wr_ecc_buf[w].vld /\ l.pdu = wr_ecc_buf[w].pdu
  BY DEF Asked, Config, Line, PushedOut
<1>3. /\ LineT' /\ wr_ecc_buf'[w] = l /\ \A i \in WrIds \ {w} : SameLine(i)
      /\ \A p : Kept(p) /\ p # wr_ecc_buf[w].pdu => Kept(p)'
      /\ \A p \in owed' : Kept(p)'
  <2> HIDE DEF l, list, w
  <2> QED
    BY <1>1, <1>2, LinesEccWrite
<1>4. Chosen'
  BY <1>1 DEF Chosen, Waits
<1>5. PICK T : wr_ecc_buf \in [WrIds -> Line(T)]
  BY DEF LineT
<1>6. /\ config.push => ~l.dirty
      /\ l.vld = wr_ecc_buf[w].vld /\ l.pdu = wr_ecc_buf[w].pdu
  BY <1>1, <1>2, <1>5
<1>7. Pushed'
  <2> HIDE DEF l, list
  <2> QED
    BY <1>1, <1>3, <1>6 DEF Pushed, SameLine
<1>8. \A i \in WrIds : wr_ecc_buf'[i].vld = wr_ecc_buf[i].vld /\ wr_ecc_buf'[i].pdu = wr_ecc_buf[i].pdu
  <2> HIDE DEF l, list
  <2> QED
    BY <1>3, <1>6 DEF SameLine
<1> QED
  BY <1>3, <1>4, <1>7, <1>8

(* The ECC of the line that a write needs goes out.                        *)
LEMMA LinesFreed ==
  ASSUME Control, Lines, AddEccWrite
  PROVE  /\ Lines' /\ \A p : Kept(p) /\ p # wr_ecc_buf[avail_wr].pdu => Kept(p)'
         /\ wr_ecc_buf'[avail_wr].pdu = Me.pdu /\ \A i \in WrIds \ {avail_wr} : SameLine(i)
<1> USE DEF Control, Lines
<1> DEFINE w == avail_wr
           list == Append(wr_ecc_buf[w].tasks, ecc_task)
           l == GivenTo(wr_ecc_buf[w])
<1>1. /\ in_call /\ ecc_model_state = "ADD_WR_ECC_TRANS"
      /\ ecc_model_state' = "WAIT_ECC_DATA_FINISH" /\ ecc_pre_state' = "ADD_WR_ECC_TRANS"
      /\ EccWrite(rd_ecc_buf, w) /\ wr_ecc_buf' = [wr_ecc_buf EXCEPT ![w] = l]
      /\ UNCHANGED <<config, req, iecc_owner_task, avail_wr, wr_pri, recycle_wr, pdu_push_pending>>
  <2>1. wr_ecc_buf' = [wr_ecc_buf EXCEPT ![w] = l]
    BY DEF AddEccWrite
  <2> QED
    BY <2>1 DEF AddEccWrite, In, Goto, addVars, availVars
<1>2. w \in WrIds /\ ~IsRead /\ wr_ecc_buf[w].vld /\ ~wr_ecc_buf[w].dirty
  BY <1>1 DEF Chosen
<1>3. Me.pdu \in Nat
  <2>1. task \in Tasks
    BY <1>1, TasksType DEF Working, Asked, task
  <2> QED
    BY <2>1, TasksType, Constants DEF Me, Request
<1>4. PICK T : wr_ecc_buf \in [WrIds -> Line(T)]
  BY DEF LineT
<1>5. /\ \A U : wr_ecc_buf[w] \in Line(U) => l \in Line(U \cup {list})
      /\ l.pdu = Me.pdu /\ l.vld /\ ~l.dirty
  BY <1>2, <1>3, <1>4 DEF Line, GivenTo
<1>6. /\ LineT' /\ wr_ecc_buf'[w] = l /\ \A i \in WrIds \ {w} : SameLine(i)
      /\ \A p : Kept(p) /\ p # wr_ecc_buf[w].pdu => Kept(p)'
      /\ \A p \in owed' : Kept(p)'
  <2> HIDE DEF l, list
  <2> QED
    BY <1>1, <1>2, <1>5, LinesEccWrite
<1>7. Chosen'
  <2> HIDE DEF l, list
  <2> QED
    BY <1>1, <1>2, <1>5, <1>6 DEF Chosen, Waits, Me, IsRead, task
<1>8. Pushed'
  <2> HIDE DEF l, list
  <2> QED
    BY <1>1, <1>2, <1>5, <1>6 DEF Pushed, SameLine
<1> QED
  BY <1>5, <1>6, <1>7, <1>8

(* A read meets a dirty line and has it written back.                      *)
LEMMA LinesCleaned ==
  ASSUME Lines, NEW buf, DirtyWrite(buf), avail_wr \in WrIds, ecc_model_state # "ADD_WR_ECC_TRANS",
         UNCHANGED <<config, wr_pri, recycle_wr, pdu_push_pending>>
  PROVE  /\ LineT' /\ Pushed' /\ \A p \in owed' : Kept(p)'
         /\ \A p : Kept(p) /\ p # wr_ecc_buf[avail_wr].pdu => Kept(p)'
         /\ ~wr_ecc_buf'[avail_wr].vld /\ \A i \in WrIds \ {avail_wr} : SameLine(i)
<1> USE DEF Lines
<1> DEFINE w == avail_wr
           list == Append(wr_ecc_buf[w].tasks, ecc_task)
           l == CleanLine(wr_ecc_buf[w])
<1>1. EccWrite(buf, w) /\ wr_ecc_buf' = [wr_ecc_buf EXCEPT ![w] = l]
  <2>1. EccWrite(buf, w) /\ wr_ecc_buf' = Cleaned
    BY DEF DirtyWrite
  <2>2. Cleaned = [wr_ecc_buf EXCEPT ![w] = l]
    BY DEF Cleaned
  <2> QED
    BY <2>1, <2>2
<1>2. PICK T : wr_ecc_buf \in [WrIds -> Line(T)]
  BY DEF LineT
<1>3. /\ \A U : wr_ecc_buf[w] \in Line(U) => l \in Line(U \cup {list})
      /\ ~l.dirty /\ ~l.vld
  BY <1>2 DEF Line, CleanLine
<1>4. /\ LineT' /\ wr_ecc_buf'[w] = l /\ \A i \in WrIds \ {w} : SameLine(i)
      /\ \A p : Kept(p) /\ p # wr_ecc_buf[w].pdu => Kept(p)'
      /\ \A p \in owed' : Kept(p)'
  <2> HIDE DEF l, list
  <2> QED
    BY <1>1, <1>3, LinesEccWrite
<1>5. Pushed'
  <2> HIDE DEF l, list
  <2> QED
    BY <1>3, <1>4 DEF Pushed, SameLine
<1> QED
  BY <1>3, <1>4, <1>5
-----------------------------------------------------------------------------
(* A hit makes the line it finds the last used.                            *)
LEMMA LinesHit ==
  ASSUME Control, Lines, TryHit
  PROVE  /\ Lines' /\ \A i \in WrIds : SameLine(i)
         /\ \A p : Kept(p) => Kept(p)'
<1> USE DEF Control, Lines
<1> DEFINE w == LastHit(wr_ecc_buf)
           f == [i \in WrIds |-> IF i = w THEN [wr_ecc_buf[i] EXCEPT !.merge_cnt = 0]
                                          ELSE wr_ecc_buf[i]]
<1>1. /\ ecc_model_state = "TRY_HIT_ECC_BUF" /\ in_call
      /\ avail_wr' = w /\ wr_pri' = UsedHit(wr_pri, w) /\ wr_ecc_buf' = f
      /\ UNCHANGED <<config, req, iecc_owner_task, recycle_wr, pdu_push_pending, owed, ecc_pre_state>>
  BY DEF TryHit, callVars, In
<1>2. w # None => w \in WrIds /\ wr_ecc_buf[w].vld /\ wr_ecc_buf[w].pdu = Me.pdu
  <2>1. DOMAIN wr_ecc_buf = 1..PDU_WR_DEPTH
    BY DEF LineT, WrIds
  <2> QED
    BY <2>1, HitIn, Constants DEF Hits, WrIds
<1>3. /\ ecc_model_state' # "ADD_WR_ECC_TRANS" /\ ecc_model_state' # "WAIT_ECC_DATA_FINISH"
      /\ ecc_model_state' \in {"ECC_RD_HIT_DIRTY", "ECC_RD_MISS_DIRTY"} => IsRead /\ w # None
      /\ ecc_model_state' # "ADD_RD_ECC_TRANS"
      /\ ecc_model_state' = "ECC_ADD_TRANS" /\ ~IsRead => w # None
  BY DEF TryHit, NextState, Goto
<1>4. PICK T : wr_ecc_buf \in [WrIds -> Line(T)]
  BY DEF LineT
<1>5. /\ f \in [WrIds -> Line(T)]
      /\ \A i \in WrIds : f[i].vld = wr_ecc_buf[i].vld /\ f[i].pdu = wr_ecc_buf[i].pdu
                          /\ f[i].dirty = wr_ecc_buf[i].dirty
  <2> HIDE DEF w
  <2> QED
    BY <1>4 DEF Line
<1> HIDE DEF f, w
<1>6. LineT' /\ \A i \in WrIds : SameLine(i)
  <2>1. wr_pri' \in [WrIds -> 1..PDU_WR_DEPTH]
    BY <1>1, <1>2, UsedType DEF UsedHit, LineT
  <2> QED
    BY <1>1, <1>5, <2>1 DEF LineT, SameLine
<1>7. Pushed' /\ \A p : Kept(p) => Kept(p)'
  BY <1>1, <1>6, LinesSame
<1>8. Chosen'
  BY <1>1, <1>2, <1>3, <1>6 DEF Chosen, Waits, Me, IsRead, task, SameLine
<1> QED
  BY <1>1, <1>6, <1>7, <1>8

(* Every step keeps the ECC that is owed.                                  *)
LEMMA LinesNext == LinesInv /\ [Next]_vars => LinesInv'
<1> SUFFICES ASSUME LinesInv, [Next]_vars PROVE LinesInv'
  OBVIOUS
<1> USE DEF Control, Lines, In, Goto, Return
<1>1. Control /\ Control'
  BY ControlNext DEF LinesInv
<1>2. UNCHANGED <<config, req>>
  BY DEF Next, Case, Offer, Finish, PushPending, TryHit, NoLine, GetRead, GetWrite, OutOfRange, Refuse,
         AddRead, AddWrite, AddEccRead, AddEccWrite, WaitData, HitDirty, MissDirty, Ended, vars,
         hostVars, callVars, getVars, addVars
<1> SUFFICES ASSUME Plain, Lines PROVE Lines'
  BY <1>1, <1>2 DEF LinesInv, Plain, MaskedPush, Tasks
<1>3. ASSUME LineT', \A i \in WrIds : SameLine(i), UNCHANGED <<owed, pdu_push_pending>>, Chosen',
             ecc_model_state = "ADD_WR_ECC_TRANS" => UNCHANGED <<ecc_model_state, avail_wr>>
      PROVE  Lines'
  BY <1>2, <1>3, LinesSame
<1>4. ASSUME UNCHANGED <<wrVars, owed, pdu_push_pending, avail_wr, ecc_model_state, ecc_pre_state,
                         iecc_owner_task>>
      PROVE  Lines'
  <2>1. LineT' /\ \A i \in WrIds : SameLine(i)
    BY <1>4, LinesUnchanged
  <2>2. Chosen'
    BY <1>2, <1>4 DEF Chosen, Waits, wrVars, Me, IsRead, task
  <2> QED
    BY <1>3, <1>4, <2>1, <2>2
<1>5. ASSUME NEW t \in Tasks, Offer(t) PROVE Lines'
  <2>1. LineT' /\ \A i \in WrIds : SameLine(i)
    BY <1>5, LinesSwept DEF Offer
  <2>2. /\ UNCHANGED <<ecc_model_state, ecc_pre_state, avail_wr, owed, pdu_push_pending>>
        /\ iecc_owner_task' = t /\ (iecc_owner_task = None \/ iecc_owner_task = t)
    BY <1>5 DEF Offer, stateVars, availVars, histVars
  <2>3. Chosen'
    <3>1. CASE iecc_owner_task = None
      BY <1>1, <2>2, <3>1 DEF Working, Chosen, Waits
    <3>2. CASE iecc_owner_task = t
      BY <1>2, <2>1, <2>2, <3>2 DEF Chosen, Waits, Me, IsRead, task, SameLine
    <3> QED
      BY <2>2, <3>1, <3>2
  <2> QED
    BY <1>3, <2>1, <2>2, <2>3
<1>6. ASSUME NEW t \in queue, Finish(t) PROVE Lines'
  BY <1>4, <1>6 DEF Finish, stateVars, availVars, hostVars, histVars
<1>7. CASE NoLine
  <2>1. LineT' /\ \A i \in WrIds : SameLine(i)
    BY <1>7, LinesSwept DEF NoLine
  <2>2. /\ UNCHANGED <<ecc_model_state, ecc_pre_state, owed, pdu_push_pending>>
        /\ ecc_model_state = "GET_ECC_BUF"
    BY <1>7 DEF NoLine, getVars, histVars
  <2>3. Chosen'
    BY <2>2 DEF Chosen, Waits
  <2> QED
    BY <1>3, <2>1, <2>2, <2>3
<1>8. CASE GetRead
  <2>1. LineT' /\ \A i \in WrIds : SameLine(i)
    BY <1>8, LinesSwept DEF GetRead
  <2>2. /\ UNCHANGED <<ecc_pre_state, owed, pdu_push_pending>>
        /\ ecc_model_state = "GET_ECC_BUF" /\ ecc_model_state' = "ADD_RD_ECC_TRANS"
    BY <1>8 DEF GetRead, getVars, histVars
  <2>3. Chosen'
    BY <1>2, <1>8, <2>2 DEF Chosen, Waits, GetRead, getVars, IsRead, Me, task
  <2> QED
    BY <1>3, <2>1, <2>2, <2>3
<1>9. CASE OutOfRange
  <2>1. LineT' /\ \A i \in WrIds : SameLine(i)
    BY <1>9, LinesUnchanged DEF OutOfRange
  <2>2. /\ UNCHANGED <<ecc_pre_state, owed, pdu_push_pending>>
        /\ ecc_model_state = "GET_ECC_BUF" /\ ecc_model_state' = "out_of_range"
    BY <1>9 DEF OutOfRange, histVars
  <2>3. Chosen'
    BY <2>2 DEF Chosen, Waits
  <2> QED
    BY <1>3, <2>1, <2>2, <2>3
<1>10. CASE Refuse
  BY <1>4, <1>10 DEF Refuse, hostVars, stateVars, availVars, histVars
<1>11. CASE AddRead
  <2>1. LineT' /\ \A i \in WrIds : SameLine(i)
    BY <1>11, LinesUnchanged DEF AddRead, addVars, wrVars
  <2>2. /\ UNCHANGED <<ecc_pre_state, owed, pdu_push_pending>>
        /\ ecc_model_state = "ECC_ADD_TRANS" /\ ecc_model_state' = "TRY_HIT_ECC_BUF"
    BY <1>11 DEF AddRead, DataRead
  <2>3. Chosen'
    BY <2>2 DEF Chosen, Waits
  <2> QED
    BY <1>3, <2>1, <2>2, <2>3
<1>12. CASE AddEccRead
  <2>1. LineT' /\ \A i \in WrIds : SameLine(i)
    BY <1>12, LinesUnchanged DEF AddEccRead, addVars, wrVars
  <2>2. ecc_model_state = "ADD_RD_ECC_TRANS" /\ ecc_model_state' = "ECC_ADD_TRANS"
    BY <1>12 DEF AddEccRead
  <2>3. UNCHANGED <<owed, pdu_push_pending, iecc_owner_task>>
    BY <1>12 DEF AddEccRead, EccRead
  <2>4. Chosen'
    BY <1>2, <2>2, <2>3 DEF Chosen, Waits, IsRead, Me, task
  <2> QED
    BY <1>3, <2>1, <2>2, <2>3, <2>4
<1>13. CASE WaitData
  <2>1. LineT' /\ \A i \in WrIds : SameLine(i)
    BY <1>13, LinesUnchanged DEF WaitData
  <2>2. /\ UNCHANGED <<ecc_pre_state, owed, pdu_push_pending, availVars>>
        /\ ecc_model_state = "WAIT_ECC_DATA_FINISH"
        /\ \/ UNCHANGED <<iecc_owner_task, ecc_model_state>>
           \/ ecc_pre_state = "ADD_WR_ECC_TRANS" /\ ecc_model_state' = "ECC_ADD_TRANS"
              /\ UNCHANGED iecc_owner_task
           \/ ecc_model_state' = "TRY_HIT_ECC_BUF"
    BY <1>13 DEF WaitData, WaitOver, Refused, histVars
  <2>3. Chosen'
    BY <1>2, <2>1, <2>2 DEF Chosen, Waits, IsRead, Me, task, SameLine, availVars
  <2> QED
    BY <1>3, <2>1, <2>2, <2>3
(* What the two states for a dirty line do, but for the write-back.        *)
<1>14. ASSUME ecc_model_state \in {"ECC_RD_HIT_DIRTY", "ECC_RD_MISS_DIRTY"}, UNCHANGED wrVars,
              UNCHANGED <<owed, pdu_push_pending, avail_wr, iecc_owner_task>>,
              \/ UNCHANGED <<ecc_model_state, ecc_pre_state>>
              \/ ecc_model_state' = "GET_ECC_BUF"
              \/ ecc_pre_state' = ecc_model_state /\ ecc_model_state' = "WAIT_ECC_DATA_FINISH"
       PROVE  Lines'
  <2>1. LineT' /\ \A i \in WrIds : SameLine(i)
    BY <1>14, LinesUnchanged
  <2>2. Chosen'
    BY <1>2, <1>14, <2>1 DEF Chosen, Waits, IsRead, Me, task, SameLine
  <2> QED
    BY <1>3, <1>14, <2>1, <2>2
<1>15. ASSUME ecc_model_state \in {"ECC_RD_HIT_DIRTY", "ECC_RD_MISS_DIRTY"}, NEW buf, DirtyWrite(buf),
              UNCHANGED <<wr_pri, recycle_wr, pdu_push_pending, avail_wr, iecc_owner_task>>
       PROVE  Lines'
  <2>1. avail_wr \in WrIds /\ UNCHANGED <<ecc_model_state, ecc_pre_state>>
    BY <1>15 DEF Chosen, DirtyWrite
  <2>2. LineT' /\ Pushed' /\ \A p \in owed' : Kept(p)'
    BY <1>2, <1>15, <2>1, LinesCleaned
  <2>3. Chosen'
    BY <1>2, <1>15, <2>1 DEF Chosen, Waits, IsRead, Me, task
  <2> QED
    BY <2>2, <2>3
<1>16. CASE HitDirty
  <2>1. /\ ecc_model_state = "ECC_RD_HIT_DIRTY"
        /\ UNCHANGED <<wr_pri, recycle_wr, pdu_push_pending, avail_wr, iecc_owner_task>>
    BY <1>16 DEF HitDirty, availVars, hostVars
  <2>2. CASE DirtyWrite(rd_ecc_buf)
    BY <1>15, <2>1, <2>2
  <2>3. CASE ~DirtyWrite(rd_ecc_buf)
    <3>1. /\ UNCHANGED <<wr_ecc_buf, owed>>
          /\ \/ UNCHANGED <<ecc_model_state, ecc_pre_state>>
             \/ ecc_pre_state' = ecc_model_state /\ ecc_model_state' = "WAIT_ECC_DATA_FINISH"
      BY <1>16, <2>3 DEF HitDirty, DirtyRead, EccRead, DataRead
    <3> QED
      BY <1>14, <2>1, <3>1 DEF wrVars
  <2> QED
    BY <2>2, <2>3
<1>17. CASE MissDirty
  <2> DEFINE buf == Swept(rd_ecc_buf)
  <2>1. /\ ecc_model_state = "ECC_RD_MISS_DIRTY"
        /\ UNCHANGED <<wr_pri, recycle_wr, pdu_push_pending, avail_wr, iecc_owner_task>>
    BY <1>17 DEF MissDirty, hostVars
  <2>2. CASE DirtyWrite(buf)
    BY <1>15, <2>1, <2>2
  <2>3. CASE ~DirtyWrite(buf)
    <3>1. /\ UNCHANGED <<wr_ecc_buf, owed>>
          /\ \/ UNCHANGED <<ecc_model_state, ecc_pre_state>>
             \/ ecc_model_state' = "GET_ECC_BUF"
             \/ ecc_pre_state' = ecc_model_state /\ ecc_model_state' = "WAIT_ECC_DATA_FINISH"
      BY <1>17, <2>3 DEF MissDirty, DirtyRead, EccRead, DataRead
    <3> QED
      BY <1>14, <2>1, <3>1 DEF wrVars
  <2> QED
    BY <2>2, <2>3
<1>18. CASE UNCHANGED vars
  BY <1>4, <1>18 DEF vars, hostVars, stateVars, availVars, histVars
<1> QED
  BY <1>1, <1>5, <1>6, <1>7, <1>8, <1>9, <1>10, <1>11, <1>12, <1>13, <1>16, <1>17, <1>18,
     LinesHit, LinesTaken, LinesWrite, LinesFreed, LinesPush DEF Next, Case, Ended

(* EccKept, for every configuration and any requests and buffers: unless   *)
(* lines are merged or masked writes meet PDU_PUSH_MODE, no ECC of written *)
(* data is lost before it has gone to the DRAM (proc_iecc).                *)
THEOREM EccKeptHolds == Spec => []EccKept
<1>1. Init => LinesInv
  BY LinesInit
<1>2. LinesInv => EccKept
  BY DEF LinesInv, Lines, EccKept, Plain
<1> QED
  BY <1>1, <1>2, LinesNext, PTL DEF Spec
-----------------------------------------------------------------------------
RdLine(T) == [vld : BOOLEAN, pdu : Nat, tasks : T]
ReadT == /\ \E T : rd_ecc_buf \in [RdIds -> RdLine(T)]
         /\ rd_pri \in [RdIds -> 1..PDU_RD_DEPTH] /\ recycle_rd \subseteq RdIds
         /\ holds \in [RdIds -> Pdus \cup {None}]

(* The lines of the write buffer are of different PDUs, but for the one    *)
(* that has been taken and keeps its old PDU; and no other is the PDU's.   *)
Single ==
  /\ \A i, j \in WrIds :
       i # j /\ wr_ecc_buf[i].vld /\ wr_ecc_buf[j].vld /\ wr_ecc_buf[i].pdu = wr_ecc_buf[j].pdu =>
         /\ ecc_model_state \in {"ADD_WR_ECC_TRANS", "ECC_ADD_TRANS"} /\ ~IsRead
         /\ avail_wr \in {i, j}
  /\ ecc_model_state = "GET_ECC_BUF" /\ ~IsRead =>
       \A j \in WrIds : wr_ecc_buf[j].vld => wr_ecc_buf[j].pdu # Me.pdu
  /\ (ecc_model_state \in {"ADD_WR_ECC_TRANS", "ECC_ADD_TRANS"} \/ Waits("ADD_WR_ECC_TRANS")) /\ ~IsRead =>
       \A j \in WrIds : wr_ecc_buf[j].vld /\ j # avail_wr => wr_ecc_buf[j].pdu # Me.pdu

(* A valid line of the read buffer has the latest ECC of its PDU, or that  *)
(* is still in the write buffer; the one just taken has none.              *)
Good(i) == holds[i] = rd_ecc_buf[i].pdu \/ Kept(rd_ecc_buf[i].pdu)
Latest ==
  \A i \in RdIds : rd_ecc_buf[i].vld =>
                     Good(i) \/ (ecc_model_state = "ADD_RD_ECC_TRANS" /\ i = avail_rd)

(* How far a read has come.                                                *)
Reading ==
  /\ ecc_model_state \in {"GET_ECC_BUF", "ADD_RD_ECC_TRANS"} /\ IsRead => Me.pdu \notin owed
  /\ ecc_model_state = "ADD_RD_ECC_TRANS" => avail_rd \in RdIds /\ rd_ecc_buf[avail_rd].pdu = Me.pdu
  /\ ecc_model_state = "ECC_ADD_TRANS" /\ IsRead => avail_rd \in RdIds /\ holds[avail_rd] = Me.pdu
  /\ Waits("ADD_WR_ECC_TRANS") => ~IsRead
  /\ ecc_model_state = "ECC_RD_HIT_DIRTY" =>
       /\ avail_rd \in RdIds /\ iecc_add_cnt \in 0..2
       /\ iecc_add_cnt = 0 => wr_ecc_buf[avail_wr].pdu = Me.pdu
       /\ iecc_add_cnt = 1 => Me.pdu \notin owed
       /\ iecc_add_cnt = 2 => holds[avail_rd] = Me.pdu
  /\ ecc_model_state # "ECC_RD_HIT_DIRTY" => iecc_add_cnt = 0
  /\ ecc_model_state # "ECC_RD_MISS_DIRTY"

Fresh == ReadT /\ Single /\ Latest /\ Reading /\ ~stale
FreshInv == LinesInv /\ (Plain /\ ~miss_dirty => Fresh)

(* At the start no line is valid.                                          *)
LEMMA FreshInit == Init => FreshInv
<1> SUFFICES ASSUME Init PROVE FreshInv
  OBVIOUS
<1>1. rd_ecc_buf \in [RdIds -> RdLine({<<>>})] /\ \A i \in RdIds : ~rd_ecc_buf[i].vld
  BY DEF Init, RdLine
<1>2. \A i \in WrIds : ~wr_ecc_buf[i].vld
  BY DEF Init
<1>3. /\ rd_pri \in [RdIds -> 1..PDU_RD_DEPTH] /\ recycle_rd \subseteq RdIds
      /\ holds \in [RdIds -> Pdus \cup {None}]
  BY Constants DEF Init
<1>4. ReadT
  BY <1>1, <1>3 DEF ReadT
<1> QED
  BY <1>1, <1>2, <1>4, LinesInit DEF Init, FreshInv, Fresh, Single, Latest, Reading, Waits

(* The line of the read buffer that is taken.                              *)
LEMMA ReadLineIn ==
  ASSUME ReadT
  PROVE  /\ Free(rd_ecc_buf, recycle_rd) \subseteq RdIds
         /\ Free(rd_ecc_buf, recycle_rd) # {} =>
              Oldest(Free(rd_ecc_buf, recycle_rd), rd_pri) \in RdIds
<1> DEFINE S == Free(rd_ecc_buf, recycle_rd)
<1>1. PICK T : rd_ecc_buf \in [RdIds -> RdLine(T)]
  BY DEF ReadT
<1>2. S \in SUBSET (1..PDU_RD_DEPTH)
  BY <1>1 DEF Free, ReadT, RdIds
<1>3. \A j \in S : rd_pri[j] \in 0..PDU_RD_DEPTH
  BY <1>2, Constants DEF ReadT, RdIds
<1>4. S # {} => Oldest(S, rd_pri) \in S
  <2> HIDE DEF S
  <2> QED
    BY <1>2, <1>3, OldestIn, Constants
<1> QED
  BY <1>2, <1>4 DEF RdIds

(* The priorities stay in their range.                                     *)
LEMMA UsedReadType ==
  ASSUME ReadT, NEW i \in RdIds
  PROVE  Used(rd_pri, i) \in [RdIds -> 1..PDU_RD_DEPTH]
<1>1. ASSUME NEW j \in RdIds
      PROVE  (IF j = i THEN 1 ELSE IF rd_pri[j] < rd_pri[i] THEN rd_pri[j] + 1 ELSE rd_pri[j])
                \in 1..PDU_RD_DEPTH
  BY Constants DEF ReadT
<1> QED
  BY <1>1 DEF Used, ReadT

(* The four ways the lines of the read buffer change.                      *)
SameRead(i) == rd_ecc_buf'[i].vld = rd_ecc_buf[i].vld /\ rd_ecc_buf'[i].pdu = rd_ecc_buf[i].pdu

(* Only tasks are forgotten.                                               *)
LEMMA ReadSwept ==
  ASSUME ReadT
  PROVE  /\ \E T : Swept(rd_ecc_buf) \in [RdIds -> RdLine(T)]
         /\ \A i \in RdIds : /\ Swept(rd_ecc_buf)[i].vld = rd_ecc_buf[i].vld
                             /\ Swept(rd_ecc_buf)[i].pdu = rd_ecc_buf[i].pdu
<1>1. PICK T : rd_ecc_buf \in [RdIds -> RdLine(T)]
  BY DEF ReadT
<1> DEFINE U == T \cup {Sweep(rd_ecc_buf[j].tasks) : j \in RdIds}
<1>2. \A i \in RdIds : [rd_ecc_buf[i] EXCEPT !.tasks = Sweep(@)] \in RdLine(U)
  BY <1>1 DEF RdLine
<1> HIDE DEF U
<1>3. Swept(rd_ecc_buf) \in [RdIds -> RdLine(U)]
  BY <1>1, <1>2 DEF Swept
<1>4. \A i \in RdIds : /\ Swept(rd_ecc_buf)[i].vld = rd_ecc_buf[i].vld
                       /\ Swept(rd_ecc_buf)[i].pdu = rd_ecc_buf[i].pdu
  BY <1>1 DEF Swept, RdLine
<1> QED
  BY <1>3, <1>4

(* One more task is listed.                                                *)
LEMMA ReadListed ==
  ASSUME NEW T, NEW buf \in [RdIds -> RdLine(T)], NEW k \in RdIds, NEW t
  PROVE  /\ \E U : ListRd(buf, k, t) \in [RdIds -> RdLine(U)]
         /\ \A i \in RdIds : /\ ListRd(buf, k, t)[i].vld = buf[i].vld
                             /\ ListRd(buf, k, t)[i].pdu = buf[i].pdu
<1> DEFINE list == Append(buf[k].tasks, t)
           U == T \cup {list}
<1>1. ListRd(buf, k, t) = [buf EXCEPT ![k].tasks = list]
  BY DEF ListRd
<1>2. \A i \in RdIds : buf[i] \in RdLine(U)
  BY DEF RdLine
<1>3. [buf[k] EXCEPT !.tasks = list] \in RdLine(U)
  <2> HIDE DEF list
  <2> QED
    BY <1>2 DEF RdLine, U
<1> HIDE DEF list, U
<1>4. ListRd(buf, k, t) \in [RdIds -> RdLine(U)]
  BY <1>1, <1>2, <1>3
<1>5. \A i \in RdIds : ListRd(buf, k, t)[i].vld = buf[i].vld /\ ListRd(buf, k, t)[i].pdu = buf[i].pdu
  BY <1>1 DEF RdLine
<1> QED
  BY <1>4, <1>5

(* The lines of a PDU become invalid, no other changes.                    *)
LEMMA ReadInvalid ==
  ASSUME NEW T, NEW buf \in [RdIds -> RdLine(T)], NEW p
  PROVE  /\ Invalid(buf, p) \in [RdIds -> RdLine(T)]
         /\ \A i \in RdIds : /\ Invalid(buf, p)[i].vld = (buf[i].vld /\ buf[i].pdu # p)
                             /\ Invalid(buf, p)[i].pdu = buf[i].pdu
<1>1. \A i \in RdIds : [buf[i] EXCEPT !.vld = FALSE] \in RdLine(T)
  BY DEF RdLine
<1>2. Invalid(buf, p) \in [RdIds -> RdLine(T)]
  BY <1>1 DEF Invalid
<1>3. ASSUME NEW i \in RdIds
      PROVE  /\ Invalid(buf, p)[i].vld = (buf[i].vld /\ buf[i].pdu # p)
             /\ Invalid(buf, p)[i].pdu = buf[i].pdu
  BY DEF Invalid, RdLine
<1> QED
  BY <1>2, <1>3
-----------------------------------------------------------------------------
(* A step that leaves the PDUs of both buffers as they are.                *)
LEMMA LatestSame ==
  ASSUME Latest, \A i \in RdIds : SameRead(i), UNCHANGED holds, \A p : Kept(p) => Kept(p)',
         ecc_model_state = "ADD_RD_ECC_TRANS" => UNCHANGED <<ecc_model_state, avail_rd>>
  PROVE  Latest'
<1> SUFFICES ASSUME NEW i \in RdIds, rd_ecc_buf'[i].vld
             PROVE  Good(i)' \/ (ecc_model_state' = "ADD_RD_ECC_TRANS" /\ i = avail_rd')
  BY DEF Latest
<1>1. Good(i) => Good(i)'
  BY DEF Good, SameRead
<1> QED
  BY <1>1 DEF Latest, SameRead

(* The ECC of a line goes out, and the lines of the read buffer with its   *)
(* PDU go with it.                                                         *)
LEMMA LatestWritten ==
  ASSUME ReadT, Latest, NEW buf, NEW T, buf \in [RdIds -> RdLine(T)],
         \A i \in RdIds : buf[i].vld = rd_ecc_buf[i].vld /\ buf[i].pdu = rd_ecc_buf[i].pdu,
         NEW w, EccWrite(buf, w), ecc_model_state # "ADD_RD_ECC_TRANS",
         \A p : Kept(p) /\ p # wr_ecc_buf[w].pdu => Kept(p)', UNCHANGED <<rd_pri, recycle_rd>>
  PROVE  ReadT' /\ Latest' /\ \A i \in RdIds : rd_ecc_buf'[i].pdu = rd_ecc_buf[i].pdu
<1>1. UNCHANGED holds /\ rd_ecc_buf' = Invalid(buf, wr_ecc_buf[w].pdu)
  BY DEF EccWrite
<1>2. /\ rd_ecc_buf' \in [RdIds -> RdLine(T)]
      /\ \A i \in RdIds : /\ rd_ecc_buf'[i].vld = (rd_ecc_buf[i].vld /\ rd_ecc_buf[i].pdu # wr_ecc_buf[w].pdu)
                          /\ rd_ecc_buf'[i].pdu = rd_ecc_buf[i].pdu
  BY <1>1, ReadInvalid
<1>3. Latest'
  <2> SUFFICES ASSUME NEW i \in RdIds, rd_ecc_buf'[i].vld PROVE Good(i)'
    BY DEF Latest
  <2>1. Good(i) /\ rd_ecc_buf[i].pdu # wr_ecc_buf[w].pdu
    BY <1>2 DEF Latest
  <2> QED
    BY <1>1, <1>2, <2>1 DEF Good
<1> QED
  BY <1>1, <1>2, <1>3 DEF ReadT

(* TRY_HIT_ECC_BUF: a clean hit means that nothing is owed.                *)
LEMMA FreshHit ==
  ASSUME Control, Lines, Fresh, TryHit, ~miss_dirty'
  PROVE  Fresh'
<1> USE DEF Control, Lines, Fresh
<1> DEFINE r == LastHit(rd_ecc_buf)
           w == LastHit(wr_ecc_buf)
<1>1. /\ ecc_model_state = "TRY_HIT_ECC_BUF" /\ avail_rd' = r /\ avail_wr' = w
      /\ rd_pri' = UsedHit(rd_pri, r)
      /\ ecc_model_state' = NextState(r, w # None /\ wr_ecc_buf[w].dirty, w)
      /\ ecc_model_state' # "ECC_RD_MISS_DIRTY"
      /\ UNCHANGED <<config, req, iecc_owner_task, rd_ecc_buf, recycle_rd, holds, owed, stale,
                     iecc_add_cnt>>
  BY DEF TryHit, callVars, In, Goto
<1>2. /\ r # None => r \in RdIds /\ rd_ecc_buf[r].vld /\ rd_ecc_buf[r].pdu = Me.pdu
      /\ w # None => w \in WrIds /\ wr_ecc_buf[w].vld /\ wr_ecc_buf[w].pdu = Me.pdu
      /\ w = None => \A j \in WrIds : wr_ecc_buf[j].vld => wr_ecc_buf[j].pdu # Me.pdu
  <2>1. DOMAIN rd_ecc_buf = 1..PDU_RD_DEPTH /\ DOMAIN wr_ecc_buf = 1..PDU_WR_DEPTH
    BY DEF LineT, ReadT, WrIds, RdIds
  <2>2. r # None => r \in Hits(rd_ecc_buf) /\ Hits(rd_ecc_buf) \subseteq RdIds
    BY <2>1, HitIn, Constants DEF RdIds
  <2>3. w # None => w \in Hits(wr_ecc_buf) /\ Hits(wr_ecc_buf) \subseteq WrIds
    BY <2>1, HitIn, Constants DEF WrIds
  <2>4. w = None => Hits(wr_ecc_buf) = {}
    <3>1. SUFFICES ASSUME Hits(wr_ecc_buf) # {} PROVE w # None
      OBVIOUS
    <3>2. Hits(wr_ecc_buf) \in SUBSET (1..PDU_WR_DEPTH)
      BY <2>1 DEF Hits
    <3>3. \A j \in Hits(wr_ecc_buf) : [i \in Hits(wr_ecc_buf) |-> 0][j] \in 0..0
      OBVIOUS
    <3>4. w \in Hits(wr_ecc_buf)
      BY <3>1, <3>2, <3>3, OldestIn, Constants DEF LastHit
    <3> QED
      BY <3>2, <3>4, Constants
  <2> QED
    BY <2>1, <2>2, <2>3, <2>4 DEF Hits, WrIds
<1> HIDE DEF r, w
<1>3. (w = None \/ ~wr_ecc_buf[w].dirty) => ~Kept(Me.pdu)
  <2> SUFFICES ASSUME w = None \/ ~wr_ecc_buf[w].dirty, NEW i \in WrIds,
                      wr_ecc_buf[i].pdu = Me.pdu, wr_ecc_buf[i].vld, wr_ecc_buf[i].dirty
               PROVE  FALSE
    BY <1>1 DEF Kept
  <2>1. w # None /\ i # w
    BY <1>2
  <2> QED
    BY <1>1, <1>2, <2>1 DEF Single
<1>4. \A i \in WrIds : SameLine(i)
  BY LinesHit
<1>5. Single'
  <2>1. ecc_model_state' = "GET_ECC_BUF" /\ ~IsRead => w = None
    BY <1>1 DEF NextState
  <2>2. ecc_model_state' # "WAIT_ECC_DATA_FINISH" /\ ecc_model_state' # "ADD_WR_ECC_TRANS"
    BY <1>1 DEF NextState
  <2>3. ecc_model_state' = "ECC_ADD_TRANS" /\ ~IsRead => w # None
    BY <1>1 DEF NextState
  <2>4. IsRead' = IsRead /\ Me' = Me
    BY <1>1 DEF IsRead, Me, task
  <2>5. \A i, j \in WrIds : wr_ecc_buf'[i].vld /\ wr_ecc_buf'[j].vld
                              /\ wr_ecc_buf'[i].pdu = wr_ecc_buf'[j].pdu => i = j
    BY <1>1, <1>4 DEF Single, SameLine
  <2>6. ecc_model_state' = "ECC_ADD_TRANS" /\ ~IsRead =>
           \A j \in WrIds : wr_ecc_buf'[j].vld /\ j # w => wr_ecc_buf'[j].pdu # Me.pdu
    BY <1>2, <1>4, <2>3, <2>5 DEF SameLine
  <2>7. ecc_model_state' = "GET_ECC_BUF" /\ ~IsRead =>
           \A j \in WrIds : wr_ecc_buf'[j].vld => wr_ecc_buf'[j].pdu # Me.pdu
    BY <1>2, <1>4, <2>1 DEF SameLine
  <2> QED
    BY <1>1, <2>2, <2>4, <2>5, <2>6, <2>7 DEF Single, Waits
<1>6. Latest'
  <2>1. \A i \in RdIds : SameRead(i)
    BY <1>1 DEF SameRead
  <2> QED
    BY <1>1, <2>1, LinesHit, LatestSame
<1>7. Reading'
  <2>1. Me' = Me /\ IsRead' = IsRead
    BY <1>1 DEF IsRead, Me, task
  <2>2. /\ ecc_model_state' \in {"GET_ECC_BUF", "ECC_ADD_TRANS"} /\ IsRead => ~Kept(Me.pdu)
        /\ ecc_model_state' = "ECC_ADD_TRANS" /\ IsRead => r # None
        /\ ecc_model_state' = "ECC_RD_HIT_DIRTY" => r # None /\ w # None
        /\ ecc_model_state' \notin {"ADD_RD_ECC_TRANS", "WAIT_ECC_DATA_FINISH"}
    BY <1>1, <1>3 DEF NextState
  <2>3. r # None => holds[r] = Me.pdu \/ Kept(Me.pdu)
    BY <1>1, <1>2 DEF Latest, Good
  <2>4. iecc_add_cnt = 0
    BY <1>1 DEF Reading
  <2>5. w # None => wr_ecc_buf'[w].pdu = Me.pdu
    BY <1>2, <1>4 DEF SameLine
  <2> QED
    BY <1>1, <1>2, <2>1, <2>2, <2>3, <2>4, <2>5 DEF Reading, Waits
<1>8. ReadT'
  BY <1>1, <1>2, UsedReadType DEF ReadT, UsedHit
<1> QED
  BY <1>1, <1>5, <1>6, <1>7, <1>8

(* GET_ECC_BUF and ADD_RD_ECC_TRANS: a line of the read buffer is taken,   *)
(* and its ECC is on the way.                                              *)
LEMMA FreshGetRead ==
  ASSUME Control, Lines, Fresh, GetRead
  PROVE  Fresh'
<1> USE DEF Control, Lines, Fresh
<1> DEFINE i == Oldest(Free(rd_ecc_buf, recycle_rd), rd_pri)
           buf == Swept(rd_ecc_buf)
<1>1. /\ in_call /\ ecc_model_state = "GET_ECC_BUF" /\ ecc_model_state' = "ADD_RD_ECC_TRANS" /\ IsRead
      /\ Free(rd_ecc_buf, recycle_rd) # {} /\ avail_rd' = i /\ rd_pri' = Used(rd_pri, i)
      /\ rd_ecc_buf' = [buf EXCEPT ![i].vld = TRUE, ![i].pdu = Me.pdu]
      /\ recycle_rd' = Free(rd_ecc_buf, recycle_rd) \ {i}
      /\ wr_ecc_buf' = Swept(wr_ecc_buf) /\ recycle_wr' = Free(wr_ecc_buf, recycle_wr)
      /\ wr_pri' = wr_pri
      /\ UNCHANGED <<config, req, iecc_owner_task, holds, owed, stale, iecc_add_cnt, ecc_pre_state>>
      /\ UNCHANGED <<avail_wr, pdu_push_pending>>
  BY DEF GetRead, getVars, histVars, In, Goto
<1>2. i \in RdIds /\ Free(rd_ecc_buf, recycle_rd) \subseteq RdIds
  BY <1>1, ReadLineIn
<1>3. Me.pdu \in Nat
  <2>1. task \in Tasks
    BY <1>1, TasksType DEF Working, Asked, task
  <2> QED
    BY <2>1, TasksType, Constants DEF Me, Request
<1>4. PICK T : buf \in [RdIds -> RdLine(T)]
  BY ReadSwept
<1>5. \A k \in RdIds : buf[k].vld = rd_ecc_buf[k].vld /\ buf[k].pdu = rd_ecc_buf[k].pdu
  BY ReadSwept
<1> HIDE DEF i, buf
<1>6. /\ rd_ecc_buf' \in [RdIds -> RdLine(T)] /\ rd_ecc_buf'[i].pdu = Me.pdu
      /\ \A k \in RdIds \ {i} : SameRead(k)
  BY <1>1, <1>2, <1>3, <1>4, <1>5 DEF SameRead, RdLine
<1>7. ReadT'
  BY <1>1, <1>2, <1>6, UsedReadType DEF ReadT, i
<1>8. LineT' /\ \A k \in WrIds : SameLine(k)
  BY <1>1, LinesSwept
<1>9. Single'
  BY <1>1, <1>8 DEF Single, Waits, SameLine, IsRead, Me, task
<1>10. \A p : Kept(p) => Kept(p)'
  BY <1>1, <1>8, LinesSame
<1>11. Latest'
  <2> SUFFICES ASSUME NEW k \in RdIds \ {i}, rd_ecc_buf'[k].vld PROVE Good(k)'
    BY <1>1 DEF Latest
  <2>1. Good(k)
    BY <1>1, <1>6 DEF Latest, SameRead
  <2> QED
    BY <1>1, <1>6, <1>10, <2>1 DEF Good, SameRead
<1>12. Reading'
  BY <1>1, <1>2, <1>6 DEF Reading, Waits, IsRead, Me, task
<1> QED
  BY <1>1, <1>7, <1>9, <1>11, <1>12

(* The ECC read is sent.                                                   *)
LEMMA FreshEccRead ==
  ASSUME Control, Lines, Fresh, AddEccRead
  PROVE  Fresh'
<1> USE DEF Control, Lines, Fresh
<1>1. /\ in_call /\ ecc_model_state = "ADD_RD_ECC_TRANS" /\ ecc_model_state' = "ECC_ADD_TRANS"
      /\ rd_ecc_buf' = ListRd(rd_ecc_buf, avail_rd, ecc_task)
      /\ holds' = [holds EXCEPT ![avail_rd] = IF Me.pdu \in owed THEN None ELSE Me.pdu]
      /\ UNCHANGED <<config, req, iecc_owner_task, wr_ecc_buf, owed, stale, iecc_add_cnt>>
      /\ UNCHANGED <<avail_wr, avail_rd, pdu_push_pending, ecc_pre_state, rd_pri, recycle_rd>>
  BY DEF AddEccRead, EccRead, addVars, availVars, In, Goto
<1>2. IsRead /\ avail_rd \in RdIds /\ rd_ecc_buf[avail_rd].pdu = Me.pdu /\ Me.pdu \notin owed
  BY <1>1 DEF Chosen, Reading
<1>3. Me.pdu \in Pdus
  <2>1. task \in Tasks
    BY <1>1, TasksType DEF Working, Asked, task
  <2> QED
    BY <2>1, TasksType DEF Me, Request
<1>4. PICK T : rd_ecc_buf \in [RdIds -> RdLine(T)]
  BY DEF ReadT
<1>5. /\ \E U : rd_ecc_buf' \in [RdIds -> RdLine(U)]
      /\ \A i \in RdIds : SameRead(i)
  BY <1>1, <1>2, <1>4, ReadListed DEF SameRead
<1>6. ReadT' /\ holds'[avail_rd] = Me.pdu /\ \A i \in RdIds \ {avail_rd} : holds'[i] = holds[i]
  BY <1>1, <1>2, <1>3, <1>5 DEF ReadT
<1>7. Me' = Me /\ IsRead' = IsRead
  BY <1>1 DEF Me, IsRead, task
<1>8. \A p : Kept(p) => Kept(p)'
  BY <1>1 DEF Kept
<1>9. Latest'
  <2> SUFFICES ASSUME NEW i \in RdIds, rd_ecc_buf'[i].vld PROVE Good(i)'
    BY DEF Latest
  <2>1. CASE i = avail_rd
    BY <1>2, <1>5, <1>6, <2>1 DEF Good, SameRead
  <2>2. CASE i # avail_rd
    BY <1>5, <1>6, <1>8, <2>2 DEF Latest, Good, SameRead
  <2> QED
    BY <2>1, <2>2
<1>10. Single'
  BY <1>1, <1>2, <1>7 DEF Single, Waits
<1>11. Reading'
  BY <1>1, <1>2, <1>6, <1>7 DEF Reading, Waits
<1> QED
  BY <1>1, <1>6, <1>9, <1>10, <1>11

(* ECC_ADD_TRANS.                                                          *)
LEMMA FreshAddRead ==
  ASSUME Control, Lines, Fresh, AddRead
  PROVE  Fresh'
<1> USE DEF Control, Lines, Fresh
<1>1. /\ in_call /\ ecc_model_state = "ECC_ADD_TRANS" /\ ecc_model_state' = "TRY_HIT_ECC_BUF" /\ IsRead
      /\ rd_ecc_buf' = ListRd(rd_ecc_buf, avail_rd, task)
      /\ stale' = (stale \/ holds[avail_rd] # Me.pdu)
      /\ UNCHANGED <<config, req, wr_ecc_buf, owed, holds, iecc_add_cnt>>
      /\ UNCHANGED <<avail_wr, avail_rd, pdu_push_pending, ecc_pre_state, rd_pri, recycle_rd>>
  BY DEF AddRead, DataRead, addVars, availVars, In, Goto
<1>2. avail_rd \in RdIds /\ holds[avail_rd] = Me.pdu
  BY <1>1 DEF Reading
<1>3. PICK T : rd_ecc_buf \in [RdIds -> RdLine(T)]
  BY DEF ReadT
<1>4. /\ \E U : rd_ecc_buf' \in [RdIds -> RdLine(U)]
      /\ \A i \in RdIds : SameRead(i)
  BY <1>1, <1>2, <1>3, ReadListed DEF SameRead
<1>5. ReadT'
  BY <1>1, <1>4 DEF ReadT
<1>6. \A p : Kept(p) => Kept(p)'
  BY <1>1 DEF Kept
<1>7. Latest'
  BY <1>1, <1>4, <1>6, LatestSame
<1>8. Single'
  BY <1>1 DEF Single, Waits
<1>9. Reading'
  BY <1>1 DEF Reading, Waits
<1> QED
  BY <1>1, <1>2, <1>5, <1>7, <1>8, <1>9

(* A write is accepted: nobody else holds its PDU.                         *)
LEMMA FreshWrite ==
  ASSUME Control, Plain, Lines, Fresh, AddWrite
  PROVE  Fresh'
<1> USE DEF Control, Lines, Fresh
<1>1. /\ in_call /\ ecc_model_state = "ECC_ADD_TRANS" /\ ecc_model_state' = "TRY_HIT_ECC_BUF" /\ ~IsRead
      /\ holds' = [j \in RdIds |-> IF holds[j] = Me.pdu THEN None ELSE holds[j]]
      /\ UNCHANGED <<config, req, rdVars, stale, iecc_add_cnt>>
  BY DEF AddWrite, DataWrite, In, Goto
<1>2. /\ wr_ecc_buf'[avail_wr].pdu = Me.pdu /\ \A i \in WrIds \ {avail_wr} : SameLine(i)
      /\ \A p : Kept(p) \/ p = Me.pdu => Kept(p)'
  BY LinesWrite
<1>3. ReadT'
  BY <1>1 DEF ReadT, rdVars
<1>4. Latest'
  <2> SUFFICES ASSUME NEW i \in RdIds, rd_ecc_buf[i].vld PROVE Good(i)'
    BY <1>1 DEF Latest, rdVars
  <2>1. Good(i)
    BY <1>1 DEF Latest
  <2>2. CASE rd_ecc_buf[i].pdu = Me.pdu
    BY <1>1, <1>2, <2>2 DEF Good, rdVars
  <2>3. CASE rd_ecc_buf[i].pdu # Me.pdu
    BY <1>1, <1>2, <2>1, <2>3 DEF Good, rdVars
  <2> QED
    BY <2>2, <2>3
<1>5. Single'
  <2>1. \A j \in WrIds : wr_ecc_buf[j].vld /\ j # avail_wr => wr_ecc_buf[j].pdu # Me.pdu
    BY <1>1 DEF Single
  <2>2. \A i, j \in WrIds : wr_ecc_buf'[i].vld /\ wr_ecc_buf'[j].vld
                              /\ wr_ecc_buf'[i].pdu = wr_ecc_buf'[j].pdu => i = j
    BY <1>1, <1>2, <2>1 DEF Single, SameLine
  <2> QED
    BY <1>1, <2>2 DEF Single, Waits
<1>6. Reading'
  BY <1>1 DEF Reading, Waits
<1> QED
  BY <1>1, <1>3, <1>4, <1>5, <1>6

(* GET_ECC_BUF and ADD_WR_ECC_TRANS: a line of the write buffer is taken,  *)
(* and its old ECC goes out.                                               *)
LEMMA FreshTaken ==
  ASSUME Control, Plain, Lines, Fresh, GetWrite
  PROVE  Fresh'
<1> USE DEF Control, Lines, Fresh
<1>1. /\ in_call /\ ecc_model_state = "GET_ECC_BUF" /\ ~IsRead
      /\ ecc_model_state' \in {"ADD_WR_ECC_TRANS", "ECC_ADD_TRANS"}
      /\ rd_ecc_buf' = Swept(rd_ecc_buf) /\ recycle_rd' = Free(rd_ecc_buf, recycle_rd)
      /\ UNCHANGED <<config, req, iecc_owner_task, rd_pri, holds, owed, stale, iecc_add_cnt>>
  BY DEF GetWrite, getVars, histVars, In, Goto
<1>2. /\ wr_ecc_buf'[avail_wr'].pdu = wr_ecc_buf[avail_wr'].pdu
      /\ \A i \in WrIds \ {avail_wr'} : SameLine(i)
      /\ \A p : Kept(p) => Kept(p)'
  BY LinesTaken
<1>3. ReadT' /\ \A i \in RdIds : SameRead(i)
  BY <1>1, ReadSwept, ReadLineIn DEF ReadT, SameRead
<1>4. Latest'
  BY <1>1, <1>2, <1>3, LatestSame
<1>5. Me' = Me /\ IsRead' = IsRead
  BY <1>1 DEF Me, IsRead, task
<1>6. Single'
  <2>1. \A i, j \in WrIds : wr_ecc_buf[i].vld /\ wr_ecc_buf[j].vld
                              /\ wr_ecc_buf[i].pdu = wr_ecc_buf[j].pdu => i = j
    BY <1>1 DEF Single
  <2>2. \A j \in WrIds : wr_ecc_buf[j].vld => wr_ecc_buf[j].pdu # Me.pdu
    BY <1>1 DEF Single
  <2> QED
    BY <1>1, <1>2, <1>5, <2>1, <2>2 DEF Single, Waits, SameLine
<1>7. Reading'
  BY <1>1, <1>5 DEF Reading, Waits
<1> QED
  BY <1>1, <1>3, <1>4, <1>6, <1>7

(* The old ECC of the line goes out, the line is the new PDU's.            *)
LEMMA FreshFreed ==
  ASSUME Control, Lines, Fresh, AddEccWrite
  PROVE  Fresh'
<1> USE DEF Control, Lines, Fresh
<1>1. /\ in_call /\ ecc_model_state = "ADD_WR_ECC_TRANS"
      /\ ecc_model_state' = "WAIT_ECC_DATA_FINISH" /\ ecc_pre_state' = "ADD_WR_ECC_TRANS"
      /\ EccWrite(rd_ecc_buf, avail_wr)
      /\ UNCHANGED <<config, req, iecc_owner_task, rd_pri, recycle_rd, avail_wr, stale, iecc_add_cnt>>
  BY DEF AddEccWrite, EccWrite, addVars, availVars, In, Goto
<1>2. ~IsRead
  BY <1>1 DEF Chosen
<1>3. /\ wr_ecc_buf'[avail_wr].pdu = Me.pdu /\ \A i \in WrIds \ {avail_wr} : SameLine(i)
      /\ \A p : Kept(p) /\ p # wr_ecc_buf[avail_wr].pdu => Kept(p)'
  BY LinesFreed
<1>4. PICK T : rd_ecc_buf \in [RdIds -> RdLine(T)]
  BY DEF ReadT
<1>5. ReadT' /\ Latest'
  BY <1>1, <1>3, <1>4, LatestWritten
<1>6. Me' = Me /\ IsRead' = IsRead
  BY <1>1 DEF Me, IsRead, task
<1>7. Single'
  <2>1. \A j \in WrIds : wr_ecc_buf[j].vld /\ j # avail_wr => wr_ecc_buf[j].pdu # Me.pdu
    BY <1>1, <1>2 DEF Single
  <2>2. \A i, j \in WrIds : wr_ecc_buf'[i].vld /\ wr_ecc_buf'[j].vld
                              /\ wr_ecc_buf'[i].pdu = wr_ecc_buf'[j].pdu => i = j
    BY <1>1, <1>3, <2>1 DEF Single, SameLine
  <2> QED
    BY <1>1, <1>3, <1>6, <2>1, <2>2 DEF Single, Waits, SameLine
<1>8. Reading'
  BY <1>1, <1>2, <1>6 DEF Reading, Waits
<1> QED
  BY <1>1, <1>5, <1>7, <1>8

(* The pending push (PushPending).                                         *)
LEMMA FreshPush ==
  ASSUME Control, Lines, Fresh, PushPending
  PROVE  Fresh'
<1> USE DEF Control, Lines, Fresh
<1> DEFINE w == pdu_push_pending
<1>1. /\ ecc_model_state = "TRY_HIT_ECC_BUF" /\ ecc_model_state' = "TRY_HIT_ECC_BUF"
      /\ EccWrite(rd_ecc_buf, w)
      /\ UNCHANGED <<config, req, rd_pri, recycle_rd, stale, iecc_add_cnt>>
  BY DEF PushPending, EccWrite, Pushing, Working, hostVars, Goto
<1>2. /\ \A p : Kept(p) /\ p # wr_ecc_buf[w].pdu => Kept(p)'
      /\ \A i \in WrIds : wr_ecc_buf'[i].vld = wr_ecc_buf[i].vld /\ wr_ecc_buf'[i].pdu = wr_ecc_buf[i].pdu
  BY LinesPush
<1>3. PICK T : rd_ecc_buf \in [RdIds -> RdLine(T)]
  BY DEF ReadT
<1>4. ReadT' /\ Latest'
  <2> HIDE DEF w
  <2> QED
    BY <1>1, <1>2, <1>3, LatestWritten
<1>5. Single'
  BY <1>1, <1>2 DEF Single, Waits
<1>6. Reading'
  BY <1>1 DEF Reading, Waits
<1> QED
  BY <1>1, <1>4, <1>5, <1>6

(* ECC_RD_HIT_DIRTY: the write-back, the ECC read and the read.            *)
LEMMA FreshHitDirty ==
  ASSUME Control, Lines, Fresh, HitDirty
  PROVE  Fresh'
<1> USE DEF Control, Lines, Fresh
<1>1. /\ in_call /\ ecc_model_state = "ECC_RD_HIT_DIRTY"
      /\ UNCHANGED <<config, req, waiting, iecc_owner_task, avail_wr, avail_rd, recycle_rd,
                     wr_pri, recycle_wr, pdu_push_pending>>
  BY DEF HitDirty, hostVars, availVars, In
<1>2. /\ IsRead /\ avail_wr \in WrIds /\ avail_rd \in RdIds /\ iecc_add_cnt \in 0..2
      /\ iecc_add_cnt = 0 => wr_ecc_buf[avail_wr].pdu = Me.pdu
      /\ iecc_add_cnt = 1 => Me.pdu \notin owed
      /\ iecc_add_cnt = 2 => holds[avail_rd] = Me.pdu
  BY <1>1 DEF Chosen, Reading
<1>3. Me' = Me /\ IsRead' = IsRead
  BY <1>1 DEF Me, IsRead, task
<1>4. PICK T : rd_ecc_buf \in [RdIds -> RdLine(T)]
  BY DEF ReadT
<1>5. Me.pdu \in Pdus
  <2>1. task \in Tasks
    BY <1>1, TasksType DEF Working, Asked, task
  <2> QED
    BY <2>1, TasksType DEF Me, Request
<1>6. CASE DirtyWrite(rd_ecc_buf) /\ UNCHANGED rd_pri
  <2>1. /\ EccWrite(rd_ecc_buf, avail_wr) /\ iecc_add_cnt = 0 /\ iecc_add_cnt' = 1
        /\ UNCHANGED <<ecc_model_state, ecc_pre_state>>
    BY <1>6 DEF DirtyWrite
  <2>2. /\ \A p : Kept(p) /\ p # wr_ecc_buf[avail_wr].pdu => Kept(p)'
        /\ ~wr_ecc_buf'[avail_wr].vld /\ \A i \in WrIds \ {avail_wr} : SameLine(i)
    BY <1>1, <1>2, <1>6, LinesCleaned
  <2>3. ReadT' /\ Latest'
    BY <1>1, <1>4, <1>6, <2>1, <2>2, LatestWritten
  <2>4. Single'
    BY <1>1, <2>1, <2>2 DEF Single, Waits, SameLine
  <2>5. owed' = owed \ {Me.pdu} /\ stale' = stale
    BY <1>2, <2>1 DEF EccWrite
  <2>6. Reading'
    BY <1>1, <1>2, <1>3, <2>1, <2>5 DEF Reading, Waits
  <2> QED
    BY <2>3, <2>4, <2>5, <2>6
<1>7. CASE /\ iecc_add_cnt = 1 /\ iecc_add_cnt' = 2
           /\ EccRead([rd_ecc_buf EXCEPT ![avail_rd].pdu = Me.pdu, ![avail_rd].vld = TRUE], avail_rd)
           /\ rd_pri' = Used(rd_pri, avail_rd)
           /\ UNCHANGED <<wr_ecc_buf, ecc_merge_flag, ecc_model_state, ecc_pre_state>>
  <2> DEFINE buf == [rd_ecc_buf EXCEPT ![avail_rd].pdu = Me.pdu, ![avail_rd].vld = TRUE]
  <2>1. /\ rd_ecc_buf' = ListRd(buf, avail_rd, ecc_task)
        /\ holds' = [holds EXCEPT ![avail_rd] = IF Me.pdu \in owed THEN None ELSE Me.pdu]
        /\ UNCHANGED <<owed, stale>>
    BY <1>7 DEF EccRead
  <2>2. /\ buf \in [RdIds -> RdLine(T)] /\ buf[avail_rd].pdu = Me.pdu
        /\ \A i \in RdIds \ {avail_rd} : buf[i] = rd_ecc_buf[i]
    BY <1>2, <1>4, <1>5, Constants DEF RdLine
  <2> HIDE DEF buf
  <2>3. /\ \E U : rd_ecc_buf' \in [RdIds -> RdLine(U)]
        /\ rd_ecc_buf'[avail_rd].pdu = Me.pdu /\ \A i \in RdIds \ {avail_rd} : SameRead(i)
    BY <1>2, <2>1, <2>2, ReadListed DEF SameRead
  <2>4. holds'[avail_rd] = Me.pdu /\ \A i \in RdIds \ {avail_rd} : holds'[i] = holds[i]
    BY <1>2, <1>7, <2>1 DEF ReadT
  <2>5. ReadT'
    BY <1>1, <1>2, <1>5, <1>7, <2>1, <2>3, UsedReadType DEF ReadT
  <2>6. \A p : Kept(p) => Kept(p)'
    BY <1>1, <1>7 DEF Kept
  <2>7. Latest'
    <3> SUFFICES ASSUME NEW i \in RdIds, rd_ecc_buf'[i].vld PROVE Good(i)'
      BY DEF Latest
    <3>1. CASE i = avail_rd
      BY <2>3, <2>4, <3>1 DEF Good
    <3>2. CASE i # avail_rd
      BY <1>1, <2>3, <2>4, <2>6, <3>2 DEF Latest, Good, SameRead
    <3> QED
      BY <3>1, <3>2
  <2>8. Single'
    BY <1>1, <1>7 DEF Single, Waits
  <2>9. Reading'
    BY <1>1, <1>2, <1>3, <1>7, <2>4 DEF Reading, Waits
  <2> QED
    BY <2>1, <2>5, <2>7, <2>8, <2>9
<1>8. CASE DirtyRead(rd_ecc_buf, avail_rd) /\ UNCHANGED rd_pri
  <2>1. /\ iecc_add_cnt = 2 /\ iecc_add_cnt' = 0 /\ rd_ecc_buf' = ListRd(rd_ecc_buf, avail_rd, task)
        /\ stale' = (stale \/ holds[avail_rd] # Me.pdu) /\ UNCHANGED <<owed, holds, wr_ecc_buf>>
        /\ ecc_pre_state' = "ECC_RD_HIT_DIRTY" /\ ecc_model_state' = "WAIT_ECC_DATA_FINISH"
    BY <1>1, <1>8 DEF DirtyRead, DataRead, Goto
  <2>2. (\E U : rd_ecc_buf' \in [RdIds -> RdLine(U)]) /\ \A i \in RdIds : SameRead(i)
    BY <1>2, <1>4, <2>1, ReadListed DEF SameRead
  <2>3. \A p : Kept(p) => Kept(p)'
    BY <1>1, <2>1 DEF Kept
  <2>4. ReadT' /\ Latest'
    BY <1>1, <1>8, <2>1, <2>2, <2>3, LatestSame DEF ReadT
  <2>5. Single'
    BY <1>1, <2>1 DEF Single, Waits
  <2>6. Reading'
    BY <1>1, <2>1 DEF Reading, Waits
  <2> QED
    BY <1>2, <2>1, <2>4, <2>5, <2>6
<1> QED
  BY <1>6, <1>7, <1>8 DEF HitDirty

(* Every step.                                                             *)
LEMMA FreshNext == FreshInv /\ [Next]_vars => FreshInv'
<1> SUFFICES ASSUME FreshInv, [Next]_vars PROVE FreshInv'
  OBVIOUS
<1>1. LinesInv /\ LinesInv'
  BY LinesNext DEF FreshInv
<1>2. UNCHANGED <<config, req>> /\ (miss_dirty => miss_dirty')
  <2>1. UNCHANGED <<config, req>>
    BY DEF Next, Case, Offer, Finish, PushPending, TryHit, NoLine, GetRead, GetWrite, OutOfRange, Refuse,
           AddRead, AddWrite, AddEccRead, AddEccWrite, WaitData, HitDirty, MissDirty, Ended, vars,
           hostVars, callVars, getVars, addVars
  <2>2. TryHit => (miss_dirty => miss_dirty')
    BY DEF TryHit
  <2>3. ~TryHit => UNCHANGED miss_dirty
    BY DEF Next, Case, Offer, Finish, PushPending, NoLine, GetRead, GetWrite, OutOfRange, Refuse,
           AddRead, AddWrite, AddEccRead, AddEccWrite, WaitData, HitDirty, MissDirty, Ended, vars,
           getVars, addVars, histVars
  <2> QED
    BY <2>1, <2>2, <2>3
<1> SUFFICES ASSUME Plain, ~miss_dirty' PROVE Fresh'
  BY <1>1, <1>2 DEF FreshInv, Plain, MaskedPush, Tasks
<1>3. Control /\ Lines /\ Fresh /\ LineT
  BY <1>1, <1>2 DEF FreshInv, LinesInv, Lines
<1> USE DEF Fresh, In, Goto
(* Steps that change neither the PDUs of the lines nor who has which ECC.  *)
<1>4. ASSUME ReadT', \A i \in RdIds : SameRead(i), \A i \in WrIds : SameLine(i), LineT',
             UNCHANGED <<holds, owed, stale, pdu_push_pending, iecc_add_cnt>>,
             ecc_model_state = "ADD_WR_ECC_TRANS" => UNCHANGED <<ecc_model_state, avail_wr>>,
             ecc_model_state = "ADD_RD_ECC_TRANS" => UNCHANGED <<ecc_model_state, avail_rd>>,
             Single', Reading'
      PROVE  Fresh'
  BY <1>2, <1>3, <1>4, LinesSame, LatestSame
<1>5. ASSUME UNCHANGED <<rdVars, wrVars, holds, owed, stale, pdu_push_pending, availVars, stateVars,
                         iecc_owner_task>>
      PROVE  Fresh'
  <2>1. LineT' /\ \A i \in WrIds : SameLine(i)
    BY <1>3, <1>5, LinesUnchanged
  <2>2. ReadT' /\ \A i \in RdIds : SameRead(i)
    BY <1>3, <1>5 DEF ReadT, SameRead, rdVars
  <2>3. Single' /\ Reading'
    BY <1>2, <1>3, <1>5 DEF Single, Reading, Waits, wrVars, rdVars, availVars, stateVars, Me, IsRead, task
  <2> QED
    BY <1>4, <1>5, <2>1, <2>2, <2>3 DEF stateVars, availVars
<1>6. ASSUME NEW t \in Tasks, Offer(t) PROVE Fresh'
  <2>1. LineT' /\ \A i \in WrIds : SameLine(i)
    BY <1>3, <1>6, LinesSwept DEF Offer
  <2>2. ReadT' /\ \A i \in RdIds : SameRead(i)
    BY <1>3, <1>6, ReadSwept, ReadLineIn DEF Offer, ReadT, SameRead, histVars
  <2>3. /\ UNCHANGED <<stateVars, availVars, pdu_push_pending, histVars>>
        /\ iecc_owner_task' = t /\ (iecc_owner_task = None \/ iecc_owner_task = t)
    BY <1>6 DEF Offer
  <2>4. Single' /\ Reading'
    <3>1. CASE iecc_owner_task = None
      <4>1. ecc_model_state = "TRY_HIT_ECC_BUF"
        BY <1>3, <3>1 DEF Control, Working
      <4> QED
        BY <1>3, <2>1, <2>3, <4>1 DEF Single, Reading, Waits, SameLine, stateVars
    <3>2. CASE iecc_owner_task = t
      <4>1. Me' = Me /\ IsRead' = IsRead
        BY <1>2, <2>3, <3>2 DEF Me, IsRead, task
      <4>2. Single'
        BY <1>3, <2>1, <2>3, <4>1 DEF Single, Waits, SameLine, stateVars, availVars
      <4>3. Reading'
        <5>1. UNCHANGED <<ecc_model_state, ecc_pre_state, iecc_add_cnt, avail_rd, avail_wr, owed, holds>>
          BY <2>3 DEF stateVars, availVars, histVars
        <5>2. ecc_model_state = "ECC_RD_HIT_DIRTY" => avail_wr \in WrIds
          BY <1>3 DEF Lines, Chosen
        <5> QED
          BY <1>3, <2>1, <2>2, <4>1, <5>1, <5>2 DEF Reading, Waits, SameLine, SameRead
      <4> QED
        BY <4>2, <4>3
    <3> QED
      BY <2>3, <3>1, <3>2
  <2> QED
    BY <1>4, <2>1, <2>2, <2>3, <2>4 DEF stateVars, availVars, histVars
<1>7. ASSUME NEW t \in queue, Finish(t) PROVE Fresh'
  BY <1>5, <1>7 DEF Finish, hostVars, histVars
<1>8. CASE NoLine
  <2>1. LineT' /\ \A i \in WrIds : SameLine(i)
    BY <1>3, <1>8, LinesSwept DEF NoLine
  <2>2. ReadT' /\ \A i \in RdIds : SameRead(i)
    BY <1>3, <1>8, ReadSwept, ReadLineIn DEF NoLine, ReadT, SameRead, getVars, histVars
  <2>3. /\ UNCHANGED <<getVars, ecc_model_state>> /\ ecc_model_state = "GET_ECC_BUF"
    BY <1>8 DEF NoLine
  <2>4. Single' /\ Reading'
    BY <1>2, <1>3, <2>1, <2>2, <2>3 DEF Single, Reading, Waits, SameLine, getVars, histVars, Me, IsRead, task
  <2> QED
    BY <1>4, <2>1, <2>2, <2>3, <2>4 DEF getVars, histVars
<1>9. CASE OutOfRange
  <2>1. /\ UNCHANGED <<config, rdVars, wrVars, histVars, pdu_push_pending, iecc_add_cnt>>
        /\ ecc_model_state = "GET_ECC_BUF" /\ ecc_model_state' = "out_of_range"
    BY <1>9 DEF OutOfRange, hostVars
  <2>2. LineT' /\ \A i \in WrIds : SameLine(i)
    BY <1>3, <2>1, LinesUnchanged
  <2>3. ReadT' /\ \A i \in RdIds : SameRead(i)
    BY <1>3, <2>1 DEF ReadT, SameRead, rdVars, histVars
  <2>4. Single' /\ Reading'
    BY <1>3, <2>1, <2>2 DEF Single, Reading, Waits, SameLine
  <2> QED
    BY <1>4, <2>1, <2>2, <2>3, <2>4 DEF histVars
<1>10. CASE Refuse
  BY <1>5, <1>10 DEF Refuse, hostVars, histVars
<1>11. CASE WaitData
  <2>1. LineT' /\ \A i \in WrIds : SameLine(i)
    BY <1>3, <1>11, LinesUnchanged DEF WaitData
  <2>2. ReadT' /\ \A i \in RdIds : SameRead(i)
    BY <1>3, <1>11 DEF WaitData, ReadT, SameRead, rdVars, histVars
  <2>3. /\ UNCHANGED <<ecc_pre_state, histVars, pdu_push_pending, availVars, iecc_add_cnt>>
        /\ ecc_model_state = "WAIT_ECC_DATA_FINISH"
        /\ \/ UNCHANGED <<iecc_owner_task, ecc_model_state>>
           \/ ecc_pre_state = "ADD_WR_ECC_TRANS" /\ ecc_model_state' = "ECC_ADD_TRANS"
              /\ UNCHANGED iecc_owner_task
           \/ ecc_model_state' = "TRY_HIT_ECC_BUF"
    BY <1>11 DEF WaitData, WaitOver, Refused
  <2>4. Single' /\ Reading'
    BY <1>2, <1>3, <2>1, <2>3 DEF Single, Reading, Waits, SameLine, availVars, histVars, Me, IsRead, task
  <2> QED
    BY <1>4, <2>1, <2>2, <2>3, <2>4 DEF availVars, histVars
<1>12. CASE MissDirty
  BY <1>3, <1>12 DEF MissDirty, Reading
<1>13. CASE UNCHANGED vars
  BY <1>5, <1>13 DEF vars, hostVars, histVars
<1> QED
  BY <1>3, <1>6, <1>7, <1>8, <1>9, <1>10, <1>11, <1>12, <1>13, FreshHit, FreshGetRead, FreshEccRead,
     FreshAddRead, FreshWrite, FreshTaken, FreshFreed, FreshPush, FreshHitDirty DEF Next, Case, Ended

(* FreshEcc, under the same conditions: a read never goes to a line that   *)
(* lacks the latest ECC of its PDU, as long as ECC_RD_MISS_DIRTY has not   *)
(* been entered (hit_ecc_buf, try_add_ecc_rd, try_add_ecc_wr).             *)
THEOREM FreshEccHolds == Spec => []FreshEcc
<1>1. FreshInv => FreshEcc
  BY DEF FreshInv, Fresh, FreshEcc, Plain
<1> QED
  BY <1>1, FreshInit, FreshNext, PTL DEF Spec
-----------------------------------------------------------------------------
(* A set that holds 0, and the successor of each number it holds, holds    *)
(* every number.                                                           *)
LEMMA AllNumbers ==
  ASSUME NEW S, 0 \in S, \A n \in Nat : n \in S => n + 1 \in S
  PROVE  \A n \in Nat : n \in S
<1> DEFINE R == OpToRel(<, Nat)
           T == {n \in Nat : n \notin S}
<1>1. \A x, y \in Nat : x < y => <<x, y>> \in R
  BY DEF OpToRel
<1>2. IsWellFoundedOn(R, Nat)
  BY NatLessThanWellFounded
<1> HIDE DEF R
<1>3. SUFFICES ASSUME T # {} PROVE FALSE
  OBVIOUS
<1>4. PICK k \in T : \A y \in T : ~ (<<y, k>> \in R)
  <2>1. T \subseteq Nat
    OBVIOUS
  <2> HIDE DEF T
  <2> QED
    BY <1>2, <1>3, <2>1, WFMin
<1>5. k \in Nat /\ k # 0
  BY <1>4
<1>6. k - 1 \in Nat /\ k - 1 < k /\ (k - 1) + 1 = k
  BY <1>5
<1>7. k - 1 \in S
  BY <1>1, <1>4, <1>6
<1> QED
  BY <1>4, <1>6, <1>7

(* Sweep is a fold, and a fold a recursive function over sets of places.   *)
Step(acc, t) == IF t \in finished /\ ~acc.skip
                THEN [kept |-> acc.kept, skip |-> TRUE]
                ELSE [kept |-> Append(acc.kept, t), skip |-> FALSE]
Nothing == [kept |-> <<>>, skip |-> FALSE]
Sweeps(list, it, n) ==
  it = [s \in SUBSET (1..n) |-> IF s = {} THEN Nothing ELSE Step(it[s \ {Max(s)}], list[Max(s)])]

LEMMA SweepFold ==
  ASSUME NEW list, DOMAIN list = 1..Len(list)
  PROVE  Sweep(list) = (CHOOSE it : Sweeps(list, it, Len(list)))[1..Len(list)].kept
  BY DEF Sweep, FoldLeft, MapThenFoldSet, Sweeps, Step, Nothing

(* The largest place of a set, and what is left without it.                *)
LEMMA LastPlace ==
  ASSUME NEW n \in Nat, NEW s \in SUBSET (1..(n + 1))
  PROVE  /\ n + 1 \in s => Max(s) = n + 1 /\ s \ {Max(s)} \in SUBSET (1..n)
         /\ n + 1 \notin s => s \in SUBSET (1..n)
         /\ s # {} => Max(s) \in s
<1>1. \A x \in 1..(n + 1) : x \in 1..n \/ x = n + 1
  OBVIOUS
<1>2. n + 1 \in s => Max(s) = n + 1
  <2> SUFFICES ASSUME n + 1 \in s PROVE Max(s) = n + 1
    OBVIOUS
  <2>1. \A x \in s : n + 1 >= x
    OBVIOUS
  <2>2. \A x \in s : (\A y \in s : x >= y) => x = n + 1
    OBVIOUS
  <2> QED
    BY <2>1, <2>2 DEF Max
<1>3. s # {} => Max(s) \in s
  <2>1. n + 1 \in Nat /\ s \in SUBSET (0..(n + 1))
    OBVIOUS
  <2>2. s # {} => \E i \in s : \A j \in s : j <= i
    BY <2>1, LargestIn
  <2>3. \A x, y \in s : x <= y <=> y >= x
    OBVIOUS
  <2> QED
    BY <2>2, <2>3 DEF Max
<1> QED
  BY <1>1, <1>2, <1>3

(* There is such a function, place by place.                               *)
LEMMA SweepsExists == ASSUME NEW list PROVE \A n \in Nat : \E it : Sweeps(list, it, n)
<1> DEFINE S == {n \in Nat : \E it : Sweeps(list, it, n)}
<1>1. 0 \in S
  <2> DEFINE it == [s \in SUBSET (1..0) |-> Nothing]
  <2>1. \A s \in SUBSET (1..0) : s = {}
    OBVIOUS
  <2>2. Sweeps(list, it, 0)
    BY <2>1 DEF Sweeps
  <2> QED
    BY <2>2
<1>2. ASSUME NEW n \in Nat, n \in S PROVE n + 1 \in S
  <2>1. PICK it : Sweeps(list, it, n)
    BY <1>2
  <2> DEFINE jt == [s \in SUBSET (1..(n + 1)) |->
                      IF n + 1 \in s THEN Step(it[s \ {n + 1}], list[n + 1]) ELSE it[s]]
             F(f, s) == IF s = {} THEN Nothing ELSE Step(f[s \ {Max(s)}], list[Max(s)])
  <2>2. ASSUME NEW s \in SUBSET (1..n) PROVE s \in SUBSET (1..(n + 1)) /\ n + 1 \notin s
    <3>1. \A x \in 1..n : x \in 1..(n + 1) /\ x # n + 1
      OBVIOUS
    <3> QED
      BY <3>1
  <2>3. \A s \in SUBSET (1..n) : jt[s] = it[s] /\ it[s] = F(it, s)
    BY <2>1, <2>2 DEF Sweeps
  <2>4. ASSUME NEW s \in SUBSET (1..(n + 1)) PROVE jt[s] = F(jt, s)
    <3>1. CASE n + 1 \in s
      <4>1. Max(s) = n + 1 /\ s \ {n + 1} \in SUBSET (1..n)
        BY <3>1, LastPlace
      <4>2. jt[s] = Step(it[s \ {n + 1}], list[n + 1])
        BY <3>1
      <4> QED
        BY <2>3, <3>1, <4>1, <4>2
    <3>2. CASE n + 1 \notin s
      <4>1. s \in SUBSET (1..n)
        BY <3>2, LastPlace
      <4>2. s \ {Max(s)} \in SUBSET (1..n)
        BY <4>1
      <4> QED
        BY <2>3, <4>1, <4>2
    <3> QED
      BY <3>1, <3>2
  <2>5. Sweeps(list, jt, n + 1)
    BY <2>4 DEF Sweeps
  <2> QED
    BY <2>5
<1> HIDE DEF S
<1>3. \A n \in Nat : n \in S
  BY <1>1, <1>2, AllNumbers
<1> QED
  BY <1>3 DEF S

(* What is kept of a list is a list of some of its tasks.                  *)
LEMMA SweepSeq ==
  ASSUME NEW R, NEW list \in Seq(R)
  PROVE  Sweep(list) \in Seq(ToSet(list)) /\ ToSet(Sweep(list)) \subseteq ToSet(list)
<1> DEFINE N == Len(list)
           K == [kept : Seq(ToSet(list)), skip : BOOLEAN]
           it == CHOOSE f : Sweeps(list, f, N)
           S == {n \in Nat : n <= N => \A s \in SUBSET (1..n) : it[s] \in K}
<1>0. N \in Nat /\ DOMAIN list = 1..N
  OBVIOUS
<1>1. Sweeps(list, it, N)
  BY <1>0, SweepsExists
<1>2. \A i \in 1..N : list[i] \in ToSet(list)
  BY DEF ToSet
<1>3. Nothing \in K
  BY DEF Nothing
<1>4. \A a \in K, i \in 1..N : Step(a, list[i]) \in K
  <2> SUFFICES ASSUME NEW a \in K, NEW i \in 1..N PROVE Step(a, list[i]) \in K
    OBVIOUS
  <2>1. a.kept \in Seq(ToSet(list)) /\ Append(a.kept, list[i]) \in Seq(ToSet(list))
    BY <1>2
  <2> QED
    BY <2>1 DEF Step
<1>5. 0 \in S
  <2>1. \A s \in SUBSET (1..0) : s = {} /\ s \in SUBSET (1..N)
    OBVIOUS
  <2> QED
    BY <1>0, <1>1, <1>3, <2>1 DEF Sweeps
<1> HIDE DEF it, K
<1>6. ASSUME NEW n \in Nat, n \in S PROVE n + 1 \in S
  <2> SUFFICES ASSUME n + 1 <= N, NEW s \in SUBSET (1..(n + 1)) PROVE it[s] \in K
    OBVIOUS
  <2>1. n <= N /\ n + 1 \in 1..N
    BY <1>0
  <2>2. \A q \in SUBSET (1..n) : it[q] \in K
    BY <1>6, <2>1
  <2>3. s \in SUBSET (1..N)
    BY <1>0
  <2>4. CASE n + 1 \in s
    <3>1. it[s] = Step(it[s \ {n + 1}], list[n + 1])
      BY <1>1, <2>3, <2>4, LastPlace DEF Sweeps
    <3>2. s \ {n + 1} \in SUBSET (1..n)
      BY <2>4, LastPlace
    <3> QED
      BY <1>4, <2>1, <2>2, <3>1, <3>2
  <2>5. CASE n + 1 \notin s
    BY <2>2, <2>5, LastPlace
  <2> QED
    BY <2>4, <2>5
<1>7. \A n \in Nat : n \in S
  <2> HIDE DEF S
  <2> QED
    BY <1>5, <1>6, AllNumbers
<1>8. it[1..N] \in K
  BY <1>0, <1>7
<1>9. Sweep(list) = it[1..N].kept
  BY <1>0, SweepFold DEF it
<1>10. Sweep(list) \in Seq(ToSet(list))
  BY <1>8, <1>9 DEF K
<1>11. \A x \in ToSet(Sweep(list)) : x \in ToSet(list)
  BY <1>10 DEF ToSet
<1> QED
  BY <1>10, <1>11
-----------------------------------------------------------------------------
(***************************************************************************)
(* LinesSound, for any configuration, merged lines and masked pushes as    *)
(* well.                                                                   *)
(***************************************************************************)
(* The lists of the lines of both buffers.                                 *)
Slots   == ({"r"} \X RdIds) \cup ({"w"} \X WrIds)
List(l) == IF l[1] = "r" THEN rd_ecc_buf[l[2]].tasks ELSE wr_ecc_buf[l[2]].tasks
On(t, l) == t \in ToSet(List(l))

(* A task is in one list; it runs, or its end is not seen yet; and a data  *)
(* command is in a list only when it was sent.                             *)
ListOnce == \A l, m \in Slots, t \in Nat : On(t, l) /\ On(t, m) => l = m
ListSeen == \A l \in Slots, t \in Nat : On(t, l) => t \in queue \cup finished /\ (t <= NTasks => t \in sent)
HitCount == \A i \in WrIds : wr_ecc_buf[i].hit_cnt <= Cardinality(sent)

(* A write that has its line, and will send its data to it.                *)
Filling == ~IsRead /\ \/ ecc_model_state \in {"ADD_WR_ECC_TRANS", "ECC_ADD_TRANS"}
                      \/ Waits("ADD_WR_ECC_TRANS")
Serves  ==
  /\ ecc_model_state \in {"ECC_RD_HIT_DIRTY", "ECC_RD_MISS_DIRTY", "ADD_RD_ECC_TRANS"} => IsRead
  /\ ecc_model_state = "ADD_WR_ECC_TRANS" \/ Waits("ADD_WR_ECC_TRANS") => ~IsRead

RdOther(i) == rd_ecc_buf[i].vld => rd_ecc_buf[i].pdu # Me.pdu
WrOther(i) == wr_ecc_buf[i].vld => wr_ecc_buf[i].pdu # Me.pdu

(* The valid lines of a PDU: one of each buffer, but for the line a write  *)
(* fills; and none but the line that was hit when the request goes on.     *)
RdOne == \A i, j \in RdIds :
           rd_ecc_buf[i].vld /\ rd_ecc_buf[j].vld /\ rd_ecc_buf[i].pdu = rd_ecc_buf[j].pdu => i = j
RdNext ==
  /\ ecc_model_state \in {"GET_ECC_BUF", "ECC_RD_MISS_DIRTY"} /\ IsRead => \A i \in RdIds : RdOther(i)
  /\ ecc_model_state = "ECC_RD_HIT_DIRTY" =>
       avail_rd \in RdIds /\ \A i \in RdIds : i # avail_rd => RdOther(i)
WrOne == \A i, j \in WrIds :
           wr_ecc_buf[i].vld /\ wr_ecc_buf[j].vld /\ wr_ecc_buf[i].pdu = wr_ecc_buf[j].pdu
             /\ (Filling => i # avail_wr /\ j # avail_wr) => i = j
WrNext ==
  /\ ecc_model_state = "GET_ECC_BUF" /\ ~IsRead => \A i \in WrIds : WrOther(i)
  /\ Filling => \A i \in WrIds : i # avail_wr => WrOther(i)

WrT == [vld : BOOLEAN, pdu : Nat, tasks : Seq(Nat), pos : SUBSET Sectors, dirty : BOOLEAN,
        wr_ecc : BOOLEAN, merge_cnt : 0..MERGE_DEPTH, hit_cnt : Nat]
Types ==
  /\ [config |-> config, req |-> req] \in Cases
  /\ in_call \in BOOLEAN /\ ecc_model_state \in States /\ ecc_pre_state \in States
  /\ iecc_add_cnt \in 0..2 /\ ecc_delay \in 0..(IECC_CONFLICT_CNT + 1)
  /\ avail_rd \in RdIds \cup {None} /\ avail_wr \in WrIds \cup {None}
  /\ current_wr_pdu_hit \in BOOLEAN /\ ecc_merge_flag \in BOOLEAN
  /\ pdu_push_pending \in WrIds \cup {None}
  /\ stale \in BOOLEAN /\ miss_dirty \in BOOLEAN
RdType == /\ rd_ecc_buf \in [RdIds -> RdLine(Seq(Nat))]
          /\ rd_pri \in [RdIds -> 1..PDU_RD_DEPTH] /\ recycle_rd \subseteq RdIds
WrType == /\ wr_ecc_buf \in [WrIds -> WrT]
          /\ wr_pri \in [WrIds -> 1..PDU_WR_DEPTH] /\ recycle_wr \subseteq WrIds
History == /\ queue \subseteq Nat /\ finished \subseteq Nat /\ sent \subseteq Tasks
           /\ owed \subseteq Pdus /\ holds \in [RdIds -> Pdus \cup {None}]

Typed == Types /\ RdType /\ WrType /\ History
Listing == ListOnce /\ ListSeen
OnePdu == Serves /\ RdOne /\ RdNext /\ WrOne /\ WrNext
SoundInv == Control /\ Typed /\ Listing /\ HitCount /\ OnePdu

-----------------------------------------------------------------------------
(* The tasks are finitely many.                                            *)
LEMMA TasksFinite ==
  ASSUME Control, History
  PROVE  /\ IsFiniteSet(Tasks) /\ Cardinality(Tasks) <= NTasks /\ \A t \in Tasks : t \in 1..NTasks
         /\ Cardinality(Tasks) \in Nat
         /\ IsFiniteSet(sent) /\ Cardinality(sent) \in Nat /\ Cardinality(sent) <= NTasks
<1>1. PICK n \in 1..NTasks : req \in [1..n -> Request]
  BY DEF Control, Asked
<1>2. Tasks = 1..n /\ n \in Nat /\ NTasks \in Nat /\ n <= NTasks /\ n >= 1
  BY <1>1, Constants DEF Tasks
<1>3. IsFiniteSet(1..n) /\ Cardinality(1..n) = n
  BY <1>2, FS_Interval
<1>4. IsFiniteSet(sent) /\ Cardinality(sent) <= Cardinality(Tasks)
  BY <1>2, <1>3, FS_Subset DEF History
<1>5. Cardinality(sent) \in Nat
  BY <1>4, FS_CardinalityType
<1> QED
  BY <1>2, <1>3, <1>4, <1>5

(* The tasks of a list are finitely many.                                  *)
LEMMA ListFinite ==
  ASSUME NEW list \in Seq(Nat)
  PROVE  IsFiniteSet(ToSet(list)) /\ ToSet(list) \subseteq Nat
<1> DEFINE f == [i \in 1..Len(list) |-> list[i]]
<1>1. Len(list) \in Nat /\ DOMAIN list = 1..Len(list) /\ \A i \in 1..Len(list) : list[i] \in Nat
  OBVIOUS
<1>2. IsFiniteSet(1..Len(list))
  BY <1>1, FS_Interval
<1>3. f \in Surjection(1..Len(list), ToSet(list))
  BY <1>1 DEF Surjection, ToSet
<1>4. IsFiniteSet(ToSet(list))
  BY <1>2, <1>3, FS_Surjection
<1> QED
  BY <1>1, <1>4 DEF ToSet

(* Numbers that are all in a set of so many elements.                      *)
LEMMA NotAll ==
  ASSUME NEW S, IsFiniteSet(S), NEW n \in Nat
  PROVE  \E k \in (n + 1)..(n + Cardinality(S) + 1) :
            k \notin S /\ \A m \in (n + 1)..(k - 1) : m \in S
<1> DEFINE c == Cardinality(S)
           I == (n + 1)..(n + c + 1)
           T == {d \in 0..c : n + c + 1 - d \notin S}
<1>1. c \in Nat
  BY FS_CardinalityType
<1> HIDE DEF c
<1>2. IsFiniteSet(I) /\ Cardinality(I) = c + 1
  <2>1. n + 1 \in Int /\ n + c + 1 \in Int /\ ~(n + 1 > n + c + 1) /\ (n + c + 1) - (n + 1) + 1 = c + 1
    BY <1>1
  <2> QED
    BY <2>1, FS_Interval
<1>3. \E k \in I : k \notin S
  <2>1. SUFFICES ASSUME I \in SUBSET S PROVE FALSE
    OBVIOUS
  <2>2. Cardinality(I) <= Cardinality(S)
    BY <2>1, FS_Subset
  <2> QED
    BY <1>1, <1>2, <2>2 DEF c
<1>4. T # {} /\ T \in SUBSET (0..c)
  <2>1. PICK k \in I : k \notin S
    BY <1>3
  <2>2. n + c + 1 - k \in 0..c /\ n + c + 1 - (n + c + 1 - k) = k
    BY <1>1
  <2> QED
    BY <2>1, <2>2
<1>5. PICK d \in T : \A e \in T : e <= d
  <2> HIDE DEF T
  <2> QED
    BY <1>1, <1>4, LargestIn
<1> DEFINE k == n + c + 1 - d
<1>6. k \in I /\ k \notin S
  BY <1>1, <1>5
<1>7. ASSUME NEW m \in (n + 1)..(k - 1) PROVE m \in S
  <2>1. n + c + 1 - m \in 0..c /\ n + c + 1 - (n + c + 1 - m) = m /\ ~(n + c + 1 - m <= d)
    BY <1>1
  <2> QED
    BY <1>5, <2>1
<1> QED
  BY <1>6, <1>7 DEF c

(* The tasks that are listed are those of the lists.                       *)
LEMMA ListedOn ==
  /\ \A t : t \in Listed <=> \E l \in Slots : On(t, l)
  /\ \A i \in RdIds : <<"r", i>> \in Slots /\ List(<<"r", i>>) = rd_ecc_buf[i].tasks
  /\ \A i \in WrIds : <<"w", i>> \in Slots /\ List(<<"w", i>>) = wr_ecc_buf[i].tasks
  /\ \A l \in Slots : (\E i \in RdIds : l = <<"r", i>>) \/ (\E i \in WrIds : l = <<"w", i>>)
<1>1. \A i \in RdIds : <<"r", i>> \in Slots /\ List(<<"r", i>>) = rd_ecc_buf[i].tasks
  BY DEF Slots, List
<1>2. \A i \in WrIds : <<"w", i>> \in Slots /\ List(<<"w", i>>) = wr_ecc_buf[i].tasks
  BY DEF Slots, List
<1>3. \A l \in Slots : (\E i \in RdIds : l = <<"r", i>>) \/ (\E i \in WrIds : l = <<"w", i>>)
  BY DEF Slots
<1>4. \A t : t \in Listed <=> (\E i \in RdIds : t \in ToSet(rd_ecc_buf[i].tasks))
                               \/ (\E i \in WrIds : t \in ToSet(wr_ecc_buf[i].tasks))
  <2> DEFINE f == [i \in RdIds |-> ToSet(rd_ecc_buf[i].tasks)]
             g == [i \in WrIds |-> ToSet(wr_ecc_buf[i].tasks)]
  <2>1. Listed = (UNION {f[i] : i \in RdIds}) \cup (UNION {g[i] : i \in WrIds})
    BY DEF Listed
  <2> HIDE DEF f, g
  <2>2. \A t : t \in Listed <=> (\E i \in RdIds : t \in f[i]) \/ (\E i \in WrIds : t \in g[i])
    BY <2>1
  <2> QED
    BY <2>2 DEF f, g
<1> QED
  BY <1>1, <1>2, <1>3, <1>4 DEF On

(* The lists hold tasks.                                                   *)
LEMMA ListsTyped ==
  ASSUME RdType, WrType
  PROVE  \A l \in Slots : List(l) \in Seq(Nat)
<1>1. \A i \in RdIds : rd_ecc_buf[i].tasks \in Seq(Nat)
  BY DEF RdType, RdLine
<1>2. \A i \in WrIds : wr_ecc_buf[i].tasks \in Seq(Nat)
  BY DEF WrType, WrT
<1> QED
  BY <1>1, <1>2, ListedOn

(* The task of the next ECC command is no request's, and in no list.       *)
LEMMA FreshTask ==
  ASSUME RdType, WrType
  PROVE  ecc_task \in Nat /\ ecc_task > NTasks /\ \A l \in Slots : ~On(ecc_task, l)
<1>1. \A i \in RdIds : IsFiniteSet(ToSet(rd_ecc_buf[i].tasks))
  BY ListFinite DEF RdType, RdLine
<1>2. \A i \in WrIds : IsFiniteSet(ToSet(wr_ecc_buf[i].tasks))
  BY ListFinite DEF WrType, WrT
<1> DEFINE A == {ToSet(rd_ecc_buf[i].tasks) : i \in RdIds}
           B == {ToSet(wr_ecc_buf[i].tasks) : i \in WrIds}
<1>3. IsFiniteSet(A)
  <2> DEFINE f == [i \in RdIds |-> ToSet(rd_ecc_buf[i].tasks)]
  <2>1. f \in Surjection(RdIds, A)
    BY DEF Surjection
  <2>2. IsFiniteSet(RdIds)
    BY Constants, FS_Interval DEF RdIds
  <2> HIDE DEF f, A
  <2> QED
    BY <2>1, <2>2, FS_Surjection
<1>4. IsFiniteSet(B)
  <2> DEFINE f == [i \in WrIds |-> ToSet(wr_ecc_buf[i].tasks)]
  <2>1. f \in Surjection(WrIds, B)
    BY DEF Surjection
  <2>2. IsFiniteSet(WrIds)
    BY Constants, FS_Interval DEF WrIds
  <2> HIDE DEF f, B
  <2> QED
    BY <2>1, <2>2, FS_Surjection
<1>5. (\A T \in A : IsFiniteSet(T)) /\ (\A T \in B : IsFiniteSet(T)) /\ Listed = (UNION A) \cup (UNION B)
  BY <1>1, <1>2 DEF Listed
<1> HIDE DEF A, B
<1>6. IsFiniteSet(Listed)
  <2>1. IsFiniteSet(UNION A) /\ IsFiniteSet(UNION B)
    BY <1>3, <1>4, <1>5, FS_UNION
  <2> DEFINE X == UNION A
             Y == UNION B
  <2>2. IsFiniteSet(X) /\ IsFiniteSet(Y) /\ Listed = X \cup Y
    BY <1>5, <2>1
  <2> HIDE DEF X, Y
  <2> QED
    BY <2>2, FS_Union
<1>7. NTasks \in Nat /\ Cardinality(Listed) \in Nat
  BY <1>6, Constants, FS_CardinalityType
<1> DEFINE P(k) == k \notin Listed /\ \A m \in (NTasks + 1)..(k - 1) : m \in Listed
           I == (NTasks + 1)..(NTasks + Cardinality(Listed) + 1)
<1>8. \E k \in I : P(k)
  BY <1>6, <1>7, NotAll
<1>9. ecc_task = CHOOSE k \in I : P(k)
  BY DEF ecc_task
<1>10. ecc_task \in I /\ P(ecc_task)
  <2> HIDE DEF I, P
  <2> QED
    BY <1>8, <1>9
<1>11. \A l \in Slots : ~On(ecc_task, l)
  <2>1. ecc_task \notin Listed
    BY <1>10
  <2> QED
    BY <2>1, ListedOn
<1>12. \A k \in I : k \in Nat /\ k > NTasks
  BY <1>7
<1> QED
  BY <1>10, <1>11, <1>12
-----------------------------------------------------------------------------
(* A step that adds a new task t to list m, or to none, and forgets tasks  *)
(* whose end is seen.                                                      *)
ListsGrow(t, m) ==
  /\ \A l \in Slots, x \in Nat : On(x, l)' => On(x, l) \/ (l = m /\ x = t)
  /\ (\A l \in Slots : ~On(t, l)) /\ t \in queue' /\ (t <= NTasks => t \in sent')
ListsShrink ==
  \A l \in Slots, x \in Nat : On(x, l)' => On(x, l)
EndsSeen ==
  /\ sent \subseteq sent' /\ \A x \in queue : x \in queue' \/ x \in finished'
  /\ \A x \in finished : x \in finished' \/ \E l \in Slots : On(x, l) /\ ~On(x, l)'

LEMMA ListsNext ==
  ASSUME Listing, EndsSeen, ListsShrink \/ \E t, m : ListsGrow(t, m)
  PROVE  Listing'
<1>1. ASSUME ListsShrink PROVE Listing'
  BY <1>1 DEF ListsShrink, Listing, ListOnce, ListSeen, EndsSeen, Slots
<1>2. ASSUME NEW t, NEW m, ListsGrow(t, m) PROVE Listing'
  <2>1. ListOnce'
    <3> SUFFICES ASSUME NEW l \in Slots, NEW n \in Slots, NEW x \in Nat, On(x, l)', On(x, n)' PROVE l = n
      BY DEF ListOnce, Slots
    <3> QED
      BY <1>2 DEF ListsGrow, Listing, ListOnce
  <2>2. ListSeen'
    <3> SUFFICES ASSUME NEW l \in Slots, NEW x \in Nat, On(x, l)'
                 PROVE  x \in queue' \cup finished' /\ (x <= NTasks => x \in sent')
      BY DEF ListSeen, Slots
    <3>1. CASE On(x, l)
      <4>1. x \in queue \cup finished /\ (x <= NTasks => x \in sent)
        BY <3>1 DEF Listing, ListSeen
      <4>2. ASSUME NEW n \in Slots, On(x, n) PROVE On(x, n)'
        BY <3>1, <4>2 DEF Listing, ListOnce
      <4> QED
        BY <4>1, <4>2 DEF EndsSeen
    <3>2. CASE ~On(x, l)
      BY <1>2, <3>2 DEF ListsGrow
    <3> QED
      BY <3>1, <3>2
  <2> QED
    BY <2>1, <2>2 DEF Listing
<1> QED
  BY <1>1, <1>2

(* What the lists hold after a step, from the lines.                       *)
LEMMA OnNext ==
  /\ \A i \in RdIds : \A x : On(x, <<"r", i>>)' <=> x \in ToSet(rd_ecc_buf'[i].tasks)
  /\ \A i \in WrIds : \A x : On(x, <<"w", i>>)' <=> x \in ToSet(wr_ecc_buf'[i].tasks)
  /\ \A i \in RdIds : \A x : On(x, <<"r", i>>) <=> x \in ToSet(rd_ecc_buf[i].tasks)
  /\ \A i \in WrIds : \A x : On(x, <<"w", i>>) <=> x \in ToSet(wr_ecc_buf[i].tasks)
  /\ \A l \in Slots : (\E i \in RdIds : l = <<"r", i>>) \/ (\E i \in WrIds : l = <<"w", i>>)
<1>1. \A l \in Slots : (\E i \in RdIds : l = <<"r", i>>) \/ (\E i \in WrIds : l = <<"w", i>>)
  BY DEF Slots
<1> QED
  BY <1>1 DEF On, List

LEMMA AppendSet ==
  ASSUME NEW R, NEW list \in Seq(R), NEW t
  PROVE  ToSet(Append(list, t)) = ToSet(list) \cup {t}
<1> DEFINE N == Len(list)
<1>1. N \in Nat /\ DOMAIN list = 1..N /\ list \in [1..N -> R]
  OBVIOUS
<1>2. /\ DOMAIN Append(list, t) = 1..(N + 1) /\ Append(list, t)[N + 1] = t
      /\ \A i \in 1..N : Append(list, t)[i] = list[i]
  <2>1. list \in Seq(R \cup {t}) /\ t \in R \cup {t}
    OBVIOUS
  <2> QED
    BY <2>1
<1>3. \A i \in 1..(N + 1) : i \in 1..N \/ i = N + 1
  BY <1>1
<1>4. \A i \in 1..N : i \in 1..(N + 1)
  BY <1>1
<1>5. N + 1 \in 1..(N + 1)
  BY <1>1
<1> QED
  BY <1>1, <1>2, <1>3, <1>4, <1>5 DEF ToSet

-----------------------------------------------------------------------------
(* update_rd_ecc_buf: what is left of the lines of the read buffer.        *)
LEMMA RdSwept ==
  ASSUME RdType, History
  PROVE  /\ Swept(rd_ecc_buf) \in [RdIds -> RdLine(Seq(Nat))]
         /\ \A i \in RdIds : /\ Swept(rd_ecc_buf)[i].vld = rd_ecc_buf[i].vld
                             /\ Swept(rd_ecc_buf)[i].pdu = rd_ecc_buf[i].pdu
                             /\ ToSet(Swept(rd_ecc_buf)[i].tasks) \subseteq ToSet(rd_ecc_buf[i].tasks)
         /\ \A x : x \in Unlisted(rd_ecc_buf) =>
               \E i \in RdIds : x \in ToSet(rd_ecc_buf[i].tasks) /\ x \notin ToSet(Swept(rd_ecc_buf)[i].tasks)
         /\ Free(rd_ecc_buf, recycle_rd) \subseteq RdIds
<1>0. DOMAIN rd_ecc_buf = RdIds /\ \A i \in RdIds : rd_ecc_buf[i] \in RdLine(Seq(Nat))
  BY DEF RdType
<1>1. ASSUME NEW i \in RdIds
      PROVE  /\ Sweep(rd_ecc_buf[i].tasks) \in Seq(Nat)
             /\ ToSet(Sweep(rd_ecc_buf[i].tasks)) \subseteq ToSet(rd_ecc_buf[i].tasks)
  <2>1. rd_ecc_buf[i].tasks \in Seq(Nat)
    BY <1>0 DEF RdLine
  <2>2. Sweep(rd_ecc_buf[i].tasks) \in Seq(ToSet(rd_ecc_buf[i].tasks)) /\ ToSet(rd_ecc_buf[i].tasks) \subseteq Nat
    BY <2>1, SweepSeq, ListFinite
  <2>3. Sweep(rd_ecc_buf[i].tasks) \in Seq(Nat)
    BY <2>2
  <2> QED
    BY <2>1, <2>3, SweepSeq
<1>2. \A i \in RdIds : Swept(rd_ecc_buf)[i] = [rd_ecc_buf[i] EXCEPT !.tasks = Sweep(rd_ecc_buf[i].tasks)]
  BY <1>0 DEF Swept
<1>3. \A i \in RdIds : /\ Swept(rd_ecc_buf)[i] \in RdLine(Seq(Nat))
                       /\ Swept(rd_ecc_buf)[i].vld = rd_ecc_buf[i].vld
                       /\ Swept(rd_ecc_buf)[i].pdu = rd_ecc_buf[i].pdu
                       /\ Swept(rd_ecc_buf)[i].tasks = Sweep(rd_ecc_buf[i].tasks)
  BY <1>0, <1>1, <1>2 DEF RdLine
<1>4. Swept(rd_ecc_buf) = [i \in RdIds |-> Swept(rd_ecc_buf)[i]]
  BY <1>0 DEF Swept
<1>5. Swept(rd_ecc_buf) \in [RdIds -> RdLine(Seq(Nat))]
  BY <1>3, <1>4
<1>6. \A x : x \in Unlisted(rd_ecc_buf) =>
         \E i \in RdIds : x \in ToSet(rd_ecc_buf[i].tasks) /\ x \notin ToSet(Swept(rd_ecc_buf)[i].tasks)
  BY <1>0, <1>3 DEF Unlisted
<1>7. Free(rd_ecc_buf, recycle_rd) \subseteq RdIds
  BY <1>0 DEF Free, RdType
<1> QED
  BY <1>1, <1>3, <1>5, <1>6, <1>7

(* update_wr_ecc_buf: the same of the write buffer.                        *)
LEMMA WrSwept ==
  ASSUME WrType, History
  PROVE  /\ Swept(wr_ecc_buf) \in [WrIds -> WrT]
         /\ \A i \in WrIds : /\ Swept(wr_ecc_buf)[i].vld = wr_ecc_buf[i].vld
                             /\ Swept(wr_ecc_buf)[i].pdu = wr_ecc_buf[i].pdu
                             /\ Swept(wr_ecc_buf)[i].hit_cnt = wr_ecc_buf[i].hit_cnt
                             /\ Swept(wr_ecc_buf)[i].merge_cnt = wr_ecc_buf[i].merge_cnt
                             /\ ToSet(Swept(wr_ecc_buf)[i].tasks) \subseteq ToSet(wr_ecc_buf[i].tasks)
         /\ \A x : x \in Unlisted(wr_ecc_buf) =>
               \E i \in WrIds : x \in ToSet(wr_ecc_buf[i].tasks) /\ x \notin ToSet(Swept(wr_ecc_buf)[i].tasks)
         /\ Free(wr_ecc_buf, recycle_wr) \subseteq WrIds
<1>0. DOMAIN wr_ecc_buf = WrIds /\ \A i \in WrIds : wr_ecc_buf[i] \in WrT
  BY DEF WrType
<1>1. ASSUME NEW i \in WrIds
      PROVE  /\ Sweep(wr_ecc_buf[i].tasks) \in Seq(Nat)
             /\ ToSet(Sweep(wr_ecc_buf[i].tasks)) \subseteq ToSet(wr_ecc_buf[i].tasks)
  <2>1. wr_ecc_buf[i].tasks \in Seq(Nat)
    BY <1>0 DEF WrT
  <2>2. Sweep(wr_ecc_buf[i].tasks) \in Seq(ToSet(wr_ecc_buf[i].tasks)) /\ ToSet(wr_ecc_buf[i].tasks) \subseteq Nat
    BY <2>1, SweepSeq, ListFinite
  <2>3. Sweep(wr_ecc_buf[i].tasks) \in Seq(Nat)
    BY <2>2
  <2> QED
    BY <2>1, <2>3, SweepSeq
<1>2. \A i \in WrIds : Swept(wr_ecc_buf)[i] = [wr_ecc_buf[i] EXCEPT !.tasks = Sweep(wr_ecc_buf[i].tasks)]
  BY <1>0 DEF Swept
<1>3. \A i \in WrIds : /\ Swept(wr_ecc_buf)[i] \in WrT
                       /\ Swept(wr_ecc_buf)[i].vld = wr_ecc_buf[i].vld
                       /\ Swept(wr_ecc_buf)[i].pdu = wr_ecc_buf[i].pdu
                       /\ Swept(wr_ecc_buf)[i].hit_cnt = wr_ecc_buf[i].hit_cnt
                       /\ Swept(wr_ecc_buf)[i].merge_cnt = wr_ecc_buf[i].merge_cnt
                       /\ Swept(wr_ecc_buf)[i].tasks = Sweep(wr_ecc_buf[i].tasks)
  BY <1>0, <1>1, <1>2 DEF WrT
<1>4. Swept(wr_ecc_buf) = [i \in WrIds |-> Swept(wr_ecc_buf)[i]]
  BY <1>0 DEF Swept
<1>5. Swept(wr_ecc_buf) \in [WrIds -> WrT]
  BY <1>3, <1>4
<1>6. \A x : x \in Unlisted(wr_ecc_buf) =>
         \E i \in WrIds : x \in ToSet(wr_ecc_buf[i].tasks) /\ x \notin ToSet(Swept(wr_ecc_buf)[i].tasks)
  BY <1>0, <1>3 DEF Unlisted
<1>7. Free(wr_ecc_buf, recycle_wr) \subseteq WrIds
  BY <1>0 DEF Free, WrType
<1> QED
  BY <1>1, <1>3, <1>5, <1>6, <1>7

(* One more task is listed.                                                *)
LEMMA RdListed ==
  ASSUME NEW buf \in [RdIds -> RdLine(Seq(Nat))], NEW k, NEW t \in Nat
  PROVE  /\ ListRd(buf, k, t) \in [RdIds -> RdLine(Seq(Nat))]
         /\ \A i \in RdIds : /\ ListRd(buf, k, t)[i].vld = buf[i].vld
                             /\ ListRd(buf, k, t)[i].pdu = buf[i].pdu
                             /\ ToSet(ListRd(buf, k, t)[i].tasks)
                                  \subseteq ToSet(buf[i].tasks) \cup (IF i = k THEN {t} ELSE {})
<1> DEFINE list == Append(buf[k].tasks, t)
<1>1. ListRd(buf, k, t) = [buf EXCEPT ![k].tasks = list]
  BY DEF ListRd
<1>2. k \in RdIds => list \in Seq(Nat) /\ ToSet(list) = ToSet(buf[k].tasks) \cup {t}
  <2>1. k \in RdIds => buf[k].tasks \in Seq(Nat)
    BY DEF RdLine
  <2> QED
    BY <2>1, AppendSet
<1> HIDE DEF list
<1>3. \A i \in RdIds : ListRd(buf, k, t)[i] = IF i = k THEN [buf[i] EXCEPT !.tasks = list] ELSE buf[i]
  BY <1>1
<1>4. \A i \in RdIds : /\ ListRd(buf, k, t)[i] \in RdLine(Seq(Nat))
                       /\ ListRd(buf, k, t)[i].vld = buf[i].vld
                       /\ ListRd(buf, k, t)[i].pdu = buf[i].pdu
                       /\ ListRd(buf, k, t)[i].tasks = IF i = k THEN list ELSE buf[i].tasks
  BY <1>2, <1>3 DEF RdLine
<1>5. ListRd(buf, k, t) \in [RdIds -> RdLine(Seq(Nat))]
  <2>1. ListRd(buf, k, t) = [i \in RdIds |-> ListRd(buf, k, t)[i]]
    BY DEF ListRd
  <2> QED
    BY <1>4, <2>1
<1> QED
  BY <1>2, <1>4, <1>5

(* The lines of a PDU become invalid, and keep their tasks.                *)
LEMMA RdInvalid ==
  ASSUME NEW buf \in [RdIds -> RdLine(Seq(Nat))], NEW p
  PROVE  /\ Invalid(buf, p) \in [RdIds -> RdLine(Seq(Nat))]
         /\ \A i \in RdIds : /\ Invalid(buf, p)[i].vld => buf[i].vld
                             /\ Invalid(buf, p)[i].pdu = buf[i].pdu
                             /\ Invalid(buf, p)[i].tasks = buf[i].tasks
<1>1. \A i \in RdIds : /\ [buf[i] EXCEPT !.vld = FALSE] \in RdLine(Seq(Nat))
                       /\ ~[buf[i] EXCEPT !.vld = FALSE].vld
                       /\ [buf[i] EXCEPT !.vld = FALSE].pdu = buf[i].pdu
                       /\ [buf[i] EXCEPT !.vld = FALSE].tasks = buf[i].tasks
  BY DEF RdLine
<1> QED
  BY <1>1 DEF Invalid
-----------------------------------------------------------------------------
(* What the commands and the searches make of a line of the write buffer.  *)
LEMMA LinesMade ==
  ASSUME NEW l \in WrT, NEW t \in Nat
  PROVE  /\ Append(l.tasks, t) \in Seq(Nat)
         /\ \A x : x \in ToSet(Append(l.tasks, t)) => x \in ToSet(l.tasks) \/ x = t
<1>1. l.tasks \in Seq(Nat)
  BY DEF WrT
<1> QED
  BY <1>1, AppendSet

(* try_add_ecc_wr, for a line whose PDU changes to that of the request.    *)
LEMMA GivenToMade ==
  ASSUME NEW l \in WrT, RdType, WrType, Me.pdu \in Nat
  PROVE  /\ GivenTo(l) \in WrT /\ GivenTo(l).vld = l.vld /\ GivenTo(l).pdu = Me.pdu
         /\ GivenTo(l).hit_cnt = l.hit_cnt
         /\ \A x : x \in ToSet(GivenTo(l).tasks) => x \in ToSet(l.tasks) \/ x = ecc_task
<1> DEFINE list == Append(l.tasks, ecc_task)
<1>1. list \in Seq(Nat) /\ \A x : x \in ToSet(list) => x \in ToSet(l.tasks) \/ x = ecc_task
  BY FreshTask, LinesMade
<1>2. GivenTo(l) = [l EXCEPT !.tasks = list, !.pdu = Me.pdu]
  BY DEF GivenTo
<1> HIDE DEF list
<1> QED
  BY <1>1, <1>2 DEF WrT

LEMMA CleanMade ==
  ASSUME NEW l \in WrT, RdType, WrType
  PROVE  /\ CleanLine(l) \in WrT /\ ~CleanLine(l).vld
         /\ CleanLine(l).hit_cnt = l.hit_cnt
         /\ \A x : x \in ToSet(CleanLine(l).tasks) => x \in ToSet(l.tasks) \/ x = ecc_task
<1> DEFINE list == Append(l.tasks, ecc_task)
<1>1. list \in Seq(Nat) /\ \A x : x \in ToSet(list) => x \in ToSet(l.tasks) \/ x = ecc_task
  BY FreshTask, LinesMade
<1>2. CleanLine(l) = [l EXCEPT !.tasks = list, !.dirty = FALSE, !.vld = FALSE]
  BY DEF CleanLine
<1> HIDE DEF list
<1> QED
  BY <1>1, <1>2 DEF WrT

LEMMA PushedMade ==
  ASSUME NEW l \in WrT, RdType, WrType, config.push \in BOOLEAN
  PROVE  /\ PushedOut(l) \in WrT /\ PushedOut(l).vld = l.vld /\ PushedOut(l).pdu = l.pdu
         /\ PushedOut(l).hit_cnt = 0
         /\ \A x : x \in ToSet(PushedOut(l).tasks) => x \in ToSet(l.tasks) \/ x = ecc_task
<1> DEFINE list == Append(l.tasks, ecc_task)
           d == l.dirty /\ ~config.push
<1>1. list \in Seq(Nat) /\ \A x : x \in ToSet(list) => x \in ToSet(l.tasks) \/ x = ecc_task
  BY FreshTask, LinesMade
<1>2. PushedOut(l) = [l EXCEPT !.tasks = list, !.hit_cnt = 0, !.dirty = d]
  BY Zenon DEF PushedOut
<1>3. d \in BOOLEAN
  OBVIOUS
<1> HIDE DEF list, d
<1>4. ASSUME NEW b \in BOOLEAN, NEW k, k = [l EXCEPT !.tasks = list, !.hit_cnt = 0, !.dirty = b]
      PROVE  k \in WrT /\ k.vld = l.vld /\ k.pdu = l.pdu /\ k.hit_cnt = 0 /\ k.tasks = list
  BY <1>1, <1>4 DEF WrT
<1> QED
  BY <1>1, <1>2, <1>3, <1>4

LEMMA WrittenMade ==
  ASSUME NEW l \in WrT, task \in Nat, Me.pdu \in Nat, Me.part \in SUBSET Sectors
  PROVE  /\ Written(l) \in WrT /\ Written(l).vld = l.vld /\ Written(l).pdu = Me.pdu
         /\ Written(l).hit_cnt <= l.hit_cnt + 1
         /\ \A x : x \in ToSet(Written(l).tasks) => x \in ToSet(l.tasks) \/ x = task
<1> DEFINE h == IF current_wr_pdu_hit THEN l.hit_cnt + 1 ELSE l.hit_cnt
           list == Append(l.tasks, task)
           p == l.pos \cup Me.part
<1>1. list \in Seq(Nat) /\ \A x : x \in ToSet(list) => x \in ToSet(l.tasks) \/ x = task
  BY LinesMade
<1>2. Written(l) = [l EXCEPT !.tasks = list, !.dirty = TRUE, !.pos = p, !.pdu = Me.pdu, !.hit_cnt = h]
  BY Zenon DEF Written
<1>3. p \in SUBSET Sectors /\ h \in Nat /\ h <= l.hit_cnt + 1
  BY DEF WrT
<1> HIDE DEF list, h, p
<1> QED
  BY <1>1, <1>2, <1>3 DEF WrT

LEMMA TakenMade ==
  ASSUME NEW l \in WrT, NEW push \in BOOLEAN
  PROVE  /\ Taken(l, push) \in WrT /\ Taken(l, push).pdu = l.pdu /\ Taken(l, push).tasks = l.tasks
         /\ Taken(l, push).hit_cnt = 0
<1> DEFINE w == (l.wr_ecc \/ l.dirty) /\ push
<1>1. Taken(l, push) = [l EXCEPT !.vld = TRUE, !.pos = {}, !.merge_cnt = 0, !.hit_cnt = 0,
                                 !.dirty = FALSE, !.wr_ecc = w]
  BY Zenon DEF Taken
<1>2. w \in BOOLEAN /\ 0 \in 0..MERGE_DEPTH
  BY EccAssumption DEF EccAssumption
<1> HIDE DEF w
<1>3. ASSUME NEW v \in BOOLEAN, NEW d \in BOOLEAN, NEW e \in BOOLEAN, NEW k,
             k = [l EXCEPT !.vld = v, !.pos = {}, !.merge_cnt = 0, !.hit_cnt = 0, !.dirty = d,
                           !.wr_ecc = e]
      PROVE  k \in WrT /\ k.pdu = l.pdu /\ k.tasks = l.tasks /\ k.hit_cnt = 0
  BY <1>2, <1>3 DEF WrT
<1> QED
  BY <1>1, <1>2, <1>3

LEMMA GivenMade ==
  ASSUME NEW l \in WrT
  PROVE  /\ Given(l) \in WrT /\ Given(l).vld = l.vld /\ Given(l).pdu = l.pdu
         /\ Given(l).tasks = l.tasks /\ Given(l).hit_cnt = l.hit_cnt
<1>1. 0 \in 0..MERGE_DEPTH
  BY EccAssumption DEF EccAssumption
<1>2. ASSUME NEW b \in BOOLEAN, NEW k, k = [l EXCEPT !.pos = {}, !.merge_cnt = 0, !.dirty = b]
      PROVE  /\ k \in WrT /\ k.vld = l.vld /\ k.pdu = l.pdu /\ k.tasks = l.tasks
             /\ k.hit_cnt = l.hit_cnt
  BY <1>1, <1>2 DEF WrT
<1> QED
  BY <1>2 DEF Given

-----------------------------------------------------------------------------
(* The counts of hits, when at most the request's own grows.               *)
LEMMA HitNext ==
  ASSUME Control, WrType, History, HitCount, NEW w,
         \/ sent' = sent /\ \A i \in WrIds : wr_ecc_buf'[i].hit_cnt \in Nat
                                             /\ wr_ecc_buf'[i].hit_cnt <= wr_ecc_buf[i].hit_cnt
         \/ /\ sent' = sent \cup {w} /\ w \notin sent
            /\ \A i \in WrIds : wr_ecc_buf'[i].hit_cnt \in Nat
                                /\ wr_ecc_buf'[i].hit_cnt <= wr_ecc_buf[i].hit_cnt + 1
  PROVE  HitCount'
<1>1. IsFiniteSet(sent) /\ Cardinality(sent) \in Nat
  BY TasksFinite
<1>2. \A i \in WrIds : wr_ecc_buf[i].hit_cnt \in Nat /\ wr_ecc_buf[i].hit_cnt <= Cardinality(sent)
  BY DEF WrType, WrT, HitCount
<1>3. w \notin sent => Cardinality(sent \cup {w}) = Cardinality(sent) + 1
  BY <1>1, FS_AddElement
<1>4. CASE sent' = sent /\ \A i \in WrIds : wr_ecc_buf'[i].hit_cnt \in Nat
                                            /\ wr_ecc_buf'[i].hit_cnt <= wr_ecc_buf[i].hit_cnt
  BY <1>1, <1>2, <1>4 DEF HitCount, WrIds
<1>5. CASE /\ sent' = sent \cup {w} /\ w \notin sent
           /\ \A i \in WrIds : wr_ecc_buf'[i].hit_cnt \in Nat
                               /\ wr_ecc_buf'[i].hit_cnt <= wr_ecc_buf[i].hit_cnt + 1
  BY <1>1, <1>2, <1>3, <1>5 DEF HitCount, WrIds
<1> QED
  BY <1>4, <1>5

(* What the machine works for is a request, not sent before it is added.   *)
LEMMA Serving ==
  ASSUME Control, Types, History, iecc_owner_task # None
  PROVE  /\ task \in Tasks /\ task \in Nat /\ task <= NTasks /\ Me \in Request
         /\ Me.pdu \in Nat /\ Me.pdu \in Pdus /\ Me.part \in SUBSET Sectors /\ Me.mask \in BOOLEAN
         /\ Me.type \in {"READ", "WRITE"}
         /\ ecc_model_state # "WAIT_ECC_DATA_FINISH" => task \notin sent
         /\ config.push \in BOOLEAN
<1>1. task \in Tasks /\ task \in waiting
  BY DEF Control, Asked, task
<1>2. task \in 1..NTasks
  BY <1>1, TasksFinite
<1>3. Me \in Request
  BY <1>1, TasksType DEF Control, Me
<1>4. task \in Nat /\ task <= NTasks
  BY <1>2, Constants
<1>7. /\ Me.pdu \in Nat /\ Me.pdu \in Pdus
      /\ Me.part \in SUBSET Sectors /\ Me.mask \in BOOLEAN /\ Me.type \in {"READ", "WRITE"}
  <2> DEFINE r == Me
  <2>1. r \in Request
    BY <1>3
  <2> HIDE DEF r
  <2>2. /\ r.pdu \in Pdus /\ r.part \in SUBSET Sectors /\ r.mask \in BOOLEAN
        /\ r.type \in {"READ", "WRITE"}
    BY <2>1 DEF Request
  <2> QED
    BY <2>2, Constants DEF r
<1>5. ecc_model_state # "WAIT_ECC_DATA_FINISH" => task \notin sent
  BY <1>1 DEF Control, SentOnce
<1>6. config.push \in BOOLEAN
  BY DEF Control, Asked, Config
<1> QED
  BY <1>1, <1>3, <1>4, <1>5, <1>6, <1>7

(* The lines of the PDUs, when no line comes to a PDU.                     *)
RdLess == \A i \in RdIds : rd_ecc_buf'[i].vld => rd_ecc_buf[i].vld /\ rd_ecc_buf'[i].pdu = rd_ecc_buf[i].pdu
WrLess == \A i \in WrIds : wr_ecc_buf'[i].vld => wr_ecc_buf[i].vld /\ wr_ecc_buf'[i].pdu = wr_ecc_buf[i].pdu

LEMMA OneLess ==
  ASSUME OnePdu, RdLess, WrLess,
         UNCHANGED <<req, iecc_owner_task, avail_rd, avail_wr, ecc_model_state, ecc_pre_state>>
  PROVE  OnePdu'
<1> USE DEF OnePdu, RdLess, WrLess, Filling, Waits, IsRead, Me, task
<1>1. Serves'
  BY DEF Serves
<1>2. RdOne'
  BY DEF RdOne
<1>3. RdNext'
  BY DEF RdNext, RdOther
<1>4. WrOne'
  BY DEF WrOne
<1>5. WrNext'
  BY DEF WrNext, WrOther
<1> QED
  BY <1>1, <1>2, <1>3, <1>4, <1>5

(* When the machine is back at its start.                                  *)
LEMMA OneBack ==
  ASSUME OnePdu, RdLess, WrLess, ~Filling, ecc_model_state' = "TRY_HIT_ECC_BUF"
  PROVE  OnePdu'
<1> USE DEF OnePdu, RdLess, WrLess
<1>1. Serves' /\ RdNext' /\ WrNext'
  BY DEF Serves, RdNext, WrNext, Filling, Waits
<1>2. RdOne'
  BY DEF RdOne
<1>3. WrOne'
  BY DEF WrOne
<1> QED
  BY <1>1, <1>2, <1>3
-----------------------------------------------------------------------------
(* What a step does to the lists of a buffer.                              *)
RdGrows(k, t) == \A i \in RdIds : \A x : x \in ToSet(rd_ecc_buf'[i].tasks) =>
                    x \in ToSet(rd_ecc_buf[i].tasks) \/ (i = k /\ x = t)
WrGrows(k, t) == \A i \in WrIds : \A x : x \in ToSet(wr_ecc_buf'[i].tasks) =>
                    x \in ToSet(wr_ecc_buf[i].tasks) \/ (i = k /\ x = t)
RdKeeps == \A i \in RdIds : ToSet(rd_ecc_buf'[i].tasks) \subseteq ToSet(rd_ecc_buf[i].tasks)
WrKeeps == \A i \in WrIds : ToSet(wr_ecc_buf'[i].tasks) \subseteq ToSet(wr_ecc_buf[i].tasks)
NewTask(t) == (\A l \in Slots : ~On(t, l)) /\ t \in queue' /\ (t <= NTasks => t \in sent')

LEMMA ListsFromLines ==
  /\ RdKeeps /\ WrKeeps => ListsShrink
  /\ \A k, t : RdGrows(k, t) /\ WrKeeps /\ NewTask(t) => ListsGrow(t, <<"r", k>>)
  /\ \A k, t : RdKeeps /\ WrGrows(k, t) /\ NewTask(t) => ListsGrow(t, <<"w", k>>)
<1>1. RdKeeps /\ WrKeeps => ListsShrink
  BY OnNext DEF RdKeeps, WrKeeps, ListsShrink
<1>2. ASSUME NEW k, NEW t, RdGrows(k, t), WrKeeps, NewTask(t) PROVE ListsGrow(t, <<"r", k>>)
  <2>1. \A l \in Slots, x \in Nat : On(x, l)' => On(x, l) \/ (l = <<"r", k>> /\ x = t)
    BY <1>2, OnNext DEF RdGrows, WrKeeps
  <2> QED
    BY <1>2, <2>1 DEF ListsGrow, NewTask
<1>3. ASSUME NEW k, NEW t, RdKeeps, WrGrows(k, t), NewTask(t) PROVE ListsGrow(t, <<"w", k>>)
  <2>1. \A l \in Slots, x \in Nat : On(x, l)' => On(x, l) \/ (l = <<"w", k>> /\ x = t)
    BY <1>3, OnNext DEF WrGrows, RdKeeps
  <2> QED
    BY <1>3, <2>1 DEF ListsGrow, NewTask
<1> QED
  BY <1>1, <1>2, <1>3

(* Listing, from the three ways a step changes the lists.                  *)
LEMMA ListingNext ==
  ASSUME Listing, EndsSeen,
         \/ RdKeeps /\ WrKeeps
         \/ \E k, t : NewTask(t) /\ ((RdGrows(k, t) /\ WrKeeps) \/ (RdKeeps /\ WrGrows(k, t)))
  PROVE  Listing'
<1>1. CASE RdKeeps /\ WrKeeps
  BY <1>1, ListsFromLines, ListsNext
<1>2. ASSUME NEW k, NEW t, NewTask(t), RdGrows(k, t), WrKeeps PROVE Listing'
  <2>1. ListsGrow(t, <<"r", k>>)
    BY <1>2, ListsFromLines
  <2> QED
    BY <2>1, ListsNext
<1>3. ASSUME NEW k, NEW t, NewTask(t), RdKeeps, WrGrows(k, t) PROVE Listing'
  <2>1. ListsGrow(t, <<"w", k>>)
    BY <1>3, ListsFromLines
  <2> QED
    BY <2>1, ListsNext
<1> QED
  BY <1>1, <1>2, <1>3

(* The end of a task that a sweep drops is seen by its only list.          *)
RdSeen == \A x \in Unlisted(rd_ecc_buf) : \E l \in Slots : On(x, l) /\ ~On(x, l)'
WrSeen == \A x \in Unlisted(wr_ecc_buf) : \E l \in Slots : On(x, l) /\ ~On(x, l)'
LEMMA RdSeenBy ==
  ASSUME RdType, History, NEW t, \A l \in Slots : ~On(t, l),
         \A i \in RdIds : \A x : x \in ToSet(rd_ecc_buf'[i].tasks) =>
            x \in ToSet(Swept(rd_ecc_buf)[i].tasks) \/ x = t
  PROVE  RdSeen
<1> SUFFICES ASSUME NEW x \in Unlisted(rd_ecc_buf) PROVE \E l \in Slots : On(x, l) /\ ~On(x, l)'
  BY DEF RdSeen
<1>1. PICK i \in RdIds : x \in ToSet(rd_ecc_buf[i].tasks) /\ x \notin ToSet(Swept(rd_ecc_buf)[i].tasks)
  BY RdSwept
<1>2. <<"r", i>> \in Slots /\ On(x, <<"r", i>>)
  BY <1>1, ListedOn, OnNext
<1>3. ~On(x, <<"r", i>>)'
  BY <1>1, <1>2, OnNext
<1> QED
  BY <1>2, <1>3

LEMMA WrSeenBy ==
  ASSUME WrType, History,
         \A i \in WrIds : ToSet(wr_ecc_buf'[i].tasks) \subseteq ToSet(Swept(wr_ecc_buf)[i].tasks)
  PROVE  WrSeen
<1> SUFFICES ASSUME NEW x \in Unlisted(wr_ecc_buf) PROVE \E l \in Slots : On(x, l) /\ ~On(x, l)'
  BY DEF WrSeen
<1>1. PICK i \in WrIds : x \in ToSet(wr_ecc_buf[i].tasks) /\ x \notin ToSet(Swept(wr_ecc_buf)[i].tasks)
  BY WrSwept
<1>2. <<"w", i>> \in Slots /\ On(x, <<"w", i>>)
  BY <1>1, ListedOn, OnNext
<1>3. ~On(x, <<"w", i>>)'
  BY <1>1, <1>2, OnNext
<1> QED
  BY <1>2, <1>3

-----------------------------------------------------------------------------
SoundNext == Typed' /\ Listing' /\ HitCount' /\ OnePdu'

(* Neither line nor list changes.                                          *)
LEMMA SoundSame ==
  ASSUME SoundInv, UNCHANGED <<rdVars, wrVars, owed, holds, sent, queue, finished, req>>,
         Types', OnePdu'
  PROVE  SoundNext
<1>1. RdType' /\ WrType' /\ History'
  BY DEF SoundInv, Typed, RdType, WrType, History, rdVars, wrVars, Tasks
<1>2. Listing' /\ HitCount'
  BY DEF SoundInv, Listing, ListOnce, ListSeen, On, List, Slots, HitCount, rdVars, wrVars
<1> QED
  BY <1>1, <1>2 DEF SoundNext, Typed

(* hit_ecc_buf and update: the lines with their sweeps; nothing is sent.   *)
LEMMA SoundSwept ==
  ASSUME SoundInv, Types', OnePdu', UNCHANGED <<owed, holds, sent, queue, req>>,
         rd_ecc_buf' = Swept(rd_ecc_buf), recycle_rd' = Free(rd_ecc_buf, recycle_rd),
         wr_ecc_buf' = Swept(wr_ecc_buf), recycle_wr' = Free(wr_ecc_buf, recycle_wr),
         finished' = finished \ (Unlisted(rd_ecc_buf) \cup Unlisted(wr_ecc_buf)),
         UNCHANGED <<rd_pri, wr_pri>>
  PROVE  SoundNext
<1> USE DEF SoundInv, Typed
<1>1. RdType' /\ WrType' /\ History'
  BY RdSwept, WrSwept DEF RdType, WrType, History, Tasks
<1>2. RdKeeps /\ WrKeeps
  BY RdSwept, WrSwept DEF RdKeeps, WrKeeps
<1>3. RdSeen
  BY FreshTask, RdSeenBy
<1>4. WrSeen
  BY WrSeenBy
<1>5. EndsSeen
  BY <1>3, <1>4 DEF EndsSeen, RdSeen, WrSeen
<1>6. Listing'
  BY <1>2, <1>5, ListingNext
<1>7. HitCount'
  <2>1. \A i \in WrIds : wr_ecc_buf'[i].hit_cnt \in Nat /\ wr_ecc_buf'[i].hit_cnt <= wr_ecc_buf[i].hit_cnt
    BY WrSwept DEF WrType, WrT
  <2> QED
    BY <2>1, HitNext
<1> QED
  BY <1>1, <1>6, <1>7 DEF SoundNext

(* addTransaction begins a call.                                           *)
LEMMA SoundOffer == ASSUME SoundInv, NEW t \in Tasks, Offer(t) PROVE SoundNext
<1> USE DEF SoundInv, Typed
<1>1. Types'
  BY DEF Offer, Types, stateVars, availVars, histVars
<1>2. RdLess /\ WrLess
  BY RdSwept, WrSwept DEF Offer, RdLess, WrLess
<1>3. OnePdu'
  <2>1. CASE ecc_model_state = "TRY_HIT_ECC_BUF"
    BY <1>2, <2>1, OneBack DEF Offer, Filling, Waits, stateVars
  <2>2. CASE ecc_model_state # "TRY_HIT_ECC_BUF"
    <3>1. iecc_owner_task' = iecc_owner_task
      BY <2>2 DEF Offer, Control, Working
    <3> QED
      BY <1>2, <3>1, OneLess DEF Offer, stateVars, availVars
  <2> QED
    BY <2>1, <2>2
<1> QED
  BY <1>1, <1>3, SoundSwept DEF Offer, histVars

(* A command ends in the controller.                                       *)
LEMMA SoundFinish == ASSUME SoundInv, NEW t \in queue, Finish(t) PROVE SoundNext
<1> USE DEF SoundInv, Typed
<1>1. Types'
  BY DEF Finish, Types, hostVars, stateVars, availVars, histVars
<1>2. RdLess /\ WrLess
  BY DEF Finish, RdLess, WrLess, rdVars, wrVars
<1>3. OnePdu'
  BY <1>2, OneLess DEF Finish, hostVars, stateVars, availVars
<1>4. RdType' /\ WrType' /\ History'
  BY DEF Finish, RdType, WrType, History, rdVars, wrVars, Tasks, histVars, hostVars
<1>5. RdKeeps /\ WrKeeps
  BY DEF Finish, RdKeeps, WrKeeps, rdVars, wrVars
<1>6. EndsSeen
  BY DEF Finish, EndsSeen, histVars
<1>7. Listing'
  BY <1>5, <1>6, ListingNext
<1>8. HitCount'
  BY DEF Finish, HitCount, wrVars, histVars
<1> QED
  BY <1>1, <1>3, <1>4, <1>7, <1>8 DEF SoundNext

(* A command is refused, or the wait goes on.                              *)
LEMMA SoundRefuse == ASSUME SoundInv, Refuse PROVE SoundNext
<1> USE DEF SoundInv, Typed
<1>1. Types'
  BY DEF Refuse, Types, Return, hostVars, stateVars, availVars, histVars
<1>2. RdLess /\ WrLess
  BY DEF Refuse, RdLess, WrLess, rdVars, wrVars
<1>3. OnePdu'
  BY <1>2, OneLess DEF Refuse, hostVars, stateVars, availVars
<1> QED
  BY <1>1, <1>3, SoundSame DEF Refuse, histVars, hostVars, dmcVars

LEMMA SoundWait == ASSUME SoundInv, WaitData PROVE SoundNext
<1> USE DEF SoundInv, Typed
<1>0. ecc_model_state = "WAIT_ECC_DATA_FINISH" /\ iecc_owner_task # None
  BY DEF WaitData, In, Control, Working
<1>1. Types'
  <2>1. ecc_delay' \in 0..(IECC_CONFLICT_CNT + 1)
    BY EccAssumption DEF EccAssumption, WaitData, Types
  <2>2. ecc_model_state' \in States
    BY DEF WaitData, WaitOver, Goto, States, Types
  <2> QED
    BY <2>1, <2>2 DEF WaitData, Types, Return, availVars, histVars
<1>2. RdLess /\ WrLess
  BY DEF WaitData, RdLess, WrLess, rdVars, wrVars
<1>3. OnePdu'
  <2>1. CASE UNCHANGED <<ecc_model_state, iecc_owner_task>>
    BY <1>2, <2>1, OneLess DEF WaitData, availVars
  <2>2. CASE ecc_pre_state = "ADD_WR_ECC_TRANS" /\ ecc_model_state' = "ECC_ADD_TRANS"
             /\ UNCHANGED <<ecc_pre_state, iecc_owner_task, req, avail_rd, avail_wr, rd_ecc_buf, wr_ecc_buf>>
    <3> USE <1>0, <2>2 DEF OnePdu, Waits, IsRead, Me, task
    <3>1. ~IsRead /\ Filling /\ Filling'
      BY DEF Serves, Filling
    <3>2. Serves'
      BY DEF Serves
    <3>3. RdOne' /\ RdNext'
      BY DEF RdOne, RdNext
    <3>4. WrOne' /\ WrNext'
      BY <3>1 DEF WrOne, WrNext, WrOther
    <3> QED
      BY <3>2, <3>3, <3>4
  <2>3. CASE ecc_pre_state # "ADD_WR_ECC_TRANS" /\ ecc_model_state' = "TRY_HIT_ECC_BUF"
    BY <1>0, <1>2, <2>3, OneBack DEF Filling, Waits
  <2> QED
    BY <2>1, <2>2, <2>3 DEF WaitData, WaitOver, Goto, Refused, rdVars, wrVars, availVars
<1> QED
  BY <1>1, <1>3, SoundSame DEF WaitData, histVars, dmcVars
-----------------------------------------------------------------------------
(* The types that the earlier invariants ask for.                          *)
LEMMA OtherTypes == ASSUME Typed PROVE ReadT /\ LineT
<1> USE DEF Typed
<1>1. ReadT
  BY DEF ReadT, RdType, History
<1>2. \A x : x \in WrT => x \in Line(Seq(Nat))
  <2>1. \A x : x \in 0..MERGE_DEPTH => x \in Nat
    BY EccAssumption DEF EccAssumption
  <2> QED
    BY <2>1 DEF WrT, Line
<1>3. wr_ecc_buf \in [WrIds -> Line(Seq(Nat))]
  BY <1>2 DEF WrType
<1> QED
  BY <1>1, <1>3 DEF LineT, WrType

(* TRY_HIT_ECC_BUF.                                                        *)
LEMMA SoundTryHit == ASSUME SoundInv, TryHit PROVE SoundNext
<1> USE DEF SoundInv, Typed
<1> DEFINE r == LastHit(rd_ecc_buf)
           w == LastHit(wr_ecc_buf)
           dirty == w # None /\ wr_ecc_buf[w].dirty
           s == NextState(r, dirty, w)
<1>0. /\ in_call /\ ecc_model_state = "TRY_HIT_ECC_BUF" /\ ecc_model_state' = s
      /\ avail_rd' = r /\ avail_wr' = w
      /\ rd_pri' = UsedHit(rd_pri, r) /\ wr_pri' = UsedHit(wr_pri, w)
      /\ wr_ecc_buf' = [i \in WrIds |-> IF i = w THEN [wr_ecc_buf[i] EXCEPT !.merge_cnt = 0]
                                         ELSE wr_ecc_buf[i]]
      /\ current_wr_pdu_hit' = (IF IsRead THEN current_wr_pdu_hit ELSE w # None)
      /\ miss_dirty' = (miss_dirty \/ s = "ECC_RD_MISS_DIRTY")
      /\ UNCHANGED <<config, req, pdu_push_pending, finished, waiting, iecc_owner_task, in_call, ecc_pre_state, iecc_add_cnt,
                   ecc_delay, rd_ecc_buf, recycle_rd, recycle_wr, ecc_merge_flag, queue,
                   sent, owed, holds, stale>>
  BY DEF TryHit, In, Goto, callVars
<1>1. /\ r # None => r \in RdIds /\ rd_ecc_buf[r].vld /\ rd_ecc_buf[r].pdu = Me.pdu
      /\ r = None => \A i \in RdIds : RdOther(i)
  <2>1. DOMAIN rd_ecc_buf = 1..PDU_RD_DEPTH
    BY DEF RdType, RdIds
  <2>2. r # None => r \in Hits(rd_ecc_buf)
    BY <2>1, HitIn, Constants
  <2>3. Hits(rd_ecc_buf) # {} => r # None
    <3>1. Hits(rd_ecc_buf) \in SUBSET (1..PDU_RD_DEPTH)
      BY <2>1 DEF Hits
    <3>2. \A j \in Hits(rd_ecc_buf) : [i \in Hits(rd_ecc_buf) |-> 0][j] \in 0..0
      OBVIOUS
    <3>3. Hits(rd_ecc_buf) # {} => Oldest(Hits(rd_ecc_buf), [i \in Hits(rd_ecc_buf) |-> 0]) \in Hits(rd_ecc_buf)
      <4> DEFINE H == Hits(rd_ecc_buf)
                 z == [i \in H |-> 0]
      <4>1. H \in SUBSET (1..PDU_RD_DEPTH) /\ (\A j \in H : z[j] \in 0..0) /\ 0 \in Nat
        BY <3>1, <3>2
      <4> HIDE DEF H, z
      <4>2. H # {} => Oldest(H, z) \in H
        BY <4>1, OldestIn, Constants
      <4> QED
        BY <4>2 DEF H, z
    <3> QED
      BY <3>1, <3>3, Constants DEF LastHit
  <2> QED
    BY <2>1, <2>2, <2>3 DEF Hits, RdOther, RdIds
<1>2. /\ w # None => w \in WrIds /\ wr_ecc_buf[w].vld /\ wr_ecc_buf[w].pdu = Me.pdu
      /\ w = None => \A i \in WrIds : WrOther(i)
  <2>1. DOMAIN wr_ecc_buf = 1..PDU_WR_DEPTH
    BY DEF WrType, WrIds
  <2>2. w # None => w \in Hits(wr_ecc_buf)
    BY <2>1, HitIn, Constants
  <2>3. Hits(wr_ecc_buf) # {} => w # None
    <3>1. Hits(wr_ecc_buf) \in SUBSET (1..PDU_WR_DEPTH)
      BY <2>1 DEF Hits
    <3>3. Hits(wr_ecc_buf) # {} => Oldest(Hits(wr_ecc_buf), [i \in Hits(wr_ecc_buf) |-> 0]) \in Hits(wr_ecc_buf)
      <4> DEFINE H == Hits(wr_ecc_buf)
                 z == [i \in H |-> 0]
      <4>1. H \in SUBSET (1..PDU_WR_DEPTH) /\ (\A j \in H : z[j] \in 0..0) /\ 0 \in Nat
        BY <3>1
      <4> HIDE DEF H, z
      <4>2. H # {} => Oldest(H, z) \in H
        BY <4>1, OldestIn, Constants
      <4> QED
        BY <4>2 DEF H, z
    <3> QED
      BY <3>1, <3>3, Constants DEF LastHit
  <2> QED
    BY <2>1, <2>2, <2>3 DEF Hits, WrOther, WrIds
<1>3. /\ s \in States
      /\ s \in {"ECC_RD_HIT_DIRTY", "ECC_RD_MISS_DIRTY"} => IsRead
      /\ s \notin {"ADD_WR_ECC_TRANS", "ADD_RD_ECC_TRANS", "WAIT_ECC_DATA_FINISH"}
      /\ s \in {"GET_ECC_BUF", "ECC_RD_MISS_DIRTY"} /\ IsRead => r = None
      /\ s = "ECC_RD_HIT_DIRTY" => r # None
      /\ s = "GET_ECC_BUF" /\ ~IsRead => w = None
      /\ s = "ECC_ADD_TRANS" /\ ~IsRead => w # None
  BY DEF NextState, States
<1>4. (w = None => w \notin WrIds) /\ (r = None => r \notin RdIds)
  BY Constants DEF WrIds, RdIds
<1>5. \A i \in WrIds : /\ wr_ecc_buf'[i] \in WrT
                       /\ wr_ecc_buf'[i].vld = wr_ecc_buf[i].vld
                       /\ wr_ecc_buf'[i].pdu = wr_ecc_buf[i].pdu
                       /\ wr_ecc_buf'[i].tasks = wr_ecc_buf[i].tasks
                       /\ wr_ecc_buf'[i].hit_cnt = wr_ecc_buf[i].hit_cnt
                       /\ wr_ecc_buf'[i].hit_cnt \in Nat
  <2>1. ASSUME NEW l \in WrT
        PROVE  LET k == [l EXCEPT !.merge_cnt = 0]
               IN  /\ k \in WrT /\ k.vld = l.vld /\ k.pdu = l.pdu /\ k.tasks = l.tasks
                   /\ k.hit_cnt = l.hit_cnt /\ k.hit_cnt \in Nat /\ l.hit_cnt \in Nat
    <3>1. 0 \in 0..MERGE_DEPTH
      BY EccAssumption DEF EccAssumption
    <3> QED
      BY <3>1 DEF WrT
  <2>2. \A i \in WrIds : wr_ecc_buf[i] \in WrT
    BY DEF WrType
  <2> HIDE DEF w
  <2> QED
    BY <1>0, <2>1, <2>2
<1>6. rd_pri' \in [RdIds -> 1..PDU_RD_DEPTH] /\ wr_pri' \in [WrIds -> 1..PDU_WR_DEPTH]
  BY <1>0, <1>1, <1>2, OtherTypes, UsedReadType, UsedType DEF UsedHit, RdType, WrType
<1>7. avail_rd' \in RdIds \cup {None} /\ avail_wr' \in WrIds \cup {None}
  BY <1>0, <1>1, <1>2
<1>8. current_wr_pdu_hit' \in BOOLEAN /\ miss_dirty' \in BOOLEAN
  <2>1. current_wr_pdu_hit \in BOOLEAN /\ miss_dirty \in BOOLEAN
    BY DEF Types
  <2> HIDE DEF w, s
  <2> QED
    BY <1>0, <2>1
<1> HIDE DEF r, w, s, dirty
<1>9. Types'
  BY <1>0, <1>3, <1>7, <1>8 DEF Types
<1>10. RdType' /\ History'
  BY <1>0, <1>6 DEF RdType, History, Tasks
<1>11. WrType'
  <2>1. wr_ecc_buf' \in [WrIds -> WrT]
    BY <1>0, <1>5
  <2> QED
    BY <1>0, <1>6, <2>1 DEF WrType
<1>12. Listing'
  <2>1. RdKeeps /\ WrKeeps
    BY <1>0, <1>5 DEF RdKeeps, WrKeeps
  <2>2. EndsSeen
    BY <1>0 DEF EndsSeen
  <2> QED
    BY <2>1, <2>2, ListingNext
<1>13. HitCount'
  BY <1>0, <1>5 DEF HitCount
<1>14. OnePdu'
  <2> USE DEF OnePdu, Waits, IsRead, Me, task
  <2>1. ~Filling /\ (Filling' => w # None /\ avail_wr' = w)
    BY <1>0, <1>3 DEF Filling
  <2>2. Serves'
    BY <1>0, <1>3 DEF Serves
  <2>3. RdOne' /\ RdNext'
    BY <1>0, <1>1, <1>3 DEF RdOne, RdNext, RdOther
  <2>4. WrOne'
    BY <1>0, <1>5, <2>1 DEF WrOne
  <2>5. WrNext'
    BY <1>0, <1>2, <1>3, <1>5, <2>1 DEF WrNext, WrOther, WrOne
  <2> QED
    BY <2>2, <2>3, <2>4, <2>5
<1> QED
  BY <1>9, <1>10, <1>11, <1>12, <1>13, <1>14 DEF SoundNext

(* GET_ECC_BUF without a line.                                             *)
LEMMA SoundNoLine == ASSUME SoundInv, NoLine PROVE SoundNext
<1> USE DEF SoundInv, Typed
<1>0. ecc_model_state = "GET_ECC_BUF"
  BY DEF NoLine, In
<1>1. Types'
  BY DEF NoLine, Types, Return, getVars, histVars
<1>2. RdLess /\ WrLess
  BY RdSwept, WrSwept DEF NoLine, RdLess, WrLess
<1>3. OnePdu'
  <2>1. UNCHANGED <<req, iecc_owner_task, ecc_model_state, ecc_pre_state>>
    BY DEF NoLine, getVars
  <2> USE <1>0, <1>2, <2>1 DEF OnePdu, Waits, IsRead, Me, task, RdLess, WrLess
  <2>2. ~Filling /\ ~Filling'
    BY DEF Filling
  <2>3. Serves' /\ RdOne' /\ RdNext'
    BY DEF Serves, RdOne, RdNext, RdOther
  <2>4. WrOne' /\ WrNext'
    BY <2>2 DEF WrOne, WrNext, WrOther
  <2> QED
    BY <2>3, <2>4
<1> QED
  BY <1>1, <1>3, SoundSwept DEF NoLine, SweepBoth, getVars, histVars

(* at() throws.                                                            *)
LEMMA SoundOut == ASSUME SoundInv, OutOfRange PROVE SoundNext
<1> USE DEF SoundInv, Typed
<1>0. ecc_model_state = "GET_ECC_BUF" /\ ecc_model_state' = "out_of_range"
      /\ UNCHANGED <<req, iecc_owner_task, ecc_pre_state, rd_ecc_buf, wr_ecc_buf, avail_rd, avail_wr>>
  BY DEF OutOfRange, In, Goto, hostVars, rdVars, wrVars, availVars
<1>1. Types'
  BY <1>0 DEF OutOfRange, Types, States, hostVars, availVars, histVars
<1>2. OnePdu'
  <2>1. ~Filling /\ ~Filling'
    BY <1>0 DEF Filling, Waits
  <2> QED
    BY <1>0, <2>1 DEF OnePdu, Waits, Serves, RdOne, RdNext, WrOne, WrNext
<1> QED
  BY <1>1, <1>2, SoundSame DEF OutOfRange, hostVars, histVars, dmcVars
-----------------------------------------------------------------------------
(* The read buffer after a command was listed.                             *)
LEMMA ReadsGrow ==
  ASSUME NEW buf \in [RdIds -> RdLine(Seq(Nat))], NEW k, NEW t \in Nat,
         \A i \in RdIds : /\ buf[i].vld = rd_ecc_buf[i].vld /\ buf[i].pdu = rd_ecc_buf[i].pdu
                          /\ ToSet(buf[i].tasks) \subseteq ToSet(rd_ecc_buf[i].tasks),
         rd_ecc_buf' = ListRd(buf, k, t)
  PROVE  /\ rd_ecc_buf' \in [RdIds -> RdLine(Seq(Nat))] /\ RdLess /\ RdGrows(k, t)
         /\ \A i \in RdIds : ToSet(rd_ecc_buf'[i].tasks) \subseteq ToSet(buf[i].tasks) \cup {t}
<1>1. rd_ecc_buf' \in [RdIds -> RdLine(Seq(Nat))]
  BY RdListed
<1>2. RdLess
  <2>1. \A i \in RdIds : rd_ecc_buf'[i].vld = buf[i].vld
    BY RdListed
  <2>2. \A i \in RdIds : rd_ecc_buf'[i].pdu = buf[i].pdu
    BY RdListed
  <2> QED
    BY <2>1, <2>2 DEF RdLess
<1>3. \A i \in RdIds : ToSet(rd_ecc_buf'[i].tasks)
                         \subseteq ToSet(buf[i].tasks) \cup (IF i = k THEN {t} ELSE {})
  BY RdListed
<1>4. RdGrows(k, t)
  BY <1>3 DEF RdGrows
<1>5. \A i \in RdIds : ToSet(rd_ecc_buf'[i].tasks) \subseteq ToSet(buf[i].tasks) \cup {t}
  BY <1>3
<1> QED
  BY <1>1, <1>2, <1>4, <1>5

(* GET_ECC_BUF takes a line of the read buffer.                            *)
LEMMA SoundGetRead == ASSUME SoundInv, GetRead PROVE SoundNext
<1> USE DEF SoundInv, Typed
<1> DEFINE S == Free(rd_ecc_buf, recycle_rd)
           i == Oldest(S, rd_pri)
           buf == Swept(rd_ecc_buf)
           p == Me.pdu
<1>0. /\ in_call /\ ecc_model_state = "GET_ECC_BUF" /\ IsRead /\ S # {}
      /\ ecc_model_state' = "ADD_RD_ECC_TRANS" /\ avail_rd' = i /\ rd_pri' = Used(rd_pri, i)
      /\ rd_ecc_buf' = [buf EXCEPT ![i].vld = TRUE, ![i].pdu = p]
      /\ recycle_rd' = S \ {i}
      /\ wr_ecc_buf' = Swept(wr_ecc_buf) /\ recycle_wr' = Free(wr_ecc_buf, recycle_wr)
      /\ finished' = finished \ (Unlisted(rd_ecc_buf) \cup Unlisted(wr_ecc_buf))
      /\ UNCHANGED <<config, req, waiting, iecc_owner_task, pdu_push_pending, queue, sent, owed, holds,
                     stale, miss_dirty, ecc_pre_state, iecc_add_cnt, ecc_delay, current_wr_pdu_hit,
                     in_call, avail_wr, wr_pri, ecc_merge_flag>>
  BY DEF GetRead, In, Goto, SweepBoth, getVars, histVars
<1>1. i \in RdIds /\ S \subseteq RdIds
  BY <1>0, OtherTypes, ReadLineIn
<1>2. p \in Nat /\ p \in Pdus
  BY <1>0, Serving DEF Control, Working
<1>3. /\ buf \in [RdIds -> RdLine(Seq(Nat))]
      /\ \A j \in RdIds : /\ buf[j].vld = rd_ecc_buf[j].vld /\ buf[j].pdu = rd_ecc_buf[j].pdu
                          /\ ToSet(buf[j].tasks) \subseteq ToSet(rd_ecc_buf[j].tasks)
  BY RdSwept
<1>4. Used(rd_pri, i) \in [RdIds -> 1..PDU_RD_DEPTH]
  BY <1>1, OtherTypes, UsedReadType
<1> HIDE DEF S, i, buf, p
<1>5. /\ rd_ecc_buf' \in [RdIds -> RdLine(Seq(Nat))]
      /\ \A j \in RdIds : /\ rd_ecc_buf'[j].tasks = buf[j].tasks
                          /\ j # i => rd_ecc_buf'[j].vld = rd_ecc_buf[j].vld
                                      /\ rd_ecc_buf'[j].pdu = rd_ecc_buf[j].pdu
      /\ rd_ecc_buf'[i].pdu = p
  <2>1. ASSUME NEW l \in RdLine(Seq(Nat)), NEW b \in BOOLEAN, NEW k, k = [l EXCEPT !.vld = b, !.pdu = p]
        PROVE  k \in RdLine(Seq(Nat)) /\ k.tasks = l.tasks /\ k.pdu = p
    BY <1>2, <2>1 DEF RdLine
  <2>2. rd_ecc_buf' = [buf EXCEPT ![i] = [buf[i] EXCEPT !.vld = TRUE, !.pdu = p]]
    BY <1>0, <1>1, <1>3
  <2>3. buf[i] \in RdLine(Seq(Nat))
    BY <1>1, <1>3
  <2> DEFINE k == [buf[i] EXCEPT !.vld = TRUE, !.pdu = p]
  <2>4. k \in RdLine(Seq(Nat)) /\ k.tasks = buf[i].tasks /\ k.pdu = p
    BY <2>1, <2>3
  <2> HIDE DEF k
  <2>5. rd_ecc_buf' = [buf EXCEPT ![i] = k]
    BY <2>2 DEF k
  <2> QED
    BY <1>1, <1>3, <2>4, <2>5
<1>6. Types'
  BY <1>0, <1>1 DEF Types, States
<1>7. RdType' /\ WrType' /\ History'
  BY <1>0, <1>1, <1>4, <1>5, WrSwept DEF RdType, WrType, History, Tasks
<1>8. Listing'
  <2>1. RdKeeps /\ WrKeeps
    BY <1>0, <1>3, <1>5, WrSwept DEF RdKeeps, WrKeeps
  <2>2. RdSeen
    <3>1. \A j \in RdIds : \A x : x \in ToSet(rd_ecc_buf'[j].tasks) =>
            x \in ToSet(Swept(rd_ecc_buf)[j].tasks) \/ x = ecc_task
      BY <1>5 DEF buf
    <3> QED
      BY <3>1, FreshTask, RdSeenBy
  <2>3. WrSeen
    BY <1>0, WrSeenBy
  <2>4. EndsSeen
    BY <1>0, <2>2, <2>3 DEF EndsSeen, RdSeen, WrSeen
  <2> QED
    BY <2>1, <2>4, ListingNext
<1>9. HitCount'
  <2>1. \A j \in WrIds : wr_ecc_buf'[j].hit_cnt \in Nat /\ wr_ecc_buf'[j].hit_cnt <= wr_ecc_buf[j].hit_cnt
    BY <1>0, WrSwept DEF WrType, WrT
  <2> QED
    BY <1>0, <2>1, HitNext
<1>10. OnePdu'
  <2> USE DEF OnePdu, Waits, IsRead, Me, task
  <2>1. ~Filling /\ ~Filling'
    BY <1>0 DEF Filling
  <2>2. Serves'
    BY <1>0 DEF Serves
  <2>3. \A j \in RdIds : rd_ecc_buf[j].vld => rd_ecc_buf[j].pdu # p
    BY <1>0 DEF RdNext, RdOther, p
  <2>4. RdOne'
    BY <1>5, <2>3 DEF RdOne
  <2>5. RdNext' /\ WrNext'
    BY <1>0, <2>1 DEF RdNext, WrNext
  <2>6. WrOne'
    <3>1. WrLess
      BY <1>0, WrSwept DEF WrLess
    <3> QED
      BY <2>1, <3>1 DEF WrOne, WrLess
  <2> QED
    BY <2>2, <2>4, <2>5, <2>6
<1> QED
  BY <1>6, <1>7, <1>8, <1>9, <1>10 DEF SoundNext

(* The read goes to the controller.                                        *)
LEMMA SoundAddRead == ASSUME SoundInv, AddRead PROVE SoundNext
<1> USE DEF SoundInv, Typed
<1>0. /\ in_call /\ ecc_model_state = "ECC_ADD_TRANS" /\ IsRead
      /\ ecc_model_state' = "TRY_HIT_ECC_BUF" /\ in_call' = FALSE
      /\ queue' = queue \cup {task} /\ sent' = sent \cup {task}
      /\ rd_ecc_buf' = ListRd(rd_ecc_buf, avail_rd, task)
      /\ stale' = (stale \/ holds[avail_rd] # Me.pdu)
      /\ waiting' = waiting \ {task} /\ iecc_owner_task' = None
      /\ UNCHANGED <<config, req, avail_rd, avail_wr, current_wr_pdu_hit, finished, miss_dirty, rd_pri,
                     recycle_rd, wr_pri, recycle_wr, ecc_pre_state, iecc_add_cnt, ecc_delay, wr_ecc_buf,
                     ecc_merge_flag, pdu_push_pending, owed, holds>>
  BY DEF AddRead, DataRead, Accepted, Return, In, Goto, addVars, availVars
<1>1. /\ task \in Tasks /\ task \in Nat /\ task \notin sent /\ task <= NTasks
  BY <1>0, Serving DEF Control, Working
<1>2. /\ rd_ecc_buf' \in [RdIds -> RdLine(Seq(Nat))] /\ RdLess /\ RdGrows(avail_rd, task)
  <2>1. rd_ecc_buf \in [RdIds -> RdLine(Seq(Nat))] /\ task \in Nat
    BY <1>1 DEF RdType
  <2> QED
    BY <1>0, <2>1, ReadsGrow
<1>3. WrLess /\ WrKeeps
  BY <1>0 DEF WrLess, WrKeeps
<1>4. Types'
  BY <1>0 DEF Types, States
<1>5. RdType' /\ WrType' /\ History'
  BY <1>0, <1>1, <1>2 DEF RdType, WrType, History, Tasks
<1>6. Listing'
  <2>1. NewTask(task)
    <3>1. \A l \in Slots : ~On(task, l)
      BY <1>1 DEF Listing, ListSeen
    <3> QED
      BY <1>0, <3>1 DEF NewTask
  <2>2. EndsSeen
    BY <1>0 DEF EndsSeen
  <2> QED
    BY <1>2, <1>3, <2>1, <2>2, ListingNext
<1>7. HitCount'
  <2>1. \A j \in WrIds : wr_ecc_buf'[j].hit_cnt \in Nat /\ wr_ecc_buf'[j].hit_cnt <= wr_ecc_buf[j].hit_cnt + 1
    BY <1>0 DEF WrType, WrT
  <2> QED
    BY <1>0, <1>1, <2>1, HitNext
<1>8. OnePdu'
  <2>1. ~Filling
    BY <1>0 DEF Filling
  <2> QED
    BY <1>0, <1>2, <1>3, <2>1, OneBack
<1> QED
  BY <1>4, <1>5, <1>6, <1>7, <1>8 DEF SoundNext

(* The ECC read goes.                                                      *)
LEMMA SoundAddEccRead == ASSUME SoundInv, AddEccRead PROVE SoundNext
<1> USE DEF SoundInv, Typed
<1>0. /\ in_call /\ ecc_model_state = "ADD_RD_ECC_TRANS"
      /\ ecc_model_state' = "ECC_ADD_TRANS" /\ in_call' = FALSE
      /\ queue' = queue \cup {ecc_task}
      /\ rd_ecc_buf' = ListRd(rd_ecc_buf, avail_rd, ecc_task)
      /\ holds' = [holds EXCEPT ![avail_rd] = IF Me.pdu \in owed THEN None ELSE Me.pdu]
      /\ UNCHANGED <<config, req, avail_rd, avail_wr, current_wr_pdu_hit, finished, miss_dirty, rd_pri,
                     recycle_rd, wr_pri, recycle_wr, ecc_pre_state, iecc_add_cnt, ecc_delay, wr_ecc_buf,
                     ecc_merge_flag, pdu_push_pending, owed, sent, stale, waiting, iecc_owner_task>>
  BY DEF AddEccRead, EccRead, Return, In, Goto, addVars, availVars
<1>1. IsRead /\ Me.pdu \in Pdus
  BY <1>0, Serving DEF Control, Working, OnePdu, Serves
<1>2. /\ rd_ecc_buf' \in [RdIds -> RdLine(Seq(Nat))] /\ RdLess /\ RdGrows(avail_rd, ecc_task)
  <2>1. rd_ecc_buf \in [RdIds -> RdLine(Seq(Nat))] /\ ecc_task \in Nat
    BY FreshTask DEF RdType
  <2> QED
    BY <1>0, <2>1, ReadsGrow
<1>3. WrLess /\ WrKeeps
  BY <1>0 DEF WrLess, WrKeeps
<1>4. Types'
  BY <1>0 DEF Types, States
<1>5. RdType' /\ WrType' /\ History'
  BY <1>0, <1>1, <1>2, FreshTask DEF RdType, WrType, History, Tasks
<1>6. Listing'
  <2>1. NewTask(ecc_task)
    <3>1. ecc_task \in Nat /\ ecc_task > NTasks /\ NTasks \in Nat
      BY FreshTask, Constants
    <3> QED
      BY <1>0, <3>1, FreshTask DEF NewTask
  <2>2. EndsSeen
    BY <1>0 DEF EndsSeen
  <2> QED
    BY <1>2, <1>3, <2>1, <2>2, ListingNext
<1>7. HitCount'
  BY <1>0 DEF HitCount
<1>8. OnePdu'
  <2> USE <1>0, <1>1 DEF OnePdu, Waits, IsRead, Me, task
  <2>1. ~Filling /\ ~Filling'
    BY DEF Filling
  <2>2. Serves' /\ RdNext' /\ WrNext'
    BY <2>1 DEF Serves, RdNext, WrNext
  <2>3. RdOne'
    BY <1>2 DEF RdOne, RdLess
  <2>4. WrOne'
    BY <2>1 DEF WrOne
  <2> QED
    BY <2>2, <2>3, <2>4
<1> QED
  BY <1>4, <1>5, <1>6, <1>7, <1>8 DEF SoundNext
-----------------------------------------------------------------------------
(* The write buffer after line k became l, with at most one more task.     *)
LEMMA WritesGrow ==
  ASSUME wr_ecc_buf \in [WrIds -> WrT], NEW k, NEW l, NEW t,
         wr_ecc_buf' = [wr_ecc_buf EXCEPT ![k] = l],
         k \in WrIds => l \in WrT /\ \A x : x \in ToSet(l.tasks) => x \in ToSet(wr_ecc_buf[k].tasks) \/ x = t
  PROVE  /\ wr_ecc_buf' \in [WrIds -> WrT] /\ WrGrows(k, t)
         /\ \A i \in WrIds : i # k => wr_ecc_buf'[i] = wr_ecc_buf[i]
         /\ k \in WrIds => wr_ecc_buf'[k] = l
<1>1. \A i \in WrIds : wr_ecc_buf'[i] = IF i = k THEN l ELSE wr_ecc_buf[i]
  OBVIOUS
<1>2. wr_ecc_buf' \in [WrIds -> WrT]
  <2>1. wr_ecc_buf' = [i \in WrIds |-> wr_ecc_buf'[i]]
    OBVIOUS
  <2>2. \A i \in WrIds : wr_ecc_buf'[i] \in WrT
    BY <1>1
  <2> QED
    BY <2>1, <2>2
<1>3. WrGrows(k, t)
  BY <1>1 DEF WrGrows
<1> QED
  BY <1>1, <1>2, <1>3

(* What an ECC write does to the read buffer.                              *)
LEMMA ReadsLost ==
  ASSUME NEW buf \in [RdIds -> RdLine(Seq(Nat))], NEW p, rd_ecc_buf' = Invalid(buf, p),
         \A i \in RdIds : /\ buf[i].vld = rd_ecc_buf[i].vld /\ buf[i].pdu = rd_ecc_buf[i].pdu
                          /\ ToSet(buf[i].tasks) \subseteq ToSet(rd_ecc_buf[i].tasks)
  PROVE  /\ rd_ecc_buf' \in [RdIds -> RdLine(Seq(Nat))] /\ RdLess /\ RdKeeps
         /\ \A i \in RdIds : rd_ecc_buf'[i].tasks = buf[i].tasks
<1>1. rd_ecc_buf' \in [RdIds -> RdLine(Seq(Nat))]
  BY RdInvalid
<1>2. \A i \in RdIds : /\ rd_ecc_buf'[i].vld => buf[i].vld
                       /\ rd_ecc_buf'[i].pdu = buf[i].pdu
                       /\ rd_ecc_buf'[i].tasks = buf[i].tasks
  BY RdInvalid
<1>3. RdLess
  BY <1>2 DEF RdLess
<1>4. RdKeeps
  BY <1>2 DEF RdKeeps
<1> QED
  BY <1>1, <1>2, <1>3, <1>4

(* The ECC command's task is new.                                          *)
LEMMA EccTaskNew == ASSUME RdType, WrType, queue' = queue \cup {ecc_task} PROVE NewTask(ecc_task)
<1>1. ecc_task \in Nat /\ ecc_task > NTasks /\ NTasks \in Nat
  BY FreshTask, Constants
<1> QED
  BY <1>1, FreshTask DEF NewTask

(* The write goes to the controller, and its ECC into its line.            *)
LEMMA SoundAddWrite == ASSUME SoundInv, AddWrite PROVE SoundNext
<1> USE DEF SoundInv, Typed
<1>0. /\ in_call /\ ecc_model_state = "ECC_ADD_TRANS" /\ ~IsRead
      /\ ecc_model_state' = "TRY_HIT_ECC_BUF" /\ in_call' = FALSE
      /\ queue' = queue \cup {task} /\ sent' = sent \cup {task}
      /\ wr_ecc_buf' = [wr_ecc_buf EXCEPT ![avail_wr] = Written(wr_ecc_buf[avail_wr])]
      /\ owed' = owed \cup {Me.pdu}
      /\ holds' = [j \in RdIds |-> IF holds[j] = Me.pdu THEN None ELSE holds[j]]
      /\ waiting' = waiting \ {task} /\ iecc_owner_task' = None
      /\ current_wr_pdu_hit' = FALSE
      /\ \/ pdu_push_pending' = avail_wr /\ ecc_pre_state' = "ADD_WR_ECC_TRANS"
         \/ UNCHANGED <<pdu_push_pending, ecc_pre_state>>
      /\ UNCHANGED <<config, req, avail_rd, avail_wr, finished, miss_dirty, rd_ecc_buf, rd_pri,
                     recycle_rd, wr_pri, recycle_wr, iecc_add_cnt, ecc_delay, ecc_merge_flag, stale>>
  BY DEF AddWrite, DataWrite, Accepted, Return, In, Goto, rdVars
<1>1. /\ task \in Tasks /\ task \in Nat /\ task \notin sent /\ task <= NTasks
      /\ Me.pdu \in Nat /\ Me.pdu \in Pdus /\ Me.part \in SUBSET Sectors
  BY <1>0, Serving DEF Control, Working
<1> DEFINE l == Written(wr_ecc_buf[avail_wr])
<1>2. avail_wr \in WrIds =>
        /\ wr_ecc_buf[avail_wr] \in WrT
        /\ l \in WrT /\ l.pdu = Me.pdu /\ l.hit_cnt <= wr_ecc_buf[avail_wr].hit_cnt + 1
        /\ \A x : x \in ToSet(l.tasks) => x \in ToSet(wr_ecc_buf[avail_wr].tasks) \/ x = task
  <2>1. avail_wr \in WrIds => wr_ecc_buf[avail_wr] \in WrT
    BY DEF WrType
  <2> QED
    BY <1>1, <2>1, WrittenMade
<1> HIDE DEF l
<1>3. /\ wr_ecc_buf' \in [WrIds -> WrT] /\ WrGrows(avail_wr, task)
      /\ \A i \in WrIds : i # avail_wr => wr_ecc_buf'[i] = wr_ecc_buf[i]
      /\ avail_wr \in WrIds => wr_ecc_buf'[avail_wr] = l
  <2>1. wr_ecc_buf' = [wr_ecc_buf EXCEPT ![avail_wr] = l] /\ wr_ecc_buf \in [WrIds -> WrT]
    BY <1>0 DEF l, WrType
  <2> QED
    BY <1>2, <2>1, WritesGrow
<1>4. Types'
  BY <1>0 DEF Types, States
<1>5. RdType' /\ WrType' /\ History'
  BY <1>0, <1>1, <1>3 DEF RdType, WrType, History, Tasks
<1>6. Listing'
  <2>1. NewTask(task)
    <3>1. \A m \in Slots : ~On(task, m)
      BY <1>1 DEF Listing, ListSeen
    <3> QED
      BY <1>0, <3>1 DEF NewTask
  <2>2. EndsSeen
    BY <1>0 DEF EndsSeen
  <2>3. RdKeeps
    BY <1>0 DEF RdKeeps
  <2> QED
    BY <1>3, <2>1, <2>2, <2>3, ListingNext
<1>7. HitCount'
  <2>1. \A j \in WrIds : wr_ecc_buf'[j].hit_cnt \in Nat /\ wr_ecc_buf[j].hit_cnt \in Nat
    BY <1>3 DEF WrType, WrT
  <2>2. \A j \in WrIds : wr_ecc_buf'[j].hit_cnt <= wr_ecc_buf[j].hit_cnt + 1
    BY <1>2, <1>3, <2>1
  <2> QED
    BY <1>0, <1>1, <2>1, <2>2, HitNext
<1>8. OnePdu'
  <2> USE DEF OnePdu, Waits
  <2>1. Filling
    BY <1>0 DEF Filling
  <2>2. Serves' /\ RdNext' /\ WrNext' /\ ~Filling'
    BY <1>0 DEF Serves, RdNext, WrNext, Filling
  <2>3. RdOne'
    BY <1>0 DEF RdOne
  <2>4. \A i \in WrIds : i # avail_wr /\ wr_ecc_buf[i].vld => wr_ecc_buf[i].pdu # Me.pdu
    BY <2>1 DEF WrNext, WrOther
  <2>5. avail_wr \in WrIds => wr_ecc_buf'[avail_wr].pdu = Me.pdu
    BY <1>2, <1>3
  <2>6. WrOne'
    <3> SUFFICES ASSUME NEW i \in WrIds, NEW j \in WrIds, wr_ecc_buf'[i].vld, wr_ecc_buf'[j].vld,
                        wr_ecc_buf'[i].pdu = wr_ecc_buf'[j].pdu
                 PROVE  i = j
      BY DEF WrOne
    <3>1. CASE i = avail_wr \/ j = avail_wr
      BY <1>3, <2>4, <2>5, <3>1
    <3>2. CASE i # avail_wr /\ j # avail_wr
      BY <1>3, <3>2 DEF WrOne
    <3> QED
      BY <3>1, <3>2
  <2> QED
    BY <2>2, <2>3, <2>6
<1> QED
  BY <1>4, <1>5, <1>6, <1>7, <1>8 DEF SoundNext

(* The ECC write of a line that is taken goes.                             *)
LEMMA SoundAddEccWrite == ASSUME SoundInv, AddEccWrite PROVE SoundNext
<1> USE DEF SoundInv, Typed
<1>0. /\ in_call /\ ecc_model_state = "ADD_WR_ECC_TRANS"
      /\ ecc_model_state' = "WAIT_ECC_DATA_FINISH" /\ ecc_pre_state' = "ADD_WR_ECC_TRANS"
      /\ in_call' = FALSE /\ queue' = queue \cup {ecc_task}
      /\ rd_ecc_buf' = Invalid(rd_ecc_buf, wr_ecc_buf[avail_wr].pdu)
      /\ owed' = owed \ {wr_ecc_buf[avail_wr].pdu} /\ ecc_merge_flag' = FALSE
      /\ wr_ecc_buf' = [wr_ecc_buf EXCEPT ![avail_wr] = GivenTo(wr_ecc_buf[avail_wr])]
      /\ UNCHANGED <<config, req, avail_rd, avail_wr, current_wr_pdu_hit, finished, miss_dirty, rd_pri,
                     recycle_rd, wr_pri, recycle_wr, iecc_add_cnt, ecc_delay, sent, holds, stale,
                     pdu_push_pending, waiting, iecc_owner_task>>
  BY DEF AddEccWrite, EccWrite, Return, In, Goto, addVars, availVars
<1>1. Me.pdu \in Nat
  BY <1>0, Serving DEF Control, Working
<1> DEFINE l == GivenTo(wr_ecc_buf[avail_wr])
<1>2. avail_wr \in WrIds =>
        /\ wr_ecc_buf[avail_wr] \in WrT
        /\ l \in WrT /\ l.pdu = Me.pdu /\ l.hit_cnt = wr_ecc_buf[avail_wr].hit_cnt
        /\ \A x : x \in ToSet(l.tasks) => x \in ToSet(wr_ecc_buf[avail_wr].tasks) \/ x = ecc_task
  <2>1. avail_wr \in WrIds => wr_ecc_buf[avail_wr] \in WrT
    BY DEF WrType
  <2> QED
    BY <1>1, <2>1, GivenToMade
<1> HIDE DEF l
<1>3. /\ wr_ecc_buf' \in [WrIds -> WrT] /\ WrGrows(avail_wr, ecc_task)
      /\ \A i \in WrIds : i # avail_wr => wr_ecc_buf'[i] = wr_ecc_buf[i]
      /\ avail_wr \in WrIds => wr_ecc_buf'[avail_wr] = l
  <2>1. wr_ecc_buf' = [wr_ecc_buf EXCEPT ![avail_wr] = l] /\ wr_ecc_buf \in [WrIds -> WrT]
    BY <1>0 DEF l, WrType
  <2> QED
    BY <1>2, <2>1, WritesGrow
<1>4. rd_ecc_buf' \in [RdIds -> RdLine(Seq(Nat))] /\ RdLess /\ RdKeeps
  <2>1. rd_ecc_buf \in [RdIds -> RdLine(Seq(Nat))]
    BY DEF RdType
  <2> QED
    BY <1>0, <2>1, ReadsLost
<1>5. Types'
  BY <1>0 DEF Types, States
<1>6. RdType' /\ WrType' /\ History'
  BY <1>0, <1>3, <1>4, FreshTask DEF RdType, WrType, History, Tasks
<1>7. Listing'
  <2>1. EndsSeen
    BY <1>0 DEF EndsSeen
  <2> QED
    BY <1>0, <1>3, <1>4, <2>1, EccTaskNew, ListingNext
<1>8. HitCount'
  <2>1. \A j \in WrIds : wr_ecc_buf'[j].hit_cnt = wr_ecc_buf[j].hit_cnt
    BY <1>2, <1>3
  <2> QED
    BY <1>0, <2>1 DEF HitCount
<1>9. OnePdu'
  <2> USE DEF OnePdu, Waits, IsRead, Me, task
  <2>1. ~IsRead /\ Filling /\ Filling'
    BY <1>0 DEF Filling, Serves
  <2>2. Serves' /\ RdNext'
    BY <1>0, <2>1 DEF Serves, RdNext
  <2>3. RdOne'
    BY <1>4 DEF RdOne, RdLess
  <2>4. WrOne'
    BY <1>0, <1>3, <2>1 DEF WrOne
  <2>5. WrNext'
    BY <1>0, <1>3, <2>1 DEF WrNext, WrOther
  <2> QED
    BY <2>2, <2>3, <2>4, <2>5
<1> QED
  BY <1>5, <1>6, <1>7, <1>8, <1>9 DEF SoundNext

(* The ECC write of a push goes, in update.                                *)
LEMMA SoundPush == ASSUME SoundInv, PushPending PROVE SoundNext
<1> USE DEF SoundInv, Typed
<1> DEFINE w == pdu_push_pending
<1>0. /\ ~in_call /\ w # None /\ ecc_model_state' = "TRY_HIT_ECC_BUF" /\ ecc_pre_state' = "ADD_WR_ECC_TRANS"
      /\ queue' = queue \cup {ecc_task} /\ pdu_push_pending' = None
      /\ rd_ecc_buf' = Invalid(rd_ecc_buf, wr_ecc_buf[w].pdu)
      /\ owed' = owed \ {wr_ecc_buf[w].pdu} /\ ecc_merge_flag' = FALSE
      /\ wr_ecc_buf' = [wr_ecc_buf EXCEPT ![w] = PushedOut(wr_ecc_buf[w])]
      /\ UNCHANGED <<config, req, waiting, iecc_owner_task, in_call, iecc_add_cnt, ecc_delay, avail_rd,
                     avail_wr, current_wr_pdu_hit, rd_pri, recycle_rd, wr_pri, recycle_wr, finished,
                     miss_dirty, sent, holds, stale>>
  BY DEF PushPending, EccWrite, Goto, availVars, hostVars
<1>1. ecc_model_state = "TRY_HIT_ECC_BUF" /\ config.push \in BOOLEAN /\ w \in WrIds
  BY <1>0 DEF Control, Working, Pushing, Asked, Config, Types
<1> DEFINE l == PushedOut(wr_ecc_buf[w])
<1>2. /\ wr_ecc_buf[w] \in WrT
      /\ l \in WrT /\ l.vld = wr_ecc_buf[w].vld /\ l.pdu = wr_ecc_buf[w].pdu /\ l.hit_cnt = 0
      /\ \A x : x \in ToSet(l.tasks) => x \in ToSet(wr_ecc_buf[w].tasks) \/ x = ecc_task
  <2>1. wr_ecc_buf[w] \in WrT
    BY <1>1 DEF WrType
  <2> QED
    BY <1>1, <2>1, PushedMade
<1> HIDE DEF l, w
<1>3. /\ wr_ecc_buf' \in [WrIds -> WrT] /\ WrGrows(w, ecc_task)
      /\ \A i \in WrIds : i # w => wr_ecc_buf'[i] = wr_ecc_buf[i]
      /\ wr_ecc_buf'[w] = l
  <2>1. wr_ecc_buf' = [wr_ecc_buf EXCEPT ![w] = l] /\ wr_ecc_buf \in [WrIds -> WrT]
    BY <1>0 DEF l, WrType
  <2> QED
    BY <1>1, <1>2, <2>1, WritesGrow
<1>4. rd_ecc_buf' \in [RdIds -> RdLine(Seq(Nat))] /\ RdLess /\ RdKeeps
  <2>1. rd_ecc_buf \in [RdIds -> RdLine(Seq(Nat))]
    BY DEF RdType
  <2> QED
    BY <1>0, <2>1, ReadsLost
<1>5. Types'
  BY <1>0 DEF Types, States
<1>6. RdType' /\ WrType' /\ History'
  BY <1>0, <1>3, <1>4, FreshTask DEF RdType, WrType, History, Tasks
<1>7. Listing'
  <2>1. EndsSeen
    BY <1>0 DEF EndsSeen
  <2> QED
    BY <1>0, <1>3, <1>4, <2>1, EccTaskNew, ListingNext
<1>8. HitCount'
  <2>1. \A j \in WrIds : wr_ecc_buf'[j].hit_cnt \in Nat /\ wr_ecc_buf'[j].hit_cnt <= wr_ecc_buf[j].hit_cnt
    <3>1. \A j \in WrIds : wr_ecc_buf[j].hit_cnt \in Nat
      BY DEF WrType, WrT
    <3> QED
      BY <1>1, <1>2, <1>3, <3>1
  <2> QED
    BY <1>0, <2>1, HitNext
<1>9. OnePdu'
  <2>1. WrLess
    BY <1>2, <1>3 DEF WrLess
  <2> QED
    BY <1>0, <1>1, <1>4, <2>1, OneBack DEF Filling, Waits
<1> QED
  BY <1>5, <1>6, <1>7, <1>8, <1>9 DEF SoundNext
-----------------------------------------------------------------------------
(* Some lines have a first one.                                            *)
LEMMA FirstIn ==
  ASSUME NEW n \in Nat, NEW S \in SUBSET (1..n), S # {}
  PROVE  First(S) \in S
<1> DEFINE T == {d \in 0..n : n - d \in S}
<1>1. T \in SUBSET (0..n) /\ T # {}
  <2>1. PICK i \in S : TRUE
    OBVIOUS
  <2>2. n - i \in 0..n /\ n - (n - i) = i
    OBVIOUS
  <2> QED
    BY <2>1, <2>2
<1>2. PICK d \in T : \A e \in T : e <= d
  <2> HIDE DEF T
  <2> QED
    BY <1>1, LargestIn
<1>3. ASSUME NEW j \in S PROVE n - d <= j
  <2>1. n - j \in 0..n /\ n - (n - j) = j
    OBVIOUS
  <2>2. n - j \in T
    BY <2>1
  <2> QED
    BY <1>2, <2>1, <2>2
<1>4. n - d \in S
  BY <1>2
<1> QED
  BY <1>3, <1>4 DEF First

(* The line that is taken with merging is one of those offered, and so is  *)
(* its partner.                                                            *)
LEMMA MergeVictimIn ==
  ASSUME LineT, NEW S \in SUBSET WrIds, S # {}
  PROVE  /\ MergeVictim(S) \in S
         /\ Paired(S) # {} => \A v : Partner(S, v) \in S
<1> DEFINE full == {i \in S : FullLine(i)}
           old  == {i \in full : wr_ecc_buf[i].merge_cnt >= MERGE_DEPTH}
           top  == {k \in S : \A l \in S : wr_pri[l] <= wr_pri[k]}
           i    == First(Paired(S))
           j    == First(Partners(S, i))
<1>0. PDU_WR_DEPTH \in Nat /\ S \in SUBSET (1..PDU_WR_DEPTH)
      /\ \A k \in S : wr_pri[k] \in 0..PDU_WR_DEPTH
  BY Constants DEF LineT, WrIds
<1>1. \A X \in SUBSET S : X # {} => Oldest(X, wr_pri) \in X
  <2> SUFFICES ASSUME NEW X \in SUBSET S, X # {} PROVE Oldest(X, wr_pri) \in X
    OBVIOUS
  <2>1. X \in SUBSET (1..PDU_WR_DEPTH) /\ \A k \in X : wr_pri[k] \in 0..PDU_WR_DEPTH
    BY <1>0
  <2> QED
    BY <1>0, <2>1, OldestIn
<1>2. \A X \in SUBSET S : X # {} => First(X) \in X
  <2> SUFFICES ASSUME NEW X \in SUBSET S, X # {} PROVE First(X) \in X
    OBVIOUS
  <2>1. X \in SUBSET (1..PDU_WR_DEPTH)
    BY <1>0
  <2> QED
    BY <1>0, <2>1, FirstIn
<1>3. full \in SUBSET S /\ old \in SUBSET S /\ S \ full \in SUBSET S /\ top \in SUBSET S
      /\ (S # full => S \ full # {})
  OBVIOUS
<1>4. top # {}
  <2> DEFINE V == {wr_pri[k] : k \in S}
  <2>1. V \in SUBSET (0..PDU_WR_DEPTH) /\ V # {}
    BY <1>0
  <2>2. PICK v \in V : \A u \in V : u <= v
    <3> HIDE DEF V
    <3> QED
      BY <1>0, <2>1, LargestIn
  <2> QED
    BY <2>2
<1>5. ASSUME Paired(S) # {} PROVE i \in S /\ j \in S
  <2>1. Paired(S) \in SUBSET S /\ Partners(S, i) \in SUBSET S
    BY DEF Paired, Partners
  <2>2. i \in Paired(S)
    BY <1>2, <1>5, <2>1
  <2>3. Partners(S, i) # {}
    BY <2>2 DEF Paired
  <2>4. j \in Partners(S, i)
    BY <1>2, <2>1, <2>3
  <2> QED
    BY <2>1, <2>2, <2>4
<1>6. MergeVictim(S) = IF Paired(S) # {} THEN IF wr_pri[i] > wr_pri[j] THEN i ELSE j
                       ELSE IF old # {} THEN Oldest(old, wr_pri)
                       ELSE IF S # full THEN Oldest(S \ full, wr_pri) ELSE First(top)
  BY DEF MergeVictim
<1>7. \A v : Partner(S, v) = IF v = i THEN j ELSE i
  BY DEF Partner
<1> HIDE DEF full, old, top, i, j
<1> QED
  BY <1>1, <1>2, <1>3, <1>4, <1>5, <1>6, <1>7

(* The lines the search has passed over.                                   *)
LEMMA WaitedMade ==
  ASSUME WrType, History, NEW S
  PROVE  \A k \in WrIds : /\ Waited(S)[k] \in WrT
                          /\ Waited(S)[k].vld = wr_ecc_buf[k].vld
                          /\ Waited(S)[k].pdu = wr_ecc_buf[k].pdu
                          /\ Waited(S)[k].hit_cnt = wr_ecc_buf[k].hit_cnt
                          /\ Waited(S)[k].tasks = Swept(wr_ecc_buf)[k].tasks
<1> DEFINE passed == {k \in S : FullLine(k) /\ (Paired(S) = {} \/ k < First(Paired(S)))}
<1> SUFFICES ASSUME NEW k \in WrIds
             PROVE  /\ Waited(S)[k] \in WrT
                    /\ Waited(S)[k].vld = wr_ecc_buf[k].vld
                    /\ Waited(S)[k].pdu = wr_ecc_buf[k].pdu
                    /\ Waited(S)[k].hit_cnt = wr_ecc_buf[k].hit_cnt
                    /\ Waited(S)[k].tasks = Swept(wr_ecc_buf)[k].tasks
  OBVIOUS
<1> DEFINE l == Swept(wr_ecc_buf)[k]
           m == l.merge_cnt + 1
<1>1. /\ l \in WrT /\ l.vld = wr_ecc_buf[k].vld /\ l.pdu = wr_ecc_buf[k].pdu
      /\ l.hit_cnt = wr_ecc_buf[k].hit_cnt /\ l.merge_cnt = wr_ecc_buf[k].merge_cnt
  BY WrSwept
<1>2. Waited(S)[k] = IF k \in passed /\ wr_ecc_buf[k].merge_cnt < MERGE_DEPTH
                     THEN [l EXCEPT !.merge_cnt = m] ELSE l
  BY DEF Waited
<1>3. wr_ecc_buf[k].merge_cnt < MERGE_DEPTH => m \in 0..MERGE_DEPTH
  <2>1. MERGE_DEPTH \in Nat
    BY EccAssumption DEF EccAssumption
  <2>2. l.merge_cnt \in 0..MERGE_DEPTH
    BY <1>1 DEF WrT
  <2>3. wr_ecc_buf[k].merge_cnt = l.merge_cnt
    BY <1>1
  <2> HIDE DEF l
  <2> QED
    BY <2>1, <2>2, <2>3
<1> HIDE DEF l, m, passed
<1>4. ASSUME m \in 0..MERGE_DEPTH, NEW h, h = [l EXCEPT !.merge_cnt = m]
      PROVE  /\ h \in WrT /\ h.vld = l.vld /\ h.pdu = l.pdu /\ h.hit_cnt = l.hit_cnt
             /\ h.tasks = l.tasks
  BY <1>1, <1>4 DEF WrT
<1>5. CASE k \in passed /\ wr_ecc_buf[k].merge_cnt < MERGE_DEPTH
  BY <1>1, <1>2, <1>3, <1>4, <1>5 DEF l
<1>6. CASE ~(k \in passed /\ wr_ecc_buf[k].merge_cnt < MERGE_DEPTH)
  BY <1>1, <1>2, <1>6 DEF l
<1> QED
  BY <1>5, <1>6

(* The priorities stay in their range.                                     *)
LEMMA SpentType ==
  ASSUME NEW pri \in [WrIds -> 1..PDU_WR_DEPTH], NEW i \in WrIds
  PROVE  Spent(pri, i) \in [WrIds -> 1..PDU_WR_DEPTH]
<1>1. ASSUME NEW j \in WrIds
      PROVE  (IF j = i THEN PDU_WR_DEPTH ELSE IF pri[j] > pri[i] THEN pri[j] - 1 ELSE pri[j])
                \in 1..PDU_WR_DEPTH
  BY Constants
<1> QED
  BY <1>1 DEF Spent
-----------------------------------------------------------------------------
(* GET_ECC_BUF takes a line of the write buffer.                           *)
LEMMA SoundGetWrite == ASSUME SoundInv, GetWrite PROVE SoundNext
<1> USE DEF SoundInv, Typed
<1> DEFINE S == Free(wr_ecc_buf, recycle_wr)
           pair == config.merge /\ Paired(S) # {}
           v == IF config.merge THEN MergeVictim(S) ELSE Victim(S)
           u == Partner(S, v)
           push == config.push /\ ~Me.mask
           buf == IF config.merge THEN Waited(S) ELSE Swept(wr_ecc_buf)
           s == IF (buf[v].wr_ecc \/ buf[v].dirty) /\ ~push THEN "ADD_WR_ECC_TRANS"
                                                            ELSE "ECC_ADD_TRANS"
<1>0. /\ in_call /\ ecc_model_state = "GET_ECC_BUF" /\ ~IsRead /\ S # {}
      /\ ecc_model_state' = s /\ avail_wr' = v /\ ecc_merge_flag' = pair
      /\ wr_ecc_buf' = [i \in WrIds |-> IF i = v THEN Taken(buf[i], push)
                                        ELSE IF pair /\ i = u THEN Given(buf[i]) ELSE buf[i]]
      /\ wr_pri' = IF pair THEN Spent(Used(wr_pri, v), u) ELSE Used(wr_pri, v)
      /\ recycle_wr' = IF pair THEN S ELSE S \ {v}
      /\ rd_ecc_buf' = Swept(rd_ecc_buf) /\ recycle_rd' = Free(rd_ecc_buf, recycle_rd)
      /\ finished' = finished \ (Unlisted(rd_ecc_buf) \cup Unlisted(wr_ecc_buf))
      /\ UNCHANGED <<config, req, waiting, iecc_owner_task, pdu_push_pending, queue, sent, owed, holds,
                     stale, miss_dirty, ecc_pre_state, iecc_add_cnt, ecc_delay, current_wr_pdu_hit,
                     in_call, avail_rd, rd_pri>>
  BY DEF GetWrite, In, Goto, SweepBoth, getVars, histVars
<1>1. S \in SUBSET WrIds /\ v \in S /\ (pair => u \in S)
  <2>1. S \in SUBSET WrIds /\ LineT
    BY WrSwept, OtherTypes
  <2> HIDE DEF S
  <2> QED
    BY <1>0, <2>1, VictimIn, MergeVictimIn
<1>2. s \in {"ADD_WR_ECC_TRANS", "ECC_ADD_TRANS"} /\ pair \in BOOLEAN /\ push \in BOOLEAN
  <2>1. Me.mask \in BOOLEAN /\ config.push \in BOOLEAN
    BY <1>0, Serving DEF Control, Working
  <2> QED
    BY <2>1
<1>3. \A k \in WrIds : /\ buf[k] \in WrT
                       /\ buf[k].vld = wr_ecc_buf[k].vld /\ buf[k].pdu = wr_ecc_buf[k].pdu
                       /\ buf[k].hit_cnt = wr_ecc_buf[k].hit_cnt
                       /\ buf[k].tasks = Swept(wr_ecc_buf)[k].tasks
  <2> HIDE DEF S
  <2> QED
    BY WaitedMade, WrSwept
<1>4. wr_pri' \in [WrIds -> 1..PDU_WR_DEPTH]
  <2> HIDE DEF S, v, u, pair
  <2>1. Used(wr_pri, v) \in [WrIds -> 1..PDU_WR_DEPTH]
    BY <1>1, OtherTypes, UsedType
  <2> QED
    BY <1>0, <1>1, <2>1, SpentType
<1> HIDE DEF S, v, u, pair, push, buf, s
<1>5. \A i \in WrIds : /\ wr_ecc_buf'[i] \in WrT
                       /\ i # v => wr_ecc_buf'[i].vld = wr_ecc_buf[i].vld
                       /\ wr_ecc_buf'[i].pdu = wr_ecc_buf[i].pdu
                       /\ wr_ecc_buf'[i].hit_cnt <= wr_ecc_buf[i].hit_cnt
                       /\ wr_ecc_buf'[i].tasks = Swept(wr_ecc_buf)[i].tasks
  <2> SUFFICES ASSUME NEW i \in WrIds
               PROVE  /\ wr_ecc_buf'[i] \in WrT
                      /\ i # v => wr_ecc_buf'[i].vld = wr_ecc_buf[i].vld
                      /\ wr_ecc_buf'[i].pdu = wr_ecc_buf[i].pdu
                      /\ wr_ecc_buf'[i].hit_cnt <= wr_ecc_buf[i].hit_cnt
                      /\ wr_ecc_buf'[i].tasks = Swept(wr_ecc_buf)[i].tasks
    OBVIOUS
  <2>1. wr_ecc_buf'[i] = IF i = v THEN Taken(buf[i], push)
                         ELSE IF pair /\ i = u THEN Given(buf[i]) ELSE buf[i]
    BY <1>0
  <2>2. wr_ecc_buf[i].hit_cnt \in Nat
    BY DEF WrType, WrT
  <2>3. CASE i = v
    <3>1. Taken(buf[i], push) \in WrT /\ Taken(buf[i], push).pdu = buf[i].pdu
          /\ Taken(buf[i], push).tasks = buf[i].tasks /\ Taken(buf[i], push).hit_cnt = 0
      BY <1>2, <1>3, TakenMade
    <3> QED
      BY <1>3, <2>1, <2>2, <2>3, <3>1
  <2>4. CASE i # v /\ pair /\ i = u
    <3>1. Given(buf[i]) \in WrT /\ Given(buf[i]).vld = buf[i].vld /\ Given(buf[i]).pdu = buf[i].pdu
          /\ Given(buf[i]).tasks = buf[i].tasks /\ Given(buf[i]).hit_cnt = buf[i].hit_cnt
      BY <1>3, GivenMade
    <3> QED
      BY <1>3, <2>1, <2>2, <2>4, <3>1
  <2>5. CASE i # v /\ ~(pair /\ i = u)
    BY <1>3, <2>1, <2>2, <2>5
  <2> QED
    BY <2>3, <2>4, <2>5
<1>6. Types'
  BY <1>0, <1>1, <1>2 DEF Types, States
<1>7. RdType' /\ WrType' /\ History'
  <2>1. wr_ecc_buf' \in [WrIds -> WrT]
    BY <1>0, <1>5
  <2>2. RdType' /\ History'
    BY <1>0, RdSwept DEF RdType, History, Tasks
  <2>3. recycle_wr' \subseteq WrIds
    BY <1>0, <1>1
  <2> QED
    BY <1>4, <2>1, <2>2, <2>3 DEF WrType
<1>8. Listing'
  <2>1. RdKeeps /\ WrKeeps
    BY <1>0, <1>5, RdSwept, WrSwept DEF RdKeeps, WrKeeps
  <2>2. RdSeen
    BY <1>0, FreshTask, RdSeenBy
  <2>3. WrSeen
    BY <1>5, WrSeenBy
  <2>4. EndsSeen
    BY <1>0, <2>2, <2>3 DEF EndsSeen, RdSeen, WrSeen
  <2> QED
    BY <2>1, <2>4, ListingNext
<1>9. HitCount'
  <2>1. \A j \in WrIds : wr_ecc_buf'[j].hit_cnt \in Nat /\ wr_ecc_buf'[j].hit_cnt <= wr_ecc_buf[j].hit_cnt
    BY <1>5 DEF WrT
  <2> QED
    BY <1>0, <2>1, HitNext
<1>10. OnePdu'
  <2> USE DEF OnePdu, Waits, IsRead, Me, task
  <2>1. ~Filling /\ Filling'
    BY <1>0, <1>2 DEF Filling
  <2>2. Serves' /\ RdNext'
    BY <1>0, <1>2 DEF Serves, RdNext
  <2>3. RdOne'
    <3>1. RdLess
      BY <1>0, RdSwept DEF RdLess
    <3> QED
      BY <3>1 DEF RdOne, RdLess
  <2>4. WrOne'
    BY <1>0, <1>5, <2>1 DEF WrOne
  <2>5. WrNext'
    BY <1>0, <1>2, <1>5, <2>1 DEF WrNext, WrOther
  <2> QED
    BY <2>2, <2>3, <2>4, <2>5
<1> QED
  BY <1>6, <1>7, <1>8, <1>9, <1>10 DEF SoundNext
-----------------------------------------------------------------------------
(* What the commands of ECC_RD_HIT_DIRTY and ECC_RD_MISS_DIRTY have in     *)
(* common: buf is the read buffer, after a sweep or without.               *)
DirtyCall(buf) ==
  /\ ecc_model_state \in {"ECC_RD_HIT_DIRTY", "ECC_RD_MISS_DIRTY"} /\ in_call /\ in_call' = FALSE
  /\ buf \in [RdIds -> RdLine(Seq(Nat))]
  /\ \A i \in RdIds : /\ buf[i].vld = rd_ecc_buf[i].vld /\ buf[i].pdu = rd_ecc_buf[i].pdu
                      /\ ToSet(buf[i].tasks) \subseteq ToSet(rd_ecc_buf[i].tasks)
  /\ \/ finished' = finished
     \/ finished' = finished \ Unlisted(rd_ecc_buf) /\ buf = Swept(rd_ecc_buf)
  /\ ecc_model_state = "ECC_RD_HIT_DIRTY" => avail_rd' = avail_rd
  /\ avail_rd' \in RdIds \cup {None} /\ rd_pri' \in [RdIds -> 1..PDU_RD_DEPTH]
  /\ recycle_rd' \subseteq RdIds
  /\ UNCHANGED <<hostVars, ecc_delay, avail_wr, current_wr_pdu_hit, wr_pri, recycle_wr,
                 pdu_push_pending, miss_dirty>>

(* The lists after it, with at most a new task t.                          *)
LEMMA DirtyEnds ==
  ASSUME SoundInv, NEW buf, DirtyCall(buf), NEW t, \A l \in Slots : ~On(t, l),
         \A i \in RdIds : ToSet(rd_ecc_buf'[i].tasks) \subseteq ToSet(buf[i].tasks) \cup {t},
         queue \subseteq queue', sent \subseteq sent'
  PROVE  EndsSeen
<1> USE DEF SoundInv, Typed
<1>1. CASE finished' = finished
  BY <1>1 DEF EndsSeen
<1>2. CASE finished' = finished \ Unlisted(rd_ecc_buf) /\ buf = Swept(rd_ecc_buf)
  <2>1. RdSeen
    <3>1. \A i \in RdIds : \A x : x \in ToSet(rd_ecc_buf'[i].tasks) =>
             x \in ToSet(Swept(rd_ecc_buf)[i].tasks) \/ x = t
      BY <1>2
    <3> QED
      BY <3>1, RdSeenBy
  <2> QED
    BY <1>2, <2>1 DEF EndsSeen, RdSeen
<1> QED
  BY <1>1, <1>2 DEF DirtyCall

(* The line is written back.                                               *)
LEMMA SoundDirtyWrite ==
  ASSUME SoundInv, NEW buf, DirtyCall(buf), DirtyWrite(buf)
  PROVE  SoundNext
<1> USE DEF SoundInv, Typed
<1> DEFINE w == avail_wr
           l == CleanLine(wr_ecc_buf[w])
<1>0. /\ iecc_add_cnt' = 1 /\ queue' = queue \cup {ecc_task}
      /\ rd_ecc_buf' = Invalid(buf, wr_ecc_buf[w].pdu) /\ owed' = owed \ {wr_ecc_buf[w].pdu}
      /\ ecc_merge_flag' = FALSE /\ wr_ecc_buf' = [wr_ecc_buf EXCEPT ![w] = l]
      /\ UNCHANGED <<sent, holds, stale, ecc_model_state, ecc_pre_state>>
  BY DEF DirtyWrite, EccWrite, Cleaned
<1>1. /\ ecc_model_state \in {"ECC_RD_HIT_DIRTY", "ECC_RD_MISS_DIRTY"} /\ in_call'= FALSE
      /\ ecc_model_state = "ECC_RD_HIT_DIRTY" => avail_rd' = avail_rd
      /\ avail_rd' \in RdIds \cup {None} /\ rd_pri' \in [RdIds -> 1..PDU_RD_DEPTH]
      /\ recycle_rd' \subseteq RdIds /\ finished' \subseteq finished
      /\ UNCHANGED <<config, req, waiting, iecc_owner_task, ecc_delay, avail_wr, current_wr_pdu_hit,
                     wr_pri, recycle_wr, pdu_push_pending, miss_dirty>>
  BY DEF DirtyCall, hostVars
<1>2. w \in WrIds =>
        /\ l \in WrT /\ ~l.vld /\ l.hit_cnt = wr_ecc_buf[w].hit_cnt
        /\ \A x : x \in ToSet(l.tasks) => x \in ToSet(wr_ecc_buf[w].tasks) \/ x = ecc_task
  <2>1. w \in WrIds => wr_ecc_buf[w] \in WrT
    BY DEF WrType
  <2> QED
    BY <2>1, CleanMade
<1> HIDE DEF l
<1>3. /\ wr_ecc_buf' \in [WrIds -> WrT] /\ WrGrows(w, ecc_task)
      /\ \A i \in WrIds : i # w => wr_ecc_buf'[i] = wr_ecc_buf[i]
      /\ w \in WrIds => wr_ecc_buf'[w] = l
  <2>1. wr_ecc_buf \in [WrIds -> WrT]
    BY DEF WrType
  <2> QED
    BY <1>0, <1>2, <2>1, WritesGrow
<1>4. /\ rd_ecc_buf' \in [RdIds -> RdLine(Seq(Nat))] /\ RdLess /\ RdKeeps
      /\ \A i \in RdIds : rd_ecc_buf'[i].tasks = buf[i].tasks
  BY <1>0, ReadsLost DEF DirtyCall
<1>5. Types'
  <2>2. Types
    OBVIOUS
  <2>3. ecc_merge_flag' \in BOOLEAN
    BY <1>0
  <2>4. iecc_add_cnt' \in 0..2
    BY <1>0
  <2> QED
    BY <1>0, <1>1, <2>2, <2>3, <2>4 DEF Types
<1>6. RdType' /\ WrType' /\ History'
  BY <1>0, <1>1, <1>3, <1>4, FreshTask DEF RdType, WrType, History, Tasks
<1>7. Listing'
  <2>1. \A i \in RdIds : ToSet(rd_ecc_buf'[i].tasks) \subseteq ToSet(buf[i].tasks) \cup {ecc_task}
    BY <1>4
  <2>2. EndsSeen
    BY <1>0, <2>1, FreshTask, DirtyEnds
  <2> QED
    BY <1>0, <1>3, <1>4, <2>2, EccTaskNew, ListingNext
<1>8. HitCount'
  <2>1. \A j \in WrIds : wr_ecc_buf'[j].hit_cnt = wr_ecc_buf[j].hit_cnt
    BY <1>2, <1>3
  <2> QED
    BY <1>0, <2>1 DEF HitCount
<1>9. OnePdu'
  <2> USE DEF OnePdu, Waits, IsRead, Me, task
  <2>1. WrLess
    BY <1>2, <1>3 DEF WrLess
  <2>2. ~Filling /\ ~Filling'
    BY <1>0, <1>1 DEF Filling
  <2>3. Serves'
    BY <1>0, <1>1 DEF Serves
  <2>4. RdOne'
    BY <1>4 DEF RdOne, RdLess
  <2>5. RdNext'
    BY <1>0, <1>1, <1>4 DEF RdNext, RdOther, RdLess
  <2>6. WrOne'
    BY <2>1, <2>2 DEF WrOne, WrLess
  <2>7. WrNext'
    BY <1>0, <1>1, <2>2 DEF WrNext
  <2> QED
    BY <2>3, <2>4, <2>5, <2>6, <2>7
<1> QED
  BY <1>5, <1>6, <1>7, <1>8, <1>9 DEF SoundNext

(* The read is sent.                                                       *)
LEMMA SoundDirtyRead ==
  ASSUME SoundInv, NEW buf, DirtyCall(buf), NEW k, DirtyRead(buf, k)
  PROVE  SoundNext
<1> USE DEF SoundInv, Typed
<1>0. /\ iecc_add_cnt' = 0 /\ queue' = queue \cup {task} /\ sent' = sent \cup {task}
      /\ rd_ecc_buf' = ListRd(buf, k, task) /\ stale' = (stale \/ holds[k] # Me.pdu)
      /\ ecc_pre_state' = ecc_model_state /\ ecc_model_state' = "WAIT_ECC_DATA_FINISH"
      /\ UNCHANGED <<owed, holds, wr_ecc_buf, ecc_merge_flag>>
  BY DEF DirtyRead, DataRead, Goto
<1>1. /\ ecc_model_state \in {"ECC_RD_HIT_DIRTY", "ECC_RD_MISS_DIRTY"} /\ in_call /\ in_call'= FALSE
      /\ avail_rd' \in RdIds \cup {None} /\ rd_pri' \in [RdIds -> 1..PDU_RD_DEPTH]
      /\ recycle_rd' \subseteq RdIds /\ finished' \subseteq finished
      /\ UNCHANGED <<config, req, waiting, iecc_owner_task, ecc_delay, avail_wr, current_wr_pdu_hit,
                     wr_pri, recycle_wr, pdu_push_pending, miss_dirty>>
  BY DEF DirtyCall, hostVars
<1>2. /\ task \in Tasks /\ task \in Nat /\ task \notin sent /\ task <= NTasks
  BY <1>1, Serving DEF Control, Working
<1>3. /\ rd_ecc_buf' \in [RdIds -> RdLine(Seq(Nat))] /\ RdLess /\ RdGrows(k, task)
      /\ \A i \in RdIds : ToSet(rd_ecc_buf'[i].tasks) \subseteq ToSet(buf[i].tasks) \cup {task}
  BY <1>0, <1>2, ReadsGrow DEF DirtyCall
<1>4. WrLess /\ WrKeeps
  BY <1>0 DEF WrLess, WrKeeps
<1>5. Types'
  <2>1. Types
    OBVIOUS
  <2>2. stale' \in BOOLEAN
    BY <1>0, <2>1 DEF Types
  <2>3. iecc_add_cnt' \in 0..2
    BY <1>0
  <2>4. ecc_model_state' \in States /\ ecc_pre_state' \in States
    BY <1>0, <2>1 DEF Types, States
  <2> QED
    BY <1>0, <1>1, <2>1, <2>2, <2>3, <2>4 DEF Types
<1>6. RdType' /\ WrType' /\ History'
  BY <1>0, <1>1, <1>2, <1>3 DEF RdType, WrType, History, Tasks
<1>7. Listing'
  <2>1. \A l \in Slots : ~On(task, l)
    BY <1>2 DEF Listing, ListSeen
  <2>2. NewTask(task)
    BY <1>0, <2>1 DEF NewTask
  <2>3. EndsSeen
    BY <1>0, <1>3, <2>1, DirtyEnds
  <2> QED
    BY <1>3, <1>4, <2>2, <2>3, ListingNext
<1>8. HitCount'
  <2>1. \A j \in WrIds : wr_ecc_buf'[j].hit_cnt \in Nat /\ wr_ecc_buf'[j].hit_cnt <= wr_ecc_buf[j].hit_cnt + 1
    BY <1>0 DEF WrType, WrT
  <2> QED
    BY <1>0, <1>2, <2>1, HitNext
<1>9. OnePdu'
  <2> USE DEF OnePdu, Waits, IsRead, Me, task
  <2>1. ~Filling /\ ~Filling'
    BY <1>0, <1>1 DEF Filling
  <2>2. Serves' /\ RdNext' /\ WrNext'
    BY <1>0, <1>1, <2>1 DEF Serves, RdNext, WrNext
  <2>3. RdOne'
    BY <1>3 DEF RdOne, RdLess
  <2>4. WrOne'
    BY <1>4, <2>1 DEF WrOne, WrLess
  <2> QED
    BY <2>2, <2>3, <2>4
<1> QED
  BY <1>5, <1>6, <1>7, <1>8, <1>9 DEF SoundNext

(* The ECC is read into line k, which becomes the PDU's after a hit.       *)
LEMMA SoundDirtyEcc ==
  ASSUME SoundInv, NEW buf, DirtyCall(buf), NEW k \in RdIds, NEW grown,
         ecc_model_state = "ECC_RD_HIT_DIRTY" => k = avail_rd,
         grown \in [RdIds -> RdLine(Seq(Nat))],
         \A i \in RdIds : /\ grown[i].tasks = buf[i].tasks
                          /\ \/ grown[i].vld = buf[i].vld /\ grown[i].pdu = buf[i].pdu
                             \/ ecc_model_state = "ECC_RD_HIT_DIRTY" /\ i = k /\ grown[i].pdu = Me.pdu,
         EccRead(grown, k), iecc_add_cnt' = 2,
         UNCHANGED <<wr_ecc_buf, ecc_merge_flag, ecc_model_state, ecc_pre_state>>
  PROVE  SoundNext
<1> USE DEF SoundInv, Typed
<1>0. /\ queue' = queue \cup {ecc_task} /\ rd_ecc_buf' = ListRd(grown, k, ecc_task)
      /\ holds' = [holds EXCEPT ![k] = IF Me.pdu \in owed THEN None ELSE Me.pdu]
      /\ UNCHANGED <<sent, owed, stale>>
  BY DEF EccRead
<1>1. /\ ecc_model_state \in {"ECC_RD_HIT_DIRTY", "ECC_RD_MISS_DIRTY"} /\ in_call /\ in_call'= FALSE
      /\ ecc_model_state = "ECC_RD_HIT_DIRTY" => avail_rd' = avail_rd
      /\ avail_rd' \in RdIds \cup {None} /\ rd_pri' \in [RdIds -> 1..PDU_RD_DEPTH]
      /\ recycle_rd' \subseteq RdIds /\ finished' \subseteq finished
      /\ UNCHANGED <<config, req, waiting, iecc_owner_task, ecc_delay, avail_wr, current_wr_pdu_hit,
                     wr_pri, recycle_wr, pdu_push_pending, miss_dirty>>
  BY DEF DirtyCall, hostVars
<1>2. Me.pdu \in Pdus /\ IsRead
  BY <1>1, Serving DEF Control, Working, OnePdu, Serves
<1>3. /\ rd_ecc_buf' \in [RdIds -> RdLine(Seq(Nat))]
      /\ \A i \in RdIds : rd_ecc_buf'[i].vld = grown[i].vld
      /\ \A i \in RdIds : rd_ecc_buf'[i].pdu = grown[i].pdu
      /\ \A i \in RdIds : ToSet(rd_ecc_buf'[i].tasks)
                            \subseteq ToSet(grown[i].tasks) \cup (IF i = k THEN {ecc_task} ELSE {})
  <2>1. ecc_task \in Nat /\ grown \in [RdIds -> RdLine(Seq(Nat))]
    BY FreshTask
  <2>2. rd_ecc_buf' \in [RdIds -> RdLine(Seq(Nat))]
    BY <1>0, <2>1, RdListed
  <2>3. \A i \in RdIds : rd_ecc_buf'[i].vld = grown[i].vld
    BY <1>0, <2>1, RdListed
  <2>4. \A i \in RdIds : rd_ecc_buf'[i].pdu = grown[i].pdu
    BY <1>0, <2>1, RdListed
  <2>5. \A i \in RdIds : ToSet(rd_ecc_buf'[i].tasks)
                            \subseteq ToSet(grown[i].tasks) \cup (IF i = k THEN {ecc_task} ELSE {})
    BY <1>0, <2>1, RdListed
  <2> QED
    BY <2>2, <2>3, <2>4, <2>5
<1>4. /\ \A i \in RdIds : ToSet(buf[i].tasks) \subseteq ToSet(rd_ecc_buf[i].tasks)
      /\ \A i \in RdIds : \/ rd_ecc_buf'[i].vld = rd_ecc_buf[i].vld /\ rd_ecc_buf'[i].pdu = rd_ecc_buf[i].pdu
                          \/ ecc_model_state = "ECC_RD_HIT_DIRTY" /\ i = k /\ rd_ecc_buf'[i].pdu = Me.pdu
  BY <1>3 DEF DirtyCall
<1>5. WrLess /\ WrKeeps
  BY DEF WrLess, WrKeeps
<1>6. Types'
  <2>1. Types
    OBVIOUS
  <2>2. iecc_add_cnt' \in 0..2
    OBVIOUS
  <2> QED
    BY <1>0, <1>1, <2>1, <2>2 DEF Types
<1>7. RdType' /\ WrType' /\ History'
  <2>1. ecc_task \in Nat /\ holds' \in [RdIds -> Pdus \cup {None}]
    BY <1>0, <1>2, FreshTask DEF History
  <2> QED
    BY <1>0, <1>1, <1>3, <2>1 DEF RdType, WrType, History, Tasks
<1>8. Listing'
  <2>1. \A i \in RdIds : ToSet(rd_ecc_buf'[i].tasks) \subseteq ToSet(buf[i].tasks) \cup {ecc_task}
    BY <1>3
  <2>2. EndsSeen
    BY <1>0, <2>1, FreshTask, DirtyEnds
  <2>3. RdGrows(k, ecc_task)
    BY <1>3, <1>4 DEF RdGrows
  <2>4. NewTask(ecc_task)
    BY <1>0, EccTaskNew
  <2> QED
    BY <1>5, <2>2, <2>3, <2>4, ListingNext
<1>9. HitCount'
  BY <1>0 DEF HitCount
<1>10. OnePdu'
  <2> USE DEF OnePdu, Waits, IsRead, Me, task
  <2>1. ~Filling /\ ~Filling'
    BY <1>1 DEF Filling
  <2>2. Serves' /\ WrNext'
    BY <1>1, <2>1 DEF Serves, WrNext
  <2>3. RdOne'
    <3>1. CASE ecc_model_state = "ECC_RD_HIT_DIRTY"
      <4>1. \A i \in RdIds : i # k /\ rd_ecc_buf[i].vld => rd_ecc_buf[i].pdu # Me.pdu
        BY <3>1 DEF RdNext, RdOther
      <4> QED
        BY <1>4, <4>1 DEF RdOne
    <3>2. CASE ecc_model_state # "ECC_RD_HIT_DIRTY"
      BY <1>4, <3>2 DEF RdOne
    <3> QED
      BY <3>1, <3>2
  <2>4. RdNext'
    BY <1>1, <1>4 DEF RdNext, RdOther
  <2>5. WrOne'
    BY <2>1 DEF WrOne
  <2> QED
    BY <2>2, <2>3, <2>4, <2>5
<1> QED
  BY <1>6, <1>7, <1>8, <1>9, <1>10 DEF SoundNext
-----------------------------------------------------------------------------
(* ECC_RD_HIT_DIRTY.                                                       *)
LEMMA SoundHitDirty == ASSUME SoundInv, HitDirty PROVE SoundNext
<1> USE DEF SoundInv, Typed
<1> DEFINE p == Me.pdu
           grown == [rd_ecc_buf EXCEPT ![avail_rd].pdu = p, ![avail_rd].vld = TRUE]
<1>0. /\ ecc_model_state = "ECC_RD_HIT_DIRTY" /\ in_call /\ in_call' = FALSE
      /\ UNCHANGED <<hostVars, ecc_delay, avail_rd, avail_wr, current_wr_pdu_hit, recycle_rd, wr_pri,
                     recycle_wr, pdu_push_pending, finished, miss_dirty>>
  BY DEF HitDirty, In, Return, availVars
<1>1. avail_rd \in RdIds
  BY <1>0 DEF OnePdu, RdNext
<1>2. p \in Nat
  BY <1>0, Serving DEF Control, Working
<1>3. Used(rd_pri, avail_rd) \in [RdIds -> 1..PDU_RD_DEPTH]
  BY <1>1, OtherTypes, UsedReadType
<1>4. rd_pri' \in [RdIds -> 1..PDU_RD_DEPTH] => DirtyCall(rd_ecc_buf)
  <2>1. rd_ecc_buf \in [RdIds -> RdLine(Seq(Nat))] /\ recycle_rd' \subseteq RdIds
    BY <1>0 DEF RdType
  <2>2. avail_rd' \in RdIds \cup {None} /\ avail_rd' = avail_rd
    BY <1>0, <1>1
  <2> QED
    BY <1>0, <2>1, <2>2 DEF DirtyCall
<1>5. /\ grown \in [RdIds -> RdLine(Seq(Nat))]
      /\ \A j \in RdIds : /\ grown[j].tasks = rd_ecc_buf[j].tasks
                          /\ \/ grown[j].vld = rd_ecc_buf[j].vld /\ grown[j].pdu = rd_ecc_buf[j].pdu
                             \/ j = avail_rd /\ grown[j].pdu = p
  <2>1. ASSUME NEW l \in RdLine(Seq(Nat)), NEW b \in BOOLEAN, NEW k, k = [l EXCEPT !.pdu = p, !.vld = b]
        PROVE  k \in RdLine(Seq(Nat)) /\ k.tasks = l.tasks /\ k.pdu = p
    BY <1>2, <2>1 DEF RdLine
  <2>2. rd_ecc_buf \in [RdIds -> RdLine(Seq(Nat))]
    BY DEF RdType
  <2> DEFINE k == [rd_ecc_buf[avail_rd] EXCEPT !.pdu = p, !.vld = TRUE]
  <2>3. grown = [rd_ecc_buf EXCEPT ![avail_rd] = k]
    BY <1>1, <2>2
  <2>4. k \in RdLine(Seq(Nat)) /\ k.tasks = rd_ecc_buf[avail_rd].tasks /\ k.pdu = p
    BY <1>1, <2>1, <2>2
  <2> HIDE DEF k, grown, p
  <2> QED
    BY <1>1, <2>2, <2>3, <2>4
<1>6. CASE DirtyWrite(rd_ecc_buf) /\ UNCHANGED rd_pri
  <2>1. DirtyCall(rd_ecc_buf)
    BY <1>4, <1>6 DEF RdType
  <2> QED
    BY <1>6, <2>1, SoundDirtyWrite
<1>7. CASE DirtyRead(rd_ecc_buf, avail_rd) /\ UNCHANGED rd_pri
  <2>1. DirtyCall(rd_ecc_buf)
    BY <1>4, <1>7 DEF RdType
  <2> QED
    BY <1>7, <2>1, SoundDirtyRead
<1>8. CASE /\ iecc_add_cnt' = 2 /\ EccRead(grown, avail_rd) /\ rd_pri' = Used(rd_pri, avail_rd)
           /\ UNCHANGED <<wr_ecc_buf, ecc_merge_flag, ecc_model_state, ecc_pre_state>>
  <2>1. DirtyCall(rd_ecc_buf)
    BY <1>3, <1>4, <1>8
  <2>2. \A j \in RdIds : /\ grown[j].tasks = rd_ecc_buf[j].tasks
                         /\ \/ grown[j].vld = rd_ecc_buf[j].vld /\ grown[j].pdu = rd_ecc_buf[j].pdu
                            \/ ecc_model_state = "ECC_RD_HIT_DIRTY" /\ j = avail_rd /\ grown[j].pdu = Me.pdu
    BY <1>0, <1>5
  <2>3. grown \in [RdIds -> RdLine(Seq(Nat))]
    BY <1>5
  <2> HIDE DEF grown, p, SoundInv, Typed
  <2> QED
    BY <1>1, <1>8, <2>1, <2>2, <2>3, SoundDirtyEcc
<1> HIDE DEF SoundInv, Typed
<1> QED
  BY <1>6, <1>7, <1>8 DEF HitDirty

(* ECC_RD_MISS_DIRTY.                                                      *)
LEMMA SoundMissDirty == ASSUME SoundInv, MissDirty PROVE SoundNext
<1> USE DEF SoundInv, Typed
<1> DEFINE S == Free(rd_ecc_buf, recycle_rd)
           i == Oldest(S, rd_pri)
           buf == Swept(rd_ecc_buf)
<1>0. /\ ecc_model_state = "ECC_RD_MISS_DIRTY" /\ in_call /\ in_call' = FALSE
      /\ finished' = finished \ Unlisted(rd_ecc_buf)
      /\ UNCHANGED <<hostVars, ecc_delay, avail_wr, current_wr_pdu_hit, rd_pri, wr_pri,
                     recycle_wr, pdu_push_pending, miss_dirty>>
  BY DEF MissDirty, In, Return
<1>1. S \in SUBSET RdIds /\ (S # {} => i \in RdIds)
  BY OtherTypes, ReadLineIn
<1>2. /\ buf \in [RdIds -> RdLine(Seq(Nat))]
      /\ \A j \in RdIds : /\ buf[j].vld = rd_ecc_buf[j].vld /\ buf[j].pdu = rd_ecc_buf[j].pdu
                          /\ ToSet(buf[j].tasks) \subseteq ToSet(rd_ecc_buf[j].tasks)
  BY RdSwept
<1>3. \/ /\ ecc_model_state' = "GET_ECC_BUF" /\ avail_rd' = None /\ recycle_rd' = S /\ rd_ecc_buf' = buf
         /\ UNCHANGED <<iecc_add_cnt, ecc_pre_state, queue, wr_ecc_buf, ecc_merge_flag,
                        sent, owed, holds, stale>>
      \/ /\ S # {} /\ avail_rd' = i /\ recycle_rd' = S \ {i}
         /\ \/ DirtyWrite(buf)
            \/ /\ iecc_add_cnt' = 2 /\ EccRead(buf, i)
               /\ UNCHANGED <<wr_ecc_buf, ecc_merge_flag, ecc_model_state, ecc_pre_state>>
            \/ DirtyRead(buf, i)
            \/ /\ rd_ecc_buf' = buf
               /\ UNCHANGED <<iecc_add_cnt, ecc_model_state, ecc_pre_state, queue,
                              wr_ecc_buf, ecc_merge_flag, sent, owed, holds, stale>>
  BY DEF MissDirty, Goto
<1> HIDE DEF S, i
<1>4. ASSUME recycle_rd' \subseteq RdIds, avail_rd' \in RdIds \cup {None} PROVE DirtyCall(buf)
  <2>1. rd_pri' \in [RdIds -> 1..PDU_RD_DEPTH]
    BY <1>0 DEF RdType
  <2>2. ecc_model_state # "ECC_RD_HIT_DIRTY"
    BY <1>0
  <2>3. finished' = finished \ Unlisted(rd_ecc_buf) /\ buf = Swept(rd_ecc_buf)
    BY <1>0
  <2> HIDE DEF buf
  <2> QED
    BY <1>0, <1>2, <1>4, <2>1, <2>2, <2>3 DEF DirtyCall
<1>5. ASSUME rd_ecc_buf' = buf, recycle_rd' \subseteq RdIds, avail_rd' \in RdIds \cup {None},
             ecc_model_state' \in {"GET_ECC_BUF", "ECC_RD_MISS_DIRTY"},
             UNCHANGED <<iecc_add_cnt, ecc_pre_state, queue, wr_ecc_buf, ecc_merge_flag,
                         sent, owed, holds, stale>>
      PROVE  SoundNext
  <2>1. UNCHANGED <<config, req, waiting, iecc_owner_task>>
    BY <1>0 DEF hostVars
  <2>2. Types'
    <3>1. Types
      OBVIOUS
    <3>2. ecc_model_state' \in States
      BY <1>5 DEF States
    <3> QED
      BY <1>0, <1>5, <2>1, <3>1, <3>2 DEF Types
  <2>3. RdType' /\ WrType' /\ History'
    BY <1>0, <1>2, <1>5, <2>1 DEF RdType, WrType, History, Tasks
  <2>4. Listing'
    <3>1. RdKeeps /\ WrKeeps
      BY <1>2, <1>5 DEF RdKeeps, WrKeeps
    <3>2. RdSeen
      BY <1>5, FreshTask, RdSeenBy
    <3>3. EndsSeen
      BY <1>0, <1>5, <3>2 DEF EndsSeen, RdSeen
    <3> QED
      BY <3>1, <3>3, ListingNext
  <2>5. HitCount'
    BY <1>5 DEF HitCount
  <2>6. OnePdu'
    <3> USE DEF OnePdu, Waits, IsRead, Me, task
    <3>1. ~Filling /\ ~Filling'
      BY <1>0, <1>5, <2>1 DEF Filling, Serves
    <3>2. Serves'
      BY <1>0, <1>5, <2>1 DEF Serves
    <3>3. RdOne'
      BY <1>2, <1>5 DEF RdOne
    <3>4. RdNext'
      BY <1>0, <1>2, <1>5, <2>1 DEF RdNext, RdOther, Serves
    <3>5. WrOne'
      BY <1>5, <3>1 DEF WrOne
    <3>6. WrNext'
      BY <1>0, <1>5, <2>1, <3>1 DEF WrNext, Serves
    <3> QED
      BY <3>2, <3>3, <3>4, <3>5, <3>6
  <2> QED
    BY <2>2, <2>3, <2>4, <2>5, <2>6 DEF SoundNext
<1>6. CASE /\ ecc_model_state' = "GET_ECC_BUF" /\ avail_rd' = None /\ recycle_rd' = S /\ rd_ecc_buf' = buf
           /\ UNCHANGED <<iecc_add_cnt, ecc_pre_state, queue, wr_ecc_buf, ecc_merge_flag,
                          sent, owed, holds, stale>>
  BY <1>1, <1>5, <1>6
<1>7. CASE S # {} /\ avail_rd' = i /\ recycle_rd' = S \ {i}
  <2>1. i \in RdIds /\ recycle_rd' \subseteq RdIds /\ avail_rd' \in RdIds \cup {None}
    BY <1>1, <1>7
  <2>2. DirtyCall(buf) /\ ecc_model_state # "ECC_RD_HIT_DIRTY"
    BY <1>0, <1>4, <2>1
  <2> HIDE DEF buf, SoundInv, Typed
  <2>3. CASE DirtyWrite(buf)
    BY <2>2, <2>3, SoundDirtyWrite
  <2>4. CASE DirtyRead(buf, i)
    BY <2>2, <2>4, SoundDirtyRead
  <2>5. CASE /\ iecc_add_cnt' = 2 /\ EccRead(buf, i)
             /\ UNCHANGED <<wr_ecc_buf, ecc_merge_flag, ecc_model_state, ecc_pre_state>>
    BY <1>2, <2>1, <2>2, <2>5, SoundDirtyEcc
  <2>6. CASE /\ rd_ecc_buf' = buf
             /\ UNCHANGED <<iecc_add_cnt, ecc_model_state, ecc_pre_state, queue,
                            wr_ecc_buf, ecc_merge_flag, sent, owed, holds, stale>>
    BY <1>0, <1>5, <2>1, <2>6
  <2>7. \/ DirtyWrite(buf) \/ DirtyRead(buf, i)
        \/ /\ iecc_add_cnt' = 2 /\ EccRead(buf, i)
           /\ UNCHANGED <<wr_ecc_buf, ecc_merge_flag, ecc_model_state, ecc_pre_state>>
        \/ /\ rd_ecc_buf' = buf
           /\ UNCHANGED <<iecc_add_cnt, ecc_model_state, ecc_pre_state, queue,
                          wr_ecc_buf, ecc_merge_flag, sent, owed, holds, stale>>
    BY <1>3, <1>7, <2>1, Constants DEF RdIds
  <2> QED
    BY <2>3, <2>4, <2>5, <2>6, <2>7
<1> HIDE DEF buf, SoundInv, Typed
<1> QED
  BY <1>3, <1>6, <1>7
-----------------------------------------------------------------------------
(* At the start nothing is listed, and no line is valid.                   *)
LEMMA SoundInit == Init => SoundInv
<1> SUFFICES ASSUME Init PROVE SoundInv
  OBVIOUS
<1>1. Control
  BY ControlInit
<1>2. Types
  <2>1. PICK c \in Cases : config = c.config /\ req = c.req
    BY DEF Init
  <2>2. c = [config |-> c.config, req |-> c.req]
    BY EccAssumption DEF EccAssumption
  <2>3. [config |-> config, req |-> req] \in Cases
    BY <2>1, <2>2
  <2>4. 0 \in 0..(IECC_CONFLICT_CNT + 1)
    BY EccAssumption DEF EccAssumption
  <2>5. /\ in_call = FALSE /\ iecc_add_cnt = 0 /\ ecc_delay = 0 /\ avail_rd = None /\ avail_wr = None
        /\ current_wr_pdu_hit = FALSE /\ ecc_merge_flag = FALSE /\ pdu_push_pending = None
        /\ stale = FALSE /\ miss_dirty = FALSE
    BY DEF Init
  <2>6. ecc_model_state \in States /\ ecc_pre_state \in States
    BY DEF Init, States
  <2>7. iecc_add_cnt \in 0..2 /\ ecc_delay \in 0..(IECC_CONFLICT_CNT + 1)
    BY <2>4, <2>5
  <2>8. /\ in_call \in BOOLEAN /\ current_wr_pdu_hit \in BOOLEAN /\ ecc_merge_flag \in BOOLEAN
        /\ stale \in BOOLEAN /\ miss_dirty \in BOOLEAN
    BY <2>5
  <2>9. avail_rd \in RdIds \cup {None} /\ avail_wr \in WrIds \cup {None}
        /\ pdu_push_pending \in WrIds \cup {None}
    BY <2>5
  <2> QED
    BY <2>3, <2>6, <2>7, <2>8, <2>9 DEF Types
<1>3. <<>> \in Seq(Nat) /\ ToSet(<<>>) = {}
  BY DEF ToSet
<1>4. RdType
  <2>1. [vld |-> FALSE, pdu |-> 0, tasks |-> <<>>] \in RdLine(Seq(Nat))
    BY <1>3 DEF RdLine
  <2> QED
    BY <2>1, Constants DEF Init, RdType
<1>5. WrType
  <2>1. 0 \in 0..MERGE_DEPTH
    BY EccAssumption DEF EccAssumption
  <2>2. [vld |-> FALSE, pdu |-> 0, tasks |-> <<>>, pos |-> {}, dirty |-> FALSE, wr_ecc |-> FALSE,
         merge_cnt |-> 0, hit_cnt |-> 0] \in WrT
    BY <1>3, <2>1 DEF WrT
  <2> QED
    BY <2>2, Constants DEF Init, WrType
<1>6. History
  BY DEF Init, History
<1>7. Listing
  <2>1. \A l \in Slots : List(l) = <<>>
    <3>1. \A k \in RdIds : rd_ecc_buf[k].tasks = <<>>
      BY DEF Init
    <3>2. \A k \in WrIds : wr_ecc_buf[k].tasks = <<>>
      BY DEF Init
    <3> QED
      BY <3>1, <3>2, ListedOn
  <2>2. \A l \in Slots, t \in Nat : ~On(t, l)
    BY <1>3, <2>1 DEF On
  <2> QED
    BY <2>2 DEF Listing, ListOnce, ListSeen
<1>8. HitCount
  <2>1. Cardinality(sent) \in Nat
    BY <1>1, <1>6, TasksFinite
  <2> QED
    BY <2>1 DEF Init, HitCount
<1>9. OnePdu
  BY DEF Init, OnePdu, Serves, RdOne, RdNext, WrOne, WrNext, Filling, Waits
<1> QED
  BY <1>1, <1>2, <1>4, <1>5, <1>6, <1>7, <1>8, <1>9 DEF SoundInv, Typed

(* Every step keeps the lines.                                             *)
LEMMA SoundStep == SoundInv /\ [Next]_vars => SoundInv'
<1> SUFFICES ASSUME SoundInv, [Next]_vars PROVE SoundInv'
  OBVIOUS
<1>1. Control'
  BY ControlNext DEF SoundInv
<1>2. SoundNext => SoundInv'
  BY <1>1 DEF SoundNext, SoundInv
<1>3. CASE UNCHANGED vars
  <2>1. Types' /\ OnePdu'
    BY <1>3 DEF vars, hostVars, stateVars, availVars, rdVars, wrVars, dmcVars, histVars, SoundInv, Typed,
                Types, OnePdu, Serves, RdOne, RdNext, WrOne, WrNext, Filling, Waits, RdOther, WrOther,
                IsRead, Me, task
  <2> QED
    BY <1>2, <1>3, <2>1, SoundSame DEF vars, hostVars, dmcVars, histVars
<1>4. ASSUME NEW t \in Tasks, Offer(t) PROVE SoundInv'
  BY <1>2, <1>4, SoundOffer
<1>5. ASSUME NEW t \in queue, Finish(t) PROVE SoundInv'
  BY <1>2, <1>5, SoundFinish
<1>6. CASE PushPending
  BY <1>2, <1>6, SoundPush
<1>7. CASE Case
  BY <1>2, <1>7, SoundTryHit, SoundNoLine, SoundGetRead, SoundGetWrite, SoundOut, SoundRefuse,
     SoundAddRead, SoundAddWrite, SoundAddEccRead, SoundAddEccWrite, SoundWait, SoundHitDirty,
     SoundMissDirty DEF Case
<1> QED
  BY <1>3, <1>4, <1>5, <1>6, <1>7 DEF Next, Ended

(* The lines, for any requests, configuration and buffers: they hold what  *)
(* they should, a PDU is in one line of each buffer (hit_ecc_buf finds the *)
(* only one), and a task a line lists runs or will be seen to have ended,  *)
(* so that update_rd_ecc_buf and update_wr_ecc_buf, which step over the    *)
(* task behind one they drop, do not lose a line.                          *)
THEOREM LinesSoundHolds == Spec => []LinesSound
<1>1. SoundInv => LinesSound
  <2> SUFFICES ASSUME SoundInv PROVE LinesSound
    OBVIOUS
  <2> USE DEF SoundInv, Typed
  <2>1. /\ NTasks \in Nat /\ Cardinality(sent) \in Nat /\ Cardinality(sent) <= NTasks
    BY TasksFinite, Constants
  <2>2. wr_ecc_buf \in [WrIds -> [vld : BOOLEAN, pdu : Nat, tasks : Seq(Nat), pos : SUBSET Sectors,
                                 dirty : BOOLEAN, wr_ecc : BOOLEAN, merge_cnt : 0..MERGE_DEPTH,
                                 hit_cnt : 0..NTasks]]
    <3> DEFINE T == [vld : BOOLEAN, pdu : Nat, tasks : Seq(Nat), pos : SUBSET Sectors,
                     dirty : BOOLEAN, wr_ecc : BOOLEAN, merge_cnt : 0..MERGE_DEPTH, hit_cnt : 0..NTasks]
    <3>1. ASSUME NEW k \in WrIds PROVE wr_ecc_buf[k] \in T
      <4>1. wr_ecc_buf[k] \in WrT
        BY DEF WrType
      <4>2. wr_ecc_buf[k].hit_cnt \in Nat /\ wr_ecc_buf[k].hit_cnt <= Cardinality(sent)
        BY <4>1 DEF WrT, HitCount
      <4>3. wr_ecc_buf[k].hit_cnt \in 0..NTasks
        BY <2>1, <4>2
      <4> QED
        BY <4>1, <4>3 DEF WrT
    <3>2. wr_ecc_buf = [k \in WrIds |-> wr_ecc_buf[k]]
      BY DEF WrType
    <3> HIDE DEF T
    <3>3. wr_ecc_buf \in [WrIds -> T]
      BY <3>1, <3>2
    <3> QED
      BY <3>3 DEF T
  <2>3. waiting \subseteq Tasks /\ iecc_owner_task \in Tasks \cup {None}
    BY DEF Control, Asked
  <2>4. TypeOK
    <3>1. rd_ecc_buf \in [RdIds -> [vld : BOOLEAN, pdu : Nat, tasks : Seq(Nat)]]
      BY DEF RdType, RdLine
    <3>2. Types /\ RdType /\ WrType /\ History
      OBVIOUS
    <3> HIDE DEF SoundInv, Typed
    <3> QED
      BY <2>2, <2>3, <3>1, <3>2 DEF TypeOK, Types, RdType, WrType, History
  <2>5. OneLine
    BY DEF OneLine, OnePdu, RdOne, WrOne, Filling, Waits
  <2>6. LinesReturn
    <3> SUFFICES ASSUME NEW t \in Listed PROVE t \in queue \cup finished
      BY DEF LinesReturn
    <3>1. PICK l \in Slots : On(t, l)
      BY ListedOn
    <3>2. List(l) \in Seq(Nat)
      BY ListsTyped
    <3>3. t \in Nat
      BY <3>1, <3>2, ListFinite DEF On
    <3> QED
      BY <3>1, <3>3 DEF Listing, ListSeen
  <2> QED
    BY <2>4, <2>5, <2>6 DEF LinesSound
<1> QED
  BY <1>1, SoundInit, SoundStep, PTL DEF Spec
=============================================================================
