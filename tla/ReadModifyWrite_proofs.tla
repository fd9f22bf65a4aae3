------------------------ MODULE ReadModifyWrite_proofs ------------------------
(***************************************************************************)
(* Why no command leaves Rmw before an older one it conflicts with, but    *)
(* for the two ways ConflictsOrdered names.  Every entry of the queue      *)
(* holds the number of entries in front of it that it conflicts with: a    *)
(* new entry counts them, a departure and a merge count all of them again, *)
(* and nothing else changes the addresses in the queue.  Who leaves has a  *)
(* count of zero.  The entries stand in the order of the oldest commands   *)
(* they stand for and cover all of their commands, so an older command     *)
(* behind the one that leaves is passed only by a command that was merged  *)
(* into an older one still.                                                *)
(*                                                                         *)
(* Why no beat of write data is lost, doubled or sent out of turn, and why *)
(* a mask write waits for its read (Inv, below).  An entry of the queue    *)
(* and a transaction of the controller are units that hold one task, or    *)
(* two when writes were merged, and no two units hold one task.  What a    *)
(* unit has and what the driver has yet to send for its tasks make up its  *)
(* length; the task merged away is known to the remap that carries its     *)
(* beats, and to nobody else; the order Rmw keeps lists some entries of    *)
(* the controller's order, in that order, and a write it does not list has *)
(* nothing left to send.  None of these is kept by every step without the  *)
(* others, so they are proved as one inductive invariant.                  *)
(*                                                                         *)
(* It is assumed that UNPAIRED_TO_RMW_EN is off: it lengthens a queued     *)
(* write without counting its conflicts again, after its data were         *)
(* announced.                                                              *)
(***************************************************************************)
EXTENDS ReadModifyWrite, SequenceTheorems, FiniteSetTheorems, FunctionTheorems,
        WellFoundedInduction, TLAPS

EntryT == [task : Nat, first : Nat, kind : {"read", "full", "mask"}, left : Nat, right : Nat,
           ready : Nat, state : {"waiting", "merge_read", "ready"}, conf : Nat, age : Nat]

(* Two entries that touch the same memory in the same way.                 *)
SameSpan(e, f) == e.kind = f.kind /\ e.left = f.left /\ e.right = f.right

Counted(q) == \A i \in 1 .. Len(q) : q[i].conf = ConfCnt(q, q[i], i - 1)
Distinct(q) == \A i, j \in 1 .. Len(q) : i # j => q[i].task # q[j].task
Bounded(q, n) == \A i \in 1 .. Len(q) : q[i].task <= n

(* The ranges an entry may have: what the driver offers, and two merged.   *)
Spans == Offers \cup {[kind |-> "full", left |-> c.left, right |-> c.left + 4] :
                         c \in {d \in Offers : d.kind = "full" /\ Beats(d) = 2}}
Spanned(q) == \A i \in 1 .. Len(q) : \E c \in Spans : SameSpan(c, q[i])

(* An entry covers the one or two commands it stands for, and the entries  *)
(* stand in the order of the oldest command of each.                       *)
Oldest(e) == IF e.first = NoTask THEN e.task ELSE e.first
Named(e) == e.task # NoTask /\ (e.first # NoTask => e.first < e.task /\ e.right = e.left + 4)
Covers(e, s) == \A t \in TasksOf(e) : /\ t \in 1 .. Len(s) /\ s[t].kind = e.kind
                                      /\ e.left <= s[t].left /\ s[t].right <= e.right
Placed(q, s) == /\ \A i \in 1 .. Len(q) : Named(q[i]) /\ Covers(q[i], s)
                /\ \A i, j \in 1 .. Len(q) : i < j => Oldest(q[i]) < Oldest(q[j])

QueInv ==
    /\ RmwQue \in Seq(EntryT)
    /\ Counted(RmwQue) /\ Distinct(RmwQue) /\ Bounded(RmwQue, accepted) /\ Spanned(RmwQue)
    /\ Placed(RmwQue, cmds)
    /\ cmds \in Seq(Offers) /\ accepted \in Nat /\ accepted <= Len(cmds)
-----------------------------------------------------------------------------
(* Of two nonempty ranges, address_conf finds every overlap but that of a  *)
(* new command reaching beyond the old one on both sides.                  *)
THEOREM ConflictIsOverlap ==
    ASSUME NEW a, NEW b,
           a.left \in Nat, a.right \in Nat, b.left \in Nat, b.right \in Nat,
           a.left < a.right, b.left < b.right
    PROVE  address_conf(a, b) <=>
               /\ a.left < b.right /\ b.left < a.right
               /\ ~(a.left < b.left /\ b.right < a.right)
BY DEF address_conf

(* A count is a number.                                                    *)
LEMMA ConfCntType ==
    ASSUME NEW q, NEW e, NEW n \in Int
    PROVE  ConfCnt(q, e, n) \in Nat
<1> DEFINE S == {j \in 1 .. n : Conflict(e, q[j])}
<1>1. IsFiniteSet(1 .. n) /\ S \in SUBSET (1 .. n)
    BY FS_Interval
<1>2. IsFiniteSet(S)
    BY <1>1, FS_Subset
<1>3. Cardinality(S) \in Nat
    <2> HIDE DEF S
    <2> QED BY <1>2, FS_CardinalityType
<1> QED BY <1>3 DEF ConfCnt

(* A count of zero means that there is nothing to count.                   *)
LEMMA ConfCntZero ==
    ASSUME NEW q, NEW e, NEW n \in Int, ConfCnt(q, e, n) = 0
    PROVE  \A j \in 1 .. n : ~Conflict(e, q[j])
<1> DEFINE S == {j \in 1 .. n : Conflict(e, q[j])}
<1>1. IsFiniteSet(1 .. n) /\ S \in SUBSET (1 .. n)
    BY FS_Interval
<1>2. IsFiniteSet(S)
    BY <1>1, FS_Subset
<1>3. S = {}
    <2>1. Cardinality(S) = 0
        BY DEF ConfCnt
    <2> HIDE DEF S
    <2> QED BY <1>2, <2>1, FS_EmptySet
<1> QED BY <1>3

(* The count depends on the spans of the entries only.                     *)
LEMMA ConfCntSame ==
    ASSUME NEW q, NEW r, NEW e, NEW f, NEW n \in Int,
           SameSpan(e, f), \A j \in 1 .. n : SameSpan(q[j], r[j])
    PROVE  ConfCnt(q, e, n) = ConfCnt(r, f, n)
<1>1. \A j \in 1 .. n : Conflict(e, q[j]) <=> Conflict(f, r[j])
    BY DEF SameSpan, Conflict, address_conf, Read
<1>2. {j \in 1 .. n : Conflict(e, q[j])} = {j \in 1 .. n : Conflict(f, r[j])}
    BY <1>1
<1> QED BY <1>2 DEF ConfCnt

(* An entry keeps its count, its task and its span, whatever else changes. *)
LEMMA CountedSame ==
    ASSUME NEW q \in Seq(EntryT), NEW r \in Seq(EntryT), Len(q) = Len(r),
           Counted(q), Distinct(q), NEW n \in Nat, Bounded(q, n), Spanned(q),
           \A i \in 1 .. Len(q) : /\ SameSpan(q[i], r[i])
                                  /\ r[i].conf = q[i].conf /\ r[i].task = q[i].task
    PROVE  Counted(r) /\ Distinct(r) /\ Bounded(r, n) /\ Spanned(r)
<1>1. ASSUME NEW i \in 1 .. Len(r)
      PROVE  r[i].conf = ConfCnt(r, r[i], i - 1)
    <2>1. \A j \in 1 .. i - 1 : SameSpan(q[j], r[j])
        OBVIOUS
    <2>2. ConfCnt(q, q[i], i - 1) = ConfCnt(r, r[i], i - 1)
        BY <2>1, ConfCntSame
    <2> QED BY <2>2 DEF Counted
<1>2. Spanned(r)
    BY DEF Spanned, SameSpan
<1> QED BY <1>1, <1>2 DEF Counted, Distinct, Bounded

(* rebuild_conflict_state counts again, and changes nothing else.          *)
LEMMA Rebuilt ==
    ASSUME NEW q \in Seq(EntryT)
    PROVE  LET r == rebuild_conflict_state(q)
           IN  /\ r \in Seq(EntryT) /\ Len(r) = Len(q) /\ Counted(r)
               /\ \A i \in 1 .. Len(q) : /\ SameSpan(q[i], r[i]) /\ r[i].task = q[i].task
                                         /\ r[i].first = q[i].first
<1> DEFINE r == rebuild_conflict_state(q)
           f(i) == [q[i] EXCEPT !.conf = ConfCnt(q, q[i], i - 1)]
<1>1. \A i \in 1 .. Len(q) : q[i] \in EntryT
    BY ElementOfSeq
<1>2. r = [i \in 1 .. Len(q) |-> f(i)]
    BY LenProperties DEF rebuild_conflict_state
<1>3. ASSUME NEW i \in 1 .. Len(q)
      PROVE  /\ f(i) \in EntryT /\ SameSpan(q[i], f(i)) /\ f(i).task = q[i].task
             /\ f(i).first = q[i].first
             /\ f(i).conf = ConfCnt(q, q[i], i - 1)
    <2>1. ConfCnt(q, q[i], i - 1) \in Nat
        BY ConfCntType
    <2> QED BY <1>1, <2>1 DEF EntryT, SameSpan
<1> HIDE DEF f
<1>4. r \in Seq(EntryT) /\ Len(r) = Len(q)
    BY <1>2, <1>3
<1>5. \A i \in 1 .. Len(q) : r[i] = f(i)
    BY <1>2
<1> HIDE DEF r
<1>6. ASSUME NEW i \in 1 .. Len(r) PROVE r[i].conf = ConfCnt(r, r[i], i - 1)
    <2>1. SameSpan(q[i], r[i]) /\ \A j \in 1 .. i - 1 : SameSpan(q[j], r[j])
        BY <1>3, <1>4, <1>5
    <2>2. ConfCnt(q, q[i], i - 1) = ConfCnt(r, r[i], i - 1)
        BY <2>1, ConfCntSame
    <2> QED BY <1>3, <1>4, <1>5, <2>2
<1>7. Counted(r)
    BY <1>6 DEF Counted
<1> QED BY <1>3, <1>4, <1>5, <1>7 DEF r

(* EraseAt keeps the order of what stays.                                  *)
LEMMA Erased ==
    ASSUME NEW S, NEW s \in Seq(S), NEW n \in 1 .. Len(s)
    PROVE  /\ EraseAt(s, n) \in Seq(S)
           /\ Len(EraseAt(s, n)) = Len(s) - 1
           /\ \A k \in 1 .. Len(s) - 1 : EraseAt(s, n)[k] = s[IF k < n THEN k ELSE k + 1]
<1> DEFINE f == [k \in 1 .. Len(s) - 1 |-> s[IF k < n THEN k ELSE k + 1]]
<1>1. Len(s) - 1 \in Nat
    OBVIOUS
<1>2. \A k \in 1 .. Len(s) - 1 : s[IF k < n THEN k ELSE k + 1] \in S
    OBVIOUS
<1>3. f \in Seq(S) /\ Len(f) = Len(s) - 1
    BY <1>1, <1>2
<1> QED BY <1>3 DEF EraseAt

(* What an entry covers and where it stands depend on its names and span.  *)
SameCommand(e, f) == SameSpan(e, f) /\ f.task = e.task /\ f.first = e.first

LEMMA SameCovers ==
    ASSUME NEW e, NEW f, SameCommand(e, f), NEW s
    PROVE  /\ Named(e) => Named(f)
           /\ Covers(e, s) => Covers(f, s)
           /\ Oldest(f) = Oldest(e)
BY DEF SameCommand, SameSpan, Named, Covers, TasksOf, Oldest

LEMMA PlacedSame ==
    ASSUME NEW q, NEW r, NEW s, Placed(q, s), Len(r) = Len(q),
           \A i \in 1 .. Len(q) : SameCommand(q[i], r[i])
    PROVE  Placed(r, s)
<1>1. \A i \in 1 .. Len(r) : Named(r[i]) /\ Covers(r[i], s) /\ Oldest(r[i]) = Oldest(q[i])
    BY SameCovers DEF Placed
<1> QED BY <1>1 DEF Placed

(* A command more changes nothing.                                         *)
LEMMA PlacedLonger ==
    ASSUME NEW q, NEW S, NEW s \in Seq(S), NEW c \in S, Placed(q, s)
    PROVE  Placed(q, Append(s, c))
<1>1. \A t \in 1 .. Len(s) : t \in 1 .. Len(Append(s, c)) /\ Append(s, c)[t] = s[t]
    BY AppendProperties
<1>2. ASSUME NEW i \in 1 .. Len(q) PROVE Covers(q[i], Append(s, c))
    BY <1>1 DEF Placed, Covers
<1> QED BY <1>2 DEF Placed

(* The oldest command of an entry is one of them, and not the newest.      *)
LEMMA OldestIs ==
    ASSUME NEW e \in EntryT, Named(e)
    PROVE  /\ Oldest(e) \in Nat /\ Oldest(e) \in TasksOf(e) /\ Oldest(e) <= e.task
           /\ \A t \in TasksOf(e) : t \in Nat /\ Oldest(e) <= t
BY DEF EntryT, Named, Oldest, TasksOf, NoTask

(* First finds the first of some positions.                                *)
LEMMA FirstIn ==
    ASSUME NEW n \in Nat, NEW S \in SUBSET (1 .. n), S # {}
    PROVE  First(S) \in S
<1> DEFINE R == OpToRel(<, Nat)
<1>1. \A x, y \in Nat : x < y => <<x, y>> \in R
    BY DEF OpToRel
<1>2. IsWellFoundedOn(R, Nat)
    BY Zenon, NatLessThanWellFounded
<1> HIDE DEF R
<1>3. S \subseteq Nat
    OBVIOUS
<1>4. PICK k \in S : \A y \in S : ~ (<<y, k>> \in R)
    BY <1>2, <1>3, WFMin
<1>5. ASSUME NEW j \in S PROVE k <= j
    <2>1. ~(j < k)
        BY <1>1, <1>3, <1>4
    <2> QED BY <2>1, <1>3
<1> QED BY <1>5 DEF First
-----------------------------------------------------------------------------
(* What a step may never do: let an entry leave the queue, or a mask write *)
(* read, while one in front of it is in conflict with it.                  *)
NonePassed ==
    \A i \in DOMAIN RmwQue : Leaves(i) => \A j \in 1 .. i - 1 : ~Conflict(RmwQue[i], RmwQue[j])

(* An entry that keeps its name, or hands it on as first, does not leave.  *)
LEMMA Stays ==
    ASSUME NEW i \in DOMAIN RmwQue, transactionQueue' \subseteq transactionQueue,
           \E j \in DOMAIN RmwQue' : \/ RmwQue'[j].task = RmwQue[i].task
                                    \/ RmwQue'[j].first = RmwQue[i].task
    PROVE  ~Leaves(i)
BY DEF Leaves, Gone

(* Steps that leave names, spans and counts alone.                         *)
LEMMA QuietStep ==
    ASSUME QueInv, UNCHANGED <<cmds, accepted>>, transactionQueue' \subseteq transactionQueue,
           RmwQue' \in Seq(EntryT), Len(RmwQue') = Len(RmwQue),
           \A i \in 1 .. Len(RmwQue) : /\ SameSpan(RmwQue[i], RmwQue'[i])
                                       /\ RmwQue'[i].conf = RmwQue[i].conf
                                       /\ RmwQue'[i].task = RmwQue[i].task
                                       /\ RmwQue'[i].first = RmwQue[i].first
    PROVE  QueInv' /\ NonePassed
<1>0. Placed(RmwQue', cmds)
    BY PlacedSame DEF QueInv, SameCommand
<1>1. Counted(RmwQue') /\ Distinct(RmwQue') /\ Bounded(RmwQue', accepted) /\ Spanned(RmwQue')
    BY CountedSame DEF QueInv
<1>2. DOMAIN RmwQue = 1 .. Len(RmwQue) /\ DOMAIN RmwQue' = 1 .. Len(RmwQue)
    BY DEF QueInv
<1>3. ASSUME NEW i \in DOMAIN RmwQue PROVE ~Leaves(i)
    BY <1>2, Stays
<1> QED BY <1>0, <1>1, <1>3 DEF QueInv, NonePassed

(* What the handlers change of an entry is not its names, span or count.   *)
Kept(e, f) == /\ f \in EntryT /\ SameSpan(e, f)
              /\ f.conf = e.conf /\ f.task = e.task /\ f.first = e.first

(* So they keep an entry in the sense of Kept.                             *)
LEMMA EntryKept ==
    ASSUME NEW e \in EntryT
    PROVE  /\ Kept(e, e)
           /\ Kept(e, [e EXCEPT !.ready = @ + 1])
           /\ \A n \in Nat : Kept(e, [e EXCEPT !.ready = n])
           /\ \A n \in Nat : Kept(e, [e EXCEPT !.age = n])
           /\ \A s \in {"waiting", "merge_read", "ready"} : Kept(e, [e EXCEPT !.state = s])
BY DEF Kept, EntryT, SameSpan

(* A beat of data for the entry i.                                         *)
LEMMA ReadyBeat ==
    ASSUME QueInv, UNCHANGED <<cmds, accepted, transactionQueue>>,
           NEW i \in 1 .. Len(RmwQue), RmwQue' = ready_beat(i)
    PROVE  QueInv' /\ NonePassed
<1> DEFINE e == [RmwQue[i] EXCEPT !.ready = @ + 1]
<1>1. RmwQue \in Seq(EntryT) /\ RmwQue[i] \in EntryT
    BY ElementOfSeq DEF QueInv
<1>2. /\ e \in EntryT /\ SameSpan(RmwQue[i], e) /\ e.conf = RmwQue[i].conf
      /\ e.task = RmwQue[i].task /\ e.first = RmwQue[i].first
    BY <1>1, EntryKept DEF Kept
<1>3. RmwQue' = [RmwQue EXCEPT ![i] = e]
    BY DEF ready_beat
<1> HIDE DEF e
<1>4. /\ RmwQue' \in Seq(EntryT) /\ Len(RmwQue') = Len(RmwQue)
      /\ \A j \in 1 .. Len(RmwQue) : RmwQue'[j] = IF j = i THEN e ELSE RmwQue[j]
    BY <1>1, <1>2, <1>3, ExceptSeq
<1>5. \A j \in 1 .. Len(RmwQue) : /\ SameSpan(RmwQue[j], RmwQue'[j])
                                   /\ RmwQue'[j].conf = RmwQue[j].conf
                                   /\ RmwQue'[j].task = RmwQue[j].task
                                   /\ RmwQue'[j].first = RmwQue[j].first
    BY <1>2, <1>4 DEF SameSpan
<1> QED BY <1>4, <1>5, QuietStep

(* Handlers that go through the queue and touch each entry by itself.      *)
LEMMA EachEntry ==
    ASSUME QueInv, UNCHANGED <<cmds, accepted>>, transactionQueue' \subseteq transactionQueue,
           RmwQue' = [i \in DOMAIN RmwQue |-> RmwQue'[i]],
           \A i \in 1 .. Len(RmwQue) : Kept(RmwQue[i], RmwQue'[i])
    PROVE  QueInv' /\ NonePassed
<1>1. RmwQue' = [i \in 1 .. Len(RmwQue) |-> RmwQue'[i]]
    BY DEF QueInv
<1>2. RmwQue' \in Seq(EntryT) /\ Len(RmwQue') = Len(RmwQue)
    BY <1>1 DEF QueInv, Kept
<1> QED BY <1>2, QuietStep DEF Kept
-----------------------------------------------------------------------------
(* The command the driver offers is one it may make.                       *)
LEMMA CmdTyped ==
    ASSUME QueInv, Pending
    PROVE  /\ Cmd \in Offers /\ Cmd.kind \in {"read", "full", "mask"}
           /\ Cmd.left \in Nat /\ Cmd.right \in Nat /\ Task \in Nat
           /\ accepted + 1 \in Nat /\ accepted + 1 <= Len(cmds)
<1>1. /\ cmds \in Seq(Offers) /\ accepted \in Nat /\ Len(cmds) \in Nat
      /\ accepted + 1 \in 1 .. Len(cmds)
    BY DEF QueInv, Pending
<1>2. Cmd \in Offers
    BY <1>1, ElementOfSeq DEF Cmd, Task
<1>3. Cmd \in [kind : {"read", "full", "mask"}, left : Nat, right : Nat]
    BY <1>2, RmwAssumption DEF RmwAssumption
<1> HIDE DEF Cmd
<1> QED BY <1>1, <1>2, <1>3 DEF Task

(* A new entry counts the older ones it conflicts with, and has a new name.*)
LEMMA EnqueueStep ==
    ASSUME QueInv, Enqueue
    PROVE  QueInv' /\ NonePassed
<1> DEFINE e == NewEntry(Task, Cmd)
           q == RmwQue
           r == RmwQue'
<1>1. /\ q \in Seq(EntryT) /\ Len(q) \in Nat /\ r = Append(q, e) /\ Pending
      /\ accepted' = accepted + 1 /\ UNCHANGED cmds /\ UNCHANGED transactionQueue
    BY DEF Enqueue, Accept, QueInv
<1>2. /\ e.task = accepted + 1 /\ e.first = NoTask /\ SameSpan(Cmd, e)
      /\ e.conf = ConfCnt(q, Cmd, Len(q)) /\ e \in EntryT
    <2>1. ConfCnt(q, Cmd, Len(q)) \in Nat
        BY <1>1, ConfCntType
    <2>2. e = [task |-> Task, first |-> 0, kind |-> Cmd.kind, left |-> Cmd.left,
               right |-> Cmd.right, ready |-> 0, state |-> "waiting",
               conf |-> ConfCnt(q, Cmd, Len(q)), age |-> 0]
        BY DEF NewEntry, NoTask
    <2> HIDE DEF e
    <2>3. e \in EntryT
        BY <1>1, <2>1, <2>2, CmdTyped DEF EntryT
    <2>4. e.task = Task /\ e.first = NoTask /\ SameSpan(Cmd, e) /\ e.conf = ConfCnt(q, Cmd, Len(q))
        BY <2>2 DEF SameSpan, NoTask
    <2> QED BY <2>3, <2>4 DEF Task
<1> HIDE DEF e
<1>3. /\ r \in Seq(EntryT) /\ Len(r) = Len(q) + 1
      /\ \A i \in 1 .. Len(q) : r[i] = q[i]
      /\ r[Len(q) + 1] = e
    BY <1>1, <1>2, AppendProperties
<1>4. Counted(r)
    <2> SUFFICES ASSUME NEW i \in 1 .. Len(r) PROVE r[i].conf = ConfCnt(r, r[i], i - 1)
        BY DEF Counted
    <2>1. i \in Int /\ i - 1 \in Int /\ \A j \in 1 .. i - 1 : SameSpan(q[j], r[j])
        BY <1>1, <1>3 DEF SameSpan
    <2>2. CASE i = Len(q) + 1
        <3>1. ConfCnt(q, Cmd, i - 1) = ConfCnt(r, r[i], i - 1)
            BY <1>2, <1>3, <2>1, <2>2, ConfCntSame
        <3> QED BY <1>1, <1>2, <1>3, <2>2, <3>1
    <2>3. CASE i # Len(q) + 1
        <3>1. i \in 1 .. Len(q) /\ r[i] = q[i] /\ SameSpan(q[i], r[i])
            BY <1>1, <1>3, <2>3 DEF SameSpan
        <3>2. ConfCnt(q, q[i], i - 1) = ConfCnt(r, r[i], i - 1)
            BY <2>1, <3>1, ConfCntSame
        <3> QED BY <3>1, <3>2 DEF QueInv, Counted
    <2> QED BY <2>2, <2>3
<1>5. Distinct(r) /\ Bounded(r, accepted')
    <2>1. \A i \in 1 .. Len(q) : q[i] \in EntryT
        BY <1>1, ElementOfSeq
    <2>2. \A i \in 1 .. Len(q) : q[i].task \in Nat
        BY <2>1 DEF EntryT
    <2>3. \A i \in 1 .. Len(q) : r[i].task <= accepted /\ r[i].task \in Nat
        BY <1>3, <2>2 DEF QueInv, Bounded
    <2>4. accepted \in Nat /\ r[Len(q) + 1].task = accepted + 1
        BY <1>2, <1>3 DEF QueInv
    <2>5. Bounded(r, accepted')
        BY <1>1, <1>3, <2>3, <2>4 DEF Bounded
    <2>6. ASSUME NEW i \in 1 .. Len(r), NEW j \in 1 .. Len(r), i # j PROVE r[i].task # r[j].task
        <3>1. CASE i \in 1 .. Len(q) /\ j \in 1 .. Len(q)
            BY <1>3, <2>6, <3>1 DEF QueInv, Distinct
        <3>2. CASE ~(i \in 1 .. Len(q) /\ j \in 1 .. Len(q))
            BY <1>1, <1>3, <2>3, <2>4, <2>6, <3>2
        <3> QED BY <3>1, <3>2
    <2> QED BY <2>5, <2>6 DEF Distinct
<1>6. Spanned(r)
    <2>1. Cmd \in Spans
        BY <1>1, CmdTyped DEF Spans
    <2> SUFFICES ASSUME NEW i \in 1 .. Len(r) PROVE \E c \in Spans : SameSpan(c, r[i])
        BY DEF Spanned
    <2>2. CASE i = Len(q) + 1
        BY <1>2, <1>3, <2>1, <2>2
    <2>3. CASE i # Len(q) + 1
        BY <1>1, <1>3, <2>3 DEF QueInv, Spanned
    <2> QED BY <2>2, <2>3
<1>9. Placed(r, cmds)
    <2>1. Named(e) /\ Covers(e, cmds) /\ Oldest(e) = accepted + 1
        <3>1. accepted + 1 \in 1 .. Len(cmds) /\ Cmd = cmds[accepted + 1]
            BY <1>1, CmdTyped DEF QueInv, Cmd, Task
        <3>2. e.left = Cmd.left /\ e.right = Cmd.right /\ e.kind = Cmd.kind
              /\ Cmd.left \in Nat /\ Cmd.right \in Nat
            BY <1>1, <1>2, CmdTyped DEF SameSpan
        <3>3. TasksOf(e) = {accepted + 1}
            BY <1>2, <3>1 DEF TasksOf, NoTask
        <3> QED BY <1>2, <3>1, <3>2, <3>3 DEF Named, Covers, Oldest, NoTask
    <2>2. ASSUME NEW i \in 1 .. Len(q)
          PROVE  Named(q[i]) /\ Covers(q[i], cmds) /\ Oldest(q[i]) < accepted + 1
        <3>1. q[i] \in EntryT /\ Named(q[i]) /\ Covers(q[i], cmds) /\ q[i].task <= accepted
            BY <1>1, ElementOfSeq DEF QueInv, Placed, Bounded
        <3>2. Oldest(q[i]) \in Nat /\ Oldest(q[i]) <= q[i].task /\ q[i].task \in Nat
            BY <3>1, OldestIs DEF EntryT
        <3> QED BY <3>1, <3>2 DEF QueInv
    <2>3. \A i \in 1 .. Len(r) : i \in 1 .. Len(q) \/ i = Len(q) + 1
        BY <1>1, <1>3
    <2>4. \A i \in 1 .. Len(r) : Named(r[i]) /\ Covers(r[i], cmds)
        BY <1>3, <2>1, <2>2, <2>3
    <2>5. ASSUME NEW i \in 1 .. Len(r), NEW j \in 1 .. Len(r), i < j
          PROVE  Oldest(r[i]) < Oldest(r[j])
        <3>1. i \in 1 .. Len(q) /\ r[i] = q[i]
            BY <1>1, <1>3, <2>5
        <3>2. CASE j \in 1 .. Len(q)
            BY <1>3, <2>5, <3>1, <3>2 DEF QueInv, Placed
        <3>3. CASE j = Len(q) + 1
            BY <1>3, <2>1, <2>2, <3>1, <3>3
        <3> QED BY <2>3, <3>2, <3>3
    <2> QED BY <2>4, <2>5 DEF Placed
<1>7. QueInv'
    <2>1. /\ r \in Seq(EntryT) /\ Counted(r) /\ Distinct(r) /\ Bounded(r, accepted') /\ Spanned(r)
          /\ Placed(r, cmds')
        BY <1>1, <1>3, <1>4, <1>5, <1>6, <1>9
    <2>2. cmds' \in Seq(Offers) /\ accepted' \in Nat /\ accepted' <= Len(cmds')
        BY <1>1, CmdTyped DEF QueInv
    <2> QED BY <2>1, <2>2 DEF QueInv
<1>8. ASSUME NEW i \in DOMAIN RmwQue PROVE ~Leaves(i)
    <2>1. i \in 1 .. Len(q) /\ i \in DOMAIN r /\ r[i].task = q[i].task
        BY <1>1, <1>3
    <2> QED BY <1>1, <2>1, Stays
<1> QED BY <1>7, <1>8 DEF NonePassed

(* The names of a queue in which one entry has got the newest name.        *)
LEMMA Renamed ==
    ASSUME NEW q \in Seq(EntryT), NEW r \in Seq(EntryT), Len(r) = Len(q),
           NEW n \in Nat, Distinct(q), Bounded(q, n), NEW k \in 1 .. Len(q),
           r[k].task = n + 1, \A i \in 1 .. Len(q) : i # k => r[i].task = q[i].task
    PROVE  Distinct(r) /\ Bounded(r, n + 1)
<1>1. \A i \in 1 .. Len(q) : q[i] \in EntryT
    BY ElementOfSeq
<1>2. \A i \in 1 .. Len(q) : q[i].task \in Nat
    BY <1>1 DEF EntryT
<1>3. \A i \in 1 .. Len(q) : q[i].task <= n
    BY DEF Bounded
<1>4. Bounded(r, n + 1)
    BY <1>2, <1>3 DEF Bounded
<1>5. ASSUME NEW i \in 1 .. Len(r), NEW j \in 1 .. Len(r), i # j PROVE r[i].task # r[j].task
    <2>1. CASE i # k /\ j # k
        BY <1>5, <2>1 DEF Distinct
    <2>2. CASE i = k \/ j = k
        BY <1>2, <1>3, <1>5, <2>2
    <2> QED BY <2>1, <2>2
<1> QED BY <1>4, <1>5 DEF Distinct

(* build_merged makes an entry with the name of the second command.       *)
LEMMA MergedTyped ==
    ASSUME NEW e \in EntryT, NEW t \in Nat, NEW c, c.left \in Nat
    PROVE  /\ build_merged(e, t, c) \in EntryT
           /\ build_merged(e, t, c).task = t
           /\ build_merged(e, t, c).first = e.task
<1> DEFINE low == IF c.left < e.left THEN c.left ELSE e.left
<1>1. low \in Nat /\ e.task \in Nat
    BY DEF EntryT
<1>2. build_merged(e, t, c) =
          [e EXCEPT !.task = t, !.first = e.task, !.left = low, !.right = low + 4,
                    !.state = "waiting", !.age = 0]
    BY DEF build_merged
<1> HIDE DEF low
<1> DEFINE m1 == [e EXCEPT !.task = t, !.first = e.task, !.left = low]
           high == low + 4
           m2 == [m1 EXCEPT !.right = high, !.state = "waiting", !.age = 0]
<1>3. m1 \in EntryT /\ m1.task = t /\ m1.first = e.task
    BY <1>1 DEF EntryT
<1>4. high \in Nat
    BY <1>1
<1> HIDE DEF m1, high
<1>5. m2 \in EntryT /\ m2.task = t /\ m2.first = e.task
    BY <1>3, <1>4 DEF EntryT
<1>6. build_merged(e, t, c) = m2
    BY <1>2 DEF m1, high
<1> QED BY <1>5, <1>6

(* An offer has a nonempty range.                                          *)
LEMMA OfferTyped == ASSUME NEW c \in Offers
                    PROVE  c.left \in Nat /\ c.right \in Nat /\ c.left < c.right
BY RmwAssumption DEF RmwAssumption

(* Two offered halves merge into a block.                                  *)
LEMMA MergedSpan ==
    ASSUME NEW e \in EntryT, NEW t, NEW c \in Offers, can_merge_write_pair(e, c),
           \E d \in Spans : SameSpan(d, e)
    PROVE  \E d \in Spans : SameSpan(d, build_merged(e, t, c))
<1> DEFINE low == IF c.left < e.left THEN c.left ELSE e.left
           m == build_merged(e, t, c)
<1>1. /\ is_write_merge_candidate(e) /\ is_write_merge_candidate(c)
      /\ e.kind = "full" /\ e.right - e.left = 2 /\ c.kind = "full" /\ c.right - c.left = 2
    BY DEF can_merge_write_pair, is_write_merge_candidate, Beats
<1>2. PICK d \in Spans : d.kind = e.kind /\ d.left = e.left /\ d.right = e.right
    BY DEF SameSpan
<1>3. d \in Offers
    <2>1. ASSUME NEW b \in Offers, d = [kind |-> "full", left |-> b.left, right |-> b.left + 4]
          PROVE  FALSE
        BY <1>1, <1>2, <2>1, OfferTyped
    <2> QED BY <2>1 DEF Spans
<1>4. d.kind = "full" /\ Beats(d) = 2 /\ Beats(c) = 2
    BY <1>1, <1>2 DEF Beats
<1>5. \E b \in Offers : b.kind = "full" /\ Beats(b) = 2 /\ b.left = low
    BY <1>1, <1>2, <1>3, <1>4
<1>6. m.kind = "full" /\ m.left = low /\ m.right = low + 4
    <2>1. e.kind = "full" /\ m = [e EXCEPT !.task = t, !.first = e.task, !.left = low, !.right = low + 4,
                                   !.state = "waiting", !.age = 0]
        BY <1>1 DEF build_merged
    <2> HIDE DEF low, m
    <2> QED BY <2>1 DEF EntryT
<1> HIDE DEF low, m
<1>7. [kind |-> "full", left |-> low, right |-> low + 4] \in Spans
    BY <1>5 DEF Spans
<1> QED BY <1>6, <1>7 DEF SameSpan, m

(* Two halves lie in the block that starts with the lower.                 *)
LEMMA HalvesInBlock ==
    ASSUME NEW c \in Nat, NEW cr \in Nat, NEW d \in Nat, NEW dr \in Nat,
           cr - c = 2, dr - d = 2, c = d + 2 \/ d = c + 2
    PROVE  LET low == IF c < d THEN c ELSE d
           IN  low \in Nat /\ low <= d /\ low <= c /\ dr <= low + 4 /\ cr <= low + 4
OBVIOUS

(* The merged write covers both, and its oldest command is the older one:  *)
(* a write that was merged before is too long to be merged again.          *)
LEMMA MergedPlaced ==
    ASSUME QueInv, Pending, NEW k \in 1 .. Len(RmwQue), can_merge_write_pair(RmwQue[k], Cmd)
    PROVE  LET e == build_merged(RmwQue[k], Task, Cmd)
           IN  Named(e) /\ Covers(e, cmds) /\ Oldest(e) = Oldest(RmwQue[k])
<1> DEFINE d == RmwQue[k]
           c == Cmd
           low == IF c.left < d.left THEN c.left ELSE d.left
           m == build_merged(d, Task, c)
<1>1. d \in EntryT /\ Named(d) /\ Covers(d, cmds) /\ d.task <= accepted
    BY ElementOfSeq DEF QueInv, Placed, Bounded
<1>2. /\ Task = accepted + 1 /\ accepted \in Nat /\ Task \in 1 .. Len(cmds) /\ c = cmds[Task]
      /\ c.left \in Nat /\ c.right \in Nat
    BY CmdTyped DEF QueInv, Cmd, Task
<1>3. /\ d.task \in Nat /\ d.first \in Nat /\ d.left \in Nat /\ d.right \in Nat
      /\ d.task # NoTask /\ (d.first # NoTask => d.right = d.left + 4)
    BY <1>1 DEF EntryT, Named
<1>4. /\ d.kind = "full" /\ c.kind = "full" /\ d.right - d.left = 2 /\ c.right - c.left = 2
      /\ c.left = d.left + 2 \/ d.left = c.left + 2
    BY DEF can_merge_write_pair, is_write_merge_candidate, Beats
<1>5. d.first = NoTask
    BY <1>3, <1>4
<1>6. TasksOf(d) = {d.task} /\ Oldest(d) = d.task
    BY <1>3, <1>5 DEF TasksOf, Oldest
<1>7. /\ d.task \in 1 .. Len(cmds) /\ cmds[d.task].kind = "full"
      /\ d.left <= cmds[d.task].left /\ cmds[d.task].right <= d.right
    BY <1>1, <1>4, <1>6 DEF Covers
<1>8. cmds[d.task].left \in Nat /\ cmds[d.task].right \in Nat
    <2>1. cmds[d.task] \in Offers
        BY <1>7, ElementOfSeq DEF QueInv
    <2> QED BY <2>1, OfferTyped
<1>9. /\ m.task = Task /\ m.first = d.task /\ m.kind = "full"
      /\ m.left = low /\ m.right = low + 4
    <2>1. d.kind = "full" /\ m = [d EXCEPT !.task = Task, !.first = d.task, !.left = low,
                                          !.right = low + 4, !.state = "waiting", !.age = 0]
        BY <1>4 DEF build_merged
    <2> HIDE DEF low, m
    <2> QED BY <1>1, <2>1 DEF EntryT
<1>10. /\ low \in Nat /\ low <= d.left /\ low <= c.left
       /\ d.right <= low + 4 /\ c.right <= low + 4
    BY <1>2, <1>3, <1>4, HalvesInBlock
<1> HIDE DEF d, c, low, m
<1>11. Named(m) /\ Oldest(m) = Oldest(d)
    BY <1>1, <1>2, <1>3, <1>6, <1>9 DEF Named, Oldest, NoTask
<1>12. Covers(m, cmds)
    <2>1. TasksOf(m) = {Task, d.task}
        BY <1>2, <1>3, <1>9 DEF TasksOf, NoTask
    <2>2. m.left <= cmds[Task].left /\ cmds[Task].right <= m.right /\ cmds[Task].kind = m.kind
        BY <1>2, <1>4, <1>9, <1>10
    <2>3. m.left <= cmds[d.task].left /\ cmds[d.task].right <= m.right /\ cmds[d.task].kind = m.kind
        BY <1>3, <1>7, <1>8, <1>9, <1>10
    <2> QED BY <1>2, <1>7, <2>1, <2>2, <2>3 DEF Covers
<1> QED BY <1>11, <1>12 DEF m, d, c

(* A merge renames and lengthens an entry, and counts the conflicts again. *)
LEMMA MergeStep ==
    ASSUME QueInv, Merge
    PROVE  QueInv' /\ NonePassed
<1> DEFINE q == RmwQue
           r == RmwQue'
           k == First(Partners(Cmd))
           e == build_merged(q[k], Task, Cmd)
           m == [q EXCEPT ![k] = e]
<1>1. /\ q \in Seq(EntryT) /\ Len(q) \in Nat /\ DOMAIN q = 1 .. Len(q) /\ Pending
      /\ accepted' = accepted + 1 /\ UNCHANGED cmds /\ UNCHANGED transactionQueue
      /\ r = rebuild_conflict_state(m) /\ Partners(Cmd) # {}
    BY DEF Merge, Accept, QueInv
<1>2. k \in 1 .. Len(q) /\ can_merge_write_pair(q[k], Cmd)
    <2>1. Partners(Cmd) \in SUBSET (1 .. Len(q))
        BY <1>1 DEF Partners
    <2>2. k \in Partners(Cmd)
        BY <1>1, <2>1, FirstIn
    <2> HIDE DEF k
    <2> QED BY <1>1, <2>2 DEF Partners
<1> HIDE DEF k
<1>3. e \in EntryT /\ e.task = accepted + 1 /\ e.first = q[k].task
    <2>1. q[k] \in EntryT
        BY <1>1, <1>2, ElementOfSeq
    <2>2. Task \in Nat /\ Cmd.left \in Nat /\ Task = accepted + 1
        BY <1>1, CmdTyped DEF Task
    <2> DEFINE t == Task
               c == Cmd
    <2>3. q[k] \in EntryT /\ t \in Nat /\ c.left \in Nat
        BY <2>1, <2>2
    <2> HIDE DEF q, r, m, e, t, c
    <2>4. /\ build_merged(q[k], t, c) \in EntryT
          /\ build_merged(q[k], t, c).task = t
          /\ build_merged(q[k], t, c).first = q[k].task
        BY <2>3, MergedTyped
    <2> QED BY <2>2, <2>4 DEF e, t, c
<1>4. \E c \in Spans : SameSpan(c, e)
    <2>1. q[k] \in EntryT
        BY <1>1, <1>2, ElementOfSeq
    <2>2. Cmd \in Offers /\ \E d \in Spans : SameSpan(d, q[k])
        BY <1>1, <1>2, CmdTyped DEF QueInv, Spanned
    <2> QED BY <1>2, <2>1, <2>2, MergedSpan
<1>10. Named(e) /\ Covers(e, cmds) /\ Oldest(e) = Oldest(q[k])
    BY <1>1, <1>2, MergedPlaced
<1> HIDE DEF e
<1>5. /\ m \in Seq(EntryT) /\ Len(m) = Len(q)
      /\ \A i \in 1 .. Len(q) : m[i] = IF i = k THEN e ELSE q[i]
    BY <1>1, <1>2, <1>3, ExceptSeq
<1> HIDE DEF m
<1>6. /\ r \in Seq(EntryT) /\ Len(r) = Len(q) /\ Counted(r)
      /\ \A i \in 1 .. Len(q) : /\ r[i].task = m[i].task /\ r[i].first = m[i].first
                                 /\ SameSpan(m[i], r[i])
    BY <1>1, <1>5, Rebuilt
<1>7. Distinct(r) /\ Bounded(r, accepted + 1)
    <2>1. r[k].task = accepted + 1 /\ \A i \in 1 .. Len(q) : i # k => r[i].task = q[i].task
        BY <1>2, <1>3, <1>5, <1>6
    <2> QED BY <1>1, <1>2, <1>6, <2>1, Renamed DEF QueInv
<1>8. QueInv'
    <2>1. cmds' \in Seq(Offers) /\ accepted' \in Nat /\ accepted' <= Len(cmds')
        BY <1>1, CmdTyped DEF QueInv
    <2>2. Spanned(r)
        <3> SUFFICES ASSUME NEW i \in 1 .. Len(r) PROVE \E c \in Spans : SameSpan(c, r[i])
            BY DEF Spanned
        <3>1. \E c \in Spans : SameSpan(c, q[i])
            BY <1>6 DEF QueInv, Spanned
        <3>2. SameSpan(m[i], r[i]) /\ m[i] = IF i = k THEN e ELSE q[i]
            BY <1>5, <1>6
        <3>3. \E c \in Spans : SameSpan(c, m[i])
            BY <1>4, <3>1, <3>2
        <3> QED BY <3>2, <3>3 DEF SameSpan
    <2>3. Placed(m, cmds)
        <3>1. \A i \in 1 .. Len(m) : Named(m[i]) /\ Covers(m[i], cmds) /\ Oldest(m[i]) = Oldest(q[i])
            BY <1>5, <1>10 DEF QueInv, Placed
        <3> QED BY <1>5, <3>1 DEF QueInv, Placed
    <2>4. Placed(r, cmds)
        BY <1>5, <1>6, <2>3, PlacedSame DEF SameCommand
    <2> QED BY <1>1, <1>6, <1>7, <2>1, <2>2, <2>4 DEF QueInv
<1>9. ASSUME NEW i \in DOMAIN RmwQue PROVE ~Leaves(i)
    <2>1. i \in 1 .. Len(q) /\ i \in DOMAIN r
        BY <1>1, <1>6
    <2>2. r[i].task = q[i].task \/ r[i].first = q[i].task
        BY <1>3, <1>5, <1>6, <2>1
    <2> QED BY <1>1, <2>1, <2>2, Stays
<1> QED BY <1>8, <1>9 DEF NonePassed

(* A command that passes the empty queue by passes nobody.                 *)
LEMMA BypassStep ==
    ASSUME QueInv, Bypass
    PROVE  QueInv' /\ NonePassed
<1>1. /\ RmwQue = <<>> /\ RmwQue' = RmwQue /\ Pending
      /\ accepted' = accepted + 1 /\ UNCHANGED cmds
    BY DEF Bypass, Bypasses, Accept
<1>2. Len(RmwQue) = 0 /\ DOMAIN RmwQue = {}
    BY <1>1
<1>3. cmds' \in Seq(Offers) /\ accepted' \in Nat /\ accepted' <= Len(cmds')
    BY <1>1, CmdTyped DEF QueInv
<1>4. /\ Counted(RmwQue') /\ Distinct(RmwQue') /\ Bounded(RmwQue', accepted') /\ Spanned(RmwQue')
      /\ Placed(RmwQue', cmds')
    BY <1>1, <1>2 DEF Counted, Distinct, Bounded, Spanned, Placed
<1> QED BY <1>1, <1>2, <1>3, <1>4 DEF QueInv, NonePassed

(* The driver makes a command.                                             *)
LEMMA NewCommandStep ==
    ASSUME QueInv, NewCommand
    PROVE  QueInv' /\ NonePassed
<1>1. PICK c \in Offers : cmds' = Append(cmds, c)
    BY DEF NewCommand
<1>2. UNCHANGED <<RmwQue, accepted, transactionQueue>>
    BY DEF NewCommand, mcVars
<1>3. cmds' \in Seq(Offers) /\ Len(cmds') = Len(cmds) + 1
    BY <1>1 DEF QueInv
<1>4. QueInv'
    <2>1. Placed(RmwQue, cmds')
        BY <1>1, PlacedLonger DEF QueInv
    <2> QED BY <1>2, <1>3, <2>1 DEF QueInv
<1>5. ASSUME NEW i \in DOMAIN RmwQue PROVE ~Leaves(i)
    BY <1>2, Stays
<1> QED BY <1>4, <1>5 DEF NonePassed
-----------------------------------------------------------------------------
(* Whose turn it is has no older command to wait for.                      *)
LEMMA TurnFree ==
    ASSUME QueInv, Turn
    PROVE  /\ Next1 \in 1 .. Len(RmwQue)
           /\ \A j \in 1 .. Next1 - 1 : ~Conflict(RmwQue[Next1], RmwQue[j])
<1>1. Eligible \in SUBSET (1 .. Len(RmwQue)) /\ Eligible # {} /\ Len(RmwQue) \in Nat
    BY DEF Eligible, Turn, QueInv
<1>2. Next1 \in Eligible
    BY <1>1, FirstIn DEF Next1
<1> HIDE DEF Next1
<1>3. RmwQue[Next1].conf = 0
    BY <1>2 DEF Eligible, MayGo
<1>4. ConfCnt(RmwQue, RmwQue[Next1], Next1 - 1) = 0
    BY <1>1, <1>2, <1>3 DEF QueInv, Counted
<1>5. Next1 - 1 \in Int
    BY <1>1, <1>2
<1> QED BY <1>1, <1>2, <1>4, <1>5, ConfCntZero

(* The one whose turn it is leaves or reads, nobody else.                  *)
LEMMA OneGoes ==
    ASSUME QueInv, Turn, RmwQue' \in Seq(EntryT),
           \A x \in transactionQueue' \ transactionQueue : x.task = RmwQue[Next1].task,
           \A i \in 1 .. Len(RmwQue) : i # Next1 =>
               \E j \in 1 .. Len(RmwQue') : RmwQue'[j].task = RmwQue[i].task
    PROVE  NonePassed
<1>1. DOMAIN RmwQue = 1 .. Len(RmwQue) /\ DOMAIN RmwQue' = 1 .. Len(RmwQue')
    BY DEF QueInv
<1>2. Next1 \in 1 .. Len(RmwQue) /\ \A j \in 1 .. Next1 - 1 : ~Conflict(RmwQue[Next1], RmwQue[j])
    BY TurnFree
<1> HIDE DEF Next1
<1>3. ASSUME NEW i \in DOMAIN RmwQue, i # Next1 PROVE ~Leaves(i)
    <2>1. RmwQue[i].task # RmwQue[Next1].task
        BY <1>1, <1>2, <1>3 DEF QueInv, Distinct
    <2>2. \E j \in DOMAIN RmwQue' : RmwQue'[j].task = RmwQue[i].task
        BY <1>1, <1>3
    <2> QED BY <2>1, <2>2 DEF Leaves, Gone
<1> QED BY <1>2, <1>3 DEF NonePassed

(* A mask write reads, and stays.                                          *)
LEMMA SendMergeReadStep ==
    ASSUME QueInv, SendMergeRead
    PROVE  QueInv' /\ NonePassed
<1> DEFINE q == RmwQue
           k == Next1
           e == [q[k] EXCEPT !.state = "merge_read"]
<1>1. /\ q \in Seq(EntryT) /\ k \in 1 .. Len(q) /\ Turn /\ q[k] \in EntryT
      /\ UNCHANGED <<cmds, accepted>>
    BY TurnFree, ElementOfSeq DEF SendMergeRead, QueInv, Turn, Arb, hostVars
<1>2. q' = [q EXCEPT ![k] = e]
    BY DEF SendMergeRead
<1>3. \A x \in transactionQueue' \ transactionQueue : x.task = q[k].task
    BY DEF SendMergeRead, push_after_rmw
<1>4. Kept(q[k], e)
    BY <1>1, EntryKept
<1> HIDE DEF k, e
<1>5. /\ q' \in Seq(EntryT) /\ Len(q') = Len(q)
      /\ \A i \in 1 .. Len(q) : q'[i] = IF i = k THEN e ELSE q[i]
    BY <1>1, <1>2, <1>4, ExceptSeq DEF Kept
<1>6. \A i \in 1 .. Len(q) : /\ SameSpan(q[i], q'[i]) /\ q'[i].first = q[i].first
                             /\ q'[i].conf = q[i].conf /\ q'[i].task = q[i].task
    BY <1>4, <1>5 DEF Kept, SameSpan
<1>7. QueInv'
    <2>1. Counted(q') /\ Distinct(q') /\ Bounded(q', accepted) /\ Spanned(q')
        BY <1>5, <1>6, CountedSame DEF QueInv
    <2>2. Placed(q', cmds)
        BY <1>5, <1>6, PlacedSame DEF QueInv, SameCommand
    <2> QED BY <1>1, <1>5, <2>1, <2>2 DEF QueInv
<1>8. NonePassed
    BY <1>1, <1>3, <1>5, <1>6, OneGoes DEF k
<1> QED BY <1>7, <1>8

(* A command leaves, and the others are counted again.                     *)
LEMMA LeaveStep ==
    ASSUME QueInv, Turn, UNCHANGED <<cmds, accepted>>,
           RmwQue' = rebuild_conflict_state(EraseAt(RmwQue, Next1)),
           \A x \in transactionQueue' \ transactionQueue : x.task = RmwQue[Next1].task
    PROVE  QueInv' /\ NonePassed
<1> DEFINE q == RmwQue
           k == Next1
           m == EraseAt(q, k)
           old(i) == IF i < k THEN i ELSE i + 1
<1>1. q \in Seq(EntryT) /\ k \in 1 .. Len(q) /\ Len(q) \in Nat
    BY TurnFree DEF QueInv
<1> HIDE DEF k
<1>2. /\ m \in Seq(EntryT) /\ Len(m) = Len(q) - 1
      /\ \A i \in 1 .. Len(q) - 1 : m[i] = q[IF i < k THEN i ELSE i + 1]
    BY <1>1, Erased
<1> HIDE DEF m
<1>3. /\ q' \in Seq(EntryT) /\ Len(q') = Len(q) - 1 /\ Counted(q')
      /\ \A i \in 1 .. Len(q) - 1 : /\ q'[i].task = q[old(i)].task /\ SameSpan(q[old(i)], q'[i])
                                     /\ q'[i].first = q[old(i)].first
    <2>1. q' = rebuild_conflict_state(m)
        BY DEF k, m
    <2> QED BY <1>2, <2>1, Rebuilt
<1>4. \A i \in 1 .. Len(q) - 1 : old(i) \in 1 .. Len(q)
    BY <1>1
<1>5. Distinct(q')
    <2> SUFFICES ASSUME NEW i \in 1 .. Len(q'), NEW j \in 1 .. Len(q'), i # j
                 PROVE  q'[i].task # q'[j].task
        BY DEF Distinct
    <2>1. old(i) # old(j)
        BY <1>1, <1>3
    <2> HIDE DEF old
    <2>2. old(i) \in 1 .. Len(q) /\ old(j) \in 1 .. Len(q)
        BY <1>3, <1>4
    <2>3. q[old(i)].task # q[old(j)].task
        BY <2>1, <2>2 DEF QueInv, Distinct
    <2>4. q'[i].task = q[old(i)].task /\ q'[j].task = q[old(j)].task
        BY <1>3
    <2> QED BY <2>3, <2>4
<1>6. Bounded(q', accepted)
    <2> HIDE DEF old
    <2> QED BY <1>3, <1>4 DEF QueInv, Bounded
<1>7. QueInv'
    <2>1. Spanned(q')
        <3> SUFFICES ASSUME NEW i \in 1 .. Len(q') PROVE \E c \in Spans : SameSpan(c, q'[i])
            BY DEF Spanned
        <3> HIDE DEF old
        <3>1. old(i) \in 1 .. Len(q) /\ SameSpan(q[old(i)], q'[i])
            BY <1>3, <1>4
        <3>2. \E c \in Spans : SameSpan(c, q[old(i)])
            BY <3>1 DEF QueInv, Spanned
        <3> QED BY <3>1, <3>2 DEF SameSpan
    <2>2. Placed(q', cmds)
        <3>1. \A i, j \in 1 .. Len(q) - 1 : i < j => old(i) < old(j)
            BY <1>1
        <3> HIDE DEF old
        <3>2. ASSUME NEW i \in 1 .. Len(q) - 1
              PROVE  Named(q'[i]) /\ Covers(q'[i], cmds) /\ Oldest(q'[i]) = Oldest(q[old(i)])
            BY <1>3, <1>4, SameCovers DEF SameCommand, QueInv, Placed
        <3> QED BY <1>3, <1>4, <3>1, <3>2 DEF QueInv, Placed
    <2> QED BY <1>3, <1>5, <1>6, <2>1, <2>2 DEF QueInv
<1>8. ASSUME NEW i \in 1 .. Len(q), i # k
      PROVE  \E j \in 1 .. Len(q') : q'[j].task = q[i].task
    <2> DEFINE j == IF i < k THEN i ELSE i - 1
    <2>1. j \in 1 .. Len(q') /\ old(j) = i
        BY <1>1, <1>3, <1>8
    <2> HIDE DEF j, old
    <2> QED BY <1>3, <2>1
<1>9. NonePassed
    BY <1>3, <1>8, OneGoes DEF k
<1> QED BY <1>7, <1>9

(* A read leaves.                                                          *)
LEMMA SendReadStep ==
    ASSUME QueInv, SendRead
    PROVE  QueInv' /\ NonePassed
<1>1. /\ Turn /\ UNCHANGED <<cmds, accepted>>
      /\ RmwQue' = rebuild_conflict_state(EraseAt(RmwQue, Next1))
    BY DEF SendRead, Turn, Arb, hostVars
<1>2. \A x \in transactionQueue' \ transactionQueue : x.task = RmwQue[Next1].task
    BY DEF SendRead, push_after_rmw
<1> QED BY <1>1, <1>2, LeaveStep

(* A write leaves.                                                         *)
LEMMA SendWriteStep ==
    ASSUME QueInv, SendWrite
    PROVE  QueInv' /\ NonePassed
<1>1. /\ Turn /\ UNCHANGED <<cmds, accepted>>
      /\ RmwQue' = rebuild_conflict_state(EraseAt(RmwQue, Next1))
    BY DEF SendWrite, Turn, Arb, hostVars
<1>2. \A x \in transactionQueue' \ transactionQueue : x.task = RmwQue[Next1].task
    BY DEF SendWrite, push_after_rmw
<1> QED BY <1>1, <1>2, LeaveStep
-----------------------------------------------------------------------------
(* A refusal takes data away, never a name, a span or a count.             *)
LEMMA BacklogRefusesStep ==
    ASSUME QueInv, BacklogRefuses
    PROVE  QueInv' /\ NonePassed
<1> DEFINE f(i) == IF i \in Eligible /\ ~NeedsRead(RmwQue[i]) THEN [RmwQue[i] EXCEPT !.ready = 0]
                   ELSE RmwQue[i]
<1>1. \A i \in 1 .. Len(RmwQue) : RmwQue[i] \in EntryT
    BY ElementOfSeq DEF QueInv
<1>2. \A i \in 1 .. Len(RmwQue) : Kept(RmwQue[i], f(i))
    BY <1>1, EntryKept
<1>3. /\ RmwQue' = [i \in DOMAIN RmwQue |-> f(i)]
      /\ UNCHANGED <<cmds, accepted>> /\ transactionQueue' \subseteq transactionQueue
    BY DEF BacklogRefuses, Turn, Arb, hostVars
<1> HIDE DEF f
<1>4. RmwQue' = [i \in DOMAIN RmwQue |-> RmwQue'[i]] /\ DOMAIN RmwQue = 1 .. Len(RmwQue)
    BY <1>3 DEF QueInv
<1>5. \A i \in 1 .. Len(RmwQue) : Kept(RmwQue[i], RmwQue'[i])
    BY <1>2, <1>3, <1>4
<1> QED BY <1>3, <1>4, <1>5, EachEntry

(* sch_que makes entries ready.  Here the conversion of an unpaired write  *)
(* is ruled out.                                                           *)
LEMMA SchQueStep ==
    ASSUME QueInv, SchQue, ~UNPAIRED_TO_RMW_EN
    PROVE  QueInv' /\ NonePassed
<1> DEFINE f(i) == sch_entry(RmwQue[i])
<1>1. \A i \in 1 .. Len(RmwQue) : RmwQue[i] \in EntryT
    BY ElementOfSeq DEF QueInv
<1>2. \A i \in 1 .. Len(RmwQue) :
          f(i) = RmwQue[i] \/ f(i) = [RmwQue[i] EXCEPT !.state = "ready"]
    BY DEF sch_entry, Converted
<1> HIDE DEF f
<1>3. \A i \in 1 .. Len(RmwQue) : Kept(RmwQue[i], f(i))
    BY <1>1, <1>2, EntryKept
<1>4. /\ RmwQue' = [i \in DOMAIN RmwQue |-> f(i)]
      /\ UNCHANGED <<cmds, accepted>> /\ transactionQueue' \subseteq transactionQueue
    BY DEF SchQue, hostVars, mcVars, f
<1>5. RmwQue' = [i \in DOMAIN RmwQue |-> RmwQue'[i]] /\ DOMAIN RmwQue = 1 .. Len(RmwQue)
    BY <1>4 DEF QueInv
<1>6. \A i \in 1 .. Len(RmwQue) : Kept(RmwQue[i], RmwQue'[i])
    BY <1>3, <1>4, <1>5
<1> QED BY <1>4, <1>5, <1>6, EachEntry

(* At the end of a cycle the entries age.                                  *)
LEMMA AgesStep ==
    ASSUME QueInv, Ages, UNCHANGED <<cmds, accepted>>, transactionQueue' \subseteq transactionQueue
    PROVE  QueInv' /\ NonePassed
<1> DEFINE f(i) == [RmwQue[i] EXCEPT !.age = IF @ < AgeMax THEN @ + 1 ELSE @]
<1>1. \A i \in 1 .. Len(RmwQue) : RmwQue[i] \in EntryT
    BY ElementOfSeq DEF QueInv
<1>2. \A i \in 1 .. Len(RmwQue) : RmwQue[i].age \in Nat
    BY <1>1 DEF EntryT
<1>3. ASSUME NEW i \in 1 .. Len(RmwQue) PROVE Kept(RmwQue[i], f(i))
    <2> DEFINE n == IF RmwQue[i].age < AgeMax THEN RmwQue[i].age + 1 ELSE RmwQue[i].age
    <2>1. n \in Nat
        BY <1>2
    <2>2. f(i) = [RmwQue[i] EXCEPT !.age = n]
        OBVIOUS
    <2> HIDE DEF n
    <2> QED BY <1>1, <2>1, <2>2, EntryKept
<1>4. RmwQue' = [i \in DOMAIN RmwQue |-> f(i)]
    BY DEF Ages
<1> HIDE DEF f
<1>5. RmwQue' = [i \in DOMAIN RmwQue |-> RmwQue'[i]] /\ DOMAIN RmwQue = 1 .. Len(RmwQue)
    BY <1>4 DEF QueInv
<1>6. \A i \in 1 .. Len(RmwQue) : Kept(RmwQue[i], RmwQue'[i])
    BY <1>3, <1>4, <1>5
<1> QED BY <1>5, <1>6, EachEntry

(* A beat for a queued write.                                              *)
LEMMA LackingStep ==
    ASSUME QueInv, UNCHANGED <<cmds, accepted, transactionQueue>>,
           NEW t, Lacking(t) # {}, RmwQue' = ready_beat(First(Lacking(t)))
    PROVE  QueInv' /\ NonePassed
<1>1. Lacking(t) \in SUBSET (1 .. Len(RmwQue)) /\ Len(RmwQue) \in Nat
    BY DEF Lacking, Holder, QueInv
<1>2. First(Lacking(t)) \in 1 .. Len(RmwQue)
    BY <1>1, FirstIn
<1> QED BY <1>2, ReadyBeat

(* Steps that leave the queue alone and send nothing.                      *)
LEMMA IdleStep ==
    ASSUME QueInv, UNCHANGED <<cmds, accepted, RmwQue, transactionQueue>>
    PROVE  QueInv' /\ NonePassed
<1>1. \A i \in DOMAIN RmwQue : ~Leaves(i)
    BY Stays
<1> QED BY <1>1 DEF QueInv, NonePassed

(* A beat by any route.                                                    *)
LEMMA BeatStep ==
    ASSUME QueInv, BeatToMerged \/ BeatRemapped \/ BeatFast \/ BeatQueued \/ BeatPassed
    PROVE  QueInv' /\ NonePassed
<1>1. UNCHANGED <<cmds, accepted, transactionQueue>>
    BY DEF BeatToMerged, BeatRemapped, BeatFast, BeatQueued, BeatPassed, Beat, mcVars
<1>2. CASE BeatToMerged \/ BeatFast \/ BeatPassed
    BY <1>1, <1>2, IdleStep DEF BeatToMerged, BeatFast, BeatPassed
<1>3. CASE BeatRemapped
    <2> DEFINE t == Head(write_task)
               dst == remaps[First(RemapsOf(t))].dst
    <2>1. RmwQue' = RmwQue \/ (RMW_CMD_MODE = 1 /\ RmwQue' = ready_beat(First(Lacking(dst))))
        BY <1>3 DEF BeatRemapped
    <2>2. RMW_CMD_MODE = 1 => Lacking(dst) # {}
        BY <1>3 DEF BeatRemapped, Beat, Route, RemapFits
    <2> HIDE DEF dst
    <2> QED BY <1>1, <2>1, <2>2, IdleStep, LackingStep
<1>4. CASE BeatQueued
    <2>1. RmwQue' = ready_beat(First(Lacking(Head(write_task)))) /\ Lacking(Head(write_task)) # {}
        BY <1>4 DEF BeatQueued, Beat, Route
    <2> QED BY <1>1, <2>1, LackingStep
<1> QED BY <1>2, <1>3, <1>4
-----------------------------------------------------------------------------
(* The queue is empty at first.                                            *)
LEMMA InvInit == Init => QueInv
<1> SUFFICES ASSUME Init PROVE QueInv
    OBVIOUS
<1>1. RmwQue = <<>> /\ cmds = <<>> /\ accepted = 0
    BY DEF Init
<1>2. Len(RmwQue) = 0 /\ Len(cmds) = 0 /\ RmwQue \in Seq(EntryT) /\ cmds \in Seq(Offers)
    BY <1>1
<1>3. /\ Counted(RmwQue) /\ Distinct(RmwQue) /\ Bounded(RmwQue, accepted) /\ Spanned(RmwQue)
      /\ Placed(RmwQue, cmds)
    BY <1>2 DEF Counted, Distinct, Bounded, Spanned, Placed
<1> QED BY <1>1, <1>2, <1>3 DEF QueInv

(* Every step keeps the counts right and lets nobody pass.                 *)
LEMMA InvStep ==
    ASSUME QueInv, [Next]_vars, ~UNPAIRED_TO_RMW_EN
    PROVE  QueInv' /\ NonePassed
<1>1. CASE NoCommand \/ Refused \/ NoBeat \/ SendWdata \/ NoWdata
    BY <1>1, IdleStep DEF NoCommand, Refused, NoBeat, SendWdata, NoWdata, hostVars, mcVars
<1>2. CASE NoneSent
    BY <1>2, IdleStep DEF NoneSent, Arb, hostVars
<1>3. ASSUME NEW x \in transactionQueue, Finish(x) PROVE QueInv' /\ NonePassed
    BY <1>3, AgesStep DEF Finish, hostVars
<1>4. CASE FinishNone
    BY <1>4, AgesStep DEF FinishNone, hostVars, mcVars
<1>5. CASE Stopped \/ UNCHANGED vars
    BY <1>5, IdleStep DEF Stopped, vars, hostVars, mcVars
<1> QED BY <1>1, <1>2, <1>3, <1>4, <1>5, NewCommandStep, MergeStep, EnqueueStep, BypassStep,
           BeatStep, SchQueStep, SendMergeReadStep, SendReadStep, SendWriteStep,
           BacklogRefusesStep DEF Next

(* The count of conflicts in each entry is right in every state.           *)
THEOREM CountsRight == ~UNPAIRED_TO_RMW_EN => (Spec => []QueInv)
<1> SUFFICES ASSUME ~UNPAIRED_TO_RMW_EN PROVE Spec => []QueInv
    OBVIOUS
<1>1. QueInv /\ [Next]_vars => QueInv'
    BY InvStep
<1> QED BY InvInit, <1>1, PTL DEF Spec

(* No entry leaves, and no mask write reads, while an entry in front of it *)
(* is in conflict with it, as address_conf sees it.                        *)
LEMMA FrontGoesFirst == ~UNPAIRED_TO_RMW_EN => (Spec => [][NonePassed]_vars)
<1> SUFFICES ASSUME ~UNPAIRED_TO_RMW_EN PROVE Spec => [][NonePassed]_vars
    OBVIOUS
<1>1. Spec => []QueInv
    BY CountsRight
<1>2. QueInv /\ [Next]_vars => [NonePassed]_vars
    BY InvStep
<1> QED BY <1>1, <1>2, PTL DEF Spec

(* What two ranges share, any two that cover them share.                   *)
LEMMA WiderShare ==
    ASSUME NEW l \in Nat, NEW m \in Nat, NEW n \in Nat, NEW r \in Nat, l <= m, m < n, n <= r
    PROVE  l < r
OBVIOUS

(* Two commands that touch the same memory make their entries conflict,    *)
(* unless the one behind reaches beyond the other on both sides.           *)
LEMMA OverlapFound ==
    ASSUME QueInv, NEW i \in 1 .. Len(RmwQue), NEW j \in 1 .. Len(RmwQue),
           NEW b \in TasksOf(RmwQue[i]), NEW a \in TasksOf(RmwQue[j]), Overlap(cmds[b], cmds[a])
    PROVE  Conflict(RmwQue[i], RmwQue[j]) \/ Beyond(RmwQue[i], RmwQue[j])
<1> DEFINE e == RmwQue[i]
           d == RmwQue[j]
           y == cmds[b]
           x == cmds[a]
<1>1. /\ b \in 1 .. Len(cmds) /\ y.kind = e.kind /\ e.left <= y.left /\ y.right <= e.right
      /\ a \in 1 .. Len(cmds) /\ x.kind = d.kind /\ d.left <= x.left /\ x.right <= d.right
    BY DEF QueInv, Placed, Covers
<1>2. y \in Offers /\ x \in Offers
    BY <1>1, ElementOfSeq DEF QueInv
<1>3. /\ y.left \in Nat /\ y.right \in Nat /\ y.left < y.right
      /\ x.left \in Nat /\ x.right \in Nat /\ x.left < x.right
    BY <1>2, OfferTyped
<1>4. /\ e.left \in Nat /\ e.right \in Nat /\ d.left \in Nat /\ d.right \in Nat
    <2>1. e \in EntryT /\ d \in EntryT
        BY ElementOfSeq DEF QueInv
    <2> QED BY <2>1 DEF EntryT
<1>5. y.left < x.right /\ x.left < y.right /\ ~(Read(e) /\ Read(d))
    BY <1>1 DEF Overlap, Read
<1> HIDE DEF e, d, x, y
<1>6. e.left < d.right /\ d.left < e.right /\ e.left < e.right /\ d.left < d.right
    <2> DEFINE el == e.left
               er == e.right
               dl == d.left
               dr == d.right
               yl == y.left
               yr == y.right
               xl == x.left
               xr == x.right
    <2>1. /\ el \in Nat /\ er \in Nat /\ dl \in Nat /\ dr \in Nat
          /\ yl \in Nat /\ yr \in Nat /\ xl \in Nat /\ xr \in Nat
          /\ el <= yl /\ yr <= er /\ dl <= xl /\ xr <= dr
          /\ yl < yr /\ xl < xr /\ yl < xr /\ xl < yr
        BY <1>1, <1>3, <1>4, <1>5
    <2> HIDE DEF el, er, dl, dr, yl, yr, xl, xr
    <2>2. el < dr /\ dl < er /\ el < er /\ dl < dr
        BY <2>1, WiderShare
    <2> QED BY <2>2 DEF el, er, dl, dr
<1>7. address_conf(e, d) \/ Beyond(e, d)
    BY <1>4, <1>6, ConflictIsOverlap DEF Beyond
<1> QED BY <1>5, <1>7 DEF Conflict, e, d

(* ConflictsOrdered for every instance without UNPAIRED_TO_RMW_EN: of two  *)
(* commands that touch the same memory the older leaves Rmw first, unless  *)
(* the newer was merged into a write older than both, or its entry reaches *)
(* beyond that of the older on both sides (cmd_set_conflict,               *)
(* rebuild_conflict_state, handle_write_merge_transaction, arb_node).      *)
THEOREM ConflictsOrderedHolds == ~UNPAIRED_TO_RMW_EN => (Spec => ConflictsOrdered)
<1> SUFFICES ASSUME ~UNPAIRED_TO_RMW_EN PROVE Spec => ConflictsOrdered
    OBVIOUS
<1> DEFINE P == \A i, j \in DOMAIN RmwQue : i # j /\ Leaves(i) =>
                    \A b \in TasksOf(RmwQue[i]), a \in TasksOf(RmwQue[j]) :
                        a < b /\ Overlap(cmds[b], cmds[a]) =>
                            Carried(RmwQue[i], a) \/ Beyond(RmwQue[i], RmwQue[j])
<1>1. ASSUME QueInv, NonePassed PROVE P
    <2> SUFFICES ASSUME NEW i \in DOMAIN RmwQue, NEW j \in DOMAIN RmwQue, i # j, Leaves(i),
                        NEW b \in TasksOf(RmwQue[i]), NEW a \in TasksOf(RmwQue[j]),
                        a < b, Overlap(cmds[b], cmds[a])
                 PROVE  Carried(RmwQue[i], a) \/ Beyond(RmwQue[i], RmwQue[j])
        OBVIOUS
    <2>1. i \in 1 .. Len(RmwQue) /\ j \in 1 .. Len(RmwQue) /\ Len(RmwQue) \in Nat
        BY <1>1 DEF QueInv
    <2>2. CASE j < i
        <3>1. j \in 1 .. i - 1
            BY <2>1, <2>2
        <3>2. ~Conflict(RmwQue[i], RmwQue[j])
            BY <1>1, <3>1 DEF NonePassed
        <3> QED BY <1>1, <2>1, <3>2, OverlapFound
    <2>3. CASE i < j
        <3>1. /\ RmwQue[i] \in EntryT /\ RmwQue[j] \in EntryT /\ Named(RmwQue[i]) /\ Named(RmwQue[j])
              /\ Oldest(RmwQue[i]) < Oldest(RmwQue[j])
            BY <1>1, <2>1, <2>3, ElementOfSeq DEF QueInv, Placed
        <3>2. /\ Oldest(RmwQue[i]) \in Nat /\ Oldest(RmwQue[j]) \in Nat
              /\ a \in Nat /\ b \in Nat /\ Oldest(RmwQue[j]) <= a
            BY <3>1, OldestIs
        <3>3. Oldest(RmwQue[i]) < a /\ b # Oldest(RmwQue[i])
            BY <3>1, <3>2
        <3>4. RmwQue[i].first # NoTask
            BY <3>3 DEF Oldest, TasksOf
        <3> QED BY <3>3, <3>4 DEF Oldest, Carried
    <2> QED BY <2>1, <2>2, <2>3
<1>2. Spec => []QueInv
    BY CountsRight
<1>3. Spec => [][NonePassed]_vars
    BY FrontGoesFirst
<1>4. QueInv /\ [NonePassed]_vars => [P]_vars
    BY <1>1
<1> HIDE DEF P
<1>5. Spec => [][P]_vars
    BY <1>2, <1>3, <1>4, PTL
<1> QED BY <1>5 DEF P, ConflictsOrdered
-----------------------------------------------------------------------------
(***************************************************************************)
(* Counting the beats of a task in a sequence of tasks.                    *)
(***************************************************************************)
LEMMA CountType ==
    ASSUME NEW S, NEW s \in Seq(S), NEW t
    PROVE  /\ IsFiniteSet({i \in DOMAIN s : s[i] = t})
           /\ Count(s, t) \in Nat
           /\ Count(s, t) = 0 <=> \A i \in 1 .. Len(s) : s[i] # t
<1> DEFINE I == {i \in DOMAIN s : s[i] = t}
<1>1. Len(s) \in Nat /\ DOMAIN s = 1 .. Len(s)
    OBVIOUS
<1>2. IsFiniteSet(1 .. Len(s)) /\ I \in SUBSET (1 .. Len(s))
    BY <1>1, FS_Interval
<1>3. IsFiniteSet(I)
    BY <1>2, FS_Subset
<1>4. Cardinality(I) \in Nat /\ (Cardinality(I) = 0 <=> I = {})
    <2> HIDE DEF I
    <2> QED BY <1>3, FS_CardinalityType, FS_EmptySet
<1>5. I = {} <=> \A i \in 1 .. Len(s) : s[i] # t
    BY <1>1
<1> QED BY <1>3, <1>4, <1>5 DEF Count

(* Nobody counts in the empty sequence, nor outside of the set.            *)
LEMMA CountNone ==
    ASSUME NEW S, NEW s \in Seq(S), NEW t, s = <<>> \/ t \notin S
    PROVE  Count(s, t) = 0
<1>1. \A i \in 1 .. Len(s) : s[i] \in S
    BY ElementOfSeq
<1>2. \A i \in 1 .. Len(s) : s[i] # t
    BY <1>1
<1> QED BY <1>2, CountType

(* The head counts, and the tail has the others.                           *)
LEMMA CountTail ==
    ASSUME NEW S, NEW s \in Seq(S), s # <<>>, NEW t
    PROVE  /\ Tail(s) \in Seq(S) /\ Head(s) \in S
           /\ Count(s, t) = Count(Tail(s), t) + (IF Head(s) = t THEN 1 ELSE 0)
<1> DEFINE r == Tail(s)
           I == {i \in DOMAIN s : s[i] = t}
           J == {i \in DOMAIN r : r[i] = t}
           K == I \ {1}
           f == [j \in J |-> j + 1]
<1>1. /\ Len(s) \in Nat \ {0} /\ DOMAIN s = 1 .. Len(s) /\ r \in Seq(S) /\ Head(s) \in S
      /\ Head(s) = s[1] /\ Len(r) = Len(s) - 1 /\ DOMAIN r = 1 .. Len(s) - 1
      /\ \A i \in 1 .. Len(s) - 1 : r[i] = s[i + 1]
    BY HeadTailProperties, EmptySeq
<1> HIDE DEF r
<1>2. IsFiniteSet(I) /\ IsFiniteSet(J)
    <2>1. IsFiniteSet(I)
        BY CountType
    <2>2. IsFiniteSet(J)
        <3>1. r \in Seq(S)
            BY <1>1
        <3> QED BY <3>1, CountType
    <2> QED BY <2>1, <2>2
<1>3. f \in Bijection(J, K)
    <2>1. \A j \in J : j + 1 \in K
        BY <1>1
    <2>2. \A k \in K : k - 1 \in J /\ (k - 1) + 1 = k
        BY <1>1
    <2>3. \A i, j \in J : i + 1 = j + 1 => i = j
        BY <1>1
    <2> HIDE DEF J, K
    <2>4. f \in [J -> K]
        BY <2>1
    <2>5. f \in Injection(J, K)
        BY <2>3, <2>4 DEF Injection, IsInjective
    <2>6. f \in Surjection(J, K)
        BY <2>2, <2>4 DEF Surjection
    <2> QED BY <2>5, <2>6 DEF Bijection
<1>4. Cardinality(K) = Cardinality(J)
    <2>1. ExistsBijection(J, K)
        BY <1>3 DEF ExistsBijection
    <2> HIDE DEF J, K
    <2> QED BY <1>2, <2>1, FS_Bijection
<1>5. 1 \in I <=> Head(s) = t
    BY <1>1
<1>6. Cardinality(I) \in Nat /\ Cardinality(K) = IF 1 \in I THEN Cardinality(I) - 1 ELSE Cardinality(I)
    <2> HIDE DEF I
    <2> QED BY <1>2, FS_RemoveElement, FS_CardinalityType
<1>7. Count(s, t) = Cardinality(I) /\ Count(r, t) = Cardinality(J)
    BY DEF Count
<1> HIDE DEF I, J, K
<1>8. Count(s, t) = Count(r, t) + (IF Head(s) = t THEN 1 ELSE 0)
    <2>1. Count(r, t) = IF Head(s) = t THEN Count(s, t) - 1 ELSE Count(s, t)
        BY <1>4, <1>5, <1>6, <1>7
    <2>2. Count(s, t) \in Nat
        BY CountType
    <2> QED BY <2>1, <2>2
<1> QED BY <1>1, <1>8 DEF r

(* Copies of a task count for it.                                          *)
LEMMA CountCopies ==
    ASSUME NEW S, NEW s \in Seq(S), NEW u \in S, NEW n \in Nat, NEW t
    PROVE  /\ s \o Copies(u, n) \in Seq(S)
           /\ Count(s \o Copies(u, n), t) = Count(s, t) + (IF t = u THEN n ELSE 0)
<1> DEFINE c == Copies(u, n)
           r == s \o c
           I == {i \in DOMAIN s : s[i] = t}
           K == {i \in DOMAIN r : r[i] = t}
           new == (Len(s) + 1) .. (Len(s) + n)
<1>1. c \in Seq(S) /\ Len(c) = n /\ \A i \in 1 .. n : c[i] = u
    BY DEF Copies
<1>2. Len(s) \in Nat /\ DOMAIN s = 1 .. Len(s)
    OBVIOUS
<1> HIDE DEF c
<1>3. /\ r \in Seq(S) /\ Len(r) = Len(s) + n /\ DOMAIN r = 1 .. (Len(s) + n)
      /\ \A i \in 1 .. Len(s) : r[i] = s[i]
      /\ \A i \in new : r[i] = u
    <2>1. r \in Seq(S) /\ Len(r) = Len(s) + n
        BY <1>1
    <2>2. \A i \in 1 .. Len(r) : r[i] = IF i <= Len(s) THEN s[i] ELSE c[i - Len(s)]
        BY <1>1, ConcatProperties
    <2>3. \A i \in new : i - Len(s) \in 1 .. n /\ ~(i <= Len(s)) /\ i \in 1 .. Len(r)
        BY <1>2, <2>1
    <2> QED BY <1>1, <1>2, <2>1, <2>2, <2>3
<1> HIDE DEF r
<1>4. IsFiniteSet(I) /\ IsFiniteSet(new) /\ Cardinality(new) = n
    <2>1. IsFiniteSet(I)
        BY CountType
    <2>2. Len(s) + 1 \in Int /\ Len(s) + n \in Int /\ (Len(s) + n) - (Len(s) + 1) + 1 = n
          /\ (Len(s) + 1 > Len(s) + n <=> n = 0)
        BY <1>2
    <2>3. IsFiniteSet(new) /\ Cardinality(new) = IF n = 0 THEN 0 ELSE n
        BY <2>2, FS_Interval
    <2> QED BY <2>1, <2>3
<1>5. CASE t = u
    <2>1. K = I \cup new /\ I \cap new = {}
        BY <1>2, <1>3, <1>5
    <2> HIDE DEF I, K, new
    <2>2. Cardinality(K) = Cardinality(I) + n - Cardinality(I \cap new)
        BY <1>4, <2>1, FS_Union
    <2>3. Cardinality(I \cap new) = 0 /\ Cardinality(I) \in Nat
        BY <1>4, <2>1, FS_EmptySet, FS_CardinalityType
    <2>4. Cardinality(K) = Cardinality(I) + n
        BY <2>2, <2>3
    <2> QED BY <1>3, <1>5, <2>4 DEF I, K, r, c, Count
<1>6. CASE t # u
    <2>1. K = I
        BY <1>2, <1>3, <1>6
    <2>2. Count(r, t) = Count(s, t)
        BY <2>1 DEF Count
    <2>3. Count(s, t) \in Nat
        BY CountType
    <2> QED BY <1>3, <1>6, <2>2, <2>3 DEF r, c
<1> QED BY <1>5, <1>6
-----------------------------------------------------------------------------
(***************************************************************************)
(* Orders of write data.                                                   *)
(***************************************************************************)
OrdT == [task : Tasks, beats : Nat \ {0}]

(* No task is listed twice; a task is listed; the beats due to a task.     *)
Once(o) == \A i, j \in 1 .. Len(o) : i # j => o[i].task # o[j].task
In(o, t) == \E i \in 1 .. Len(o) : o[i].task = t
Due(o, t) == IF \E w \in Range1(o) : w.task = t
             THEN (CHOOSE w \in Range1(o) : w.task = t).beats ELSE 0

(* What is due of a task is the number in its entry.                       *)
LEMMA DueIs ==
    ASSUME NEW o \in Seq(OrdT), Once(o)
    PROVE  /\ \A i \in 1 .. Len(o) : o[i] \in OrdT /\ o[i].task \in Tasks /\ o[i].beats \in Nat \ {0}
                                     /\ Due(o, o[i].task) = o[i].beats
           /\ \A t : ~In(o, t) => Due(o, t) = 0
           /\ \A t : Due(o, t) \in Nat
           /\ \A t : Due(o, t) > 0 <=> In(o, t)
<1>1. DOMAIN o = 1 .. Len(o) /\ \A i \in 1 .. Len(o) : o[i] \in OrdT
    BY ElementOfSeq
<1>2. \A i \in 1 .. Len(o) : o[i].task \in Tasks /\ o[i].beats \in Nat \ {0}
    BY <1>1 DEF OrdT
<1>3. ASSUME NEW i \in 1 .. Len(o) PROVE Due(o, o[i].task) = o[i].beats
    <2>1. \A w \in Range1(o) : w.task = o[i].task => w = o[i]
        BY <1>1 DEF Range1, Once
    <2>2. o[i] \in Range1(o)
        BY <1>1 DEF Range1
    <2>3. (CHOOSE w \in Range1(o) : w.task = o[i].task) = o[i]
        BY <2>1, <2>2
    <2> QED BY <2>2, <2>3 DEF Due
<1>4. \A t : ~In(o, t) => Due(o, t) = 0
    BY <1>1 DEF In, Due, Range1
<1>5. ASSUME NEW t PROVE Due(o, t) \in Nat /\ (Due(o, t) > 0 <=> In(o, t))
    <2>1. CASE In(o, t)
        BY <1>2, <1>3, <2>1 DEF In
    <2>2. CASE ~In(o, t)
        BY <1>4, <2>2
    <2> QED BY <2>1, <2>2
<1> QED BY <1>1, <1>2, <1>3, <1>4, <1>5

(* A beat is taken from the first entry.                                   *)
LEMMA TookIs ==
    ASSUME NEW o \in Seq(OrdT), Once(o), o # <<>>
    PROVE  /\ Took(o) \in Seq(OrdT) /\ Once(Took(o))
           /\ o[1] \in OrdT /\ Len(o) \in Nat \ {0}
           /\ Len(Took(o)) = IF o[1].beats = 1 THEN Len(o) - 1 ELSE Len(o)
           /\ \A t : Due(Took(o), t) = IF t = o[1].task THEN Due(o, t) - 1 ELSE Due(o, t)
           /\ o[1].beats = 1 => \A i \in 1 .. Len(o) - 1 : Took(o)[i] = o[i + 1]
           /\ o[1].beats # 1 => /\ Took(o)[1].task = o[1].task /\ Took(o)[1].beats = o[1].beats - 1
                                /\ \A i \in 2 .. Len(o) : Took(o)[i] = o[i]
<1>1. Len(o) \in Nat \ {0} /\ DOMAIN o = 1 .. Len(o) /\ \A i \in 1 .. Len(o) : o[i] \in OrdT
    BY ElementOfSeq, EmptySeq
<1>2. \A i \in 1 .. Len(o) : o[i].task \in Tasks /\ o[i].beats \in Nat \ {0} /\ Due(o, o[i].task) = o[i].beats
    BY DueIs
<1>3. CASE o[1].beats = 1
    <2> DEFINE r == Took(o)
    <2>1. r = Tail(o)
        BY <1>3 DEF Took
    <2>2. r \in Seq(OrdT) /\ Len(r) = Len(o) - 1 /\ \A i \in 1 .. Len(o) - 1 : r[i] = o[i + 1]
        BY <1>1, <2>1, HeadTailProperties
    <2> HIDE DEF r
    <2>3. Once(r)
        BY <1>1, <2>2 DEF Once
    <2>4. ASSUME NEW t PROVE Due(r, t) = IF t = o[1].task THEN Due(o, t) - 1 ELSE Due(o, t)
        <3>1. CASE t = o[1].task
            <4>1. ~In(r, t)
                BY <1>1, <2>2, <3>1 DEF In, Once
            <4> QED BY <1>1, <1>2, <1>3, <2>2, <2>3, <3>1, <4>1, DueIs
        <3>2. CASE t # o[1].task /\ In(o, t)
            <4>1. PICK i \in 2 .. Len(o) : o[i].task = t
                BY <1>1, <3>2 DEF In
            <4>2. i - 1 \in 1 .. Len(r) /\ r[i - 1] = o[i]
                BY <1>1, <2>2, <4>1
            <4>3. Due(r, r[i - 1].task) = r[i - 1].beats
                BY <2>2, <2>3, <4>2, DueIs
            <4> QED BY <1>2, <3>2, <4>1, <4>2, <4>3
        <3>3. CASE ~In(o, t)
            <4>1. ~In(r, t)
                BY <1>1, <2>2, <3>3 DEF In
            <4>2. Due(r, t) = 0 /\ Due(o, t) = 0 /\ t # o[1].task
                BY <1>1, <2>2, <2>3, <3>3, <4>1, DueIs DEF In
            <4> QED BY <4>2
        <3> QED BY <3>1, <3>2, <3>3
    <2> QED BY <1>1, <1>3, <2>2, <2>3, <2>4 DEF r
<1>4. CASE o[1].beats # 1
    <2> DEFINE r == Took(o)
               w == [o[1] EXCEPT !.beats = @ - 1]
    <2>1. r = [o EXCEPT ![1] = w]
        BY <1>1, <1>4, EmptySeq DEF Took
    <2>2. w \in OrdT /\ w.task = o[1].task /\ w.beats = o[1].beats - 1
        <3>1. o[1] \in OrdT
            BY <1>1, <1>2
        <3>2. PICK v : v = o[1]
            OBVIOUS
        <3>3. v.beats - 1 \in Nat \ {0}
            BY <1>4, <3>1, <3>2 DEF OrdT
        <3>4. LET x == [v EXCEPT !.beats = @ - 1]
              IN  x \in OrdT /\ x.task = v.task /\ x.beats = v.beats - 1
            BY <3>1, <3>2, <3>3 DEF OrdT
        <3> QED BY <3>2, <3>4
    <2> HIDE DEF w
    <2>3. r \in Seq(OrdT) /\ Len(r) = Len(o) /\ r[1] = w /\ \A i \in 2 .. Len(o) : r[i] = o[i]
        BY <1>1, <2>1, <2>2, ExceptSeq
    <2> HIDE DEF r
    <2>4. \A i \in 1 .. Len(o) : r[i].task = o[i].task
        BY <1>1, <2>2, <2>3
    <2>5. Once(r)
        BY <2>3, <2>4 DEF Once
    <2>6. ASSUME NEW t PROVE Due(r, t) = IF t = o[1].task THEN Due(o, t) - 1 ELSE Due(o, t)
        <3>1. CASE In(o, t)
            <4>1. PICK i \in 1 .. Len(o) : o[i].task = t
                BY <3>1 DEF In
            <4>2. Due(r, r[i].task) = r[i].beats /\ Due(o, o[i].task) = o[i].beats
                BY <2>3, <2>5, <4>1, DueIs
            <4>3. i = 1 <=> t = o[1].task
                BY <1>1, <4>1 DEF Once
            <4>4. r[i].beats = IF i = 1 THEN o[i].beats - 1 ELSE o[i].beats
                BY <1>1, <2>2, <2>3
            <4> QED BY <2>4, <4>1, <4>2, <4>3, <4>4
        <3>2. CASE ~In(o, t)
            <4>1. ~In(r, t)
                BY <2>3, <2>4, <3>2 DEF In
            <4>2. Due(r, t) = 0 /\ Due(o, t) = 0 /\ t # o[1].task
                BY <1>1, <2>3, <2>5, <3>2, <4>1, DueIs DEF In
            <4> QED BY <4>2
        <3> QED BY <3>1, <3>2
    <2> QED BY <1>1, <1>4, <2>2, <2>3, <2>5, <2>6 DEF r
<1> QED BY <1>3, <1>4

(* An entry is added at the end.                                           *)
LEMMA DueAppend ==
    ASSUME NEW o \in Seq(OrdT), Once(o), NEW u \in Tasks, NEW n \in Nat \ {0}, ~In(o, u)
    PROVE  LET r == Append(o, [task |-> u, beats |-> n])
           IN  /\ r \in Seq(OrdT) /\ Once(r) /\ Len(r) = Len(o) + 1
               /\ \A i \in 1 .. Len(o) : r[i] = o[i]
               /\ r[Len(o) + 1].task = u /\ r[Len(o) + 1].beats = n
               /\ \A t : Due(r, t) = IF t = u THEN n ELSE Due(o, t)
<1> DEFINE w == [task |-> u, beats |-> n]
           r == Append(o, w)
<1>1. w \in OrdT /\ w.task = u /\ w.beats = n
    BY DEF OrdT
<1> HIDE DEF w
<1>2. /\ Len(o) \in Nat /\ r \in Seq(OrdT) /\ Len(r) = Len(o) + 1
      /\ \A i \in 1 .. Len(o) : r[i] = o[i]
      /\ r[Len(o) + 1] = w
    BY <1>1, AppendProperties
<1> HIDE DEF r
<1>3. Once(r)
    BY <1>1, <1>2 DEF Once, In
<1>4. ASSUME NEW t PROVE Due(r, t) = IF t = u THEN n ELSE Due(o, t)
    <2>1. CASE t = u
        <3>1. Due(r, r[Len(o) + 1].task) = r[Len(o) + 1].beats
            BY <1>2, <1>3, DueIs
        <3> QED BY <1>1, <1>2, <2>1, <3>1
    <2>2. CASE t # u /\ In(o, t)
        <3>1. PICK i \in 1 .. Len(o) : o[i].task = t
            BY <2>2 DEF In
        <3>2. Due(r, r[i].task) = r[i].beats /\ Due(o, o[i].task) = o[i].beats
            <4>1. i \in 1 .. Len(o) /\ i \in 1 .. Len(r)
                BY <1>2, <3>1
            <4> QED BY <1>2, <1>3, <4>1, DueIs
        <3>3. r[i] = o[i]
            BY <1>2, <3>1
        <3> QED BY <2>2, <3>1, <3>2, <3>3
    <2>3. CASE t # u /\ ~In(o, t)
        <3>1. ~In(r, t)
            BY <1>1, <1>2, <2>3 DEF In
        <3> QED BY <1>2, <1>3, <2>3, <3>1, DueIs
    <2> QED BY <2>1, <2>2, <2>3
<1> QED BY <1>1, <1>2, <1>3, <1>4 DEF r, w
-----------------------------------------------------------------------------
(***************************************************************************)
(* The entries of the queue as a set, without their counts of conflicts.   *)
(* Every handler adds one, takes one away, replaces one, or changes each.  *)
(***************************************************************************)
EntT == [task : Nat, first : Nat, kind : {"read", "full", "mask"}, left : Nat, right : Nat,
         ready : Nat, state : {"waiting", "merge_read", "ready"}, conf : {0}, age : Nat]

(* An entry without its count, and the entries of the queue.               *)
Stripped(e) == [e EXCEPT !.conf = 0]
Ents == {Stripped(RmwQue[i]) : i \in 1 .. Len(RmwQue)}

(* All but the count is as in the entry.                                   *)
LEMMA StrippedIs ==
    ASSUME NEW e \in EntryT
    PROVE  LET f == Stripped(e)
           IN  /\ f \in EntT /\ f.task = e.task /\ f.first = e.first /\ f.kind = e.kind
               /\ f.left = e.left /\ f.right = e.right /\ f.ready = e.ready
               /\ f.state = e.state /\ f.age = e.age
BY DEF Stripped, EntryT, EntT

(* The types of an entry's fields.                                         *)
LEMMA EntFields ==
    ASSUME NEW e \in EntT
    PROVE  /\ e.task \in Nat /\ e.first \in Nat /\ e.kind \in {"read", "full", "mask"}
           /\ e.left \in Nat /\ e.right \in Nat /\ e.ready \in Nat
           /\ e.state \in {"waiting", "merge_read", "ready"} /\ e.age \in Nat
BY DEF EntT

(* Every entry is typed and holds a task taken, and no two hold the same   *)
(* task.                                                                   *)
LEMMA EntsAre ==
    ASSUME QueInv
    PROVE  /\ \A e \in Ents : e \in EntT /\ e.task <= accepted /\ e.left < e.right
           /\ \A e, f \in Ents : e.task = f.task => e = f
           /\ \A i \in 1 .. Len(RmwQue) : RmwQue[i] \in EntryT /\ Stripped(RmwQue[i]) \in Ents
<1> DEFINE q == RmwQue
<1>1. \A i \in 1 .. Len(q) : q[i] \in EntryT
    BY ElementOfSeq DEF QueInv
<1>2. ASSUME NEW i \in 1 .. Len(q)
      PROVE  /\ Stripped(q[i]) \in EntT /\ Stripped(q[i]).task = q[i].task
             /\ q[i].task <= accepted /\ Stripped(q[i]).left < Stripped(q[i]).right
    <2>1. PICK c \in Spans : SameSpan(c, q[i])
        BY DEF QueInv, Spanned
    <2>2. q[i].left < q[i].right
        <3>1. CASE c \in Offers
            BY <2>1, <3>1, OfferTyped DEF SameSpan
        <3>2. ASSUME NEW b \in Offers, c = [kind |-> "full", left |-> b.left, right |-> b.left + 4]
              PROVE  q[i].left < q[i].right
            BY <2>1, <3>2, OfferTyped DEF SameSpan
        <3> QED BY <3>1, <3>2 DEF Spans
    <2>3. q[i].task <= accepted
        BY DEF QueInv, Bounded
    <2> QED BY <1>1, <2>2, <2>3, StrippedIs
<1>3. \A i, j \in 1 .. Len(q) : q[i].task = q[j].task => i = j
    BY DEF QueInv, Distinct
<1> QED BY <1>1, <1>2, <1>3 DEF Ents

(* An entry is replaced.                                                   *)
LEMMA EntReplaced ==
    ASSUME QueInv, NEW k \in 1 .. Len(RmwQue), NEW f, Len(RmwQue') = Len(RmwQue),
           \A i \in 1 .. Len(RmwQue) :
               Stripped(RmwQue'[i]) = IF i = k THEN f ELSE Stripped(RmwQue[i])
    PROVE  Ents' = (Ents \ {Stripped(RmwQue[k])}) \cup {f}
<1>1. \A i \in 1 .. Len(RmwQue) : i # k => Stripped(RmwQue[i]) # Stripped(RmwQue[k])
    <2>1. \A i \in 1 .. Len(RmwQue) : Stripped(RmwQue[i]).task = RmwQue[i].task
        BY EntsAre, StrippedIs
    <2> QED BY <2>1 DEF QueInv, Distinct
<1> QED BY <1>1 DEF Ents

(* An entry leaves.                                                        *)
LEMMA EntRemoved ==
    ASSUME QueInv, NEW k \in 1 .. Len(RmwQue), Len(RmwQue') = Len(RmwQue) - 1,
           \A i \in 1 .. Len(RmwQue) - 1 :
               Stripped(RmwQue'[i]) = Stripped(RmwQue[IF i < k THEN i ELSE i + 1])
    PROVE  Ents' = Ents \ {Stripped(RmwQue[k])}
<1> DEFINE q == RmwQue
           s(i) == Stripped(q[i])
           s1(i) == Stripped(q'[i])
<1>1. \A i \in 1 .. Len(q) : i # k => s(i) # s(k)
    <2>1. \A i \in 1 .. Len(q) : s(i).task = q[i].task
        BY EntsAre, StrippedIs
    <2> QED BY <2>1 DEF QueInv, Distinct
<1>2. Ents = {s(i) : i \in 1 .. Len(q)} /\ Ents' = {s1(i) : i \in 1 .. Len(q) - 1}
    BY DEF Ents
<1>3. \A i \in 1 .. Len(q) - 1 : s1(i) = s(IF i < k THEN i ELSE i + 1)
    OBVIOUS
<1>4. Len(q) \in Nat
    BY DEF QueInv
<1> HIDE DEF s, s1
<1>5. ASSUME NEW e \in Ents' PROVE e \in Ents \ {s(k)}
    <2>1. PICK i \in 1 .. Len(q) - 1 : e = s1(i)
        BY <1>2
    <2>2. PICK j \in 1 .. Len(q) : j # k /\ e = s(j)
        BY <1>3, <1>4, <2>1
    <2> QED BY <1>1, <1>2, <2>2
<1>6. ASSUME NEW e \in Ents, e # s(k) PROVE e \in Ents'
    <2>1. PICK j \in 1 .. Len(q) : e = s(j)
        BY <1>2
    <2>2. j # k
        BY <1>6, <2>1
    <2>3. PICK i \in 1 .. Len(q) - 1 : j = IF i < k THEN i ELSE i + 1
        <3> DEFINE i == IF j < k THEN j ELSE j - 1
        <3>1. i \in 1 .. Len(q) - 1 /\ j = IF i < k THEN i ELSE i + 1
            BY <1>4, <2>2
        <3> QED BY <3>1
    <2>4. e = s1(i)
        BY <1>3, <2>1, <2>3
    <2> QED BY <1>2, <2>4
<1> QED BY <1>5, <1>6 DEF s

(* rebuild_conflict_state changes nothing but the counts.                  *)
LEMMA RebuiltStripped ==
    ASSUME NEW q \in Seq(EntryT)
    PROVE  LET r == rebuild_conflict_state(q)
           IN  /\ r \in Seq(EntryT) /\ Len(r) = Len(q)
               /\ \A i \in 1 .. Len(q) : Stripped(r[i]) = Stripped(q[i])
<1> DEFINE r == rebuild_conflict_state(q)
<1>1. r \in Seq(EntryT) /\ Len(r) = Len(q)
    BY Rebuilt
<1>2. ASSUME NEW i \in 1 .. Len(q) PROVE Stripped(r[i]) = Stripped(q[i])
    <2>1. r[i] = [q[i] EXCEPT !.conf = ConfCnt(q, q[i], i - 1)] /\ q[i] \in EntryT
        BY ElementOfSeq DEF rebuild_conflict_state
    <2>2. ConfCnt(q, q[i], i - 1) \in Nat
        BY ConfCntType
    <2> HIDE DEF r
    <2> QED BY <2>1, <2>2 DEF Stripped, EntryT
<1> QED BY <1>1, <1>2
-----------------------------------------------------------------------------
(* The entry whose turn it is.                                             *)
LEMMA TurnIs ==
    ASSUME QueInv, Turn
    PROVE  /\ Next1 \in 1 .. Len(RmwQue) /\ MayGo(RmwQue[Next1])
           /\ RmwQue[Next1] \in EntryT /\ Stripped(RmwQue[Next1]) \in Ents
<1>1. Eligible \in SUBSET (1 .. Len(RmwQue)) /\ Eligible # {} /\ Len(RmwQue) \in Nat
    BY DEF Eligible, Turn, QueInv
<1>2. Next1 \in Eligible
    BY <1>1, FirstIn DEF Next1
<1> HIDE DEF Next1
<1> QED BY <1>1, <1>2, EntsAre DEF Eligible

(* It leaves.                                                              *)
LEMMA EntLeaves ==
    ASSUME QueInv, Turn, RmwQue' = rebuild_conflict_state(EraseAt(RmwQue, Next1))
    PROVE  Ents' = Ents \ {Stripped(RmwQue[Next1])} /\ Len(RmwQue') = Len(RmwQue) - 1
<1> DEFINE k == Next1
           m == EraseAt(RmwQue, k)
<1>1. RmwQue \in Seq(EntryT) /\ k \in 1 .. Len(RmwQue) /\ RmwQue' = rebuild_conflict_state(m)
    BY TurnIs DEF QueInv
<1> HIDE DEF k
<1>2. /\ m \in Seq(EntryT) /\ Len(m) = Len(RmwQue) - 1
      /\ \A i \in 1 .. Len(RmwQue) - 1 : m[i] = RmwQue[IF i < k THEN i ELSE i + 1]
    BY <1>1, Erased
<1> HIDE DEF m
<1>3. Len(RmwQue') = Len(m) /\ \A i \in 1 .. Len(m) : Stripped(RmwQue'[i]) = Stripped(m[i])
    BY <1>1, <1>2, RebuiltStripped
<1>4. \A i \in 1 .. Len(RmwQue) - 1 :
          Stripped(RmwQue'[i]) = Stripped(RmwQue[IF i < k THEN i ELSE i + 1])
    BY <1>2, <1>3
<1>5. Ents' = Ents \ {Stripped(RmwQue[k])}
    BY <1>1, <1>2, <1>3, <1>4, EntRemoved
<1> QED BY <1>2, <1>3, <1>5 DEF k

(* A mask write reads.                                                     *)
LEMMA EntReads ==
    ASSUME QueInv, SendMergeRead
    PROVE  \E e \in Ents :
              /\ e.kind = "mask" /\ e.state = "waiting"
              /\ transactionQueue' = transactionQueue \cup
                     {[task |-> e.task, first |-> NoTask, kind |-> "merge"]}
              /\ Ents' = (Ents \ {e}) \cup {[e EXCEPT !.state = "merge_read"]}
              /\ Len(RmwQue') = Len(RmwQue)
<1> DEFINE q == RmwQue
           k == Next1
           e == Stripped(q[k])
           f == [q[k] EXCEPT !.state = "merge_read"]
<1>1. /\ k \in 1 .. Len(q) /\ q[k] \in EntryT /\ e \in Ents /\ MayGo(q[k]) /\ q \in Seq(EntryT)
    BY TurnIs DEF SendMergeRead, QueInv
<1>2. q' = [q EXCEPT ![k] = f] /\ NeedsRead(q[k])
    BY DEF SendMergeRead
<1>3. /\ transactionQueue' = transactionQueue \cup
             {[task |-> q[k].task, first |-> NoTask, kind |-> "merge"]}
    BY DEF SendMergeRead, push_after_rmw
<1> HIDE DEF k
<1>4. q[k].kind = "mask" /\ q[k].state = "waiting"
    BY <1>1, <1>2 DEF NeedsRead, MayGo, EntryT
<1>5. f \in EntryT /\ Stripped(f) = [e EXCEPT !.state = "merge_read"]
    BY <1>1 DEF EntryT, Stripped
<1> HIDE DEF f
<1>6. Len(q') = Len(q) /\ \A i \in 1 .. Len(q) : q'[i] = IF i = k THEN f ELSE q[i]
    BY <1>1, <1>2, <1>5, ExceptSeq
<1> DEFINE g == [e EXCEPT !.state = "merge_read"]
<1>7. \A i \in 1 .. Len(q) : Stripped(q'[i]) = IF i = k THEN g ELSE Stripped(q[i])
    BY <1>5, <1>6
<1>8. e.task = q[k].task /\ e.kind = "mask" /\ e.state = "waiting"
    BY <1>1, <1>4, StrippedIs
<1> HIDE DEF g
<1>9. Ents' = (Ents \ {e}) \cup {g}
    BY <1>1, <1>6, <1>7, EntReplaced
<1> QED BY <1>1, <1>3, <1>6, <1>8, <1>9 DEF g

(* A beat of data comes for the entry of a task.                           *)
LEMMA EntFilled ==
    ASSUME QueInv, NEW t, Lacking(t) # {}, RmwQue' = ready_beat(First(Lacking(t)))
    PROVE  \E e \in Ents :
              /\ e.task = t /\ ~Read(e) /\ e.ready < Beats(e)
              /\ Ents' = (Ents \ {e}) \cup {[e EXCEPT !.ready = @ + 1]}
              /\ Len(RmwQue') = Len(RmwQue)
<1> DEFINE q == RmwQue
           k == First(Lacking(t))
           e == Stripped(q[k])
           f == [q[k] EXCEPT !.ready = @ + 1]
<1>1. q \in Seq(EntryT) /\ Len(q) \in Nat /\ DOMAIN q = 1 .. Len(q)
    BY DEF QueInv
<1>2. k \in Lacking(t)
    <2>1. Lacking(t) \in SUBSET (1 .. Len(q))
        BY <1>1 DEF Lacking, Holder
    <2> QED BY <1>1, <2>1, FirstIn
<1>3. q' = [q EXCEPT ![k] = f]
    BY DEF ready_beat
<1> HIDE DEF k
<1>4. k \in 1 .. Len(q) /\ q[k].task = t /\ ~Read(q[k]) /\ q[k].ready < Beats(q[k])
    BY <1>1, <1>2 DEF Lacking, Holder
<1>5. q[k] \in EntryT /\ e \in Ents
    BY <1>4, EntsAre
<1>6. f \in EntryT /\ Stripped(f) = [e EXCEPT !.ready = @ + 1]
    <2> DEFINE n == q[k].ready + 1
    <2>1. n \in Nat /\ e.ready = q[k].ready
        BY <1>5, StrippedIs DEF EntryT
    <2>2. f = [q[k] EXCEPT !.ready = n] /\ [e EXCEPT !.ready = @ + 1] = [e EXCEPT !.ready = n]
        BY <2>1
    <2> HIDE DEF n, f
    <2> QED BY <1>5, <2>1, <2>2 DEF EntryT, Stripped
<1> HIDE DEF f
<1>7. Len(q') = Len(q) /\ \A i \in 1 .. Len(q) : q'[i] = IF i = k THEN f ELSE q[i]
    BY <1>1, <1>3, <1>4, <1>6, ExceptSeq
<1> DEFINE g == [e EXCEPT !.ready = @ + 1]
<1>8. \A i \in 1 .. Len(q) : Stripped(q'[i]) = IF i = k THEN g ELSE Stripped(q[i])
    BY <1>6, <1>7
<1>9. e.task = t /\ ~Read(e) /\ e.ready < Beats(e)
    BY <1>4, <1>5, StrippedIs DEF Read, Beats
<1> HIDE DEF g
<1>10. Ents' = (Ents \ {e}) \cup {g}
    BY <1>4, <1>7, <1>8, EntReplaced
<1> QED BY <1>5, <1>7, <1>9, <1>10 DEF g

(* A new entry.                                                            *)
LEMMA EntAdded ==
    ASSUME QueInv, Enqueue
    PROVE  \E e \in EntT :
              /\ e.task = Task /\ e.first = NoTask /\ e.kind = Cmd.kind
              /\ e.left = Cmd.left /\ e.right = Cmd.right
              /\ e.ready = 0 /\ e.state = "waiting" /\ e.age = 0
              /\ Ents' = Ents \cup {e} /\ Len(RmwQue') = Len(RmwQue) + 1
<1> DEFINE q == RmwQue
           e == NewEntry(Task, Cmd)
           g == Stripped(e)
<1>1. q \in Seq(EntryT) /\ Len(q) \in Nat /\ q' = Append(q, e) /\ Pending
    BY DEF Enqueue, Accept, QueInv
<1>2. /\ e \in EntryT /\ e.task = Task /\ e.first = NoTask /\ e.kind = Cmd.kind
      /\ e.left = Cmd.left /\ e.right = Cmd.right
      /\ e.ready = 0 /\ e.state = "waiting" /\ e.age = 0
    <2>1. ConfCnt(q, Cmd, Len(q)) \in Nat
        BY <1>1, ConfCntType
    <2>2. e = [task |-> Task, first |-> 0, kind |-> Cmd.kind, left |-> Cmd.left,
               right |-> Cmd.right, ready |-> 0, state |-> "waiting",
               conf |-> ConfCnt(q, Cmd, Len(q)), age |-> 0]
        BY DEF NewEntry, NoTask
    <2> HIDE DEF e
    <2>3. e \in EntryT
        BY <1>1, <2>1, <2>2, CmdTyped DEF EntryT
    <2> QED BY <2>2, <2>3 DEF NoTask
<1> HIDE DEF e
<1>3. /\ g \in EntT /\ g.task = Task /\ g.first = NoTask /\ g.kind = Cmd.kind
      /\ g.left = Cmd.left /\ g.right = Cmd.right
      /\ g.ready = 0 /\ g.state = "waiting" /\ g.age = 0
    BY <1>2, StrippedIs
<1>4. Len(q') = Len(q) + 1 /\ (\A i \in 1 .. Len(q) : q'[i] = q[i]) /\ q'[Len(q) + 1] = e
    BY <1>1, <1>2, AppendProperties
<1>5. Ents' = Ents \cup {g}
    <2>1. 1 .. Len(q') = (1 .. Len(q)) \cup {Len(q) + 1}
        BY <1>1, <1>4
    <2> QED BY <1>4, <2>1 DEF Ents
<1> HIDE DEF g
<1> QED BY <1>3, <1>4, <1>5

(* A partner is merged with the new command.                               *)
LEMMA EntMerged ==
    ASSUME QueInv, Merge
    PROVE  LET k == First(Partners(Cmd))
               e == Stripped(RmwQue[k])
           IN  /\ k \in 1 .. Len(RmwQue) /\ RmwQue[k] \in EntryT /\ e \in Ents
               /\ can_merge_write_pair(e, Cmd) /\ ~is_unpaired_write_merge_timeout(e)
               /\ build_merged(e, Task, Cmd) \in EntT
               /\ Ents' = (Ents \ {e}) \cup {build_merged(e, Task, Cmd)}
               /\ Len(RmwQue') = Len(RmwQue)
<1> DEFINE q == RmwQue
           k == First(Partners(Cmd))
           e == Stripped(q[k])
           b == build_merged(q[k], Task, Cmd)
           m == [q EXCEPT ![k] = b]
           g == build_merged(e, Task, Cmd)
<1>1. /\ q \in Seq(EntryT) /\ Len(q) \in Nat /\ DOMAIN q = 1 .. Len(q) /\ Pending
      /\ q' = rebuild_conflict_state(m) /\ Partners(Cmd) # {}
    BY DEF Merge, Accept, QueInv
<1>2. /\ k \in 1 .. Len(q) /\ can_merge_write_pair(q[k], Cmd)
      /\ ~is_unpaired_write_merge_timeout(q[k])
    <2>1. Partners(Cmd) \in SUBSET (1 .. Len(q))
        BY <1>1 DEF Partners
    <2>2. k \in Partners(Cmd)
        BY <1>1, <2>1, FirstIn
    <2> HIDE DEF k
    <2> QED BY <1>1, <2>2 DEF Partners
<1> HIDE DEF k
<1>3. q[k] \in EntryT /\ e \in Ents /\ e \in EntT /\ Task \in Nat /\ Cmd.left \in Nat
    BY <1>1, <1>2, EntsAre, CmdTyped
<1>4. can_merge_write_pair(e, Cmd) /\ ~is_unpaired_write_merge_timeout(e)
    <2>1. e.kind = q[k].kind /\ e.left = q[k].left /\ e.right = q[k].right /\ e.age = q[k].age
        BY <1>3, StrippedIs
    <2> HIDE DEF e
    <2> QED BY <1>2, <2>1 DEF can_merge_write_pair, is_unpaired_write_merge_timeout,
                is_write_merge_candidate, Beats
<1>5. b \in EntryT
    BY <1>3, MergedTyped
<1>6. Stripped(b) = g
    <2> DEFINE low == IF Cmd.left < q[k].left THEN Cmd.left ELSE q[k].left
               high == low + 4
    <2>1. b = [q[k] EXCEPT !.task = Task, !.first = q[k].task, !.left = low, !.right = high,
                           !.state = "waiting", !.age = 0]
        BY DEF build_merged
    <2>2. g = [e EXCEPT !.task = Task, !.first = q[k].task, !.left = low, !.right = high,
                        !.state = "waiting", !.age = 0]
        <3>1. e.task = q[k].task /\ e.left = q[k].left
            BY <1>3, StrippedIs
        <3> HIDE DEF e
        <3> QED BY <3>1 DEF build_merged
    <2> HIDE DEF low, high, b, g
    <2> QED BY <1>3, <2>1, <2>2 DEF Stripped, EntryT
<1> HIDE DEF b
<1>7. m \in Seq(EntryT) /\ Len(m) = Len(q) /\ \A i \in 1 .. Len(q) : m[i] = IF i = k THEN b ELSE q[i]
    BY <1>1, <1>2, <1>5, ExceptSeq
<1> HIDE DEF m
<1>8. Len(q') = Len(q) /\ \A i \in 1 .. Len(q) : Stripped(q'[i]) = Stripped(m[i])
    BY <1>1, <1>7, RebuiltStripped
<1>9. \A i \in 1 .. Len(q) : Stripped(q'[i]) = IF i = k THEN g ELSE Stripped(q[i])
    BY <1>6, <1>7, <1>8
<1>10. g \in EntT
    BY <1>5, <1>6, StrippedIs
<1> HIDE DEF g
<1>11. Ents' = (Ents \ {e}) \cup {g}
    BY <1>2, <1>8, <1>9, EntReplaced
<1> QED BY <1>2, <1>3, <1>4, <1>8, <1>10, <1>11 DEF k, g
-----------------------------------------------------------------------------
(* The handlers that change each entry: sch_que, a refusal, the end of the *)
(* cycle.                                                                  *)
SameName(e, f) == /\ f \in EntT /\ f.task = e.task /\ f.first = e.first
                  /\ f.kind = e.kind /\ f.left = e.left /\ f.right = e.right

(* One cycle older, up to the limit.                                       *)
Aged(e) == [e EXCEPT !.age = IF @ < AgeMax THEN @ + 1 ELSE @]

(* May go, but for a conflict.                                             *)
Goes(e) == /\ ~NeedsRead(e)
           /\ is_write_merge_candidate(e) => is_unpaired_write_merge_timeout(e)
           /\ e.kind = "full" /\ RMW_CMD_MODE = 1 => e.state = "ready"

(* A refused write loses the beats it had (RMW.cpp, arb_node).             *)
Emptied(e, f) == f = e \/ (f = [e EXCEPT !.ready = 0] /\ Goes(e))

(* A new number of beats leaves the rest of the entry alone.               *)
LEMMA ReadySet ==
    ASSUME NEW e \in EntT, NEW n \in Nat
    PROVE  LET f == [e EXCEPT !.ready = n]
           IN  SameName(e, f) /\ f.ready = n /\ f.state = e.state /\ f.age = e.age
BY DEF SameName, EntT

(* A new age leaves the rest of the entry alone.                           *)
LEMMA AgeSet ==
    ASSUME NEW e \in EntT, NEW n \in Nat
    PROVE  LET f == [e EXCEPT !.age = n]
           IN  SameName(e, f) /\ f.ready = e.ready /\ f.state = e.state /\ f.age = n
BY DEF SameName, EntT

(* A new state leaves the rest of the entry alone.                         *)
LEMMA StateSet ==
    ASSUME NEW e \in EntT, NEW s \in {"waiting", "merge_read", "ready"}
    PROVE  LET f == [e EXCEPT !.state = s]
           IN  SameName(e, f) /\ f.ready = e.ready /\ f.state = s /\ f.age = e.age
BY DEF SameName, EntT

(* The limit of the ages is a number.                                      *)
LEMMA AgeMaxType == AgeMax \in Nat
BY RmwAssumption DEF RmwAssumption, AgeMax

(* Ageing changes the age only, and not beyond the limit.                  *)
LEMMA AgedIs ==
    ASSUME NEW e \in EntT
    PROVE  /\ SameName(e, Aged(e)) /\ Aged(e).ready = e.ready /\ Aged(e).state = e.state
           /\ Aged(e).age >= e.age /\ (e.age <= AgeMax => Aged(e).age <= AgeMax)
<1> DEFINE n == IF e.age < AgeMax THEN e.age + 1 ELSE e.age
<1>1. e.age \in Nat /\ AgeMax \in Nat
    BY EntFields, AgeMaxType
<1>2. n \in Nat /\ n >= e.age /\ (e.age <= AgeMax => n <= AgeMax)
    BY <1>1
<1>3. Aged(e) = [e EXCEPT !.age = n]
    BY DEF Aged
<1> HIDE DEF n
<1>4. SameName(e, Aged(e)) /\ Aged(e).ready = e.ready /\ Aged(e).state = e.state /\ Aged(e).age = n
    BY <1>2, <1>3, AgeSet
<1> QED BY <1>2, <1>4

(* The end of a cycle ages each entry.                                     *)
LEMMA EntsAged ==
    ASSUME QueInv, Ages
    PROVE  /\ Ents' = {Aged(e) : e \in Ents}
           /\ Len(RmwQue') = Len(RmwQue)
<1> DEFINE q == RmwQue
           n(i) == IF q[i].age < AgeMax THEN q[i].age + 1 ELSE q[i].age
           f(i) == [q[i] EXCEPT !.age = n(i)]
<1>1. /\ q \in Seq(EntryT) /\ Len(q) \in Nat /\ DOMAIN q = 1 .. Len(q)
      /\ \A i \in 1 .. Len(q) : q[i] \in EntryT
    BY EntsAre DEF QueInv
<1>2. q' = [i \in 1 .. Len(q) |-> f(i)]
    BY <1>1 DEF Ages
<1>3. ASSUME NEW i \in 1 .. Len(q) PROVE Stripped(f(i)) = Aged(Stripped(q[i]))
    <2>1. n(i) \in Nat
        <3>1. q[i].age \in Nat
            BY <1>1 DEF EntryT
        <3> QED BY <3>1, AgeMaxType
    <2>2. Aged(Stripped(q[i])) = [Stripped(q[i]) EXCEPT !.age = n(i)]
        <3>1. Stripped(q[i]).age = q[i].age
            BY <1>1, StrippedIs
        <3> QED BY <3>1 DEF Aged
    <2> HIDE DEF n
    <2> QED BY <1>1, <2>1, <2>2 DEF Stripped, EntryT
<1> HIDE DEF f
<1>4. Len(q') = Len(q) /\ \A i \in 1 .. Len(q) : Stripped(q'[i]) = Aged(Stripped(q[i]))
    BY <1>1, <1>2, <1>3
<1> QED BY <1>4 DEF Ents

(* sch_que makes ready what may become ready, and nothing else.            *)
LEMMA SchIs ==
    ASSUME NEW e, ~UNPAIRED_TO_RMW_EN
    PROVE  sch_entry(e) = IF NowReady(e) THEN [e EXCEPT !.state = "ready"] ELSE e
BY DEF sch_entry, Converted

(* Becoming ready does not depend on the count.                            *)
LEMMA NowReadyStripped ==
    ASSUME NEW e \in EntryT
    PROVE  NowReady(Stripped(e)) <=> NowReady(e)
<1> DEFINE f == Stripped(e)
<1>1. /\ f.task = e.task /\ f.kind = e.kind /\ f.left = e.left /\ f.right = e.right
      /\ f.ready = e.ready /\ f.age = e.age
    BY StrippedIs
<1> HIDE DEF f
<1> QED BY <1>1 DEF f, NowReady, MaskReady, Filled, Beats, is_unpaired_write_merge_timeout,
            is_write_merge_candidate

(* sch_que schedules each entry.                                           *)
LEMMA EntsScheduled ==
    ASSUME QueInv, SchQue, ~UNPAIRED_TO_RMW_EN
    PROVE  /\ Ents' = {sch_entry(e) : e \in Ents}
           /\ Len(RmwQue') = Len(RmwQue)
<1> DEFINE q == RmwQue
           f(i) == sch_entry(q[i])
<1>1. /\ q \in Seq(EntryT) /\ Len(q) \in Nat /\ DOMAIN q = 1 .. Len(q)
      /\ \A i \in 1 .. Len(q) : q[i] \in EntryT
    BY EntsAre DEF QueInv
<1>2. q' = [i \in 1 .. Len(q) |-> f(i)]
    BY <1>1 DEF SchQue
<1>3. ASSUME NEW i \in 1 .. Len(q) PROVE Stripped(f(i)) = sch_entry(Stripped(q[i]))
    <2>1. NowReady(Stripped(q[i])) <=> NowReady(q[i])
        BY <1>1, NowReadyStripped
    <2>2. f(i) = IF NowReady(q[i]) THEN [q[i] EXCEPT !.state = "ready"] ELSE q[i]
        BY SchIs
    <2>3. sch_entry(Stripped(q[i])) =
              IF NowReady(q[i]) THEN [Stripped(q[i]) EXCEPT !.state = "ready"] ELSE Stripped(q[i])
        BY <2>1, SchIs
    <2> HIDE DEF f
    <2> QED BY <1>1, <2>2, <2>3 DEF Stripped, EntryT
<1> HIDE DEF f
<1>4. Len(q') = Len(q) /\ \A i \in 1 .. Len(q) : Stripped(q'[i]) = sch_entry(Stripped(q[i]))
    BY <1>1, <1>2, <1>3
<1> QED BY <1>4 DEF Ents

(* A refusal empties some of the entries that would have gone.             *)
LEMMA EntsEmptied ==
    ASSUME QueInv, BacklogRefuses
    PROVE  /\ \A f \in Ents' : \E e \in Ents : Emptied(e, f)
           /\ \A e \in Ents : \E f \in Ents' : Emptied(e, f)
           /\ Len(RmwQue') = Len(RmwQue)
<1> DEFINE q == RmwQue
           f(i) == IF i \in Eligible /\ ~NeedsRead(q[i]) THEN [q[i] EXCEPT !.ready = 0] ELSE q[i]
<1>1. /\ q \in Seq(EntryT) /\ Len(q) \in Nat /\ DOMAIN q = 1 .. Len(q)
      /\ \A i \in 1 .. Len(q) : q[i] \in EntryT
    BY EntsAre DEF QueInv
<1>2. q' = [i \in 1 .. Len(q) |-> f(i)]
    BY <1>1 DEF BacklogRefuses
<1>3. ASSUME NEW i \in 1 .. Len(q) PROVE Emptied(Stripped(q[i]), Stripped(f(i)))
    <2>1. CASE i \in Eligible /\ ~NeedsRead(q[i])
        <3> DEFINE e == Stripped(q[i])
        <3>1. MayGo(q[i])
            BY <2>1 DEF Eligible
        <3>2. e.kind = q[i].kind /\ e.left = q[i].left /\ e.right = q[i].right /\ e.age = q[i].age
              /\ e.state = q[i].state
            BY <1>1, StrippedIs
        <3>3. Stripped([q[i] EXCEPT !.ready = 0]) = [e EXCEPT !.ready = 0]
            BY <1>1 DEF Stripped, EntryT
        <3>4. f(i) = [q[i] EXCEPT !.ready = 0]
            BY <2>1
        <3> HIDE DEF e, f
        <3>5. Goes(e)
            BY <2>1, <3>1, <3>2 DEF Goes, MayGo, NeedsRead, is_write_merge_candidate, Beats,
               is_unpaired_write_merge_timeout
        <3> QED BY <3>3, <3>4, <3>5 DEF Emptied, e
    <2>2. CASE ~(i \in Eligible /\ ~NeedsRead(q[i]))
        BY <2>2 DEF Emptied
    <2> QED BY <2>1, <2>2
<1> HIDE DEF f
<1>4. Len(q') = Len(q) /\ \A i \in 1 .. Len(q) : Emptied(Stripped(q[i]), Stripped(q'[i]))
    BY <1>1, <1>2, <1>3
<1> QED BY <1>4 DEF Ents
-----------------------------------------------------------------------------
(***************************************************************************)
(* The types of the other variables.                                       *)
(***************************************************************************)
TransT == [task : Tasks, first : Tasks \cup {NoTask}, kind : {"read", "merge", "write"}]

(* Transactions, remaps of beats, merged pairs, states of a read.          *)
RemapT == [src : Tasks, dst : Tasks, left : Nat \ {0}]
MergedT == [first : Tasks, merged : Tasks, r1 : Nat, r2 : Nat]
States == {"none", "open", "back"}

(* Every variable but the queue has its type.                              *)
TypeInv ==
    /\ config \in Configs /\ phase \in {"cmd", "data", "sch", "arb", "wdata", "mc"}
    /\ Len(cmds) <= NTasks /\ write_task \in Seq(Tasks)
    /\ fast_bypass \in [Tasks -> Nat] /\ write_map \in [Tasks -> Nat]
    /\ remaps \in Seq(RemapT) /\ bypassed \subseteq MergedT
    /\ rd_finish \in [Tasks -> States]
    /\ WdataToSend \in Seq(Tasks) /\ order \in Seq(OrdT) /\ mcOrder \in Seq(OrdT)
    /\ transactionQueue \subseteq TransT
    /\ data_taken \in BOOLEAN /\ asserted \in BOOLEAN
    /\ \A e \in Ents : e.age <= AgeMax

(* Tasks are numbers, and no task is NoTask.                               *)
LEMMA TaskIs ==
    /\ NTasks \in Nat /\ NoTask = 0 /\ NoTask \notin Tasks
    /\ \A t \in Tasks : t \in Nat \ {0} /\ t <= NTasks
BY RmwAssumption DEF RmwAssumption, Tasks, NoTask
-----------------------------------------------------------------------------
(***************************************************************************)
(* Who holds a command: an entry of the queue or a transaction of the      *)
(* controller, with two names when it was merged.                          *)
(***************************************************************************)
Names(u) == {u.task, u.first} \ {NoTask}

(* The unit of an entry, of a transaction, and all of them; the tasks      *)
(* taken.                                                                  *)
Waiting(e) == [task |-> e.task, first |-> e.first, at |-> "rmw"]
Sent(x) == [task |-> x.task, first |-> x.first, at |-> x.kind]
Served == {x \in transactionQueue : x.kind # "merge"}
Units == {Waiting(e) : e \in Ents} \cup {Sent(x) : x \in Served}
Taken == 1 .. accepted

(* Every command taken has one holder, or is answered.                     *)
UnitInv ==
    /\ \A u \in Units : u.task \in Taken /\ u.first \in Taken \cup {NoTask} /\ u.task # u.first
    /\ \A u, v \in Units : u # v => Names(u) \cap Names(v) = {}
    /\ answered \subseteq Taken
    /\ \A u \in Units : Names(u) \cap answered = {}
    /\ \A t \in Taken : t \in answered \/ \E u \in Units : t \in Names(u)

(* A step that moves no command keeps the holders.                         *)
LEMMA UnitKept ==
    ASSUME UnitInv, Units' = Units, accepted' = accepted, answered' = answered
    PROVE  UnitInv'
BY DEF UnitInv, Taken, Names

(* Entries that keep their names.                                          *)
LEMMA UnitsSame ==
    ASSUME \A f \in Ents' : \E e \in Ents : f.task = e.task /\ f.first = e.first,
           \A e \in Ents : \E f \in Ents' : f.task = e.task /\ f.first = e.first,
           Served' = Served
    PROVE  Units' = Units
<1>1. {Waiting(e) : e \in Ents'} = {Waiting(e) : e \in Ents}
    BY DEF Waiting
<1> QED BY <1>1 DEF Units, Sent, Waiting

(* A new holder of the next command.                                       *)
LEMMA UnitAdded ==
    ASSUME UnitInv, accepted \in Nat, accepted' = accepted + 1, answered' = answered,
           NEW u, u.task = accepted + 1, u.first = NoTask, Units' = Units \cup {u}
    PROVE  UnitInv'
<1>1. Taken' = Taken \cup {accepted + 1} /\ accepted + 1 \notin Taken /\ NoTask \notin Taken
      /\ accepted + 1 # NoTask
    BY DEF Taken, NoTask
<1>2. Names(u) = {accepted + 1}
    BY <1>1 DEF Names
<1>3. \A v \in Units : v.task \in Taken /\ v.first \in Taken \cup {NoTask} /\ v.task # v.first
    BY DEF UnitInv
<1>4. \A v \in Units : Names(v) \subseteq Taken
    BY <1>3 DEF Names
<1>5. \A v \in Units' : v.task \in Taken' /\ v.first \in Taken' \cup {NoTask} /\ v.task # v.first
    BY <1>1, <1>3
<1>6. \A v, w \in Units' : v # w => Names(v) \cap Names(w) = {}
    <2> SUFFICES ASSUME NEW v \in Units', NEW w \in Units', v # w PROVE Names(v) \cap Names(w) = {}
        OBVIOUS
    <2>1. CASE v \in Units /\ w \in Units
        BY <2>1 DEF UnitInv
    <2>2. CASE v = u \/ w = u
        BY <1>1, <1>2, <1>4, <2>2
    <2> QED BY <2>1, <2>2
<1>7. answered' \subseteq Taken' /\ \A v \in Units' : Names(v) \cap answered' = {}
    BY <1>1, <1>2 DEF UnitInv
<1>8. \A t \in Taken' : t \in answered' \/ \E v \in Units' : t \in Names(v)
    BY <1>1, <1>2 DEF UnitInv
<1> QED BY <1>5, <1>6, <1>7, <1>8 DEF UnitInv, Names

(* A holder of the same commands takes the place of another.               *)
LEMMA UnitMoved ==
    ASSUME UnitInv, accepted' = accepted, answered' = answered, NEW u \in Units, NEW v,
           v.task = u.task, v.first = u.first, Units' = (Units \ {u}) \cup {v}
    PROVE  UnitInv'
<1>1. Names(v) = Names(u) /\ Taken' = Taken
    BY DEF Names, Taken
<1>2. \A w \in Units' : w.task \in Taken' /\ w.first \in Taken' \cup {NoTask} /\ w.task # w.first
    BY <1>1 DEF UnitInv
<1>3. \A w, x \in Units' : w # x => Names(w) \cap Names(x) = {}
    BY <1>1 DEF UnitInv
<1>4. answered' \subseteq Taken' /\ \A w \in Units' : Names(w) \cap answered' = {}
    BY <1>1 DEF UnitInv
<1>5. \A t \in Taken' : t \in answered' \/ \E w \in Units' : t \in Names(w)
    BY <1>1 DEF UnitInv
<1> QED BY <1>2, <1>3, <1>4, <1>5 DEF UnitInv, Names

(* A holder of one command gets the next one, too.                         *)
LEMMA UnitJoined ==
    ASSUME UnitInv, accepted \in Nat, accepted' = accepted + 1, answered' = answered,
           NEW u \in Units, u.first = NoTask, NEW v, v.task = accepted + 1, v.first = u.task,
           Units' = (Units \ {u}) \cup {v}
    PROVE  UnitInv'
<1>1. Taken' = Taken \cup {accepted + 1} /\ accepted + 1 \notin Taken /\ NoTask \notin Taken
      /\ accepted + 1 # NoTask
    BY DEF Taken, NoTask
<1>2. u.task \in Taken /\ Names(u) = {u.task} /\ Names(v) = {accepted + 1, u.task}
    BY <1>1 DEF UnitInv, Names
<1>3. \A w \in Units : w.task \in Taken /\ w.first \in Taken \cup {NoTask} /\ w.task # w.first
    BY DEF UnitInv
<1>4. \A w \in Units : Names(w) \subseteq Taken
    BY <1>3 DEF Names
<1>5. \A w \in Units' : w.task \in Taken' /\ w.first \in Taken' \cup {NoTask} /\ w.task # w.first
    BY <1>1, <1>2, <1>3
<1>6. \A w, x \in Units' : w # x => Names(w) \cap Names(x) = {}
    <2> SUFFICES ASSUME NEW w \in Units', NEW x \in Units', w # x PROVE Names(w) \cap Names(x) = {}
        OBVIOUS
    <2>0. \A y \in Units \ {u} : Names(y) \cap Names(v) = {}
        <3> SUFFICES ASSUME NEW y \in Units \ {u} PROVE Names(y) \cap Names(v) = {}
            OBVIOUS
        <3>1. Names(y) \cap Names(u) = {} /\ Names(y) \subseteq Taken
            BY <1>4 DEF UnitInv
        <3> QED BY <1>1, <1>2, <3>1
    <2>1. CASE w \in Units /\ x \in Units
        BY <2>1 DEF UnitInv
    <2>2. CASE w = v \/ x = v
        BY <2>0, <2>2
    <2> QED BY <2>1, <2>2
<1>7. answered' \subseteq Taken' /\ \A w \in Units' : Names(w) \cap answered' = {}
    <2>1. Names(v) \cap answered = {}
        BY <1>1, <1>2 DEF UnitInv
    <2> QED BY <1>1, <2>1 DEF UnitInv
<1>8. \A t \in Taken' : t \in answered' \/ \E w \in Units' : t \in Names(w)
    BY <1>1, <1>2 DEF UnitInv
<1> QED BY <1>5, <1>6, <1>7, <1>8 DEF UnitInv, Names

(* A holder is answered.                                                   *)
LEMMA UnitAnswered ==
    ASSUME UnitInv, accepted' = accepted, NEW u \in Units, answered' = answered \cup Names(u),
           Units' = Units \ {u}
    PROVE  UnitInv'
<1>1. Taken' = Taken /\ Names(u) \subseteq Taken
    BY DEF UnitInv, Names, Taken
<1>2. \A w \in Units' : w.task \in Taken' /\ w.first \in Taken' \cup {NoTask} /\ w.task # w.first
    BY <1>1 DEF UnitInv
<1>3. \A w, x \in Units' : w # x => Names(w) \cap Names(x) = {}
    BY DEF UnitInv
<1>4. answered' \subseteq Taken' /\ \A w \in Units' : Names(w) \cap answered' = {}
    BY <1>1 DEF UnitInv
<1>5. \A t \in Taken' : t \in answered' \/ \E w \in Units' : t \in Names(w)
    BY <1>1 DEF UnitInv
<1> QED BY <1>2, <1>3, <1>4, <1>5 DEF UnitInv, Names
-----------------------------------------------------------------------------
(*************************************************************************)
(* What the four other invariants of Rmw need, beside the counts of        *)
(* conflicts: the data of the entries and of the writes, the reads of mask *)
(* writes, the tasks merged away, the order of write data, and write_map.  *)
(*************************************************************************)
(* The beats the driver has yet to send for a task, and for both tasks of  *)
(* an entry or a transaction.                                              *)
Rem(t) == Count(write_task, t)
Left(u) == Rem(u.task) + Rem(u.first)

(* It waits for a partner, and has not waited too long.                    *)
Waits(e) == is_write_merge_candidate(e) /\ ~is_unpaired_write_merge_timeout(e)

(* An entry is as long as its commands, and what it has and what is still  *)
(* to come make up its length, unless a refusal has emptied it.            *)
EntOk(e) ==
    /\ e.kind = cmds[e.task].kind
    /\ e.first # NoTask => e.kind = "full" /\ cmds[e.first].kind = "full" /\ Beats(e) = 4
    /\ Beats(e) = Burst(e.task) + Burst(e.first)
    /\ Read(e) => e.state = "waiting" /\ e.ready = 0
    /\ e.ready + Left(e) <= Beats(e)
    /\ ~Read(e) /\ (~AREF_EN \/ Waits(e)) => e.ready + Left(e) = Beats(e)
    /\ e.state = "ready" /\ (e.kind = "mask" \/ RMW_CMD_MODE = 1) => Left(e) = 0
    /\ Read(e) => Left(e) = 0

(* A write of the controller is owed what the driver has yet to send for   *)
(* its tasks and what waits in WdataToSend for it.                         *)
Writes == {x \in transactionQueue : x.kind = "write"}
WriteOk(x) ==
    /\ ~Read(cmds[x.task])
    /\ x.first # NoTask => ~Read(cmds[x.first])
    /\ Due(mcOrder, x.task) >= Left(x) + Count(WdataToSend, x.task)
    /\ ~AREF_EN => Due(mcOrder, x.task) = Left(x) + Count(WdataToSend, x.task)

(* Beats still to come, beats on their way and beats due belong to a write *)
(* that is there.                                                          *)
DataInv ==
    /\ \A e \in Ents : EntOk(e)
    /\ \A x \in Writes : WriteOk(x)
    /\ \A t \in Tasks : Rem(t) > 0 => \E u \in Units : t \in Names(u) /\ u.at # "read"
    /\ \A t \in Tasks : Count(WdataToSend, t) > 0 => \E x \in Writes : x.task = t
    /\ Once(mcOrder)
    /\ \A t : In(mcOrder, t) => \E x \in Writes : x.task = t

(* A mask write and its read.                                              *)
MaskOk(e) ==
    /\ e.kind # "mask" => e.state # "merge_read"
    /\ e.kind = "mask" /\ e.state = "waiting" => rd_finish[e.task] = "open"
    /\ e.kind = "mask" /\ e.state = "merge_read" =>
          rd_finish[e.task] # "none" /\ (Merging(e.task) <=> rd_finish[e.task] = "open")
    /\ e.kind = "mask" /\ e.state = "ready" => rd_finish[e.task] = "none"

(* A read for a mask write, and its answer, belong to an entry that waits  *)
(* for them.                                                               *)
ReadInv ==
    /\ \A x \in transactionQueue : x.kind = "merge" =>
          x.first = NoTask /\ \E e \in Ents : e.task = x.task /\ e.kind = "mask" /\ e.state = "merge_read"
    /\ \A t \in Tasks : rd_finish[t] # "none" => \E e \in Ents : e.task = t /\ e.kind = "mask"
    /\ \A e \in Ents : MaskOk(e)

(* A task merged away holds nothing itself, and its partner knows it.      *)
Wed(f, m) ==
    /\ f \in Taken /\ m \in Taken /\ f # m /\ fast_bypass[f] = 0
    /\ \A u \in Units : u.task # f /\ (u.task = m => u.first = f)

(* A remap of beats joins two tasks one of which was merged into the       *)
(* other; it takes no more than what is to come.                           *)
WedInv ==
    /\ \A n \in 1 .. Len(remaps) : /\ Wed(remaps[n].src, remaps[n].dst)
                                   /\ remaps[n].left <= Rem(remaps[n].src)
    /\ \A n, k \in 1 .. Len(remaps) : n # k => remaps[n].src # remaps[k].src
    /\ \A b \in bypassed : Wed(b.first, b.merged)
    /\ RMW_CMD_MODE # 2 => bypassed = {}
    /\ RMW_CMD_MODE = 2 => remaps = <<>>
    /\ \A t \in Tasks : t \notin Taken => fast_bypass[t] = 0
    /\ \A u \in Units : u.at = "rmw" => fast_bypass[u.task] = 0

(* The order lists some entries of the controller's order, in that order.  *)
InStep ==
    /\ \A i \in 1 .. Len(order) : \E k \in 1 .. Len(mcOrder) : mcOrder[k] = order[i]
    /\ \A i, j \in 1 .. Len(order), k, l \in 1 .. Len(mcOrder) :
          i < j /\ mcOrder[k].task = order[i].task /\ mcOrder[l].task = order[j].task => k < l

(* The controller expects it and Rmw does not track it.                    *)
Untracked(t) == In(mcOrder, t) /\ ~In(order, t)

(* Outside mode 2 the orders are in step, a write that is not tracked has  *)
(* nothing on its way through Rmw, and a tracked one has left with its     *)
(* beats or passes them on.                                                *)
StepInv ==
    RMW_CMD_MODE # 2 =>
    /\ ~asserted /\ InStep
    /\ \A t \in Tasks : Untracked(t) =>
          /\ Count(WdataToSend, t) = 0 /\ fast_bypass[t] = 0
          /\ \A n \in 1 .. Len(remaps) : remaps[n].dst # t
    /\ \A t \in Tasks : In(order, t) => Rem(t) <= fast_bypass[t]

(* write_map is what is due to a write, wherever it is.                    *)
MapInv ==
    /\ \A t \in Tasks : In(mcOrder, t) => write_map[t] = Due(mcOrder, t)
    /\ \A e \in Ents : ~Read(e) => write_map[e.task] = Beats(e)
    /\ RMW_CMD_MODE = 1 => \A t \in Tasks :
          /\ fast_bypass[t] = 0
          /\ write_map[t] > 0 => In(mcOrder, t) \/ \E e \in Ents : e.task = t /\ ~Read(e)

(* The inductive invariant.                                                *)
Inv == /\ QueInv /\ TypeInv /\ UnitInv /\ DataInv /\ ReadInv /\ WedInv /\ StepInv /\ MapInv
       /\ SlotsBounded
-----------------------------------------------------------------------------
(* A merged write has the new task, remembers the old one, and is as long  *)
(* as both (build_merged).                                                 *)
LEMMA MergedIs ==
    ASSUME NEW e \in EntT, NEW t \in Nat, NEW c, c.left \in Nat, c.right \in Nat,
           can_merge_write_pair(e, c)
    PROVE  LET f == build_merged(e, t, c)
           IN  /\ f \in EntT /\ f.task = t /\ f.first = e.task /\ f.kind = "full"
               /\ f.ready = e.ready /\ f.state = "waiting" /\ f.age = 0 /\ Beats(f) = 4
               /\ e.kind = "full" /\ c.kind = "full" /\ Beats(e) = 2 /\ Beats(c) = 2
<1> DEFINE low == IF c.left < e.left THEN c.left ELSE e.left
           high == low + 4
           f == [e EXCEPT !.task = t, !.first = e.task, !.left = low, !.right = high,
                          !.state = "waiting", !.age = 0]
<1>1. e.left \in Nat /\ e.task \in Nat /\ e.kind \in {"read", "full", "mask"}
    BY EntFields
<1>2. low \in Nat /\ high \in Nat /\ high - low = 4
    BY <1>1
<1>3. build_merged(e, t, c) = f
    BY DEF build_merged
<1>4. e.kind = "full" /\ c.kind = "full" /\ Beats(e) = 2 /\ Beats(c) = 2
    BY DEF can_merge_write_pair, is_write_merge_candidate
<1> HIDE DEF low, high
<1>5. /\ f \in EntT /\ f.task = t /\ f.first = e.task /\ f.kind = e.kind /\ f.ready = e.ready
      /\ f.state = "waiting" /\ f.age = 0 /\ f.left = low /\ f.right = high
    BY <1>1, <1>2 DEF EntT
<1> HIDE DEF f
<1>6. Beats(f) = 4
    BY <1>2, <1>5 DEF Beats
<1> QED BY <1>3, <1>4, <1>5, <1>6

(* Which of the two an entry is.                                           *)
LEMMA UnitsAre ==
    ASSUME QueInv, TypeInv
    PROVE  /\ \A e \in Ents : Waiting(e) \in Units /\ Waiting(e).task = e.task
                              /\ Waiting(e).first = e.first /\ Waiting(e).at = "rmw"
           /\ \A x \in Served : Sent(x) \in Units /\ Sent(x).task = x.task
                              /\ Sent(x).first = x.first /\ Sent(x).at = x.kind /\ x.kind \in {"read", "write"}
           /\ \A e, f \in Ents : Waiting(e) = Waiting(f) => e = f
           /\ \A x, y \in Served : Sent(x) = Sent(y) => x = y
           /\ \A e \in Ents, x \in Served : Waiting(e) # Sent(x)
           /\ \A u \in Units : \/ u.at = "rmw" /\ \E e \in Ents : u = Waiting(e)
                               \/ u.at # "rmw" /\ \E x \in Served : u = Sent(x)
<1>1. \A x \in Served : x \in TransT /\ x.kind \in {"read", "write"}
    BY DEF Served, TypeInv, TransT
<1>2. \A e, f \in Ents : Waiting(e) = Waiting(f) => e = f
    <2>1. \A e, f \in Ents : Waiting(e) = Waiting(f) => e.task = f.task
        BY DEF Waiting
    <2> QED BY <2>1, EntsAre
<1>3. \A x, y \in Served : Sent(x) = Sent(y) => x = y
    <2> SUFFICES ASSUME NEW x \in Served, NEW y \in Served, Sent(x) = Sent(y) PROVE x = y
        OBVIOUS
    <2>1. x.task = y.task /\ x.first = y.first /\ x.kind = y.kind
        BY DEF Sent
    <2> QED BY <1>1, <2>1 DEF TransT
<1>4. \A e \in Ents : Waiting(e) \in Units /\ Waiting(e).task = e.task
                      /\ Waiting(e).first = e.first /\ Waiting(e).at = "rmw"
    BY DEF Waiting, Units
<1>5. \A x \in Served : Sent(x) \in Units /\ Sent(x).task = x.task
                      /\ Sent(x).first = x.first /\ Sent(x).at = x.kind
    BY DEF Sent, Units
<1>6. \A u \in Units : (\E e \in Ents : u = Waiting(e)) \/ (\E x \in Served : u = Sent(x))
    BY DEF Units
<1> QED BY <1>1, <1>2, <1>3, <1>4, <1>5, <1>6

(* An entry becomes a transaction.                                         *)
LEMMA UnitsSent ==
    ASSUME QueInv, TypeInv, NEW e \in Ents, Ents' = Ents \ {e},
           NEW k \in {"read", "write"}, NEW x, x = [task |-> e.task, first |-> e.first, kind |-> k],
           transactionQueue' = transactionQueue \cup {x}
    PROVE  /\ Units' = (Units \ {Waiting(e)}) \cup {Sent(x)}
           /\ Sent(x).task = e.task /\ Sent(x).first = e.first /\ Served' = Served \cup {x}
<1>1. Served' = Served \cup {x}
    BY DEF Served
<1>2. {Waiting(f) : f \in Ents'} = {Waiting(f) : f \in Ents} \ {Waiting(e)}
    BY UnitsAre
<1>3. \A y \in Served : Sent(y) # Waiting(e)
    BY UnitsAre
<1>4. Units' = {Waiting(f) : f \in Ents'} \cup {Sent(y) : y \in Served'}
    BY DEF Units, Waiting, Sent
<1>5. {Sent(y) : y \in Served'} = {Sent(y) : y \in Served} \cup {Sent(x)}
    BY <1>1
<1>6. Units' = (Units \ {Waiting(e)}) \cup {Sent(x)}
    BY <1>2, <1>3, <1>4, <1>5 DEF Units
<1>7. Sent(x).task = e.task /\ Sent(x).first = e.first
    BY DEF Sent
<1> QED BY <1>1, <1>6, <1>7

(* The entry that leaves, as a transaction.                                *)
LEMMA ReadLeaves ==
    ASSUME QueInv, TypeInv, SendRead
    PROVE  \E e \in Ents :
              /\ Read(e) /\ Ents' = Ents \ {e} /\ Len(RmwQue') = Len(RmwQue) - 1
              /\ transactionQueue' = transactionQueue \cup
                     {[task |-> e.task, first |-> NoTask, kind |-> "read"]}
<1> DEFINE q == RmwQue
           k == Next1
           e == Stripped(q[k])
<1>1. /\ k \in 1 .. Len(q) /\ q[k] \in EntryT /\ e \in Ents /\ MayGo(q[k])
      /\ Ents' = Ents \ {e} /\ Len(q') = Len(q) - 1
    BY TurnIs, EntLeaves DEF SendRead
<1>2. Read(q[k]) /\ transactionQueue' = transactionQueue \cup
                     {[task |-> q[k].task, first |-> NoTask, kind |-> "read"]}
    BY DEF SendRead, push_after_rmw
<1> HIDE DEF k
<1>3. e.task = q[k].task /\ e.kind = q[k].kind
    BY <1>1, StrippedIs
<1> HIDE DEF e
<1> QED BY <1>1, <1>2, <1>3 DEF Read

(* A write that leaves takes the place of a transaction, enters both       *)
(* orders, and what it has goes to WdataToSend.                            *)
LEMMA WriteLeaves ==
    ASSUME QueInv, TypeInv, SendWrite
    PROVE  \E e \in Ents :
              /\ ~Read(e) /\ Goes(e) /\ Ents' = Ents \ {e} /\ Len(RmwQue') = Len(RmwQue) - 1
              /\ transactionQueue' = transactionQueue \cup
                     {[task |-> e.task, first |-> e.first, kind |-> "write"]}
              /\ mcOrder' = Append(mcOrder, [task |-> e.task, beats |-> Beats(e)])
              /\ order' = Append(order, [task |-> e.task, beats |-> Beats(e)])
              /\ WdataToSend' = WdataToSend \o Copies(e.task, Buffered(e))
              /\ fast_bypass' = IF Buffered(e) < Beats(e) /\ ~(e.first # NoTask /\ RMW_CMD_MODE = 2)
                                THEN [fast_bypass EXCEPT ![e.task] = Beats(e) - Buffered(e)]
                                ELSE fast_bypass
<1> DEFINE q == RmwQue
           k == Next1
           e == Stripped(q[k])
<1>1. /\ k \in 1 .. Len(q) /\ q[k] \in EntryT /\ e \in Ents /\ MayGo(q[k])
      /\ Ents' = Ents \ {e} /\ Len(q') = Len(q) - 1
    BY TurnIs, EntLeaves DEF SendWrite
<1>2. /\ ~Read(q[k]) /\ ~NeedsRead(q[k])
      /\ transactionQueue' = transactionQueue \cup
             {[task |-> q[k].task, first |-> q[k].first, kind |-> "write"]}
      /\ mcOrder' = Append(mcOrder, [task |-> q[k].task, beats |-> Beats(q[k])])
      /\ order' = Append(order, [task |-> q[k].task, beats |-> Beats(q[k])])
      /\ WdataToSend' = WdataToSend \o Copies(q[k].task, Buffered(q[k]))
      /\ fast_bypass' = IF Buffered(q[k]) < Beats(q[k]) /\ ~(q[k].first # NoTask /\ RMW_CMD_MODE = 2)
                        THEN [fast_bypass EXCEPT ![q[k].task] = Beats(q[k]) - Buffered(q[k])]
                        ELSE fast_bypass
    BY DEF SendWrite, push_after_rmw, Expect, track_write_command
<1> HIDE DEF k
<1>3. /\ e.task = q[k].task /\ e.first = q[k].first /\ e.kind = q[k].kind /\ e.left = q[k].left
      /\ e.right = q[k].right /\ e.ready = q[k].ready /\ e.state = q[k].state /\ e.age = q[k].age
    BY <1>1, StrippedIs
<1> HIDE DEF e
<1>4. Beats(e) = Beats(q[k]) /\ Buffered(e) = Buffered(q[k]) /\ (Read(e) <=> Read(q[k]))
    BY <1>3 DEF Beats, Buffered, Read
<1>5. Goes(e)
    BY <1>1, <1>2, <1>3 DEF Goes, MayGo, NeedsRead, is_write_merge_candidate, Beats,
       is_unpaired_write_merge_timeout
<1> QED BY <1>1, <1>2, <1>3, <1>4, <1>5
-----------------------------------------------------------------------------
(*************************************************************************)
(* How each step changes who holds a command.                              *)
(*************************************************************************)
(* The entries keep their names, kinds and lengths.                        *)
SameEnts == /\ \A f \in Ents' : \E e \in Ents : SameName(e, f)
            /\ \A e \in Ents : \E f \in Ents' : SameName(e, f)

(* The command offered has a task of its own.                              *)
LEMMA NextTask ==
    ASSUME QueInv, TypeInv, Pending
    PROVE  /\ Task = accepted + 1 /\ accepted \in Nat /\ Task \in Tasks /\ Task \notin Taken
           /\ Taken \subseteq Tasks /\ Cmd = cmds[Task] /\ Cmd \in Offers
           /\ Beats(Cmd) \in Nat \ {0} /\ Cmd.kind \in {"read", "full", "mask"}
           /\ Cmd.left \in Nat /\ Cmd.right \in Nat
<1>1. accepted \in Nat /\ Cmd \in Offers /\ Cmd.left \in Nat /\ Cmd.right \in Nat
      /\ Cmd.kind \in {"read", "full", "mask"} /\ accepted + 1 <= Len(cmds) /\ Len(cmds) \in Nat
    BY CmdTyped DEF QueInv
<1>2. Len(cmds) <= NTasks /\ NTasks \in Nat
    BY TaskIs DEF TypeInv
<1>3. Beats(Cmd) \in Nat \ {0}
    BY <1>1, OfferTyped DEF Beats
<1> QED BY <1>1, <1>2, <1>3 DEF Task, Tasks, Taken, Cmd

(* The tasks taken are tasks.                                              *)
LEMMA TakenTasks ==
    ASSUME QueInv, TypeInv
    PROVE  accepted \in Nat /\ Taken \subseteq Tasks /\ \A t \in Taken : t \in 1 .. Len(cmds) /\ t # NoTask
<1>1. accepted \in Nat /\ accepted <= Len(cmds) /\ Len(cmds) <= NTasks /\ NTasks \in Nat /\ Len(cmds) \in Nat
    BY TaskIs DEF QueInv, TypeInv
<1> QED BY <1>1 DEF Taken, Tasks, NoTask

(* One entry is replaced by another of its name.                           *)
LEMMA OneSame ==
    ASSUME QueInv, NEW e \in Ents, NEW f, SameName(e, f), Ents' = (Ents \ {e}) \cup {f}
    PROVE  SameEnts
<1>1. \A d \in Ents : d \in EntT
    BY EntsAre
<1>2. \A d \in Ents : SameName(d, d)
    BY <1>1 DEF SameName
<1> QED BY <1>2 DEF SameEnts

(* The same queue has the same entries.                                    *)
LEMMA NoneChanged ==
    ASSUME QueInv, RmwQue' = RmwQue
    PROVE  SameEnts /\ Ents' = Ents
<1>1. Ents' = Ents
    BY DEF Ents
<1>2. \A d \in Ents : SameName(d, d)
    BY EntsAre DEF SameName
<1> QED BY <1>1, <1>2 DEF SameEnts

(* sch_que keeps the names.                                                *)
LEMMA ScheduledSame ==
    ASSUME QueInv, SchQue, ~UNPAIRED_TO_RMW_EN
    PROVE  SameEnts
<1>1. ASSUME NEW e \in Ents PROVE SameName(e, sch_entry(e))
    <2>1. e \in EntT
        BY EntsAre
    <2>2. SameName(e, [e EXCEPT !.state = "ready"]) /\ SameName(e, e)
        BY <2>1, StateSet DEF SameName
    <2> QED BY <2>2, SchIs
<1>2. Ents' = {sch_entry(e) : e \in Ents}
    BY EntsScheduled
<1> QED BY <1>1, <1>2 DEF SameEnts

(* Ageing keeps the names.                                                 *)
LEMMA AgedSame ==
    ASSUME QueInv, Ages
    PROVE  SameEnts
<1>1. \A e \in Ents : SameName(e, Aged(e))
    BY EntsAre, AgedIs
<1>2. Ents' = {Aged(e) : e \in Ents}
    BY EntsAged
<1> QED BY <1>1, <1>2 DEF SameEnts

(* An emptied entry has lost its beats and nothing else.                   *)
LEMMA EmptiedIs ==
    ASSUME NEW e \in EntT, NEW f, Emptied(e, f)
    PROVE  /\ SameName(e, f) /\ f.state = e.state /\ f.age = e.age
           /\ f.ready = e.ready \/ (f.ready = 0 /\ Goes(e))
<1>1. CASE f = e
    BY <1>1 DEF SameName
<1>2. CASE f = [e EXCEPT !.ready = 0] /\ Goes(e)
    BY <1>2, ReadySet
<1> QED BY <1>1, <1>2 DEF Emptied

(* A refusal keeps the names.                                              *)
LEMMA EmptiedSame ==
    ASSUME QueInv, BacklogRefuses
    PROVE  SameEnts
<1>1. \A e \in Ents : \A f : Emptied(e, f) => SameName(e, f)
    BY EntsAre, EmptiedIs
<1>2. (\A f \in Ents' : \E e \in Ents : Emptied(e, f)) /\ (\A e \in Ents : \E f \in Ents' : Emptied(e, f))
    BY EntsEmptied
<1>3. \A f \in Ents' : \E e \in Ents : SameName(e, f)
    BY <1>1, <1>2
<1>4. \A e \in Ents : \E f \in Ents' : SameName(e, f)
    BY <1>1, <1>2
<1> QED BY <1>3, <1>4 DEF SameEnts

(* The read of a mask write keeps the names.                               *)
LEMMA ReadSame ==
    ASSUME QueInv, SendMergeRead
    PROVE  SameEnts
<1>1. PICK e \in Ents : Ents' = (Ents \ {e}) \cup {[e EXCEPT !.state = "merge_read"]}
    BY EntReads
<1>2. SameName(e, [e EXCEPT !.state = "merge_read"])
    BY EntsAre, StateSet
<1> QED BY <1>1, <1>2, OneSame

(* A beat that fills an entry keeps the names.                             *)
LEMMA FilledSame ==
    ASSUME QueInv, NEW t, Lacking(t) # {}, RmwQue' = ready_beat(First(Lacking(t)))
    PROVE  SameEnts
<1>1. PICK e \in Ents : Ents' = (Ents \ {e}) \cup {[e EXCEPT !.ready = @ + 1]}
    BY EntFilled
<1> DEFINE n == e.ready + 1
<1>2. n \in Nat /\ e \in EntT
    BY EntsAre, EntFields
<1>3. Ents' = (Ents \ {e}) \cup {[e EXCEPT !.ready = n]}
    BY <1>1
<1> HIDE DEF n
<1>4. SameName(e, [e EXCEPT !.ready = n])
    BY <1>2, ReadySet
<1> QED BY <1>3, <1>4, OneSame

(* A beat of the driver changes no name.                                   *)
LEMMA BeatSame ==
    ASSUME QueInv, BeatToMerged \/ BeatRemapped \/ BeatFast \/ BeatQueued \/ BeatPassed
    PROVE  SameEnts /\ UNCHANGED <<accepted, cmds, transactionQueue, answered, config>>
<1>1. UNCHANGED <<cmds, accepted, transactionQueue, answered, config>>
    BY DEF BeatToMerged, BeatRemapped, BeatFast, BeatQueued, BeatPassed, Beat, mcVars, Then
<1>2. CASE BeatToMerged \/ BeatFast \/ BeatPassed
    BY <1>1, <1>2, NoneChanged DEF BeatToMerged, BeatFast, BeatPassed
<1>3. CASE BeatRemapped
    <2> DEFINE t == Head(write_task)
               dst == remaps[First(RemapsOf(t))].dst
    <2>1. RmwQue' = RmwQue \/ (RMW_CMD_MODE = 1 /\ RmwQue' = ready_beat(First(Lacking(dst))))
        BY <1>3 DEF BeatRemapped
    <2>2. RMW_CMD_MODE = 1 => Lacking(dst) # {}
        BY <1>3 DEF BeatRemapped, Beat, Route, RemapFits
    <2> HIDE DEF dst
    <2> QED BY <1>1, <2>1, <2>2, NoneChanged, FilledSame
<1>4. CASE BeatQueued
    <2>1. RmwQue' = ready_beat(First(Lacking(Head(write_task)))) /\ Lacking(Head(write_task)) # {}
        BY <1>4 DEF BeatQueued, Beat, Route
    <2> QED BY <1>1, <2>1, FilledSame
<1> QED BY <1>2, <1>3, <1>4
-----------------------------------------------------------------------------
(* The same names make the same units.                                     *)
LEMMA UnitsSameEnts ==
    ASSUME SameEnts, Served' = Served
    PROVE  Units' = Units
BY UnitsSame DEF SameEnts, SameName

(* A command comes in.                                                     *)
LEMMA UnitsEnqueue ==
    ASSUME Inv, Enqueue
    PROVE  UnitInv'
<1>1. PICK e \in EntT : e.task = Task /\ e.first = NoTask /\ Ents' = Ents \cup {e}
    BY EntAdded DEF Inv
<1>2. Served' = Served /\ accepted' = accepted + 1 /\ answered' = answered /\ Pending
    BY DEF Served, Enqueue, Accept
<1>3. Units' = Units \cup {Waiting(e)}
    BY <1>1, <1>2 DEF Units, Waiting, Sent
<1>4. Waiting(e).task = accepted + 1 /\ Waiting(e).first = NoTask /\ accepted \in Nat
    BY <1>1, <1>2, NextTask DEF Waiting, Inv
<1> QED BY <1>2, <1>3, <1>4, UnitAdded DEF Inv

(* A command that finds the queue empty goes to the controller.            *)
LEMMA UnitsBypass ==
    ASSUME Inv, Bypass
    PROVE  UnitInv'
<1> DEFINE x == [task |-> Task, first |-> NoTask, kind |-> IF Read(Cmd) THEN "read" ELSE "write"]
<1>1. /\ accepted' = accepted + 1 /\ answered' = answered /\ Pending /\ Ents' = Ents
      /\ transactionQueue' = transactionQueue \cup {x}
    BY DEF Bypass, Accept, Ents, push_after_rmw
<1>2. x.kind # "merge" /\ x.task = Task /\ x.first = NoTask
    OBVIOUS
<1> HIDE DEF x
<1>3. Served' = Served \cup {x}
    BY <1>1, <1>2 DEF Served
<1>4. Units' = Units \cup {Sent(x)}
    BY <1>1, <1>3 DEF Units, Waiting, Sent
<1>5. Sent(x).task = accepted + 1 /\ Sent(x).first = NoTask /\ accepted \in Nat
    BY <1>1, <1>2, NextTask DEF Sent, Inv
<1> QED BY <1>1, <1>4, <1>5, UnitAdded DEF Inv

(* What is known of a merge.                                               *)
LEMMA MergeIs ==
    ASSUME Inv, Merge
    PROVE  LET e == Stripped(RmwQue[First(Partners(Cmd))])
               f == build_merged(e, Task, Cmd)
           IN  /\ e \in Ents /\ e \in EntT /\ f \in EntT /\ Ents' = (Ents \ {e}) \cup {f}
               /\ e.first = NoTask /\ Waits(e) /\ e.kind = "full" /\ Cmd.kind = "full"
               /\ Beats(e) = 2 /\ Beats(Cmd) = 2
               /\ f.task = Task /\ f.first = e.task /\ f.kind = "full" /\ f.ready = e.ready
               /\ f.state = "waiting" /\ f.age = 0 /\ Beats(f) = 4
               /\ Len(RmwQue') = Len(RmwQue) /\ Pending
<1> DEFINE e == Stripped(RmwQue[First(Partners(Cmd))])
           f == build_merged(e, Task, Cmd)
<1>1. /\ e \in Ents /\ can_merge_write_pair(e, Cmd) /\ ~is_unpaired_write_merge_timeout(e)
      /\ f \in EntT /\ Ents' = (Ents \ {e}) \cup {f} /\ Len(RmwQue') = Len(RmwQue) /\ Pending
    BY EntMerged DEF Inv, Merge, Accept
<1> HIDE DEF e
<1>2. e \in EntT /\ Task \in Nat /\ Cmd.left \in Nat /\ Cmd.right \in Nat
    BY <1>1, EntsAre, CmdTyped DEF Inv
<1>3. /\ f.task = Task /\ f.first = e.task /\ f.kind = "full" /\ f.ready = e.ready
      /\ f.state = "waiting" /\ f.age = 0 /\ Beats(f) = 4
      /\ e.kind = "full" /\ Cmd.kind = "full" /\ Beats(e) = 2 /\ Beats(Cmd) = 2
    BY <1>1, <1>2, MergedIs
<1>4. e.first = NoTask
    BY <1>1, <1>3 DEF Inv, DataInv, EntOk
<1>5. Waits(e)
    BY <1>1 DEF Waits, can_merge_write_pair
<1> HIDE DEF f
<1> QED BY <1>1, <1>2, <1>3, <1>4, <1>5 DEF e, f

(* A merged write holds both tasks.                                        *)
LEMMA UnitsMerge ==
    ASSUME Inv, Merge
    PROVE  UnitInv'
<1> DEFINE e == Stripped(RmwQue[First(Partners(Cmd))])
           f == build_merged(e, Task, Cmd)
<1>1. /\ e \in Ents /\ Ents' = (Ents \ {e}) \cup {f} /\ e.first = NoTask
      /\ f.task = Task /\ f.first = e.task /\ Pending
    BY MergeIs
<1> HIDE DEF e, f
<1>2. Served' = Served /\ accepted' = accepted + 1 /\ answered' = answered
    BY DEF Served, Merge, Accept
<1>3. Units' = (Units \ {Waiting(e)}) \cup {Waiting(f)}
    <2>1. {Waiting(d) : d \in Ents'} = ({Waiting(d) : d \in Ents} \ {Waiting(e)}) \cup {Waiting(f)}
        BY <1>1, UnitsAre DEF Inv
    <2>2. \A y \in Served : Sent(y) # Waiting(e)
        BY <1>1, UnitsAre DEF Inv
    <2>3. Units' = {Waiting(d) : d \in Ents'} \cup {Sent(y) : y \in Served}
        BY <1>2 DEF Units, Waiting, Sent
    <2> QED BY <2>1, <2>2, <2>3 DEF Units
<1>4. /\ Waiting(e) \in Units /\ Waiting(e).first = NoTask /\ Waiting(e).task = e.task
      /\ Waiting(f).task = accepted + 1 /\ Waiting(f).first = e.task /\ accepted \in Nat
    BY <1>1, UnitsAre, NextTask DEF Waiting, Inv
<1> QED BY <1>2, <1>3, <1>4, UnitJoined DEF Inv

(* A read goes to the controller.                                          *)
LEMMA UnitsRead ==
    ASSUME Inv, SendRead
    PROVE  UnitInv'
<1>1. PICK e \in Ents : /\ Read(e) /\ Ents' = Ents \ {e}
                        /\ transactionQueue' = transactionQueue \cup
                               {[task |-> e.task, first |-> NoTask, kind |-> "read"]}
    BY ReadLeaves DEF Inv
<1>2. e.first = NoTask
    BY <1>1 DEF Inv, DataInv, EntOk, Read
<1> DEFINE x == [task |-> e.task, first |-> e.first, kind |-> "read"]
<1>3. transactionQueue' = transactionQueue \cup {x} /\ x = [task |-> e.task, first |-> e.first, kind |-> "read"]
    BY <1>1, <1>2
<1>4. accepted' = accepted /\ answered' = answered
    BY DEF SendRead, Turn, Arb, hostVars
<1> HIDE DEF x
<1>5. /\ Units' = (Units \ {Waiting(e)}) \cup {Sent(x)}
      /\ Sent(x).task = e.task /\ Sent(x).first = e.first
    BY <1>1, <1>3, UnitsSent DEF Inv
<1>6. Waiting(e) \in Units /\ Waiting(e).task = e.task /\ Waiting(e).first = e.first
    BY UnitsAre DEF Inv
<1> QED BY <1>4, <1>5, <1>6, UnitMoved DEF Inv

(* A write goes to the controller.                                         *)
LEMMA UnitsWrite ==
    ASSUME Inv, SendWrite
    PROVE  UnitInv'
<1>1. PICK e \in Ents : /\ Ents' = Ents \ {e}
                        /\ transactionQueue' = transactionQueue \cup
                               {[task |-> e.task, first |-> e.first, kind |-> "write"]}
    BY WriteLeaves DEF Inv
<1> DEFINE x == [task |-> e.task, first |-> e.first, kind |-> "write"]
<1>3. transactionQueue' = transactionQueue \cup {x} /\ x = [task |-> e.task, first |-> e.first, kind |-> "write"]
    BY <1>1
<1>4. accepted' = accepted /\ answered' = answered
    BY DEF SendWrite, Turn, Arb, hostVars
<1> HIDE DEF x
<1>5. /\ Units' = (Units \ {Waiting(e)}) \cup {Sent(x)}
      /\ Sent(x).task = e.task /\ Sent(x).first = e.first
    BY <1>1, <1>3, UnitsSent DEF Inv
<1>6. Waiting(e) \in Units /\ Waiting(e).task = e.task /\ Waiting(e).first = e.first
    BY UnitsAre DEF Inv
<1> QED BY <1>4, <1>5, <1>6, UnitMoved DEF Inv

(* An answered command is held by nobody.                                  *)
LEMMA UnitsFinish ==
    ASSUME Inv, NEW x \in transactionQueue, Finish(x)
    PROVE  /\ UnitInv' /\ SameEnts
           /\ x.kind = "merge" => Units' = Units
           /\ x.kind # "merge" => x \in Served /\ Units' = Units \ {Sent(x)}
<1>1. /\ accepted' = accepted /\ answered' = answered \cup Answers(x) /\ Ages
      /\ transactionQueue' = transactionQueue \ {x}
    BY DEF Finish, hostVars
<1>2. SameEnts
    BY <1>1, AgedSame DEF Inv
<1>3. CASE x.kind = "merge"
    <2>1. Served' = Served /\ answered' = answered
        BY <1>1, <1>3 DEF Served, Answers
    <2> QED BY <1>1, <1>2, <1>3, <2>1, UnitsSameEnts, UnitKept DEF Inv
<1>4. CASE x.kind # "merge"
    <2>1. x \in Served /\ Served' = Served \ {x}
        BY <1>1, <1>4 DEF Served
    <2>2. answered' = answered \cup Names(Sent(x))
        BY <1>1, <1>4 DEF Answers, Names, Sent
    <2>3. Units' = Units \ {Sent(x)}
        <3>1. {Waiting(d) : d \in Ents'} = {Waiting(d) : d \in Ents}
            BY <1>2 DEF SameEnts, SameName, Waiting
        <3>2. {Sent(y) : y \in Served'} = {Sent(y) : y \in Served} \ {Sent(x)}
            BY <2>1, UnitsAre DEF Inv
        <3>3. \A d \in Ents : Waiting(d) # Sent(x)
            BY <2>1, UnitsAre DEF Inv
        <3>4. Units' = {Waiting(d) : d \in Ents'} \cup {Sent(y) : y \in Served'}
            BY DEF Units, Waiting, Sent
        <3> QED BY <3>1, <3>2, <3>3, <3>4 DEF Units
    <2>4. Sent(x) \in Units
        BY <2>1, UnitsAre DEF Inv
    <2> QED BY <1>1, <1>2, <1>4, <2>1, <2>2, <2>3, <2>4, UnitAnswered DEF Inv
<1> QED BY <1>3, <1>4

(* The read of a mask write holds no command.                              *)
LEMMA UnitsMaskRead ==
    ASSUME Inv, SendMergeRead
    PROVE  Units' = Units /\ Served' = Served
<1>1. PICK e \in Ents : transactionQueue' = transactionQueue \cup
                            {[task |-> e.task, first |-> NoTask, kind |-> "merge"]}
    BY EntReads DEF Inv
<1>2. Served' = Served
    BY <1>1 DEF Served
<1> QED BY <1>2, ReadSame, UnitsSameEnts DEF Inv

(* The steps that change no name and no transaction.                       *)
Quiet == \/ NoCommand \/ Refused \/ NoBeat \/ NoneSent \/ NoWdata \/ Stopped \/ UNCHANGED vars
InPlace == \/ Quiet \/ NewCommand \/ SendWdata \/ SchQue \/ BacklogRefuses \/ FinishNone
           \/ BeatToMerged \/ BeatRemapped \/ BeatFast \/ BeatQueued \/ BeatPassed

(* Such a step leaves the holders alone.                                   *)
LEMMA InPlaceSame ==
    ASSUME QueInv, InPlace, ~UNPAIRED_TO_RMW_EN
    PROVE  /\ SameEnts /\ UNCHANGED <<accepted, transactionQueue, answered, config>>
           /\ Units' = Units
<1>1. SameEnts /\ UNCHANGED <<accepted, transactionQueue, answered, config>>
    <2>1. CASE Quiet
        <3>1. RmwQue' = RmwQue /\ UNCHANGED <<accepted, transactionQueue, answered, config>>
            BY <2>1 DEF Quiet, NoCommand, Refused, NoBeat, NoneSent, NoWdata, Stopped, vars, Arb,
               hostVars, mcVars, Then
        <3> QED BY <3>1, NoneChanged
    <2>2. CASE NewCommand \/ SendWdata
        <3>1. RmwQue' = RmwQue /\ UNCHANGED <<accepted, transactionQueue, answered, config>>
            BY <2>2 DEF NewCommand, SendWdata, hostVars, mcVars, Then
        <3> QED BY <3>1, NoneChanged
    <2>3. CASE SchQue
        BY <2>3, ScheduledSame DEF SchQue, hostVars, mcVars, Then
    <2>4. CASE BacklogRefuses
        BY <2>4, EmptiedSame DEF BacklogRefuses, Turn, Arb, hostVars, Then
    <2>5. CASE FinishNone
        BY <2>5, AgedSame DEF FinishNone, hostVars, mcVars, Then
    <2>6. CASE BeatToMerged \/ BeatRemapped \/ BeatFast \/ BeatQueued \/ BeatPassed
        BY <2>6, BeatSame
    <2> QED BY <2>1, <2>2, <2>3, <2>4, <2>5, <2>6 DEF InPlace
<1>2. Served' = Served
    BY <1>1 DEF Served
<1> QED BY <1>1, <1>2, UnitsSameEnts

(* Every step moves a command, or is in place.                             *)
LEMMA NextIs ==
    ASSUME [Next]_vars
    PROVE  \/ InPlace \/ Enqueue \/ Bypass \/ Merge \/ SendMergeRead \/ SendRead \/ SendWrite
           \/ \E x \in transactionQueue : Finish(x)
BY DEF Next, InPlace, Quiet

(* Every step keeps the holders apart.                                     *)
LEMMA UnitsStep ==
    ASSUME Inv, [Next]_vars, ~UNPAIRED_TO_RMW_EN
    PROVE  UnitInv'
<1>1. CASE InPlace
    BY <1>1, InPlaceSame, UnitKept DEF Inv
<1>2. CASE SendMergeRead
    <2>1. accepted' = accepted /\ answered' = answered
        BY <1>2 DEF SendMergeRead, Turn, Arb, hostVars
    <2> QED BY <1>2, <2>1, UnitsMaskRead, UnitKept DEF Inv
<1> QED BY <1>1, <1>2, NextIs, UnitsEnqueue, UnitsBypass, UnitsMerge, UnitsRead, UnitsWrite, UnitsFinish
-----------------------------------------------------------------------------
(*************************************************************************)
(* What a command that enters has and a command that leaves takes with it. *)
(*************************************************************************)
(* The beats still to come are numbers.                                    *)
LEMMA RemType ==
    ASSUME TypeInv
    PROVE  /\ \A t : Rem(t) \in Nat
           /\ Rem(NoTask) = 0
           /\ \A t : Count(WdataToSend, t) \in Nat
           /\ \A u : Left(u) \in Nat
<1>1. write_task \in Seq(Tasks) /\ WdataToSend \in Seq(Tasks)
    BY DEF TypeInv
<1>2. \A t : Count(write_task, t) \in Nat
    BY <1>1, CountType
<1>3. \A t : Count(WdataToSend, t) \in Nat
    BY <1>1, CountType
<1>4. Rem(NoTask) = 0
    BY <1>1, TaskIs, CountNone DEF Rem
<1> QED BY <1>2, <1>3, <1>4 DEF Rem, Left

(* Nobody knows the task of a command that has not been taken.             *)
LEMMA Fresh ==
    ASSUME Inv, NEW t \in Tasks, t \notin Taken
    PROVE  /\ \A u \in Units : u.task # t /\ u.first # t
           /\ \A e \in Ents : e.task # t /\ e.first # t
           /\ \A x \in transactionQueue : x.task # t
           /\ ~In(mcOrder, t) /\ Count(WdataToSend, t) = 0 /\ Rem(t) = 0 /\ fast_bypass[t] = 0
           /\ rd_finish[t] = "none"
<1>1. \A u \in Units : u.task # t /\ u.first # t
    BY TaskIs DEF Inv, UnitInv
<1>2. \A e \in Ents : e.task # t /\ e.first # t
    BY <1>1, UnitsAre DEF Inv
<1>3. \A x \in Served : x.task # t
    BY <1>1, UnitsAre DEF Inv
<1>4. \A x \in transactionQueue : x.task # t
    <2>1. \A x \in transactionQueue : x.kind = "merge" => x.task # t
        BY <1>2 DEF Inv, ReadInv
    <2> QED BY <1>3, <2>1 DEF Served
<1>5. \A x \in Writes : x.task # t
    BY <1>4 DEF Writes
<1>6. ~In(mcOrder, t)
    BY <1>5 DEF Inv, DataInv
<1>7. Count(WdataToSend, t) = 0
    BY <1>5, RemType DEF Inv, DataInv
<1>8. Rem(t) = 0
    <2>1. ~(Rem(t) > 0)
        BY <1>1 DEF Inv, DataInv, Names
    <2> QED BY <2>1, RemType DEF Inv
<1>9. fast_bypass[t] = 0
    BY DEF Inv, WedInv
<1>10. rd_finish[t] = "none"
    BY <1>2 DEF Inv, ReadInv
<1> QED BY <1>1, <1>2, <1>4, <1>6, <1>7, <1>8, <1>9, <1>10

(* A write that is taken has all its beats still to come.                  *)
LEMMA AcceptIs ==
    ASSUME Inv, Accept
    PROVE  /\ Pending /\ accepted' = Task /\ write_task' \in Seq(Tasks)
           /\ \A t : Rem(t)' = IF t = Task /\ ~Read(Cmd) THEN Beats(Cmd) ELSE Rem(t)
           /\ Task \in Tasks /\ Task \notin Taken /\ Taken' = Taken \cup {Task}
<1>1. /\ Pending /\ accepted' = accepted + 1
      /\ write_task' = IF Read(Cmd) THEN write_task ELSE write_task \o Copies(Task, Beats(Cmd))
    BY DEF Accept
<1>2. /\ Task = accepted + 1 /\ accepted \in Nat /\ Task \in Tasks /\ Task \notin Taken
      /\ Beats(Cmd) \in Nat \ {0}
    BY <1>1, NextTask DEF Inv
<1>3. write_task \in Seq(Tasks)
    BY DEF Inv, TypeInv
<1>4. Rem(Task) = 0
    BY <1>2, Fresh
<1>5. Taken' = Taken \cup {Task}
    BY <1>1, <1>2 DEF Taken
<1>6. CASE Read(Cmd)
    BY <1>1, <1>2, <1>3, <1>5, <1>6 DEF Rem
<1>7. CASE ~Read(Cmd)
    <2>1. write_task' = write_task \o Copies(Task, Beats(Cmd))
        BY <1>1, <1>7
    <2> DEFINE n == Beats(Cmd)
    <2>2. n \in Nat /\ write_task' = write_task \o Copies(Task, n)
        BY <1>2, <2>1
    <2>3. ASSUME NEW t
          PROVE  write_task' \in Seq(Tasks)
                 /\ Count(write_task', t) = Count(write_task, t) + (IF t = Task THEN n ELSE 0)
        BY <1>2, <1>3, <2>2, CountCopies
    <2>4. \A t : Rem(t) \in Nat
        BY RemType DEF Inv
    <2>5. write_task' \in Seq(Tasks)
        BY <2>3
    <2>6. \A t : Rem(t)' = Rem(t) + (IF t = Task THEN n ELSE 0)
        BY <2>3 DEF Rem
    <2>7. \A t : Rem(t)' = IF t = Task THEN n ELSE Rem(t)
        BY <1>4, <2>2, <2>4, <2>6
    <2> QED BY <1>1, <1>2, <1>5, <1>7, <2>5, <2>7
<1> QED BY <1>6, <1>7

(* The driver sends a beat.                                                *)
LEMMA HeadSent ==
    ASSUME TypeInv, write_task # <<>>, write_task' = Tail(write_task)
    PROVE  /\ write_task' \in Seq(Tasks) /\ Head(write_task) \in Tasks
           /\ \A t : Rem(t) = Rem(t)' + (IF t = Head(write_task) THEN 1 ELSE 0)
           /\ \A t : Rem(t)' \in Nat
           /\ Rem(Head(write_task)) > 0
<1>1. write_task \in Seq(Tasks)
    BY DEF TypeInv
<1>2. write_task' \in Seq(Tasks) /\ Head(write_task) \in Tasks
    BY <1>1, CountTail
<1>3. ASSUME NEW t PROVE Count(write_task, t) = Count(write_task', t) + (IF Head(write_task) = t THEN 1 ELSE 0)
    BY <1>1, CountTail
<1>4. \A t : Rem(t) = Rem(t)' + (IF t = Head(write_task) THEN 1 ELSE 0)
    BY <1>3 DEF Rem
<1>5. \A t : Count(write_task', t) \in Nat
    BY <1>2, CountType
<1>6. \A t : Rem(t)' \in Nat
    BY <1>5 DEF Rem
<1>7. Rem(Head(write_task)) > 0
    BY <1>4, <1>6
<1> QED BY <1>2, <1>4, <1>6, <1>7

(* What is left of an entry or a transaction after it.                     *)
LEMMA LeftSent ==
    ASSUME TypeInv, write_task # <<>>, write_task' = Tail(write_task), NEW u, u.task # u.first
    PROVE  /\ Left(u)' = Left(u) - (IF Head(write_task) \in Names(u) THEN 1 ELSE 0)
           /\ Left(u)' \in Nat /\ Left(u) \in Nat
<1> DEFINE t == Head(write_task)
<1>1. /\ t \in Tasks /\ \A d : Rem(d) = Rem(d)' + (IF d = t THEN 1 ELSE 0)
      /\ \A d : Rem(d)' \in Nat
    BY HeadSent
<1>2. t # NoTask
    BY <1>1, TaskIs
<1> HIDE DEF t
<1>3. Rem(u.task) = Rem(u.task)' + (IF u.task = t THEN 1 ELSE 0)
    BY <1>1
<1>4. Rem(u.first) = Rem(u.first)' + (IF u.first = t THEN 1 ELSE 0)
    BY <1>1
<1>5. Rem(u.task)' \in Nat /\ Rem(u.first)' \in Nat
    BY <1>1
<1>6. Left(u)' = Rem(u.task)' + Rem(u.first)' /\ Left(u) = Rem(u.task) + Rem(u.first)
    BY DEF Left
<1>7. t \in Names(u) <=> u.task = t \/ u.first = t
    BY <1>2 DEF Names
<1> DEFINE a == Rem(u.task)
           b == Rem(u.first)
           a1 == Rem(u.task)'
           b1 == Rem(u.first)'
<1>8. a = a1 + (IF u.task = t THEN 1 ELSE 0) /\ b = b1 + (IF u.first = t THEN 1 ELSE 0)
      /\ a1 \in Nat /\ b1 \in Nat /\ Left(u)' = a1 + b1 /\ Left(u) = a + b
    BY <1>3, <1>4, <1>5, <1>6
<1> HIDE DEF a, b, a1, b1
<1> DEFINE l == Left(u)
           l1 == Left(u)'
<1>9. l1 = l - (IF t \in Names(u) THEN 1 ELSE 0) /\ l1 \in Nat /\ l \in Nat
    <2>1. l1 = a1 + b1 /\ l = a + b
        BY <1>8
    <2> HIDE DEF l, l1
    <2>2. CASE u.task = t
        BY <1>7, <1>8, <2>1, <2>2
    <2>3. CASE u.first = t
        BY <1>7, <1>8, <2>1, <2>3
    <2>4. CASE u.task # t /\ u.first # t
        BY <1>7, <1>8, <2>1, <2>4
    <2> QED BY <2>2, <2>3, <2>4
<1> QED BY <1>9 DEF t
-----------------------------------------------------------------------------
(*************************************************************************)
(* A beat of the driver, in each of its five ways, fills an entry or pays  *)
(* what a write of the controller is owed.                                 *)
(*************************************************************************)
(* A beat of the driver (recv_wdata), in its five ways.                    *)
ABeat == BeatToMerged \/ BeatRemapped \/ BeatFast \/ BeatQueued \/ BeatPassed

(* A beat fills an entry: its own, or that of its partner.                 *)
Fills(t) ==
    /\ \E e \in Ents : /\ t \in Names(e) /\ ~Read(e) /\ e.ready < Beats(e)
                       /\ Ents' = (Ents \ {e}) \cup {[e EXCEPT !.ready = @ + 1]}
    /\ Len(RmwQue') = Len(RmwQue)
    /\ UNCHANGED <<mcOrder, write_map, data_taken>>

(* A beat pays what the controller is owed of the first write it expects.  *)
Pays(t) ==
    /\ \E x \in Writes : x.task = mcOrder[1].task /\ t \in Names(x)
    /\ mcOrder # <<>> /\ mcOrder' = Took(mcOrder) /\ data_taken' = TRUE
    /\ write_map' = [write_map EXCEPT ![mcOrder[1].task] = @ - 1]
    /\ write_map[mcOrder[1].task] > 0

(* A beat that is submitted is for the first write of the controller's     *)
(* order.                                                                  *)
LEMMA SubmitIs ==
    ASSUME Inv, NEW d, submitData(d)
    PROVE  /\ mcOrder # <<>> /\ mcOrder[1].task = d /\ In(mcOrder, d) /\ d \in Tasks
           /\ mcOrder' = Took(mcOrder) /\ data_taken' = TRUE
           /\ write_map' = [write_map EXCEPT ![d] = @ - 1] /\ write_map[d] > 0
           /\ \E x \in Writes : x.task = d
<1>1. /\ mcOrder # <<>> /\ mcOrder[1].task = d
      /\ mcOrder' = Took(mcOrder) /\ data_taken' = TRUE
      /\ write_map' = [write_map EXCEPT ![d] = @ - 1] /\ write_map[d] > 0
    BY DEF submitData, CanSubmit, canReceiveWdata
<1>2. mcOrder \in Seq(OrdT) /\ Once(mcOrder)
    BY DEF Inv, TypeInv, DataInv
<1>3. In(mcOrder, d) /\ d \in Tasks
    <2>1. mcOrder[1] \in OrdT /\ Len(mcOrder) \in Nat \ {0}
        BY <1>1, <1>2, TookIs
    <2> QED BY <1>1, <2>1 DEF In, OrdT
<1>4. \E x \in Writes : x.task = d
    BY <1>3 DEF Inv, DataInv
<1> QED BY <1>1, <1>3, <1>4

(* The unit of a write.                                                    *)
LEMMA WriteUnit ==
    ASSUME Inv, NEW x \in Writes
    PROVE  /\ x \in Served /\ Sent(x) \in Units /\ Sent(x).task = x.task /\ Sent(x).first = x.first
           /\ Sent(x).at = "write" /\ x.task \in Taken /\ x.first \in Taken \cup {NoTask}
           /\ x.task # x.first /\ Names(Sent(x)) = Names(x) /\ x \in TransT
<1>1. x \in Served /\ x.kind = "write" /\ x \in TransT
    BY DEF Writes, Served, Inv, TypeInv
<1>2. Sent(x) \in Units /\ Sent(x).task = x.task /\ Sent(x).first = x.first /\ Sent(x).at = "write"
    BY <1>1, UnitsAre DEF Inv
<1> QED BY <1>1, <1>2 DEF Names, Inv, UnitInv

(* The unit of an entry.                                                   *)
LEMMA EntUnit ==
    ASSUME Inv, NEW e \in Ents
    PROVE  /\ Waiting(e) \in Units /\ Waiting(e).task = e.task /\ Waiting(e).first = e.first
           /\ Waiting(e).at = "rmw" /\ e.task \in Taken /\ e.first \in Taken \cup {NoTask}
           /\ e.task # e.first /\ Names(Waiting(e)) = Names(e) /\ e \in EntT
<1>1. Waiting(e) \in Units /\ Waiting(e).task = e.task /\ Waiting(e).first = e.first
      /\ Waiting(e).at = "rmw"
    BY UnitsAre DEF Inv
<1> QED BY <1>1, EntsAre DEF Names, Inv, UnitInv

(* The first remap of a task is one of its remaps.                         *)
LEMMA RemapIs ==
    ASSUME Inv, NEW t, RemapsOf(t) # {}
    PROVE  LET n == First(RemapsOf(t))
           IN  /\ n \in 1 .. Len(remaps) /\ remaps[n].src = t /\ remaps[n] \in RemapT
               /\ Wed(t, remaps[n].dst) /\ RMW_CMD_MODE # 2
<1> DEFINE n == First(RemapsOf(t))
<1>1. remaps \in Seq(RemapT) /\ Len(remaps) \in Nat /\ DOMAIN remaps = 1 .. Len(remaps)
    BY DEF Inv, TypeInv
<1>2. RemapsOf(t) \in SUBSET (1 .. Len(remaps))
    BY <1>1 DEF RemapsOf
<1>3. n \in RemapsOf(t)
    BY <1>1, <1>2, FirstIn
<1> HIDE DEF n
<1>4. n \in 1 .. Len(remaps) /\ remaps[n].src = t
    BY <1>1, <1>3 DEF RemapsOf
<1>5. remaps[n] \in RemapT
    BY <1>1, <1>4, ElementOfSeq
<1>6. Wed(t, remaps[n].dst)
    BY <1>4 DEF Inv, WedInv
<1>7. RMW_CMD_MODE # 2
    <2>1. Len(remaps) # 0
        BY <1>1, <1>4
    <2> QED BY <1>1, <2>1 DEF Inv, WedInv
<1> QED BY <1>4, <1>5, <1>6, <1>7 DEF n

(* Of every way a beat goes, what it does to the data.                     *)
LEMMA BeatIs ==
    ASSUME Inv, ABeat
    PROVE  LET t == Head(write_task)
           IN  /\ write_task # <<>> /\ write_task' = Tail(write_task)
               /\ UNCHANGED <<WdataToSend, rd_finish, transactionQueue, cmds, accepted>>
               /\ Fills(t) \/ (Pays(t) /\ Ents' = Ents /\ RmwQue' = RmwQue)
<1> DEFINE t == Head(write_task)
<1>1. write_task # <<>> /\ write_task' = Tail(write_task)
      /\ UNCHANGED <<WdataToSend, rd_finish, transactionQueue, cmds, accepted>>
    BY DEF ABeat, BeatToMerged, BeatRemapped, BeatFast, BeatQueued, BeatPassed, Beat, mcVars
<1>2. ASSUME NEW d, submitData(d), RmwQue' = RmwQue,
             \A u \in Units : u.task = d => t \in Names(u)
      PROVE  Pays(t) /\ Ents' = Ents /\ RmwQue' = RmwQue
    <2>1. /\ mcOrder # <<>> /\ mcOrder[1].task = d
          /\ mcOrder' = Took(mcOrder) /\ data_taken' = TRUE
          /\ write_map' = [write_map EXCEPT ![d] = @ - 1] /\ write_map[d] > 0
        BY <1>2, SubmitIs
    <2>2. PICK x \in Writes : x.task = d
        BY <1>2, SubmitIs
    <2>3. t \in Names(x)
        BY <1>2, <2>2, WriteUnit
    <2>4. Ents' = Ents
        BY <1>2 DEF Ents
    <2> HIDE DEF t
    <2> QED BY <1>2, <2>1, <2>2, <2>3, <2>4 DEF Pays
<1>3. ASSUME NEW d, Lacking(d) # {}, RmwQue' = ready_beat(First(Lacking(d))),
             \A u \in Units : u.task = d => t \in Names(u),
             UNCHANGED <<mcOrder, write_map, data_taken>>
      PROVE  Fills(t)
    <2>1. PICK e \in Ents : /\ e.task = d /\ ~Read(e) /\ e.ready < Beats(e)
                            /\ Ents' = (Ents \ {e}) \cup {[e EXCEPT !.ready = @ + 1]}
                            /\ Len(RmwQue') = Len(RmwQue)
        BY <1>3, EntFilled DEF Inv
    <2>2. t \in Names(e)
        BY <1>3, <2>1, EntUnit
    <2> HIDE DEF t
    <2> QED BY <1>3, <2>1, <2>2 DEF Fills
<1>4. t \in Tasks /\ t # NoTask
    BY <1>1, HeadSent, TaskIs DEF Inv
<1>5. CASE BeatFast \/ BeatPassed
    <2>1. submitData(t) /\ RmwQue' = RmwQue
        BY <1>5 DEF BeatFast, BeatPassed
    <2>2. \A u \in Units : u.task = t => t \in Names(u)
        BY <1>4 DEF Names
    <2> QED BY <1>1, <1>2, <2>1, <2>2
<1>6. CASE BeatQueued
    <2>1. Lacking(t) # {} /\ RmwQue' = ready_beat(First(Lacking(t)))
          /\ UNCHANGED <<mcOrder, write_map, data_taken>>
        BY <1>6 DEF BeatQueued, Beat, Route, dataVars
    <2>2. \A u \in Units : u.task = t => t \in Names(u)
        BY <1>4 DEF Names
    <2> QED BY <1>1, <1>3, <2>1, <2>2
<1>7. CASE BeatToMerged
    <2>1. PICK b \in BypassedOf(t) : submitData(b.merged) /\ RmwQue' = RmwQue
        BY <1>7 DEF BeatToMerged
    <2>2. b \in bypassed /\ (t = b.first \/ t = b.merged)
        BY <2>1 DEF BypassedOf
    <2>3. Wed(b.first, b.merged)
        BY <2>2 DEF Inv, WedInv
    <2>4. \A u \in Units : u.task = b.merged => t \in Names(u)
        BY <1>4, <2>2, <2>3 DEF Wed, Names
    <2> QED BY <1>1, <1>2, <2>1, <2>4
<1>8. CASE BeatRemapped
    <2> DEFINE n == First(RemapsOf(t))
               d == remaps[n].dst
    <2>1. RemapsOf(t) # {} /\ RemapFits(n)
        BY <1>8 DEF BeatRemapped, Beat, Route
    <2>2. Wed(t, d)
        BY <2>1, RemapIs
    <2>3. \A u \in Units : u.task = d => t \in Names(u)
        BY <1>4, <2>2 DEF Wed, Names
    <2>4. CASE RMW_CMD_MODE = 1
        <3>1. Lacking(d) # {} /\ RmwQue' = ready_beat(First(Lacking(d)))
              /\ UNCHANGED <<mcOrder, write_map, data_taken>>
            BY <1>8, <2>1, <2>4 DEF BeatRemapped, RemapFits, dataVars
        <3> HIDE DEF d
        <3> QED BY <1>1, <1>3, <2>3, <3>1
    <2>5. CASE RMW_CMD_MODE # 1
        <3>1. submitData(d) /\ RmwQue' = RmwQue
            BY <1>8, <2>5 DEF BeatRemapped
        <3> HIDE DEF d
        <3> QED BY <1>1, <1>2, <2>3, <3>1
    <2> QED BY <2>4, <2>5
<1> QED BY <1>5, <1>6, <1>7, <1>8 DEF ABeat
-----------------------------------------------------------------------------
(*************************************************************************)
(* DataInv: what an entry has and is still to get is its length; what the  *)
(* controller waits for is still to come.                                  *)
(*************************************************************************)
(* The configuration does not change.                                      *)
LEMMA ConfigKept ==
    ASSUME Inv, [Next]_vars, ~UNPAIRED_TO_RMW_EN
    PROVE  config' = config
<1>1. CASE InPlace
    BY <1>1, InPlaceSame DEF Inv
<1>2. CASE Enqueue \/ Bypass \/ Merge
    BY <1>2 DEF Enqueue, Bypass, Merge, Accept, Then
<1>3. CASE SendMergeRead \/ SendRead \/ SendWrite
    BY <1>3 DEF SendMergeRead, SendRead, SendWrite, Turn, Arb, Then
<1>4. CASE \E x \in transactionQueue : Finish(x)
    BY <1>4 DEF Finish, Then
<1> QED BY <1>1, <1>2, <1>3, <1>4, NextIs

(* What was taken does not change.                                         *)
LEMMA CmdsKept ==
    ASSUME Inv, [Next]_vars
    PROVE  /\ \A t \in Taken : cmds'[t] = cmds[t]
           /\ \A t \in Taken \cup {NoTask} : Burst(t)' = Burst(t)
<1>1. \A t \in Taken : cmds'[t] = cmds[t]
    <2>1. CASE NewCommand
        <3>1. PICK c : cmds' = Append(cmds, c)
            BY <2>1 DEF NewCommand
        <3>2. cmds \in Seq(Offers) /\ \A t \in Taken : t \in 1 .. Len(cmds)
            BY TakenTasks DEF Inv, QueInv
        <3>3. \A t \in 1 .. Len(cmds) : cmds'[t] = cmds[t]
            BY <3>1, <3>2, AppendProperties
        <3> QED BY <3>2, <3>3
    <2>2. CASE ~NewCommand
        <3>1. cmds' = cmds
            BY <2>2 DEF Next, vars, hostVars, NoCommand, Refused, NoBeat, SchQue, NoneSent, Arb, Turn,
               SendMergeRead, SendRead, SendWrite, BacklogRefuses, SendWdata, NoWdata, Finish, FinishNone,
               Stopped, Merge, Enqueue, Bypass, Accept, BeatToMerged, BeatRemapped, BeatFast, BeatQueued,
               BeatPassed, Beat
        <3> QED BY <3>1
    <2> QED BY <2>1, <2>2
<1>2. \A t \in Taken : t # NoTask
    BY TakenTasks DEF Inv
<1> QED BY <1>1, <1>2 DEF Burst

(* The entry of a command, after a step that changes what it has or what   *)
(* is left of it.                                                          *)
LEMMA EntOkStep ==
    ASSUME Inv, [Next]_vars, ~UNPAIRED_TO_RMW_EN,
           NEW e \in Ents, NEW f, SameName(e, f),
           Read(e) => f.state = "waiting" /\ f.ready = 0 /\ Left(f)' = 0,
           f.ready + Left(f)' <= Beats(e),
           ~Read(e) /\ (~AREF_EN \/ Waits(f)) => f.ready + Left(f)' = Beats(e),
           f.state = "ready" /\ (e.kind = "mask" \/ RMW_CMD_MODE = 1) => Left(f)' = 0
    PROVE  EntOk(f)'
<1>1. config' = config
    BY ConfigKept
<1>2. /\ f.task = e.task /\ f.first = e.first /\ f.kind = e.kind /\ f.left = e.left /\ f.right = e.right
    BY DEF SameName
<1>3. Beats(f) = Beats(e) /\ (Read(f) <=> Read(e))
    BY <1>2 DEF Beats, Read
<1>4. e.task \in Taken /\ e.first \in Taken \cup {NoTask}
    BY EntUnit
<1>5. cmds'[f.task] = cmds[e.task] /\ (f.first # NoTask => cmds'[f.first] = cmds[e.first])
    BY <1>2, <1>4, CmdsKept
<1>6. Burst(f.task)' = Burst(e.task) /\ Burst(f.first)' = Burst(e.first)
    BY <1>2, <1>4, CmdsKept
<1>7. EntOk(e)
    BY DEF Inv, DataInv
<1>8. AREF_EN' = AREF_EN /\ (RMW_CMD_MODE' = RMW_CMD_MODE) /\ (Waits(f)' <=> Waits(f))
    BY <1>1 DEF AREF_EN, RMW_CMD_MODE, Waits, is_write_merge_candidate, is_unpaired_write_merge_timeout,
       WCMD_MERGE_EN
<1>9. /\ f.kind = cmds'[f.task].kind
      /\ f.first # NoTask => f.kind = "full" /\ cmds'[f.first].kind = "full" /\ Beats(f) = 4
      /\ Beats(f) = Burst(f.task)' + Burst(f.first)'
    BY <1>2, <1>3, <1>5, <1>6, <1>7 DEF EntOk
<1>10. Read(f)' = Read(f) /\ Beats(f)' = Beats(f)
    BY DEF Read, Beats
<1> QED BY <1>2, <1>3, <1>8, <1>9, <1>10 DEF EntOk

(* What an entry has and lacks, in numbers.                                *)
LEMMA EntNumbers ==
    ASSUME Inv, NEW e \in Ents
    PROVE  /\ e.ready \in Nat /\ Beats(e) \in Nat \ {0} /\ Left(e) \in Nat
           /\ e.ready + Left(e) <= Beats(e)
           /\ Rem(e.task) \in Nat /\ Rem(e.first) \in Nat /\ Left(e) = Rem(e.task) + Rem(e.first)
<1>1. e \in EntT /\ e.left < e.right
    BY EntsAre DEF Inv
<1>2. Beats(e) \in Nat \ {0} /\ e.ready \in Nat
    BY <1>1, EntFields DEF Beats
<1>3. Rem(e.task) \in Nat /\ Rem(e.first) \in Nat /\ Left(e) \in Nat
    BY RemType DEF Inv
<1>4. EntOk(e)
    BY DEF Inv, DataInv
<1> QED BY <1>2, <1>3, <1>4 DEF EntOk, Left

(* A write whose data is not touched.                                      *)
LEMMA WriteOkStep ==
    ASSUME Inv, [Next]_vars, ~UNPAIRED_TO_RMW_EN, NEW x \in Writes,
           Due(mcOrder, x.task)' >= Left(x)' + Count(WdataToSend, x.task)',
           ~AREF_EN => Due(mcOrder, x.task)' = Left(x)' + Count(WdataToSend, x.task)'
    PROVE  WriteOk(x)'
<1>1. x.task \in Taken /\ x.first \in Taken \cup {NoTask}
    BY WriteUnit
<1>2. cmds'[x.task] = cmds[x.task] /\ (x.first # NoTask => cmds'[x.first] = cmds[x.first])
    BY <1>1, CmdsKept
<1>3. WriteOk(x) /\ config' = config
    BY ConfigKept DEF Inv, DataInv
<1> QED BY <1>2, <1>3 DEF WriteOk, Read, AREF_EN

(* A write stays as it was when nothing due to it changes.                 *)
LEMMA WriteOkSame ==
    ASSUME Inv, [Next]_vars, ~UNPAIRED_TO_RMW_EN, NEW x \in Writes,
           Due(mcOrder, x.task)' = Due(mcOrder, x.task), Left(x)' = Left(x),
           Count(WdataToSend, x.task)' = Count(WdataToSend, x.task)
    PROVE  WriteOk(x)'
<1>1. WriteOk(x)
    BY DEF Inv, DataInv
<1> QED BY <1>1, WriteOkStep DEF WriteOk

(* A step that moves no data.                                              *)
LEMMA DataStill ==
    ASSUME Inv, [Next]_vars, ~UNPAIRED_TO_RMW_EN,
           Writes' = Writes, Units' = Units, UNCHANGED <<write_task, WdataToSend, mcOrder>>,
           \A f \in Ents' : EntOk(f)'
    PROVE  DataInv'
<1>1. config' = config /\ AREF_EN' = AREF_EN
    BY ConfigKept DEF AREF_EN
<1>2. ASSUME NEW x \in Writes PROVE WriteOk(x)'
    <2>1. Left(x)' = Left(x) /\ Due(mcOrder, x.task)' = Due(mcOrder, x.task)
          /\ Count(WdataToSend, x.task)' = Count(WdataToSend, x.task)
        BY DEF Left, Rem, Due, Count
    <2> QED BY <2>1, WriteOkSame
<1>3. \A t : Rem(t)' = Rem(t)
    BY DEF Rem
<1>4. Once(mcOrder)' /\ \A t : In(mcOrder, t)' => In(mcOrder, t)
    BY DEF Inv, DataInv, Once, In
<1>5. \A t \in Tasks : Rem(t)' > 0 => \E u \in Units' : t \in Names(u) /\ u.at # "read"
    BY <1>3 DEF Inv, DataInv
<1>6. \A t \in Tasks : Count(WdataToSend', t) > 0 => \E x \in Writes' : x.task = t
    BY DEF Inv, DataInv
<1>7. \A t : In(mcOrder, t)' => \E x \in Writes' : x.task = t
    BY <1>4 DEF Inv, DataInv
<1> QED BY <1>2, <1>4, <1>5, <1>6, <1>7 DEF DataInv, Names

(* An entry that is not touched.                                           *)
LEMMA EntOkSame ==
    ASSUME Inv, [Next]_vars, ~UNPAIRED_TO_RMW_EN, NEW e \in Ents, Left(e)' = Left(e)
    PROVE  EntOk(e)'
<1>1. EntOk(e) /\ e \in EntT
    BY EntsAre DEF Inv, DataInv
<1>2. SameName(e, e)
    BY <1>1 DEF SameName
<1> QED BY <1>1, <1>2, EntOkStep DEF EntOk

(* sch_que only makes ready what has its beats.                            *)
LEMMA DataScheduled ==
    ASSUME Inv, SchQue, ~UNPAIRED_TO_RMW_EN
    PROVE  DataInv'
<1>1. [Next]_vars /\ InPlace
    BY DEF Next, InPlace
<1>2. UNCHANGED <<write_task, WdataToSend, mcOrder, transactionQueue>> /\ Units' = Units
    BY <1>1, InPlaceSame DEF SchQue, hostVars, sendVars, dataVars, mcVars, Inv
<1>3. \A t : Left(t)' = Left(t)
    BY <1>2 DEF Left, Rem
<1>4. ASSUME NEW e \in Ents, NEW f, f = sch_entry(e) PROVE EntOk(f)'
    <2>1. EntOk(e) /\ e \in EntT /\ e.ready \in Nat /\ Beats(e) \in Nat \ {0} /\ Left(e) \in Nat
          /\ e.ready + Left(e) <= Beats(e)
        BY EntsAre, EntNumbers DEF Inv, DataInv
    <2>2. CASE NowReady(e)
        <3>1. f = [e EXCEPT !.state = "ready"]
            BY <1>4, <2>2, SchIs
        <3>2. SameName(e, f) /\ f.ready = e.ready /\ f.state = "ready" /\ f.age = e.age
            BY <2>1, <3>1, StateSet
        <3>3. Left(f)' = Left(e)
            <4>1. Left(f)' = Left(f)
                BY <1>3
            <4> QED BY <3>2, <4>1 DEF Left, SameName
        <3>4. Filled(e) /\ ~Read(e)
            BY <2>2 DEF NowReady, MaskReady, is_unpaired_write_merge_timeout, is_write_merge_candidate, Read
        <3>5. Left(e) = 0
            BY <2>1, <3>4 DEF Filled
        <3>6. f.ready + Left(f)' = Beats(e)
            BY <2>1, <3>2, <3>3, <3>4, <3>5 DEF Filled
        <3>7. EntOk(f)'
            BY <1>1, <2>1, <3>2, <3>3, <3>4, <3>5, <3>6, EntOkStep
        <3> QED BY <3>7
    <2>3. CASE ~NowReady(e)
        <3>1. f = e
            BY <1>4, <2>3, SchIs
        <3> QED BY <1>1, <1>3, <3>1, EntOkSame
    <2> QED BY <2>2, <2>3
<1>5. Ents' = {sch_entry(e) : e \in Ents}
    BY EntsScheduled DEF Inv
<1>6. \A f \in Ents' : EntOk(f)'
    BY <1>4, <1>5
<1>7. Writes' = Writes
    BY <1>2 DEF Writes
<1> QED BY <1>1, <1>2, <1>6, <1>7, DataStill

(* The wait of a write for a partner ends, and does not begin again.       *)
LEMMA DataAged ==
    ASSUME Inv, [Next]_vars, ~UNPAIRED_TO_RMW_EN, Ages, UNCHANGED <<write_task>>
    PROVE  \A f \in Ents' : EntOk(f)'
<1>1. \A t : Left(t)' = Left(t)
    BY DEF Left, Rem
<1>2. ASSUME NEW e \in Ents PROVE EntOk(Aged(e))'
    <2> DEFINE f == Aged(e)
    <2>1. EntOk(e) /\ e \in EntT
        BY EntsAre DEF Inv, DataInv
    <2>2. SameName(e, f) /\ f.ready = e.ready /\ f.state = e.state /\ f.age >= e.age
          /\ e.age \in Nat /\ f.age \in Nat
        BY <2>1, AgedIs, EntFields DEF SameName
    <2> HIDE DEF f
    <2>3. Left(f)' = Left(e)
        <3>1. Left(f)' = Left(f)
            BY <1>1
        <3> QED BY <2>2, <3>1 DEF Left, SameName
    <2>4. Waits(f) => Waits(e)
        <3>1. Beats(f) = Beats(e) /\ f.kind = e.kind
            BY <2>2 DEF SameName, Beats
        <3>2. WRITE_MERGE_TIMEOUT \in Nat
            BY RmwAssumption DEF RmwAssumption
        <3>3. is_write_merge_candidate(f) <=> is_write_merge_candidate(e)
            BY <3>1 DEF is_write_merge_candidate
        <3>4. is_unpaired_write_merge_timeout(e) => is_unpaired_write_merge_timeout(f)
            BY <2>2, <3>2, <3>3 DEF is_unpaired_write_merge_timeout
        <3> QED BY <3>3, <3>4 DEF Waits
    <2>5. EntOk(f)'
        BY <2>1, <2>2, <2>3, <2>4, EntOkStep DEF EntOk
    <2> QED BY <2>5 DEF f
<1>3. Ents' = {Aged(e) : e \in Ents}
    BY EntsAged DEF Inv
<1> QED BY <1>2, <1>3

(* A refusal empties entries only with a backlog (AREF_EN).                *)
LEMMA DataEmptied ==
    ASSUME Inv, BacklogRefuses, ~UNPAIRED_TO_RMW_EN
    PROVE  DataInv'
<1>1. [Next]_vars /\ InPlace /\ AREF_EN
    BY DEF Next, InPlace, BacklogRefuses
<1>2. UNCHANGED <<write_task, WdataToSend, mcOrder, transactionQueue>> /\ Units' = Units
    BY <1>1, InPlaceSame DEF BacklogRefuses, Turn, Arb, hostVars, sendVars, dataVars, Inv
<1>3. \A t : Left(t)' = Left(t)
    BY <1>2 DEF Left, Rem
<1>4. ASSUME NEW e \in Ents, NEW f, Emptied(e, f) PROVE EntOk(f)'
    <2>1. EntOk(e) /\ e \in EntT /\ e.ready \in Nat /\ Beats(e) \in Nat \ {0} /\ Left(e) \in Nat
          /\ e.ready + Left(e) <= Beats(e)
        BY EntsAre, EntNumbers DEF Inv, DataInv
    <2>2. CASE f = e
        BY <1>1, <1>3, <2>2, EntOkSame
    <2>3. CASE f = [e EXCEPT !.ready = 0] /\ Goes(e)
        <3>1. SameName(e, f) /\ f.ready = 0 /\ f.state = e.state /\ f.age = e.age
            BY <2>1, <2>3, ReadySet
        <3>2. ~Waits(e)
            BY <2>3 DEF Goes, Waits
        <3>3. ~Waits(f)
            BY <3>1, <3>2 DEF Waits, is_write_merge_candidate, is_unpaired_write_merge_timeout, Beats,
               SameName
        <3>4. Left(f)' = Left(e)
            <4>1. Left(f)' = Left(f)
                BY <1>3
            <4> QED BY <3>1, <4>1 DEF Left, SameName
        <3>5. f.ready + Left(f)' <= Beats(e)
            BY <2>1, <3>1, <3>4
        <3> QED BY <1>1, <2>1, <3>1, <3>3, <3>4, <3>5, EntOkStep DEF EntOk
    <2> QED BY <1>4, <2>2, <2>3 DEF Emptied
<1>5. \A f \in Ents' : \E e \in Ents : Emptied(e, f)
    BY EntsEmptied DEF Inv
<1>6. \A f \in Ents' : EntOk(f)'
    BY <1>4, <1>5
<1>7. Writes' = Writes
    BY <1>2 DEF Writes
<1> QED BY <1>1, <1>2, <1>6, <1>7, DataStill
-----------------------------------------------------------------------------
(* Idle steps and new offers change no beat.                               *)
LEMMA DataIdle ==
    ASSUME Inv, [Next]_vars, Quiet \/ NewCommand \/ FinishNone, ~UNPAIRED_TO_RMW_EN
    PROVE  DataInv'
<1>1. InPlace
    BY DEF InPlace
<1>2. UNCHANGED <<write_task, WdataToSend, mcOrder, transactionQueue>>
    BY DEF Quiet, NoCommand, Refused, NoBeat, NoneSent, NoWdata, Stopped, vars, Arb,
       hostVars, mcVars, sendVars, dataVars, NewCommand, FinishNone
<1>3. Units' = Units /\ Writes' = Writes
    BY <1>1, <1>2, InPlaceSame DEF Inv, Writes
<1>4. \A f \in Ents' : EntOk(f)'
    <2>1. CASE FinishNone
        BY <1>2, <2>1, DataAged DEF FinishNone
    <2>2. CASE Quiet \/ NewCommand
        <3>1. RmwQue' = RmwQue
            BY <2>2 DEF Quiet, NoCommand, Refused, NoBeat, NoneSent, NoWdata, Stopped, vars, Arb, NewCommand
        <3>2. Ents' = Ents
            BY <3>1 DEF Ents
        <3>3. \A e \in Ents : Left(e)' = Left(e)
            BY <1>2 DEF Left, Rem
        <3> QED BY <3>2, <3>3, EntOkSame
    <2> QED BY <2>1, <2>2
<1> QED BY <1>2, <1>3, <1>4, DataStill

(* The read of a mask write changes no beat.                               *)
LEMMA DataMaskRead ==
    ASSUME Inv, SendMergeRead, ~UNPAIRED_TO_RMW_EN
    PROVE  DataInv'
<1>1. [Next]_vars
    BY DEF Next
<1>2. PICK e \in Ents :
              /\ e.kind = "mask" /\ e.state = "waiting"
              /\ transactionQueue' = transactionQueue \cup
                     {[task |-> e.task, first |-> NoTask, kind |-> "merge"]}
              /\ Ents' = (Ents \ {e}) \cup {[e EXCEPT !.state = "merge_read"]}
    BY EntReads DEF Inv
<1>3. UNCHANGED <<write_task, WdataToSend, mcOrder>>
    BY DEF SendMergeRead, Turn, Arb, hostVars, sendVars, dataVars
<1>4. Writes' = Writes
    BY <1>2 DEF Writes
<1>5. Units' = Units
    BY UnitsMaskRead
<1>6. \A t : Left(t)' = Left(t)
    BY <1>3 DEF Left, Rem
<1>7. ASSUME NEW f, f = [e EXCEPT !.state = "merge_read"] PROVE EntOk(f)'
    <2>1. e \in EntT /\ EntOk(e)
        BY EntsAre DEF Inv, DataInv
    <2>2. SameName(e, f) /\ f.ready = e.ready /\ f.state = "merge_read" /\ f.age = e.age
        BY <1>7, <2>1, StateSet
    <2>3. Left(f)' = Left(e)
        <3>1. Left(f)' = Left(f)
            BY <1>6
        <3> QED BY <2>2, <3>1 DEF Left, SameName
    <2>4. (Waits(f) <=> Waits(e)) /\ ~Read(e)
        BY <1>2, <2>2 DEF Waits, is_write_merge_candidate, is_unpaired_write_merge_timeout, Beats,
           SameName, Read
    <2> QED BY <1>1, <2>1, <2>2, <2>3, <2>4, EntOkStep DEF EntOk
<1>8. \A f \in Ents' : EntOk(f)'
    BY <1>1, <1>2, <1>6, <1>7, EntOkSame
<1> QED BY <1>1, <1>3, <1>4, <1>5, <1>8, DataStill

(* The write has its data.                                                 *)
LEMMA DoneIs ==
    ASSUME Inv, NEW x \in Writes, HasData(x.task)
    PROVE  ~In(mcOrder, x.task) /\ Rem(x.task) = 0 /\ Rem(x.first) = 0 /\ Count(WdataToSend, x.task) = 0
<1>1. ~In(mcOrder, x.task)
    BY DEF HasData, In, Inv, TypeInv
<1>2. Due(mcOrder, x.task) = 0
    BY <1>1, DueIs DEF Inv, TypeInv, DataInv
<1>3. WriteOk(x)
    BY DEF Inv, DataInv
<1> DEFINE a == Rem(x.task)
           b == Rem(x.first)
           c == Count(WdataToSend, x.task)
<1>4. a \in Nat /\ b \in Nat /\ c \in Nat
    BY RemType DEF Inv
<1>5. a + b + c <= 0
    BY <1>2, <1>3 DEF WriteOk, Left
<1> HIDE DEF a, b, c
<1>6. a = 0 /\ b = 0 /\ c = 0
    BY <1>4, <1>5
<1> QED BY <1>1, <1>6 DEF a, b, c

(* What is answered has had its data.                                      *)
LEMMA DataFinish ==
    ASSUME Inv, NEW x \in transactionQueue, Finish(x), ~UNPAIRED_TO_RMW_EN
    PROVE  DataInv'
<1>1. [Next]_vars
    BY DEF Next
<1>2. /\ UNCHANGED <<write_task, WdataToSend, mcOrder>> /\ Ages
      /\ transactionQueue' = transactionQueue \ {x} /\ (x.kind = "write" => HasData(x.task))
    BY DEF Finish, hostVars, sendVars
<1>3. \A f \in Ents' : EntOk(f)'
    BY <1>1, <1>2, DataAged
<1>4. Writes' = Writes \ {x}
    BY <1>2 DEF Writes
<1>5. CASE x.kind # "write"
    <2>1. Writes' = Writes
        BY <1>4, <1>5 DEF Writes
    <2>2. CASE x.kind = "merge"
        BY <1>1, <1>2, <1>3, <2>1, <2>2, UnitsFinish, DataStill
    <2>3. CASE x.kind = "read"
        <3>1. Units' = Units \ {Sent(x)} /\ Sent(x).at = "read"
            BY <2>3, UnitsFinish DEF Sent
        <3>2. \A t : Rem(t)' = Rem(t)
            BY <1>2 DEF Rem
        <3>3. \A t \in Tasks : Rem(t)' > 0 => \E u \in Units' : t \in Names(u) /\ u.at # "read"
            <4> SUFFICES ASSUME NEW t \in Tasks, Rem(t) > 0
                         PROVE  \E u \in Units' : t \in Names(u) /\ u.at # "read"
                BY <3>2
            <4>1. PICK u \in Units : t \in Names(u) /\ u.at # "read"
                BY DEF Inv, DataInv
            <4>2. u # Sent(x)
                BY <3>1, <4>1
            <4> QED BY <3>1, <4>1, <4>2
        <3>4. ASSUME NEW y \in Writes PROVE WriteOk(y)'
            <4>1. Left(y)' = Left(y) /\ Due(mcOrder, y.task)' = Due(mcOrder, y.task)
                  /\ Count(WdataToSend, y.task)' = Count(WdataToSend, y.task)
                BY <1>2 DEF Left, Rem, Due, Count
            <4> QED BY <1>1, <4>1, WriteOkSame
        <3>5. Once(mcOrder)' /\ \A t : In(mcOrder, t)' => In(mcOrder, t)
            BY <1>2 DEF Inv, DataInv, Once, In
        <3>6. \A t \in Tasks : Count(WdataToSend', t) > 0 => \E y \in Writes' : y.task = t
            BY <1>2, <2>1 DEF Inv, DataInv
        <3>7. \A t : In(mcOrder, t)' => \E y \in Writes' : y.task = t
            BY <2>1, <3>5 DEF Inv, DataInv
        <3> QED BY <1>3, <2>1, <3>3, <3>4, <3>5, <3>6, <3>7 DEF DataInv, Names
    <2> QED BY <1>5, <2>2, <2>3 DEF Inv, TypeInv, TransT
<1>6. CASE x.kind = "write"
    <2>1. x \in Writes
        BY <1>6 DEF Writes
    <2>2. Units' = Units \ {Sent(x)}
        BY <1>6, UnitsFinish
    <2>3. ~In(mcOrder, x.task) /\ Rem(x.task) = 0 /\ Rem(x.first) = 0 /\ Count(WdataToSend, x.task) = 0
        BY <1>2, <1>6, <2>1, DoneIs
    <2>4. \A t : Rem(t)' = Rem(t)
        BY <1>2 DEF Rem
    <2>5. \A t \in Tasks : Rem(t)' > 0 => \E u \in Units' : t \in Names(u) /\ u.at # "read"
        <3> SUFFICES ASSUME NEW t \in Tasks, Rem(t) > 0
                     PROVE  \E u \in Units' : t \in Names(u) /\ u.at # "read"
            BY <2>4
        <3>1. PICK u \in Units : t \in Names(u) /\ u.at # "read"
            BY DEF Inv, DataInv
        <3>2. t # x.task /\ t # x.first
            BY <2>3
        <3>3. Sent(x).task = x.task /\ Sent(x).first = x.first
            BY <2>1, WriteUnit
        <3>4. u # Sent(x)
            BY <3>1, <3>2, <3>3 DEF Names
        <3> QED BY <2>2, <3>1, <3>4
    <2>6. ASSUME NEW y \in Writes PROVE WriteOk(y)'
        <3>1. Left(y)' = Left(y) /\ Due(mcOrder, y.task)' = Due(mcOrder, y.task)
              /\ Count(WdataToSend, y.task)' = Count(WdataToSend, y.task)
            BY <1>2 DEF Left, Rem, Due, Count
        <3> QED BY <1>1, <3>1, WriteOkSame
    <2>7. Once(mcOrder)' /\ \A t : In(mcOrder, t)' => In(mcOrder, t)
        BY <1>2 DEF Inv, DataInv, Once, In
    <2>8. \A t \in Tasks : Count(WdataToSend', t) > 0 => \E y \in Writes' : y.task = t
        <3> SUFFICES ASSUME NEW t \in Tasks, Count(WdataToSend, t) > 0
                     PROVE  \E y \in Writes' : y.task = t
            BY <1>2
        <3>1. PICK y \in Writes : y.task = t
            BY DEF Inv, DataInv
        <3>2. y # x
            BY <2>3, <3>1
        <3> QED BY <1>4, <3>1, <3>2
    <2>9. \A t : In(mcOrder, t)' => \E y \in Writes' : y.task = t
        <3> SUFFICES ASSUME NEW t, In(mcOrder, t) PROVE \E y \in Writes' : y.task = t
            BY <2>7
        <3>1. PICK y \in Writes : y.task = t
            BY DEF Inv, DataInv
        <3>2. y # x
            BY <2>3, <3>1
        <3> QED BY <1>4, <3>1, <3>2
    <2> QED BY <1>3, <1>4, <2>5, <2>6, <2>7, <2>8, <2>9 DEF DataInv, Names
<1> QED BY <1>5, <1>6
-----------------------------------------------------------------------------
(* Whoever was there when the next command came is not concerned.          *)
LEMMA LeftAccepted ==
    ASSUME Inv, Accept, NEW u, u.task \in Taken, u.first \in Taken \cup {NoTask}
    PROVE  Left(u)' = Left(u)
<1>1. \A t : Rem(t)' = IF t = Task /\ ~Read(Cmd) THEN Beats(Cmd) ELSE Rem(t)
    BY AcceptIs
<1>2. Task \notin Taken /\ Task # NoTask
    BY AcceptIs, TaskIs
<1>3. Rem(u.task)' = Rem(u.task) /\ Rem(u.first)' = Rem(u.first)
    BY <1>1, <1>2
<1> QED BY <1>3 DEF Left

(* A command comes in, however it is placed.                               *)
LEMMA DataAccept ==
    ASSUME Inv, Accept, [Next]_vars, ~UNPAIRED_TO_RMW_EN,
           WdataToSend' = WdataToSend,
           \A f \in Ents' : f \in Ents \/ EntOk(f)',
           \A x \in Writes' : x \in Writes \/ WriteOk(x)', Writes \subseteq Writes',
           \A u \in Units : u.at # "read" => \E v \in Units' : Names(u) \subseteq Names(v) /\ v.at # "read",
           ~Read(Cmd) => \E u \in Units' : Task \in Names(u) /\ u.at # "read",
           Once(mcOrder)', \A t : Due(mcOrder, t)' = Due(mcOrder, t) \/ t = Task,
           \A t : In(mcOrder, t)' => In(mcOrder, t) \/ \E x \in Writes' : x.task = t
    PROVE  DataInv'
<1>1. \A t : Rem(t)' = IF t = Task /\ ~Read(Cmd) THEN Beats(Cmd) ELSE Rem(t)
    BY AcceptIs
<1>2. Task \in Tasks /\ Task \notin Taken
    BY AcceptIs
<1>3. ASSUME NEW e \in Ents PROVE EntOk(e)'
    BY EntUnit, LeftAccepted, EntOkSame
<1>4. ASSUME NEW x \in Writes PROVE WriteOk(x)'
    <2>1. x.task \in Taken /\ x.first \in Taken \cup {NoTask}
        BY WriteUnit
    <2>2. Left(x)' = Left(x)
        BY <2>1, LeftAccepted
    <2>3. Due(mcOrder, x.task)' = Due(mcOrder, x.task)
        BY <1>2, <2>1
    <2> QED BY <2>2, <2>3, WriteOkSame DEF Count
<1>5. \A t \in Tasks : Rem(t)' > 0 => \E u \in Units' : t \in Names(u) /\ u.at # "read"
    <2> SUFFICES ASSUME NEW t \in Tasks, Rem(t)' > 0
                 PROVE  \E u \in Units' : t \in Names(u) /\ u.at # "read"
        OBVIOUS
    <2>1. CASE t = Task /\ ~Read(Cmd)
        BY <2>1
    <2>2. CASE ~(t = Task /\ ~Read(Cmd))
        <3>1. Rem(t) > 0
            BY <1>1, <2>2
        <3>2. PICK u \in Units : t \in Names(u) /\ u.at # "read"
            BY <3>1 DEF Inv, DataInv
        <3> QED BY <3>2
    <2> QED BY <2>1, <2>2
<1>6. \A t \in Tasks : Count(WdataToSend', t) > 0 => \E x \in Writes' : x.task = t
    BY DEF Inv, DataInv
<1>7. \A t : In(mcOrder, t)' => \E x \in Writes' : x.task = t
    BY DEF Inv, DataInv
<1> QED BY <1>3, <1>4, <1>5, <1>6, <1>7 DEF DataInv, Names

(* A new entry has no beats, and all are to come.                          *)
LEMMA DataEnqueue ==
    ASSUME Inv, Enqueue, ~UNPAIRED_TO_RMW_EN
    PROVE  DataInv'
<1>1. [Next]_vars /\ Accept
    BY DEF Next, Enqueue
<1>2. PICK e \in EntT :
              /\ e.task = Task /\ e.first = NoTask /\ e.kind = Cmd.kind
              /\ e.left = Cmd.left /\ e.right = Cmd.right
              /\ e.ready = 0 /\ e.state = "waiting" /\ e.age = 0
              /\ Ents' = Ents \cup {e}
    BY EntAdded DEF Inv
<1>3. UNCHANGED <<WdataToSend, mcOrder, transactionQueue, cmds>>
    BY DEF Enqueue, Accept, sendVars
<1>4. Writes' = Writes /\ Served' = Served
    BY <1>3 DEF Writes, Served
<1>5. Units' = Units \cup {Waiting(e)}
    BY <1>2, <1>4 DEF Units, Waiting, Sent
<1>6. Task \in Names(Waiting(e)) /\ Waiting(e).at # "read"
    BY <1>1, <1>2, AcceptIs, TaskIs DEF Names, Waiting
<1>7. Task # NoTask /\ Pending /\ Task \in Tasks
    BY <1>1, AcceptIs, TaskIs
<1>8. EntOk(e)'
    <2>1. Cmd = cmds[Task] /\ Beats(Cmd) \in Nat \ {0} /\ Cmd.kind \in {"read", "full", "mask"}
        BY <1>7, NextTask DEF Inv
    <2>2. Beats(e) = Beats(Cmd) /\ (Read(e) <=> Read(Cmd))
        BY <1>2 DEF Beats, Read
    <2>3. cmds'[e.task].kind = e.kind /\ Burst(e.task)' = Beats(Cmd) /\ Burst(e.first)' = 0
        BY <1>2, <1>3, <1>7, <2>1 DEF Burst
    <2>4. Rem(Task) = 0 /\ Rem(NoTask) = 0
        BY <1>1, AcceptIs, Fresh, RemType DEF Inv
    <2>5. \A t : Rem(t)' = IF t = Task /\ ~Read(Cmd) THEN Beats(Cmd) ELSE Rem(t)
        BY <1>1, AcceptIs
    <2>6. Left(e)' = IF Read(e) THEN 0 ELSE Beats(e)
        BY <1>2, <1>7, <2>1, <2>2, <2>4, <2>5 DEF Left
    <2>7. Beats(e)' = Beats(e) /\ Read(e)' = Read(e)
        BY DEF Beats, Read
    <2> QED BY <1>2, <2>1, <2>2, <2>3, <2>6, <2>7 DEF EntOk
<1>9. Once(mcOrder)' /\ (\A t : Due(mcOrder, t)' = Due(mcOrder, t)) /\ (\A t : In(mcOrder, t)' => In(mcOrder, t))
    BY <1>3 DEF Inv, DataInv, Once, Due, In
<1> QED BY <1>1, <1>2, <1>3, <1>4, <1>5, <1>6, <1>8, <1>9, DataAccept

(* The length of a command is that of its entry.                           *)
LEMMA BurstType ==
    ASSUME Inv, NEW t \in Taken
    PROVE  Burst(t) \in Nat \ {0} /\ Burst(t) = Beats(cmds[t]) /\ Burst(NoTask) = 0
<1>1. t \in 1 .. Len(cmds) /\ t # NoTask /\ cmds \in Seq(Offers)
    BY TakenTasks DEF Inv, QueInv
<1>2. cmds[t] \in Offers
    BY <1>1, ElementOfSeq
<1> QED BY <1>1, <1>2, OfferTyped DEF Burst, Beats

(* A merged write has what its partner had, and is as long as both.        *)
LEMMA DataMerge ==
    ASSUME Inv, Merge, ~UNPAIRED_TO_RMW_EN
    PROVE  DataInv'
<1> DEFINE e == Stripped(RmwQue[First(Partners(Cmd))])
           g == build_merged(e, Task, Cmd)
<1>1. [Next]_vars /\ Accept
    BY DEF Next, Merge
<1>2. PICK f \in EntT : f = g
    BY MergeIs
<1>3. /\ e \in Ents /\ e \in EntT /\ Ents' = (Ents \ {e}) \cup {f}
      /\ e.first = NoTask /\ Waits(e) /\ e.kind = "full" /\ Cmd.kind = "full"
      /\ Beats(e) = 2 /\ Beats(Cmd) = 2
      /\ f.task = Task /\ f.first = e.task /\ f.kind = "full" /\ f.ready = e.ready
      /\ f.state = "waiting" /\ f.age = 0 /\ Beats(f) = 4
    BY <1>2, MergeIs
<1> HIDE DEF g
<1>4. PICK d \in Ents : d = e
    BY <1>3
<1> HIDE DEF e
<1>5. UNCHANGED <<WdataToSend, mcOrder, transactionQueue, cmds>>
    BY DEF Merge, Accept, sendVars
<1>6. Writes' = Writes /\ Served' = Served
    BY <1>5 DEF Writes, Served
<1>7. Task # NoTask /\ Pending /\ Task \in Tasks /\ Task \notin Taken
    BY <1>1, AcceptIs, TaskIs
<1>8. Units' = {Waiting(c) : c \in Ents'} \cup {Sent(x) : x \in Served}
    BY <1>6 DEF Units, Waiting, Sent
<1>9. Waiting(f) \in Units' /\ Names(Waiting(f)) = {Task, d.task} \ {NoTask} /\ Waiting(f).at = "rmw"
    BY <1>3, <1>4, <1>8 DEF Names, Waiting
<1>10. ASSUME NEW u \in Units, u.at # "read"
       PROVE  \E v \in Units' : Names(u) \subseteq Names(v) /\ v.at # "read"
    <2>1. CASE \E c \in Ents : u = Waiting(c)
        <3>1. PICK c \in Ents : u = Waiting(c)
            BY <2>1
        <3>2. CASE c = d
            <4>1. Names(u) \subseteq {d.task}
                BY <1>3, <1>4, <3>1, <3>2 DEF Names, Waiting
            <4>2. Names(u) \subseteq Names(Waiting(f))
                BY <1>9, <4>1 DEF Names
            <4> QED BY <1>9, <4>2
        <3>3. CASE c # d
            BY <1>3, <1>4, <1>8, <1>10, <3>1, <3>3
        <3> QED BY <3>2, <3>3
    <2>2. CASE \E x \in Served : u = Sent(x)
        BY <1>8, <1>10, <2>2
    <2> QED BY <2>1, <2>2 DEF Units
<1>11. Task \in Names(Waiting(f))
    BY <1>7, <1>9
<1>12. EntOk(f)'
    <2>1. Cmd = cmds[Task] /\ d.task \in Taken /\ d.task # NoTask
        BY <1>7, NextTask, EntUnit, TakenTasks DEF Inv
    <2>2. EntOk(d) /\ ~Read(d)
        BY <1>3, <1>4 DEF Inv, DataInv, Read
    <2>3. cmds[d.task].kind = "full" /\ Burst(d.task) = 2
        BY <1>3, <1>4, <2>1, <2>2, BurstType DEF EntOk
    <2>4. cmds'[f.task].kind = "full" /\ cmds'[f.first].kind = "full"
        BY <1>3, <1>4, <1>5, <2>1, <2>3
    <2>5. Burst(f.task)' = 2 /\ Burst(f.first)' = 2
        BY <1>3, <1>4, <1>5, <1>7, <2>1, <2>3 DEF Burst
    <2>6. \A t : Rem(t)' = IF t = Task /\ ~Read(Cmd) THEN Beats(Cmd) ELSE Rem(t)
        BY <1>1, AcceptIs
    <2>7. Rem(f.task)' = 2 /\ Rem(d.task)' = Rem(d.task)
        BY <1>3, <1>7, <2>1, <2>6 DEF Read
    <2>8. d.ready + Rem(d.task) = 2 /\ d.ready \in Nat /\ Rem(d.task) \in Nat
        <3>1. d.ready + Left(d) = Beats(d)
            BY <1>3, <1>4, <2>2 DEF EntOk
        <3>2. Left(d) = Rem(d.task) + Rem(d.first) /\ Rem(d.first) = 0 /\ Rem(d.task) \in Nat /\ d.ready \in Nat
            BY <1>3, <1>4, RemType, EntNumbers DEF Left, Inv
        <3> QED BY <1>3, <1>4, <3>1, <3>2
    <2>9. Left(f)' = 2 + Rem(d.task)
        BY <1>3, <1>4, <2>7 DEF Left
    <2>10. f.ready + Left(f)' = Beats(f)
        BY <1>3, <1>4, <2>8, <2>9
    <2>11. Beats(f)' = Beats(f) /\ Read(f)' = Read(f) /\ ~Read(f)
        BY <1>3 DEF Beats, Read
    <2>12. Beats(f) \in Nat
        BY <1>3
    <2> QED BY <1>3, <1>4, <2>4, <2>5, <2>10, <2>11, <2>12 DEF EntOk
<1>13. Once(mcOrder)' /\ (\A t : Due(mcOrder, t)' = Due(mcOrder, t)) /\ (\A t : In(mcOrder, t)' => In(mcOrder, t))
    BY <1>5 DEF Inv, DataInv, Once, Due, In
<1> QED BY <1>1, <1>3, <1>5, <1>6, <1>9, <1>10, <1>11, <1>12, <1>13, DataAccept

(* A write that passes by is owed all its beats.                           *)
LEMMA DataBypass ==
    ASSUME Inv, Bypass, ~UNPAIRED_TO_RMW_EN
    PROVE  DataInv'
<1>1. [Next]_vars /\ Accept
    BY DEF Next, Bypass
<1>2. Task # NoTask /\ Pending /\ Task \in Tasks /\ Task \notin Taken /\ Beats(Cmd) \in Nat \ {0}
      /\ Cmd = cmds[Task]
    BY <1>1, AcceptIs, TaskIs, NextTask DEF Inv
<1>3. UNCHANGED <<WdataToSend, cmds>> /\ Ents' = Ents
    BY DEF Bypass, Accept, sendVars, Ents
<1>4. mcOrder \in Seq(OrdT) /\ Once(mcOrder) /\ ~In(mcOrder, Task)
    BY <1>2, Fresh DEF Inv, TypeInv, DataInv
<1>5. CASE Read(Cmd)
    <2> DEFINE x == [task |-> Task, first |-> NoTask, kind |-> "read"]
    <2>1. transactionQueue' = transactionQueue \cup {x} /\ mcOrder' = mcOrder
        BY <1>5 DEF Bypass, push_after_rmw
    <2>2. x.kind = "read"
        OBVIOUS
    <2> HIDE DEF x
    <2>3. Writes' = Writes /\ Served' = Served \cup {x}
        BY <2>1, <2>2 DEF Writes, Served
    <2>4. Units \subseteq Units'
        BY <1>3, <2>3 DEF Units, Waiting, Sent
    <2>5. Once(mcOrder)' /\ (\A t : Due(mcOrder, t)' = Due(mcOrder, t)) /\ (\A t : In(mcOrder, t)' => In(mcOrder, t))
        BY <1>4, <2>1 DEF Once, Due, In
    <2> QED BY <1>1, <1>3, <1>5, <2>3, <2>4, <2>5, DataAccept
<1>6. CASE ~Read(Cmd)
    <2> DEFINE w == [task |-> Task, first |-> NoTask, kind |-> "write"]
    <2>1. /\ transactionQueue' = transactionQueue \cup {w}
          /\ mcOrder' = Append(mcOrder, [task |-> Task, beats |-> Beats(Cmd)])
        BY <1>6 DEF Bypass, push_after_rmw, Expect
    <2>2. PICK x : x = w
        OBVIOUS
    <2>3. x.kind = "write" /\ x.task = Task /\ x.first = NoTask /\ transactionQueue' = transactionQueue \cup {x}
        BY <2>1, <2>2
    <2> HIDE DEF w
    <2>4. Writes' = Writes \cup {x} /\ Served' = Served \cup {x}
        BY <2>3 DEF Writes, Served
    <2>5. Units \subseteq Units' /\ Sent(x) \in Units'
        BY <1>3, <2>4 DEF Units, Waiting, Sent
    <2>6. Task \in Names(Sent(x)) /\ Sent(x).at # "read"
        BY <1>2, <2>3 DEF Names, Sent
    <2> DEFINE n == Beats(Cmd)
    <2>7. n \in Nat \ {0} /\ mcOrder' = Append(mcOrder, [task |-> Task, beats |-> n])
        BY <1>2, <2>1
    <2>8. /\ Once(mcOrder') /\ Len(mcOrder') = Len(mcOrder) + 1
          /\ \A i \in 1 .. Len(mcOrder) : mcOrder'[i] = mcOrder[i]
          /\ mcOrder'[Len(mcOrder) + 1].task = Task
          /\ \A t : Due(mcOrder', t) = IF t = Task THEN n ELSE Due(mcOrder, t)
        <3> HIDE DEF n
        <3> QED BY <1>2, <1>4, <2>7, DueAppend
    <2>9. \A t : In(mcOrder', t) => In(mcOrder, t) \/ t = Task
        BY <1>4, <2>8 DEF In
    <2>10. WriteOk(x)'
        <3>1. Rem(Task) = 0 /\ Rem(NoTask) = 0 /\ Count(WdataToSend, Task) = 0
            BY <1>2, Fresh, RemType DEF Inv
        <3>2. \A t : Rem(t)' = IF t = Task /\ ~Read(Cmd) THEN Beats(Cmd) ELSE Rem(t)
            BY <1>1, AcceptIs
        <3>3. Left(x)' = n
            BY <1>2, <1>6, <2>3, <3>1, <3>2 DEF Left
        <3>4. Due(mcOrder', x.task) = n /\ Count(WdataToSend', x.task) = 0
            BY <1>3, <2>3, <2>8, <3>1
        <3>5. cmds'[x.task] = Cmd
            BY <1>2, <1>3, <2>3
        <3> HIDE DEF n
        <3> QED BY <1>6, <2>3, <2>7, <3>3, <3>4, <3>5 DEF WriteOk, Read
    <2>11. Once(mcOrder)' /\ (\A t : Due(mcOrder, t)' = Due(mcOrder, t) \/ t = Task)
           /\ (\A t : In(mcOrder, t)' => In(mcOrder, t) \/ \E y \in Writes' : y.task = t)
        BY <2>3, <2>4, <2>8, <2>9 DEF Once, Due, In
    <2> QED BY <1>1, <1>3, <2>4, <2>5, <2>6, <2>10, <2>11, DataAccept
<1> QED BY <1>5, <1>6
-----------------------------------------------------------------------------
(* A read that leaves has no data.                                         *)
LEMMA DataRead ==
    ASSUME Inv, SendRead, ~UNPAIRED_TO_RMW_EN
    PROVE  DataInv'
<1>1. [Next]_vars
    BY DEF Next
<1>2. PICK e \in Ents :
              /\ Read(e) /\ Ents' = Ents \ {e}
              /\ transactionQueue' = transactionQueue \cup
                     {[task |-> e.task, first |-> NoTask, kind |-> "read"]}
    BY ReadLeaves DEF Inv
<1> DEFINE w == [task |-> e.task, first |-> NoTask, kind |-> "read"]
<1>3. PICK x : x = w
    OBVIOUS
<1>4. x.kind = "read" /\ transactionQueue' = transactionQueue \cup {x}
    BY <1>2, <1>3
<1> HIDE DEF w
<1>5. UNCHANGED <<write_task, WdataToSend, mcOrder>>
    BY DEF SendRead, Turn, Arb, hostVars, sendVars, dataVars
<1>6. Writes' = Writes /\ Served' = Served \cup {x}
    BY <1>4 DEF Writes, Served
<1>7. \A t : Rem(t)' = Rem(t)
    BY <1>5 DEF Rem
<1>8. \A u : Left(u)' = Left(u)
    BY <1>7 DEF Left
<1>9. \A f \in Ents' : EntOk(f)'
    BY <1>1, <1>2, <1>8, EntOkSame
<1>10. \A y \in Writes' : WriteOk(y)'
    <2> SUFFICES ASSUME NEW y \in Writes PROVE WriteOk(y)'
        BY <1>6
    <2>1. Due(mcOrder, y.task)' = Due(mcOrder, y.task) /\ Count(WdataToSend, y.task)' = Count(WdataToSend, y.task)
        BY <1>5 DEF Due, Count
    <2> QED BY <1>1, <1>8, <2>1, WriteOkSame
<1>11. \A t \in Tasks : Rem(t)' > 0 => \E u \in Units' : t \in Names(u) /\ u.at # "read"
    <2> SUFFICES ASSUME NEW t \in Tasks, Rem(t) > 0
                 PROVE  \E u \in Units' : t \in Names(u) /\ u.at # "read"
        BY <1>7
    <2>1. PICK u \in Units : t \in Names(u) /\ u.at # "read"
        BY DEF Inv, DataInv
    <2>2. u # Waiting(e)
        <3> SUFFICES ASSUME t \in Names(Waiting(e)) PROVE FALSE
            BY <2>1
        <3>1. EntOk(e) /\ Left(e) = Rem(e.task) + Rem(e.first) /\ Rem(e.task) \in Nat /\ Rem(e.first) \in Nat
            BY EntNumbers DEF Inv, DataInv
        <3>2. Rem(e.task) + Rem(e.first) = 0
            BY <1>2, <3>1 DEF EntOk
        <3>3. Rem(e.task) = 0 /\ Rem(e.first) = 0
            <4> DEFINE a == Rem(e.task)
                       b == Rem(e.first)
            <4>1. a \in Nat /\ b \in Nat /\ a + b = 0
                BY <3>1, <3>2
            <4> HIDE DEF a, b
            <4>2. a = 0 /\ b = 0
                BY <4>1
            <4> QED BY <4>2 DEF a, b
        <3>4. t = e.task \/ t = e.first
            BY DEF Names, Waiting
        <3> QED BY <3>3, <3>4
    <2>3. u \in Units'
        BY <1>2, <1>6, <2>2 DEF Units, Waiting, Sent
    <2> QED BY <2>1, <2>3
<1>12. Once(mcOrder)' /\ \A t : In(mcOrder, t)' => In(mcOrder, t)
    BY <1>5 DEF Inv, DataInv, Once, In
<1>13. \A t \in Tasks : Count(WdataToSend', t) > 0 => \E y \in Writes' : y.task = t
    BY <1>5, <1>6 DEF Inv, DataInv
<1>14. \A t : In(mcOrder, t)' => \E y \in Writes' : y.task = t
    BY <1>6, <1>12 DEF Inv, DataInv
<1> QED BY <1>9, <1>10, <1>11, <1>12, <1>13, <1>14 DEF DataInv, Names

(* What a write takes along, and what remains to come.                     *)
LEMMA BufferedIs ==
    ASSUME Inv, NEW e \in Ents, ~Read(e), Goes(e)
    PROVE  /\ Buffered(e) \in Nat /\ Buffered(e) <= Beats(e) /\ Buffered(e) + Left(e) <= Beats(e)
           /\ ~AREF_EN => Buffered(e) + Left(e) = Beats(e)
           /\ RMW_CMD_MODE = 1 => Buffered(e) = Beats(e)
<1>1. e.ready \in Nat /\ Beats(e) \in Nat \ {0} /\ Left(e) \in Nat /\ e.ready + Left(e) <= Beats(e) /\ EntOk(e)
    BY EntNumbers DEF Inv, DataInv
<1>2. CASE e.kind = "mask" \/ RMW_CMD_MODE = 1
    <2>1. e.state = "ready"
        BY <1>2, EntsAre, EntFields DEF Goes, NeedsRead, Read, Inv
    <2>2. Left(e) = 0
        BY <1>1, <1>2, <2>1 DEF EntOk
    <2>3. Buffered(e) = Beats(e)
        BY <1>2 DEF Buffered
    <2> QED BY <1>1, <2>2, <2>3
<1>3. CASE ~(e.kind = "mask" \/ RMW_CMD_MODE = 1)
    <2>1. Buffered(e) = e.ready
        BY <1>3 DEF Buffered
    <2>2. ~AREF_EN => e.ready + Left(e) = Beats(e)
        BY <1>1 DEF EntOk
    <2> QED BY <1>1, <1>3, <2>1, <2>2
<1> QED BY <1>2, <1>3

(* The task of an entry is unknown to the controller.                      *)
LEMMA EntNew ==
    ASSUME Inv, NEW e \in Ents
    PROVE  /\ e.task \in Tasks /\ ~In(mcOrder, e.task) /\ Count(WdataToSend, e.task) = 0
           /\ \A x \in Writes : x.task # e.task
           /\ \A d \in Ents : d # e => d.task # e.task
<1>1. e.task \in Tasks /\ e.task \in Names(Waiting(e)) /\ Waiting(e) \in Units /\ Waiting(e).at = "rmw"
    BY EntUnit, TakenTasks DEF Names, Inv
<1>2. ASSUME NEW x \in Writes, x.task = e.task PROVE FALSE
    <2>1. Sent(x) \in Units /\ Sent(x).at = "write" /\ e.task \in Names(Sent(x))
        BY <1>1, <1>2, WriteUnit, TakenTasks DEF Names, Inv
    <2> QED BY <1>1, <2>1 DEF Inv, UnitInv
<1>3. ~In(mcOrder, e.task)
    BY <1>2 DEF Inv, DataInv
<1>4. Count(WdataToSend, e.task) = 0
    BY <1>1, <1>2, RemType DEF Inv, DataInv
<1>5. \A d \in Ents : d # e => d.task # e.task
    BY EntsAre DEF Inv
<1> QED BY <1>1, <1>2, <1>3, <1>4, <1>5

(* A write goes, with what it has.                                         *)
LEMMA WriteGoes ==
    ASSUME Inv, SendWrite
    PROVE  \E e \in Ents, n \in Nat \ {0}, b \in Nat :
              /\ ~Read(e) /\ Goes(e) /\ n = Beats(e) /\ b = Buffered(e)
              /\ Ents' = Ents \ {e} /\ Len(RmwQue') = Len(RmwQue) - 1
              /\ transactionQueue' = transactionQueue \cup
                     {[task |-> e.task, first |-> e.first, kind |-> "write"]}
              /\ mcOrder' = Append(mcOrder, [task |-> e.task, beats |-> n])
              /\ order' = Append(order, [task |-> e.task, beats |-> n])
              /\ WdataToSend' \in Seq(Tasks)
              /\ \A t : Count(WdataToSend, t)' = IF t = e.task THEN b ELSE Count(WdataToSend, t)
              /\ fast_bypass' = IF b < n /\ ~(e.first # NoTask /\ RMW_CMD_MODE = 2)
                                THEN [fast_bypass EXCEPT ![e.task] = n - b] ELSE fast_bypass
              /\ mcOrder' \in Seq(OrdT) /\ Once(mcOrder') /\ Len(mcOrder') = Len(mcOrder) + 1
              /\ \A i \in 1 .. Len(mcOrder) : mcOrder'[i] = mcOrder[i]
              /\ mcOrder'[Len(mcOrder) + 1] = [task |-> e.task, beats |-> n]
              /\ \A t : Due(mcOrder', t) = IF t = e.task THEN n ELSE Due(mcOrder, t)
<1>1. PICK e \in Ents :
              /\ ~Read(e) /\ Goes(e) /\ Ents' = Ents \ {e} /\ Len(RmwQue') = Len(RmwQue) - 1
              /\ transactionQueue' = transactionQueue \cup
                     {[task |-> e.task, first |-> e.first, kind |-> "write"]}
              /\ mcOrder' = Append(mcOrder, [task |-> e.task, beats |-> Beats(e)])
              /\ order' = Append(order, [task |-> e.task, beats |-> Beats(e)])
              /\ WdataToSend' = WdataToSend \o Copies(e.task, Buffered(e))
              /\ fast_bypass' = IF Buffered(e) < Beats(e) /\ ~(e.first # NoTask /\ RMW_CMD_MODE = 2)
                                THEN [fast_bypass EXCEPT ![e.task] = Beats(e) - Buffered(e)]
                                ELSE fast_bypass
    BY WriteLeaves DEF Inv
<1>2. Beats(e) \in Nat \ {0} /\ Buffered(e) \in Nat
    BY <1>1, BufferedIs, EntNumbers
<1>3. PICK n \in Nat \ {0} : n = Beats(e)
    BY <1>2
<1>4. PICK b \in Nat : b = Buffered(e)
    BY <1>2
<1>5. e.task \in Tasks /\ ~In(mcOrder, e.task) /\ Count(WdataToSend, e.task) = 0
    BY EntNew
<1>6. mcOrder \in Seq(OrdT) /\ Once(mcOrder) /\ WdataToSend \in Seq(Tasks)
    BY DEF Inv, TypeInv, DataInv
<1>7. WdataToSend' = WdataToSend \o Copies(e.task, b) /\ mcOrder' = Append(mcOrder, [task |-> e.task, beats |-> n])
    BY <1>1, <1>3, <1>4
<1>8. ASSUME NEW t
      PROVE  WdataToSend' \in Seq(Tasks)
             /\ Count(WdataToSend', t) = Count(WdataToSend, t) + (IF t = e.task THEN b ELSE 0)
    <2> DEFINE r == WdataToSend
    <2>1. PICK u \in Tasks : u = e.task
        BY <1>5
    <2>2. r \in Seq(Tasks)
        BY <1>6
    <2> HIDE DEF r
    <2>3. r \o Copies(u, b) \in Seq(Tasks) /\ Count(r \o Copies(u, b), t) = Count(r, t) + (IF t = u THEN b ELSE 0)
        BY <2>2, CountCopies
    <2> QED BY <1>7, <2>1, <2>3 DEF r
<1>9. \A t : Count(WdataToSend', t) = IF t = e.task THEN b ELSE Count(WdataToSend, t)
    <2>1. \A t : Count(WdataToSend, t) \in Nat
        BY RemType DEF Inv
    <2> QED BY <1>5, <1>8, <2>1
<1>10. /\ mcOrder' \in Seq(OrdT) /\ Once(mcOrder') /\ Len(mcOrder') = Len(mcOrder) + 1
       /\ \A i \in 1 .. Len(mcOrder) : mcOrder'[i] = mcOrder[i]
       /\ \A t : Due(mcOrder', t) = IF t = e.task THEN n ELSE Due(mcOrder, t)
    BY <1>5, <1>6, <1>7, DueAppend
<1>11. mcOrder'[Len(mcOrder) + 1] = [task |-> e.task, beats |-> n]
    BY <1>6, <1>7
<1>12. /\ order' = Append(order, [task |-> e.task, beats |-> n])
       /\ fast_bypass' = IF b < n /\ ~(e.first # NoTask /\ RMW_CMD_MODE = 2)
                         THEN [fast_bypass EXCEPT ![e.task] = n - b] ELSE fast_bypass
    BY <1>1, <1>3, <1>4
<1>13. WdataToSend' \in Seq(Tasks) /\ \A t : Count(WdataToSend, t)' = IF t = e.task THEN b ELSE Count(WdataToSend, t)
    BY <1>8, <1>9
<1>14. ~Read(e) /\ Goes(e) /\ Ents' = Ents \ {e} /\ Len(RmwQue') = Len(RmwQue) - 1
       /\ transactionQueue' = transactionQueue \cup {[task |-> e.task, first |-> e.first, kind |-> "write"]}
    BY <1>1
<1> QED BY <1>3, <1>4, <1>7, <1>10, <1>11, <1>12, <1>13, <1>14

(* A write that leaves hands its beats to WdataToSend, and is owed those   *)
(* and the ones to come.                                                   *)
LEMMA DataWrite ==
    ASSUME Inv, SendWrite, ~UNPAIRED_TO_RMW_EN
    PROVE  DataInv'
<1>1. [Next]_vars
    BY DEF Next
<1>2. PICK e \in Ents, n \in Nat \ {0}, b \in Nat :
              /\ ~Read(e) /\ Goes(e) /\ n = Beats(e) /\ b = Buffered(e)
              /\ Ents' = Ents \ {e}
              /\ transactionQueue' = transactionQueue \cup
                     {[task |-> e.task, first |-> e.first, kind |-> "write"]}
              /\ \A t : Count(WdataToSend, t)' = IF t = e.task THEN b ELSE Count(WdataToSend, t)
              /\ mcOrder' \in Seq(OrdT) /\ Once(mcOrder') /\ Len(mcOrder') = Len(mcOrder) + 1
              /\ \A i \in 1 .. Len(mcOrder) : mcOrder'[i] = mcOrder[i]
              /\ mcOrder'[Len(mcOrder) + 1] = [task |-> e.task, beats |-> n]
              /\ \A t : Due(mcOrder', t) = IF t = e.task THEN n ELSE Due(mcOrder, t)
    BY ZenonT(60), WriteGoes
<1> DEFINE w == [task |-> e.task, first |-> e.first, kind |-> "write"]
<1>3. PICK x : x = w
    OBVIOUS
<1>4. /\ x.kind = "write" /\ x.task = e.task /\ x.first = e.first
      /\ transactionQueue' = transactionQueue \cup {x}
    BY <1>2, <1>3
<1>5. Units' = (Units \ {Waiting(e)}) \cup {Sent(x)} /\ Served' = Served \cup {x}
      /\ Sent(x).task = e.task /\ Sent(x).first = e.first
    <2>1. x = [task |-> e.task, first |-> e.first, kind |-> "write"]
        BY <1>3
    <2>2. Ents' = Ents \ {e}
        BY <1>2
    <2> HIDE DEF w
    <2> QED BY <1>4, <2>1, <2>2, UnitsSent DEF Inv
<1> HIDE DEF w
<1>6. write_task' = write_task
    BY DEF SendWrite, Turn, Arb, hostVars
<1>7. Writes' = Writes \cup {x}
    BY <1>4 DEF Writes
<1>8. \A t : Rem(t)' = Rem(t)
    BY <1>6 DEF Rem
<1>9. \A u : Left(u)' = Left(u)
    BY <1>8 DEF Left
<1>10. \A f \in Ents' : EntOk(f)'
    BY <1>1, <1>2, <1>9, EntOkSame
<1>11. ASSUME NEW y \in Writes PROVE WriteOk(y)'
    <2>1. y.task # e.task
        BY EntNew
    <2>2. Due(mcOrder, y.task)' = Due(mcOrder, y.task) /\ Count(WdataToSend, y.task)' = Count(WdataToSend, y.task)
        BY <1>2, <2>1 DEF Due
    <2> QED BY <1>1, <1>9, <2>2, WriteOkSame
<1>12. WriteOk(x)'
    <2>1. EntOk(e) /\ config' = config /\ e.task \in Taken /\ e.first \in Taken \cup {NoTask}
        BY <1>1, ConfigKept, EntUnit DEF Inv, DataInv
    <2>2. cmds'[x.task] = cmds[e.task] /\ (x.first # NoTask => cmds'[x.first] = cmds[e.first])
        BY <1>1, <1>4, <2>1, CmdsKept
    <2>3. ~Read(cmds'[x.task]) /\ (x.first # NoTask => ~Read(cmds'[x.first]))
        BY <1>2, <1>4, <2>1, <2>2 DEF EntOk, Read
    <2>4. Left(x)' = Left(e)
        BY <1>4, <1>8 DEF Left
    <2>5. Due(mcOrder', x.task) = n /\ Count(WdataToSend', x.task) = b
        BY <1>2, <1>4
    <2>6. b + Left(e) <= n /\ (~AREF_EN => b + Left(e) = n) /\ Left(e) \in Nat
        BY <1>2, BufferedIs, EntNumbers
    <2>7. Due(mcOrder', x.task) >= Left(x)' + Count(WdataToSend', x.task)
          /\ (~AREF_EN => Due(mcOrder', x.task) = Left(x)' + Count(WdataToSend', x.task))
        BY <2>4, <2>5, <2>6
    <2>8. AREF_EN' = AREF_EN
        BY <2>1 DEF AREF_EN
    <2> QED BY <2>3, <2>7, <2>8 DEF WriteOk, Read
<1>13. \A t \in Tasks : Rem(t)' > 0 => \E u \in Units' : t \in Names(u) /\ u.at # "read"
    <2> SUFFICES ASSUME NEW t \in Tasks, Rem(t) > 0
                 PROVE  \E u \in Units' : t \in Names(u) /\ u.at # "read"
        BY <1>8
    <2>1. PICK u \in Units : t \in Names(u) /\ u.at # "read"
        BY DEF Inv, DataInv
    <2>2. CASE u = Waiting(e)
        <3>1. Names(u) = Names(Sent(x)) /\ Sent(x).at = "write"
            BY <1>4, <2>2 DEF Names, Waiting, Sent
        <3> QED BY <1>5, <2>1, <3>1
    <2>3. CASE u # Waiting(e)
        BY <1>5, <2>1, <2>3
    <2> QED BY <2>2, <2>3
<1>14. \A t \in Tasks : Count(WdataToSend', t) > 0 => \E y \in Writes' : y.task = t
    BY <1>2, <1>4, <1>7 DEF Inv, DataInv
<1>15. \A t : In(mcOrder', t) => \E y \in Writes' : y.task = t
    <2>1. mcOrder \in Seq(OrdT)
        BY DEF Inv, TypeInv
    <2>2. \A t : In(mcOrder', t) => In(mcOrder, t) \/ t = e.task
        BY <1>2, <2>1 DEF In
    <2> QED BY <1>4, <1>7, <2>2 DEF Inv, DataInv
<1>16. Once(mcOrder)' /\ \A t : In(mcOrder, t)' => \E y \in Writes' : y.task = t
    BY <1>2, <1>15 DEF Once, In
<1> QED BY <1>7, <1>10, <1>11, <1>12, <1>13, <1>14, <1>16 DEF DataInv, Names
-----------------------------------------------------------------------------
(* A task has one holder.                                                  *)
LEMMA HeldOnce ==
    ASSUME Inv, NEW t
    PROVE  /\ \A e \in Ents, d \in Ents : t \in Names(e) /\ t \in Names(d) => e = d
           /\ \A x \in Writes, y \in Writes : t \in Names(x) /\ t \in Names(y) => x = y
           /\ \A e \in Ents, x \in Writes : ~(t \in Names(e) /\ t \in Names(x))
           /\ \A x \in Writes, y \in Writes : x.task = y.task => x = y
<1>1. \A u, v \in Units : t \in Names(u) /\ t \in Names(v) => u = v
    BY DEF Inv, UnitInv
<1>2. \A e \in Ents : Waiting(e) \in Units /\ Names(Waiting(e)) = Names(e) /\ Waiting(e).at = "rmw"
    BY EntUnit
<1>3. \A x \in Writes : Sent(x) \in Units /\ Names(Sent(x)) = Names(x) /\ Sent(x).at = "write" /\ x \in Served
    BY WriteUnit
<1>4. \A e, d \in Ents : Waiting(e) = Waiting(d) => e = d
    BY UnitsAre DEF Inv
<1>5. \A x, y \in Served : Sent(x) = Sent(y) => x = y
    BY UnitsAre DEF Inv
<1>6. \A x \in Writes, y \in Writes : x.task = y.task => x = y
    <2> SUFFICES ASSUME NEW x \in Writes, NEW y \in Writes, x.task = y.task PROVE x = y
        OBVIOUS
    <2>1. x.task # NoTask
        BY WriteUnit, TakenTasks DEF Inv
    <2>2. x.task \in Names(Sent(x)) /\ x.task \in Names(Sent(y))
        BY <1>3, <2>1 DEF Names
    <2>3. Sent(x) = Sent(y)
        BY <1>3, <2>2 DEF Inv, UnitInv
    <2> QED BY <1>3, <1>5, <2>3
<1>7. \A e \in Ents, d \in Ents : t \in Names(e) /\ t \in Names(d) => e = d
    BY <1>1, <1>2, <1>4
<1>8. \A x \in Writes, y \in Writes : t \in Names(x) /\ t \in Names(y) => x = y
    BY <1>1, <1>3, <1>5
<1>9. \A e \in Ents, x \in Writes : ~(t \in Names(e) /\ t \in Names(x))
    BY <1>1, <1>2, <1>3
<1> QED BY <1>6, <1>7, <1>8, <1>9

(* The order of the controller, after a beat of its first entry.           *)
LEMMA PaidIs ==
    ASSUME Inv, mcOrder # <<>>, mcOrder' = Took(mcOrder)
    PROVE  /\ mcOrder' \in Seq(OrdT) /\ Once(mcOrder)' /\ mcOrder[1] \in OrdT
           /\ \A t : Due(mcOrder, t)' = IF t = mcOrder[1].task THEN Due(mcOrder, t) - 1 ELSE Due(mcOrder, t)
           /\ \A t : In(mcOrder, t)' => In(mcOrder, t)
           /\ \A t : Due(mcOrder, t) \in Nat /\ Due(mcOrder, t)' \in Nat
<1>1. mcOrder \in Seq(OrdT) /\ Once(mcOrder)
    BY DEF Inv, TypeInv, DataInv
<1>2. /\ Took(mcOrder) \in Seq(OrdT) /\ Once(Took(mcOrder)) /\ mcOrder[1] \in OrdT
      /\ \A t : Due(Took(mcOrder), t) = IF t = mcOrder[1].task THEN Due(mcOrder, t) - 1 ELSE Due(mcOrder, t)
    BY <1>1, TookIs
<1>3. \A t : Due(mcOrder, t) \in Nat /\ (Due(mcOrder, t) > 0 <=> In(mcOrder, t))
    BY <1>1, DueIs
<1>4. \A t : Due(mcOrder', t) \in Nat /\ (Due(mcOrder', t) > 0 <=> In(mcOrder', t))
    BY <1>2, DueIs
<1>5. \A t : In(mcOrder', t) => In(mcOrder, t)
    BY <1>2, <1>3, <1>4
<1>6. \A t : Due(mcOrder, t)' = Due(mcOrder', t) /\ In(mcOrder, t)' = In(mcOrder', t)
    BY DEF Due, In
<1>7. Once(mcOrder)'
    BY <1>2 DEF Once
<1> QED BY <1>2, <1>3, <1>4, <1>5, <1>6, <1>7

(* A beat moves from what is to come to the entry.                         *)
LEMMA DataFills ==
    ASSUME Inv, ABeat, Fills(Head(write_task)), ~UNPAIRED_TO_RMW_EN
    PROVE  DataInv'
<1> DEFINE t == Head(write_task)
<1>1. [Next]_vars /\ InPlace
    BY DEF Next, ABeat, InPlace
<1>2. write_task # <<>> /\ write_task' = Tail(write_task) /\ UNCHANGED <<WdataToSend, transactionQueue>>
    BY BeatIs
<1>3. Units' = Units
    BY <1>1, InPlaceSame DEF Inv
<1>4. PICK k : k = t
    OBVIOUS
<1>5. PICK e \in Ents : /\ k \in Names(e) /\ ~Read(e) /\ e.ready < Beats(e)
                        /\ Ents' = (Ents \ {e}) \cup {[e EXCEPT !.ready = @ + 1]}
    BY <1>4 DEF Fills
<1>6. UNCHANGED mcOrder
    BY DEF Fills
<1> HIDE DEF t
<1>7. \A d : Rem(d)' > 0 => Rem(d) > 0
    BY <1>2, HeadSent DEF Inv
<1>8. ASSUME NEW u, u.task # u.first PROVE Left(u)' = Left(u) - (IF k \in Names(u) THEN 1 ELSE 0)
    BY <1>2, <1>4, <1>8, LeftSent DEF Inv, t
<1>9. ASSUME NEW d \in Ents, d # e PROVE EntOk(d)'
    <2>1. k \notin Names(d) /\ d.task # d.first /\ Left(d) \in Nat
        BY <1>5, <1>9, HeldOnce, EntUnit, EntNumbers
    <2>2. Left(d)' = Left(d)
        BY <1>8, <2>1
    <2> QED BY <1>1, <2>2, EntOkSame
<1>10. ASSUME NEW x \in Writes PROVE WriteOk(x)'
    <2>1. k \notin Names(x) /\ x.task # x.first /\ Left(x) \in Nat
        BY <1>5, HeldOnce, WriteUnit, RemType DEF Inv
    <2>2. Left(x)' = Left(x)
        BY <1>8, <2>1
    <2>3. Due(mcOrder, x.task)' = Due(mcOrder, x.task) /\ Count(WdataToSend, x.task)' = Count(WdataToSend, x.task)
        BY <1>2, <1>6 DEF Due, Count
    <2> QED BY <1>1, <2>2, <2>3, WriteOkSame
<1>11. ASSUME NEW f, f = [e EXCEPT !.ready = @ + 1] PROVE EntOk(f)'
    <2>1. EntOk(e) /\ e \in EntT /\ e.ready \in Nat /\ Beats(e) \in Nat \ {0} /\ Left(e) \in Nat
          /\ e.ready + Left(e) <= Beats(e) /\ e.task # e.first
        BY EntsAre, EntNumbers, EntUnit DEF Inv, DataInv
    <2> DEFINE n == e.ready + 1
    <2>2. n \in Nat /\ f = [e EXCEPT !.ready = n]
        BY <1>11, <2>1
    <2> HIDE DEF n
    <2>3. SameName(e, f) /\ f.ready = n /\ f.state = e.state /\ f.age = e.age
        BY <2>1, <2>2, ReadySet
    <2>4. Left(e)' = Left(e) - 1
        BY <1>5, <1>8, <2>1
    <2>5. Left(e)' \in Nat
        BY <1>2, <2>1, LeftSent DEF Inv
    <2>6. Left(f)' = Left(e)'
        BY <2>3 DEF Left, SameName
    <2>7. PICK l \in Nat : l = Left(e)
        BY <2>1
    <2>8. PICK m \in Nat : m = Left(f)'
        BY <2>5, <2>6
    <2>9. m = l - 1 /\ f.ready = e.ready + 1 /\ f.ready + m = e.ready + l
        BY <2>1, <2>3, <2>4, <2>6, <2>7, <2>8 DEF n
    <2>10. (Waits(f) <=> Waits(e))
        BY <2>3 DEF Waits, is_write_merge_candidate, is_unpaired_write_merge_timeout, Beats, SameName
    <2>11. e.state = "ready" => ~(e.kind = "mask" \/ RMW_CMD_MODE = 1)
        BY <2>1, <2>7, <2>8, <2>9 DEF EntOk
    <2>12. f.ready + m <= Beats(e) /\ (~AREF_EN \/ Waits(f) => f.ready + m = Beats(e))
        BY <1>5, <2>1, <2>7, <2>9, <2>10 DEF EntOk
    <2> QED BY <1>1, <1>5, <2>3, <2>8, <2>11, <2>12, EntOkStep
<1>12. \A f \in Ents' : EntOk(f)'
    BY <1>5, <1>9, <1>11
<1>13. Writes' = Writes
    BY <1>2 DEF Writes
<1>14. Once(mcOrder)' /\ \A d : In(mcOrder, d)' => In(mcOrder, d)
    BY <1>6 DEF Inv, DataInv, Once, In
<1>15. \A d \in Tasks : Rem(d)' > 0 => \E u \in Units' : d \in Names(u) /\ u.at # "read"
    BY <1>3, <1>7 DEF Inv, DataInv
<1>16. \A d \in Tasks : Count(WdataToSend', d) > 0 => \E x \in Writes' : x.task = d
    BY <1>2, <1>13 DEF Inv, DataInv
<1>17. \A d : In(mcOrder, d)' => \E x \in Writes' : x.task = d
    BY <1>13, <1>14 DEF Inv, DataInv
<1> QED BY <1>10, <1>12, <1>13, <1>14, <1>15, <1>16, <1>17 DEF DataInv, Names

(* A beat moves from what is to come to the controller.                    *)
LEMMA DataPays ==
    ASSUME Inv, ABeat, Pays(Head(write_task)), RmwQue' = RmwQue, ~UNPAIRED_TO_RMW_EN
    PROVE  DataInv'
<1>1. [Next]_vars /\ InPlace
    BY DEF Next, ABeat, InPlace
<1>2. write_task # <<>> /\ write_task' = Tail(write_task) /\ UNCHANGED <<WdataToSend, transactionQueue>>
    BY BeatIs
<1>3. Units' = Units
    BY <1>1, InPlaceSame DEF Inv
<1>4. PICK k : k = Head(write_task)
    OBVIOUS
<1>5. PICK x \in Writes : x.task = mcOrder[1].task /\ k \in Names(x)
    BY <1>4 DEF Pays
<1>6. mcOrder # <<>> /\ mcOrder' = Took(mcOrder)
    BY DEF Pays
<1>7. \A d : Rem(d)' > 0 => Rem(d) > 0
    BY <1>2, HeadSent DEF Inv
<1>8. ASSUME NEW u, u.task # u.first PROVE Left(u)' = Left(u) - (IF k \in Names(u) THEN 1 ELSE 0)
    BY <1>2, <1>4, <1>8, LeftSent DEF Inv
<1>9. ASSUME NEW d \in Ents PROVE EntOk(d)'
    <2>1. k \notin Names(d) /\ d.task # d.first /\ Left(d) \in Nat
        BY <1>5, <1>9, HeldOnce, EntUnit, EntNumbers
    <2>2. Left(d)' = Left(d)
        BY <1>8, <2>1
    <2> QED BY <1>1, <2>2, EntOkSame
<1>10. ASSUME NEW y \in Writes, y # x PROVE WriteOk(y)'
    <2>1. k \notin Names(y) /\ y.task # y.first /\ Left(y) \in Nat /\ y.task # x.task
        BY <1>5, <1>10, HeldOnce, WriteUnit, RemType DEF Inv
    <2>2. Left(y)' = Left(y)
        BY <1>8, <2>1
    <2>3. Due(mcOrder, y.task)' = Due(mcOrder, y.task)
        BY <1>5, <1>6, <2>1, PaidIs
    <2>4. Count(WdataToSend, y.task)' = Count(WdataToSend, y.task)
        BY <1>2 DEF Count
    <2> QED BY <1>1, <2>2, <2>3, <2>4, WriteOkSame
<1>11. WriteOk(x)'
    <2>1. Left(x)' = Left(x) - 1
        BY <1>5, <1>8, WriteUnit
    <2>2. Due(mcOrder, x.task)' = Due(mcOrder, x.task) - 1 /\ Due(mcOrder, x.task) \in Nat
        BY <1>5, <1>6, PaidIs
    <2>3. Count(WdataToSend, x.task)' = Count(WdataToSend, x.task) /\ Count(WdataToSend, x.task) \in Nat
          /\ Left(x) \in Nat
        BY <1>2, RemType DEF Count, Inv
    <2>4. WriteOk(x)
        BY DEF Inv, DataInv
    <2>5. PICK l \in Nat, m \in Nat, c \in Nat :
              l = Left(x) /\ m = Due(mcOrder, x.task) /\ c = Count(WdataToSend, x.task)
        BY <2>2, <2>3
    <2>6. m >= l + c /\ (~AREF_EN => m = l + c)
        BY <2>4, <2>5 DEF WriteOk
    <2>7. Left(x)' = l - 1 /\ Due(mcOrder, x.task)' = m - 1 /\ Count(WdataToSend, x.task)' = c
        BY <2>1, <2>2, <2>3, <2>5
    <2>8. m - 1 >= (l - 1) + c /\ (~AREF_EN => m - 1 = (l - 1) + c)
        BY <2>6
    <2> QED BY <1>1, <2>7, <2>8, WriteOkStep
<1>12. Ents' = Ents
    BY DEF Ents
<1>13. Writes' = Writes
    BY <1>2 DEF Writes
<1>14. Once(mcOrder)' /\ \A d : In(mcOrder, d)' => In(mcOrder, d)
    BY <1>6, PaidIs
<1>15. \A d \in Tasks : Rem(d)' > 0 => \E u \in Units' : d \in Names(u) /\ u.at # "read"
    BY <1>3, <1>7 DEF Inv, DataInv
<1>16. \A d \in Tasks : Count(WdataToSend', d) > 0 => \E y \in Writes' : y.task = d
    BY <1>2, <1>13 DEF Inv, DataInv
<1>17. \A d : In(mcOrder, d)' => \E y \in Writes' : y.task = d
    BY <1>13, <1>14 DEF Inv, DataInv
<1> QED BY <1>9, <1>10, <1>11, <1>12, <1>13, <1>14, <1>15, <1>16, <1>17 DEF DataInv, Names

(* Rmw sends a beat.                                                       *)
LEMMA SendIs ==
    ASSUME Inv, SendWdata
    PROVE  /\ UNCHANGED <<write_task, transactionQueue, RmwQue>>
           /\ mcOrder # <<>> /\ mcOrder[1].task = Head(WdataToSend) /\ mcOrder' = Took(mcOrder)
           /\ WdataToSend' \in Seq(Tasks) /\ Head(WdataToSend) \in Tasks
           /\ \A t : Count(WdataToSend, t)' \in Nat
           /\ \A t : Count(WdataToSend, t) = Count(WdataToSend, t)' + (IF Head(WdataToSend) = t THEN 1 ELSE 0)
<1>1. submitData(Head(WdataToSend)) /\ WdataToSend # <<>> /\ WdataToSend' = Tail(WdataToSend)
      /\ UNCHANGED <<write_task, transactionQueue, RmwQue>>
    BY DEF SendWdata, hostVars, mcVars
<1>2. WdataToSend \in Seq(Tasks)
    BY DEF Inv, TypeInv
<1>3. WdataToSend' \in Seq(Tasks) /\ Head(WdataToSend) \in Tasks
    BY <1>1, <1>2, CountTail
<1>4. ASSUME NEW t PROVE Count(WdataToSend, t) = Count(WdataToSend', t) + (IF Head(WdataToSend) = t THEN 1 ELSE 0)
    BY <1>1, <1>2, CountTail
<1>5. \A t : Count(WdataToSend', t) \in Nat
    BY <1>3, CountType
<1>6. mcOrder # <<>> /\ mcOrder[1].task = Head(WdataToSend) /\ mcOrder' = Took(mcOrder)
    BY <1>1, SubmitIs
<1> QED BY <1>1, <1>3, <1>4, <1>5, <1>6

(* A beat moves from WdataToSend to the controller.                        *)
LEMMA DataSent ==
    ASSUME Inv, SendWdata, ~UNPAIRED_TO_RMW_EN
    PROVE  DataInv'
<1>1. [Next]_vars /\ InPlace
    BY DEF Next, InPlace
<1>2. PICK k \in Tasks : k = Head(WdataToSend)
    BY SendIs
<1>3. /\ UNCHANGED <<write_task, transactionQueue, RmwQue>>
      /\ mcOrder # <<>> /\ mcOrder[1].task = k /\ mcOrder' = Took(mcOrder)
      /\ \A t : Count(WdataToSend, t)' \in Nat
      /\ \A t : Count(WdataToSend, t) = Count(WdataToSend, t)' + (IF k = t THEN 1 ELSE 0)
    BY <1>2, SendIs
<1>4. Units' = Units
    BY <1>1, InPlaceSame DEF Inv
<1>5. \A u : Left(u)' = Left(u)
    BY <1>3 DEF Left, Rem
<1>6. Ents' = Ents /\ Writes' = Writes
    BY <1>3 DEF Ents, Writes
<1>7. \A f \in Ents' : EntOk(f)'
    BY <1>1, <1>5, <1>6, EntOkSame
<1>8. ASSUME NEW x \in Writes PROVE WriteOk(x)'
    <2>1. CASE x.task # k
        <3>1. Due(mcOrder, x.task)' = Due(mcOrder, x.task)
            BY <1>3, <2>1, PaidIs
        <3>2. Count(WdataToSend, x.task)' = Count(WdataToSend, x.task)
            BY <1>3, <2>1
        <3> QED BY <1>1, <1>5, <3>1, <3>2, WriteOkSame
    <2>2. CASE x.task = k
        <3>1. Due(mcOrder, x.task)' = Due(mcOrder, x.task) - 1 /\ Due(mcOrder, x.task) \in Nat
            BY <1>3, <2>2, PaidIs
        <3>2. Count(WdataToSend, x.task) = Count(WdataToSend, x.task)' + 1 /\ Count(WdataToSend, x.task)' \in Nat
              /\ Left(x) \in Nat
            BY <1>3, <2>2, RemType DEF Inv
        <3>3. WriteOk(x)
            BY DEF Inv, DataInv
        <3>4. PICK l \in Nat, m \in Nat, c \in Nat :
                  l = Left(x) /\ m = Due(mcOrder, x.task) /\ c = Count(WdataToSend, x.task)'
            BY <3>1, <3>2
        <3>5. m >= l + (c + 1) /\ (~AREF_EN => m = l + (c + 1))
            BY <3>2, <3>3, <3>4 DEF WriteOk
        <3>6. Left(x)' = l /\ Due(mcOrder, x.task)' = m - 1 /\ Count(WdataToSend, x.task)' = c
            BY <1>5, <3>1, <3>4
        <3>7. m - 1 >= l + c /\ (~AREF_EN => m - 1 = l + c)
            BY <3>5
        <3> QED BY <1>1, <3>6, <3>7, WriteOkStep
    <2> QED BY <2>1, <2>2
<1>9. Once(mcOrder)' /\ \A d : In(mcOrder, d)' => In(mcOrder, d)
    BY <1>3, PaidIs
<1>10. \A d \in Tasks : Rem(d)' > 0 => \E u \in Units' : d \in Names(u) /\ u.at # "read"
    BY <1>3, <1>4 DEF Inv, DataInv, Rem
<1>11. \A d \in Tasks : Count(WdataToSend', d) > 0 => \E x \in Writes' : x.task = d
    <2>1. \A d \in Tasks : Count(WdataToSend, d)' > 0 => Count(WdataToSend, d) > 0
        BY <1>3
    <2> QED BY <1>6, <2>1 DEF Inv, DataInv
<1>12. \A d : In(mcOrder, d)' => \E x \in Writes' : x.task = d
    BY <1>6, <1>9 DEF Inv, DataInv
<1> QED BY <1>6, <1>7, <1>8, <1>9, <1>10, <1>11, <1>12 DEF DataInv, Names

(* Every step keeps the account of the beats.                              *)
LEMMA DataStep ==
    ASSUME Inv, [Next]_vars, ~UNPAIRED_TO_RMW_EN
    PROVE  DataInv'
<1>1. CASE InPlace
    <2>1. CASE ABeat
        BY <2>1, BeatIs, DataFills, DataPays
    <2>2. CASE Quiet \/ NewCommand \/ FinishNone
        BY <2>2, DataIdle
    <2> QED BY <1>1, <2>1, <2>2, DataSent, DataScheduled, DataEmptied DEF InPlace, ABeat
<1> QED BY <1>1, NextIs, DataEnqueue, DataBypass, DataMerge, DataMaskRead, DataRead, DataWrite, DataFinish
-----------------------------------------------------------------------------
(*************************************************************************)
(* ReadInv: a mask write keeps its entry until its read is back.           *)
(*************************************************************************)
(* The read of a mask write is one transaction.                            *)
LEMMA MergingIs ==
    ASSUME Inv, NEW t
    PROVE  Merging(t) <=> [task |-> t, first |-> NoTask, kind |-> "merge"] \in transactionQueue
<1>1. \A x \in transactionQueue : x.kind = "merge" => x \in TransT /\ x.first = NoTask
    BY DEF Inv, TypeInv, ReadInv
<1>2. ASSUME NEW x \in transactionQueue, x.task = t, x.kind = "merge"
      PROVE  x = [task |-> t, first |-> NoTask, kind |-> "merge"]
    BY <1>1, <1>2 DEF TransT
<1> QED BY <1>2 DEF Merging

(* Nobody's read changes.                                                  *)
LEMMA ReadStill ==
    ASSUME Inv, rd_finish' = rd_finish,
           \A x : x.kind = "merge" => (x \in transactionQueue' <=> x \in transactionQueue),
           \A e \in Ents : e.kind = "mask" /\ rd_finish[e.task] # "none" =>
               \E f \in Ents' : f.task = e.task /\ f.kind = "mask" /\ f.state = e.state,
           \A f \in Ents' : MaskOk(f) \/ (f.kind # "mask" /\ f.state # "merge_read")
                            \/ \E e \in Ents : f.task = e.task /\ f.kind = e.kind /\ f.state = e.state
    PROVE  ReadInv'
<1>1. \A t : Merging(t)' <=> Merging(t)
    BY DEF Merging
<1>2. \A f : MaskOk(f) => MaskOk(f)'
    BY <1>1 DEF MaskOk
<1>3. \A f \in Ents' : MaskOk(f)'
    <2> SUFFICES ASSUME NEW f \in Ents' PROVE MaskOk(f)'
        OBVIOUS
    <2>1. MaskOk(f) => MaskOk(f)'
        BY <1>2
    <2>2. CASE f.kind # "mask" /\ f.state # "merge_read"
        BY <2>2 DEF MaskOk
    <2>3. CASE \E e \in Ents : f.task = e.task /\ f.kind = e.kind /\ f.state = e.state
        <3>1. PICK e \in Ents : f.task = e.task /\ f.kind = e.kind /\ f.state = e.state
            BY <2>3
        <3>2. MaskOk(e)
            BY DEF Inv, ReadInv
        <3>3. MaskOk(f)
            BY <3>1, <3>2 DEF MaskOk
        <3> QED BY <2>1, <3>3
    <2> QED BY <2>1, <2>2, <2>3
<1>4. \A t \in Tasks : rd_finish[t] # "none" => \E f \in Ents' : f.task = t /\ f.kind = "mask"
    BY DEF Inv, ReadInv
<1>5. \A x \in transactionQueue' : x.kind = "merge" =>
          x.first = NoTask /\ \E f \in Ents' : f.task = x.task /\ f.kind = "mask" /\ f.state = "merge_read"
    <2> SUFFICES ASSUME NEW x \in transactionQueue, x.kind = "merge"
                 PROVE  x.first = NoTask /\ \E f \in Ents' : f.task = x.task /\ f.kind = "mask"
                                                             /\ f.state = "merge_read"
        OBVIOUS
    <2>1. PICK e \in Ents : e.task = x.task /\ e.kind = "mask" /\ e.state = "merge_read"
        BY DEF Inv, ReadInv
    <2>2. rd_finish[e.task] # "none"
        BY <2>1 DEF Inv, ReadInv, MaskOk
    <2> QED BY <2>1, <2>2 DEF Inv, ReadInv
<1> QED BY <1>3, <1>4, <1>5 DEF ReadInv

(* Steps in place, but for sch_que, change no read.                        *)
LEMMA ReadInPlace ==
    ASSUME Inv, InPlace, ~SchQue, ~UNPAIRED_TO_RMW_EN
    PROVE  ReadInv'
<1>1. UNCHANGED <<transactionQueue>>
    BY InPlaceSame DEF Inv
<1>2. rd_finish' = rd_finish
    BY DEF InPlace, Quiet, NoCommand, Refused, NoBeat, NoneSent, NoWdata, Stopped, vars, Arb, NewCommand,
       SendWdata, BacklogRefuses, Turn, FinishNone, BeatToMerged, BeatRemapped, BeatFast, BeatQueued,
       BeatPassed, Beat
<1>3. /\ \A f \in Ents' : \E e \in Ents : f.task = e.task /\ f.kind = e.kind /\ f.state = e.state
      /\ \A e \in Ents : \E f \in Ents' : f.task = e.task /\ f.kind = e.kind /\ f.state = e.state
    <2>1. CASE FinishNone
        <3>1. Ents' = {Aged(e) : e \in Ents}
            BY <2>1, EntsAged DEF FinishNone, Inv
        <3>2. \A e \in Ents : Aged(e).task = e.task /\ Aged(e).kind = e.kind /\ Aged(e).state = e.state
            BY EntsAre, AgedIs DEF SameName, Inv
        <3> QED BY <3>1, <3>2
    <2>2. CASE BacklogRefuses
        <3>1. (\A f \in Ents' : \E e \in Ents : Emptied(e, f)) /\ (\A e \in Ents : \E f \in Ents' : Emptied(e, f))
            BY <2>2, EntsEmptied DEF Inv
        <3>2. \A e \in Ents : \A f : Emptied(e, f) => f.task = e.task /\ f.kind = e.kind /\ f.state = e.state
            BY EntsAre, EmptiedIs DEF SameName, Inv
        <3>3. \A f \in Ents' : \E e \in Ents : f.task = e.task /\ f.kind = e.kind /\ f.state = e.state
            BY <3>1, <3>2
        <3>4. \A e \in Ents : \E f \in Ents' : f.task = e.task /\ f.kind = e.kind /\ f.state = e.state
            BY <3>1, <3>2
        <3> QED BY <3>3, <3>4
    <2>3. CASE ABeat
        <3>1. CASE Ents' = Ents
            BY <3>1
        <3>2. CASE Fills(Head(write_task))
            <4>1. PICK e \in Ents : Ents' = (Ents \ {e}) \cup {[e EXCEPT !.ready = @ + 1]}
                BY <3>2 DEF Fills
            <4>2. PICK f : f = [e EXCEPT !.ready = @ + 1]
                OBVIOUS
            <4>3. e \in EntT
                BY EntsAre DEF Inv
            <4>4. f.task = e.task /\ f.kind = e.kind /\ f.state = e.state
                BY <4>2, <4>3 DEF EntT
            <4> QED BY <4>1, <4>2, <4>4
        <3> QED BY <2>3, <3>1, <3>2, BeatIs
    <2>4. CASE Quiet \/ NewCommand \/ SendWdata
        <3>1. RmwQue' = RmwQue
            BY <2>4 DEF Quiet, NoCommand, Refused, NoBeat, NoneSent, NoWdata, Stopped, vars, Arb,
               NewCommand, SendWdata
        <3>2. Ents' = Ents
            BY <3>1 DEF Ents
        <3> QED BY <3>2
    <2> QED BY <2>1, <2>2, <2>3, <2>4 DEF InPlace, ABeat
<1> QED BY <1>1, <1>2, <1>3, ReadStill

(* sch_que makes a mask write ready when its read is back.                 *)
LEMMA ReadScheduled ==
    ASSUME Inv, SchQue, ~UNPAIRED_TO_RMW_EN
    PROVE  ReadInv'
<1>1. UNCHANGED <<transactionQueue>>
    BY DEF SchQue, mcVars
<1>2. rd_finish' = [t \in Tasks |-> IF \E i \in Holder(t) : MaskReady(RmwQue[i]) THEN "none" ELSE rd_finish[t]]
    BY DEF SchQue, Converted
<1>3. \A t \in Tasks : (\E i \in Holder(t) : MaskReady(RmwQue[i])) <=> (\E e \in Ents : e.task = t /\ MaskReady(e))
    <2>1. \A i \in 1 .. Len(RmwQue) :
              /\ Stripped(RmwQue[i]) \in Ents /\ Stripped(RmwQue[i]).task = RmwQue[i].task
              /\ MaskReady(Stripped(RmwQue[i])) <=> MaskReady(RmwQue[i])
        <3> SUFFICES ASSUME NEW i \in 1 .. Len(RmwQue), NEW g, g = Stripped(RmwQue[i])
                     PROVE  /\ g \in Ents /\ g.task = RmwQue[i].task
                            /\ MaskReady(g) <=> MaskReady(RmwQue[i])
            BY DEF MaskReady, Filled, Beats
        <3>1. RmwQue[i] \in EntryT /\ g \in Ents
            BY EntsAre DEF Inv
        <3>2. g.task = RmwQue[i].task /\ g.kind = RmwQue[i].kind /\ g.left = RmwQue[i].left
              /\ g.right = RmwQue[i].right /\ g.ready = RmwQue[i].ready
            BY <3>1, StrippedIs
        <3> QED BY <3>1, <3>2 DEF MaskReady, Filled, Beats
    <2>2. DOMAIN RmwQue = 1 .. Len(RmwQue)
        BY DEF Inv, QueInv
    <2>3. \A e \in Ents : \E i \in 1 .. Len(RmwQue) : e = Stripped(RmwQue[i])
        BY DEF Ents
    <2> SUFFICES ASSUME NEW t \in Tasks
                 PROVE  (\E i \in Holder(t) : MaskReady(RmwQue[i])) <=> (\E e \in Ents : e.task = t /\ MaskReady(e))
        OBVIOUS
    <2>4. ASSUME NEW i \in Holder(t), MaskReady(RmwQue[i]) PROVE \E e \in Ents : e.task = t /\ MaskReady(e)
        BY <2>1, <2>2, <2>4 DEF Holder
    <2>5. ASSUME NEW e \in Ents, e.task = t, MaskReady(e) PROVE \E i \in Holder(t) : MaskReady(RmwQue[i])
        <3>1. PICK i \in 1 .. Len(RmwQue) : e = Stripped(RmwQue[i])
            BY <2>3
        <3>2. MaskReady(RmwQue[i]) /\ RmwQue[i].task = t
            BY <2>1, <2>5, <3>1
        <3>3. ~Read(RmwQue[i])
            BY <3>2 DEF MaskReady, Read
        <3> QED BY <2>2, <3>2, <3>3 DEF Holder
    <2> QED BY <2>4, <2>5
<1>4. Ents' = {sch_entry(e) : e \in Ents}
    BY EntsScheduled DEF Inv
<1>5. \A t : Merging(t)' <=> Merging(t)
    BY <1>1 DEF Merging
<1>6. ASSUME NEW e \in Ents, NEW f, f = sch_entry(e)
      PROVE  /\ f.task = e.task /\ f.kind = e.kind /\ MaskOk(f)'
             /\ e.kind = "mask" /\ e.state = "merge_read" /\ Merging(e.task) => f = e
    <2>1. e \in EntT /\ MaskOk(e) /\ e.task \in Tasks
        BY EntsAre, EntNew DEF Inv, ReadInv
    <2>2. \A d \in Ents : d.task = e.task => d = e
        BY EntsAre DEF Inv
    <2>3. rd_finish[e.task]' = IF MaskReady(e) THEN "none" ELSE rd_finish[e.task]
        BY <1>2, <1>3, <2>1, <2>2
    <2>4. CASE NowReady(e)
        <3>1. f = [e EXCEPT !.state = "ready"]
            BY <1>6, <2>4, SchIs
        <3>2. f.task = e.task /\ f.kind = e.kind /\ f.state = "ready"
            BY <2>1, <3>1 DEF EntT
        <3>3. e.kind = "mask" => MaskReady(e)
            BY <2>4 DEF NowReady, is_unpaired_write_merge_timeout, is_write_merge_candidate
        <3>4. e.kind = "mask" => rd_finish'[f.task] = "none"
            BY <2>3, <3>2, <3>3
        <3>5. MaskOk(f)'
            BY <3>2, <3>4 DEF MaskOk
        <3>6. e.kind = "mask" /\ e.state = "merge_read" /\ Merging(e.task) => FALSE
            BY <2>1, <3>3 DEF MaskOk, MaskReady
        <3> QED BY <3>2, <3>5, <3>6
    <2>5. CASE ~NowReady(e)
        <3>1. f = e
            BY <1>6, <2>5, SchIs
        <3>2. ~MaskReady(e)
            BY <2>5 DEF NowReady
        <3>3. rd_finish'[f.task] = rd_finish[e.task]
            BY <2>3, <3>1, <3>2
        <3>4. MaskOk(f)'
            BY <1>5, <2>1, <3>1, <3>3 DEF MaskOk
        <3> QED BY <3>1, <3>4
    <2> QED BY <2>4, <2>5
<1>7. \A f \in Ents' : MaskOk(f)'
    BY <1>4, <1>6
<1>8. \A t \in Tasks : rd_finish'[t] # "none" => \E f \in Ents' : f.task = t /\ f.kind = "mask"
    <2> SUFFICES ASSUME NEW t \in Tasks, rd_finish'[t] # "none"
                 PROVE  \E f \in Ents' : f.task = t /\ f.kind = "mask"
        OBVIOUS
    <2>1. rd_finish[t] # "none"
        BY <1>2
    <2>2. PICK e \in Ents : e.task = t /\ e.kind = "mask"
        BY <2>1 DEF Inv, ReadInv
    <2>3. PICK f : f = sch_entry(e)
        OBVIOUS
    <2> QED BY <1>4, <1>6, <2>2, <2>3
<1>9. \A x \in transactionQueue' : x.kind = "merge" =>
          x.first = NoTask /\ \E f \in Ents' : f.task = x.task /\ f.kind = "mask" /\ f.state = "merge_read"
    <2> SUFFICES ASSUME NEW x \in transactionQueue, x.kind = "merge"
                 PROVE  x.first = NoTask /\ \E f \in Ents' : f.task = x.task /\ f.kind = "mask"
                                                             /\ f.state = "merge_read"
        BY <1>1
    <2>1. PICK e \in Ents : e.task = x.task /\ e.kind = "mask" /\ e.state = "merge_read"
        BY DEF Inv, ReadInv
    <2>2. Merging(e.task)
        BY <2>1 DEF Merging
    <2>3. PICK f : f = sch_entry(e)
        OBVIOUS
    <2>4. f = e /\ f \in Ents'
        BY <1>4, <1>6, <2>1, <2>2, <2>3
    <2> QED BY <2>1, <2>4 DEF Inv, ReadInv
<1> QED BY <1>7, <1>8, <1>9 DEF ReadInv
-----------------------------------------------------------------------------
(* A new mask write has its read before it.                                *)
LEMMA ReadEnqueue ==
    ASSUME Inv, Enqueue
    PROVE  ReadInv'
<1>1. Accept /\ transactionQueue' = transactionQueue
      /\ rd_finish' = [rd_finish EXCEPT ![Task] = IF Cmd.kind = "mask" THEN "open" ELSE @]
    BY DEF Enqueue, rd_begin
<1>2. PICK g \in EntT : /\ g.task = Task /\ g.kind = Cmd.kind /\ g.state = "waiting"
                        /\ Ents' = Ents \cup {g}
    BY EntAdded DEF Inv
<1>3. Task \in Tasks /\ Task \notin Taken
    BY <1>1, AcceptIs
<1>4. (\A e \in Ents : e.task # Task) /\ rd_finish[Task] = "none"
    BY <1>3, Fresh
<1>5. rd_finish \in [Tasks -> States]
    BY DEF Inv, TypeInv
<1>6. /\ rd_finish'[Task] = IF Cmd.kind = "mask" THEN "open" ELSE rd_finish[Task]
      /\ \A t \in Tasks : t # Task => rd_finish'[t] = rd_finish[t]
    BY <1>1, <1>3, <1>5
<1>7. \A t : Merging(t)' <=> Merging(t)
    BY <1>1 DEF Merging
<1>8. MaskOk(g)'
    BY <1>2, <1>6 DEF MaskOk
<1>9. ASSUME NEW e \in Ents PROVE MaskOk(e)'
    <2>1. e.task \in Tasks /\ e.task # Task /\ MaskOk(e)
        BY <1>4, EntNew DEF Inv, ReadInv
    <2>2. rd_finish'[e.task] = rd_finish[e.task]
        BY <1>6, <2>1
    <2> QED BY <1>7, <2>1, <2>2 DEF MaskOk
<1>10. \A t \in Tasks : rd_finish'[t] # "none" => \E f \in Ents' : f.task = t /\ f.kind = "mask"
    BY <1>2, <1>4, <1>6 DEF Inv, ReadInv
<1>11. \A x \in transactionQueue' : x.kind = "merge" =>
          x.first = NoTask /\ \E f \in Ents' : f.task = x.task /\ f.kind = "mask" /\ f.state = "merge_read"
    BY <1>1, <1>2 DEF Inv, ReadInv
<1> QED BY <1>2, <1>8, <1>9, <1>10, <1>11 DEF ReadInv

(* Mask writes are not merged.                                             *)
LEMMA ReadMerge ==
    ASSUME Inv, Merge
    PROVE  ReadInv'
<1> DEFINE e == Stripped(RmwQue[First(Partners(Cmd))])
<1>1. PICK f \in EntT : f = build_merged(e, Task, Cmd)
    BY MergeIs
<1>2. e \in Ents /\ Ents' = (Ents \ {e}) \cup {f} /\ e.kind = "full" /\ f.kind = "full" /\ f.state = "waiting"
    BY <1>1, MergeIs
<1> HIDE DEF e
<1>3. rd_finish' = rd_finish /\ transactionQueue' = transactionQueue
    BY DEF Merge
<1>4. \A d \in Ents : d.kind = "mask" => d \in Ents'
    BY <1>2
<1>5. \A g \in Ents' : g \in Ents \/ (g.kind # "mask" /\ g.state # "merge_read")
    BY <1>2
<1> QED BY <1>3, <1>4, <1>5, ReadStill

(* A mask write does not pass by.                                          *)
LEMMA ReadBypass ==
    ASSUME Inv, Bypass
    PROVE  ReadInv'
<1> DEFINE w == [task |-> Task, first |-> NoTask, kind |-> IF Read(Cmd) THEN "read" ELSE "write"]
<1>1. rd_finish' = rd_finish /\ Ents' = Ents /\ transactionQueue' = transactionQueue \cup {w}
    BY DEF Bypass, Ents, push_after_rmw
<1>2. w.kind # "merge"
    OBVIOUS
<1> HIDE DEF w
<1>3. \A x : x.kind = "merge" => (x \in transactionQueue' <=> x \in transactionQueue)
    BY <1>1, <1>2
<1> QED BY <1>1, <1>3, ReadStill

(* A read of the host is no read of a mask write.                          *)
LEMMA ReadRead ==
    ASSUME Inv, SendRead
    PROVE  ReadInv'
<1>1. PICK e \in Ents :
              /\ Read(e) /\ Ents' = Ents \ {e}
              /\ transactionQueue' = transactionQueue \cup
                     {[task |-> e.task, first |-> NoTask, kind |-> "read"]}
    BY ReadLeaves DEF Inv
<1>2. rd_finish' = rd_finish
    BY DEF SendRead, Turn, Arb
<1>3. \A x : x.kind = "merge" => (x \in transactionQueue' <=> x \in transactionQueue)
    BY <1>1
<1>4. \A d \in Ents : d.kind = "mask" => d \in Ents'
    BY <1>1 DEF Read
<1> QED BY <1>1, <1>2, <1>3, <1>4, ReadStill

(* A mask write leaves after its read.                                     *)
LEMMA ReadWrite ==
    ASSUME Inv, SendWrite
    PROVE  ReadInv'
<1>1. PICK e \in Ents :
              /\ ~Read(e) /\ Goes(e) /\ Ents' = Ents \ {e}
              /\ transactionQueue' = transactionQueue \cup
                     {[task |-> e.task, first |-> e.first, kind |-> "write"]}
    BY WriteLeaves DEF Inv
<1>2. rd_finish' = rd_finish
    BY DEF SendWrite, Turn, Arb
<1>3. \A x : x.kind = "merge" => (x \in transactionQueue' <=> x \in transactionQueue)
    BY <1>1
<1>4. e.kind = "mask" => rd_finish[e.task] = "none"
    BY <1>1 DEF Goes, NeedsRead, Inv, ReadInv, MaskOk
<1>5. \A d \in Ents : d.kind = "mask" /\ rd_finish[d.task] # "none" => d \in Ents'
    BY <1>1, <1>4
<1> QED BY <1>1, <1>2, <1>3, <1>5, ReadStill

(* A mask write that reads is in the queue and waits.                      *)
LEMMA ReadMaskRead ==
    ASSUME Inv, SendMergeRead
    PROVE  ReadInv'
<1>1. PICK e \in Ents :
              /\ e.kind = "mask" /\ e.state = "waiting"
              /\ transactionQueue' = transactionQueue \cup
                     {[task |-> e.task, first |-> NoTask, kind |-> "merge"]}
              /\ Ents' = (Ents \ {e}) \cup {[e EXCEPT !.state = "merge_read"]}
    BY EntReads DEF Inv
<1>2. PICK f : f = [e EXCEPT !.state = "merge_read"]
    OBVIOUS
<1>3. e \in EntT /\ e.task \in Tasks /\ (\A d \in Ents : d # e => d.task # e.task)
    BY EntsAre, EntNew DEF Inv
<1>4. f.task = e.task /\ f.kind = "mask" /\ f.state = "merge_read"
    BY <1>1, <1>2, <1>3 DEF EntT
<1>5. rd_finish' = rd_finish
    BY DEF SendMergeRead, Turn, Arb
<1>6. rd_finish[e.task] = "open"
    BY <1>1 DEF Inv, ReadInv, MaskOk
<1>7. Ents' = (Ents \ {e}) \cup {f}
    BY <1>1, <1>2
<1> DEFINE r == [task |-> e.task, first |-> NoTask, kind |-> "merge"]
<1>8. PICK x : x = r
    OBVIOUS
<1>9. x.task = e.task /\ x.first = NoTask /\ x.kind = "merge" /\ transactionQueue' = transactionQueue \cup {x}
    BY <1>1, <1>8
<1> HIDE DEF r
<1>10. \A t : t # e.task => (Merging(t)' <=> Merging(t))
    BY <1>9 DEF Merging
<1>11. Merging(e.task)'
    <2>1. \E y \in transactionQueue' : y.task = e.task /\ y.kind = "merge"
        BY <1>9
    <2> QED BY <2>1 DEF Merging
<1>12. MaskOk(f)'
    <2>1. Merging(f.task)'
        <3>1. \E y \in transactionQueue' : y.task = f.task /\ y.kind = "merge"
            BY <1>4, <1>9
        <3> QED BY <3>1 DEF Merging
    <2> QED BY <1>4, <1>5, <1>6, <2>1 DEF MaskOk
<1>13. ASSUME NEW d \in Ents, d # e PROVE MaskOk(d)'
    <2>1. d.task # e.task /\ MaskOk(d)
        BY <1>3, <1>13 DEF Inv, ReadInv
    <2>2. Merging(d.task)' <=> Merging(d.task)
        BY <1>10, <2>1
    <2> QED BY <1>5, <2>1, <2>2 DEF MaskOk
<1>14. \A t \in Tasks : rd_finish'[t] # "none" => \E g \in Ents' : g.task = t /\ g.kind = "mask"
    <2> SUFFICES ASSUME NEW t \in Tasks, rd_finish[t] # "none"
                 PROVE  \E g \in Ents' : g.task = t /\ g.kind = "mask"
        BY <1>5
    <2>1. PICK d \in Ents : d.task = t /\ d.kind = "mask"
        BY DEF Inv, ReadInv
    <2> QED BY <1>4, <1>7, <2>1
<1>15. \A y \in transactionQueue' : y.kind = "merge" =>
          y.first = NoTask /\ \E g \in Ents' : g.task = y.task /\ g.kind = "mask" /\ g.state = "merge_read"
    <2> SUFFICES ASSUME NEW y \in transactionQueue', y.kind = "merge"
                 PROVE  y.first = NoTask /\ \E g \in Ents' : g.task = y.task /\ g.kind = "mask"
                                                             /\ g.state = "merge_read"
        OBVIOUS
    <2>1. CASE y = x
        BY <1>4, <1>7, <1>9, <2>1
    <2>2. CASE y \in transactionQueue
        <3>1. PICK d \in Ents : d.task = y.task /\ d.kind = "mask" /\ d.state = "merge_read"
            BY <2>2 DEF Inv, ReadInv
        <3>2. d # e
            BY <1>1, <3>1
        <3> QED BY <1>7, <2>2, <3>1, <3>2 DEF Inv, ReadInv
    <2> QED BY <1>9, <2>1, <2>2
<1> QED BY <1>7, <1>12, <1>13, <1>14, <1>15 DEF ReadInv

(* A read that is back finds its entry waiting.                            *)
LEMMA ReadFinish ==
    ASSUME Inv, NEW x \in transactionQueue, Finish(x)
    PROVE  ReadInv'
<1>1. /\ transactionQueue' = transactionQueue \ {x} /\ Ages
      /\ rd_finish' = IF x.kind = "merge" THEN [rd_finish EXCEPT ![x.task] = "back"] ELSE rd_finish
    BY DEF Finish
<1>2. Ents' = {Aged(e) : e \in Ents}
    BY <1>1, EntsAged DEF Inv
<1>3. \A e \in Ents : Aged(e).task = e.task /\ Aged(e).kind = e.kind /\ Aged(e).state = e.state
    BY EntsAre, AgedIs DEF SameName, Inv
<1>4. /\ \A f \in Ents' : \E e \in Ents : f.task = e.task /\ f.kind = e.kind /\ f.state = e.state
      /\ \A e \in Ents : \E f \in Ents' : f.task = e.task /\ f.kind = e.kind /\ f.state = e.state
    BY <1>2, <1>3
<1>5. CASE x.kind # "merge"
    <2>1. rd_finish' = rd_finish
        BY <1>1, <1>5
    <2>2. \A y : y.kind = "merge" => (y \in transactionQueue' <=> y \in transactionQueue)
        BY <1>1, <1>5
    <2> QED BY <1>4, <2>1, <2>2, ReadStill
<1>6. CASE x.kind = "merge"
    <2>1. PICK m \in Ents : m.task = x.task /\ m.kind = "mask" /\ m.state = "merge_read"
        BY <1>6 DEF Inv, ReadInv
    <2>2. x = [task |-> m.task, first |-> NoTask, kind |-> "merge"]
        <3>1. x \in TransT /\ x.first = NoTask
            BY <1>6 DEF Inv, TypeInv, ReadInv
        <3> QED BY <1>6, <2>1, <3>1 DEF TransT
    <2>3. \A y \in transactionQueue : y.kind = "merge" /\ y.task = m.task => y = x
        <3>1. \A y \in transactionQueue : y.kind = "merge" => y \in TransT /\ y.first = NoTask
            BY DEF Inv, TypeInv, ReadInv
        <3>2. \A y \in transactionQueue : y.kind = "merge" /\ y.task = m.task =>
                  y = [task |-> m.task, first |-> NoTask, kind |-> "merge"]
            BY <3>1 DEF TransT
        <3> QED BY <2>2, <3>2
    <2>4. \A t : t # m.task => (Merging(t)' <=> Merging(t))
        BY <1>1, <2>1 DEF Merging
    <2>5. m.task \in Tasks /\ rd_finish \in [Tasks -> States] /\ (\A d \in Ents : d.task = m.task => d = m)
        BY EntNew, EntsAre DEF Inv, TypeInv
    <2>6. rd_finish'[m.task] = "back" /\ \A t \in Tasks : t # m.task => rd_finish'[t] = rd_finish[t]
        BY <1>1, <1>6, <2>1, <2>5
    <2>7. ASSUME NEW f \in Ents' PROVE MaskOk(f)'
        <3>1. PICK e \in Ents : f.task = e.task /\ f.kind = e.kind /\ f.state = e.state
            BY <1>4
        <3>2. MaskOk(e) /\ e.task \in Tasks
            BY EntNew DEF Inv, ReadInv
        <3>3. CASE e.task = m.task
            <4>1. f.task = m.task /\ f.kind = "mask" /\ f.state = "merge_read"
                BY <2>1, <2>5, <3>1, <3>3
            <4>2. ~ \E y \in transactionQueue' : y.task = m.task /\ y.kind = "merge"
                BY <1>1, <2>3
            <4>3. ~ \E y \in transactionQueue' : y.task = f.task /\ y.kind = "merge"
                BY <4>1, <4>2
            <4>4. ~Merging(f.task)'
                BY <4>3 DEF Merging
            <4> QED BY <2>6, <4>1, <4>4 DEF MaskOk
        <3>4. CASE e.task # m.task
            <4>1. rd_finish'[f.task] = rd_finish[e.task]
                BY <2>6, <3>1, <3>2, <3>4
            <4>2. Merging(f.task)' <=> Merging(e.task)
                <5>1. Merging(f.task)' <=> Merging(f.task)
                    BY <2>4, <3>1, <3>4
                <5> QED BY <3>1, <5>1 DEF Merging
            <4> QED BY <3>1, <3>2, <4>1, <4>2 DEF MaskOk
        <3> QED BY <3>3, <3>4
    <2>8. \A t \in Tasks : rd_finish'[t] # "none" => \E f \in Ents' : f.task = t /\ f.kind = "mask"
        <3> SUFFICES ASSUME NEW t \in Tasks, rd_finish'[t] # "none"
                     PROVE  \E f \in Ents' : f.task = t /\ f.kind = "mask"
            OBVIOUS
        <3>1. CASE t = m.task
            BY <1>4, <2>1, <3>1
        <3>2. CASE t # m.task
            BY <1>4, <2>6, <3>2 DEF Inv, ReadInv
        <3> QED BY <3>1, <3>2
    <2>9. \A y \in transactionQueue' : y.kind = "merge" =>
              y.first = NoTask /\ \E g \in Ents' : g.task = y.task /\ g.kind = "mask" /\ g.state = "merge_read"
        <3> SUFFICES ASSUME NEW y \in transactionQueue, y.kind = "merge"
                     PROVE  y.first = NoTask /\ \E g \in Ents' : g.task = y.task /\ g.kind = "mask"
                                                                 /\ g.state = "merge_read"
            BY <1>1
        <3>1. PICK d \in Ents : d.task = y.task /\ d.kind = "mask" /\ d.state = "merge_read"
            BY DEF Inv, ReadInv
        <3> QED BY <1>4, <3>1 DEF Inv, ReadInv
    <2> QED BY <2>7, <2>8, <2>9 DEF ReadInv
<1> QED BY <1>5, <1>6

(* Every step keeps a mask write and its read together.                    *)
LEMMA ReadStep ==
    ASSUME Inv, [Next]_vars, ~UNPAIRED_TO_RMW_EN
    PROVE  ReadInv'
BY NextIs, ReadInPlace, ReadScheduled, ReadEnqueue, ReadBypass, ReadMerge, ReadMaskRead, ReadRead,
   ReadWrite, ReadFinish
-----------------------------------------------------------------------------
(*************************************************************************)
(* WedInv: a task merged away holds nothing itself.                        *)
(*************************************************************************)
(* A task merged away stays so: no holder gets its name.                   *)
LEMMA WedKept ==
    ASSUME NEW f, NEW m, Wed(f, m), Taken \subseteq Taken', fast_bypass'[f] = 0,
           \A v \in Units' : (\E u \in Units : u.task = v.task /\ u.first = v.first) \/ v.task \notin Taken
    PROVE  Wed(f, m)'
BY DEF Wed

(* Steps that make no pair and send no beat keep the pairs.                *)
LEMMA WedStill ==
    ASSUME Inv, remaps' = remaps, bypassed' = bypassed, config' = config, Taken \subseteq Taken',
           \A v \in Units' : (\E u \in Units : u.task = v.task /\ u.first = v.first) \/ v.task \notin Taken,
           \A t \in Tasks : (\A u \in Units : u.task # t) => fast_bypass'[t] = fast_bypass[t],
           \A v \in Units' : v.at = "rmw" => fast_bypass'[v.task] = 0,
           \A t \in Taken : Rem(t)' = Rem(t)
    PROVE  WedInv'
<1>1. Taken \subseteq Tasks
    BY TakenTasks DEF Inv
<1>2. ASSUME NEW f, NEW m, Wed(f, m) PROVE Wed(f, m)'
    <2>1. fast_bypass'[f] = 0
        BY <1>1, <1>2 DEF Wed
    <2> QED BY <1>2, <2>1, WedKept
<1>3. ASSUME NEW n \in 1 .. Len(remaps')
      PROVE  Wed(remaps[n].src, remaps[n].dst)' /\ remaps'[n].left <= Rem(remaps[n].src)'
    <2>1. PICK f, m : f = remaps[n].src /\ m = remaps[n].dst
        OBVIOUS
    <2>2. Wed(f, m) /\ remaps[n].left <= Rem(f)
        BY <1>3, <2>1 DEF Inv, WedInv
    <2>3. Wed(f, m)' /\ f \in Taken
        BY <1>2, <2>2 DEF Wed
    <2>4. Rem(f)' = Rem(f)
        BY <2>3
    <2>5. remaps'[n].src = f /\ remaps'[n].dst = m
        BY <2>1
    <2> QED BY <2>2, <2>3, <2>4, <2>5 DEF Wed, Rem
<1>4. ASSUME NEW b \in bypassed' PROVE Wed(b.first, b.merged)'
    BY <1>2 DEF Inv, WedInv
<1>5. \A t \in Tasks : t \notin Taken' => fast_bypass'[t] = 0
    <2> SUFFICES ASSUME NEW t \in Tasks, t \notin Taken PROVE fast_bypass'[t] = 0
        OBVIOUS
    <2>1. (\A u \in Units : u.task # t) /\ fast_bypass[t] = 0
        BY Fresh
    <2> QED BY <2>1
<1>6. \A n, k \in 1 .. Len(remaps') : n # k => remaps'[n].src # remaps'[k].src
    BY DEF Inv, WedInv
<1>7. (RMW_CMD_MODE' # 2 => bypassed' = {}) /\ (RMW_CMD_MODE' = 2 => remaps' = <<>>)
    BY DEF Inv, WedInv, RMW_CMD_MODE
<1> QED BY <1>3, <1>4, <1>5, <1>6, <1>7 DEF WedInv

(* Every step but a merge and the beats.                                   *)
LEMMA WedAccept ==
    ASSUME Inv, Enqueue \/ Bypass
    PROVE  WedInv'
<1>1. Accept /\ UNCHANGED <<remaps, bypassed, fast_bypass, config>>
    BY DEF Enqueue, Bypass, Accept, Then
<1>2. Task \in Tasks /\ Task \notin Taken /\ Taken' = Taken \cup {Task}
      /\ \A t : Rem(t)' = IF t = Task /\ ~Read(Cmd) THEN Beats(Cmd) ELSE Rem(t)
    BY <1>1, AcceptIs
<1>3. \A t \in Taken : Rem(t)' = Rem(t)
    BY <1>2
<1>4. \E v : v.task = Task /\ Units' = Units \cup {v}
    <2>1. CASE Enqueue
        <3>1. PICK e \in EntT : e.task = Task /\ Ents' = Ents \cup {e}
            BY <2>1, EntAdded DEF Inv
        <3>2. Served' = Served
            BY <2>1 DEF Served, Enqueue
        <3>3. Units' = Units \cup {Waiting(e)} /\ Waiting(e).task = Task
            BY <3>1, <3>2 DEF Units, Waiting, Sent
        <3> QED BY <3>3
    <2>2. CASE Bypass
        <3> DEFINE x == [task |-> Task, first |-> NoTask, kind |-> IF Read(Cmd) THEN "read" ELSE "write"]
        <3>1. Ents' = Ents /\ transactionQueue' = transactionQueue \cup {x}
            BY <2>2 DEF Bypass, Ents, push_after_rmw
        <3>2. x.kind # "merge" /\ x.task = Task
            OBVIOUS
        <3> HIDE DEF x
        <3>3. Served' = Served \cup {x}
            BY <3>1, <3>2 DEF Served
        <3>4. Units' = Units \cup {Sent(x)} /\ Sent(x).task = Task
            BY <3>1, <3>2, <3>3 DEF Units, Waiting, Sent
        <3> QED BY <3>4
    <2> QED BY <2>1, <2>2
<1>5. PICK v : v.task = Task /\ Units' = Units \cup {v}
    BY <1>4
<1>6. fast_bypass[Task] = 0
    BY <1>2, Fresh
<1>7. \A u \in Units' : u.at = "rmw" => fast_bypass'[u.task] = 0
    BY <1>1, <1>5, <1>6 DEF Inv, WedInv
<1>8. \A u \in Units' : (\E w \in Units : w.task = u.task /\ w.first = u.first) \/ u.task \notin Taken
    BY <1>2, <1>5
<1> QED BY <1>1, <1>2, <1>3, <1>7, <1>8, WedStill

(* Steps in place, but for beats, keep the pairs.                          *)
LEMMA WedInPlace ==
    ASSUME Inv, InPlace, ~ABeat, ~UNPAIRED_TO_RMW_EN
    PROVE  WedInv'
<1>1. Units' = Units /\ UNCHANGED <<accepted, config>>
    BY InPlaceSame DEF Inv
<1>2. UNCHANGED <<fast_bypass, remaps, bypassed, write_task>>
    BY DEF InPlace, ABeat, Quiet, NoCommand, Refused, NoBeat, NoneSent, NoWdata, Stopped, vars, Arb, NewCommand,
       SendWdata, BacklogRefuses, Turn, FinishNone, SchQue, hostVars, mergeVars
<1>3. Taken' = Taken /\ \A t : Rem(t)' = Rem(t)
    BY <1>1, <1>2 DEF Taken, Rem
<1>4. \A u \in Units' : u.at = "rmw" => fast_bypass'[u.task] = 0
    BY <1>1, <1>2 DEF Inv, WedInv
<1> QED BY <1>1, <1>2, <1>3, <1>4, WedStill

(* An answer takes a unit away, and makes no pair.                         *)
LEMMA WedFinish ==
    ASSUME Inv, NEW x \in transactionQueue, Finish(x)
    PROVE  WedInv'
<1>1. Units' \subseteq Units
    BY UnitsFinish
<1>2. UNCHANGED <<fast_bypass, remaps, bypassed, write_task, accepted, config>>
    BY DEF Finish, hostVars, mergeVars, Then
<1>3. Taken' = Taken /\ \A t : Rem(t)' = Rem(t)
    BY <1>2 DEF Taken, Rem
<1>4. \A u \in Units' : u.at = "rmw" => fast_bypass'[u.task] = 0
    BY <1>1, <1>2 DEF Inv, WedInv
<1>5. \A v \in Units' : \E u \in Units : u.task = v.task /\ u.first = v.first
    BY <1>1
<1> QED BY <1>2, <1>3, <1>4, <1>5, WedStill

(* Reads have no partner.                                                  *)
LEMMA WedRead ==
    ASSUME Inv, SendRead \/ SendMergeRead
    PROVE  WedInv'
<1>1. UNCHANGED <<fast_bypass, remaps, bypassed, write_task, accepted, config>>
    BY DEF SendRead, SendMergeRead, Turn, Arb, hostVars, mergeVars, Then
<1>2. Taken' = Taken /\ \A t : Rem(t)' = Rem(t)
    BY <1>1 DEF Taken, Rem
<1>3. /\ \A v \in Units' : \E u \in Units : u.task = v.task /\ u.first = v.first
      /\ \A v \in Units' : v.at = "rmw" => v \in Units
    <2>1. CASE SendMergeRead
        BY <2>1, UnitsMaskRead
    <2>2. CASE SendRead
        <3>1. PICK e \in Ents : /\ Read(e) /\ Ents' = Ents \ {e}
                                /\ transactionQueue' = transactionQueue \cup
                                       {[task |-> e.task, first |-> NoTask, kind |-> "read"]}
            BY <2>2, ReadLeaves DEF Inv
        <3>2. e.first = NoTask
            BY <3>1 DEF Inv, DataInv, EntOk, Read
        <3>3. PICK x : x = [task |-> e.task, first |-> e.first, kind |-> "read"]
            OBVIOUS
        <3>4. transactionQueue' = transactionQueue \cup {x} /\ Ents' = Ents \ {e}
            BY <3>1, <3>2, <3>3
        <3>5. /\ Units' = (Units \ {Waiting(e)}) \cup {Sent(x)}
              /\ Sent(x).task = e.task /\ Sent(x).first = e.first
            BY <3>3, <3>4, UnitsSent DEF Inv
        <3>6. Waiting(e) \in Units /\ Waiting(e).task = e.task /\ Waiting(e).first = e.first
            BY EntUnit
        <3>7. Sent(x).at # "rmw"
            BY <3>3 DEF Sent
        <3> QED BY <3>5, <3>6, <3>7
    <2> QED BY <2>1, <2>2
<1>4. \A u \in Units' : u.at = "rmw" => fast_bypass'[u.task] = 0
    BY <1>1, <1>3 DEF Inv, WedInv
<1> QED BY <1>1, <1>2, <1>3, <1>4, WedStill

(* A write takes its partner along.                                        *)
LEMMA WedWrite ==
    ASSUME Inv, SendWrite
    PROVE  WedInv'
<1>1. UNCHANGED <<remaps, bypassed, write_task, accepted, config>>
    BY DEF SendWrite, Turn, Arb, hostVars, Then
<1>2. Taken' = Taken /\ \A t : Rem(t)' = Rem(t)
    BY <1>1 DEF Taken, Rem
<1>3. PICK e \in Ents, n \in Nat \ {0}, b \in Nat :
              /\ Ents' = Ents \ {e}
              /\ transactionQueue' = transactionQueue \cup
                     {[task |-> e.task, first |-> e.first, kind |-> "write"]}
              /\ fast_bypass' = IF b < n /\ ~(e.first # NoTask /\ RMW_CMD_MODE = 2)
                                THEN [fast_bypass EXCEPT ![e.task] = n - b] ELSE fast_bypass
    BY ZenonT(60), WriteGoes
<1>4. PICK x : x = [task |-> e.task, first |-> e.first, kind |-> "write"]
    OBVIOUS
<1>5. transactionQueue' = transactionQueue \cup {x} /\ Ents' = Ents \ {e}
    BY <1>3, <1>4
<1>6. /\ Units' = (Units \ {Waiting(e)}) \cup {Sent(x)}
      /\ Sent(x).task = e.task /\ Sent(x).first = e.first
    BY <1>4, <1>5, UnitsSent DEF Inv
<1>7. Waiting(e) \in Units /\ Waiting(e).task = e.task /\ Waiting(e).first = e.first
    BY EntUnit
<1>8. Sent(x).at = "write"
    BY <1>4 DEF Sent
<1>9. fast_bypass \in [Tasks -> Nat] /\ \A t \in Tasks : t # e.task => fast_bypass'[t] = fast_bypass[t]
    BY <1>3 DEF Inv, TypeInv
<1>10. ASSUME NEW u \in Units', u.at = "rmw" PROVE fast_bypass'[u.task] = 0
    <2>1. u \in Units /\ u # Waiting(e)
        BY <1>6, <1>8, <1>10
    <2>2. u.task # e.task
        <3>1. PICK d \in Ents : u = Waiting(d)
            BY <1>10, <2>1, UnitsAre DEF Inv
        <3>2. d # e /\ u.task = d.task
            BY <2>1, <3>1, EntUnit
        <3> QED BY <3>2, EntNew
    <2>3. u.task \in Tasks
        BY <2>1, TakenTasks DEF Inv, UnitInv
    <2> QED BY <1>9, <1>10, <2>1, <2>2, <2>3 DEF Inv, WedInv
<1>11. \A v \in Units' : \E u \in Units : u.task = v.task /\ u.first = v.first
    BY <1>6, <1>7
<1>12. \A t \in Tasks : (\A u \in Units : u.task # t) => fast_bypass'[t] = fast_bypass[t]
    BY <1>7, <1>9
<1> QED BY <1>1, <1>2, <1>10, <1>11, <1>12, WedStill
-----------------------------------------------------------------------------
(* A merge, in terms of the tasks.                                         *)
LEMMA MergeTasks ==
    ASSUME Inv, Merge
    PROVE  \E d \in Ents, f \in EntT, left \in Nat :
              /\ Ents' = (Ents \ {d}) \cup {f} /\ d.first = NoTask /\ d.kind = "full" /\ Beats(d) = 2
              /\ f.task = Task /\ f.first = d.task /\ f.kind = "full" /\ Beats(f) = 4 /\ f.age = 0
              /\ Units' = (Units \ {Waiting(d)}) \cup {Waiting(f)}
              /\ left = Beats(d) - d.ready /\ left = Rem(d.task)
              /\ IF RMW_CMD_MODE = 2
                 THEN /\ bypassed' = bypassed \cup
                             {[first |-> d.task, merged |-> Task, r1 |-> left, r2 |-> 2]}
                      /\ remaps' = remaps
                 ELSE /\ remaps' = IF left = 0 THEN remaps
                                   ELSE Append(remaps, [src |-> d.task, dst |-> Task, left |-> left])
                      /\ bypassed' = bypassed
              /\ write_map' = [write_map EXCEPT ![Task] = 4,
                                                ![d.task] = IF RMW_CMD_MODE = 1 THEN 0 ELSE @]
<1> DEFINE k == First(Partners(Cmd))
           e == Stripped(RmwQue[k])
           g == build_merged(e, Task, Cmd)
<1>1. PICK f \in EntT : f = g
    BY MergeIs
<1>2. /\ e \in Ents /\ e \in EntT /\ Ents' = (Ents \ {e}) \cup {f}
      /\ e.first = NoTask /\ Waits(e) /\ e.kind = "full" /\ Beats(e) = 2 /\ Beats(Cmd) = 2
      /\ f.task = Task /\ f.first = e.task /\ f.kind = "full" /\ Beats(f) = 4 /\ f.age = 0
    BY <1>1, MergeIs
<1> HIDE DEF g
<1>3. k \in 1 .. Len(RmwQue) /\ RmwQue[k] \in EntryT
    BY EntMerged DEF Inv
<1>4. /\ e.task = RmwQue[k].task /\ e.left = RmwQue[k].left /\ e.right = RmwQue[k].right
      /\ e.ready = RmwQue[k].ready
    BY <1>3, StrippedIs
<1>5. Beats(RmwQue[k]) = 2
    BY <1>2, <1>4 DEF Beats
<1> DEFINE l == 2 - e.ready
<1>6. l \in Nat /\ l = Rem(e.task)
    <2>1. e.ready + Left(e) = Beats(e)
        BY <1>2 DEF Inv, DataInv, EntOk, Read
    <2>2. Left(e) = Rem(e.task) + Rem(e.first) /\ Rem(e.first) = 0 /\ Rem(e.task) \in Nat /\ e.ready \in Nat
        BY <1>2, RemType, EntNumbers DEF Left, Inv
    <2> QED BY <1>2, <2>1, <2>2
<1>7. PICK left \in Nat : left = l
    BY <1>6
<1>8. left = Beats(RmwQue[k]) - RmwQue[k].ready /\ left = Beats(e) - e.ready /\ left = Rem(e.task)
    BY <1>2, <1>4, <1>5, <1>6, <1>7
<1>9. /\ IF RMW_CMD_MODE = 2
         THEN /\ bypassed' = bypassed \cup
                     {[first |-> e.task, merged |-> Task, r1 |-> left, r2 |-> 2]}
              /\ remaps' = remaps
         ELSE /\ remaps' = IF left = 0 THEN remaps
                           ELSE Append(remaps, [src |-> e.task, dst |-> Task, left |-> left])
              /\ bypassed' = bypassed
      /\ write_map' = [write_map EXCEPT ![Task] = 4, ![e.task] = IF RMW_CMD_MODE = 1 THEN 0 ELSE @]
    <2>1. /\ IF RMW_CMD_MODE = 2
             THEN /\ bypassed' = bypassed \cup
                         {[first |-> RmwQue[k].task, merged |-> Task,
                           r1 |-> Beats(RmwQue[k]) - RmwQue[k].ready, r2 |-> Beats(Cmd)]}
                  /\ remaps' = remaps
             ELSE /\ remaps' = IF Beats(RmwQue[k]) - RmwQue[k].ready = 0 THEN remaps
                               ELSE Append(remaps, [src |-> RmwQue[k].task, dst |-> Task,
                                                    left |-> Beats(RmwQue[k]) - RmwQue[k].ready])
                  /\ bypassed' = bypassed
          /\ write_map' = [write_map EXCEPT ![Task] = Beats(RmwQue[k]) + Beats(Cmd),
                                            ![RmwQue[k].task] = IF RMW_CMD_MODE = 1 THEN 0 ELSE @]
        BY DEF Merge
    <2>2. Beats(RmwQue[k]) + Beats(Cmd) = 4 /\ Beats(Cmd) = 2
        BY <1>2, <1>5
    <2>3. left = Beats(RmwQue[k]) - RmwQue[k].ready
        BY <1>8
    <2> HIDE DEF k, e, l
    <2> QED BY <1>4, <2>1, <2>2, <2>3
<1> HIDE DEF k, l
<1>10. PICK d \in Ents : d = e
    BY <1>2
<1> HIDE DEF e
<1>11. Served' = Served
    BY DEF Served, Merge
<1>12. Units' = (Units \ {Waiting(d)}) \cup {Waiting(f)}
    <2>1. {Waiting(c) : c \in Ents'} = ({Waiting(c) : c \in Ents} \ {Waiting(d)}) \cup {Waiting(f)}
        BY <1>2, <1>10, UnitsAre DEF Inv
    <2>2. \A y \in Served : Sent(y) # Waiting(d)
        BY UnitsAre DEF Inv
    <2>3. Units' = {Waiting(c) : c \in Ents'} \cup {Sent(y) : y \in Served}
        BY <1>11 DEF Units, Waiting, Sent
    <2> QED BY <2>1, <2>2, <2>3 DEF Units
<1>13. Ents' = (Ents \ {d}) \cup {f}
    BY <1>2, <1>10
<1>14. /\ d.first = NoTask /\ d.kind = "full" /\ Beats(d) = 2
       /\ f.task = Task /\ f.first = d.task /\ f.kind = "full" /\ Beats(f) = 4 /\ f.age = 0
       /\ left = Beats(d) - d.ready /\ left = Rem(d.task)
    BY <1>2, <1>8, <1>10
<1> QED BY <1>9, <1>10, <1>12, <1>13, <1>14

(* A merge makes one pair, of a task that had none.                        *)
LEMMA WedMerge ==
    ASSUME Inv, Merge
    PROVE  WedInv'
<1>1. Accept /\ UNCHANGED <<fast_bypass, config>>
    BY DEF Merge, Accept, Then
<1>2. Task \in Tasks /\ Task \notin Taken /\ Taken' = Taken \cup {Task} /\ Taken \subseteq Tasks
      /\ \A t : Rem(t)' = IF t = Task /\ ~Read(Cmd) THEN Beats(Cmd) ELSE Rem(t)
    BY <1>1, AcceptIs, TakenTasks DEF Inv
<1>3. \A t \in Taken : Rem(t)' = Rem(t)
    BY <1>2
<1>4. PICK d \in Ents, f \in EntT, left \in Nat :
              /\ f.task = Task /\ f.first = d.task
              /\ Units' = (Units \ {Waiting(d)}) \cup {Waiting(f)}
              /\ left = Rem(d.task)
              /\ IF RMW_CMD_MODE = 2
                 THEN /\ bypassed' = bypassed \cup
                             {[first |-> d.task, merged |-> Task, r1 |-> left, r2 |-> 2]}
                      /\ remaps' = remaps
                 ELSE /\ remaps' = IF left = 0 THEN remaps
                                   ELSE Append(remaps, [src |-> d.task, dst |-> Task, left |-> left])
                      /\ bypassed' = bypassed
    BY ZenonT(60), MergeTasks
<1>5. /\ Waiting(d) \in Units /\ Waiting(d).task = d.task /\ d.task \in Taken
      /\ Waiting(f).task = Task /\ Waiting(f).first = d.task /\ Waiting(d).at = "rmw"
    BY <1>4, EntUnit DEF Waiting
<1>6. \A v \in Units' : (\E u \in Units : u.task = v.task /\ u.first = v.first) \/ v.task \notin Taken
    BY <1>2, <1>4, <1>5
<1>7. fast_bypass[d.task] = 0 /\ fast_bypass[Task] = 0
    BY <1>2, <1>5, Fresh DEF Inv, WedInv
<1>8. \A v \in Units' : v.at = "rmw" => fast_bypass'[v.task] = 0
    BY <1>1, <1>4, <1>5, <1>7 DEF Inv, WedInv
<1>9. ASSUME NEW g, NEW m, Wed(g, m) PROVE Wed(g, m)'
    <2>1. fast_bypass'[g] = 0
        BY <1>1, <1>9 DEF Wed
    <2> QED BY <1>2, <1>6, <1>9, <2>1, WedKept
<1>10. PICK a : a = d.task
    OBVIOUS
<1>11. PICK m : m = Task
    OBVIOUS
<1>12. Wed(a, m)'
    <2>1. a \in Taken' /\ m \in Taken' /\ a # m /\ fast_bypass'[a] = 0
        BY <1>1, <1>2, <1>5, <1>7, <1>10, <1>11
    <2>2. \A u \in Units' : u.task # a
        <3> SUFFICES ASSUME NEW u \in Units', u.task = a PROVE FALSE
            OBVIOUS
        <3>1. u \in Units /\ u # Waiting(d)
            BY <1>2, <1>4, <1>5, <1>10
        <3>2. a # NoTask
            BY <1>5, <1>10, TakenTasks DEF Inv
        <3>3. a \in Names(u) /\ a \in Names(Waiting(d))
            BY <1>5, <1>10, <3>2 DEF Names
        <3> QED BY <1>5, <3>1, <3>3 DEF Inv, UnitInv
    <2>3. \A u \in Units' : u.task = m => u.first = a
        <3> SUFFICES ASSUME NEW u \in Units', u.task = Task PROVE u.first = a
            BY <1>11
        <3>1. u = Waiting(f)
            BY <1>2, <1>4 DEF Inv, UnitInv
        <3> QED BY <1>5, <1>10, <3>1
    <2> QED BY <2>1, <2>2, <2>3 DEF Wed
<1>13. \A t \in Tasks : t \notin Taken' => fast_bypass'[t] = 0
    BY <1>1, <1>2 DEF Inv, WedInv
<1>14. config' = config /\ RMW_CMD_MODE' = RMW_CMD_MODE
    BY <1>1 DEF RMW_CMD_MODE
<1>15. \A b \in bypassed : Wed(b.first, b.merged)'
    BY <1>9 DEF Inv, WedInv
<1>16. ASSUME NEW n \in 1 .. Len(remaps)
       PROVE  /\ Wed(remaps[n].src, remaps[n].dst) /\ remaps[n].src \in Taken
              /\ remaps[n].left <= Rem(remaps[n].src) /\ remaps[n].src # a
    <2>1. Wed(remaps[n].src, remaps[n].dst) /\ remaps[n].left <= Rem(remaps[n].src)
        BY DEF Inv, WedInv
    <2> QED BY <1>5, <1>10, <2>1 DEF Wed
<1>17. ASSUME NEW n \in 1 .. Len(remaps), NEW g, NEW h, g = remaps[n].src, h = remaps[n].dst
       PROVE  Wed(g, h)' /\ remaps[n].left <= Rem(g)'
    <2>1. Wed(g, h) /\ Rem(g)' = Rem(g) /\ remaps[n].left <= Rem(g)
        BY <1>3, <1>16, <1>17
    <2> QED BY <1>9, <2>1
<1>18. CASE remaps' = remaps
    <2>1. \A n \in 1 .. Len(remaps') : Wed(remaps[n].src, remaps[n].dst)' /\ remaps'[n].left <= Rem(remaps[n].src)'
        <3> SUFFICES ASSUME NEW n \in 1 .. Len(remaps)
                     PROVE  Wed(remaps[n].src, remaps[n].dst)' /\ remaps'[n].left <= Rem(remaps[n].src)'
            BY <1>18
        <3>1. PICK g, h : g = remaps[n].src /\ h = remaps[n].dst
            OBVIOUS
        <3>2. Wed(g, h)' /\ remaps[n].left <= Rem(g)'
            BY <1>17, <3>1
        <3>3. g = remaps'[n].src /\ h = remaps'[n].dst /\ remaps[n].left = remaps'[n].left
            BY <1>18, <3>1
        <3> QED BY <3>2, <3>3 DEF Wed, Rem
    <2>2. \A n, k \in 1 .. Len(remaps') : n # k => remaps'[n].src # remaps'[k].src
        BY <1>18 DEF Inv, WedInv
    <2>3. \A b \in bypassed' : Wed(b.first, b.merged)'
        <3>1. \A b \in bypassed' : b \in bypassed \/ (b.first = a /\ b.merged = m)
            BY <1>4, <1>10, <1>11
        <3> QED BY <1>12, <1>15, <3>1
    <2>4. (RMW_CMD_MODE' # 2 => bypassed' = {}) /\ (RMW_CMD_MODE' = 2 => remaps' = <<>>)
        BY <1>4, <1>14, <1>18 DEF Inv, WedInv
    <2> QED BY <1>8, <1>13, <2>1, <2>2, <2>3, <2>4 DEF WedInv
<1>19. CASE RMW_CMD_MODE # 2 /\ left # 0
    <2> DEFINE r == [src |-> d.task, dst |-> Task, left |-> left]
    <2>1. remaps' = Append(remaps, r) /\ bypassed' = bypassed
        BY <1>4, <1>19
    <2>2. r.src = a /\ r.dst = m /\ r.left = left
        BY <1>10, <1>11
    <2> HIDE DEF r
    <2>3. remaps \in Seq(RemapT)
        BY DEF Inv, TypeInv
    <2>4. /\ Len(remaps') = Len(remaps) + 1 /\ remaps'[Len(remaps) + 1] = r
          /\ \A n \in 1 .. Len(remaps) : remaps'[n] = remaps[n]
          /\ Len(remaps) \in Nat
        BY <2>1, <2>3
    <2>5. left <= Rem(a)'
        BY <1>3, <1>4, <1>5, <1>10, RemType DEF Inv
    <2>6. \A n \in 1 .. Len(remaps') : Wed(remaps[n].src, remaps[n].dst)' /\ remaps'[n].left <= Rem(remaps[n].src)'
        <3> SUFFICES ASSUME NEW n \in 1 .. Len(remaps')
                     PROVE  Wed(remaps[n].src, remaps[n].dst)' /\ remaps'[n].left <= Rem(remaps[n].src)'
            OBVIOUS
        <3>1. PICK g, h : g = remaps'[n].src /\ h = remaps'[n].dst
            OBVIOUS
        <3>2. Wed(g, h)' /\ remaps'[n].left <= Rem(g)'
            <4>1. CASE n = Len(remaps) + 1
                BY <1>12, <2>2, <2>4, <2>5, <3>1, <4>1
            <4>2. CASE n \in 1 .. Len(remaps)
                BY <1>17, <2>4, <3>1, <4>2
            <4> QED BY <2>4, <4>1, <4>2
        <3> QED BY <3>1, <3>2 DEF Wed, Rem
    <2>7. \A n, k \in 1 .. Len(remaps') : n # k => remaps'[n].src # remaps'[k].src
        <3> SUFFICES ASSUME NEW n \in 1 .. Len(remaps'), NEW k \in 1 .. Len(remaps'), n # k
                     PROVE  remaps'[n].src # remaps'[k].src
            OBVIOUS
        <3>1. CASE n = Len(remaps) + 1
            BY <1>16, <2>2, <2>4, <3>1
        <3>2. CASE k = Len(remaps) + 1
            BY <1>16, <2>2, <2>4, <3>2
        <3>3. CASE n \in 1 .. Len(remaps) /\ k \in 1 .. Len(remaps)
            BY <2>4, <3>3 DEF Inv, WedInv
        <3> QED BY <2>4, <3>1, <3>2, <3>3
    <2>8. \A b \in bypassed' : Wed(b.first, b.merged)'
        BY <1>15, <2>1
    <2>9. (RMW_CMD_MODE' # 2 => bypassed' = {}) /\ (RMW_CMD_MODE' = 2 => remaps' = <<>>)
        BY <1>14, <1>19, <2>1 DEF Inv, WedInv
    <2> QED BY <1>8, <1>13, <2>6, <2>7, <2>8, <2>9 DEF WedInv
<1> QED BY <1>4, <1>18, <1>19
-----------------------------------------------------------------------------
(* A remapped beat counts down the remap of its task, or ends it.          *)
LEMMA RemapStep ==
    ASSUME Inv, BeatRemapped
    PROVE  /\ remaps' \in Seq(RemapT) /\ bypassed' = bypassed /\ fast_bypass' = fast_bypass
           /\ \A n \in 1 .. Len(remaps') : \E k \in 1 .. Len(remaps) :
                 /\ remaps'[n].src = remaps[k].src /\ remaps'[n].dst = remaps[k].dst
                 /\ \/ remaps[k].src = Head(write_task) /\ remaps'[n].left = remaps[k].left - 1
                    \/ remaps[k].src # Head(write_task) /\ remaps'[n].left = remaps[k].left
           /\ \A n, k \in 1 .. Len(remaps') : n # k => remaps'[n].src # remaps'[k].src
           /\ RMW_CMD_MODE # 2
<1> DEFINE t == Head(write_task)
           p == First(RemapsOf(t))
<1>1. RemapsOf(t) # {} /\ bypassed' = bypassed /\ fast_bypass' = fast_bypass
    BY DEF BeatRemapped, Beat, Route
<1>2. p \in 1 .. Len(remaps) /\ remaps[p].src = t /\ remaps[p] \in RemapT /\ RMW_CMD_MODE # 2
    BY <1>1, RemapIs
<1>3. remaps' = IF remaps[p].left = 1 THEN EraseAt(remaps, p) ELSE [remaps EXCEPT ![p].left = @ - 1]
    BY DEF BeatRemapped
<1> HIDE DEF p, t
<1>4. remaps \in Seq(RemapT) /\ Len(remaps) \in Nat /\ DOMAIN remaps = 1 .. Len(remaps)
      /\ \A i \in 1 .. Len(remaps) : remaps[i] \in RemapT
    BY ElementOfSeq DEF Inv, TypeInv
<1>5. \A n, k \in 1 .. Len(remaps) : n # k => remaps[n].src # remaps[k].src
    BY DEF Inv, WedInv
<1>6. CASE remaps[p].left = 1
    <2>1. remaps' = EraseAt(remaps, p)
        BY <1>3, <1>6
    <2>2. /\ remaps' \in Seq(RemapT) /\ Len(remaps') = Len(remaps) - 1
          /\ \A i \in 1 .. Len(remaps) - 1 : remaps'[i] = remaps[IF i < p THEN i ELSE i + 1]
        BY Zenon, <1>2, <1>4, <2>1, Erased
    <2>3. ASSUME NEW n \in 1 .. Len(remaps')
          PROVE  \E k \in 1 .. Len(remaps) :
                 /\ remaps'[n].src = remaps[k].src /\ remaps'[n].dst = remaps[k].dst
                 /\ \/ remaps[k].src = t /\ remaps'[n].left = remaps[k].left - 1
                    \/ remaps[k].src # t /\ remaps'[n].left = remaps[k].left
        <3>1. PICK k \in 1 .. Len(remaps) : k = (IF n < p THEN n ELSE n + 1)
            BY <1>2, <1>4, <2>2
        <3>2. remaps'[n] = remaps[k] /\ k # p
            BY <1>2, <1>4, <2>2, <3>1
        <3>3. remaps[k].src # t
            BY <1>2, <1>5, <3>2
        <3> QED BY <3>2, <3>3
    <2>4. ASSUME NEW n \in 1 .. Len(remaps'), NEW k \in 1 .. Len(remaps'), n # k
          PROVE  remaps'[n].src # remaps'[k].src
        <3>1. PICK i \in 1 .. Len(remaps), j \in 1 .. Len(remaps) :
                  i = (IF n < p THEN n ELSE n + 1) /\ j = (IF k < p THEN k ELSE k + 1)
            BY <1>2, <1>4, <2>2
        <3>2. i # j
            <4>1. n \in Nat /\ k \in Nat /\ p \in Nat /\ n # k
                BY <1>2, <1>4, <2>2, <2>4
            <4> QED BY <3>1, <4>1
        <3>3. remaps'[n] = remaps[i] /\ remaps'[k] = remaps[j]
            BY <1>4, <2>2, <3>1
        <3> QED BY <1>5, <3>2, <3>3
    <2> QED BY Zenon, <1>1, <1>2, <2>2, <2>3, <2>4 DEF t
<1>7. CASE remaps[p].left # 1
    <2> DEFINE l == remaps[p].left - 1
               r == [remaps[p] EXCEPT !.left = l]
    <2>1. l \in Nat \ {0} /\ l = remaps[p].left - 1
        BY <1>2, <1>7 DEF RemapT
    <2>2. remaps' = [remaps EXCEPT ![p] = r]
        BY <1>3, <1>4, <1>7
    <2> HIDE DEF l
    <2>3. r \in RemapT /\ r.src = remaps[p].src /\ r.dst = remaps[p].dst /\ r.left = l
        BY <1>2, <2>1 DEF RemapT
    <2> HIDE DEF r
    <2>4. /\ remaps' \in Seq(RemapT) /\ Len(remaps') = Len(remaps)
          /\ \A i \in 1 .. Len(remaps) : remaps'[i] = IF i = p THEN r ELSE remaps[i]
        BY <1>2, <1>4, <2>2, <2>3, ExceptSeq
    <2>5. \A n \in 1 .. Len(remaps) :
             /\ remaps'[n].src = remaps[n].src /\ remaps'[n].dst = remaps[n].dst
             /\ \/ remaps[n].src = t /\ remaps'[n].left = remaps[n].left - 1
                \/ remaps[n].src # t /\ remaps'[n].left = remaps[n].left
        BY <1>2, <1>5, <2>1, <2>3, <2>4
    <2>6. \A n, k \in 1 .. Len(remaps') : n # k => remaps'[n].src # remaps'[k].src
        BY <1>5, <2>4, <2>5
    <2> QED BY <1>1, <1>2, <2>4, <2>5, <2>6 DEF t
<1> QED BY <1>6, <1>7

(* What a beat does to those who are remapped.                             *)
LEMMA WedBeatIs ==
    ASSUME Inv, ABeat, ~BeatRemapped
    PROVE  /\ remaps' = remaps
           /\ \A n \in 1 .. Len(remaps) : remaps[n].src # Head(write_task)
           /\ \A c \in bypassed' : \E b \in bypassed : c.first = b.first /\ c.merged = b.merged
           /\ fast_bypass' = fast_bypass
              \/ (BeatFast /\ fast_bypass[Head(write_task)] > 0
                  /\ fast_bypass' = [fast_bypass EXCEPT ![Head(write_task)] = @ - 1])
<1> DEFINE t == Head(write_task)
<1>1. \A n \in 1 .. Len(remaps) : Wed(remaps[n].src, remaps[n].dst)
    BY DEF Inv, WedInv
<1>2. remaps' = remaps
    BY DEF ABeat, BeatToMerged, BeatFast, BeatQueued, BeatPassed, mergeVars
<1>3. write_task # <<>> /\ t \in Tasks /\ t # NoTask
    <2>1. write_task # <<>> /\ write_task' = Tail(write_task)
        BY BeatIs
    <2> QED BY <2>1, HeadSent, TaskIs DEF Inv
<1>4. CASE BeatToMerged
    <2>1. PICK b \in BypassedOf(t) :
              LET c == IF t = b.first THEN [b EXCEPT !.r1 = @ - 1] ELSE [b EXCEPT !.r2 = @ - 1]
              IN  bypassed' = (bypassed \ {b}) \cup (IF c.r1 = 0 /\ c.r2 = 0 THEN {} ELSE {c})
        BY <1>4 DEF BeatToMerged
    <2>2. b \in bypassed /\ b \in MergedT
        BY <2>1 DEF BypassedOf, Inv, TypeInv
    <2>3. PICK c : /\ c = IF t = b.first THEN [b EXCEPT !.r1 = @ - 1] ELSE [b EXCEPT !.r2 = @ - 1]
                   /\ bypassed' \subseteq bypassed \cup {c}
        BY <2>1
    <2>4. c.first = b.first /\ c.merged = b.merged
        BY <2>2, <2>3 DEF MergedT
    <2>5. fast_bypass' = fast_bypass
        BY <1>4 DEF BeatToMerged
    <2>6. remaps = <<>>
        BY <2>2 DEF Inv, WedInv
    <2>7. \A n \in 1 .. Len(remaps) : remaps[n].src # t
        BY <2>6
    <2>8. \A d \in bypassed' : \E a \in bypassed : d.first = a.first /\ d.merged = a.merged
        BY <2>2, <2>3, <2>4
    <2> QED BY <1>2, <2>5, <2>7, <2>8
<1>5. CASE BeatFast
    <2>1. fast_bypass[t] > 0 /\ bypassed' = bypassed /\ fast_bypass' = [fast_bypass EXCEPT ![t] = @ - 1]
        BY <1>5 DEF BeatFast, Beat, Route
    <2>2. \A n \in 1 .. Len(remaps) : remaps[n].src # t
        BY <1>1, <2>1 DEF Wed
    <2> QED BY <1>2, <1>5, <2>1, <2>2
<1>6. CASE BeatQueued \/ BeatPassed
    <2>1. bypassed' = bypassed /\ fast_bypass' = fast_bypass
        BY <1>6 DEF BeatQueued, BeatPassed, mergeVars
    <2>2. \E u \in Units : u.task = t
        <3>1. CASE BeatQueued
            <4>1. Lacking(t) # {}
                BY <3>1 DEF BeatQueued, Beat, Route
            <4>2. RmwQue' = ready_beat(First(Lacking(t)))
                BY <3>1 DEF BeatQueued
            <4>3. PICK e \in Ents : e.task = t
                BY <4>1, <4>2, EntFilled DEF Inv
            <4> QED BY <4>3, EntUnit
        <3>2. CASE BeatPassed
            <4>1. submitData(t)
                BY <3>2 DEF BeatPassed
            <4>2. PICK x \in Writes : x.task = t
                BY <4>1, SubmitIs
            <4> QED BY <4>2, WriteUnit
        <3> QED BY <1>6, <3>1, <3>2
    <2>3. \A n \in 1 .. Len(remaps) : remaps[n].src # t
        BY <1>1, <2>2 DEF Wed
    <2> QED BY <1>2, <2>1, <2>3
<1> QED BY <1>4, <1>5, <1>6 DEF ABeat

(* A beat that is remapped is one beat less to remap.                      *)
LEMMA WedBeat ==
    ASSUME Inv, ABeat, ~UNPAIRED_TO_RMW_EN
    PROVE  WedInv'
<1>1. Units' = Units /\ UNCHANGED <<accepted, config>> /\ InPlace
    BY InPlaceSame DEF Inv, InPlace, ABeat
<1>2. Taken' = Taken /\ Taken \subseteq Tasks /\ RMW_CMD_MODE' = RMW_CMD_MODE
    BY <1>1, TakenTasks DEF Taken, RMW_CMD_MODE, Inv
<1>3. write_task # <<>> /\ write_task' = Tail(write_task)
    BY BeatIs
<1>4. /\ \A d : Rem(d) = Rem(d)' + (IF d = Head(write_task) THEN 1 ELSE 0)
      /\ \A d : Rem(d)' \in Nat
    BY <1>3, HeadSent DEF Inv
<1>5. fast_bypass \in [Tasks -> Nat]
    BY DEF Inv, TypeInv
<1>6. \A d \in Tasks : fast_bypass[d] = 0 => fast_bypass'[d] = 0
    <2>1. CASE BeatRemapped
        BY <2>1, RemapStep
    <2>2. CASE ~BeatRemapped
        BY <1>5, <2>2, WedBeatIs
    <2> QED BY <2>1, <2>2
<1>7. ASSUME NEW f, NEW m, Wed(f, m) PROVE Wed(f, m)'
    <2>1. fast_bypass'[f] = 0
        BY <1>2, <1>6, <1>7 DEF Wed
    <2> QED BY <1>1, <1>2, <1>7, <2>1, WedKept
<1>8. \A t \in Tasks : t \notin Taken' => fast_bypass'[t] = 0
    BY <1>2, <1>6 DEF Inv, WedInv
<1>9. \A u \in Units' : u.at = "rmw" => fast_bypass'[u.task] = 0
    <2>1. \A u \in Units : u.task \in Tasks
        BY <1>2 DEF Inv, UnitInv
    <2> QED BY <1>1, <1>6, <2>1 DEF Inv, WedInv
<1>10. CASE BeatRemapped
    <2>1. ASSUME NEW n \in 1 .. Len(remaps')
          PROVE  Wed(remaps[n].src, remaps[n].dst)' /\ remaps'[n].left <= Rem(remaps[n].src)'
        <3>1. PICK k \in 1 .. Len(remaps) :
                 /\ remaps'[n].src = remaps[k].src /\ remaps'[n].dst = remaps[k].dst
                 /\ \/ remaps[k].src = Head(write_task) /\ remaps'[n].left = remaps[k].left - 1
                    \/ remaps[k].src # Head(write_task) /\ remaps'[n].left = remaps[k].left
            BY <1>10, RemapStep
        <3>2. PICK g, h : g = remaps[k].src /\ h = remaps[k].dst
            OBVIOUS
        <3>3. Wed(g, h) /\ remaps[k].left <= Rem(g) /\ remaps[k].left \in Nat
            <4>1. Wed(g, h) /\ remaps[k].left <= Rem(g)
                BY <3>2 DEF Inv, WedInv
            <4>2. remaps[k] \in RemapT
                BY ElementOfSeq DEF Inv, TypeInv
            <4>3. remaps[k].left \in Nat
                BY <4>2 DEF RemapT
            <4> QED BY <4>1, <4>3
        <3>4. Wed(g, h)'
            BY <1>7, <3>3
        <3>5. Rem(g) = Rem(g)' + (IF g = Head(write_task) THEN 1 ELSE 0) /\ Rem(g)' \in Nat
            BY <1>4
        <3>6. remaps'[n].left <= Rem(g)'
            BY <3>1, <3>2, <3>3, <3>5
        <3>7. remaps'[n].src = g /\ remaps'[n].dst = h
            BY <3>1, <3>2
        <3> QED BY <3>4, <3>6, <3>7 DEF Wed, Rem
    <2>2. \A b \in bypassed' : Wed(b.first, b.merged)'
        BY <1>7, <1>10, RemapStep DEF Inv, WedInv
    <2>3. \A n, k \in 1 .. Len(remaps') : n # k => remaps'[n].src # remaps'[k].src
        BY <1>10, RemapStep
    <2>4. (RMW_CMD_MODE' # 2 => bypassed' = {}) /\ (RMW_CMD_MODE' = 2 => remaps' = <<>>)
        BY <1>2, <1>10, RemapStep DEF Inv, WedInv
    <2> QED BY <1>8, <1>9, <2>1, <2>2, <2>3, <2>4 DEF WedInv
<1>11. CASE ~BeatRemapped
    <2>1. /\ remaps' = remaps
          /\ \A n \in 1 .. Len(remaps) : remaps[n].src # Head(write_task)
          /\ \A c \in bypassed' : \E b \in bypassed : c.first = b.first /\ c.merged = b.merged
        BY <1>11, WedBeatIs
    <2>2. ASSUME NEW n \in 1 .. Len(remaps')
          PROVE  Wed(remaps[n].src, remaps[n].dst)' /\ remaps'[n].left <= Rem(remaps[n].src)'
        <3>1. PICK g, h : g = remaps[n].src /\ h = remaps[n].dst
            OBVIOUS
        <3>2. Wed(g, h) /\ remaps[n].left <= Rem(g) /\ g # Head(write_task)
            BY <2>1, <3>1 DEF Inv, WedInv
        <3>3. Wed(g, h)' /\ Rem(g) = Rem(g)' + 0 /\ Rem(g)' \in Nat
            BY <1>4, <1>7, <3>2
        <3>4. remaps'[n].left <= Rem(g)' /\ remaps'[n].src = g /\ remaps'[n].dst = h
            BY <2>1, <3>1, <3>2, <3>3
        <3> QED BY <3>3, <3>4 DEF Wed, Rem
    <2>3. \A c \in bypassed' : Wed(c.first, c.merged)'
        <3> SUFFICES ASSUME NEW c \in bypassed' PROVE Wed(c.first, c.merged)'
            OBVIOUS
        <3>1. PICK b \in bypassed : c.first = b.first /\ c.merged = b.merged
            BY <2>1
        <3>2. Wed(b.first, b.merged)'
            BY <1>7 DEF Inv, WedInv
        <3> QED BY <3>1, <3>2
    <2>4. \A n, k \in 1 .. Len(remaps') : n # k => remaps'[n].src # remaps'[k].src
        BY <2>1 DEF Inv, WedInv
    <2>5. bypassed' = {} \/ bypassed # {}
        BY <2>1
    <2>6. (RMW_CMD_MODE' # 2 => bypassed' = {}) /\ (RMW_CMD_MODE' = 2 => remaps' = <<>>)
        BY <1>2, <2>1, <2>5 DEF Inv, WedInv
    <2> QED BY <1>8, <1>9, <2>2, <2>3, <2>4, <2>6 DEF WedInv
<1> QED BY <1>10, <1>11

(* Every step keeps the pairs.                                             *)
LEMMA WedStep ==
    ASSUME Inv, [Next]_vars, ~UNPAIRED_TO_RMW_EN
    PROVE  WedInv'
<1>1. CASE InPlace
    BY <1>1, WedInPlace, WedBeat
<1> QED BY <1>1, NextIs, WedAccept, WedMerge, WedRead, WedWrite, WedFinish
-----------------------------------------------------------------------------
(***************************************************************************)
(* Two orders in step: one lists, in the same order, some of the entries   *)
(* of the other.                                                           *)
(***************************************************************************)
Follows(o, m) ==
    /\ \A i \in 1 .. Len(o) : \E k \in 1 .. Len(m) : m[k] = o[i]
    /\ \A i, j \in 1 .. Len(o), k, l \in 1 .. Len(m) :
          i < j /\ m[k].task = o[i].task /\ m[l].task = o[j].task => k < l

(* What follows an order without repetition has none.                      *)
LEMMA FollowsOnce ==
    ASSUME NEW o \in Seq(OrdT), NEW m \in Seq(OrdT), Once(m), Follows(o, m)
    PROVE  /\ Once(o) /\ \A t : In(o, t) => In(m, t)
           /\ m # <<>> /\ In(o, m[1].task) => o # <<>> /\ o[1] = m[1]
<1>1. Len(o) \in Nat /\ Len(m) \in Nat
    OBVIOUS
<1>2. ASSUME NEW i \in 1 .. Len(o), NEW j \in 1 .. Len(o), i < j PROVE o[i].task # o[j].task
    <2>1. PICK k \in 1 .. Len(m) : m[k] = o[i]
        BY DEF Follows
    <2>2. ASSUME o[i].task = o[j].task PROVE FALSE
        <3>1. m[k].task = o[i].task /\ m[k].task = o[j].task
            BY <2>1, <2>2
        <3>2. k < k
            BY <1>2, <3>1 DEF Follows
        <3> QED BY <1>1, <3>2
    <2> QED BY <2>2
<1>3. Once(o)
    <2>1. ASSUME NEW i \in 1 .. Len(o), NEW j \in 1 .. Len(o), i # j PROVE i < j \/ j < i
        BY <1>1, <2>1
    <2> QED BY <1>2, <2>1 DEF Once
<1>4. \A t : In(o, t) => In(m, t)
    BY DEF Follows, In
<1>5. ASSUME m # <<>>, In(o, m[1].task) PROVE o # <<>> /\ o[1] = m[1]
    <2>1. PICK i \in 1 .. Len(o) : o[i].task = m[1].task
        BY <1>5 DEF In
    <2>2. 1 \in 1 .. Len(m) /\ 1 \in 1 .. Len(o) /\ o # <<>>
        BY <1>1, <1>5, <2>1, EmptySeq
    <2>3. PICK k \in 1 .. Len(m) : m[k] = o[1]
        BY <2>2 DEF Follows
    <2>4. i = 1
        <3>1. ASSUME 1 < i PROVE FALSE
            <4>1. k < 1
                BY <2>1, <2>2, <2>3, <3>1 DEF Follows
            <4> QED BY <1>1, <4>1
        <3> QED BY <1>1, <3>1
    <2>5. k = 1
        BY <2>1, <2>2, <2>3, <2>4 DEF Once
    <2> QED BY <2>2, <2>3, <2>5
<1> QED BY <1>3, <1>4, <1>5

(* A beat taken moves every place by one, or none.                         *)
LEMMA TookShift ==
    ASSUME NEW o \in Seq(OrdT), Once(o), o # <<>>
    PROVE  \E d \in {0, 1} :
              /\ d = 1 <=> o[1].beats = 1
              /\ Len(Took(o)) = Len(o) - d /\ Took(o) \in Seq(OrdT) /\ Len(o) \in Nat \ {0}
              /\ \A k \in 1 .. Len(Took(o)) : /\ Took(o)[k].task = o[k + d].task
                                              /\ k + d # 1 => Took(o)[k] = o[k + d]
              /\ d = 0 => Took(o)[1].beats = o[1].beats - 1
<1>1. /\ Took(o) \in Seq(OrdT) /\ Len(o) \in Nat \ {0}
      /\ Len(Took(o)) = IF o[1].beats = 1 THEN Len(o) - 1 ELSE Len(o)
      /\ o[1].beats = 1 => \A i \in 1 .. Len(o) - 1 : Took(o)[i] = o[i + 1]
      /\ o[1].beats # 1 => /\ Took(o)[1].task = o[1].task /\ Took(o)[1].beats = o[1].beats - 1
                           /\ \A i \in 2 .. Len(o) : Took(o)[i] = o[i]
    BY TookIs
<1>2. CASE o[1].beats = 1
    <2>1. /\ Len(Took(o)) = Len(o) - 1
          /\ \A k \in 1 .. Len(Took(o)) : Took(o)[k] = o[k + 1]
        BY <1>1, <1>2
    <2> QED BY <1>1, <1>2, <2>1
<1>3. CASE o[1].beats # 1
    <2>1. Len(Took(o)) = Len(o) - 0
        BY <1>1, <1>3
    <2>2. ASSUME NEW k \in 1 .. Len(Took(o))
          PROVE  /\ Took(o)[k].task = o[k + 0].task /\ (k + 0 # 1 => Took(o)[k] = o[k + 0])
        <3>1. k + 0 = k /\ k \in 1 .. Len(o)
            BY <1>1, <2>1
        <3>2. CASE k = 1
            BY <1>1, <1>3, <3>1, <3>2
        <3>3. CASE k # 1
            <4>1. k \in 2 .. Len(o)
                BY <1>1, <3>1, <3>3
            <4> QED BY <1>1, <1>3, <3>1, <4>1
        <3> QED BY <3>2, <3>3
    <2> QED BY <1>1, <1>3, <2>1, <2>2
<1> QED BY <1>2, <1>3

(* The first of an order takes a beat that the other does not list.        *)
LEMMA OneTook ==
    ASSUME NEW o \in Seq(OrdT), NEW m \in Seq(OrdT), Once(m), Follows(o, m), m # <<>>,
           ~In(o, m[1].task)
    PROVE  Follows(o, Took(m)) /\ \A t : In(Took(m), t) => In(m, t)
<1>1. PICK d \in {0, 1} :
          /\ Len(Took(m)) = Len(m) - d /\ Len(m) \in Nat \ {0}
          /\ \A k \in 1 .. Len(Took(m)) : /\ Took(m)[k].task = m[k + d].task
                                          /\ k + d # 1 => Took(m)[k] = m[k + d]
    BY TookShift
<1>2. Len(o) \in Nat /\ \A k \in 1 .. Len(Took(m)) : k + d \in 1 .. Len(m)
    BY <1>1
<1>3. ASSUME NEW i \in 1 .. Len(o) PROVE \E k \in 1 .. Len(Took(m)) : Took(m)[k] = o[i]
    <2>1. PICK l \in 1 .. Len(m) : m[l] = o[i]
        BY DEF Follows
    <2>2. l # 1
        BY <2>1 DEF In
    <2>3. PICK k \in 1 .. Len(Took(m)) : k + d = l
        <3>1. l - d \in 1 .. Len(Took(m)) /\ (l - d) + d = l
            BY <1>1, <2>2
        <3> QED BY <3>1
    <2>4. Took(m)[k] = m[l]
        BY <1>1, <2>2, <2>3
    <2> QED BY <2>1, <2>4
<1>4. ASSUME NEW i \in 1 .. Len(o), NEW j \in 1 .. Len(o),
             NEW k \in 1 .. Len(Took(m)), NEW l \in 1 .. Len(Took(m)),
             i < j, Took(m)[k].task = o[i].task, Took(m)[l].task = o[j].task
      PROVE  k < l
    <2>1. m[k + d].task = o[i].task /\ m[l + d].task = o[j].task
        BY <1>1, <1>4
    <2>2. k + d < l + d
        BY <1>2, <1>4, <2>1 DEF Follows
    <2> QED BY <1>1, <2>2
<1>5. \A t : In(Took(m), t) => In(m, t)
    BY <1>1, <1>2 DEF In
<1> QED BY <1>3, <1>4, <1>5 DEF Follows

(* Both take a beat of the first.                                          *)
LEMMA BothTook ==
    ASSUME NEW o \in Seq(OrdT), NEW m \in Seq(OrdT), Once(m), Follows(o, m), m # <<>>,
           In(o, m[1].task)
    PROVE  /\ o # <<>> /\ o[1] = m[1] /\ Took(o) \in Seq(OrdT)
           /\ Follows(Took(o), Took(m))
           /\ \A t : In(Took(o), t) => In(o, t)
           /\ \A t : In(Took(m), t) /\ ~In(Took(o), t) => In(m, t) /\ ~In(o, t)
<1>1. Once(o) /\ o # <<>> /\ o[1] = m[1]
    BY FollowsOnce
<1>2. PICK d \in {0, 1} :
          /\ d = 1 <=> m[1].beats = 1
          /\ Len(Took(m)) = Len(m) - d /\ Took(m) \in Seq(OrdT) /\ Len(m) \in Nat \ {0}
          /\ \A k \in 1 .. Len(Took(m)) : /\ Took(m)[k].task = m[k + d].task
                                          /\ k + d # 1 => Took(m)[k] = m[k + d]
          /\ d = 0 => Took(m)[1].beats = m[1].beats - 1
    BY TookShift
<1>3. PICK e \in {0, 1} :
          /\ e = 1 <=> o[1].beats = 1
          /\ Len(Took(o)) = Len(o) - e /\ Took(o) \in Seq(OrdT) /\ Len(o) \in Nat \ {0}
          /\ \A k \in 1 .. Len(Took(o)) : /\ Took(o)[k].task = o[k + e].task
                                          /\ k + e # 1 => Took(o)[k] = o[k + e]
          /\ e = 0 => Took(o)[1].beats = o[1].beats - 1
    BY <1>1, TookShift
<1>4. e = d
    BY <1>1, <1>2, <1>3
<1>5. /\ \A k \in 1 .. Len(Took(m)) : k + d \in 1 .. Len(m)
      /\ \A k \in 1 .. Len(Took(o)) : k + d \in 1 .. Len(o)
      /\ 1 \in 1 .. Len(o) /\ 1 \in 1 .. Len(m)
    BY <1>2, <1>3, <1>4
<1>6. ASSUME NEW i \in 1 .. Len(Took(o)) PROVE \E k \in 1 .. Len(Took(m)) : Took(m)[k] = Took(o)[i]
    <2>1. CASE i + d # 1
        <3>1. PICK l \in 1 .. Len(m) : m[l] = o[i + d]
            BY <1>5 DEF Follows
        <3>2. o[i + d].task # o[1].task
            BY <1>1, <1>5, <2>1 DEF Once
        <3>3. l # 1
            BY <1>1, <3>1, <3>2
        <3>4. PICK k \in 1 .. Len(Took(m)) : k + d = l
            <4>1. l - d \in 1 .. Len(Took(m)) /\ (l - d) + d = l
                BY <1>2, <3>3
            <4> QED BY <4>1
        <3>5. Took(m)[k] = m[l] /\ Took(o)[i] = o[i + d]
            BY <1>2, <1>3, <1>4, <2>1, <3>3, <3>4
        <3> QED BY <3>1, <3>5
    <2>2. CASE i + d = 1
        <3>1. i = 1 /\ d = 0 /\ 1 \in 1 .. Len(Took(m))
            BY <1>2, <1>3, <2>2
        <3>2. /\ Took(m)[1].task = m[1].task /\ Took(m)[1].beats = m[1].beats - 1
              /\ Took(o)[1].task = o[1].task /\ Took(o)[1].beats = o[1].beats - 1
            <4>1. 1 + 0 = 1 /\ 1 \in 1 .. Len(Took(o))
                BY <3>1
            <4> QED BY <1>2, <1>3, <1>4, <3>1, <4>1
        <3>3. Took(m)[1] \in OrdT /\ Took(o)[1] \in OrdT
            BY <1>2, <1>3, <3>1, ElementOfSeq
        <3>4. Took(m)[1].task = Took(o)[1].task /\ Took(m)[1].beats = Took(o)[1].beats
            BY <1>1, <3>2
        <3>5. Took(m)[1] = Took(o)[1]
            <4>1. \A a, b \in OrdT : a.task = b.task /\ a.beats = b.beats => a = b
                BY DEF OrdT
            <4> QED BY <3>3, <3>4, <4>1
        <3> QED BY <3>1, <3>5
    <2> QED BY <2>1, <2>2
<1>7. ASSUME NEW i \in 1 .. Len(Took(o)), NEW j \in 1 .. Len(Took(o)),
             NEW k \in 1 .. Len(Took(m)), NEW l \in 1 .. Len(Took(m)),
             i < j, Took(m)[k].task = Took(o)[i].task, Took(m)[l].task = Took(o)[j].task
      PROVE  k < l
    <2>1. m[k + d].task = o[i + d].task /\ m[l + d].task = o[j + d].task
        BY <1>2, <1>3, <1>4, <1>7
    <2>2. i + d < j + d
        BY <1>3, <1>7
    <2>3. k + d < l + d
        BY <1>5, <2>1, <2>2 DEF Follows
    <2> QED BY <1>2, <2>3
<1>8. \A t : In(Took(o), t) => In(o, t)
    BY <1>3, <1>4, <1>5 DEF In
<1>9. ASSUME NEW t, In(Took(m), t), ~In(Took(o), t) PROVE In(m, t) /\ ~In(o, t)
    <2>1. PICK k \in 1 .. Len(Took(m)) : Took(m)[k].task = t
        BY <1>9 DEF In
    <2>2. m[k + d].task = t /\ k + d \in 1 .. Len(m)
        BY <1>2, <1>5, <2>1
    <2>3. ASSUME NEW i \in 1 .. Len(o), o[i].task = t PROVE FALSE
        <3>1. CASE i > d
            <4>1. i - d \in 1 .. Len(Took(o)) /\ (i - d) + d = i
                BY <1>3, <1>4, <3>1
            <4>2. Took(o)[i - d].task = t
                BY <1>3, <1>4, <2>3, <4>1
            <4> QED BY <1>9, <4>1, <4>2 DEF In
        <3>2. CASE ~(i > d)
            <4>1. i = 1 /\ d = 1
                BY <1>3, <3>2
            <4>2. m[1].task = t
                BY <1>1, <2>3, <4>1
            <4>3. k + d # 1
                BY <1>2, <4>1
            <4> QED BY <1>5, <2>2, <4>2, <4>3 DEF Once
        <3> QED BY <3>1, <3>2
    <2> QED BY <2>2, <2>3 DEF In
<1> QED BY <1>1, <1>3, <1>6, <1>7, <1>8, <1>9 DEF Follows

(* A write enters the one order, or both.                                  *)
LEMMA FollowsAppend ==
    ASSUME NEW o \in Seq(OrdT), NEW m \in Seq(OrdT), Follows(o, m), NEW w \in OrdT, ~In(m, w.task)
    PROVE  /\ Follows(o, Append(m, w)) /\ Follows(Append(o, w), Append(m, w))
           /\ \A t : In(Append(m, w), t) <=> In(m, t) \/ t = w.task
           /\ \A t : In(Append(o, w), t) <=> In(o, t) \/ t = w.task
<1> DEFINE p == Append(o, w)
           r == Append(m, w)
<1>1. /\ Len(o) \in Nat /\ Len(m) \in Nat /\ Len(p) = Len(o) + 1 /\ Len(r) = Len(m) + 1
      /\ \A i \in 1 .. Len(o) : p[i] = o[i]
      /\ \A i \in 1 .. Len(m) : r[i] = m[i]
      /\ p[Len(o) + 1] = w /\ r[Len(m) + 1] = w
    BY AppendProperties
<1> HIDE DEF p, r
<1>2. /\ \A i \in 1 .. Len(p) : i \in 1 .. Len(o) \/ i = Len(o) + 1
      /\ \A i \in 1 .. Len(r) : i \in 1 .. Len(m) \/ i = Len(m) + 1
      /\ \A i \in 1 .. Len(o) : i \in 1 .. Len(p)
      /\ \A i \in 1 .. Len(m) : i \in 1 .. Len(r)
      /\ Len(o) + 1 \in 1 .. Len(p) /\ Len(m) + 1 \in 1 .. Len(r)
    BY <1>1
<1>3. \A i \in 1 .. Len(o) : o[i].task # w.task
    BY DEF Follows, In
<1>4. \A i \in 1 .. Len(m) : m[i].task # w.task
    BY DEF In
<1>5. \A i \in 1 .. Len(o) : \E k \in 1 .. Len(r) : r[k] = o[i]
    BY <1>1, <1>2 DEF Follows
<1>6. ASSUME NEW i \in 1 .. Len(o), NEW j \in 1 .. Len(o), NEW k \in 1 .. Len(r), NEW l \in 1 .. Len(r),
             i < j, r[k].task = o[i].task, r[l].task = o[j].task
      PROVE  k < l
    <2>1. k # Len(m) + 1 /\ l # Len(m) + 1
        BY <1>1, <1>3, <1>6
    <2>2. k \in 1 .. Len(m) /\ l \in 1 .. Len(m)
        BY <1>2, <2>1
    <2> QED BY <1>1, <1>6, <2>2 DEF Follows
<1>7. Follows(o, r)
    BY <1>5, <1>6 DEF Follows
<1>8. \A i \in 1 .. Len(p) : \E k \in 1 .. Len(r) : r[k] = p[i]
    BY <1>1, <1>2, <1>5
<1>9. ASSUME NEW i \in 1 .. Len(p), NEW j \in 1 .. Len(p), NEW k \in 1 .. Len(r), NEW l \in 1 .. Len(r),
             i < j, r[k].task = p[i].task, r[l].task = p[j].task
      PROVE  k < l
    <2>1. i \in 1 .. Len(o) /\ p[i] = o[i]
        BY <1>1, <1>2, <1>9
    <2>2. k \in 1 .. Len(m)
        BY <1>1, <1>2, <1>3, <1>9, <2>1
    <2>3. CASE j \in 1 .. Len(o)
        BY <1>1, <1>6, <1>9, <2>1, <2>3
    <2>4. CASE j = Len(o) + 1
        <3>1. r[l].task = w.task
            BY <1>1, <1>9, <2>4
        <3>2. l = Len(m) + 1
            BY <1>1, <1>2, <1>4, <3>1
        <3> QED BY <1>1, <2>2, <3>2
    <2> QED BY <1>2, <2>3, <2>4
<1>10. Follows(p, r)
    BY <1>8, <1>9 DEF Follows
<1>11. /\ \A t : In(r, t) <=> In(m, t) \/ t = w.task
       /\ \A t : In(p, t) <=> In(o, t) \/ t = w.task
    BY <1>1, <1>2 DEF In
<1> QED BY <1>7, <1>10, <1>11 DEF p, r
-----------------------------------------------------------------------------
(*************************************************************************)
(* StepInv: Rmw sends its write data in the order in which the controller  *)
(* takes them.                                                             *)
(*************************************************************************)
(* The orders are in step, outside mode 2.                                 *)
LEMMA StepFollows ==
    ASSUME Inv, RMW_CMD_MODE # 2
    PROVE  /\ ~asserted /\ Follows(order, mcOrder)
           /\ order \in Seq(OrdT) /\ mcOrder \in Seq(OrdT) /\ Once(mcOrder)
           /\ \A t \in Tasks : Untracked(t) =>
                 /\ Count(WdataToSend, t) = 0 /\ fast_bypass[t] = 0
                 /\ \A n \in 1 .. Len(remaps) : remaps[n].dst # t
           /\ \A t \in Tasks : In(order, t) => Rem(t) <= fast_bypass[t]
BY DEF Inv, StepInv, InStep, Follows, TypeInv, DataInv

(* What the orders in step need after a step.                              *)
LEMMA StepFrom ==
    ASSUME config' = config, ~asserted', Follows(order', mcOrder'),
           \A t \in Tasks : In(mcOrder', t) /\ ~In(order', t) =>
                 /\ Count(WdataToSend, t)' = 0 /\ fast_bypass'[t] = 0
                 /\ \A n \in 1 .. Len(remaps') : remaps'[n].dst # t,
           \A t \in Tasks : In(order', t) => Rem(t)' <= fast_bypass'[t]
    PROVE  StepInv'
BY DEF StepInv, InStep, Follows, Untracked, RMW_CMD_MODE, In

(* In mode 2 nothing is claimed.                                           *)
LEMMA StepFree == ASSUME config' = config, RMW_CMD_MODE = 2 PROVE StepInv'
BY DEF StepInv, RMW_CMD_MODE

(* A step that leaves the orders alone.                                    *)
LEMMA StepStill ==
    ASSUME Inv, config' = config, UNCHANGED <<order, mcOrder, asserted, WdataToSend, fast_bypass>>,
           write_task' \in Seq(Tasks), \A t \in Tasks : In(mcOrder, t) => Rem(t)' <= Rem(t),
           \A n \in 1 .. Len(remaps') : \/ ~In(mcOrder, remaps'[n].dst)
                                        \/ \E k \in 1 .. Len(remaps) : remaps'[n].dst = remaps[k].dst
    PROVE  StepInv'
<1>1. CASE RMW_CMD_MODE # 2
    <2>1. \A t \in Tasks : In(order, t) => In(mcOrder, t) /\ Rem(t) <= fast_bypass[t]
        BY <1>1, StepFollows, FollowsOnce
    <2>2. \A t \in Tasks : Rem(t) \in Nat /\ fast_bypass[t] \in Nat
        BY RemType DEF Inv, TypeInv
    <2>3. ASSUME NEW t \in Tasks, In(order', t) PROVE Rem(t)' <= fast_bypass'[t]
        <3>1. PICK a, b, c : a = Rem(t)' /\ b = Rem(t) /\ c = fast_bypass[t]
            OBVIOUS
        <3>2. a <= b /\ b <= c /\ b \in Nat /\ c \in Nat /\ a \in Nat
            <4>1. a <= b /\ b <= c /\ b \in Nat /\ c \in Nat
                BY <2>1, <2>2, <2>3, <3>1
            <4>2. a \in Nat
                BY <3>1, CountType DEF Rem
            <4> QED BY <4>1, <4>2
        <3> QED BY <3>1, <3>2
    <2>4. ASSUME NEW t \in Tasks, In(mcOrder', t), ~In(order', t)
          PROVE  /\ Count(WdataToSend, t)' = 0 /\ fast_bypass'[t] = 0
                 /\ \A n \in 1 .. Len(remaps') : remaps'[n].dst # t
        <3>1. Untracked(t)
            BY <2>4 DEF Untracked
        <3>2. Count(WdataToSend, t)' = Count(WdataToSend, t)
            BY DEF Count
        <3> QED BY <1>1, <2>4, <3>1, <3>2, StepFollows
    <2> QED BY <1>1, <2>3, <2>4, StepFollows, StepFrom
<1> QED BY <1>1, StepFree

(* The first write expected is tracked, and both orders take a beat of it. *)
LEMMA StepPaid ==
    ASSUME Inv, config' = config, RMW_CMD_MODE # 2, mcOrder # <<>>, In(order, mcOrder[1].task),
           mcOrder' = Took(mcOrder), order' = Took(order), ~asserted',
           \A t \in Tasks : Untracked(t) => Count(WdataToSend, t)' = 0 /\ fast_bypass'[t] = 0,
           \A t \in Tasks : In(order, t) => Rem(t)' <= fast_bypass'[t],
           \A n \in 1 .. Len(remaps') : \E k \in 1 .. Len(remaps) : remaps'[n].dst = remaps[k].dst
    PROVE  StepInv'
<1>1. /\ Follows(Took(order), Took(mcOrder))
      /\ \A t : In(Took(order), t) => In(order, t)
      /\ \A t : In(Took(mcOrder), t) /\ ~In(Took(order), t) => In(mcOrder, t) /\ ~In(order, t)
    <2>1. /\ order \in Seq(OrdT) /\ mcOrder \in Seq(OrdT) /\ Once(mcOrder) /\ Follows(order, mcOrder)
        BY StepFollows
    <2> QED BY <2>1, BothTook
<1>2. \A t \in Tasks : In(order', t) => Rem(t)' <= fast_bypass'[t]
    BY <1>1
<1>3. ASSUME NEW t \in Tasks, In(mcOrder', t), ~In(order', t)
      PROVE  /\ Count(WdataToSend, t)' = 0 /\ fast_bypass'[t] = 0
             /\ \A n \in 1 .. Len(remaps') : remaps'[n].dst # t
    <2>1. Untracked(t)
        BY <1>1, <1>3 DEF Untracked
    <2>2. \A n \in 1 .. Len(remaps) : remaps[n].dst # t
        BY <2>1, StepFollows
    <2>3. \A n \in 1 .. Len(remaps') : remaps'[n].dst # t
        BY <2>2
    <2> QED BY <2>1, <2>3
<1> QED BY <1>1, <1>2, <1>3, StepFrom

(* What Rmw checks against its order is the first write expected.          *)
LEMMA StepChecked ==
    ASSUME Inv, RMW_CMD_MODE # 2, NEW t \in Tasks, submitData(t), check_write_data(t), ~Untracked(t)
    PROVE  /\ mcOrder # <<>> /\ mcOrder[1].task = t /\ In(order, mcOrder[1].task)
           /\ mcOrder' = Took(mcOrder) /\ order' = Took(order) /\ ~asserted'
<1>1. mcOrder # <<>> /\ mcOrder[1].task = t /\ In(mcOrder, t) /\ mcOrder' = Took(mcOrder)
    BY SubmitIs
<1>2. In(order, t)
    BY <1>1 DEF Untracked
<1>3. order # <<>> /\ order[1] = mcOrder[1]
    BY <1>1, <1>2, StepFollows, FollowsOnce
<1>4. order' = Took(order) /\ asserted' = asserted
    BY <1>1, <1>3 DEF check_write_data
<1> QED BY <1>1, <1>2, <1>4, StepFollows
-----------------------------------------------------------------------------
(* The rest of a write that has left the queue.                            *)
LEMMA StepFast ==
    ASSUME Inv, BeatFast, ~UNPAIRED_TO_RMW_EN
    PROVE  StepInv'
<1>0. PICK t : t = Head(write_task)
    OBVIOUS
<1>1. CASE RMW_CMD_MODE # 2
    <2>1. /\ fast_bypass[t] > 0 /\ fast_bypass' = [fast_bypass EXCEPT ![t] = @ - 1]
          /\ submitData(t) /\ check_write_data(t) /\ remaps' = remaps
          /\ write_task # <<>> /\ write_task' = Tail(write_task) /\ UNCHANGED WdataToSend
        BY <1>0 DEF BeatFast, Beat, Route
    <2>2. /\ t \in Tasks
          /\ \A d : Rem(d) = Rem(d)' + (IF d = t THEN 1 ELSE 0)
          /\ \A d : Rem(d)' \in Nat
        BY <1>0, <2>1, HeadSent DEF Inv
    <2>3. fast_bypass \in [Tasks -> Nat]
        BY DEF Inv, TypeInv
    <2>4. ~Untracked(t)
        BY <1>1, <2>1, <2>2, <2>3, StepFollows
    <2>5. config' = config
        BY InPlaceSame DEF Inv, InPlace
    <2>6. ASSUME NEW d \in Tasks, In(order, d) PROVE Rem(d)' <= fast_bypass'[d]
        <3>1. Rem(d) <= fast_bypass[d] /\ fast_bypass[d] \in Nat
            BY <1>1, <2>3, <2>6, StepFollows
        <3>2. Rem(d) = Rem(d)' + (IF d = t THEN 1 ELSE 0) /\ Rem(d)' \in Nat
            BY <2>2
        <3>3. fast_bypass'[d] = IF d = t THEN fast_bypass[d] - 1 ELSE fast_bypass[d]
            BY <2>1, <2>2, <2>3
        <3> QED BY <3>1, <3>2, <3>3
    <2>7. ASSUME NEW d \in Tasks, Untracked(d) PROVE Count(WdataToSend, d)' = 0 /\ fast_bypass'[d] = 0
        <3>1. d # t /\ Count(WdataToSend, d) = 0 /\ fast_bypass[d] = 0
            BY <1>1, <2>4, <2>7, StepFollows
        <3>2. fast_bypass'[d] = 0
            BY <2>1, <2>3, <3>1
        <3>3. Count(WdataToSend, d)' = Count(WdataToSend, d)
            BY <2>1 DEF Count
        <3> QED BY <3>1, <3>2, <3>3
    <2>8. /\ mcOrder # <<>> /\ In(order, mcOrder[1].task)
          /\ mcOrder' = Took(mcOrder) /\ order' = Took(order) /\ ~asserted'
        BY <1>1, <2>1, <2>2, <2>4, StepChecked
    <2>9. \A n \in 1 .. Len(remaps') : \E k \in 1 .. Len(remaps) : remaps'[n].dst = remaps[k].dst
        BY <2>1
    <2> QED BY <1>1, <2>5, <2>6, <2>7, <2>8, <2>9, StepPaid
<1> QED BY <1>1, InPlaceSame, StepFree DEF Inv, InPlace

(* A beat of the data Rmw holds.                                           *)
LEMMA StepSent ==
    ASSUME Inv, SendWdata, ~UNPAIRED_TO_RMW_EN
    PROVE  StepInv'
<1>0. PICK t : t = Head(WdataToSend)
    OBVIOUS
<1>1. CASE RMW_CMD_MODE # 2
    <2>1. /\ submitData(t) /\ check_write_data(t) /\ remaps' = remaps /\ fast_bypass' = fast_bypass
          /\ write_task' = write_task
        BY <1>0 DEF SendWdata, mergeVars, hostVars
    <2>2. /\ t \in Tasks
          /\ \A d : Count(WdataToSend, d)' \in Nat
          /\ \A d : Count(WdataToSend, d) = Count(WdataToSend, d)' + (IF t = d THEN 1 ELSE 0)
        BY <1>0, SendIs
    <2>3. ~Untracked(t)
        <3>1. Count(WdataToSend, t) = Count(WdataToSend, t)' + 1 /\ Count(WdataToSend, t)' \in Nat
            BY <2>2
        <3>2. Count(WdataToSend, t) # 0
            BY <3>1
        <3> QED BY <1>1, <2>2, <3>2, StepFollows
    <2>4. config' = config
        BY InPlaceSame DEF Inv, InPlace
    <2>5. ASSUME NEW d \in Tasks, In(order, d) PROVE Rem(d)' <= fast_bypass'[d]
        <3>1. Rem(d)' = Rem(d)
            BY <2>1 DEF Rem, Count
        <3> QED BY <1>1, <2>1, <2>5, <3>1, StepFollows
    <2>6. ASSUME NEW d \in Tasks, Untracked(d) PROVE Count(WdataToSend, d)' = 0 /\ fast_bypass'[d] = 0
        <3>1. d # t /\ Count(WdataToSend, d) = 0 /\ fast_bypass[d] = 0
            BY <1>1, <2>3, <2>6, StepFollows
        <3>2. Count(WdataToSend, d) = Count(WdataToSend, d)' + 0 /\ Count(WdataToSend, d)' \in Nat
            BY <2>2, <3>1
        <3> QED BY <2>1, <3>1, <3>2
    <2>7. /\ mcOrder # <<>> /\ In(order, mcOrder[1].task)
          /\ mcOrder' = Took(mcOrder) /\ order' = Took(order) /\ ~asserted'
        BY <1>1, <2>1, <2>2, <2>3, StepChecked
    <2>8. \A n \in 1 .. Len(remaps') : \E k \in 1 .. Len(remaps) : remaps'[n].dst = remaps[k].dst
        BY <2>1
    <2> QED BY <1>1, <2>4, <2>5, <2>6, <2>7, <2>8, StepPaid
<1> QED BY <1>1, InPlaceSame, StepFree DEF Inv, InPlace
-----------------------------------------------------------------------------
(* A beat with a new address.                                              *)
LEMMA StepRemapped ==
    ASSUME Inv, BeatRemapped, ~UNPAIRED_TO_RMW_EN
    PROVE  StepInv'
<1>1. /\ config' = config /\ fast_bypass' = fast_bypass /\ UNCHANGED WdataToSend
      /\ \A n \in 1 .. Len(remaps') : \E k \in 1 .. Len(remaps) : remaps'[n].dst = remaps[k].dst
    BY InPlaceSame, RemapStep DEF Inv, InPlace, BeatRemapped, Beat
<1>2. write_task # <<>> /\ write_task' = Tail(write_task)
    BY DEF BeatRemapped, Beat
<1>3. PICK h : h = Head(write_task)
    OBVIOUS
<1>4. /\ h \in Tasks /\ write_task' \in Seq(Tasks)
      /\ \A d : Rem(d) = Rem(d)' + (IF d = h THEN 1 ELSE 0)
      /\ \A d : Rem(d)' \in Nat
    BY <1>2, <1>3, HeadSent DEF Inv
<1>5. \A d : Rem(d)' <= Rem(d)
    BY <1>4
<1>6. CASE RMW_CMD_MODE = 1
    <2>1. UNCHANGED <<order, mcOrder, asserted>>
        BY <1>6 DEF BeatRemapped, dataVars
    <2> QED BY <1>1, <1>4, <1>5, <2>1, StepStill
<1>7. CASE RMW_CMD_MODE \notin {1, 2}
    <2>1. PICK n, t : n = First(RemapsOf(h)) /\ t = remaps[n].dst
        OBVIOUS
    <2>2. submitData(t) /\ check_write_data(t) /\ RemapsOf(h) # {}
        BY <1>3, <1>7, <2>1 DEF BeatRemapped, Beat, Route
    <2>3. n \in 1 .. Len(remaps) /\ t \in Tasks
        BY <2>1, <2>2, RemapIs DEF RemapT
    <2>4. ~Untracked(t)
        BY <1>7, <2>1, <2>3, StepFollows
    <2>5. /\ mcOrder # <<>> /\ In(order, mcOrder[1].task)
          /\ mcOrder' = Took(mcOrder) /\ order' = Took(order) /\ ~asserted'
        BY <1>7, <2>2, <2>3, <2>4, StepChecked
    <2>6. ASSUME NEW d \in Tasks, Untracked(d) PROVE Count(WdataToSend, d)' = 0 /\ fast_bypass'[d] = 0
        <3>1. Count(WdataToSend, d)' = Count(WdataToSend, d)
            BY <1>1 DEF Count
        <3> QED BY <1>1, <1>7, <2>6, <3>1, StepFollows
    <2>7. ASSUME NEW d \in Tasks, In(order, d) PROVE Rem(d)' <= fast_bypass'[d]
        <3>1. Rem(d) <= fast_bypass[d] /\ fast_bypass[d] \in Nat
            BY <1>7, <2>7, StepFollows DEF Inv, TypeInv
        <3>2. Rem(d) = Rem(d)' + (IF d = h THEN 1 ELSE 0) /\ Rem(d)' \in Nat
            BY <1>4
        <3> QED BY <1>1, <3>1, <3>2
    <2> QED BY <1>1, <1>7, <2>5, <2>6, <2>7, StepPaid
<1> QED BY <1>1, <1>6, <1>7, StepFree

(* A beat that goes unchecked is of a write that is not tracked.           *)
LEMMA StepPassed ==
    ASSUME Inv, BeatPassed, ~UNPAIRED_TO_RMW_EN
    PROVE  StepInv'
<1>1. PICK t : t = Head(write_task)
    OBVIOUS
<1>2. /\ config' = config
      /\ UNCHANGED <<order, asserted, fast_bypass, remaps, WdataToSend>>
      /\ submitData(t) /\ ~(fast_bypass[t] > 0) /\ write_task # <<>> /\ write_task' = Tail(write_task)
    <2>1. config' = config
        BY InPlaceSame DEF Inv, InPlace
    <2> QED BY <1>1, <2>1 DEF BeatPassed, Beat, Route, mergeVars
<1>3. /\ t \in Tasks /\ Rem(t) > 0
      /\ \A d : Rem(d) = Rem(d)' + (IF d = t THEN 1 ELSE 0)
      /\ \A d : Rem(d)' \in Nat
    BY <1>1, <1>2, HeadSent DEF Inv
<1>4. mcOrder # <<>> /\ mcOrder[1].task = t /\ mcOrder' = Took(mcOrder)
    BY <1>2, SubmitIs
<1>5. CASE RMW_CMD_MODE # 2
    <2>1. fast_bypass[t] = 0 /\ Rem(t) \in Nat
        BY <1>2, <1>3, RemType DEF Inv, TypeInv
    <2>2. ~In(order, t)
        BY <1>3, <1>5, <2>1, StepFollows
    <2>3. Follows(order, mcOrder') /\ \A d : In(mcOrder', d) => In(mcOrder, d)
        <3>1. order \in Seq(OrdT) /\ mcOrder \in Seq(OrdT) /\ Once(mcOrder) /\ Follows(order, mcOrder)
            BY <1>5, StepFollows
        <3> QED BY <1>4, <2>2, <3>1, OneTook
    <2>4. ASSUME NEW d \in Tasks, In(mcOrder', d), ~In(order', d)
          PROVE  /\ Count(WdataToSend, d)' = 0 /\ fast_bypass'[d] = 0
                 /\ \A n \in 1 .. Len(remaps') : remaps'[n].dst # d
        <3>1. Untracked(d)
            BY <1>2, <2>3, <2>4 DEF Untracked
        <3>2. Count(WdataToSend, d)' = Count(WdataToSend, d)
            BY <1>2 DEF Count
        <3> QED BY <1>2, <1>5, <3>1, <3>2, StepFollows
    <2>5. ASSUME NEW d \in Tasks, In(order', d) PROVE Rem(d)' <= fast_bypass'[d]
        <3>1. Rem(d) <= fast_bypass[d] /\ fast_bypass[d] \in Nat
            BY <1>2, <1>5, <2>5, StepFollows DEF Inv, TypeInv
        <3>2. Rem(d) = Rem(d)' + (IF d = t THEN 1 ELSE 0) /\ Rem(d)' \in Nat
            BY <1>3
        <3> QED BY <1>2, <3>1, <3>2
    <2> QED BY <1>2, <1>5, <2>3, <2>4, <2>5, StepFollows, StepFrom
<1> QED BY <1>2, <1>5, StepFree

(* A beat that stays in Rmw changes no order.                              *)
LEMMA StepQueued ==
    ASSUME Inv, BeatQueued \/ BeatToMerged, ~UNPAIRED_TO_RMW_EN
    PROVE  StepInv'
<1>1. config' = config
    BY InPlaceSame DEF Inv, InPlace
<1>2. CASE BeatQueued
    <2>1. /\ UNCHANGED <<order, mcOrder, asserted, WdataToSend, fast_bypass, remaps>>
          /\ write_task # <<>> /\ write_task' = Tail(write_task)
        BY <1>2 DEF BeatQueued, Beat, mergeVars, dataVars
    <2>2. write_task' \in Seq(Tasks) /\ \A d : Rem(d)' <= Rem(d)
        <3>1. PICK h : h = Head(write_task)
            OBVIOUS
        <3>2. /\ write_task' \in Seq(Tasks)
              /\ \A d : Rem(d) = Rem(d)' + (IF d = h THEN 1 ELSE 0)
              /\ \A d : Rem(d)' \in Nat
            BY <2>1, <3>1, HeadSent DEF Inv
        <3> QED BY <3>2
    <2> QED BY <1>1, <2>1, <2>2, StepStill
<1>3. CASE BeatToMerged
    <2>1. bypassed # {}
        BY <1>3 DEF BeatToMerged, BypassedOf
    <2> QED BY <1>1, <2>1, StepFree DEF Inv, WedInv
<1> QED BY <1>2, <1>3

(* What is not about write data.                                           *)
LEMMA StepIdle ==
    ASSUME Inv, [Next]_vars, Quiet \/ NewCommand \/ SchQue \/ BacklogRefuses \/ FinishNone, ~UNPAIRED_TO_RMW_EN
    PROVE  StepInv'
<1>1. config' = config
    BY ConfigKept
<1>2. UNCHANGED <<order, mcOrder, asserted, WdataToSend, fast_bypass, remaps, write_task>>
    <2>1. CASE Quiet
        BY <2>1 DEF Quiet, NoCommand, Refused, NoBeat, NoneSent, Arb, NoWdata, Stopped, vars, hostVars, mergeVars,
           sendVars, dataVars
    <2>2. CASE NewCommand \/ SchQue \/ BacklogRefuses \/ FinishNone
        BY <2>2 DEF NewCommand, SchQue, BacklogRefuses, Turn, Arb, FinishNone, hostVars, mergeVars,
           sendVars, dataVars
    <2> QED BY <2>1, <2>2
<1>3. write_task' \in Seq(Tasks) /\ \A t \in Tasks : Rem(t) \in Nat /\ Rem(t)' = Rem(t)
    BY <1>2, RemType DEF Inv, TypeInv, Rem, Count
<1>4. \A t \in Tasks : Rem(t)' <= Rem(t)
    BY <1>3
<1> QED BY <1>1, <1>2, <1>3, <1>4, StepStill

(* Reads and answers change no order.                                      *)
LEMMA StepLeaves ==
    ASSUME Inv, [Next]_vars, SendRead \/ SendMergeRead \/ (\E x \in transactionQueue : Finish(x)), ~UNPAIRED_TO_RMW_EN
    PROVE  StepInv'
<1>1. config' = config
    BY ConfigKept
<1>2. UNCHANGED <<order, mcOrder, asserted, WdataToSend, fast_bypass, remaps, write_task>>
    BY DEF SendRead, SendMergeRead, Turn, Arb, Finish, hostVars, mergeVars, sendVars, dataVars
<1>3. write_task' \in Seq(Tasks) /\ \A t \in Tasks : Rem(t) \in Nat /\ Rem(t)' = Rem(t)
    BY <1>2, RemType DEF Inv, TypeInv, Rem, Count
<1>4. \A t \in Tasks : Rem(t)' <= Rem(t)
    BY <1>3
<1> QED BY <1>1, <1>2, <1>3, <1>4, StepStill
-----------------------------------------------------------------------------
(* A command comes in: nothing is known of its task yet.                   *)
LEMMA StepAccept ==
    ASSUME Inv, Enqueue \/ Merge, [Next]_vars, ~UNPAIRED_TO_RMW_EN
    PROVE  StepInv'
<1>1. config' = config
    BY ConfigKept
<1>2. Accept /\ UNCHANGED mcOrder
    BY DEF Enqueue, Merge
<1>3. UNCHANGED <<order, mcOrder, asserted, WdataToSend, fast_bypass>>
    BY <1>2 DEF Accept, sendVars
<1>4. PICK u : u = Task
    OBVIOUS
<1>5. /\ write_task' \in Seq(Tasks) /\ u \in Tasks /\ u \notin Taken
      /\ \A t \in Tasks : t # u => Rem(t)' = Rem(t)
    BY <1>2, <1>4, AcceptIs
<1>6. ~In(mcOrder, u) /\ \A t \in Tasks : Rem(t) \in Nat
    BY <1>5, Fresh, RemType DEF Inv
<1>7. \A t \in Tasks : In(mcOrder, t) => Rem(t)' <= Rem(t)
    BY <1>5, <1>6
<1>8. ASSUME NEW n \in 1 .. Len(remaps')
      PROVE  \/ ~In(mcOrder, remaps'[n].dst)
             \/ \E k \in 1 .. Len(remaps) : remaps'[n].dst = remaps[k].dst
    <2>1. CASE remaps' = remaps
        BY <2>1
    <2>2. CASE remaps' # remaps
        <3>1. Merge
            BY <2>2 DEF Enqueue
        <3>2. PICK d \in Ents, left \in Nat :
                  remaps' = Append(remaps, [src |-> d.task, dst |-> Task, left |-> left])
            BY ZenonT(60), <2>2, <3>1, MergeTasks
        <3>3. remaps \in Seq(RemapT) /\ Len(remaps) \in Nat
            BY DEF Inv, TypeInv
        <3>4. PICK r : r = [src |-> d.task, dst |-> Task, left |-> left]
            OBVIOUS
        <3>5. /\ Len(remaps') = Len(remaps) + 1 /\ remaps'[Len(remaps) + 1].dst = u
              /\ \A k \in 1 .. Len(remaps) : remaps'[k] = remaps[k]
            BY <1>4, <3>2, <3>3, <3>4, AppendProperties
        <3>6. n \in 1 .. Len(remaps) \/ n = Len(remaps) + 1
            BY <3>3, <3>5
        <3> QED BY <1>6, <3>5, <3>6
    <2> QED BY <2>1, <2>2
<1> QED BY <1>1, <1>3, <1>5, <1>7, <1>8, StepStill

(* A write that finds the queue empty enters the controller's order last.  *)
LEMMA StepBypass ==
    ASSUME Inv, Bypass, [Next]_vars, ~UNPAIRED_TO_RMW_EN
    PROVE  StepInv'
<1>1. config' = config
    BY ConfigKept
<1>2. Accept /\ UNCHANGED remaps
    BY DEF Bypass
<1>3. UNCHANGED <<order, asserted, WdataToSend, fast_bypass, remaps>>
    BY <1>2 DEF Accept, sendVars
<1>4. PICK u : u = Task
    OBVIOUS
<1>5. /\ write_task' \in Seq(Tasks) /\ u \in Tasks /\ u \notin Taken /\ Pending
      /\ \A t \in Tasks : t # u => Rem(t)' = Rem(t)
    BY <1>2, <1>4, AcceptIs
<1>6. /\ ~In(mcOrder, u) /\ \A t \in Tasks : Rem(t) \in Nat
      /\ Count(WdataToSend, u) = 0 /\ fast_bypass[u] = 0
    BY <1>5, Fresh, RemType DEF Inv
<1>7. CASE Read(Cmd)
    <2>1. UNCHANGED mcOrder
        BY <1>7 DEF Bypass
    <2>2. \A t \in Tasks : In(mcOrder, t) => Rem(t)' <= Rem(t)
        BY <1>5, <1>6
    <2>3. \A n \in 1 .. Len(remaps') : \E k \in 1 .. Len(remaps) : remaps'[n].dst = remaps[k].dst
        BY <1>3
    <2> QED BY <1>1, <1>3, <1>5, <2>1, <2>2, <2>3, StepStill
<1>8. CASE ~Read(Cmd) /\ RMW_CMD_MODE # 2
    <2>1. PICK w : w = [task |-> Task, beats |-> Beats(Cmd)]
        OBVIOUS
    <2>2. mcOrder' = Append(mcOrder, w) /\ w \in OrdT /\ w.task = u
        <3>1. Beats(Cmd) \in Nat \ {0}
            BY <1>5, NextTask DEF Inv
        <3> QED BY <1>4, <1>5, <1>8, <2>1, <3>1 DEF Bypass, Expect, OrdT
    <2>3. Follows(order, mcOrder') /\ \A t : In(mcOrder', t) <=> In(mcOrder, t) \/ t = u
        <3>1. order \in Seq(OrdT) /\ mcOrder \in Seq(OrdT) /\ Follows(order, mcOrder)
            BY <1>8, StepFollows
        <3> QED BY <1>6, <2>2, <3>1, FollowsAppend
    <2>4. ASSUME NEW t \in Tasks, In(mcOrder', t), ~In(order', t)
          PROVE  /\ Count(WdataToSend, t)' = 0 /\ fast_bypass'[t] = 0
                 /\ \A n \in 1 .. Len(remaps') : remaps'[n].dst # t
        <3>1. Count(WdataToSend, t)' = Count(WdataToSend, t)
            BY <1>3 DEF Count
        <3>2. CASE t = u
            <4>1. \A n \in 1 .. Len(remaps) : remaps[n].dst # u
                BY <1>5 DEF Inv, WedInv, Wed
            <4> QED BY <1>3, <1>6, <3>1, <3>2, <4>1
        <3>3. CASE t # u
            <4>1. Untracked(t)
                BY <1>3, <2>3, <2>4, <3>3 DEF Untracked
            <4> QED BY <1>3, <1>8, <3>1, <4>1, StepFollows
        <3> QED BY <3>2, <3>3
    <2>5. ASSUME NEW t \in Tasks, In(order', t) PROVE Rem(t)' <= fast_bypass'[t]
        <3>1. In(order, t) /\ In(mcOrder, t)
            BY <1>3, <1>8, <2>5, StepFollows, FollowsOnce
        <3>2. t # u
            BY <1>6, <3>1
        <3> QED BY <1>3, <1>5, <1>8, <3>1, <3>2, StepFollows
    <2> QED BY <1>1, <1>3, <1>8, <2>3, <2>4, <2>5, StepFollows, StepFrom
<1> QED BY <1>1, <1>7, <1>8, StepFree

(* A write leaves the queue and enters both orders.                        *)
LEMMA StepWrite ==
    ASSUME Inv, SendWrite, [Next]_vars, ~UNPAIRED_TO_RMW_EN
    PROVE  StepInv'
<1>1. config' = config /\ UNCHANGED <<asserted, remaps, write_task>>
    BY ConfigKept DEF SendWrite, Turn, Arb, hostVars
<1>2. CASE RMW_CMD_MODE # 2
    <2>1. PICK e \in Ents, n \in Nat \ {0}, b \in Nat :
              /\ ~Read(e) /\ Goes(e) /\ n = Beats(e) /\ b = Buffered(e)
              /\ mcOrder' = Append(mcOrder, [task |-> e.task, beats |-> n])
              /\ order' = Append(order, [task |-> e.task, beats |-> n])
              /\ \A t : Count(WdataToSend, t)' = IF t = e.task THEN b ELSE Count(WdataToSend, t)
              /\ fast_bypass' = IF b < n /\ ~(e.first # NoTask /\ RMW_CMD_MODE = 2)
                                THEN [fast_bypass EXCEPT ![e.task] = n - b] ELSE fast_bypass
        BY ZenonT(60), WriteGoes
    <2>2. PICK u, w : u = e.task /\ w = [task |-> e.task, beats |-> n]
        OBVIOUS
    <2>3. u \in Tasks /\ ~In(mcOrder, u) /\ fast_bypass[u] = 0
        <3>1. Waiting(e) \in Units /\ Waiting(e).task = e.task /\ Waiting(e).at = "rmw"
            BY EntUnit
        <3> QED BY <2>2, <3>1, EntNew DEF Inv, WedInv
    <2>4. w \in OrdT /\ w.task = u /\ mcOrder' = Append(mcOrder, w) /\ order' = Append(order, w)
        BY <2>1, <2>2, <2>3 DEF OrdT
    <2>5. fast_bypass \in [Tasks -> Nat]
        BY DEF Inv, TypeInv
    <2>6. \A t \in Tasks : fast_bypass'[t] = IF t = u /\ b < n THEN n - b ELSE fast_bypass[t]
        BY <1>2, <2>1, <2>2, <2>5
    <2>7. /\ Follows(order', mcOrder')
          /\ \A t : In(mcOrder', t) <=> In(mcOrder, t) \/ t = u
          /\ \A t : In(order', t) <=> In(order, t) \/ t = u
        <3>1. order \in Seq(OrdT) /\ mcOrder \in Seq(OrdT) /\ Follows(order, mcOrder)
            BY <1>2, StepFollows
        <3> QED BY <2>3, <2>4, <3>1, FollowsAppend
    <2>8. ASSUME NEW t \in Tasks, In(mcOrder', t), ~In(order', t)
          PROVE  /\ Count(WdataToSend, t)' = 0 /\ fast_bypass'[t] = 0
                 /\ \A k \in 1 .. Len(remaps') : remaps'[k].dst # t
        <3>1. t # u /\ Untracked(t)
            BY <2>7, <2>8 DEF Untracked
        <3>2. Count(WdataToSend, t)' = Count(WdataToSend, t)
            BY <2>1, <2>2, <3>1
        <3> QED BY <1>1, <1>2, <2>6, <3>1, <3>2, StepFollows
    <2>9. ASSUME NEW t \in Tasks, In(order', t) PROVE Rem(t)' <= fast_bypass'[t]
        <3>1. Rem(t)' = Rem(t)
            BY <1>1 DEF Rem, Count
        <3>2. CASE t # u
            BY <1>2, <2>6, <2>7, <2>9, <3>1, <3>2, StepFollows
        <3>3. CASE t = u
            <4>1. PICK f, r : f = Rem(e.first) /\ r = Rem(u)
                OBVIOUS
            <4>2. /\ f \in Nat /\ r \in Nat /\ Left(e) = r + f /\ Buffered(e) + Left(e) <= Beats(e)
                BY <2>1, <2>2, <4>1, EntNumbers, BufferedIs
            <4>3. b + (r + f) <= n
                BY <2>1, <4>2
            <4>4. r <= fast_bypass'[u]
                BY <2>3, <2>6, <4>2, <4>3
            <4> QED BY <3>1, <3>3, <4>1, <4>4
        <3> QED BY <3>2, <3>3
    <2> QED BY <1>1, <1>2, <2>7, <2>8, <2>9, StepFollows, StepFrom
<1> QED BY <1>1, <1>2, StepFree

(* Every step keeps the orders in step.                                    *)
LEMMA StepStep ==
    ASSUME Inv, [Next]_vars, ~UNPAIRED_TO_RMW_EN
    PROVE  StepInv'
<1>1. CASE InPlace
    BY <1>1, StepIdle, StepSent, StepQueued, StepRemapped, StepFast, StepPassed DEF InPlace
<1> QED BY <1>1, NextIs, StepAccept, StepBypass, StepLeaves, StepWrite
-----------------------------------------------------------------------------
(*************************************************************************)
(* TypeInv and the slots.                                                  *)
(*************************************************************************)
(* The variables of the host and the two flags.                            *)
Flags == /\ config \in Configs /\ phase \in {"cmd", "data", "sch", "arb", "wdata", "mc"}
         /\ Len(cmds) <= NTasks /\ data_taken \in BOOLEAN /\ asserted \in BOOLEAN

(* The flags of a step.                                                    *)
LEMMA FlagsStep ==
    ASSUME Inv, [Next]_vars, ~UNPAIRED_TO_RMW_EN
    PROVE  Flags'
<1>1. Flags /\ config' = config
    BY ConfigKept DEF Inv, TypeInv, Flags
<1>2. CASE Quiet
    BY <1>1, <1>2 DEF Flags, Quiet, NoCommand, Refused, NoBeat, NoneSent, Arb, NoWdata, Stopped, vars, hostVars,
       sendVars, dataVars, Then
<1>3. CASE NewCommand
    <2>1. PICK c \in Offers : cmds' = Append(cmds, c)
        BY <1>3 DEF NewCommand
    <2>2. cmds \in Seq(Offers) /\ Len(cmds) < NTasks /\ NTasks \in Nat
        BY <1>3, TaskIs DEF NewCommand, Inv, QueInv
    <2>3. Len(cmds') <= NTasks
        BY <2>1, <2>2
    <2> QED BY <1>1, <1>3, <2>3 DEF Flags, NewCommand, sendVars, dataVars
<1>4. CASE SendWdata
    BY <1>1, <1>4 DEF Flags, SendWdata, hostVars, Then, submitData, check_write_data
<1>5. CASE SchQue \/ BacklogRefuses \/ FinishNone
    BY <1>1, <1>5 DEF Flags, SchQue, BacklogRefuses, Turn, Arb, FinishNone, hostVars, sendVars, dataVars, Then
<1>6. CASE ABeat
    <2>1. phase' = "sch" /\ cmds' = cmds
        BY <1>6 DEF ABeat, BeatToMerged, BeatRemapped, BeatFast, BeatQueued, BeatPassed, Beat, Then
    <2>2. data_taken' \in BOOLEAN
        <3>1. Fills(Head(write_task)) \/ Pays(Head(write_task))
            BY <1>6, BeatIs
        <3> QED BY <1>1, <3>1 DEF Flags, Fills, Pays
    <2>3. asserted' \in BOOLEAN
        BY <1>1, <1>6 DEF Flags, ABeat, BeatToMerged, BeatRemapped, BeatFast, BeatQueued, BeatPassed, check_write_data
    <2> QED BY <1>1, <2>1, <2>2, <2>3 DEF Flags
<1>7. CASE Enqueue \/ Bypass \/ Merge
    <2>1. Accept
        BY <1>7 DEF Enqueue, Bypass, Merge
    <2> QED BY <1>1, <2>1 DEF Flags, Accept, Then, sendVars
<1>8. CASE SendMergeRead \/ SendRead \/ SendWrite
    BY <1>1, <1>8 DEF Flags, SendMergeRead, SendRead, SendWrite, Turn, Arb, Then, hostVars, sendVars, dataVars
<1>9. CASE \E x \in transactionQueue : Finish(x)
    BY <1>1, <1>9 DEF Flags, Finish, Then, hostVars, sendVars
<1> QED BY <1>2, <1>3, <1>4, <1>5, <1>6, <1>7, <1>8, <1>9, NextIs DEF InPlace, ABeat

(* No age runs past its bound.                                             *)
LEMMA YoungStep ==
    ASSUME Inv, [Next]_vars, ~UNPAIRED_TO_RMW_EN
    PROVE  \A e \in Ents' : e.age <= AgeMax
<1>1. /\ AgeMax \in Nat
      /\ \A e \in Ents : e \in EntT /\ e.age <= AgeMax
    BY AgeMaxType, EntsAre DEF Inv, TypeInv
<1>2. CASE RmwQue' = RmwQue
    BY <1>1, <1>2, NoneChanged DEF Inv
<1>3. CASE Ages
    BY <1>1, <1>3, EntsAged, AgedIs DEF Inv
<1>4. CASE SchQue
    <2>1. \A e \in Ents : sch_entry(e).age = e.age
        <3> SUFFICES ASSUME NEW e \in Ents PROVE sch_entry(e).age = e.age
            OBVIOUS
        <3>1. sch_entry(e) = e \/ sch_entry(e) = [e EXCEPT !.state = "ready"]
            BY SchIs
        <3> QED BY <1>1, <3>1, StateSet
    <2> QED BY <1>1, <1>4, <2>1, EntsScheduled DEF Inv
<1>5. CASE BacklogRefuses
    <2>1. ASSUME NEW f \in Ents' PROVE f.age <= AgeMax
        <3>1. PICK e \in Ents : Emptied(e, f)
            BY <1>5, EntsEmptied DEF Inv
        <3>2. f.age = e.age
            BY <1>1, <3>1, EmptiedIs
        <3> QED BY <1>1, <3>2
    <2> QED BY <2>1
<1>6. CASE SendRead \/ SendWrite
    BY <1>1, <1>6, ReadLeaves, WriteLeaves DEF Inv
<1>7. CASE SendMergeRead
    <2>1. PICK e \in Ents : Ents' = (Ents \ {e}) \cup {[e EXCEPT !.state = "merge_read"]}
        BY <1>7, EntReads DEF Inv
    <2>2. [e EXCEPT !.state = "merge_read"].age = e.age
        BY <1>1, StateSet
    <2> QED BY <1>1, <2>1, <2>2
<1>8. CASE Enqueue
    BY <1>1, <1>8, EntAdded DEF Inv
<1>9. CASE Merge
    <2>1. PICK d \in Ents, f \in EntT : Ents' = (Ents \ {d}) \cup {f} /\ f.age = 0
        BY ZenonT(60), <1>9, MergeTasks
    <2>2. f.age <= AgeMax
        BY <1>1, <2>1
    <2> QED BY <1>1, <2>1, <2>2
<1>10. CASE ABeat
    <2>1. Ents' = Ents \/ \E e \in Ents : Ents' = (Ents \ {e}) \cup {[e EXCEPT !.ready = @ + 1]}
        BY <1>10, BeatIs DEF Fills
    <2>2. ASSUME NEW e \in Ents PROVE [e EXCEPT !.ready = @ + 1].age <= AgeMax
        BY <1>1 DEF EntT
    <2> QED BY <1>1, <2>1, <2>2
<1>11. RmwQue' = RmwQue \/ Ages \/ SchQue \/ BacklogRefuses \/ SendRead \/ SendWrite \/ SendMergeRead
       \/ Enqueue \/ Merge \/ ABeat
    <2>1. CASE Quiet \/ NewCommand \/ SendWdata
        BY <2>1 DEF Quiet, NoCommand, Refused, NoBeat, NoneSent, NoWdata, Stopped, vars, NewCommand, SendWdata
    <2>2. CASE Bypass
        BY <2>2 DEF Bypass
    <2>3. CASE FinishNone \/ \E x \in transactionQueue : Finish(x)
        BY <2>3 DEF FinishNone, Finish
    <2> QED BY <2>1, <2>2, <2>3, NextIs DEF InPlace, ABeat
<1> QED BY <1>2, <1>3, <1>4, <1>5, <1>6, <1>7, <1>8, <1>9, <1>10, <1>11
-----------------------------------------------------------------------------
(* What is left to type, given the flags and the ages.                     *)
LEMMA TypeFrom ==
    ASSUME Inv, [Next]_vars, ~UNPAIRED_TO_RMW_EN,
           write_task' \in Seq(Tasks),
           fast_bypass' \in [Tasks -> Nat] /\ write_map' \in [Tasks -> Nat],
           remaps' \in Seq(RemapT) /\ bypassed' \subseteq MergedT,
           rd_finish' \in [Tasks -> States],
           WdataToSend' \in Seq(Tasks) /\ order' \in Seq(OrdT) /\ mcOrder' \in Seq(OrdT),
           transactionQueue' \subseteq TransT
    PROVE  TypeInv'
BY FlagsStep, YoungStep DEF TypeInv, Flags

(* The types, as facts to cite.                                            *)
LEMMA Typed ==
    ASSUME Inv
    PROVE  /\ write_task \in Seq(Tasks)
           /\ fast_bypass \in [Tasks -> Nat] /\ write_map \in [Tasks -> Nat]
           /\ remaps \in Seq(RemapT) /\ bypassed \subseteq MergedT
           /\ rd_finish \in [Tasks -> States]
           /\ WdataToSend \in Seq(Tasks) /\ order \in Seq(OrdT) /\ mcOrder \in Seq(OrdT)
           /\ transactionQueue \subseteq TransT /\ Once(mcOrder)
BY DEF Inv, TypeInv, DataInv

(* Idle steps keep the types.                                              *)
LEMMA TypeIdle ==
    ASSUME Inv, [Next]_vars, ~UNPAIRED_TO_RMW_EN, Quiet \/ NewCommand \/ BacklogRefuses \/ FinishNone
    PROVE  TypeInv'
<1>1. UNCHANGED <<write_task, fast_bypass, write_map, remaps, bypassed, rd_finish, WdataToSend, order, mcOrder,
                  transactionQueue>>
    <2>1. CASE Quiet
        BY <2>1 DEF Quiet, NoCommand, Refused, NoBeat, NoneSent, Arb, NoWdata, Stopped, vars, hostVars,
           mergeVars, sendVars, dataVars, mcVars
    <2>2. CASE NewCommand \/ BacklogRefuses \/ FinishNone
        BY <2>2 DEF NewCommand, BacklogRefuses, Turn, Arb, FinishNone, hostVars, mergeVars, sendVars, dataVars, mcVars
    <2> QED BY <2>1, <2>2
<1> QED BY <1>1, Typed, TypeFrom

(* sch_que keeps the types.                                                *)
LEMMA TypeScheduled ==
    ASSUME Inv, [Next]_vars, ~UNPAIRED_TO_RMW_EN, SchQue
    PROVE  TypeInv'
<1>1. UNCHANGED <<write_task, fast_bypass, write_map, remaps, bypassed, WdataToSend, order, mcOrder,
                  transactionQueue>>
    BY DEF SchQue, hostVars, mergeVars, sendVars, dataVars, mcVars
<1>2. rd_finish' \in [Tasks -> States]
    <2>1. \A t \in Tasks : rd_finish[t] \in States
        BY Typed
    <2> QED BY <2>1 DEF SchQue, States
<1> QED BY <1>1, <1>2, Typed, TypeFrom

(* An answer keeps the types.                                              *)
LEMMA TypeFinish ==
    ASSUME Inv, [Next]_vars, ~UNPAIRED_TO_RMW_EN, NEW x \in transactionQueue, Finish(x)
    PROVE  TypeInv'
<1>1. UNCHANGED <<write_task, fast_bypass, write_map, remaps, bypassed, WdataToSend, order, mcOrder>>
    BY DEF Finish, hostVars, mergeVars, sendVars
<1>2. rd_finish' \in [Tasks -> States] /\ transactionQueue' \subseteq TransT
    BY Typed DEF Finish, States, TransT
<1> QED BY <1>1, <1>2, Typed, TypeFrom

(* A command comes in.                                                     *)
LEMMA TypeEnqueue ==
    ASSUME Inv, [Next]_vars, ~UNPAIRED_TO_RMW_EN, Enqueue
    PROVE  TypeInv'
<1>1. Accept /\ UNCHANGED <<fast_bypass, remaps, bypassed, WdataToSend, order, mcOrder, transactionQueue>>
    BY DEF Enqueue, Accept, sendVars
<1>2. write_task' \in Seq(Tasks) /\ Pending /\ Task \in Tasks
    BY <1>1, AcceptIs
<1>3. Beats(Cmd) \in Nat
    BY <1>2, NextTask DEF Inv
<1>4. write_map' \in [Tasks -> Nat]
    BY <1>2, <1>3, Typed DEF Enqueue
<1>5. rd_finish' \in [Tasks -> States]
    BY <1>2, Typed DEF Enqueue, rd_begin, States
<1> QED BY <1>1, <1>2, <1>4, <1>5, Typed, TypeFrom

(* A command that passes by keeps the types.                               *)
LEMMA TypeBypass ==
    ASSUME Inv, [Next]_vars, ~UNPAIRED_TO_RMW_EN, Bypass
    PROVE  TypeInv'
<1>1. Accept /\ UNCHANGED <<fast_bypass, remaps, bypassed, WdataToSend, order, rd_finish>>
    BY DEF Bypass, Accept, sendVars
<1>2. write_task' \in Seq(Tasks) /\ Pending /\ Task \in Tasks
    BY <1>1, AcceptIs
<1>3. Beats(Cmd) \in Nat \ {0}
    BY <1>2, NextTask DEF Inv
<1>4. write_map' \in [Tasks -> Nat]
    BY <1>2, <1>3, Typed DEF Bypass
<1>5. mcOrder' \in Seq(OrdT)
    <2>1. PICK w : w = [task |-> Task, beats |-> Beats(Cmd)]
        OBVIOUS
    <2>2. w \in OrdT
        BY <1>2, <1>3, <2>1 DEF OrdT
    <2>3. mcOrder' = mcOrder \/ mcOrder' = Append(mcOrder, w)
        BY <2>1 DEF Bypass, Expect
    <2>4. mcOrder \in Seq(OrdT)
        BY Typed
    <2>5. Append(mcOrder, w) \in Seq(OrdT)
        BY <2>2, <2>4
    <2> QED BY <2>3, <2>4, <2>5
<1>6. transactionQueue' \subseteq TransT
    <2>1. [task |-> Task, first |-> NoTask, kind |-> IF Read(Cmd) THEN "read" ELSE "write"] \in TransT
        BY <1>2 DEF TransT
    <2> QED BY <2>1, Typed DEF Bypass, push_after_rmw
<1> QED BY <1>1, <1>2, <1>4, <1>5, <1>6, Typed, TypeFrom

(* A merge keeps the types.                                                *)
LEMMA TypeMerge ==
    ASSUME Inv, [Next]_vars, ~UNPAIRED_TO_RMW_EN, Merge
    PROVE  TypeInv'
<1>1. Accept /\ UNCHANGED <<fast_bypass, WdataToSend, order, mcOrder, rd_finish, transactionQueue>>
    BY DEF Merge, Accept, sendVars
<1>2. write_task' \in Seq(Tasks) /\ Task \in Tasks
    BY <1>1, AcceptIs
<1>3. PICK d \in Ents, left \in Nat :
              /\ IF RMW_CMD_MODE = 2
                 THEN /\ bypassed' = bypassed \cup
                             {[first |-> d.task, merged |-> Task, r1 |-> left, r2 |-> 2]}
                      /\ remaps' = remaps
                 ELSE /\ remaps' = IF left = 0 THEN remaps
                                   ELSE Append(remaps, [src |-> d.task, dst |-> Task, left |-> left])
                      /\ bypassed' = bypassed
              /\ write_map' = [write_map EXCEPT ![Task] = 4,
                                                ![d.task] = IF RMW_CMD_MODE = 1 THEN 0 ELSE @]
    BY ZenonT(60), MergeTasks
<1>4. d.task \in Tasks
    BY EntNew
<1>5. write_map' \in [Tasks -> Nat]
    BY <1>2, <1>3, <1>4, Typed
<1>6. bypassed' \subseteq MergedT
    <2>1. [first |-> d.task, merged |-> Task, r1 |-> left, r2 |-> 2] \in MergedT
        BY <1>2, <1>4 DEF MergedT
    <2> QED BY <1>3, <2>1, Typed
<1>7. remaps' \in Seq(RemapT)
    <2>1. PICK r : r = [src |-> d.task, dst |-> Task, left |-> left]
        OBVIOUS
    <2>2. left # 0 => r \in RemapT
        BY <1>2, <1>4, <2>1 DEF RemapT
    <2>3. remaps' = remaps \/ (left # 0 /\ remaps' = Append(remaps, r))
        BY <1>3, <2>1
    <2>4. remaps \in Seq(RemapT)
        BY Typed
    <2>5. r \in RemapT => Append(remaps, r) \in Seq(RemapT)
        BY <2>4
    <2> QED BY <2>2, <2>3, <2>4, <2>5
<1> QED BY <1>1, <1>2, <1>5, <1>6, <1>7, Typed, TypeFrom

(* The queue sends.                                                        *)
LEMMA TypeLeaves ==
    ASSUME Inv, [Next]_vars, ~UNPAIRED_TO_RMW_EN, SendRead \/ SendMergeRead
    PROVE  TypeInv'
<1>1. UNCHANGED <<write_task, fast_bypass, write_map, remaps, bypassed, rd_finish, WdataToSend, order, mcOrder>>
    BY DEF SendRead, SendMergeRead, Turn, Arb, hostVars, mergeVars, sendVars, dataVars
<1>2. PICK e \in Ents, k \in {"read", "merge"} :
          transactionQueue' = transactionQueue \cup {[task |-> e.task, first |-> NoTask, kind |-> k]}
    BY ReadLeaves, EntReads DEF Inv
<1>3. [task |-> e.task, first |-> NoTask, kind |-> k] \in TransT
    BY EntNew DEF TransT
<1>4. transactionQueue' \subseteq TransT
    BY <1>2, <1>3, Typed
<1> QED BY <1>1, <1>4, Typed, TypeFrom

(* A write that leaves keeps the types.                                    *)
LEMMA TypeWrite ==
    ASSUME Inv, [Next]_vars, ~UNPAIRED_TO_RMW_EN, SendWrite
    PROVE  TypeInv'
<1>1. UNCHANGED <<write_task, write_map, remaps, bypassed, rd_finish>>
    BY DEF SendWrite, Turn, Arb, hostVars
<1>2. PICK e \in Ents, n \in Nat \ {0}, b \in Nat :
              /\ ~Read(e) /\ Goes(e) /\ n = Beats(e) /\ b = Buffered(e)
              /\ transactionQueue' = transactionQueue \cup
                     {[task |-> e.task, first |-> e.first, kind |-> "write"]}
              /\ order' = Append(order, [task |-> e.task, beats |-> n])
              /\ WdataToSend' \in Seq(Tasks) /\ mcOrder' \in Seq(OrdT)
              /\ fast_bypass' = IF b < n /\ ~(e.first # NoTask /\ RMW_CMD_MODE = 2)
                                THEN [fast_bypass EXCEPT ![e.task] = n - b] ELSE fast_bypass
    BY ZenonT(60), WriteGoes
<1>3. e.task \in Tasks /\ e.first \in Tasks \cup {NoTask}
    BY EntUnit, TakenTasks DEF Inv
<1>4. order' \in Seq(OrdT)
    <2>1. [task |-> e.task, beats |-> n] \in OrdT
        BY <1>3 DEF OrdT
    <2> QED BY <1>2, <2>1, Typed
<1>5. transactionQueue' \subseteq TransT
    <2>1. [task |-> e.task, first |-> e.first, kind |-> "write"] \in TransT
        BY <1>3 DEF TransT
    <2> QED BY <1>2, <2>1, Typed
<1>6. fast_bypass' \in [Tasks -> Nat]
    <2>1. b < n => n - b \in Nat
        OBVIOUS
    <2> QED BY <1>2, <1>3, <2>1, Typed
<1> QED BY <1>1, <1>2, <1>4, <1>5, <1>6, Typed, TypeFrom
-----------------------------------------------------------------------------
(* A beat taken keeps the type of an order.                                *)
LEMMA TookType ==
    ASSUME NEW o \in Seq(OrdT)
    PROVE  Took(o) \in Seq(OrdT) /\ Len(Took(o)) <= Len(o)
<1>1. CASE o = <<>>
    BY <1>1 DEF Took
<1>2. CASE o # <<>>
    <2>1. Len(o) \in Nat \ {0} /\ o[1] \in OrdT
        BY <1>2, ElementOfSeq, EmptySeq
    <2>2. CASE o[1].beats = 1
        <3>1. Took(o) = Tail(o)
            BY <1>2, <2>2 DEF Took
        <3> QED BY <1>2, <2>1, <3>1, HeadTailProperties
    <2>3. CASE o[1].beats # 1
        <3> DEFINE w == [o[1] EXCEPT !.beats = @ - 1]
        <3>1. Took(o) = [o EXCEPT ![1] = w]
            BY <1>2, <2>1, <2>3 DEF Took
        <3>2. w \in OrdT
            BY <2>1, <2>3 DEF OrdT
        <3> HIDE DEF w
        <3>3. Took(o) \in Seq(OrdT) /\ Len(Took(o)) = Len(o)
            BY <2>1, <3>1, <3>2, ExceptSeq
        <3> QED BY <2>1, <3>3
    <2> QED BY <2>2, <2>3
<1> QED BY <1>1, <1>2

(* What a beat does to the order of Rmw.                                   *)
LEMMA OrderIs ==
    ASSUME Inv, ABeat \/ SendWdata
    PROVE  order' \in Seq(OrdT) /\ Len(order') <= Len(order)
<1>1. order \in Seq(OrdT) /\ Len(order) \in Nat
    BY Typed
<1>2. order' = order \/ order' = Took(order)
    BY DEF ABeat, BeatToMerged, BeatRemapped, BeatFast, BeatQueued, BeatPassed, SendWdata, check_write_data
<1> QED BY <1>1, <1>2, TookType

(* A beat counts down what write_map expects.                              *)
LEMMA TypeBeat ==
    ASSUME Inv, [Next]_vars, ~UNPAIRED_TO_RMW_EN, ABeat
    PROVE  TypeInv'
<1> DEFINE t == Head(write_task)
<1>1. /\ write_task # <<>> /\ write_task' = Tail(write_task)
      /\ UNCHANGED <<WdataToSend, rd_finish, transactionQueue>>
      /\ Fills(t) \/ Pays(t)
    BY BeatIs
<1>2. write_task' \in Seq(Tasks) /\ t \in Tasks
    BY <1>1, HeadSent DEF Inv
<1> HIDE DEF t
<1>3. mcOrder' \in Seq(OrdT) /\ write_map' \in [Tasks -> Nat]
    <2>1. CASE Fills(t)
        BY <2>1, Typed DEF Fills
    <2>2. CASE Pays(t)
        <3>1. /\ mcOrder # <<>> /\ mcOrder' = Took(mcOrder)
              /\ write_map' = [write_map EXCEPT ![mcOrder[1].task] = @ - 1]
              /\ write_map[mcOrder[1].task] > 0
            BY <2>2 DEF Pays
        <3>2. mcOrder' \in Seq(OrdT) /\ mcOrder[1].task \in Tasks
            BY <3>1, PaidIs DEF OrdT
        <3>3. PICK u : u = mcOrder[1].task
            OBVIOUS
        <3>4. u \in Tasks /\ write_map[u] - 1 \in Nat /\ write_map' = [write_map EXCEPT ![u] = @ - 1]
            BY <3>1, <3>2, <3>3, Typed
        <3>5. write_map' \in [Tasks -> Nat]
            BY <3>4, Typed
        <3> QED BY <3>2, <3>5
    <2> QED BY <1>1, <2>1, <2>2
<1>4. order' \in Seq(OrdT)
    BY OrderIs
<1>5. CASE BeatRemapped
    BY <1>1, <1>2, <1>3, <1>4, <1>5, RemapStep, Typed, TypeFrom
<1>6. CASE ~BeatRemapped
    <2>1. remaps' \in Seq(RemapT) /\ fast_bypass' \in [Tasks -> Nat]
        <3>1. remaps' = remaps /\ (fast_bypass' = fast_bypass
                  \/ (fast_bypass[t] > 0 /\ fast_bypass' = [fast_bypass EXCEPT ![t] = @ - 1]))
            BY <1>6, WedBeatIs DEF t
        <3>2. fast_bypass \in [Tasks -> Nat] /\ remaps \in Seq(RemapT)
            BY Typed
        <3>3. CASE fast_bypass' = fast_bypass
            BY <3>1, <3>2, <3>3
        <3>4. CASE fast_bypass[t] > 0 /\ fast_bypass' = [fast_bypass EXCEPT ![t] = @ - 1]
            <4>1. fast_bypass[t] - 1 \in Nat
                BY <1>2, <3>2, <3>4
            <4>2. fast_bypass' \in [Tasks -> Nat]
                BY <3>2, <3>4, <4>1
            <4> QED BY <3>1, <3>2, <4>2
        <3> QED BY <3>1, <3>3, <3>4
    <2>2. bypassed' \subseteq MergedT
        <3>1. CASE BeatToMerged
            <4>1. PICK b \in BypassedOf(t) :
                      LET c == IF t = b.first THEN [b EXCEPT !.r1 = @ - 1] ELSE [b EXCEPT !.r2 = @ - 1]
                      IN  bypassed' = (bypassed \ {b}) \cup (IF c.r1 = 0 /\ c.r2 = 0 THEN {} ELSE {c})
                BY <3>1 DEF BeatToMerged, t
            <4>2. b \in MergedT /\ ((t = b.first /\ b.r1 > 0) \/ (t = b.merged /\ b.r2 > 0))
                BY Typed DEF BypassedOf
            <4>3. PICK c : /\ c = IF t = b.first THEN [b EXCEPT !.r1 = @ - 1] ELSE [b EXCEPT !.r2 = @ - 1]
                           /\ bypassed' \subseteq bypassed \cup {c}
                BY <4>1
            <4>4. PICK n, k : n = b.r1 - 1 /\ k = b.r2 - 1
                OBVIOUS
            <4>5. b.first # b.merged /\ b.r1 \in Nat /\ b.r2 \in Nat
                <5>1. b \in bypassed
                    BY DEF BypassedOf
                <5> QED BY <4>2, <5>1 DEF Inv, WedInv, Wed, MergedT
            <4>6. (t = b.first => n \in Nat) /\ (t # b.first => k \in Nat)
                BY <4>2, <4>4, <4>5
            <4>7. c = IF t = b.first THEN [b EXCEPT !.r1 = n] ELSE [b EXCEPT !.r2 = k]
                BY <4>3, <4>4
            <4>8. c \in MergedT
                BY <4>2, <4>6, <4>7 DEF MergedT
            <4> QED BY <4>3, <4>8, Typed
        <3>2. CASE ~BeatToMerged
            BY <1>6, <3>2, Typed DEF ABeat, BeatFast, BeatQueued, BeatPassed, mergeVars
        <3> QED BY <3>1, <3>2
    <2> QED BY <1>1, <1>2, <1>3, <1>4, <2>1, <2>2, Typed, TypeFrom
<1> QED BY <1>5, <1>6

(* A beat that is sent keeps the types.                                    *)
LEMMA TypeSent ==
    ASSUME Inv, [Next]_vars, ~UNPAIRED_TO_RMW_EN, SendWdata
    PROVE  TypeInv'
<1>1. UNCHANGED <<write_task, fast_bypass, remaps, bypassed, rd_finish, transactionQueue>>
    BY DEF SendWdata, hostVars, mergeVars, mcVars
<1>2. mcOrder' \in Seq(OrdT) /\ WdataToSend' \in Seq(Tasks) /\ order' \in Seq(OrdT)
    BY SendIs, PaidIs, OrderIs
<1>3. PICK t : t = Head(WdataToSend)
    OBVIOUS
<1>4. submitData(t)
    BY <1>3 DEF SendWdata
<1>5. t \in Tasks /\ write_map[t] > 0 /\ write_map' = [write_map EXCEPT ![t] = @ - 1]
    BY <1>4, SubmitIs
<1>6. write_map' \in [Tasks -> Nat]
    BY <1>5, Typed
<1> QED BY <1>1, <1>2, <1>6, Typed, TypeFrom

(* Every step keeps the types.                                             *)
LEMMA TypeStep ==
    ASSUME Inv, [Next]_vars, ~UNPAIRED_TO_RMW_EN
    PROVE  TypeInv'
<1>1. CASE InPlace
    BY <1>1, TypeIdle, TypeScheduled, TypeBeat, TypeSent DEF InPlace, ABeat
<1> QED BY <1>1, NextIs, TypeEnqueue, TypeBypass, TypeMerge, TypeLeaves, TypeWrite, TypeFinish
-----------------------------------------------------------------------------
(* The slots.                                                              *)
LEMMA SlotsStep ==
    ASSUME Inv, [Next]_vars, ~UNPAIRED_TO_RMW_EN
    PROVE  SlotsBounded'
<1>1. /\ Len(RmwQue) \in Nat /\ Len(order) \in Nat /\ RMW_QUE_DEPTH \in Nat
      /\ Len(RmwQue) + Len(order) <= RMW_QUE_DEPTH
    BY Typed, RmwAssumption DEF Inv, QueInv, SlotsBounded, RmwAssumption
<1>2. Len(RmwQue') \in Nat /\ Len(order') \in Nat
    <2>1. order' \in Seq(OrdT)
        BY TypeStep DEF TypeInv
    <2>2. RmwQue' \in Seq(EntryT)
        BY InvStep DEF Inv, QueInv
    <2> QED BY <2>1, <2>2
<1>3. CASE Len(RmwQue') = Len(RmwQue) /\ Len(order') <= Len(order)
    BY <1>1, <1>2, <1>3 DEF SlotsBounded
<1>4. CASE Enqueue
    <2>1. Len(RmwQue') = Len(RmwQue) + 1 /\ order' = order
        BY <1>4, EntAdded DEF Inv, Enqueue, Accept, sendVars
    <2>2. Len(RmwQue) + Len(order) < RMW_QUE_DEPTH
        BY <1>1, <1>4 DEF Enqueue, full
    <2> QED BY <1>1, <2>1, <2>2 DEF SlotsBounded
<1>5. CASE SendRead
    <2>1. Len(RmwQue') = Len(RmwQue) - 1 /\ order' = order
        BY <1>5, ReadLeaves DEF Inv, SendRead, sendVars
    <2> QED BY <1>1, <1>2, <2>1 DEF SlotsBounded
<1>6. CASE SendWrite
    <2>1. PICK w : Len(RmwQue') = Len(RmwQue) - 1 /\ order' = Append(order, w)
        BY ZenonT(60), <1>6, WriteGoes
    <2>2. Len(order') = Len(order) + 1
        BY <2>1, Typed, AppendProperties
    <2> QED BY <1>1, <1>2, <2>1, <2>2 DEF SlotsBounded
<1>7. CASE ABeat
    <2>1. Len(RmwQue') = Len(RmwQue)
        BY <1>7, BeatIs DEF Fills
    <2> QED BY <1>3, <1>7, <2>1, OrderIs
<1>8. CASE SendWdata
    BY <1>3, <1>8, OrderIs, SendIs
<1>9. CASE Quiet \/ NewCommand \/ Bypass
    <2>1. RmwQue' = RmwQue /\ order' = order
        <3>1. CASE Quiet
            BY <3>1 DEF Quiet, NoCommand, Refused, NoBeat, NoneSent, NoWdata, Stopped, vars, sendVars
        <3>2. CASE NewCommand \/ Bypass
            BY <3>2 DEF NewCommand, Bypass, Accept, sendVars
        <3> QED BY <1>9, <3>1, <3>2
    <2> QED BY <1>1, <1>3, <2>1
<1>10. CASE SchQue \/ BacklogRefuses \/ FinishNone \/ \E x \in transactionQueue : Finish(x)
    <2>1. Len(RmwQue') = Len(RmwQue)
        <3>1. FinishNone \/ (\E x \in transactionQueue : Finish(x)) => Ages
            BY DEF FinishNone, Finish
        <3> QED BY <1>10, <3>1, EntsScheduled, EntsEmptied, EntsAged DEF Inv
    <2>2. order' = order
        BY <1>10 DEF SchQue, BacklogRefuses, FinishNone, Finish, sendVars
    <2> QED BY <1>1, <1>3, <2>1, <2>2
<1>11. CASE Merge \/ SendMergeRead
    <2>1. Len(RmwQue') = Len(RmwQue)
        BY <1>11, MergeIs, EntReads DEF Inv
    <2>2. order' = order
        BY <1>11 DEF Merge, Accept, SendMergeRead, sendVars
    <2> QED BY <1>1, <1>3, <2>1, <2>2
<1> QED BY <1>4, <1>5, <1>6, <1>7, <1>8, <1>9, <1>10, <1>11, NextIs DEF InPlace, ABeat
-----------------------------------------------------------------------------
(*************************************************************************)
(* MapInv: write_map is what is due to a write.                            *)
(*************************************************************************)
(* What write_map says, in parts.                                          *)
LEMMA MapIs ==
    ASSUME Inv
    PROVE  /\ \A t \in Tasks : In(mcOrder, t) => write_map[t] = Due(mcOrder, t)
           /\ \A e \in Ents : ~Read(e) => write_map[e.task] = Beats(e)
           /\ RMW_CMD_MODE = 1 => \A t \in Tasks :
                 /\ fast_bypass[t] = 0
                 /\ write_map[t] > 0 => In(mcOrder, t) \/ \E e \in Ents : e.task = t /\ ~Read(e)
           /\ \A t : Due(mcOrder, t) \in Nat /\ (Due(mcOrder, t) > 0 <=> In(mcOrder, t))
<1>1. mcOrder \in Seq(OrdT) /\ Once(mcOrder)
    BY Typed
<1> QED BY <1>1, DueIs DEF Inv, MapInv

(* What write_map needs after a step.                                      *)
LEMMA MapFrom ==
    ASSUME Inv, [Next]_vars, ~UNPAIRED_TO_RMW_EN,
           \A t \in Tasks : In(mcOrder', t) => write_map'[t] = Due(mcOrder', t),
           \A e \in Ents' : ~Read(e) => write_map'[e.task] = Beats(e),
           RMW_CMD_MODE = 1 => \A t \in Tasks :
                 /\ fast_bypass'[t] = 0
                 /\ write_map'[t] > 0 => In(mcOrder', t) \/ \E e \in Ents' : e.task = t /\ ~Read(e)
    PROVE  MapInv'
<1>1. RMW_CMD_MODE' = RMW_CMD_MODE
    BY ConfigKept DEF RMW_CMD_MODE
<1> QED BY <1>1 DEF MapInv, In, Due, Read, Beats

(* The entries keep their names and lengths, and no write data moves.      *)
LEMMA MapStill ==
    ASSUME Inv, [Next]_vars, ~UNPAIRED_TO_RMW_EN, SameEnts, UNCHANGED <<write_map, mcOrder>>,
           RMW_CMD_MODE = 1 => fast_bypass' = fast_bypass
    PROVE  MapInv'
<1>1. \A e, f : SameName(e, f) => f.task = e.task /\ Beats(f) = Beats(e) /\ (Read(f) <=> Read(e))
    BY DEF SameName, Beats, Read
<1>2. \A f \in Ents' : ~Read(f) => write_map'[f.task] = Beats(f)
    BY <1>1, MapIs DEF SameEnts
<1>3. \A t : (\E e \in Ents : e.task = t /\ ~Read(e)) => \E f \in Ents' : f.task = t /\ ~Read(f)
    BY <1>1 DEF SameEnts
<1> QED BY <1>2, <1>3, MapIs, MapFrom

(* The controller takes a beat of the first write it expects.              *)
LEMMA MapPaid ==
    ASSUME Inv, [Next]_vars, ~UNPAIRED_TO_RMW_EN, Ents' = Ents, mcOrder # <<>>, mcOrder' = Took(mcOrder),
           write_map' = [write_map EXCEPT ![mcOrder[1].task] = @ - 1],
           RMW_CMD_MODE = 1 => fast_bypass' = fast_bypass
    PROVE  MapInv'
<1>1. PICK d : d = mcOrder[1].task
    OBVIOUS
<1>2. /\ mcOrder' \in Seq(OrdT) /\ Once(mcOrder') /\ d \in Tasks
      /\ \A t : Due(mcOrder', t) = IF t = d THEN Due(mcOrder, t) - 1 ELSE Due(mcOrder, t)
      /\ \A t : In(mcOrder', t) => In(mcOrder, t)
    BY <1>1, PaidIs DEF OrdT, Once, In, Due
<1>3. \A t : Due(mcOrder', t) > 0 <=> In(mcOrder', t)
    BY <1>2, DueIs
<1>4. In(mcOrder, d)
    <2>1. 1 \in 1 .. Len(mcOrder)
        BY Typed, EmptySeq
    <2> QED BY <1>1, <2>1 DEF In
<1>5. write_map \in [Tasks -> Nat]
    BY Typed
<1>6. \A t \in Tasks : write_map'[t] = IF t = d THEN write_map[t] - 1 ELSE write_map[t]
    BY <1>1, <1>5
<1>7. \A t \in Tasks : In(mcOrder', t) => write_map'[t] = Due(mcOrder', t)
    BY <1>2, <1>6, MapIs
<1>8. \A e \in Ents' : ~Read(e) => write_map'[e.task] = Beats(e)
    <2>1. \A e \in Ents : e.task \in Tasks /\ e.task # d
        BY <1>4, EntNew
    <2> QED BY <1>6, <2>1, MapIs
<1>9. ASSUME RMW_CMD_MODE = 1, NEW t \in Tasks, write_map'[t] > 0
      PROVE  In(mcOrder', t) \/ \E e \in Ents' : e.task = t /\ ~Read(e)
    <2>1. CASE t = d
        <3>1. write_map[t] = Due(mcOrder, t)
            BY <1>4, <2>1, MapIs
        <3>2. Due(mcOrder', t) > 0
            BY <1>2, <1>6, <1>9, <2>1, <3>1
        <3> QED BY <1>3, <3>2
    <2>2. CASE t # d /\ In(mcOrder, t)
        <3>1. Due(mcOrder, t) > 0
            BY <2>2, MapIs
        <3> QED BY <1>2, <1>3, <2>2, <3>1
    <2>3. CASE t # d /\ ~In(mcOrder, t)
        BY <1>6, <1>9, <2>3, MapIs
    <2> QED BY <2>1, <2>2, <2>3
<1> QED BY <1>7, <1>8, <1>9, MapIs, MapFrom

(* A beat lowers write_map and what is due together.                       *)
LEMMA MapBeat ==
    ASSUME Inv, [Next]_vars, ~UNPAIRED_TO_RMW_EN, ABeat
    PROVE  MapInv'
<1>1. RMW_CMD_MODE = 1 => fast_bypass' = fast_bypass
    <2>1. CASE BeatRemapped
        BY <2>1, RemapStep
    <2>2. CASE ~BeatRemapped /\ RMW_CMD_MODE = 1
        <3>1. PICK t : t = Head(write_task)
            OBVIOUS
        <3>2. t \in Tasks
            BY <3>1, BeatIs, HeadSent DEF Inv
        <3>3. fast_bypass[t] = 0
            BY <2>2, <3>2, MapIs
        <3>4. fast_bypass' = fast_bypass \/ fast_bypass[t] > 0
            BY <2>2, <3>1, WedBeatIs
        <3> QED BY <3>3, <3>4
    <2> QED BY <2>1, <2>2
<1>2. Fills(Head(write_task)) \/ (Pays(Head(write_task)) /\ Ents' = Ents)
    BY BeatIs
<1>3. CASE Fills(Head(write_task))
    <2>1. UNCHANGED <<write_map, mcOrder>>
        BY <1>3 DEF Fills
    <2> QED BY <1>1, <2>1, BeatSame, MapStill DEF Inv, ABeat
<1>4. CASE Pays(Head(write_task)) /\ Ents' = Ents
    BY <1>1, <1>4, MapPaid DEF Pays
<1> QED BY <1>2, <1>3, <1>4

(* A beat that is sent lowers both together.                               *)
LEMMA MapSent ==
    ASSUME Inv, [Next]_vars, ~UNPAIRED_TO_RMW_EN, SendWdata
    PROVE  MapInv'
<1>1. PICK t : t = Head(WdataToSend)
    OBVIOUS
<1>2. submitData(t) /\ RmwQue' = RmwQue /\ fast_bypass' = fast_bypass
    BY <1>1 DEF SendWdata, mergeVars
<1>3. Ents' = Ents
    BY <1>2, NoneChanged DEF Inv
<1>4. /\ mcOrder # <<>> /\ mcOrder[1].task = t /\ mcOrder' = Took(mcOrder)
      /\ write_map' = [write_map EXCEPT ![t] = @ - 1]
    BY <1>2, SubmitIs
<1> QED BY <1>2, <1>3, <1>4, MapPaid

(* Steps that change neither write_map nor an order.                       *)
LEMMA MapIdle ==
    ASSUME Inv, [Next]_vars, ~UNPAIRED_TO_RMW_EN,
           \/ Quiet \/ NewCommand \/ SchQue \/ BacklogRefuses \/ FinishNone \/ SendMergeRead
           \/ \E x \in transactionQueue : Finish(x)
    PROVE  MapInv'
<1>1. SameEnts
    BY InPlaceSame, ReadSame, UnitsFinish DEF Inv, InPlace
<1>2. UNCHANGED <<write_map, mcOrder, fast_bypass>>
    <2>1. CASE Quiet
        BY <2>1 DEF Quiet, NoCommand, Refused, NoBeat, NoneSent, NoWdata, Stopped, vars, mergeVars, dataVars
    <2>2. CASE ~Quiet
        BY <2>2 DEF NewCommand, SchQue, BacklogRefuses, FinishNone, SendMergeRead, Finish, mergeVars, dataVars
    <2> QED BY <2>1, <2>2
<1> QED BY <1>1, <1>2, MapStill

(* A read that leaves has no place in write_map.                           *)
LEMMA MapRead ==
    ASSUME Inv, [Next]_vars, ~UNPAIRED_TO_RMW_EN, SendRead
    PROVE  MapInv'
<1>1. PICK e \in Ents : Read(e) /\ Ents' = Ents \ {e}
    BY ReadLeaves DEF Inv
<1>2. UNCHANGED <<write_map, mcOrder, fast_bypass>>
    BY DEF SendRead, mergeVars, dataVars
<1> QED BY <1>1, <1>2, MapIs, MapFrom

(* A write that leaves is due what write_map holds.                        *)
LEMMA MapWrite ==
    ASSUME Inv, [Next]_vars, ~UNPAIRED_TO_RMW_EN, SendWrite
    PROVE  MapInv'
<1>1. UNCHANGED write_map
    BY DEF SendWrite
<1>2. PICK e \in Ents, n \in Nat \ {0}, b \in Nat :
              /\ ~Read(e) /\ Goes(e) /\ n = Beats(e) /\ b = Buffered(e)
              /\ Ents' = Ents \ {e}
              /\ fast_bypass' = IF b < n /\ ~(e.first # NoTask /\ RMW_CMD_MODE = 2)
                                THEN [fast_bypass EXCEPT ![e.task] = n - b] ELSE fast_bypass
              /\ mcOrder' \in Seq(OrdT) /\ Once(mcOrder')
              /\ \A t : Due(mcOrder', t) = IF t = e.task THEN n ELSE Due(mcOrder, t)
    BY ZenonT(60), WriteGoes
<1>3. \A t : Due(mcOrder', t) > 0 <=> In(mcOrder', t)
    BY <1>2, DueIs
<1>4. PICK u : u = e.task
    OBVIOUS
<1>5. /\ \A t : In(mcOrder', t) <=> In(mcOrder, t) \/ t = u
    BY <1>2, <1>3, <1>4, MapIs
<1>6. \A t \in Tasks : In(mcOrder', t) => write_map'[t] = Due(mcOrder', t)
    BY <1>1, <1>2, <1>4, <1>5, MapIs
<1>7. RMW_CMD_MODE = 1 => fast_bypass' = fast_bypass
    <2>1. RMW_CMD_MODE = 1 => b = n
        BY <1>2, BufferedIs
    <2> QED BY <1>2, <2>1
<1>8. \A f \in Ents' : ~Read(f) => write_map'[f.task] = Beats(f)
    BY <1>1, <1>2, MapIs
<1>9. RMW_CMD_MODE = 1 => \A t \in Tasks :
          write_map'[t] > 0 => In(mcOrder', t) \/ \E f \in Ents' : f.task = t /\ ~Read(f)
    BY <1>1, <1>2, <1>4, <1>5, MapIs
<1> QED BY <1>6, <1>7, <1>8, <1>9, MapIs, MapFrom
-----------------------------------------------------------------------------
(* A new write enters write_map with its length.                           *)
LEMMA MapEnqueue ==
    ASSUME Inv, [Next]_vars, ~UNPAIRED_TO_RMW_EN, Enqueue
    PROVE  MapInv'
<1>1. Accept /\ UNCHANGED <<mcOrder, fast_bypass>>
    BY DEF Enqueue, Accept
<1>2. PICK u : u = Task
    OBVIOUS
<1>3. u \in Tasks /\ u \notin Taken
    BY <1>1, <1>2, AcceptIs
<1>4. PICK e \in EntT : /\ e.task = u /\ e.kind = Cmd.kind /\ e.left = Cmd.left /\ e.right = Cmd.right
                        /\ Ents' = Ents \cup {e}
    BY <1>2, EntAdded DEF Inv
<1>5. Beats(e) = Beats(Cmd) /\ (Read(e) <=> Read(Cmd))
    BY <1>4 DEF Beats, Read
<1>6. /\ ~In(mcOrder, u) /\ \A d \in Ents : d.task # u
    BY <1>3, Fresh
<1>7. write_map' = [write_map EXCEPT ![u] = IF Read(Cmd) THEN 0 ELSE Beats(Cmd)] /\ write_map \in [Tasks -> Nat]
    BY <1>2, Typed DEF Enqueue
<1>8. \A t \in Tasks : write_map'[t] = IF t # u THEN write_map[t] ELSE IF Read(e) THEN 0 ELSE Beats(e)
    BY <1>3, <1>5, <1>7
<1>9. \A t \in Tasks : In(mcOrder', t) => write_map'[t] = Due(mcOrder', t)
    BY <1>1, <1>6, <1>8, MapIs
<1>10. \A f \in Ents' : ~Read(f) => write_map'[f.task] = Beats(f)
    <2>1. \A d \in Ents : d.task \in Tasks
        BY EntNew
    <2> QED BY <1>3, <1>4, <1>6, <1>8, <2>1, MapIs
<1>11. RMW_CMD_MODE = 1 => \A t \in Tasks :
          write_map'[t] > 0 => In(mcOrder', t) \/ \E f \in Ents' : f.task = t /\ ~Read(f)
    <2> SUFFICES ASSUME RMW_CMD_MODE = 1, NEW t \in Tasks, write_map'[t] > 0
                 PROVE  In(mcOrder', t) \/ \E f \in Ents' : f.task = t /\ ~Read(f)
        OBVIOUS
    <2>1. CASE t = u
        BY <1>4, <1>8, <2>1
    <2>2. CASE t # u
        BY <1>1, <1>4, <1>8, <2>2, MapIs
    <2> QED BY <2>1, <2>2
<1> QED BY <1>1, <1>9, <1>10, <1>11, MapIs, MapFrom

(* A write that passes by enters write_map and the order.                  *)
LEMMA MapBypass ==
    ASSUME Inv, [Next]_vars, ~UNPAIRED_TO_RMW_EN, Bypass
    PROVE  MapInv'
<1>1. Accept /\ UNCHANGED <<RmwQue, fast_bypass>>
    BY DEF Bypass, Accept
<1>2. SameEnts /\ Ents' = Ents
    BY <1>1, NoneChanged DEF Inv
<1>3. CASE Read(Cmd)
    BY <1>1, <1>2, <1>3, MapStill DEF Bypass
<1>4. CASE ~Read(Cmd)
    <2>1. PICK u, n : u = Task /\ n = Beats(Cmd)
        OBVIOUS
    <2>2. u \in Tasks /\ u \notin Taken /\ n \in Nat \ {0}
        BY <1>1, <2>1, AcceptIs, NextTask DEF Inv
    <2>3. /\ ~In(mcOrder, u) /\ \A d \in Ents : d.task # u
        BY <2>2, Fresh
    <2>4. /\ mcOrder' = Append(mcOrder, [task |-> u, beats |-> n])
          /\ write_map' = [write_map EXCEPT ![u] = n]
        BY <1>4, <2>1 DEF Bypass, Expect
    <2>5. /\ mcOrder' \in Seq(OrdT) /\ Once(mcOrder')
          /\ \A t : Due(mcOrder', t) = IF t = u THEN n ELSE Due(mcOrder, t)
        BY <2>2, <2>3, <2>4, Typed, DueAppend
    <2>6. \A t : Due(mcOrder', t) > 0 <=> In(mcOrder', t)
        BY <2>5, DueIs
    <2>7. \A t : In(mcOrder', t) <=> In(mcOrder, t) \/ t = u
        BY <2>2, <2>5, <2>6, MapIs
    <2>8. \A t \in Tasks : write_map'[t] = IF t = u THEN n ELSE write_map[t]
        BY <2>2, <2>4, Typed
    <2>9. \A t \in Tasks : In(mcOrder', t) => write_map'[t] = Due(mcOrder', t)
        BY <2>5, <2>7, <2>8, MapIs
    <2>10. \A f \in Ents' : ~Read(f) => write_map'[f.task] = Beats(f)
        BY <1>2, <2>3, <2>8, MapIs, EntNew
    <2>11. RMW_CMD_MODE = 1 => \A t \in Tasks :
              write_map'[t] > 0 => In(mcOrder', t) \/ \E f \in Ents' : f.task = t /\ ~Read(f)
        BY <1>2, <2>7, <2>8, MapIs
    <2> QED BY <1>1, <2>9, <2>10, <2>11, MapIs, MapFrom
<1> QED BY <1>3, <1>4

(* The merged write takes over its partner's place in write_map.           *)
LEMMA MapMerge ==
    ASSUME Inv, [Next]_vars, ~UNPAIRED_TO_RMW_EN, Merge
    PROVE  MapInv'
<1>1. Accept /\ UNCHANGED <<mcOrder, fast_bypass>>
    BY DEF Merge, Accept
<1>2. PICK u : u = Task
    OBVIOUS
<1>3. PICK d \in Ents, f \in EntT :
              /\ Ents' = (Ents \ {d}) \cup {f}
              /\ f.task = u /\ f.kind = "full" /\ Beats(f) = 4
              /\ write_map' = [write_map EXCEPT ![u] = 4, ![d.task] = IF RMW_CMD_MODE = 1 THEN 0 ELSE @]
    BY ZenonT(60), <1>2, MergeTasks
<1>4. u \in Tasks /\ u \notin Taken
    BY <1>1, <1>2, AcceptIs
<1>5. ~In(mcOrder, u) /\ \A e \in Ents : e.task # u
    BY <1>4, Fresh
<1>6. d.task \in Tasks /\ ~In(mcOrder, d.task)
      /\ \A e \in Ents : e # d => e.task # d.task
    BY EntNew
<1>7. \A t \in Tasks : write_map'[t] = IF t = u THEN 4 ELSE
                                       IF t = d.task /\ RMW_CMD_MODE = 1 THEN 0 ELSE write_map[t]
    <2>1. d.task # u
        BY <1>5
    <2> QED BY <1>3, <1>4, <1>6, <2>1, Typed
<1>8. \A t \in Tasks : In(mcOrder', t) => write_map'[t] = Due(mcOrder', t)
    BY <1>1, <1>5, <1>6, <1>7, MapIs
<1>9. \A e \in Ents' : ~Read(e) => write_map'[e.task] = Beats(e)
    <2>1. \A e \in Ents : e.task \in Tasks
        BY EntNew
    <2>2. ASSUME NEW e \in Ents', ~Read(e) PROVE write_map'[e.task] = Beats(e)
        <3>1. CASE e = f
            BY <1>3, <1>4, <1>7, <3>1
        <3>2. CASE e # f
            <4>1. e \in Ents /\ e # d
                BY <1>3, <3>2
            <4>2. e.task \in Tasks /\ e.task # u /\ e.task # d.task
                BY <1>5, <1>6, <2>1, <4>1
            <4> QED BY <1>7, <2>2, <4>1, <4>2, MapIs
        <3> QED BY <3>1, <3>2
    <2> QED BY <2>2
<1>10. RMW_CMD_MODE = 1 => \A t \in Tasks :
          write_map'[t] > 0 => In(mcOrder', t) \/ \E e \in Ents' : e.task = t /\ ~Read(e)
    <2> SUFFICES ASSUME RMW_CMD_MODE = 1, NEW t \in Tasks, write_map'[t] > 0
                 PROVE  In(mcOrder', t) \/ \E e \in Ents' : e.task = t /\ ~Read(e)
        OBVIOUS
    <2>1. CASE t = u
        BY <1>3, <2>1 DEF Read
    <2>2. CASE t # u
        <3>1. t # d.task /\ write_map[t] > 0
            BY <1>7, <2>2
        <3> QED BY <1>1, <1>3, <3>1, MapIs
    <2> QED BY <2>1, <2>2
<1> QED BY <1>1, <1>8, <1>9, <1>10, MapIs, MapFrom

(* Every step keeps write_map right.                                       *)
LEMMA MapStep ==
    ASSUME Inv, [Next]_vars, ~UNPAIRED_TO_RMW_EN
    PROVE  MapInv'
<1>1. CASE InPlace
    BY <1>1, MapIdle, MapBeat, MapSent DEF InPlace, ABeat
<1> QED BY <1>1, NextIs, MapEnqueue, MapBypass, MapMerge, MapIdle, MapRead, MapWrite
-----------------------------------------------------------------------------
(***************************************************************************)
(* The invariant.                                                          *)
(***************************************************************************)
LEMMA AllInit ==
    ASSUME Init
    PROVE  Inv
<1>1. QueInv
    BY InvInit
<1>2. RmwQue = <<>> /\ order = <<>> /\ mcOrder = <<>> /\ WdataToSend = <<>> /\ write_task = <<>> /\ remaps = <<>>
      /\ transactionQueue = {} /\ bypassed = {} /\ answered = {} /\ accepted = 0 /\ cmds = <<>>
    BY DEF Init
<1>3. Ents = {} /\ Units = {} /\ Writes = {} /\ Served = {} /\ Taken = {}
    <2>1. Len(RmwQue) = 0
        BY <1>2
    <2> QED BY <1>2, <2>1 DEF Ents, Units, Writes, Served, Taken
<1>4. TypeInv
    <2>1. /\ Len(cmds) <= NTasks /\ write_task \in Seq(Tasks) /\ WdataToSend \in Seq(Tasks)
          /\ order \in Seq(OrdT) /\ mcOrder \in Seq(OrdT) /\ remaps \in Seq(RemapT)
        BY <1>2, TaskIs
    <2>2. /\ config \in Configs /\ phase \in {"cmd", "data", "sch", "arb", "wdata", "mc"}
        BY DEF Init
    <2>3. fast_bypass \in [Tasks -> Nat] /\ write_map \in [Tasks -> Nat] /\ rd_finish \in [Tasks -> States]
        BY DEF Init, States
    <2>4. data_taken \in BOOLEAN /\ asserted \in BOOLEAN
        BY Zenon DEF Init
    <2> QED BY <1>2, <1>3, <2>1, <2>2, <2>3, <2>4 DEF TypeInv
<1>5. UnitInv
    BY <1>2, <1>3 DEF UnitInv
<1>6. \A t : Rem(t) = 0 /\ Count(WdataToSend, t) = 0
    BY <1>2, <1>4, CountNone DEF TypeInv, Rem
<1>7. \A t : ~In(mcOrder, t) /\ ~In(order, t)
    BY <1>2 DEF In
<1>8. DataInv
    BY <1>2, <1>3, <1>6, <1>7 DEF DataInv, Once
<1>9. ReadInv
    BY <1>2, <1>3 DEF ReadInv, Init
<1>10. WedInv
    BY <1>2, <1>3 DEF WedInv, Init
<1>11. StepInv
    BY <1>2, <1>6, <1>7 DEF StepInv, InStep, Untracked, Init
<1>12. MapInv
    BY <1>3, <1>7 DEF MapInv, Init
<1>13. SlotsBounded
    BY <1>2, RmwAssumption DEF SlotsBounded, RmwAssumption
<1> QED BY <1>1, <1>4, <1>5, <1>8, <1>9, <1>10, <1>11, <1>12, <1>13 DEF Inv

(* Every step keeps the invariant.                                         *)
LEMMA AllStep ==
    ASSUME Inv, [Next]_vars, ~UNPAIRED_TO_RMW_EN
    PROVE  Inv'
BY InvStep, TypeStep, UnitsStep, DataStep, ReadStep, WedStep, StepStep, MapStep, SlotsStep DEF Inv

(* The invariant always holds.                                             *)
LEMMA AlwaysInv == ~UNPAIRED_TO_RMW_EN => (Spec => []Inv)
<1> SUFFICES ASSUME ~UNPAIRED_TO_RMW_EN PROVE Spec => []Inv
    OBVIOUS
<1>1. Init => Inv
    BY AllInit
<1>2. Inv /\ [Next]_vars => Inv'
    BY AllStep
<1> QED BY <1>1, <1>2, PTL DEF Spec
-----------------------------------------------------------------------------
(*************************************************************************)
(* The invariants of Rmw follow from Inv.                                  *)
(*************************************************************************)
(* An entry of the queue, and the same without its count.                  *)
LEMMA EntOf ==
    ASSUME Inv, NEW q \in Range1(RmwQue)
    PROVE  \E e \in Ents : /\ e.task = q.task /\ e.first = q.first /\ e.kind = q.kind /\ e.left = q.left
                           /\ e.right = q.right /\ e.ready = q.ready /\ e.state = q.state /\ e.age = q.age
                           /\ Beats(e) = Beats(q) /\ (Read(e) <=> Read(q))
<1>1. PICK i \in 1 .. Len(RmwQue) : q = RmwQue[i]
    BY DEF Range1, Inv, QueInv
<1>2. q \in EntryT /\ Stripped(q) \in Ents
    BY <1>1, EntsAre DEF Inv
<1>3. PICK e \in Ents : e = Stripped(q)
    BY <1>2
<1>4. /\ e.task = q.task /\ e.first = q.first /\ e.kind = q.kind /\ e.left = q.left
      /\ e.right = q.right /\ e.ready = q.ready /\ e.state = q.state /\ e.age = q.age
    BY <1>2, <1>3, StrippedIs
<1> QED BY <1>4 DEF Beats, Read

(* What is in the set is in the queue.                                     *)
LEMMA EntIn ==
    ASSUME Inv, NEW e \in Ents
    PROVE  \E q \in Range1(RmwQue) : q.task = e.task /\ q.state = e.state /\ q.kind = e.kind
<1>1. PICK i \in 1 .. Len(RmwQue) : e = Stripped(RmwQue[i])
    BY DEF Ents
<1>2. RmwQue[i] \in EntryT /\ RmwQue[i] \in Range1(RmwQue)
    BY EntsAre DEF Inv, Range1, QueInv
<1> QED BY <1>1, <1>2, StrippedIs

(* What the driver has sent of a write, and has not.                       *)
LEMMA GivenIs ==
    ASSUME Inv, NEW t \in Taken, ~Read(cmds[t])
    PROVE  Given(t) = Burst(t) - Rem(t) /\ Burst(t) = Beats(cmds[t]) /\ Burst(t) \in Nat /\ Rem(t) \in Nat
<1>1. t # NoTask /\ ~(t > accepted) /\ accepted \in Nat /\ t \in Nat
    BY TakenTasks, TaskIs DEF Inv, Taken
<1> QED BY <1>1, BurstType, RemType DEF Given, Burst, Rem, Inv

(* No task has no beats.                                                   *)
LEMMA NoneGiven == ASSUME Inv PROVE Given(NoTask) = 0 /\ Burst(NoTask) = 0 /\ Rem(NoTask) = 0
BY RemType DEF Given, Burst, Inv

(* A mask write that is ready has its read behind it.                      *)
LEMMA ReadFirst == ASSUME Inv PROVE MergeReadFirst
<1>1. ASSUME NEW t \in Tasks, Merging(t)
      PROVE  /\ rd_finish[t] = "open"
             /\ \E e \in Range1(RmwQue) : e.task = t /\ e.state = "merge_read"
    <2>1. PICK x \in transactionQueue : x.task = t /\ x.kind = "merge"
        BY <1>1 DEF Merging
    <2>2. PICK e \in Ents : e.task = t /\ e.kind = "mask" /\ e.state = "merge_read"
        BY <2>1 DEF Inv, ReadInv
    <2>3. rd_finish[t] = "open"
        BY <1>1, <2>2 DEF Inv, ReadInv, MaskOk
    <2> QED BY <2>2, <2>3, EntIn
<1>2. ASSUME NEW q \in Range1(RmwQue), q.kind = "mask", q.state = "ready"
      PROVE  Given(q.task) = Beats(q) /\ rd_finish[q.task] = "none"
    <2>1. PICK e \in Ents : /\ e.task = q.task /\ e.kind = "mask" /\ e.state = "ready" /\ Beats(e) = Beats(q)
        BY <1>2, EntOf
    <2>2. e.task \in Taken /\ ~Read(cmds[e.task])
        BY <2>1, EntUnit DEF Inv, DataInv, EntOk, Read
    <2>3. Left(e) = 0 /\ e.first = NoTask /\ Beats(e) = Burst(e.task) + Burst(e.first)
        BY <2>1 DEF Inv, DataInv, EntOk
    <2>4. Given(e.task) = Burst(e.task) - Rem(e.task) /\ Burst(e.task) \in Nat /\ Rem(e.task) \in Nat
        BY <2>2, GivenIs
    <2>5. Left(e) = Rem(e.task) + Rem(NoTask) /\ Rem(NoTask) = 0 /\ Burst(NoTask) = 0
        BY <2>3, NoneGiven, EntNumbers
    <2>6. Given(e.task) = Beats(e)
        BY <2>3, <2>4, <2>5
    <2>7. rd_finish[e.task] = "none"
        BY <2>1 DEF Inv, ReadInv, MaskOk
    <2> QED BY <2>1, <2>6, <2>7
<1>3. ASSUME NEW q \in Range1(RmwQue), q.kind = "mask", q.state = "merge_read"
      PROVE  Merging(q.task) <=> rd_finish[q.task] = "open"
    <2>1. PICK e \in Ents : e.task = q.task /\ e.kind = "mask" /\ e.state = "merge_read"
        BY <1>3, EntOf
    <2> QED BY <2>1 DEF Inv, ReadInv, MaskOk
<1> QED BY <1>1, <1>2, <1>3 DEF MergeReadFirst

(* The account of the beats is WdataKept.                                  *)
LEMMA DataKept == ASSUME Inv PROVE WdataKept
<1>1. ASSUME ~AREF_EN, NEW q \in Range1(RmwQue), ~Read(q)
      PROVE  q.ready = Given(q.task) + Given(q.first)
    <2>1. PICK e \in Ents : e.task = q.task /\ e.first = q.first /\ e.ready = q.ready /\ ~Read(e)
        BY <1>1, EntOf
    <2>2. /\ e.ready + Left(e) = Beats(e) /\ Beats(e) = Burst(e.task) + Burst(e.first)
          /\ ~Read(cmds[e.task]) /\ (e.first # NoTask => ~Read(cmds[e.first]))
        BY <1>1, <2>1 DEF Inv, DataInv, EntOk, Read
    <2>3. e.task \in Taken /\ e.first \in Taken \cup {NoTask} /\ e.ready \in Nat
        BY EntUnit, EntNumbers
    <2>4. Given(e.task) = Burst(e.task) - Rem(e.task) /\ Burst(e.task) \in Nat /\ Rem(e.task) \in Nat
        BY <2>2, <2>3, GivenIs
    <2>5. Given(e.first) = Burst(e.first) - Rem(e.first) /\ Burst(e.first) \in Nat /\ Rem(e.first) \in Nat
        BY <2>2, <2>3, GivenIs, NoneGiven
    <2>6. Left(e) = Rem(e.task) + Rem(e.first)
        BY DEF Left
    <2>7. e.ready = Given(e.task) + Given(e.first)
        BY <2>2, <2>3, <2>4, <2>5, <2>6
    <2> QED BY <2>1, <2>7
<1>2. ASSUME ~AREF_EN, NEW x \in transactionQueue, x.kind = "write"
      PROVE  Owed(x.task) = (Burst(x.task) - Given(x.task)) + (Burst(x.first) - Given(x.first))
                                + Count(WdataToSend, x.task)
    <2>1. x \in Writes
        BY <1>2 DEF Writes
    <2>2. /\ ~Read(cmds[x.task]) /\ (x.first # NoTask => ~Read(cmds[x.first]))
          /\ Due(mcOrder, x.task) = Left(x) + Count(WdataToSend, x.task)
        BY <1>2, <2>1 DEF Inv, DataInv, WriteOk
    <2>3. x.task \in Taken /\ x.first \in Taken \cup {NoTask}
        BY <2>1, WriteUnit
    <2>4. Given(x.task) = Burst(x.task) - Rem(x.task) /\ Burst(x.task) \in Nat /\ Rem(x.task) \in Nat
        BY <2>2, <2>3, GivenIs
    <2>5. Given(x.first) = Burst(x.first) - Rem(x.first) /\ Burst(x.first) \in Nat /\ Rem(x.first) \in Nat
        BY <2>2, <2>3, GivenIs, NoneGiven
    <2>6. Left(x) = Rem(x.task) + Rem(x.first) /\ Count(WdataToSend, x.task) \in Nat
        BY RemType DEF Left, Inv
    <2>7. Owed(x.task) = Due(mcOrder, x.task)
        BY DEF Owed, Due
    <2> QED BY <2>2, <2>4, <2>5, <2>6, <2>7
<1> QED BY <1>1, <1>2 DEF WdataKept

(* Orders in step are what OrdersInStep says.                              *)
LEMMA InOrder == ASSUME Inv PROVE OrdersInStep
<1> SUFFICES ASSUME RMW_CMD_MODE # 2
             PROVE  /\ ~asserted
                    /\ \E f \in [DOMAIN order -> Tracked] :
                          /\ \A i, j \in DOMAIN order : i < j => f[i] < f[j]
                          /\ \A k \in Tracked : \E i \in DOMAIN order : f[i] = k
                          /\ \A i \in DOMAIN order : order[i] = mcOrder[f[i]]
    BY DEF OrdersInStep
<1>1. /\ ~asserted /\ Follows(order, mcOrder) /\ Once(mcOrder)
      /\ DOMAIN order = 1 .. Len(order) /\ DOMAIN mcOrder = 1 .. Len(mcOrder)
    <2>1. order \in Seq(OrdT) /\ mcOrder \in Seq(OrdT)
        BY Typed
    <2> QED BY <2>1, StepFollows
<1> DEFINE f == [i \in DOMAIN order |-> CHOOSE k \in DOMAIN mcOrder : mcOrder[k] = order[i]]
<1>2. \A i \in DOMAIN order : f[i] \in DOMAIN mcOrder /\ mcOrder[f[i]] = order[i]
    BY <1>1 DEF Follows
<1>3. f \in [DOMAIN order -> Tracked]
    <2>1. \A i \in DOMAIN order : f[i] \in Tracked
        BY <1>2 DEF Tracked, Range1
    <2> QED BY <2>1
<1> HIDE DEF f
<1>4. \A i, j \in DOMAIN order : i < j => f[i] < f[j]
    BY <1>1, <1>2 DEF Follows
<1>5. ASSUME NEW k \in Tracked PROVE \E i \in DOMAIN order : f[i] = k
    <2>1. PICK i \in DOMAIN order : order[i].task = mcOrder[k].task /\ k \in DOMAIN mcOrder
        BY DEF Tracked, Range1
    <2>2. f[i] = k
        BY <1>1, <1>2, <2>1 DEF Once
    <2> QED BY <2>2
<1> QED BY <1>1, <1>2, <1>3, <1>4, <1>5
-----------------------------------------------------------------------------
(* The variables have the shape TypeOK says.                               *)
LEMMA Shaped == ASSUME Inv PROVE TypeOK
<1>1. /\ config \in Configs /\ phase \in {"cmd", "data", "sch", "arb", "wdata", "mc"}
      /\ cmds \in Seq(Offers) /\ accepted \in 0 .. Len(cmds) /\ Len(cmds) <= NTasks
    BY DEF Inv, TypeInv, QueInv
<1>2. ASSUME NEW q \in Range1(RmwQue)
      PROVE  q \in Entries /\ q.ready <= Beats(q) /\ (Read(q) => q.state = "waiting")
    <2>1. PICK i \in 1 .. Len(RmwQue) : q = RmwQue[i]
        BY DEF Range1, Inv, QueInv
    <2>2. q \in EntryT
        BY <2>1, EntsAre DEF Inv
    <2>3. PICK e \in Ents : /\ e.task = q.task /\ e.first = q.first /\ e.ready = q.ready /\ e.state = q.state
                            /\ e.age = q.age /\ Beats(e) = Beats(q) /\ (Read(e) <=> Read(q))
        BY EntOf
    <2>4. e.task \in Tasks /\ e.first \in Tasks \cup {NoTask}
        BY EntUnit, TakenTasks DEF Inv
    <2>5. e.age <= AgeMax /\ AgeMax \in Nat
        BY AgeMaxType DEF Inv, TypeInv
    <2>6. q.age \in 0 .. AgeMax
        BY <2>2, <2>3, <2>5 DEF EntryT
    <2>7. q \in Entries
        BY <2>2, <2>3, <2>4, <2>6 DEF EntryT, Entries
    <2>8. e.ready <= Beats(e)
        <3>1. e.ready \in Nat /\ Left(e) \in Nat /\ Beats(e) \in Nat /\ e.ready + Left(e) <= Beats(e)
            BY EntNumbers
        <3> QED BY <3>1
    <2>9. Read(e) => e.state = "waiting"
        BY DEF Inv, DataInv, EntOk
    <2> QED BY <2>3, <2>7, <2>8, <2>9
<1>3. RmwQue \in Seq(Entries)
    <2>1. RmwQue \in Seq(EntryT)
        BY DEF Inv, QueInv
    <2>2. \A i \in 1 .. Len(RmwQue) : RmwQue[i] \in Entries
        BY <1>2, <2>1 DEF Range1
    <2> QED BY <2>1, <2>2, SeqDef
<1>4. answered \subseteq Tasks
    BY TakenTasks DEF Inv, UnitInv
<1>5. {data_taken, asserted} \subseteq BOOLEAN
    BY Zenon DEF Inv, TypeInv
<1> QED BY <1>1, <1>2, <1>3, <1>4, <1>5, Typed DEF TypeOK, RemapT, MergedT, States, OrdT, TransT

(* No two places hold the same command.                                    *)
LEMMA OnePlace ==
    ASSUME Inv, NEW t \in Tasks
    PROVE  /\ \A i \in 1 .. Len(RmwQue) : /\ RmwQue[i].task # RmwQue[i].first
                                          /\ t \in Names(RmwQue[i]) <=> RmwQue[i].task = t \/ RmwQue[i].first = t
           /\ \A i, j \in 1 .. Len(RmwQue) : t \in Names(RmwQue[i]) /\ t \in Names(RmwQue[j]) => i = j
           /\ \A i \in 1 .. Len(RmwQue), x \in Served : ~(t \in Names(RmwQue[i]) /\ t \in Names(x))
           /\ \A x, y \in Served : t \in Names(x) /\ t \in Names(y) => x = y
           /\ \A i \in 1 .. Len(RmwQue) : t \in Names(RmwQue[i]) => t \notin answered /\ t \in Taken
           /\ \A x \in Served : t \in Names(x) => t \notin answered /\ t \in Taken
           /\ t \in Taken => \/ t \in answered \/ \E i \in 1 .. Len(RmwQue) : t \in Names(RmwQue[i])
                             \/ \E x \in Served : t \in Names(x)
           /\ answered \subseteq Taken
<1>1. /\ \A e \in Ents : Waiting(e) \in Units /\ Names(Waiting(e)) = Names(e) /\ Waiting(e).at = "rmw"
      /\ \A e \in Ents : e.task # e.first
    BY EntUnit
<1>2. \A x \in Served : Sent(x) \in Units /\ Names(Sent(x)) = Names(x)
    BY UnitsAre DEF Inv, Names
<1>3. \A i \in 1 .. Len(RmwQue) : \E e \in Ents :
         e = Stripped(RmwQue[i]) /\ e.task = RmwQue[i].task /\ e.first = RmwQue[i].first /\ Names(e) = Names(RmwQue[i])
    BY EntsAre, StrippedIs DEF Inv, Names
<1>4. t # NoTask
    BY TaskIs
<1>5. \A i \in 1 .. Len(RmwQue) : /\ RmwQue[i].task # RmwQue[i].first
                                  /\ t \in Names(RmwQue[i]) <=> RmwQue[i].task = t \/ RmwQue[i].first = t
    BY <1>1, <1>3, <1>4 DEF Names
<1>6. \A u, v \in Units : t \in Names(u) /\ t \in Names(v) => u = v
    BY DEF Inv, UnitInv
<1>7. ASSUME NEW i \in 1 .. Len(RmwQue), NEW j \in 1 .. Len(RmwQue), t \in Names(RmwQue[i]), t \in Names(RmwQue[j])
      PROVE  i = j
    <2>1. PICK e \in Ents, f \in Ents : /\ e.task = RmwQue[i].task /\ Names(e) = Names(RmwQue[i])
                                        /\ f.task = RmwQue[j].task /\ Names(f) = Names(RmwQue[j])
        BY <1>3
    <2>2. Waiting(e) = Waiting(f)
        BY <1>1, <1>6, <1>7, <2>1
    <2>3. e.task = f.task
        BY <2>2 DEF Waiting
    <2> QED BY <2>1, <2>3 DEF Inv, QueInv, Distinct
<1>8. ASSUME NEW i \in 1 .. Len(RmwQue), NEW x \in Served, t \in Names(RmwQue[i]), t \in Names(x)
      PROVE  FALSE
    <2>1. PICK e \in Ents : Names(e) = Names(RmwQue[i])
        BY <1>3
    <2>2. Waiting(e) = Sent(x)
        BY <1>1, <1>2, <1>6, <1>8, <2>1
    <2> QED BY <2>2, UnitsAre DEF Inv
<1>9. ASSUME NEW x \in Served, NEW y \in Served, t \in Names(x), t \in Names(y) PROVE x = y
    <2>1. Sent(x) = Sent(y)
        BY <1>2, <1>6, <1>9
    <2> QED BY <2>1, UnitsAre DEF Inv
<1>10. \A u \in Units : t \in Names(u) => t \notin answered /\ t \in Taken
    BY <1>4 DEF Inv, UnitInv, Names
<1>11. \A i \in 1 .. Len(RmwQue) : t \in Names(RmwQue[i]) => t \notin answered /\ t \in Taken
    BY <1>1, <1>3, <1>10
<1>12. \A x \in Served : t \in Names(x) => t \notin answered /\ t \in Taken
    BY <1>2, <1>10
<1>13. ASSUME t \in Taken, t \notin answered
       PROVE  \/ \E i \in 1 .. Len(RmwQue) : t \in Names(RmwQue[i])
              \/ \E x \in Served : t \in Names(x)
    <2>1. PICK u \in Units : t \in Names(u)
        BY <1>13 DEF Inv, UnitInv
    <2>2. CASE \E e \in Ents : u = Waiting(e)
        <3>1. PICK e \in Ents : t \in Names(e)
            BY <1>1, <2>1, <2>2
        <3>2. PICK i \in 1 .. Len(RmwQue) : e = Stripped(RmwQue[i])
            BY DEF Ents
        <3>3. t \in Names(RmwQue[i])
            BY <1>3, <3>1, <3>2
        <3> QED BY <3>3
    <2>3. CASE \E x \in Served : u = Sent(x)
        BY <1>2, <2>1, <2>3
    <2> QED BY <2>2, <2>3, UnitsAre DEF Inv
<1> QED BY <1>5, <1>7, <1>8, <1>9, <1>11, <1>12, <1>13 DEF Inv, UnitInv

(* The holders are what ServedOnce says.                                   *)
LEMMA OnceServed == ASSUME Inv PROVE ServedOnce
<1> SUFFICES ASSUME NEW t \in Tasks PROVE Places(t) = (IF t <= accepted THEN 1 ELSE 0)
    BY DEF ServedOnce
<1> DEFINE A == {i \in DOMAIN RmwQue : RmwQue[i].task = t}
           B == {i \in DOMAIN RmwQue : RmwQue[i].first = t}
           C == {x \in transactionQueue : x.kind # "merge" /\ t \in {x.task, x.first}}
           d == IF t \in answered THEN 1 ELSE 0
<1>1. DOMAIN RmwQue = 1 .. Len(RmwQue) /\ t # NoTask
    BY TaskIs DEF Inv, QueInv
<1>2. C = {x \in Served : t \in Names(x)}
    BY <1>1 DEF Served, Names
<1>3. t \in Taken <=> t <= accepted
    BY TaskIs DEF Inv, QueInv, Taken
<1>4. Places(t) = Cardinality(A) + Cardinality(B) + Cardinality(C) + d
    BY DEF Places
<1>5. Cardinality({}) = 0 /\ \A z : Cardinality({z}) = 1
    BY FS_EmptySet, FS_Singleton
<1>6. CASE \E i \in 1 .. Len(RmwQue) : RmwQue[i].task = t
    <2>1. PICK i \in 1 .. Len(RmwQue) : RmwQue[i].task = t
        BY <1>6
    <2>2. A = {i} /\ B = {} /\ C = {} /\ t \notin answered /\ t \in Taken
        BY <1>1, <1>2, <2>1, OnePlace
    <2> HIDE DEF A, B, C
    <2>3. Cardinality(A) = 1 /\ Cardinality(B) = 0 /\ Cardinality(C) = 0
        BY <1>5, <2>2
    <2> QED BY <1>3, <1>4, <2>2, <2>3
<1>7. CASE \E i \in 1 .. Len(RmwQue) : RmwQue[i].first = t
    <2>1. PICK i \in 1 .. Len(RmwQue) : RmwQue[i].first = t
        BY <1>7
    <2>2. A = {} /\ B = {i} /\ C = {} /\ t \notin answered /\ t \in Taken
        BY <1>1, <1>2, <2>1, OnePlace
    <2> HIDE DEF A, B, C
    <2>3. Cardinality(A) = 0 /\ Cardinality(B) = 1 /\ Cardinality(C) = 0
        BY <1>5, <2>2
    <2> QED BY <1>3, <1>4, <2>2, <2>3
<1>8. CASE \E x \in Served : t \in Names(x)
    <2>1. PICK x \in Served : t \in Names(x)
        BY <1>8
    <2>2. A = {} /\ B = {} /\ C = {x} /\ t \notin answered /\ t \in Taken
        BY <1>1, <1>2, <2>1, OnePlace
    <2> HIDE DEF A, B, C
    <2>3. Cardinality(A) = 0 /\ Cardinality(B) = 0 /\ Cardinality(C) = 1
        BY <1>5, <2>2
    <2> QED BY <1>3, <1>4, <2>2, <2>3
<1>9. CASE /\ ~\E i \in 1 .. Len(RmwQue) : RmwQue[i].task = t \/ RmwQue[i].first = t
           /\ ~\E x \in Served : t \in Names(x)
    <2>1. A = {} /\ B = {} /\ C = {} /\ (t \in answered <=> t \in Taken)
        BY <1>1, <1>2, <1>9, OnePlace
    <2> HIDE DEF A, B, C
    <2> QED BY <1>3, <1>4, <1>5, <2>1
<1> QED BY <1>6, <1>7, <1>8, <1>9

(* A sequence in which nobody counts is empty.                             *)
LEMMA CountEmpty ==
    ASSUME NEW S, NEW s \in Seq(S), \A t \in S : Count(s, t) = 0
    PROVE  s = <<>>
<1>1. ASSUME s # <<>> PROVE FALSE
    <2>1. Len(s) \in Nat \ {0} /\ s[1] \in S /\ 1 \in 1 .. Len(s)
        BY <1>1, ElementOfSeq, EmptySeq
    <2>2. Count(s, s[1]) = 0
        BY <2>1
    <2>3. \A i \in 1 .. Len(s) : s[i] # s[1]
        BY <2>2, CountType
    <2> QED BY <2>1, <2>3
<1> QED BY <1>1

(* With everything answered nobody holds a command, and so nothing else.   *)
LEMMA NoneLeft == ASSUME Inv PROVE NothingLeft
<1> SUFFICES ASSUME answered = 1 .. accepted
             PROVE  /\ RmwQue = <<>> /\ mcOrder = <<>> /\ WdataToSend = <<>> /\ write_task = <<>>
                    /\ RMW_CMD_MODE # 2 => order = <<>> /\ remaps = <<>> /\ bypassed = {}
                    /\ \A t \in Tasks : rd_finish[t] = "none"
                    /\ RMW_CMD_MODE = 1 => \A t \in Tasks : write_map[t] = 0 /\ fast_bypass[t] = 0
    BY DEF NothingLeft
<1>1. Units = {}
    <2>1. ASSUME NEW u \in Units PROVE FALSE
        <3>1. u.task \in Taken /\ Names(u) \cap answered = {} /\ u.task # NoTask
            BY TakenTasks DEF Inv, UnitInv
        <3> QED BY <3>1 DEF Taken, Names
    <2> QED BY <2>1
<1>2. Ents = {} /\ Writes = {}
    BY <1>1, EntUnit, WriteUnit
<1>3. RmwQue = <<>>
    <2>1. RmwQue \in Seq(EntryT) /\ \A i \in 1 .. Len(RmwQue) : FALSE
        BY <1>2 DEF Inv, QueInv, Ents
    <2>2. Len(RmwQue) \in Nat /\ Len(RmwQue) = 0
        BY <2>1
    <2> QED BY <2>1, <2>2, EmptySeq
<1>4. \A t : ~In(mcOrder, t)
    BY <1>2 DEF Inv, DataInv
<1>5. mcOrder = <<>>
    <2>1. ASSUME mcOrder # <<>> PROVE FALSE
        <3>1. 1 \in 1 .. Len(mcOrder)
            BY <2>1, Typed, EmptySeq
        <3> QED BY <1>4, <3>1 DEF In
    <2> QED BY <2>1
<1>6. \A t \in Tasks : Count(WdataToSend, t) = 0 /\ Rem(t) = 0
    <2>1. \A t \in Tasks : Count(WdataToSend, t) \in Nat /\ Rem(t) \in Nat
        BY RemType DEF Inv
    <2> QED BY <1>1, <1>2, <2>1 DEF Inv, DataInv
<1>7. WdataToSend = <<>> /\ write_task = <<>>
    BY <1>6, Typed, CountEmpty DEF Rem
<1>8. ASSUME RMW_CMD_MODE # 2 PROVE order = <<>> /\ remaps = <<>> /\ bypassed = {}
    <2>1. order = <<>>
        <3>1. ASSUME order # <<>> PROVE FALSE
            <4>1. 1 \in 1 .. Len(order)
                BY <3>1, Typed, EmptySeq
            <4>2. In(order, order[1].task)
                BY <4>1 DEF In
            <4>3. order \in Seq(OrdT) /\ mcOrder \in Seq(OrdT)
                BY Typed
            <4> QED BY <1>4, <1>8, <4>2, <4>3, StepFollows, FollowsOnce
        <3> QED BY <3>1
    <2>2. remaps = <<>>
        <3>1. ASSUME remaps # <<>> PROVE FALSE
            <4>1. 1 \in 1 .. Len(remaps) /\ remaps[1] \in RemapT
                BY <3>1, Typed, ElementOfSeq, EmptySeq
            <4>2. remaps[1].left <= Rem(remaps[1].src) /\ remaps[1].src \in Tasks /\ remaps[1].left \in Nat \ {0}
                BY <4>1 DEF Inv, WedInv, RemapT
            <4>3. Rem(remaps[1].src) = 0
                BY <1>6, <4>2
            <4> QED BY <4>2, <4>3
        <3> QED BY <3>1
    <2> QED BY <1>8, <2>1, <2>2 DEF Inv, WedInv
<1>9. \A t \in Tasks : rd_finish[t] = "none"
    BY <1>2 DEF Inv, ReadInv
<1>10. RMW_CMD_MODE = 1 => \A t \in Tasks : write_map[t] = 0 /\ fast_bypass[t] = 0
    <2>1. \A t \in Tasks : write_map[t] \in Nat
        BY Typed
    <2>2. RMW_CMD_MODE = 1 => \A t \in Tasks : ~(write_map[t] > 0) /\ fast_bypass[t] = 0
        BY <1>2, <1>4, MapIs
    <2> QED BY <2>1, <2>2
<1> QED BY <1>3, <1>5, <1>7, <1>8, <1>9, <1>10

(* The queue is typed, its slots are never overdrawn, every command taken  *)
(* is in one place until it is answered, and nothing is left behind when   *)
(* all are (addTransaction to arb_node).                                   *)
THEOREM QueueSoundHolds == ~UNPAIRED_TO_RMW_EN => (Spec => []QueueSound)
<1>1. Inv => QueueSound
    BY Shaped, OnceServed, NoneLeft DEF QueueSound, Inv
<1> QED BY <1>1, AlwaysInv, PTL

(* No beat of write data is lost or counted twice: a queued write has what *)
(* the driver has sent for its tasks, and a write in the controller is     *)
(* owed the rest (recv_wdata, send_wdata), as long as no refresh backlog   *)
(* refuses.                                                                *)
THEOREM WdataKeptHolds == ~UNPAIRED_TO_RMW_EN => (Spec => []WdataKept)
<1>1. Inv => WdataKept
    BY DataKept
<1> QED BY <1>1, AlwaysInv, PTL

(* Outside mode 2, write data reach the controller in its own order, and   *)
(* the order error of check_write_data never stops the program.            *)
THEOREM OrdersInStepHolds == ~UNPAIRED_TO_RMW_EN => (Spec => []OrdersInStep)
<1>1. Inv => OrdersInStep
    BY InOrder
<1> QED BY <1>1, AlwaysInv, PTL

(* A mask write becomes ready only after the read of what it leaves        *)
(* untouched has come back, and one read serves one mask write.            *)
THEOREM MergeReadFirstHolds == ~UNPAIRED_TO_RMW_EN => (Spec => []MergeReadFirst)
<1>1. Inv => MergeReadFirst
    BY ReadFirst
<1> QED BY <1>1, AlwaysInv, PTL
=============================================================================
