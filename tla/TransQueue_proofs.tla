-------------------------- MODULE TransQueue_proofs --------------------------
(***************************************************************************)
(* Why nothing overtakes an older write, and why no transaction is blocked *)
(* for ever.  A blocked transaction names the last transaction it          *)
(* conflicts with in front of it.  When that one leaves, it has begun, so  *)
(* it is not blocked itself, so no older write to the address is left: the *)
(* transaction it releases has only reads to overtake.                     *)
(*                                                                         *)
(* Behind that, on the same invariant: why driver, channel and controller  *)
(* never disagree on whose beat comes next (DataInv), why a command has    *)
(* one answer, and that after its data (RespInv), and why checking the     *)
(* limits a cycle early overruns them by so much only (Bounded).           *)
(***************************************************************************)
EXTENDS TransQueue, SequenceTheorems, FiniteSetTheorems, WellFoundedInduction, TLAPS

EntryT == [task : AllTasks, type : {"READ", "WRITE"}, address : Addresses, addrconf : BOOLEAN,
           addr_block_source_id : AllTasks \cup {NoTask}, issue_size : Nat, data_ready_cnt : Nat]

Distinct(q) == \A i, j \in 1 .. Len(q) : i # j => q[i].task # q[j].task

(* Who has begun is not blocked.                                           *)
BegunFree(q) == \A j \in 1 .. Len(q) : q[j].issue_size > 0 => ~q[j].addrconf

(* Who is not blocked has no older write to its address.                   *)
FreeOfWrites(q) ==
    \A j \in 1 .. Len(q) : ~q[j].addrconf =>
        \A i \in 1 .. j - 1 : Conflict(q[i], q[j]) => Read(q[i])

(* Who is blocked waits for the last transaction it conflicts with.        *)
WaitsForLast(q) ==
    \A j \in 1 .. Len(q) : q[j].addrconf =>
        \E i \in 1 .. j - 1 :
            /\ q[i].task = q[j].addr_block_source_id
            /\ Conflict(q[i], q[j])
            /\ \A k \in i + 1 .. j - 1 : ~Conflict(q[k], q[j])

Blocking(q) == BegunFree(q) /\ FreeOfWrites(q) /\ WaitsForLast(q)
-----------------------------------------------------------------------------
(* Blocking depends on who is queued and who is blocked, not on progress.  *)
LEMMA BlockingSame ==
    ASSUME NEW q \in Seq(EntryT), NEW r \in Seq(EntryT), Len(q) = Len(r),
           FreeOfWrites(q), WaitsForLast(q), BegunFree(r),
           \A i \in 1 .. Len(q) :
               /\ r[i].task = q[i].task /\ r[i].type = q[i].type
               /\ r[i].address = q[i].address /\ r[i].addrconf = q[i].addrconf
               /\ r[i].addr_block_source_id = q[i].addr_block_source_id
    PROVE  Blocking(r)
<1>1. \A i, j \in 1 .. Len(q) : Conflict(r[i], r[j]) <=> Conflict(q[i], q[j])
    BY DEF Conflict, Read
<1>2. FreeOfWrites(r)
    <2> SUFFICES ASSUME NEW j \in 1 .. Len(r), ~r[j].addrconf, NEW i \in 1 .. j - 1,
                        Conflict(r[i], r[j])
                 PROVE  Read(r[i])
        BY DEF FreeOfWrites
    <2>1. i \in 1 .. Len(q) /\ j \in 1 .. Len(q)
        OBVIOUS
    <2>2. Conflict(q[i], q[j]) /\ ~q[j].addrconf
        BY <1>1, <2>1
    <2> QED BY <2>1, <2>2 DEF FreeOfWrites, Read
<1>3. WaitsForLast(r)
    <2> SUFFICES ASSUME NEW j \in 1 .. Len(r), r[j].addrconf
                 PROVE  \E i \in 1 .. j - 1 :
                            /\ r[i].task = r[j].addr_block_source_id
                            /\ Conflict(r[i], r[j])
                            /\ \A k \in i + 1 .. j - 1 : ~Conflict(r[k], r[j])
        BY DEF WaitsForLast
    <2>1. PICK i \in 1 .. j - 1 : /\ q[i].task = q[j].addr_block_source_id
                                  /\ Conflict(q[i], q[j])
                                  /\ \A k \in i + 1 .. j - 1 : ~Conflict(q[k], q[j])
        BY DEF WaitsForLast
    <2>2. r[i].task = r[j].addr_block_source_id /\ Conflict(r[i], r[j])
        BY <1>1, <2>1
    <2>3. \A k \in i + 1 .. j - 1 : ~Conflict(r[k], r[j])
        BY <1>1, <2>1
    <2> QED BY <2>2, <2>3
<1> QED BY <1>2, <1>3 DEF Blocking

(* addTransaction appends a transaction blocked behind the last one it     *)
(* conflicts with.                                                         *)
LEMMA BlockingAppend ==
    ASSUME NEW q \in Seq(EntryT), NEW e \in EntryT, Blocking(q), e.issue_size = 0,
           e.addrconf =>
               \E i \in 1 .. Len(q) : /\ q[i].task = e.addr_block_source_id
                                      /\ Conflict(q[i], e)
                                      /\ \A k \in i + 1 .. Len(q) : ~Conflict(q[k], e),
           ~e.addrconf => \A i \in 1 .. Len(q) : ~Conflict(q[i], e)
    PROVE  Blocking(Append(q, e))
<1> DEFINE r == Append(q, e)
<1>1. /\ r \in Seq(EntryT) /\ Len(r) = Len(q) + 1
      /\ \A i \in 1 .. Len(q) : r[i] = q[i]
      /\ r[Len(q) + 1] = e
    BY AppendProperties
<1> HIDE DEF r
<1>2. BegunFree(r)
    BY <1>1 DEF BegunFree, Blocking
<1>3. FreeOfWrites(r)
    <2> SUFFICES ASSUME NEW j \in 1 .. Len(r), ~r[j].addrconf, NEW i \in 1 .. j - 1,
                        Conflict(r[i], r[j])
                 PROVE  Read(r[i])
        BY DEF FreeOfWrites
    <2>1. CASE j = Len(q) + 1
        <3>1. i \in 1 .. Len(q)
            BY <1>1, <2>1
        <3> QED BY <1>1, <2>1, <3>1
    <2>2. CASE j # Len(q) + 1
        <3>1. i \in 1 .. Len(q) /\ j \in 1 .. Len(q)
            BY <1>1, <2>2
        <3> QED BY <1>1, <3>1 DEF FreeOfWrites, Blocking
    <2> QED BY <2>1, <2>2
<1>4. WaitsForLast(r)
    <2> SUFFICES ASSUME NEW j \in 1 .. Len(r), r[j].addrconf
                 PROVE  \E i \in 1 .. j - 1 :
                            /\ r[i].task = r[j].addr_block_source_id
                            /\ Conflict(r[i], r[j])
                            /\ \A k \in i + 1 .. j - 1 : ~Conflict(r[k], r[j])
        BY DEF WaitsForLast
    <2>1. CASE j = Len(q) + 1
        BY <1>1, <2>1
    <2>2. CASE j # Len(q) + 1
        <3>1. j \in 1 .. Len(q) /\ r[j] = q[j]
            BY <1>1, <2>2
        <3>2. \A k \in 1 .. j - 1 : r[k] = q[k]
            BY <1>1, <3>1
        <3> QED BY <3>1, <3>2 DEF WaitsForLast, Blocking
    <2> QED BY <2>1, <2>2
<1> QED BY <1>2, <1>3, <1>4 DEF Blocking, r
-----------------------------------------------------------------------------
(* A set of positions that is not empty has a last one.                    *)
LEMMA LastOne ==
    ASSUME NEW n \in Nat, NEW S \in SUBSET (1 .. n), S # {}
    PROVE  \E i \in S : \A j \in S : j <= i
<1> DEFINE R == OpToRel(<, Nat)
           T == {k \in Nat : n - k \in S}
<1>1. \A x, y \in Nat : x < y => <<x, y>> \in R
    BY DEF OpToRel
<1>2. IsWellFoundedOn(R, Nat)
    BY NatLessThanWellFounded
<1> HIDE DEF R
<1>3. T # {} /\ T \subseteq Nat
    <2>1. PICK i \in S : TRUE
        OBVIOUS
    <2>2. n - i \in Nat /\ n - (n - i) = i
        OBVIOUS
    <2> QED BY <2>2
<1>4. PICK k \in T : \A y \in T : ~ (<<y, k>> \in R)
    <2> HIDE DEF T
    <2> QED BY <1>2, <1>3, WFMin
<1>5. ASSUME NEW j \in S PROVE j <= n - k
    <2>1. n - j \in T
        <3>1. n - j \in Nat /\ n - (n - j) = j
            OBVIOUS
        <3> QED BY <3>1
    <2>2. ~(n - j < k)
        BY <1>1, <1>4, <2>1
    <2> QED BY <2>2
<1> QED BY <1>5

(* erase keeps the order of what stays.                                    *)
LEMMA Erase ==
    ASSUME NEW S, NEW s \in Seq(S), NEW n \in 1 .. Len(s)
    PROVE  /\ erase(s, n) \in Seq(S)
           /\ Len(erase(s, n)) = Len(s) - 1
           /\ \A k \in 1 .. Len(s) - 1 : erase(s, n)[k] = s[IF k < n THEN k ELSE k + 1]
<1> DEFINE f == [k \in 1 .. Len(s) - 1 |-> s[IF k < n THEN k ELSE k + 1]]
<1>1. Len(s) - 1 \in Nat
    OBVIOUS
<1>2. \A k \in 1 .. Len(s) - 1 : s[IF k < n THEN k ELSE k + 1] \in S
    OBVIOUS
<1>3. f \in Seq(S) /\ Len(f) = Len(s) - 1
    BY <1>1, <1>2
<1> QED BY <1>3 DEF erase

(* update_que releases what waits for the transaction that leaves.         *)
LEMMA ReleasedShape ==
    ASSUME NEW q \in Seq(EntryT), NEW n \in 1 .. Len(q)
    PROVE  /\ Released(q, n) \in Seq(EntryT) /\ Len(Released(q, n)) = Len(q)
           /\ \A j \in 1 .. Len(q) :
                /\ Released(q, n)[j].task = q[j].task
                /\ Released(q, n)[j].type = q[j].type
                /\ Released(q, n)[j].address = q[j].address
                /\ Released(q, n)[j].addr_block_source_id = q[j].addr_block_source_id
                /\ Released(q, n)[j].issue_size = q[j].issue_size
                /\ Released(q, n)[j].addrconf <=>
                       q[j].addrconf /\ ~(j > n /\ Releases(q[n], q[j]))
<1> DEFINE r == Released(q, n)
<1>1. \A j \in 1 .. Len(q) : q[j] \in EntryT
    BY ElementOfSeq
<1>2. r = [j \in 1 .. Len(q) |-> IF j > n /\ Releases(q[n], q[j])
                               THEN [q[j] EXCEPT !.addrconf = FALSE] ELSE q[j]]
    <2>1. DOMAIN q = 1 .. Len(q)
        OBVIOUS
    <2> QED BY <2>1 DEF Released
<1>3. r \in Seq(EntryT) /\ Len(r) = Len(q)
    <2>1. \A j \in 1 .. Len(q) : (IF j > n /\ Releases(q[n], q[j])
                               THEN [q[j] EXCEPT !.addrconf = FALSE] ELSE q[j]) \in EntryT
        BY <1>1 DEF EntryT
    <2> QED BY <1>2, <2>1
<1>4. ASSUME NEW j \in 1 .. Len(q)
      PROVE  /\ r[j].task = q[j].task /\ r[j].type = q[j].type
             /\ r[j].address = q[j].address
             /\ r[j].addr_block_source_id = q[j].addr_block_source_id
             /\ r[j].issue_size = q[j].issue_size
             /\ r[j].addrconf <=> q[j].addrconf /\ ~(j > n /\ Releases(q[n], q[j]))
    <2>1. CASE j > n /\ Releases(q[n], q[j])
        <3>1. r[j] = [q[j] EXCEPT !.addrconf = FALSE]
            BY <1>2, <2>1
        <3> QED BY <1>1, <2>1, <3>1 DEF EntryT
    <2>2. CASE ~(j > n /\ Releases(q[n], q[j]))
        <3>1. r[j] = q[j]
            BY <1>2, <2>2
        <3> QED BY <1>1, <2>2, <3>1 DEF EntryT
    <2> QED BY <2>1, <2>2
<1> QED BY <1>3, <1>4

(* A transaction that has issued everything leaves.                        *)
LEMMA BlockingRetire ==
    ASSUME NEW q \in Seq(EntryT), Blocking(q), Distinct(q), NEW n \in 1 .. Len(q),
           q[n].issue_size > 0
    PROVE  /\ erase(Released(q, n), n) \in Seq(EntryT)
           /\ Blocking(erase(Released(q, n), n))
           /\ \A k \in 1 .. Len(erase(Released(q, n), n)) :
                 \E j \in 1 .. Len(q) : /\ j = IF k < n THEN k ELSE k + 1
                                        /\ erase(Released(q, n), n)[k].task = q[j].task
                                        /\ erase(Released(q, n), n)[k].issue_size = q[j].issue_size
                                        /\ ~q[j].addrconf => ~erase(Released(q, n), n)[k].addrconf
<1> DEFINE r == Released(q, n)
           s == erase(r, n)
           old(k) == IF k < n THEN k ELSE k + 1
<1>1. /\ r \in Seq(EntryT) /\ Len(r) = Len(q)
      /\ \A j \in 1 .. Len(q) :
            /\ r[j].task = q[j].task /\ r[j].type = q[j].type /\ r[j].address = q[j].address
            /\ r[j].addr_block_source_id = q[j].addr_block_source_id
            /\ r[j].issue_size = q[j].issue_size
            /\ r[j].addrconf <=> q[j].addrconf /\ ~(j > n /\ Releases(q[n], q[j]))
    BY ReleasedShape
<1>2. /\ s \in Seq(EntryT) /\ Len(s) = Len(q) - 1
      /\ \A k \in 1 .. Len(q) - 1 : s[k] = r[old(k)]
    <2> HIDE DEF r
    <2> QED BY <1>1, Erase
<1> HIDE DEF r, s
<1>3. \A k \in 1 .. Len(s) : old(k) \in 1 .. Len(q) /\ old(k) # n
    BY <1>2
<1> DEFINE Kept(k) ==
        /\ s[k].task = q[old(k)].task /\ s[k].type = q[old(k)].type
        /\ s[k].address = q[old(k)].address
        /\ s[k].addr_block_source_id = q[old(k)].addr_block_source_id
        /\ s[k].issue_size = q[old(k)].issue_size
        /\ s[k].addrconf <=>
              q[old(k)].addrconf /\ ~(old(k) > n /\ Releases(q[n], q[old(k)]))
<1>4. \A k \in 1 .. Len(s) : Kept(k)
    BY <1>1, <1>2, <1>3
<1>5. \A k, m \in 1 .. Len(s) : Conflict(s[k], s[m]) <=> Conflict(q[old(k)], q[old(m)])
    <2> TAKE k, m \in 1 .. Len(s)
    <2> QED BY <1>4 DEF Conflict, Read
<1>6. ~q[n].addrconf
    BY DEF Blocking, BegunFree
<1>7. BegunFree(s)
    BY <1>3, <1>4 DEF Blocking, BegunFree
<1>8. FreeOfWrites(s)
    <2> SUFFICES ASSUME NEW m \in 1 .. Len(s), ~s[m].addrconf, NEW k \in 1 .. m - 1,
                        Conflict(s[k], s[m]), ~Read(s[k])
                 PROVE  FALSE
        BY DEF FreeOfWrites
    <2> DEFINE j == old(m)
               i == old(k)
    <2>1. /\ j \in 1 .. Len(q) /\ i \in 1 .. Len(q) /\ i < j /\ i # n /\ j # n
          /\ k \in 1 .. Len(s)
        BY <1>3
    <2>2. Conflict(q[i], q[j]) /\ ~Read(q[i])
        BY <1>4, <1>5, <2>1 DEF Read
    <2>3. ~q[j].addrconf \/ (j > n /\ Releases(q[n], q[j]) /\ q[j].addrconf)
        BY <1>4
    <2> HIDE DEF i, j
    <2>4. CASE ~q[j].addrconf
        BY <2>1, <2>2, <2>4 DEF Blocking, FreeOfWrites
    <2>5. CASE j > n /\ Releases(q[n], q[j]) /\ q[j].addrconf
        <3>1. PICK h \in 1 .. j - 1 : /\ q[h].task = q[j].addr_block_source_id
                                      /\ \A g \in h + 1 .. j - 1 : ~Conflict(q[g], q[j])
            BY <2>1, <2>5 DEF Blocking, WaitsForLast
        <3>2. h = n
            BY <2>1, <2>5, <3>1 DEF Releases, Distinct
        <3>3. i < n
            BY <2>1, <2>2, <3>1, <3>2
        <3>4. Conflict(q[i], q[n])
            BY <2>2, <2>5 DEF Conflict, Releases
        <3> QED BY <1>6, <2>1, <2>2, <3>3, <3>4 DEF Blocking, FreeOfWrites
    <2> QED BY <2>3, <2>4, <2>5
<1>9. WaitsForLast(s)
    <2> SUFFICES ASSUME NEW m \in 1 .. Len(s), s[m].addrconf
                 PROVE  \E k \in 1 .. m - 1 :
                            /\ s[k].task = s[m].addr_block_source_id
                            /\ Conflict(s[k], s[m])
                            /\ \A g \in k + 1 .. m - 1 : ~Conflict(s[g], s[m])
        BY DEF WaitsForLast
    <2> DEFINE j == old(m)
    <2>1. j \in 1 .. Len(q) /\ j # n /\ q[j].addrconf /\ ~(j > n /\ Releases(q[n], q[j]))
        BY <1>3, <1>4
    <2>2. PICK i \in 1 .. j - 1 : /\ q[i].task = q[j].addr_block_source_id
                                  /\ Conflict(q[i], q[j])
                                  /\ \A g \in i + 1 .. j - 1 : ~Conflict(q[g], q[j])
        BY <2>1 DEF Blocking, WaitsForLast
    <2>3. i # n
        BY <2>1, <2>2 DEF Releases, Conflict
    <2> DEFINE k == IF i < n THEN i ELSE i - 1
    <2>4. k \in 1 .. m - 1 /\ old(k) = i /\ k \in 1 .. Len(s)
        BY <2>1, <2>2, <2>3
    <2>5. s[k].task = s[m].addr_block_source_id /\ Conflict(s[k], s[m])
        <3> HIDE DEF k
        <3>1. Kept(k) /\ Kept(m)
            BY <1>4, <2>4
        <3>2. Conflict(q[old(k)], q[old(m)])
            BY <2>2, <2>4
        <3>3. Conflict(s[k], s[m])
            BY <1>5, <2>4, <3>2
        <3> QED BY <2>2, <2>4, <3>1, <3>3
    <2>6. ASSUME NEW g \in k + 1 .. m - 1
          PROVE  ~Conflict(s[g], s[m])
        <3>1. g \in 1 .. Len(s) /\ old(g) \in i + 1 .. j - 1
            BY <2>2, <2>3, <2>4
        <3> QED BY <1>5, <2>2, <3>1
    <2> QED BY <2>4, <2>5, <2>6
<1>10. \A k \in 1 .. Len(s) :
          \E j \in 1 .. Len(q) : /\ j = IF k < n THEN k ELSE k + 1
                                 /\ s[k].task = q[j].task
                                 /\ s[k].issue_size = q[j].issue_size
                                 /\ ~q[j].addrconf => ~s[k].addrconf
    BY <1>3, <1>4
<1> QED BY <1>2, <1>7, <1>8, <1>9, <1>10 DEF Blocking, r, s
-----------------------------------------------------------------------------
(* The tasks the driver has not used, offers, has in the pipe and in the   *)
(* queue are different ones, so no task is queued twice; and only free     *)
(* transactions of the queue are ready.                                    *)
Typed ==
    /\ fresh \subseteq AllTasks
    /\ CommandQueue \in {<<>>} \cup {<<c>> : c \in Commands}
    /\ CommandQueueTest \in {<<>>} \cup {<<c>> : c \in Commands}
    /\ PreDmcPipeQueue \in Seq(Commands)
    /\ transactionQueue \in Seq(EntryT)

OfferedTasks == {t \in AllTasks : \/ CommandQueue # <<>> /\ t = CommandQueue[1].task
                                  \/ CommandQueueTest # <<>> /\ t = CommandQueueTest[1].task}

Apart ==
    /\ CommandQueue # <<>> => CommandQueue[1].task \in Tasks
    /\ CommandQueueTest # <<>> => CommandQueueTest[1].task \in TestTasks
    /\ OfferedTasks \cap fresh = {}
    /\ \A i \in 1 .. Len(PreDmcPipeQueue) :
          PreDmcPipeQueue[i].task \notin fresh \cup OfferedTasks
    /\ \A i \in 1 .. Len(transactionQueue) :
          /\ transactionQueue[i].task \notin fresh \cup OfferedTasks
          /\ \A k \in 1 .. Len(PreDmcPipeQueue) :
                transactionQueue[i].task # PreDmcPipeQueue[k].task
    /\ Distinct(PreDmcPipeQueue) /\ Distinct(transactionQueue)

ReadyFree ==
    \A t \in CmdQueue : \E i \in 1 .. Len(transactionQueue) :
        /\ transactionQueue[i].task = t
        /\ ~transactionQueue[i].addrconf /\ transactionQueue[i].issue_size < BURSTS

QueueInv == Typed /\ Apart /\ ReadyFree /\ Blocking(transactionQueue)
-----------------------------------------------------------------------------
queueVars == <<fresh, CommandQueue, CommandQueueTest, PreDmcPipeQueue, transactionQueue, CmdQueue>>

LEMMA QueueInvInit == Init => QueueInv
    BY DEF Init, QueueInv, Typed, Apart, OfferedTasks, Distinct, ReadyFree, Blocking, BegunFree,
           FreeOfWrites, WaitsForLast

(* Most actions leave all of this alone.                                   *)
LEMMA NextQueue ==
    [Next]_vars =>
        \/ NewCommand \/ Accepted \/ PipeDelivers \/ UpdateWdata
        \/ \E i \in DOMAIN transactionQueue : Schedule(i)
        \/ \E n \in DOMAIN transactionQueue : Retire(n)
        \/ QuePipeline
        \/ UNCHANGED queueVars
    BY DEF Next, vars, hostVars, gateVars, queueVars, NoNewCommand, SendNothing, Refused, SubmitData,
           NoDataSent, NoDataArrives, Respond, ScheduleSome, ScheduleNone, RetireNone, PipeWaits

LEMMA QueueInvUnchanged == QueueInv /\ UNCHANGED queueVars => QueueInv'
    BY DEF QueueInv, queueVars, Typed, Apart, OfferedTasks, Distinct, ReadyFree, Blocking, BegunFree,
           FreeOfWrites, WaitsForLast

(* addTransaction of a task that is nowhere else.                          *)
LEMMA Added ==
    ASSUME QueueInv, NEW c \in Commands, addTransaction(c),
           \A i \in 1 .. Len(transactionQueue) : transactionQueue[i].task # c.task
    PROVE  /\ transactionQueue' \in Seq(EntryT)
           /\ Len(transactionQueue') = Len(transactionQueue) + 1
           /\ \A i \in 1 .. Len(transactionQueue) : transactionQueue'[i] = transactionQueue[i]
           /\ transactionQueue'[Len(transactionQueue) + 1].task = c.task
           /\ Distinct(transactionQueue')
           /\ Blocking(transactionQueue')
<1> DEFINE q == transactionQueue
           e == Entry(c)
<1>1. q \in Seq(EntryT) /\ Blocking(q) /\ Distinct(q) /\ DOMAIN q = 1 .. Len(q)
    BY DEF QueueInv, Typed, Apart
<1>2. e.addrconf <=> \E i \in 1 .. Len(q) : Conflict(q[i], c)
    BY <1>1 DEF Entry, Blockers
<1>3. \A i \in 1 .. Len(q) : Conflict(q[i], e) <=> Conflict(q[i], c)
    BY DEF Conflict, Read, Entry
<1>4. ASSUME Blockers(c) # {}
      PROVE  \E i \in 1 .. Len(q) : /\ check_conflict(c) = q[i].task
                                    /\ Conflict(q[i], c)
                                    /\ \A k \in i + 1 .. Len(q) : ~Conflict(q[k], c)
    <2>1. Blockers(c) \in SUBSET (1 .. Len(q))
        BY <1>1 DEF Blockers
    <2>2. Len(q) \in Nat
        BY <1>1
    <2>3. \E i \in Blockers(c) : \A j \in Blockers(c) : j <= i
        BY <1>4, <2>1, <2>2, LastOne
    <2> DEFINE m == CHOOSE i \in Blockers(c) : \A j \in Blockers(c) : j <= i
    <2>4. m \in Blockers(c) /\ \A j \in Blockers(c) : j <= m
        BY <2>3
    <2>5. check_conflict(c) = q[m].task
        BY <1>4 DEF check_conflict
    <2> HIDE DEF m
    <2>6. \A k \in m + 1 .. Len(q) : ~Conflict(q[k], c)
        BY <1>1, <2>1, <2>4 DEF Blockers
    <2> QED BY <1>1, <2>1, <2>4, <2>5, <2>6 DEF Blockers
<1>5. check_conflict(c) \in AllTasks \cup {NoTask}
    <2>1. CASE Blockers(c) = {}
        BY <2>1 DEF check_conflict
    <2>2. CASE Blockers(c) # {}
        <3>1. PICK i \in 1 .. Len(q) : check_conflict(c) = q[i].task
            BY <1>4, <2>2
        <3>2. q[i] \in EntryT
            BY <1>1, ElementOfSeq
        <3> QED BY <3>1, <3>2 DEF EntryT
    <2> QED BY <2>1, <2>2
<1>6. e \in EntryT
    BY <1>5 DEF Entry, EntryT, Commands
<1>7. /\ e.issue_size = 0 /\ e.task = c.task
      /\ e.addr_block_source_id = check_conflict(c)
      /\ e.addrconf <=> Blockers(c) # {}
    BY DEF Entry
<1>8. transactionQueue' = Append(q, e)
    BY DEF addTransaction
<1> HIDE DEF e, q
<1>9. Blocking(Append(q, e))
    <2>1. e.addrconf =>
               \E i \in 1 .. Len(q) : /\ q[i].task = e.addr_block_source_id
                                      /\ Conflict(q[i], e)
                                      /\ \A k \in i + 1 .. Len(q) : ~Conflict(q[k], e)
        BY <1>3, <1>4, <1>7
    <2>2. ~e.addrconf => \A i \in 1 .. Len(q) : ~Conflict(q[i], e)
        BY <1>2, <1>3
    <2> QED BY <1>1, <1>6, <1>7, <2>1, <2>2, BlockingAppend
<1>10. /\ Append(q, e) \in Seq(EntryT) /\ Len(Append(q, e)) = Len(q) + 1
       /\ \A i \in 1 .. Len(q) : Append(q, e)[i] = q[i]
       /\ Append(q, e)[Len(q) + 1] = e
    BY <1>1, <1>6, AppendProperties
<1>11. Distinct(Append(q, e))
    <2> SUFFICES ASSUME NEW i \in 1 .. Len(q) + 1, NEW j \in 1 .. Len(q) + 1, i # j
                 PROVE  Append(q, e)[i].task # Append(q, e)[j].task
        BY <1>10 DEF Distinct
    <2>1. \A k \in 1 .. Len(q) : q[k].task # e.task
        BY <1>7 DEF q
    <2>2. \A k \in 1 .. Len(q) + 1 : k = Len(q) + 1 \/ k \in 1 .. Len(q)
        BY <1>1
    <2> QED BY <1>1, <1>10, <2>1, <2>2 DEF Distinct
<1> QED BY <1>7, <1>8, <1>9, <1>10, <1>11 DEF q
-----------------------------------------------------------------------------
(* One lemma per action that moves a command or changes the queue.         *)

(* A new command has a task nobody has used.                               *)
LEMMA QueueInvNew == QueueInv /\ NewCommand => QueueInv'
<1> SUFFICES ASSUME QueueInv, NewCommand PROVE QueueInv'
    OBVIOUS
<1> PICK t \in fresh, ty \in {"READ", "WRITE"}, a \in Addresses :
        LET c == [task |-> t, type |-> ty, address |-> a]
        IN  /\ fresh' = fresh \ {t}
            /\ \/ /\ t \in Tasks /\ CommandQueue = <<>>
                  /\ CommandQueue' = <<c>> /\ UNCHANGED CommandQueueTest
               \/ /\ t \in TestTasks /\ Read(c) /\ CommandQueueTest = <<>>
                  /\ CommandQueueTest' = <<c>> /\ UNCHANGED CommandQueue
    BY DEF NewCommand
<1> DEFINE c == [task |-> t, type |-> ty, address |-> a]
<1>1. /\ UNCHANGED <<PreDmcPipeQueue, transactionQueue, CmdQueue>> /\ fresh' = fresh \ {t}
      /\ \/ CommandQueue' = <<c>> /\ UNCHANGED CommandQueueTest
         \/ CommandQueueTest' = <<c>> /\ UNCHANGED CommandQueue
    BY DEF NewCommand, gateVars
<1>2. c \in Commands /\ c.task = t /\ t \in AllTasks /\ <<c>>[1] = c /\ <<c>> # <<>>
    BY DEF QueueInv, Typed, Commands
<1>3. Typed'
    BY <1>1, <1>2 DEF QueueInv, Typed
<1>4. OfferedTasks' \subseteq OfferedTasks \cup {t}
    BY <1>1, <1>2 DEF OfferedTasks
<1>5. CommandQueue' # <<>> => CommandQueue'[1].task \in Tasks
    BY <1>2 DEF QueueInv, Apart
<1>6. CommandQueueTest' # <<>> => CommandQueueTest'[1].task \in TestTasks
    BY <1>2 DEF QueueInv, Apart
<1>7. Apart'
    <2>1. OfferedTasks' \cap fresh' = {}
        BY <1>1, <1>4 DEF QueueInv, Apart
    <2>2. \A x : x \notin fresh \cup OfferedTasks => x \notin fresh' \cup OfferedTasks'
        BY <1>1, <1>4
    <2> QED BY <1>1, <1>5, <1>6, <2>1, <2>2 DEF QueueInv, Apart, Distinct
<1> QED BY <1>1, <1>3, <1>7 DEF QueueInv, ReadyFree, Blocking, BegunFree, FreeOfWrites,
                                 WaitsForLast

(* que_pipeline lets only free transactions send.                          *)
LEMMA QueueInvPipeline == QueueInv /\ QuePipeline => QueueInv'
<1> SUFFICES ASSUME QueueInv, QuePipeline PROVE QueueInv'
    OBVIOUS
<1>1. UNCHANGED <<fresh, CommandQueue, CommandQueueTest, PreDmcPipeQueue, transactionQueue>>
    BY DEF QuePipeline, hostVars, gateVars
<1>2. DOMAIN transactionQueue = 1 .. Len(transactionQueue)
    BY DEF QueueInv, Typed
<1>3. ReadyFree'
    BY <1>1, <1>2 DEF QuePipeline, ReadyFree, lc
<1> QED BY <1>1, <1>3 DEF QueueInv, Typed, Apart, OfferedTasks, Distinct, Blocking, BegunFree,
                          FreeOfWrites, WaitsForLast

(* Progress of one transaction (its data, its column commands) moves no    *)
(* task and changes nothing of who waits for whom.                         *)
LEMMA QueueInvProgress ==
    ASSUME QueueInv, UNCHANGED <<fresh, CommandQueue, CommandQueueTest, PreDmcPipeQueue>>,
           transactionQueue' \in Seq(EntryT), Len(transactionQueue') = Len(transactionQueue),
           \A i \in 1 .. Len(transactionQueue) :
               /\ transactionQueue'[i].task = transactionQueue[i].task
               /\ transactionQueue'[i].type = transactionQueue[i].type
               /\ transactionQueue'[i].address = transactionQueue[i].address
               /\ transactionQueue'[i].addrconf = transactionQueue[i].addrconf
               /\ transactionQueue'[i].addr_block_source_id
                     = transactionQueue[i].addr_block_source_id,
           BegunFree(transactionQueue'), ReadyFree'
    PROVE  QueueInv'
<1>1. Typed'
    BY DEF QueueInv, Typed
<1>2. Apart'
    BY DEF QueueInv, Apart, OfferedTasks, Distinct
<1>3. Blocking(transactionQueue')
    <2>1. /\ transactionQueue \in Seq(EntryT)
          /\ FreeOfWrites(transactionQueue) /\ WaitsForLast(transactionQueue)
        BY DEF QueueInv, Typed, Blocking
    <2> QED BY <2>1, BlockingSame
<1> QED BY <1>1, <1>2, <1>3 DEF QueueInv, Blocking, BegunFree, FreeOfWrites, WaitsForLast

LEMMA QueueInvWdata == QueueInv /\ UpdateWdata => QueueInv'
<1> SUFFICES ASSUME QueueInv, UpdateWdata PROVE QueueInv'
    OBVIOUS
<1> DEFINE q == transactionQueue
<1>1. q \in Seq(EntryT) /\ DOMAIN q = 1 .. Len(q)
    BY DEF QueueInv, Typed
<1>2. PICK n \in 1 .. Len(q) : q' = [q EXCEPT ![n].data_ready_cnt = @ + 1]
    BY <1>1 DEF UpdateWdata
<1>3. /\ q' \in Seq(EntryT) /\ Len(q') = Len(q)
      /\ \A i \in 1 .. Len(q) :
            /\ q'[i].task = q[i].task /\ q'[i].type = q[i].type
            /\ q'[i].address = q[i].address /\ q'[i].addrconf = q[i].addrconf
            /\ q'[i].addr_block_source_id = q[i].addr_block_source_id
            /\ q'[i].issue_size = q[i].issue_size
    <2>1. \A i \in 1 .. Len(q) : q[i] \in EntryT
        BY <1>1, ElementOfSeq
    <2> DEFINE e == [q[n] EXCEPT !.data_ready_cnt = @ + 1]
    <2>2. e \in EntryT /\ q' = [q EXCEPT ![n] = e]
        <3>1. ASSUME NEW x \in EntryT PROVE [x EXCEPT !.data_ready_cnt = @ + 1] \in EntryT
            BY DEF EntryT
        <3> QED BY <1>2, <2>1, <3>1
    <2>3. q' \in Seq(EntryT) /\ Len(q') = Len(q)
        BY <1>1, <2>2, ExceptSeq
    <2>4. \A i \in 1 .. Len(q) : q'[i] = IF i = n THEN e ELSE q[i]
        BY <1>1, <2>2
    <2>5. /\ e.task = q[n].task /\ e.type = q[n].type /\ e.address = q[n].address
          /\ e.addrconf = q[n].addrconf /\ e.issue_size = q[n].issue_size
          /\ e.addr_block_source_id = q[n].addr_block_source_id
        BY <2>1 DEF EntryT
    <2> HIDE DEF e
    <2> QED BY <2>3, <2>4, <2>5
<1>4. UNCHANGED <<fresh, CommandQueue, CommandQueueTest, PreDmcPipeQueue, CmdQueue>>
    BY DEF UpdateWdata, hostVars, gateVars
<1>5. BegunFree(q') /\ ReadyFree'
    BY <1>3, <1>4 DEF QueueInv, Blocking, BegunFree, ReadyFree
<1> QED BY <1>3, <1>4, <1>5, QueueInvProgress

(* Only a free transaction sends a column command.                         *)
LEMMA QueueInvSchedule ==
    ASSUME QueueInv, NEW n \in 1 .. Len(transactionQueue), Schedule(n) PROVE QueueInv'
<1> DEFINE q == transactionQueue
<1>1. q \in Seq(EntryT) /\ DOMAIN q = 1 .. Len(q)
    BY DEF QueueInv, Typed
<1>2. q' = [q EXCEPT ![n].issue_size = @ + 1]
    BY DEF Schedule
<1>3. /\ q' \in Seq(EntryT) /\ Len(q') = Len(q)
      /\ \A i \in 1 .. Len(q) :
            /\ q'[i].task = q[i].task /\ q'[i].type = q[i].type
            /\ q'[i].address = q[i].address /\ q'[i].addrconf = q[i].addrconf
            /\ q'[i].addr_block_source_id = q[i].addr_block_source_id
            /\ i = n \/ q'[i].issue_size = q[i].issue_size
    <2>1. \A i \in 1 .. Len(q) : q[i] \in EntryT
        BY <1>1, ElementOfSeq
    <2> DEFINE e == [q[n] EXCEPT !.issue_size = @ + 1]
    <2>2. e \in EntryT /\ q' = [q EXCEPT ![n] = e]
        <3>1. ASSUME NEW x \in EntryT PROVE [x EXCEPT !.issue_size = @ + 1] \in EntryT
            BY DEF EntryT
        <3> QED BY <1>2, <2>1, <3>1
    <2>3. q' \in Seq(EntryT) /\ Len(q') = Len(q)
        BY <1>1, <2>2, ExceptSeq
    <2>4. \A i \in 1 .. Len(q) : q'[i] = IF i = n THEN e ELSE q[i]
        BY <1>1, <2>2
    <2>5. /\ e.task = q[n].task /\ e.type = q[n].type /\ e.address = q[n].address
          /\ e.addrconf = q[n].addrconf
          /\ e.addr_block_source_id = q[n].addr_block_source_id
        BY <2>1 DEF EntryT
    <2> HIDE DEF e
    <2> QED BY <2>3, <2>4, <2>5
<1>4. UNCHANGED <<fresh, CommandQueue, CommandQueueTest, PreDmcPipeQueue>> /\ CmdQueue' = {}
    BY DEF Schedule, hostVars, gateVars
<1>5. ~q[n].addrconf
    BY DEF Schedule, QueueInv, ReadyFree, Apart, Distinct
<1>6. BegunFree(q') /\ ReadyFree'
    BY <1>3, <1>4, <1>5 DEF QueueInv, Blocking, BegunFree, ReadyFree
<1> QED BY <1>3, <1>4, <1>6, QueueInvProgress

(* The command that is taken was offered under a task of its own.          *)
LEMMA Taken ==
    ASSUME QueueInv, Offered # <<>>, TakeOffered
    PROVE  /\ Offered[1] \in Commands
           /\ Offered[1].task \in OfferedTasks \ OfferedTasks'
           /\ OfferedTasks' \subseteq OfferedTasks
           /\ CommandQueue' \in {<<>>, CommandQueue}
           /\ CommandQueueTest' \in {<<>>, CommandQueueTest}
<1>1. Tasks \cap TestTasks = {}
    BY QueueAssumption
<1>2. \A c \in Commands : <<c>>[1] = c /\ c.task \in AllTasks
    BY DEF Commands
<1>3. CASE CommandQueueTest # <<>>
    BY <1>1, <1>2, <1>3 DEF QueueInv, Typed, Apart, Offered, TakeOffered, OfferedTasks
<1>4. CASE CommandQueueTest = <<>>
    BY <1>1, <1>2, <1>4 DEF QueueInv, Typed, Apart, Offered, TakeOffered, OfferedTasks
<1> QED BY <1>3, <1>4

LEMMA QueueInvAccepted == QueueInv /\ Accepted => QueueInv'
<1> SUFFICES ASSUME QueueInv, Accepted PROVE QueueInv'
    OBVIOUS
<1> DEFINE c == Offered[1]
           p == PreDmcPipeQueue
           q == transactionQueue
<1>1. /\ c \in Commands /\ c.task \in OfferedTasks \ OfferedTasks'
      /\ OfferedTasks' \subseteq OfferedTasks
      /\ CommandQueue' \in {<<>>, CommandQueue}
      /\ CommandQueueTest' \in {<<>>, CommandQueueTest}
    BY Taken DEF Accepted
<1>2. fresh' = fresh /\ CmdQueue' = CmdQueue
    BY DEF Accepted
<1>3. /\ \A i \in 1 .. Len(q) : q[i].task # c.task
      /\ \A i \in 1 .. Len(p) : p[i].task # c.task
      /\ c.task \notin fresh
    BY <1>1 DEF QueueInv, Apart
<1>4. CASE addTransaction(c) /\ UNCHANGED p
    <2>1. /\ q' \in Seq(EntryT) /\ Len(q') = Len(q) + 1
          /\ \A i \in 1 .. Len(q) : q'[i] = q[i]
          /\ q'[Len(q) + 1].task = c.task
          /\ Distinct(q') /\ Blocking(q')
        BY <1>1, <1>3, <1>4, Added
    <2>2. Typed'
        BY <1>1, <1>2, <1>4, <2>1 DEF QueueInv, Typed
    <2>3. \A i \in 1 .. Len(q') : i \in 1 .. Len(q) \/ i = Len(q) + 1
        BY <2>1 DEF QueueInv, Typed
    <2>4. \A i \in 1 .. Len(q') : /\ q'[i].task \notin fresh' \cup OfferedTasks'
                                  /\ \A k \in 1 .. Len(p') : q'[i].task # p'[k].task
        BY <1>1, <1>2, <1>3, <1>4, <2>1, <2>3 DEF QueueInv, Apart
    <2>5. Apart'
        BY <1>1, <1>2, <1>4, <2>1, <2>4 DEF QueueInv, Apart, Distinct
    <2>6. ReadyFree'
        <3>1. \A i \in 1 .. Len(q) : i \in 1 .. Len(q')
            BY <2>1 DEF QueueInv, Typed
        <3> QED BY <1>2, <2>1, <3>1 DEF QueueInv, ReadyFree
    <2> QED BY <2>1, <2>2, <2>5, <2>6
            DEF QueueInv, Blocking, BegunFree, FreeOfWrites, WaitsForLast
<1>5. CASE p' = Append(p, c) /\ UNCHANGED q
    <2>1. /\ p' \in Seq(Commands) /\ Len(p') = Len(p) + 1
          /\ \A i \in 1 .. Len(p) : p'[i] = p[i]
          /\ p'[Len(p) + 1] = c
        BY <1>1, <1>5, AppendProperties DEF QueueInv, Typed
    <2>2. Typed'
        BY <1>1, <1>2, <1>5, <2>1 DEF QueueInv, Typed
    <2>3. \A i \in 1 .. Len(p') : i \in 1 .. Len(p) \/ i = Len(p) + 1
        BY <2>1 DEF QueueInv, Typed
    <2>4. \A i \in 1 .. Len(p') : p'[i].task \notin fresh' \cup OfferedTasks'
        BY <1>1, <1>2, <1>3, <2>1, <2>3 DEF QueueInv, Apart
    <2>5. Distinct(p')
        BY <1>3, <2>1, <2>3 DEF QueueInv, Apart, Distinct
    <2>6. \A i \in 1 .. Len(q') : /\ q'[i].task \notin fresh' \cup OfferedTasks'
                                  /\ \A k \in 1 .. Len(p') : q'[i].task # p'[k].task
        BY <1>1, <1>2, <1>3, <1>5, <2>1, <2>3 DEF QueueInv, Apart
    <2>7. Apart'
        BY <1>1, <1>2, <1>5, <2>4, <2>5, <2>6 DEF QueueInv, Apart, Distinct
    <2> QED BY <1>2, <1>5, <2>2, <2>7
            DEF QueueInv, ReadyFree, Blocking, BegunFree, FreeOfWrites, WaitsForLast
<1> QED BY <1>4, <1>5 DEF Accepted

LEMMA QueueInvPipe == QueueInv /\ PipeDelivers => QueueInv'
<1> SUFFICES ASSUME QueueInv, PipeDelivers PROVE QueueInv'
    OBVIOUS
<1> DEFINE p == PreDmcPipeQueue
           c == Head(p)
           q == transactionQueue
<1>1. /\ p \in Seq(Commands) /\ p # <<>> /\ p' = Tail(p) /\ addTransaction(c)
      /\ UNCHANGED <<fresh, CommandQueue, CommandQueueTest, CmdQueue>>
    BY DEF QueueInv, Typed, PipeDelivers, hostVars
<1>2. /\ p' \in Seq(Commands) /\ Len(p') = Len(p) - 1 /\ Len(p) \in Nat \ {0}
      /\ \A i \in 1 .. Len(p') : p'[i] = p[i + 1] /\ i + 1 \in 1 .. Len(p)
      /\ c = p[1] /\ c \in Commands
    BY <1>1
<1> HIDE DEF c
<1>3. \A i \in 1 .. Len(q) : q[i].task # c.task
    BY <1>2 DEF QueueInv, Apart
<1>4. /\ q' \in Seq(EntryT) /\ Len(q') = Len(q) + 1
      /\ \A i \in 1 .. Len(q) : q'[i] = q[i]
      /\ q'[Len(q) + 1].task = c.task
      /\ Distinct(q') /\ Blocking(q')
    BY <1>1, <1>2, <1>3, Added
<1>5. Typed'
    BY <1>1, <1>2, <1>4 DEF QueueInv, Typed
<1>6. \A i \in 1 .. Len(q') : i \in 1 .. Len(q) \/ i = Len(q) + 1
    BY <1>4 DEF QueueInv, Typed
<1>7. OfferedTasks' = OfferedTasks
    BY <1>1 DEF OfferedTasks
<1>8. Distinct(p') /\ \A k \in 1 .. Len(p') : p'[k].task # c.task
    <2> DEFINE dom == 1 .. Len(p)
    <2>1. \A i, j \in dom : i # j => p[i].task # p[j].task
        BY DEF QueueInv, Apart, Distinct
    <2>2. \A i \in 1 .. Len(p') : p'[i] = p[i + 1] /\ i + 1 \in dom /\ i + 1 # 1
        BY <1>2
    <2>3. 1 \in dom /\ \A i, j \in 1 .. Len(p') : i # j => i + 1 # j + 1
        BY <1>2
    <2> HIDE DEF dom
    <2>4. Distinct(p')
        <3> SUFFICES ASSUME NEW i \in 1 .. Len(p'), NEW j \in 1 .. Len(p'), i # j
                     PROVE  p'[i].task # p'[j].task
            BY DEF Distinct
        <3> QED BY <2>1, <2>2, <2>3
    <2>5. \A k \in 1 .. Len(p') : p'[k].task # p[1].task
        BY <2>1, <2>2, <2>3
    <2> QED BY <1>2, <2>4, <2>5
<1>9. \A i \in 1 .. Len(q') : /\ q'[i].task \notin fresh' \cup OfferedTasks'
                              /\ \A k \in 1 .. Len(p') : q'[i].task # p'[k].task
    <2>1. c.task \notin fresh \cup OfferedTasks
        BY <1>2 DEF QueueInv, Apart
    <2> QED BY <1>1, <1>2, <1>4, <1>6, <1>7, <1>8, <2>1 DEF QueueInv, Apart
<1>10. Apart'
    BY <1>1, <1>2, <1>4, <1>7, <1>8, <1>9 DEF QueueInv, Apart, Distinct
<1>11. ReadyFree'
    <2>1. \A i \in 1 .. Len(q) : i \in 1 .. Len(q')
        BY <1>4 DEF QueueInv, Typed
    <2> QED BY <1>1, <1>4, <2>1 DEF QueueInv, ReadyFree
<1> QED BY <1>4, <1>5, <1>10, <1>11
        DEF QueueInv, Blocking, BegunFree, FreeOfWrites, WaitsForLast

(* A transaction leaves when it has issued everything: no one who is ready *)
(* leaves, and the others keep their task.                                 *)
LEMMA QueueInvRetire ==
    ASSUME QueueInv, NEW n \in 1 .. Len(transactionQueue), Retire(n) PROVE QueueInv'
<1> DEFINE q == transactionQueue
<1>1. /\ q \in Seq(EntryT) /\ Blocking(q) /\ Distinct(q)
      /\ q' = erase(Released(q, n), n)
    BY DEF QueueInv, Typed, Apart, Retire
<1>2. q[n].issue_size >= BURSTS /\ BURSTS \in Nat \ {0} /\ q[n].issue_size \in Nat
    <2>1. q[n] \in EntryT
        BY <1>1, ElementOfSeq
    <2> QED BY <2>1, QueueAssumption DEF Retire, Finished, EntryT
<1>3. q[n].issue_size > 0
    BY <1>2
<1>4. /\ q' \in Seq(EntryT) /\ Blocking(q')
      /\ \A k \in 1 .. Len(q') : \E j \in 1 .. Len(q) :
            /\ j = IF k < n THEN k ELSE k + 1
            /\ q'[k].task = q[j].task
            /\ q'[k].issue_size = q[j].issue_size
            /\ ~q[j].addrconf => ~q'[k].addrconf
    BY <1>1, <1>3, BlockingRetire
<1>5. Len(q') = Len(q) - 1
    <2>1. Released(q, n) \in Seq(EntryT) /\ Len(Released(q, n)) = Len(q)
        BY <1>1, ReleasedShape
    <2> QED BY <1>1, <2>1, Erase
<1>6. /\ UNCHANGED <<fresh, CommandQueue, CommandQueueTest, PreDmcPipeQueue>>
      /\ CmdQueue' = CmdQueue
    BY DEF Retire, hostVars, gateVars
<1>7. Typed'
    BY <1>4, <1>6 DEF QueueInv, Typed
<1>8. Distinct(q')
    BY <1>1, <1>4 DEF Distinct
<1>9. OfferedTasks' = OfferedTasks
    BY <1>6 DEF OfferedTasks
<1>10. Apart'
    <2>1. \A k \in 1 .. Len(q') : \E j \in 1 .. Len(q) : q'[k].task = q[j].task
        BY <1>4
    <2>2. \A k \in 1 .. Len(q') :
              /\ q'[k].task \notin fresh' \cup OfferedTasks'
              /\ \A m \in 1 .. Len(PreDmcPipeQueue') : q'[k].task # PreDmcPipeQueue'[m].task
        BY <1>6, <1>9, <2>1 DEF QueueInv, Apart
    <2>3. Distinct(PreDmcPipeQueue')
        BY <1>6 DEF QueueInv, Apart, Distinct
    <2> QED BY <1>6, <1>8, <1>9, <2>2, <2>3 DEF QueueInv, Apart
<1>11. ReadyFree'
    <2> SUFFICES ASSUME NEW t \in CmdQueue
                 PROVE  \E k \in 1 .. Len(q') : /\ q'[k].task = t /\ ~q'[k].addrconf
                                                /\ q'[k].issue_size < BURSTS
        BY <1>6 DEF ReadyFree
    <2>1. PICK i \in 1 .. Len(q) : /\ q[i].task = t
                                   /\ ~q[i].addrconf /\ q[i].issue_size < BURSTS
        BY DEF QueueInv, ReadyFree
    <2>2. q[i].issue_size \in Nat
        <3>1. q[i] \in EntryT
            BY <1>1, ElementOfSeq
        <3> QED BY <3>1 DEF EntryT
    <2>3. i # n
        BY <1>2, <2>1, <2>2
    <2> DEFINE k == IF i < n THEN i ELSE i - 1
    <2>4. k \in 1 .. Len(q') /\ i = IF k < n THEN k ELSE k + 1
        BY <1>1, <1>5, <2>3
    <2> HIDE DEF k
    <2> QED BY <1>4, <2>1, <2>4
<1> QED BY <1>4, <1>7, <1>10, <1>11
        DEF QueueInv, Blocking, BegunFree, FreeOfWrites, WaitsForLast
-----------------------------------------------------------------------------
(* Every step keeps who waits for whom as described at the top.            *)
THEOREM WaitingSound == Spec => []QueueInv
<1>1. QueueInv /\ [Next]_vars => QueueInv'
    <2> SUFFICES ASSUME QueueInv, [Next]_vars PROVE QueueInv'
        OBVIOUS
    <2>1. DOMAIN transactionQueue = 1 .. Len(transactionQueue)
        BY DEF QueueInv, Typed
    <2> QED BY <2>1, NextQueue, QueueInvNew, QueueInvAccepted, QueueInvPipe, QueueInvWdata,
               QueueInvSchedule, QueueInvRetire, QueueInvPipeline, QueueInvUnchanged
<1> QED BY <1>1, QueueInvInit, PTL DEF Spec

(* Nothing overtakes an older write to its address: no queued read gets    *)
(* the data from before it, no queued write is buried under it.            *)
THEOREM OlderWritesFirstHolds == Spec => []OlderWritesFirst
<1>1. QueueInv => OlderWritesFirst
    <2> SUFFICES ASSUME QueueInv, NEW j \in 1 .. Len(transactionQueue), HasBegun(j),
                        NEW i \in OlderConflicts(j)
                 PROVE  Read(transactionQueue[i])
        BY DEF OlderWritesFirst, QueueInv, Typed
    <2>1. ~transactionQueue[j].addrconf
        BY DEF HasBegun, QueueInv, Blocking, BegunFree
    <2> QED BY <2>1 DEF OlderConflicts, QueueInv, Blocking, FreeOfWrites
<1> QED BY <1>1, WaitingSound, PTL

(* Whoever is blocked is blocked by a transaction that is still queued and *)
(* will release it.                                                        *)
THEOREM BlockerQueuedHolds == Spec => []BlockerQueued
<1>1. QueueInv => BlockerQueued
    <2> SUFFICES ASSUME QueueInv, NEW j \in 1 .. Len(transactionQueue),
                        transactionQueue[j].addrconf
                 PROVE  \E i \in 1 .. j - 1 :
                            Releases(transactionQueue[i], transactionQueue[j])
        BY DEF BlockerQueued, QueueInv, Typed
    <2>1. PICK i \in 1 .. j - 1 :
              /\ transactionQueue[i].task = transactionQueue[j].addr_block_source_id
              /\ Conflict(transactionQueue[i], transactionQueue[j])
        BY DEF QueueInv, Blocking, WaitsForLast
    <2> QED BY <2>1 DEF Releases, Conflict
<1> QED BY <1>1, WaitingSound, PTL
-----------------------------------------------------------------------------
(***************************************************************************)
(* Counting what a sequence holds.                                         *)
(***************************************************************************)
Places(s, t) == {i \in DOMAIN s : s[i] = t}

LEMMA PlacesFinite ==
    ASSUME NEW S, NEW s \in Seq(S), NEW t
    PROVE  /\ Places(s, t) = {i \in 1 .. Len(s) : s[i] = t}
           /\ IsFiniteSet(Places(s, t)) /\ Count(s, t) = Cardinality(Places(s, t))
           /\ Count(s, t) \in Nat /\ Count(s, t) <= Len(s)
           /\ Count(s, t) = 0 <=> \A i \in 1 .. Len(s) : s[i] # t
<1>1. Places(s, t) = {i \in 1 .. Len(s) : s[i] = t} /\ Len(s) \in Nat
    BY LenProperties DEF Places
<1>2. Places(s, t) \in SUBSET (1 .. Len(s))
    BY <1>1
<1>3. IsFiniteSet(1 .. Len(s)) /\ Cardinality(1 .. Len(s)) = Len(s)
    BY <1>1, FS_Interval
<1>4. IsFiniteSet(Places(s, t)) /\ Cardinality(Places(s, t)) <= Len(s)
    BY <1>2, <1>3, FS_Subset
<1>5. Cardinality(Places(s, t)) \in Nat
    BY <1>4, FS_CardinalityType
<1>6. Count(s, t) = Cardinality(Places(s, t))
    BY DEF Count, Places
<1>7. Count(s, t) = 0 <=> Places(s, t) = {}
    BY <1>4, <1>6, FS_EmptySet
<1> QED
    BY <1>1, <1>4, <1>5, <1>6, <1>7

(* What is taken out of a sequence counts once.                            *)
LEMMA CountErase ==
    ASSUME NEW S, NEW s \in Seq(S), NEW n \in 1 .. Len(s), NEW t
    PROVE  Count(erase(s, n), t) = IF s[n] = t THEN Count(s, t) - 1 ELSE Count(s, t)
<1> DEFINE r == erase(s, n)
           old(k) == IF k < n THEN k ELSE k + 1
           f == [k \in Places(r, t) |-> old(k)]
<1>1. /\ r \in Seq(S) /\ Len(r) = Len(s) - 1 /\ Len(s) \in Nat
      /\ \A k \in 1 .. Len(s) - 1 : r[k] = s[old(k)]
    BY Erase, LenProperties
<1>2. /\ Places(r, t) = {k \in 1 .. Len(r) : r[k] = t} /\ IsFiniteSet(Places(r, t))
      /\ Count(r, t) = Cardinality(Places(r, t))
    BY <1>1, PlacesFinite
<1>3. /\ Places(s, t) = {k \in 1 .. Len(s) : s[k] = t} /\ IsFiniteSet(Places(s, t))
      /\ Count(s, t) = Cardinality(Places(s, t))
    BY PlacesFinite
<1> HIDE DEF r
<1>4. \A k \in Places(r, t) : old(k) \in Places(s, t) \ {n}
    BY <1>1, <1>2, <1>3
<1>5. \A i \in Places(s, t) \ {n} : \E k \in Places(r, t) : old(k) = i
    <2> TAKE i \in Places(s, t) \ {n}
    <2>1. i \in 1 .. Len(s) /\ s[i] = t /\ i # n
        BY <1>3
    <2> DEFINE k == IF i < n THEN i ELSE i - 1
    <2>2. k \in 1 .. Len(r) /\ old(k) = i
        BY <1>1, <2>1
    <2>3. k \in Places(r, t)
        BY <1>1, <1>2, <2>1, <2>2
    <2> QED
        BY <2>2, <2>3
<1>6. \A j, k \in Places(r, t) : old(j) = old(k) => j = k
    BY <1>2
<1>7. f \in Bijection(Places(r, t), Places(s, t) \ {n})
    <2>1. f \in [Places(r, t) -> Places(s, t) \ {n}]
        BY <1>4
    <2>2. f \in Injection(Places(r, t), Places(s, t) \ {n})
        BY <1>6, <2>1 DEF Injection, IsInjective
    <2>3. f \in Surjection(Places(r, t), Places(s, t) \ {n})
        BY <1>5, <2>1 DEF Surjection
    <2> QED
        BY <2>2, <2>3 DEF Bijection
<1>8. Cardinality(Places(s, t) \ {n}) = Cardinality(Places(r, t))
    BY <1>2, <1>7, FS_Bijection DEF ExistsBijection
<1>9. Cardinality(Places(s, t) \ {n}) =
         IF n \in Places(s, t) THEN Cardinality(Places(s, t)) - 1 ELSE Cardinality(Places(s, t))
    BY <1>3, FS_RemoveElement
<1>10. n \in Places(s, t) <=> s[n] = t
    BY <1>3
<1> QED
    BY <1>2, <1>3, <1>8, <1>9, <1>10 DEF r

LEMMA CountTail ==
    ASSUME NEW S, NEW s \in Seq(S), s # <<>>, NEW t
    PROVE  Count(Tail(s), t) = IF Head(s) = t THEN Count(s, t) - 1 ELSE Count(s, t)
<1>1. /\ Len(s) \in Nat \ {0} /\ Tail(s) \in Seq(S) /\ Len(Tail(s)) = Len(s) - 1
      /\ \A i \in 1 .. Len(Tail(s)) : Tail(s)[i] = s[i + 1]
      /\ Head(s) = s[1]
    BY EmptySeq, HeadTailProperties
<1>4. 1 \in 1 .. Len(s)
    BY <1>1
<1>2. /\ erase(s, 1) \in Seq(S) /\ Len(erase(s, 1)) = Len(s) - 1
      /\ \A k \in 1 .. Len(s) - 1 : erase(s, 1)[k] = s[k + 1]
    <2>1. /\ erase(s, 1) \in Seq(S) /\ Len(erase(s, 1)) = Len(s) - 1
          /\ \A k \in 1 .. Len(s) - 1 : erase(s, 1)[k] = s[IF k < 1 THEN k ELSE k + 1]
        BY <1>4, Erase
    <2>2. \A k \in 1 .. Len(s) - 1 : (IF k < 1 THEN k ELSE k + 1) = k + 1
        BY <1>1
    <2> HIDE DEF erase
    <2> QED
        BY <2>1, <2>2
<1>3. Tail(s) = erase(s, 1)
    BY <1>1, <1>2, SeqEqual
<1>5. Count(erase(s, 1), t) = IF s[1] = t THEN Count(s, t) - 1 ELSE Count(s, t)
    BY <1>4, CountErase
<1> QED
    BY <1>1, <1>3, <1>5

LEMMA CountAppend ==
    ASSUME NEW S, NEW s \in Seq(S), NEW x \in S, NEW t
    PROVE  Count(Append(s, x), t) = IF x = t THEN Count(s, t) + 1 ELSE Count(s, t)
<1> DEFINE r == Append(s, x)
           n == Len(s) + 1
<1>1. /\ r \in Seq(S) /\ Len(r) = n /\ Len(s) \in Nat /\ r[n] = x
      /\ \A i \in 1 .. Len(s) : r[i] = s[i]
    BY AppendProperties, LenProperties
<1>2. /\ erase(r, n) \in Seq(S) /\ Len(erase(r, n)) = Len(s)
      /\ \A k \in 1 .. Len(s) : erase(r, n)[k] = s[k]
    <2> HIDE DEF r
    <2>1. n \in 1 .. Len(r)
        BY <1>1
    <2>2. /\ erase(r, n) \in Seq(S) /\ Len(erase(r, n)) = Len(r) - 1
          /\ \A k \in 1 .. Len(r) - 1 : erase(r, n)[k] = r[IF k < n THEN k ELSE k + 1]
        <3> HIDE DEF n
        <3> QED
            BY <1>1, <2>1, Erase
    <2> QED
        BY <1>1, <2>2
<1>3. s = erase(r, n)
    BY <1>2, SeqEqual
<1>4. n \in 1 .. Len(r) /\ Count(r, t) \in Nat /\ (r[n] = t => Count(r, t) # 0)
    <2>1. n \in 1 .. Len(r)
        BY <1>1
    <2>2. Count(r, t) \in Nat /\ (Count(r, t) = 0 <=> \A i \in 1 .. Len(r) : r[i] # t)
        <3> HIDE DEF r
        <3> QED
            BY <1>1, PlacesFinite
    <2> QED
        BY <2>1, <2>2
<1>5. Count(s, t) = IF r[n] = t THEN Count(r, t) - 1 ELSE Count(r, t)
    <2> HIDE DEF r, n
    <2> QED
        BY <1>1, <1>3, <1>4, CountErase
<1> QED
    BY <1>1, <1>4, <1>5

(* The beats of a write, at the end of those the driver has to send.       *)
LEMMA CountBeats ==
    ASSUME NEW s \in Seq(AllTasks), NEW x \in AllTasks, NEW t
    PROVE  /\ s \o Beats(x) \in Seq(AllTasks) /\ Len(s \o Beats(x)) = Len(s) + BEATS
           /\ \A i \in 1 .. Len(s) + BEATS :
                 (s \o Beats(x))[i] = IF i <= Len(s) THEN s[i] ELSE x
           /\ Count(s \o Beats(x), t) = IF x = t THEN Count(s, t) + BEATS ELSE Count(s, t)
<1> DEFINE b == Beats(x)
           r == s \o b
           L == Len(s)
<1>1. BEATS \in Nat \ {0} /\ L \in Nat
    BY QueueAssumption, LenProperties
<1>2. b \in Seq(AllTasks) /\ Len(b) = BEATS /\ \A i \in 1 .. BEATS : b[i] = x
    BY <1>1 DEF Beats
<1>3. /\ r \in Seq(AllTasks) /\ Len(r) = L + BEATS
      /\ \A i \in 1 .. L + BEATS : r[i] = IF i <= L THEN s[i] ELSE x
    <2> HIDE DEF b
    <2>1. /\ r \in Seq(AllTasks) /\ Len(r) = L + BEATS
          /\ \A i \in 1 .. L + BEATS : r[i] = IF i <= L THEN s[i] ELSE b[i - L]
        BY <1>2, ConcatProperties
    <2> QED
        BY <1>1, <1>2, <2>1
<1> HIDE DEF r, b
<1>4. /\ Places(r, t) = {i \in 1 .. L + BEATS : r[i] = t} /\ Count(r, t) = Cardinality(Places(r, t))
      /\ Places(s, t) = {i \in 1 .. L : s[i] = t} /\ Count(s, t) = Cardinality(Places(s, t))
      /\ IsFiniteSet(Places(s, t)) /\ Count(s, t) \in Nat
    BY <1>3, PlacesFinite
<1>5. CASE x # t
    <2>1. Places(r, t) = Places(s, t)
        BY <1>1, <1>3, <1>4, <1>5
    <2> QED
        BY <1>3, <1>4, <1>5, <2>1 DEF r, b
<1>6. CASE x = t
    <2> DEFINE N == L + 1 .. L + BEATS
    <2>1. Places(r, t) = Places(s, t) \cup N /\ Places(s, t) \cap N = {}
        BY <1>1, <1>3, <1>4, <1>6
    <2>2. IsFiniteSet(N) /\ Cardinality(N) = BEATS
        BY <1>1, FS_Interval
    <2> HIDE DEF N
    <2>3. Cardinality(Places(r, t)) = Cardinality(Places(s, t)) + BEATS
        <3>1. Cardinality(Places(s, t) \cup N) =
                 Cardinality(Places(s, t)) + Cardinality(N) - Cardinality(Places(s, t) \cap N)
            BY <1>4, <2>2, FS_Union
        <3>2. Cardinality(Places(s, t) \cap N) = 0
            BY <2>1, FS_EmptySet
        <3>3. Cardinality(Places(s, t)) \in Nat
            BY <1>4
        <3> QED
            BY <1>1, <2>1, <2>2, <3>1, <3>2, <3>3
    <2> QED
        BY <1>3, <1>4, <1>6, <2>3 DEF r, b
<1> QED
    BY <1>5, <1>6
-----------------------------------------------------------------------------
(***************************************************************************)
(* The write data.  What the driver has to send stands in the order of     *)
(* wdata_order_queue, and behind it that of the pipe.                      *)
(***************************************************************************)
DataTyped ==
    /\ write_task \in Seq(AllTasks) /\ write_map \in [AllTasks -> 0 .. BEATS]
    /\ wdata_order_queue \in Seq([task : AllTasks, remaining_beats : 1 .. BEATS])
    /\ WdataPipe \in Seq(AllTasks)
    /\ Len(PreDmcPipeQueue) <= tPIPE_PRE_DMC /\ Len(transactionQueue) <= TRANS_QUEUE_DEPTH
    /\ \A i \in 1 .. Len(transactionQueue) : /\ transactionQueue[i].issue_size <= BURSTS
                                             /\ transactionQueue[i].data_ready_cnt <= BEATS

(* The beats of each queued write: arrived, on their way, still awaited.   *)
HasData(i, n) == ~Read(transactionQueue[i]) /\
    transactionQueue[i].data_ready_cnt + Count(WdataPipe, transactionQueue[i].task) + n = BEATS
DataKept ==
    /\ \A a, b \in 1 .. Len(wdata_order_queue) :
          a # b => wdata_order_queue[a].task # wdata_order_queue[b].task
    /\ \A a \in 1 .. Len(wdata_order_queue) : \E i \in 1 .. Len(transactionQueue) :
          /\ transactionQueue[i].task = wdata_order_queue[a].task
          /\ HasData(i, wdata_order_queue[a].remaining_beats)
    /\ \A i \in 1 .. Len(transactionQueue) :
          \/ Read(transactionQueue[i])
          \/ \E a \in 1 .. Len(wdata_order_queue) :
                wdata_order_queue[a].task = transactionQueue[i].task
          \/ HasData(i, 0)
    /\ \A n \in 1 .. Len(WdataPipe) : \E i \in 1 .. Len(transactionQueue) :
          ~Read(transactionQueue[i]) /\ transactionQueue[i].task = WdataPipe[n]

(* A write begins when it has all its data.                                *)
WritesReady ==
    \A i \in 1 .. Len(transactionQueue) :
        ~Read(transactionQueue[i])
            /\ (transactionQueue[i].issue_size > 0 \/ transactionQueue[i].task \in CmdQueue)
        => transactionQueue[i].data_ready_cnt = BEATS

(* The channel expects what the controller awaits or will await.           *)
Expected ==
    /\ \A a \in 1 .. Len(wdata_order_queue) :
          write_map[wdata_order_queue[a].task] = wdata_order_queue[a].remaining_beats
    /\ \A k \in 1 .. Len(PreDmcPipeQueue) :
          ~Read(PreDmcPipeQueue[k]) => write_map[PreDmcPipeQueue[k].task] = BEATS
    /\ \A t \in AllTasks : write_map[t] > 0 =>
          \/ \E a \in 1 .. Len(wdata_order_queue) : wdata_order_queue[a].task = t
          \/ \E k \in 1 .. Len(PreDmcPipeQueue) :
                ~Read(PreDmcPipeQueue[k]) /\ PreDmcPipeQueue[k].task = t
    /\ \A t \in AllTasks : write_map[t] = Count(write_task, t)

InLine ==
    \A i, j \in 1 .. Len(write_task) : i < j =>
        /\ \A a, b \in 1 .. Len(wdata_order_queue) :
              wdata_order_queue[a].task = write_task[i] /\ wdata_order_queue[b].task = write_task[j]
              => a <= b
        /\ \A k \in 1 .. Len(PreDmcPipeQueue) : PreDmcPipeQueue[k].task = write_task[i] =>
              /\ \A b \in 1 .. Len(wdata_order_queue) : wdata_order_queue[b].task # write_task[j]
              /\ \A l \in 1 .. Len(PreDmcPipeQueue) :
                    PreDmcPipeQueue[l].task = write_task[j] => k <= l

DataInv == DataTyped /\ DataKept /\ WritesReady /\ Expected /\ InLine

(***************************************************************************)
(* The responses.                                                          *)
(***************************************************************************)
Gone == Range1(WriteResp) \cup Range1(ReadResp) \cup answered
RespKept ==
    /\ WriteResp \in Seq(AllTasks) /\ ReadResp \in Seq(AllTasks) /\ answered \subseteq AllTasks
    /\ dresp_cnt = Len(WriteResp) + Len(ReadResp)
    /\ \A i, j \in 1 .. Len(WriteResp) : i # j => WriteResp[i] # WriteResp[j]
    /\ \A i, j \in 1 .. Len(ReadResp) : i # j => ReadResp[i] # ReadResp[j]
    /\ \A i \in 1 .. Len(WriteResp), j \in 1 .. Len(ReadResp) : WriteResp[i] # ReadResp[j]
    /\ \A i \in 1 .. Len(WriteResp) : WriteResp[i] \notin answered
    /\ \A j \in 1 .. Len(ReadResp) : ReadResp[j] \notin answered
GoneAway ==
    \A t \in Gone :
        /\ t \notin fresh \cup OfferedTasks
        /\ \A k \in 1 .. Len(PreDmcPipeQueue) : PreDmcPipeQueue[k].task # t
        /\ \A i \in 1 .. Len(transactionQueue) : transactionQueue[i].task = t =>
              RDATA_TYPE = 0 /\ Read(transactionQueue[i]) /\ transactionQueue[i].issue_size > 0

Adds(e) == e.issue_size > 0 /\ (~Read(e) \/ RDATA_TYPE = 1)
BegunAt == {i \in 1 .. Len(transactionQueue) : Begun(transactionQueue[i])}
AddsAt  == {i \in 1 .. Len(transactionQueue) : Adds(transactionQueue[i])}
Under  == Cardinality(BegunAt)
Coming == Cardinality(AddsAt)
Bounded ==
    /\ Under <= EXEC_NUMBER
    /\ dresp_cnt + Coming < DRESP_BP_TH + EXEC_NUMBER
    /\ \A i, j \in 1 .. Len(transactionQueue) :
         Finished(i) => phase = "que" /\ (Finished(j) => i = j)
    /\ phase \notin {"que", "lc"} =>
         \A i \in 1 .. Len(transactionQueue) :
            transactionQueue[i].task \in CmdQueue /\ transactionQueue[i].issue_size = 0
            => Under < EXEC_NUMBER /\ dresp_cnt < DRESP_BP_TH
-----------------------------------------------------------------------------
(* What one step does to the entries of the queue.                         *)
LEMMA ScheduleShape ==
    ASSUME QueueInv, NEW n \in 1 .. Len(transactionQueue), Schedule(n)
    PROVE  /\ Len(transactionQueue') = Len(transactionQueue)
           /\ transactionQueue' \in Seq(EntryT)
           /\ \A i \in 1 .. Len(transactionQueue) :
                 /\ transactionQueue[i] \in EntryT
                 /\ transactionQueue'[i].task = transactionQueue[i].task
                 /\ transactionQueue'[i].type = transactionQueue[i].type
                 /\ transactionQueue'[i].data_ready_cnt = transactionQueue[i].data_ready_cnt
                 /\ transactionQueue'[i].issue_size =
                       IF i = n THEN transactionQueue[i].issue_size + 1
                       ELSE transactionQueue[i].issue_size
           /\ transactionQueue[n].issue_size < BURSTS
<1> DEFINE q == transactionQueue
           e == [q[n] EXCEPT !.issue_size = @ + 1]
<1>1. q \in Seq(EntryT) /\ Distinct(q) /\ ReadyFree /\ \A i \in 1 .. Len(q) : q[i] \in EntryT
    BY ElementOfSeq DEF QueueInv, Typed, Apart
<1>2. e \in EntryT /\ q' = [q EXCEPT ![n] = e]
    <2>1. ASSUME NEW x \in EntryT PROVE [x EXCEPT !.issue_size = @ + 1] \in EntryT
        BY DEF EntryT
    <2> QED BY <1>1, <2>1 DEF Schedule
<1>3. /\ e.task = q[n].task /\ e.type = q[n].type /\ e.data_ready_cnt = q[n].data_ready_cnt
      /\ e.issue_size = q[n].issue_size + 1
    <2>1. q[n] \in EntryT
        BY <1>1
    <2> QED BY <2>1 DEF EntryT
<1>4. q[n].issue_size < BURSTS
    BY <1>1 DEF ReadyFree, Distinct, Schedule
<1> HIDE DEF e
<1>5. /\ q' \in Seq(EntryT) /\ Len(q') = Len(q)
      /\ \A i \in 1 .. Len(q) : q'[i] = IF i = n THEN e ELSE q[i]
    BY <1>1, <1>2, ExceptSeq
<1> QED BY <1>1, <1>3, <1>4, <1>5

LEMMA ArriveShape ==
    ASSUME QueueInv, UpdateWdata
    PROVE  \E n \in 1 .. Len(transactionQueue), i \in DOMAIN WdataPipe :
           /\ ~Read(transactionQueue[n]) /\ transactionQueue[n].task = WdataPipe[i]
           /\ transactionQueue[n].data_ready_cnt < BEATS
           /\ WdataPipe' = erase(WdataPipe, i)
           /\ Len(transactionQueue') = Len(transactionQueue)
           /\ transactionQueue' \in Seq(EntryT)
           /\ \A j \in 1 .. Len(transactionQueue) :
                 /\ transactionQueue[j] \in EntryT
                 /\ transactionQueue'[j].task = transactionQueue[j].task
                 /\ transactionQueue'[j].type = transactionQueue[j].type
                 /\ transactionQueue'[j].issue_size = transactionQueue[j].issue_size
                 /\ transactionQueue'[j].data_ready_cnt =
                       IF j = n THEN transactionQueue[j].data_ready_cnt + 1
                       ELSE transactionQueue[j].data_ready_cnt
<1> DEFINE q == transactionQueue
<1>1. /\ q \in Seq(EntryT) /\ DOMAIN q = 1 .. Len(q)
      /\ \A i \in 1 .. Len(q) : q[i] \in EntryT
    BY ElementOfSeq DEF QueueInv, Typed
<1>2. PICK i \in DOMAIN WdataPipe, n \in 1 .. Len(q) :
          /\ ~Read(q[n]) /\ q[n].task = WdataPipe[i] /\ q[n].data_ready_cnt < BEATS
          /\ q' = [q EXCEPT ![n].data_ready_cnt = @ + 1]
          /\ WdataPipe' = erase(WdataPipe, i)
    BY <1>1 DEF UpdateWdata
<1> DEFINE e == [q[n] EXCEPT !.data_ready_cnt = @ + 1]
<1>3. e \in EntryT /\ q' = [q EXCEPT ![n] = e]
    <2>1. ASSUME NEW x \in EntryT PROVE [x EXCEPT !.data_ready_cnt = @ + 1] \in EntryT
        BY DEF EntryT
    <2> QED BY <1>1, <1>2, <2>1
<1>4. /\ e.task = q[n].task /\ e.type = q[n].type /\ e.issue_size = q[n].issue_size
      /\ e.data_ready_cnt = q[n].data_ready_cnt + 1
    <2>1. q[n] \in EntryT
        BY <1>1
    <2> QED BY <2>1 DEF EntryT
<1> HIDE DEF e
<1>5. /\ q' \in Seq(EntryT) /\ Len(q') = Len(q)
      /\ \A j \in 1 .. Len(q) : q'[j] = IF j = n THEN e ELSE q[j]
    BY <1>1, <1>3, ExceptSeq
<1> QED BY <1>1, <1>2, <1>4, <1>5

LEMMA RetireShape ==
    ASSUME QueueInv, NEW n \in 1 .. Len(transactionQueue), Retire(n)
    PROVE  /\ Len(transactionQueue') = Len(transactionQueue) - 1
           /\ transactionQueue' \in Seq(EntryT)
           /\ \A i \in 1 .. Len(transactionQueue) : transactionQueue[i] \in EntryT
           /\ \A k \in 1 .. Len(transactionQueue) - 1 :
                 \E i \in 1 .. Len(transactionQueue) :
                    /\ i = (IF k < n THEN k ELSE k + 1)
                    /\ transactionQueue'[k].task = transactionQueue[i].task
                    /\ transactionQueue'[k].type = transactionQueue[i].type
                    /\ transactionQueue'[k].issue_size = transactionQueue[i].issue_size
                    /\ transactionQueue'[k].data_ready_cnt = transactionQueue[i].data_ready_cnt
<1> DEFINE q == transactionQueue
           r == Released(q, n)
<1>1. q \in Seq(EntryT) /\ DOMAIN q = 1 .. Len(q) /\ \A i \in 1 .. Len(q) : q[i] \in EntryT
    BY ElementOfSeq DEF QueueInv, Typed
<1>2. /\ r \in Seq(EntryT) /\ Len(r) = Len(q)
      /\ \A j \in 1 .. Len(q) :
            /\ r[j].task = q[j].task /\ r[j].type = q[j].type
            /\ r[j].issue_size = q[j].issue_size
    BY <1>1, ReleasedShape
<1>3. ASSUME NEW j \in 1 .. Len(q) PROVE r[j].data_ready_cnt = q[j].data_ready_cnt
    <2>1. r[j] = IF j > n /\ Releases(q[n], q[j])
                 THEN [q[j] EXCEPT !.addrconf = FALSE] ELSE q[j]
        BY <1>1 DEF Released
    <2>2. ASSUME NEW x \in EntryT
          PROVE  [x EXCEPT !.addrconf = FALSE].data_ready_cnt = x.data_ready_cnt
        BY DEF EntryT
    <2> QED BY <1>1, <2>1, <2>2
<1>4. q' = erase(r, n)
    BY DEF Retire
<1> HIDE DEF r
<1>5. /\ q' \in Seq(EntryT) /\ Len(q') = Len(q) - 1
      /\ \A k \in 1 .. Len(q) - 1 : q'[k] = r[IF k < n THEN k ELSE k + 1]
    BY <1>2, <1>4, Erase
<1>6. ASSUME NEW k \in 1 .. Len(q) - 1
      PROVE  \E i \in 1 .. Len(q) :
                    /\ i = (IF k < n THEN k ELSE k + 1)
                    /\ q'[k].task = q[i].task /\ q'[k].type = q[i].type
                    /\ q'[k].issue_size = q[i].issue_size
                    /\ q'[k].data_ready_cnt = q[i].data_ready_cnt
    <2> DEFINE i == IF k < n THEN k ELSE k + 1
    <2>1. i \in 1 .. Len(q)
        BY <1>1
    <2>2. q'[k] = r[i]
        BY <1>5
    <2> HIDE DEF i
    <2>3. /\ q'[k].task = q[i].task /\ q'[k].type = q[i].type
          /\ q'[k].issue_size = q[i].issue_size
          /\ q'[k].data_ready_cnt = q[i].data_ready_cnt
        BY <1>2, <1>3, <2>1, <2>2
    <2> QED BY <2>1, <2>3 DEF i
<1> QED BY <1>1, <1>5, <1>6

LEMMA AddShape ==
    ASSUME QueueInv, NEW c \in Commands, addTransaction(c),
           \A i \in 1 .. Len(transactionQueue) : transactionQueue[i].task # c.task
    PROVE  /\ Len(transactionQueue') = Len(transactionQueue) + 1
           /\ Len(transactionQueue) \in Nat /\ Len(transactionQueue) < TRANS_QUEUE_DEPTH
           /\ transactionQueue' \in Seq(EntryT)
           /\ \A i \in 1 .. Len(transactionQueue) :
                 transactionQueue[i] \in EntryT /\ transactionQueue'[i] = transactionQueue[i]
           /\ transactionQueue'[Len(transactionQueue) + 1].task = c.task
           /\ transactionQueue'[Len(transactionQueue) + 1].type = c.type
           /\ transactionQueue'[Len(transactionQueue) + 1].issue_size = 0
           /\ transactionQueue'[Len(transactionQueue) + 1].data_ready_cnt = 0
<1> DEFINE q == transactionQueue
<1>1. q \in Seq(EntryT) /\ Len(q) \in Nat /\ \A i \in 1 .. Len(q) : q[i] \in EntryT
    BY ElementOfSeq DEF QueueInv, Typed
<1>2. /\ q' \in Seq(EntryT) /\ Len(q') = Len(q) + 1 /\ \A i \in 1 .. Len(q) : q'[i] = q[i]
    BY Added
<1>3. Len(q) < TRANS_QUEUE_DEPTH
    BY <1>1, QueueAssumption DEF addTransaction, full
<1>4. q'[Len(q) + 1] = Entry(c)
    <2> DEFINE e == Entry(c)
    <2>1. q' = Append(q, e)
        BY DEF addTransaction
    <2> HIDE DEF e
    <2>2. Len(q) + 1 \in 1 .. Len(q')
        BY <1>1, <1>2
    <2>3. q'[Len(q) + 1] = e
        BY <1>1, <2>1
    <2> QED BY <2>3 DEF e
<1>5. Entry(c).task = c.task /\ Entry(c).type = c.type /\ Entry(c).issue_size = 0 /\ Entry(c).data_ready_cnt = 0
    BY DEF Entry
<1> QED BY <1>1, <1>2, <1>3, <1>4, <1>5
-----------------------------------------------------------------------------
wdataVars == <<transactionQueue, PreDmcPipeQueue, wdata_order_queue, write_task, write_map, WdataPipe>>

LEMMA DataInvInit == Init => DataInv
<1> SUFFICES ASSUME Init PROVE DataInv
    OBVIOUS
<1>1. \A t \in AllTasks : Count(<<>>, t) = 0
    <2> TAKE t \in AllTasks
    <2>1. {i \in DOMAIN <<>> : <<>>[i] = t} = {}
        OBVIOUS
    <2> QED BY <2>1, FS_EmptySet DEF Count
<1>2. BEATS \in Nat \ {0} /\ tPIPE_PRE_DMC \in Nat /\ TRANS_QUEUE_DEPTH \in Nat
    BY QueueAssumption
<1> QED BY <1>1, <1>2 DEF Init, DataInv, DataTyped, DataKept, WritesReady, Expected, InLine

LEMMA DataParts ==
    ASSUME DataInv, UNCHANGED wdataVars
    PROVE  DataTyped' /\ DataKept' /\ Expected' /\ InLine'
<1> USE DEF wdataVars
<1>1. \A t : Count(WdataPipe, t)' = Count(WdataPipe, t) /\ Count(write_task, t)' = Count(write_task, t)
    BY DEF Count
<1>2. DataTyped' BY DEF DataInv, DataTyped
<1>3. DataKept' BY <1>1 DEF DataInv, DataKept, HasData
<1>4. Expected' BY <1>1 DEF DataInv, Expected
<1>5. InLine' BY DEF DataInv, InLine
<1> QED BY <1>2, <1>3, <1>4, <1>5

LEMMA DataInvSame ==
    ASSUME DataInv, UNCHANGED wdataVars, CmdQueue' \subseteq CmdQueue
    PROVE  DataInv'
<1>1. WritesReady'
    BY DEF DataInv, WritesReady, wdataVars
<1> QED BY <1>1, DataParts DEF DataInv

(* The beats stay those of the same writes while the queue keeps its order. *)
LEMMA DataKeptSame ==
    ASSUME DataInv, Len(transactionQueue') = Len(transactionQueue),
           \A i \in 1 .. Len(transactionQueue) :
               /\ transactionQueue'[i].task = transactionQueue[i].task
               /\ transactionQueue'[i].type = transactionQueue[i].type,
           wdata_order_queue' = wdata_order_queue,
           \A i \in 1 .. Len(transactionQueue), k \in Nat : HasData(i, k) => HasData(i, k)',
           \A d \in 1 .. Len(WdataPipe') : \E j \in 1 .. Len(WdataPipe) : WdataPipe'[d] = WdataPipe[j]
    PROVE  DataKept'
<1> DEFINE q == transactionQueue
           o == wdata_order_queue
           x == WdataPipe
<1>1. \A i \in 1 .. Len(q) : Read(q'[i]) <=> Read(q[i])
    BY DEF Read
<1>2. \A a \in 1 .. Len(o) : o[a].remaining_beats \in Nat
    <2>1. \A a \in 1 .. Len(o) : o[a] \in [task : AllTasks, remaining_beats : 1 .. BEATS]
        BY ElementOfSeq DEF DataInv, DataTyped
    <2>2. BEATS \in Nat
        BY QueueAssumption
    <2> QED BY <2>1, <2>2
<1>3. \A a, b \in 1 .. Len(o') : a # b => o'[a].task # o'[b].task
    BY DEF DataInv, DataKept
<1>4. ASSUME NEW a \in 1 .. Len(o)
      PROVE  \E i \in 1 .. Len(q') : q'[i].task = o'[a].task /\ HasData(i, o[a].remaining_beats)'
    <2>1. PICK i \in 1 .. Len(q) : q[i].task = o[a].task /\ HasData(i, o[a].remaining_beats)
        BY DEF DataInv, DataKept
    <2>2. PICK k \in Nat : k = o[a].remaining_beats
        BY <1>2
    <2>3. HasData(i, k)'
        BY <2>1, <2>2
    <2>4. HasData(i, o[a].remaining_beats)'
        BY <2>2, <2>3 DEF HasData
    <2> QED BY <2>1, <2>4
<1>5. \A i \in 1 .. Len(q') :
         \/ Read(q'[i])
         \/ \E a \in 1 .. Len(o') : o'[a].task = q'[i].task
         \/ HasData(i, 0)'
    BY <1>1 DEF DataInv, DataKept
<1>6. ASSUME NEW d \in 1 .. Len(x')
      PROVE  \E i \in 1 .. Len(q') : ~Read(q'[i]) /\ q'[i].task = x'[d]
    <2>1. PICK j \in 1 .. Len(x) : x'[d] = x[j]
        OBVIOUS
    <2>2. PICK i \in 1 .. Len(q) : ~Read(q[i]) /\ q[i].task = x[j]
        BY DEF DataInv, DataKept
    <2> QED BY <1>1, <2>1, <2>2
<1> QED BY <1>3, <1>4, <1>5, <1>6 DEF DataKept

(* que_pipeline lets a write begin when its data have come.                *)
LEMMA DataInvPipeline == QueueInv /\ DataInv /\ QuePipeline => DataInv'
<1> SUFFICES ASSUME QueueInv, DataInv, QuePipeline PROVE DataInv'
    OBVIOUS
<1>1. UNCHANGED wdataVars
    BY DEF QuePipeline, wdataVars, hostVars, gateVars, dataVars
<1>2. WritesReady'
    <2>1. \A i, j \in 1 .. Len(transactionQueue) :
             transactionQueue[i].task = transactionQueue[j].task => i = j
        BY DEF QueueInv, Apart, Distinct
    <2>2. \A i \in 1 .. Len(transactionQueue) : /\ transactionQueue[i].data_ready_cnt \in Nat
                                                /\ transactionQueue[i].data_ready_cnt <= BEATS
        <3>1. \A i \in 1 .. Len(transactionQueue) : transactionQueue[i] \in EntryT
            BY ElementOfSeq DEF QueueInv, Typed
        <3> QED BY <3>1 DEF DataInv, DataTyped, EntryT
    <2>3. DOMAIN transactionQueue = 1 .. Len(transactionQueue)
        BY DEF QueueInv, Typed
    <2>4. CmdQueue' = {transactionQueue[i].task :
                          i \in {j \in 1 .. Len(transactionQueue) : lc(transactionQueue[j])}}
        BY <2>3 DEF QuePipeline
    <2> SUFFICES ASSUME NEW i \in 1 .. Len(transactionQueue), ~Read(transactionQueue[i]),
                        transactionQueue[i].issue_size > 0 \/ transactionQueue[i].task \in CmdQueue'
                 PROVE  transactionQueue[i].data_ready_cnt = BEATS
        BY <1>1 DEF wdataVars, WritesReady
    <2>5. CASE transactionQueue[i].issue_size > 0
        BY <2>5 DEF DataInv, WritesReady
    <2>6. CASE transactionQueue[i].task \in CmdQueue'
        <3>1. lc(transactionQueue[i])
            BY <2>1, <2>4, <2>6
        <3>2. BEATS \in Nat
            BY QueueAssumption
        <3> QED BY <2>2, <3>1, <3>2 DEF lc
    <2> QED BY <2>5, <2>6
<1> QED BY <1>1, <1>2, DataParts DEF DataInv

(* A column command of a write leaves its data alone.                      *)
LEMMA DataInvSchedule ==
    ASSUME QueueInv, DataInv, NEW n \in 1 .. Len(transactionQueue), Schedule(n) PROVE DataInv'
<1> DEFINE q == transactionQueue
<1>1. /\ Len(q') = Len(q) /\ q[n].issue_size < BURSTS
      /\ \A i \in 1 .. Len(q) :
            /\ q[i] \in EntryT /\ q'[i].task = q[i].task /\ q'[i].type = q[i].type
            /\ q'[i].data_ready_cnt = q[i].data_ready_cnt
            /\ q'[i].issue_size = IF i = n THEN q[i].issue_size + 1 ELSE q[i].issue_size
    BY ScheduleShape
<1>2. /\ UNCHANGED <<PreDmcPipeQueue, wdata_order_queue, write_task, write_map, WdataPipe>>
      /\ CmdQueue' = {} /\ q[n].task \in CmdQueue
    BY DEF Schedule, hostVars, gateVars, dataVars
<1>3. \A t : Count(WdataPipe, t)' = Count(WdataPipe, t) /\ Count(write_task, t)' = Count(write_task, t)
    BY <1>2 DEF Count
<1>4. BURSTS \in Nat /\ \A i \in 1 .. Len(q) : q[i].issue_size \in Nat
    BY <1>1, QueueAssumption DEF EntryT
<1>5. DataTyped'
    <2>1. \A i \in 1 .. Len(q) : q'[i].issue_size <= BURSTS
        <3>1. \A i \in 1 .. Len(q) : q[i].issue_size <= BURSTS
            BY DEF DataInv, DataTyped
        <3> QED BY <1>1, <1>4, <3>1
    <2> QED BY <1>1, <1>2, <2>1 DEF DataInv, DataTyped
<1>6. \A i \in 1 .. Len(q) : Read(q'[i]) <=> Read(q[i])
    BY <1>1 DEF Read
<1>7. DataKept'
    <2>1. \A k : \A i \in 1 .. Len(q) : HasData(i, k)' <=> HasData(i, k)
        BY <1>1, <1>3, <1>6 DEF HasData
    <2>2. \A d \in 1 .. Len(WdataPipe') : \E j \in 1 .. Len(WdataPipe) : WdataPipe'[d] = WdataPipe[j]
        BY <1>2
    <2> QED BY <1>1, <1>2, <2>1, <2>2, DataKeptSame
<1>8. WritesReady'
    BY <1>1, <1>2, <1>6 DEF DataInv, WritesReady
<1>9. Expected' BY <1>2, <1>3 DEF DataInv, Expected
<1>10. InLine' BY <1>2 DEF DataInv, InLine
<1> QED BY <1>5, <1>7, <1>8, <1>9, <1>10 DEF DataInv

(* A beat that was on its way arrives.                                     *)
LEMMA DataInvArrive == QueueInv /\ DataInv /\ UpdateWdata => DataInv'
<1> SUFFICES ASSUME QueueInv, DataInv, UpdateWdata PROVE DataInv'
    OBVIOUS
<1> DEFINE q == transactionQueue
           x == WdataPipe
<1>1. PICK n \in 1 .. Len(q), d \in DOMAIN x :
           /\ ~Read(q[n]) /\ q[n].task = x[d] /\ q[n].data_ready_cnt < BEATS
           /\ x' = erase(x, d) /\ Len(q') = Len(q)
           /\ \A j \in 1 .. Len(q) :
                 /\ q[j] \in EntryT /\ q'[j].task = q[j].task /\ q'[j].type = q[j].type
                 /\ q'[j].issue_size = q[j].issue_size
                 /\ q'[j].data_ready_cnt = IF j = n THEN q[j].data_ready_cnt + 1
                                           ELSE q[j].data_ready_cnt
    BY ArriveShape
<1>2. UNCHANGED <<PreDmcPipeQueue, wdata_order_queue, write_task, write_map, CmdQueue>>
    BY DEF UpdateWdata, hostVars, gateVars
<1>3. \A t : Count(write_task, t)' = Count(write_task, t)
    BY <1>2 DEF Count
<1>4. x \in Seq(AllTasks) /\ DOMAIN x = 1 .. Len(x) /\ d \in 1 .. Len(x)
    BY LenProperties DEF DataInv, DataTyped
<1>5. \A t : /\ Count(x, t) \in Nat
             /\ Count(x', t) = IF x[d] = t THEN Count(x, t) - 1 ELSE Count(x, t)
    BY <1>1, <1>4, CountErase, PlacesFinite
<1>6. /\ x' \in Seq(AllTasks) /\ Len(x') = Len(x) - 1
      /\ \A k \in 1 .. Len(x) - 1 : x'[k] = x[IF k < d THEN k ELSE k + 1]
    BY <1>1, <1>4, Erase
<1>7. BEATS \in Nat /\ \A i \in 1 .. Len(q) : q[i].data_ready_cnt \in Nat
    BY <1>1, QueueAssumption DEF EntryT
<1>8. \A i \in 1 .. Len(q) : Read(q'[i]) <=> Read(q[i])
    BY <1>1 DEF Read
<1>9. \A i \in 1 .. Len(q) : q[i].task = q[n].task => i = n
    BY DEF QueueInv, Apart, Distinct
<1>10. DataTyped'
    <2>1. \A i \in 1 .. Len(q) : q'[i].data_ready_cnt <= BEATS
        <3>1. \A i \in 1 .. Len(q) : q[i].data_ready_cnt <= BEATS
            BY DEF DataInv, DataTyped
        <3> QED BY <1>1, <1>7, <3>1
    <2> QED BY <1>1, <1>2, <1>6, <2>1 DEF DataInv, DataTyped
<1>11. DataKept'
    <2>1. \A i \in 1 .. Len(q), k \in Nat : HasData(i, k) => HasData(i, k)'
        <3> SUFFICES ASSUME NEW i \in 1 .. Len(q), NEW k \in Nat, HasData(i, k)
                     PROVE  HasData(i, k)'
            OBVIOUS
        <3>1. Count(x, q[i].task) \in Nat /\ q'[i].task = q[i].task
            BY <1>1, <1>5
        <3>2. CASE i = n
            BY <1>1, <1>5, <1>7, <1>8, <3>1, <3>2 DEF HasData
        <3>3. CASE i # n
            BY <1>1, <1>5, <1>7, <1>8, <1>9, <3>1, <3>3 DEF HasData
        <3> QED BY <3>2, <3>3
    <2>2. \A d2 \in 1 .. Len(x') : \E j \in 1 .. Len(x) : x'[d2] = x[j]
        BY <1>4, <1>6
    <2> QED BY <1>1, <1>2, <2>1, <2>2, DataKeptSame
<1>12. WritesReady'
    BY <1>1, <1>2, <1>7, <1>8 DEF DataInv, WritesReady
<1>13. Expected' BY <1>2, <1>3 DEF DataInv, Expected
<1>14. InLine' BY <1>2 DEF DataInv, InLine
<1> QED BY <1>10, <1>11, <1>12, <1>13, <1>14 DEF DataInv

(* A write leaves with all its data: nothing of it is on its way.          *)
LEMMA DataInvRetire ==
    ASSUME QueueInv, DataInv, NEW n \in 1 .. Len(transactionQueue), Retire(n) PROVE DataInv'
<1> DEFINE q == transactionQueue
           o == wdata_order_queue
           x == WdataPipe
           old(k) == IF k < n THEN k ELSE k + 1
<1>1. /\ Len(q') = Len(q) - 1 /\ Len(q) \in Nat
      /\ \A i \in 1 .. Len(q) : q[i] \in EntryT
      /\ \A k \in 1 .. Len(q) - 1 :
            /\ q'[k].task = q[old(k)].task /\ q'[k].type = q[old(k)].type
            /\ q'[k].issue_size = q[old(k)].issue_size
            /\ q'[k].data_ready_cnt = q[old(k)].data_ready_cnt
            /\ old(k) \in 1 .. Len(q)
    <2>1. Len(q) \in Nat
        BY LenProperties DEF QueueInv, Typed
    <2> QED BY <2>1, RetireShape
<1>2. UNCHANGED <<PreDmcPipeQueue, o, write_task, write_map, x, CmdQueue>>
    BY DEF Retire, hostVars, gateVars, dataVars
<1>3. \A t : Count(WdataPipe, t)' = Count(WdataPipe, t) /\ Count(write_task, t)' = Count(write_task, t)
    BY <1>2 DEF Count
<1>4. \A i \in 1 .. Len(q) : i # n => \E k \in 1 .. Len(q) - 1 : old(k) = i
    <2> TAKE i \in 1 .. Len(q)
    <2> SUFFICES ASSUME i # n PROVE \E k \in 1 .. Len(q) - 1 : old(k) = i
        OBVIOUS
    <2> DEFINE k == IF i < n THEN i ELSE i - 1
    <2>1. k \in 1 .. Len(q) - 1 /\ old(k) = i
        BY <1>1
    <2> QED BY <2>1
<1> HIDE DEF old
<1>5. \A k \in 1 .. Len(q) - 1 : Read(q'[k]) <=> Read(q[old(k)])
    BY <1>1 DEF Read
<1>6. BEATS \in Nat \ {0} /\ BURSTS \in Nat \ {0} /\ q[n].issue_size \in Nat /\ q[n].issue_size > 0
    <2>1. q[n].issue_size \in Nat /\ q[n].issue_size >= BURSTS
        BY <1>1 DEF EntryT, Retire, Finished
    <2> QED BY <2>1, QueueAssumption
<1>7. x \in Seq(AllTasks) /\ \A t : Count(x, t) \in Nat /\ (Count(x, t) = 0 <=> \A i \in 1 .. Len(x) : x[i] # t)
    BY PlacesFinite DEF DataInv, DataTyped
<1>8. \A a \in 1 .. Len(o) : o[a].remaining_beats \in 1 .. BEATS
    <2>1. \A a \in 1 .. Len(o) : o[a] \in [task : AllTasks, remaining_beats : 1 .. BEATS]
        BY ElementOfSeq DEF DataInv, DataTyped
    <2> QED BY <2>1
<1>9. ~Read(q[n]) => q[n].data_ready_cnt = BEATS
    BY <1>6 DEF DataInv, WritesReady
<1>10. \A i \in 1 .. Len(q) : q[i].task = q[n].task => i = n
    BY DEF QueueInv, Apart, Distinct
<1>11. \A a \in 1 .. Len(o) : o[a].task # q[n].task
    <2> SUFFICES ASSUME NEW a \in 1 .. Len(o), o[a].task = q[n].task PROVE FALSE
        OBVIOUS
    <2>1. HasData(n, o[a].remaining_beats)
        BY <1>10 DEF DataInv, DataKept
    <2>2. Count(x, q[n].task) \in Nat
        BY <1>7
    <2> QED BY <1>6, <1>8, <1>9, <2>1, <2>2 DEF HasData
<1>12. \A i \in 1 .. Len(x) : x[i] # q[n].task
    <2> SUFFICES ASSUME NEW i \in 1 .. Len(x), x[i] = q[n].task PROVE FALSE
        OBVIOUS
    <2>1. ~Read(q[n])
        BY <1>10 DEF DataInv, DataKept
    <2>2. HasData(n, 0)
        BY <1>11, <2>1 DEF DataInv, DataKept
    <2>3. Count(x, q[n].task) \in Nat /\ Count(x, q[n].task) # 0
        BY <1>7
    <2> QED BY <1>6, <1>9, <2>1, <2>2, <2>3 DEF HasData
<1>13. DataTyped'
    <2>1. \A k \in 1 .. Len(q') : q'[k].data_ready_cnt <= BEATS /\ q'[k].issue_size <= BURSTS
        BY <1>1 DEF DataInv, DataTyped
    <2>2. Len(q') <= TRANS_QUEUE_DEPTH
        BY <1>1, QueueAssumption DEF DataInv, DataTyped
    <2> QED BY <1>2, <2>1, <2>2 DEF DataInv, DataTyped
<1>14. DataKept'
    <2>1. \A j : \A k \in 1 .. Len(q) - 1 : HasData(k, j)' <=> HasData(old(k), j)
        BY <1>1, <1>3, <1>5 DEF HasData
    <2>2. \A a, b \in 1 .. Len(o') : a # b => o'[a].task # o'[b].task
        BY <1>2 DEF DataInv, DataKept
    <2>3. \A a \in 1 .. Len(o') : \E k \in 1 .. Len(q') :
             q'[k].task = o'[a].task /\ HasData(k, o[a].remaining_beats)'
        <3> SUFFICES ASSUME NEW a \in 1 .. Len(o)
                     PROVE  \E k \in 1 .. Len(q') :
                               q'[k].task = o[a].task /\ HasData(k, o[a].remaining_beats)'
            BY <1>2
        <3>1. PICK i \in 1 .. Len(q) : q[i].task = o[a].task /\ HasData(i, o[a].remaining_beats)
            BY DEF DataInv, DataKept
        <3>2. i # n
            BY <1>11, <3>1
        <3>3. PICK k \in 1 .. Len(q) - 1 : old(k) = i
            BY <1>4, <3>2
        <3>4. HasData(k, o[a].remaining_beats)' /\ q'[k].task = o[a].task
            <4>1. o'[a].remaining_beats = o[a].remaining_beats
                BY <1>2
            <4> QED BY <1>1, <2>1, <3>1, <3>3, <4>1
        <3> QED BY <1>1, <3>4
    <2>4. \A k \in 1 .. Len(q') :
          \/ Read(q'[k])
          \/ \E a \in 1 .. Len(o') : o'[a].task = q'[k].task
          \/ HasData(k, 0)'
        BY <1>1, <1>2, <1>5, <2>1 DEF DataInv, DataKept
    <2>5. \A d \in 1 .. Len(x') : \E k \in 1 .. Len(q') : ~Read(q'[k]) /\ q'[k].task = x'[d]
        <3> SUFFICES ASSUME NEW d \in 1 .. Len(x)
                     PROVE  \E k \in 1 .. Len(q') : ~Read(q'[k]) /\ q'[k].task = x[d]
            BY <1>2
        <3>1. PICK i \in 1 .. Len(q) : ~Read(q[i]) /\ q[i].task = x[d]
            BY DEF DataInv, DataKept
        <3>2. i # n
            BY <1>12, <3>1
        <3>3. PICK k \in 1 .. Len(q) - 1 : old(k) = i
            BY <1>4, <3>2
        <3> QED BY <1>1, <1>5, <3>1, <3>3
    <2> QED BY <2>2, <2>3, <2>4, <2>5 DEF DataKept
<1>15. WritesReady'
    BY <1>1, <1>2, <1>5 DEF DataInv, WritesReady
<1>16. Expected' BY <1>2, <1>3 DEF DataInv, Expected
<1>17. InLine' BY <1>2 DEF DataInv, InLine
<1> QED BY <1>13, <1>14, <1>15, <1>16, <1>17 DEF DataInv
-----------------------------------------------------------------------------
(* A task that is neither queued nor piped has no data anywhere.           *)
LEMMA NoDataYet ==
    ASSUME QueueInv, DataInv, NEW t \in AllTasks,
           \A i \in 1 .. Len(transactionQueue) : transactionQueue[i].task # t
    PROVE  /\ \A a \in 1 .. Len(wdata_order_queue) : wdata_order_queue[a].task # t
           /\ \A d \in 1 .. Len(WdataPipe) : WdataPipe[d] # t
           /\ Count(WdataPipe, t) = 0
           /\ (\A k \in 1 .. Len(PreDmcPipeQueue) : PreDmcPipeQueue[k].task # t) =>
                 /\ write_map[t] = 0 /\ Count(write_task, t) = 0
                 /\ \A i \in 1 .. Len(write_task) : write_task[i] # t
<1>1. \A a \in 1 .. Len(wdata_order_queue) : wdata_order_queue[a].task # t
    BY DEF DataInv, DataKept
<1>2. \A d \in 1 .. Len(WdataPipe) : WdataPipe[d] # t
    BY DEF DataInv, DataKept
<1>3. Count(WdataPipe, t) = 0
    BY <1>2, PlacesFinite DEF DataInv, DataTyped
<1>4. ASSUME \A k \in 1 .. Len(PreDmcPipeQueue) : PreDmcPipeQueue[k].task # t
      PROVE  /\ write_map[t] = 0 /\ Count(write_task, t) = 0
             /\ \A i \in 1 .. Len(write_task) : write_task[i] # t
    <2>1. ~(write_map[t] > 0)
        BY <1>1, <1>4 DEF DataInv, Expected
    <2>2. write_map[t] \in Nat
        BY QueueAssumption DEF DataInv, DataTyped
    <2>3. write_map[t] = Count(write_task, t)
        BY DEF DataInv, Expected
    <2>4. write_task \in Seq(AllTasks)
        BY DEF DataInv, DataTyped
    <2>5. Count(write_task, t) = 0 <=> \A i \in 1 .. Len(write_task) : write_task[i] # t
        BY <2>4, PlacesFinite
    <2> QED BY <2>1, <2>2, <2>3, <2>5
<1> QED BY <1>1, <1>2, <1>3, <1>4

(* What addTransaction does to the writes that await data.                 *)
LEMMA AddOrder ==
    ASSUME QueueInv, DataInv, NEW c \in Commands, addTransaction(c)
    PROVE  /\ Len(wdata_order_queue) \in Nat
           /\ wdata_order_queue' \in Seq([task : AllTasks, remaining_beats : 1 .. BEATS])
           /\ Read(c) => wdata_order_queue' = wdata_order_queue
           /\ ~Read(c) =>
                /\ Len(wdata_order_queue') = Len(wdata_order_queue) + 1
                /\ \A a \in 1 .. Len(wdata_order_queue) :
                      wdata_order_queue'[a] = wdata_order_queue[a]
                /\ wdata_order_queue'[Len(wdata_order_queue) + 1].task = c.task
                /\ wdata_order_queue'[Len(wdata_order_queue) + 1].remaining_beats = BEATS
<1> DEFINE o == wdata_order_queue
           e == [task |-> c.task, remaining_beats |-> BEATS]
           T == [task : AllTasks, remaining_beats : 1 .. BEATS]
<1>1. o \in Seq(T) /\ Len(o) \in Nat
    BY LenProperties DEF DataInv, DataTyped
<1>2. e \in T /\ e.task = c.task /\ e.remaining_beats = BEATS
    <2>1. BEATS \in 1 .. BEATS
        BY QueueAssumption
    <2> QED BY <2>1 DEF Commands
<1>3. o' = IF Read(c) THEN o ELSE Append(o, e)
    BY DEF addTransaction
<1> HIDE DEF e, T
<1>4. /\ Append(o, e) \in Seq(T) /\ Len(Append(o, e)) = Len(o) + 1
      /\ \A a \in 1 .. Len(o) : Append(o, e)[a] = o[a]
      /\ Append(o, e)[Len(o) + 1] = e
    BY <1>1, <1>2, AppendProperties
<1> QED BY <1>1, <1>2, <1>3, <1>4 DEF T

(* A queued transaction awaits all its data, in the order of the queue.    *)
LEMMA AddKept ==
    ASSUME QueueInv, DataInv, NEW c \in Commands, addTransaction(c),
           \A i \in 1 .. Len(transactionQueue) : transactionQueue[i].task # c.task,
           WdataPipe' = WdataPipe, CmdQueue' = CmdQueue
    PROVE  DataKept' /\ WritesReady'
<1> DEFINE q == transactionQueue
           o == wdata_order_queue
           x == WdataPipe
<1>0. PICK L \in Nat, M \in Nat : L = Len(q) + 1 /\ M = Len(o) + 1
    <2>1. Len(q) \in Nat /\ Len(o) \in Nat
        BY LenProperties DEF QueueInv, Typed, DataInv, DataTyped
    <2> QED BY <2>1
<1>1. /\ Len(q') = L /\ Len(q) \in Nat
      /\ \A i \in 1 .. Len(q) : q[i] \in EntryT /\ q'[i] = q[i]
      /\ q'[L].task = c.task /\ q'[L].type = c.type
      /\ q'[L].issue_size = 0 /\ q'[L].data_ready_cnt = 0
    BY <1>0, AddShape
<1>2. /\ Len(o) \in Nat /\ Read(c) => o' = o
      /\ ~Read(c) => /\ Len(o') = M /\ \A a \in 1 .. Len(o) : o'[a] = o[a]
                     /\ o'[M].task = c.task /\ o'[M].remaining_beats = BEATS
    BY <1>0, AddOrder
<1>3. /\ \A a \in 1 .. Len(o) : o[a].task # c.task
      /\ Count(x, c.task) = 0
    BY NoDataYet DEF Commands
<1>4. \A t : Count(WdataPipe, t)' = Count(WdataPipe, t)
    BY DEF Count
<1>5. (Read(q'[L]) <=> Read(c)) /\ \A i \in 1 .. Len(q) : Read(q'[i]) <=> Read(q[i])
    BY <1>1 DEF Read
<1>6. \A k : \A i \in 1 .. Len(q) : HasData(i, k)' <=> HasData(i, k)
    BY <1>1, <1>4, <1>5 DEF HasData
<1>7. ~Read(c) => HasData(L, BEATS)'
    <2>1. 0 + 0 + BEATS = BEATS
        BY QueueAssumption
    <2> QED BY <1>1, <1>3, <1>4, <1>5, <2>1 DEF HasData
<1>8. /\ \A i \in 1 .. Len(q') : i \in 1 .. Len(q) \/ i = L
      /\ L \in 1 .. Len(q') /\ \A i \in 1 .. Len(q) : i \in 1 .. Len(q')
    BY <1>0, <1>1
<1>9. /\ \A a \in 1 .. Len(o') : a \in 1 .. Len(o) \/ (a = M /\ ~Read(c))
      /\ \A a \in 1 .. Len(o) : a \in 1 .. Len(o') /\ o'[a] = o[a]
      /\ ~Read(c) => M \in 1 .. Len(o')
    BY <1>0, <1>2
<1>10. \A a, b \in 1 .. Len(o') : a # b => o'[a].task # o'[b].task
    <2>1. \A a, b \in 1 .. Len(o) : a # b => o[a].task # o[b].task
        BY DEF DataInv, DataKept
    <2> QED BY <1>2, <1>3, <1>9, <2>1
<1>11. ASSUME NEW a \in 1 .. Len(o')
       PROVE  \E i \in 1 .. Len(q') : q'[i].task = o'[a].task /\ HasData(i, o[a].remaining_beats)'
    <2>1. CASE a \in 1 .. Len(o)
        <3>1. PICK i \in 1 .. Len(q) : q[i].task = o[a].task /\ HasData(i, o[a].remaining_beats)
            BY <2>1 DEF DataInv, DataKept
        <3>2. PICK k : k = o[a].remaining_beats
            OBVIOUS
        <3>3. HasData(i, k)' /\ o'[a].remaining_beats = k
            BY <1>6, <1>9, <2>1, <3>1, <3>2
        <3>4. HasData(i, o[a].remaining_beats)'
            BY <3>3 DEF HasData
        <3> QED BY <1>1, <1>8, <1>9, <2>1, <3>1, <3>4
    <2>2. CASE a = M /\ ~Read(c)
        <3>1. HasData(L, o[a].remaining_beats)'
            BY <1>2, <1>7, <2>2 DEF HasData
        <3> QED BY <1>1, <1>2, <1>8, <2>2, <3>1
    <2> QED BY <1>9, <2>1, <2>2
<1>12. ASSUME NEW i \in 1 .. Len(q')
       PROVE  \/ Read(q'[i])
              \/ \E a \in 1 .. Len(o') : o'[a].task = q'[i].task
              \/ HasData(i, 0)'
    <2>1. CASE i \in 1 .. Len(q)
        <3>1. \/ Read(q[i]) \/ HasData(i, 0)
              \/ \E a \in 1 .. Len(o) : o[a].task = q[i].task
            BY <2>1 DEF DataInv, DataKept
        <3> QED BY <1>1, <1>5, <1>6, <1>9, <2>1, <3>1
    <2>2. CASE i = L
        BY <1>1, <1>2, <1>5, <1>9, <2>2
    <2> QED BY <1>8, <2>1, <2>2
<1>13. ASSUME NEW d \in 1 .. Len(x')
       PROVE  \E i \in 1 .. Len(q') : ~Read(q'[i]) /\ q'[i].task = x'[d]
    <2>1. PICK i \in 1 .. Len(q) : ~Read(q[i]) /\ q[i].task = x[d]
        BY DEF DataInv, DataKept
    <2> QED BY <1>1, <1>5, <1>8, <2>1
<1>14. DataKept'
    BY <1>10, <1>11, <1>12, <1>13 DEF DataKept
<1>15. c.task \notin CmdQueue
    BY DEF QueueInv, ReadyFree
<1>16. WritesReady'
    <2> SUFFICES ASSUME NEW i \in 1 .. Len(q'), ~Read(q'[i]),
                        q'[i].issue_size > 0 \/ q'[i].task \in CmdQueue
                 PROVE  q'[i].data_ready_cnt = BEATS
        BY DEF WritesReady
    <2>1. i # L
        BY <1>1, <1>15
    <2> QED BY <1>1, <1>5, <1>8, <2>1 DEF DataInv, WritesReady
<1> QED BY <1>14, <1>16

LEMMA AddTyped ==
    ASSUME QueueInv, DataInv, NEW c \in Commands, addTransaction(c),
           \A i \in 1 .. Len(transactionQueue) : transactionQueue[i].task # c.task,
           write_task' \in Seq(AllTasks), write_map' \in [AllTasks -> 0 .. BEATS],
           WdataPipe' = WdataPipe, Len(PreDmcPipeQueue') <= tPIPE_PRE_DMC
    PROVE  DataTyped'
<1> DEFINE q == transactionQueue
<1>1. /\ Len(q') = Len(q) + 1 /\ Len(q) \in Nat /\ Len(q) < TRANS_QUEUE_DEPTH
      /\ \A i \in 1 .. Len(q) : q'[i] = q[i]
      /\ q'[Len(q) + 1].issue_size = 0 /\ q'[Len(q) + 1].data_ready_cnt = 0
    BY AddShape
<1>2. BEATS \in Nat /\ BURSTS \in Nat /\ TRANS_QUEUE_DEPTH \in Nat
    BY QueueAssumption
<1>3. \A i \in 1 .. Len(q') : q'[i].issue_size <= BURSTS /\ q'[i].data_ready_cnt <= BEATS
    <2>1. \A i \in 1 .. Len(q) : q[i].issue_size <= BURSTS /\ q[i].data_ready_cnt <= BEATS
        BY DEF DataInv, DataTyped
    <2>2. \A i \in 1 .. Len(q') : i \in 1 .. Len(q) \/ i = Len(q) + 1
        BY <1>1
    <2> QED BY <1>1, <1>2, <2>1, <2>2
<1>4. Len(q') <= TRANS_QUEUE_DEPTH
    BY <1>1, <1>2
<1>5. wdata_order_queue' \in Seq([task : AllTasks, remaining_beats : 1 .. BEATS])
    BY AddOrder
<1> QED BY <1>3, <1>4, <1>5 DEF DataInv, DataTyped
-----------------------------------------------------------------------------
(* What the acceptance of c does to the driver's and the channel's books.  *)
Booked(c) ==
    /\ write_map'  = IF Read(c) THEN write_map ELSE [write_map EXCEPT ![c.task] = BEATS]
    /\ write_task' = IF Read(c) THEN write_task ELSE write_task \o Beats(c.task)

LEMMA BookedShape ==
    ASSUME QueueInv, DataInv, NEW c \in Commands, Booked(c),
           \A i \in 1 .. Len(transactionQueue) : transactionQueue[i].task # c.task,
           \A k \in 1 .. Len(PreDmcPipeQueue) : PreDmcPipeQueue[k].task # c.task
    PROVE  /\ write_task' \in Seq(AllTasks) /\ write_map' \in [AllTasks -> 0 .. BEATS]
           /\ Len(write_task) \in Nat
           /\ \A i \in 1 .. Len(write_task) : write_task[i] # c.task
           /\ Read(c) => write_task' = write_task /\ write_map' = write_map
           /\ ~Read(c) =>
                 /\ \A i \in 1 .. Len(write_task') :
                       write_task'[i] = IF i <= Len(write_task) THEN write_task[i] ELSE c.task
                 /\ \A t \in AllTasks : write_map'[t] = IF t = c.task THEN BEATS ELSE write_map[t]
           /\ \A t \in AllTasks : write_map'[t] = Count(write_task, t)'
<1> DEFINE w == write_task
           m == write_map
<1>1. c.task \in AllTasks /\ w \in Seq(AllTasks) /\ m \in [AllTasks -> 0 .. BEATS] /\ Len(w) \in Nat
      /\ BEATS \in Nat
    BY LenProperties, QueueAssumption DEF Commands, DataInv, DataTyped
<1>2. m[c.task] = 0 /\ Count(w, c.task) = 0 /\ \A i \in 1 .. Len(w) : w[i] # c.task
    BY <1>1, NoDataYet
<1>3. \A t \in AllTasks : m[t] = Count(w, t)
    BY DEF DataInv, Expected
<1>4. Count(write_task, c.task)' = Count(write_task', c.task) /\ \A t : Count(write_task, t)' = Count(write_task', t)
    BY DEF Count
<1>5. CASE Read(c)
    <2>1. w' = w /\ m' = m
        BY <1>5 DEF Booked
    <2>2. \A t \in AllTasks : m'[t] = Count(w', t)
        BY <1>3, <2>1
    <2> QED BY <1>1, <1>2, <1>4, <1>5, <2>1, <2>2
<1>6. CASE ~Read(c)
    <2>1. w' = w \o Beats(c.task) /\ m' = [m EXCEPT ![c.task] = BEATS]
        BY <1>6 DEF Booked
    <2>2. /\ w' \in Seq(AllTasks) /\ Len(w') = Len(w) + BEATS
          /\ \A i \in 1 .. Len(w) + BEATS : w'[i] = IF i <= Len(w) THEN w[i] ELSE c.task
          /\ \A t : Count(w', t) = IF c.task = t THEN Count(w, t) + BEATS ELSE Count(w, t)
        BY <1>1, <2>1, CountBeats
    <2>3. m' \in [AllTasks -> 0 .. BEATS] /\ \A t \in AllTasks : m'[t] = IF t = c.task THEN BEATS ELSE m[t]
        BY <1>1, <2>1
    <2>4. \A t \in AllTasks : m'[t] = Count(w', t)
        <3>1. 0 + BEATS = BEATS
            BY <1>1
        <3> QED BY <1>1, <1>2, <1>3, <2>2, <2>3, <3>1
    <2> QED BY <1>1, <1>2, <1>4, <1>6, <2>2, <2>3, <2>4
<1> QED BY <1>5, <1>6
-----------------------------------------------------------------------------
(* A command goes into the queue at once.                                  *)
LEMMA DataInvDirect ==
    ASSUME QueueInv, DataInv, NEW c \in Commands, addTransaction(c), Booked(c),
           \A i \in 1 .. Len(transactionQueue) : transactionQueue[i].task # c.task,
           PreDmcPipeQueue' = PreDmcPipeQueue, Len(PreDmcPipeQueue) = 0,
           WdataPipe' = WdataPipe, CmdQueue' = CmdQueue
    PROVE  DataInv'
<1> DEFINE o == wdata_order_queue
           m == write_map
           w == write_task
<1>1. \A k \in 1 .. Len(PreDmcPipeQueue) : PreDmcPipeQueue[k].task # c.task
    OBVIOUS
<1>2. /\ \A a \in 1 .. Len(o) : o[a].task # c.task
      /\ m[c.task] = 0 /\ c.task \in AllTasks /\ BEATS \in Nat \ {0}
    BY <1>1, NoDataYet, QueueAssumption DEF Commands
<1>3. /\ w' \in Seq(AllTasks) /\ m' \in [AllTasks -> 0 .. BEATS] /\ Len(w) \in Nat
      /\ \A i \in 1 .. Len(w) : w[i] # c.task
      /\ Read(c) => w' = w /\ m' = m
      /\ ~Read(c) =>
            /\ \A i \in 1 .. Len(w') : w'[i] = IF i <= Len(w) THEN w[i] ELSE c.task
            /\ \A t \in AllTasks : m'[t] = IF t = c.task THEN BEATS ELSE m[t]
      /\ \A t \in AllTasks : m'[t] = Count(write_task, t)'
    BY <1>1, BookedShape
<1>4. PICK M \in Nat : M = Len(o) + 1
    <2>1. Len(o) \in Nat
        BY LenProperties DEF DataInv, DataTyped
    <2> QED BY <2>1
<1>5. /\ Read(c) => o' = o
      /\ ~Read(c) => /\ Len(o') = M /\ \A a \in 1 .. Len(o) : o'[a] = o[a]
                     /\ o'[M].task = c.task /\ o'[M].remaining_beats = BEATS
                     /\ M \in 1 .. Len(o') /\ \A a \in 1 .. Len(o') : a \in 1 .. Len(o) \/ a = M
                     /\ \A a \in 1 .. Len(o) : a \in 1 .. Len(o') /\ a < M
      /\ Len(o) \in Nat
    BY <1>4, AddOrder
<1>6. DataTyped'
    BY <1>3, QueueAssumption, AddTyped
<1>7. DataKept' /\ WritesReady'
    BY AddKept
<1>8. \A a \in 1 .. Len(o) : o[a].task \in AllTasks
    <2>1. \A a \in 1 .. Len(o) : o[a] \in [task : AllTasks, remaining_beats : 1 .. BEATS]
        BY ElementOfSeq DEF DataInv, DataTyped
    <2> QED BY <2>1
<1>9. Expected'
    <2>1. \A a \in 1 .. Len(o') : m'[o'[a].task] = o'[a].remaining_beats
        <3>1. \A a \in 1 .. Len(o) : m[o[a].task] = o[a].remaining_beats
            BY DEF DataInv, Expected
        <3> QED BY <1>2, <1>3, <1>5, <1>8, <3>1
    <2>2. ASSUME NEW t \in AllTasks, m'[t] > 0
          PROVE  \E a \in 1 .. Len(o') : o'[a].task = t
        <3>1. CASE t = c.task
            BY <1>2, <1>3, <1>5, <2>2, <3>1
        <3>2. CASE t # c.task
            <4>1. m[t] > 0
                BY <1>3, <2>2, <3>2
            <4>2. \E a \in 1 .. Len(o) : o[a].task = t
                BY <4>1 DEF DataInv, Expected
            <4> QED BY <1>5, <4>2
        <3> QED BY <3>1, <3>2
    <2> QED BY <1>3, <2>1, <2>2 DEF Expected
<1>10. InLine'
    <2> SUFFICES ASSUME NEW i \in 1 .. Len(w'), NEW j \in 1 .. Len(w'), i < j,
                        NEW a \in 1 .. Len(o'), NEW b \in 1 .. Len(o'),
                        o'[a].task = w'[i], o'[b].task = w'[j]
                 PROVE  a <= b
        BY DEF InLine
    <2>1. CASE Read(c)
        BY <1>3, <1>5, <2>1 DEF DataInv, InLine
    <2>2. CASE ~Read(c) /\ b = M
        BY <1>5, <2>2
    <2>3. CASE ~Read(c) /\ b # M
        <3>1. b \in 1 .. Len(o) /\ o'[b] = o[b] /\ o[b].task # c.task
            BY <1>2, <1>5, <2>3
        <3>2. w'[j] = w[j] /\ j \in 1 .. Len(w) /\ w'[i] = w[i] /\ i \in 1 .. Len(w)
            BY <1>3, <2>3, <3>1
        <3>3. a \in 1 .. Len(o) /\ o'[a] = o[a]
            BY <1>3, <1>5, <2>3, <3>2
        <3> QED BY <3>1, <3>2, <3>3 DEF DataInv, InLine
    <2> QED BY <2>1, <2>2, <2>3
<1> QED BY <1>6, <1>7, <1>9, <1>10 DEF DataInv

(* A command goes into the pipe.                                           *)
LEMMA DataInvPiped ==
    ASSUME QueueInv, DataInv, NEW c \in Commands, Booked(c),
           \A i \in 1 .. Len(transactionQueue) : transactionQueue[i].task # c.task,
           \A k \in 1 .. Len(PreDmcPipeQueue) : PreDmcPipeQueue[k].task # c.task,
           Len(PreDmcPipeQueue) < tPIPE_PRE_DMC,
           PreDmcPipeQueue' = Append(PreDmcPipeQueue, c),
           UNCHANGED <<transactionQueue, wdata_order_queue, WdataPipe>>, CmdQueue' = CmdQueue
    PROVE  DataInv'
<1> DEFINE o == wdata_order_queue
           m == write_map
           w == write_task
           p == PreDmcPipeQueue
<1>2. /\ \A a \in 1 .. Len(o) : o[a].task # c.task
      /\ m[c.task] = 0 /\ c.task \in AllTasks /\ BEATS \in Nat \ {0}
    BY NoDataYet, QueueAssumption DEF Commands
<1>3. /\ w' \in Seq(AllTasks) /\ m' \in [AllTasks -> 0 .. BEATS] /\ Len(w) \in Nat
      /\ \A i \in 1 .. Len(w) : w[i] # c.task
      /\ Read(c) => w' = w /\ m' = m
      /\ ~Read(c) =>
            /\ \A i \in 1 .. Len(w') : w'[i] = IF i <= Len(w) THEN w[i] ELSE c.task
            /\ \A t \in AllTasks : m'[t] = IF t = c.task THEN BEATS ELSE m[t]
      /\ \A t \in AllTasks : m'[t] = Count(write_task, t)'
    BY BookedShape
<1>4. p \in Seq(Commands) /\ Len(p) \in Nat
    BY LenProperties DEF QueueInv, Typed
<1>5. PICK N \in Nat : N = Len(p) + 1
    BY <1>4
<1>6. /\ Len(p') = N /\ p'[N] = c /\ \A k \in 1 .. Len(p) : p'[k] = p[k] /\ k < N /\ k \in 1 .. Len(p')
      /\ N \in 1 .. Len(p') /\ \A k \in 1 .. Len(p') : k \in 1 .. Len(p) \/ k = N
    BY <1>4, <1>5, AppendProperties
<1>7. \A t : Count(WdataPipe, t)' = Count(WdataPipe, t)
    BY DEF Count
<1>8. DataTyped'
    <2>1. Len(p') <= tPIPE_PRE_DMC
        BY <1>4, <1>5, <1>6, QueueAssumption
    <2> QED BY <1>3, <2>1 DEF DataInv, DataTyped
<1>9. DataKept'
    BY <1>7 DEF DataInv, DataKept, HasData
<1>10. WritesReady'
    BY DEF DataInv, WritesReady
<1>11. \A a \in 1 .. Len(o) : o[a].task \in AllTasks
    <2>1. \A a \in 1 .. Len(o) : o[a] \in [task : AllTasks, remaining_beats : 1 .. BEATS]
        BY ElementOfSeq DEF DataInv, DataTyped
    <2> QED BY <2>1
<1>12. \A k \in 1 .. Len(p) : p[k].task \in AllTasks
    <2>1. \A k \in 1 .. Len(p) : p[k] \in Commands
        BY <1>4, ElementOfSeq
    <2> QED BY <2>1 DEF Commands
<1>13. Expected'
    <2>1. \A a \in 1 .. Len(o') : m'[o'[a].task] = o'[a].remaining_beats
        <3>1. \A a \in 1 .. Len(o) : m[o[a].task] = o[a].remaining_beats
            BY DEF DataInv, Expected
        <3> QED BY <1>2, <1>3, <1>11, <3>1
    <2>2. \A k \in 1 .. Len(p') : ~Read(p'[k]) => m'[p'[k].task] = BEATS
        <3>1. \A k \in 1 .. Len(p) : ~Read(p[k]) => m[p[k].task] = BEATS
            BY DEF DataInv, Expected
        <3> QED BY <1>2, <1>3, <1>6, <1>12, <3>1
    <2>3. ASSUME NEW t \in AllTasks, m'[t] > 0
          PROVE  \/ \E a \in 1 .. Len(o') : o'[a].task = t
                 \/ \E k \in 1 .. Len(p') : ~Read(p'[k]) /\ p'[k].task = t
        <3>1. CASE t = c.task
            BY <1>2, <1>3, <1>6, <2>3, <3>1
        <3>2. CASE t # c.task
            <4>1. m[t] > 0
                BY <1>3, <2>3, <3>2
            <4>2. \/ \E a \in 1 .. Len(o) : o[a].task = t
                  \/ \E k \in 1 .. Len(p) : ~Read(p[k]) /\ p[k].task = t
                BY <4>1 DEF DataInv, Expected
            <4> QED BY <1>6, <4>2
        <3> QED BY <3>1, <3>2
    <2> QED BY <1>3, <2>1, <2>2, <2>3 DEF Expected
<1>14. InLine'
    <2>1. CASE Read(c)
        <3>1. w' = w
            BY <1>3, <2>1
        <3>2. ASSUME NEW i \in 1 .. Len(w), NEW j \in 1 .. Len(w), i < j,
                     NEW k \in 1 .. Len(p'), p'[k].task = w[i]
              PROVE  /\ \A b \in 1 .. Len(o) : o[b].task # w[j]
                     /\ \A l \in 1 .. Len(p') : p'[l].task = w[j] => k <= l
            <4>1. k \in 1 .. Len(p) /\ p[k].task = w[i]
                BY <1>3, <1>6, <3>2
            <4>2. /\ \A b \in 1 .. Len(o) : o[b].task # w[j]
                  /\ \A l \in 1 .. Len(p) : p[l].task = w[j] => k <= l
                BY <3>2, <4>1 DEF DataInv, InLine
            <4> QED BY <1>3, <1>6, <4>2
        <3> QED BY <3>1, <3>2 DEF DataInv, InLine
    <2>2. CASE ~Read(c)
        <3>1. ASSUME NEW i \in 1 .. Len(w'), NEW j \in 1 .. Len(w'), i < j,
                     NEW a \in 1 .. Len(o), NEW b \in 1 .. Len(o),
                     o[a].task = w'[i], o[b].task = w'[j]
              PROVE  a <= b
            <4>1. i \in 1 .. Len(w) /\ w'[i] = w[i] /\ j \in 1 .. Len(w) /\ w'[j] = w[j]
                BY <1>2, <1>3, <2>2, <3>1
            <4> QED BY <3>1, <4>1 DEF DataInv, InLine
        <3>2. ASSUME NEW i \in 1 .. Len(w'), NEW j \in 1 .. Len(w'), i < j,
                     NEW k \in 1 .. Len(p'), p'[k].task = w'[i]
              PROVE  /\ \A b \in 1 .. Len(o) : o[b].task # w'[j]
                     /\ \A l \in 1 .. Len(p') : p'[l].task = w'[j] => k <= l
            <4>1. CASE w'[j] = c.task
                <5>1. \A l \in 1 .. Len(p') : p'[l].task = c.task => l = N
                    BY <1>6
                <5> QED BY <1>2, <1>6, <4>1, <5>1
            <4>2. CASE w'[j] # c.task
                <5>1. i \in 1 .. Len(w) /\ w'[i] = w[i] /\ j \in 1 .. Len(w) /\ w'[j] = w[j]
                    BY <1>3, <2>2, <3>2, <4>2
                <5>2. k \in 1 .. Len(p) /\ p[k].task = w[i]
                    BY <1>3, <1>6, <3>2, <5>1
                <5>3. /\ \A b \in 1 .. Len(o) : o[b].task # w[j]
                      /\ \A l \in 1 .. Len(p) : p[l].task = w[j] => k <= l
                    BY <3>2, <5>1, <5>2 DEF DataInv, InLine
                <5> QED BY <1>3, <1>6, <5>1, <5>3
            <4> QED BY <4>1, <4>2
        <3> QED BY <3>1, <3>2 DEF InLine
    <2> QED BY <2>1, <2>2
<1> QED BY <1>8, <1>9, <1>10, <1>13, <1>14 DEF DataInv

LEMMA DataInvAccepted == QueueInv /\ DataInv /\ Accepted => DataInv'
<1> SUFFICES ASSUME QueueInv, DataInv, Accepted PROVE DataInv'
    OBVIOUS
<1>1. PICK c \in Commands : c = Offered[1] /\ c.task \in OfferedTasks
    BY Taken DEF Accepted
<1>2. /\ \A i \in 1 .. Len(transactionQueue) : transactionQueue[i].task # c.task
      /\ \A k \in 1 .. Len(PreDmcPipeQueue) : PreDmcPipeQueue[k].task # c.task
    BY <1>1 DEF QueueInv, Apart
<1>3. Booked(c) /\ WdataPipe' = WdataPipe /\ CmdQueue' = CmdQueue
    BY <1>1 DEF Accepted, Booked
<1>4. CASE tPIPE_PRE_DMC = 0
    <2>1. addTransaction(c) /\ PreDmcPipeQueue' = PreDmcPipeQueue
        BY <1>1, <1>4 DEF Accepted
    <2>2. Len(PreDmcPipeQueue) = 0
        <3>1. Len(PreDmcPipeQueue) \in Nat
            BY LenProperties DEF QueueInv, Typed
        <3>2. Len(PreDmcPipeQueue) <= 0
            BY <1>4 DEF DataInv, DataTyped
        <3> QED BY <3>1, <3>2
    <2> QED BY <1>2, <1>3, <2>1, <2>2, DataInvDirect
<1>5. CASE tPIPE_PRE_DMC # 0
    <2>1. /\ PreDmcPipeQueue' = Append(PreDmcPipeQueue, c)
          /\ Len(PreDmcPipeQueue) < tPIPE_PRE_DMC
          /\ UNCHANGED <<transactionQueue, wdata_order_queue, WdataPipe>>
        BY <1>1, <1>5 DEF Accepted
    <2> QED BY <1>2, <1>3, <2>1, DataInvPiped
<1> QED BY <1>4, <1>5
-----------------------------------------------------------------------------
(* The head of the pipe goes into the queue.                               *)
LEMMA DataInvPipe == QueueInv /\ DataInv /\ PipeDelivers => DataInv'
<1> SUFFICES ASSUME QueueInv, DataInv, PipeDelivers PROVE DataInv'
    OBVIOUS
<1> DEFINE o == wdata_order_queue
           m == write_map
           w == write_task
           p == PreDmcPipeQueue
<1>1. /\ p \in Seq(Commands) /\ p # <<>> /\ p' = Tail(p) /\ addTransaction(Head(p))
      /\ UNCHANGED <<w, m, WdataPipe, CmdQueue>>
    BY DEF QueueInv, Typed, PipeDelivers, hostVars
<1>2. /\ p' \in Seq(Commands) /\ Len(p') = Len(p) - 1 /\ Len(p) \in Nat \ {0}
      /\ \A i \in 1 .. Len(p') : p'[i] = p[i + 1]
      /\ Head(p) = p[1] /\ Head(p) \in Commands
    BY <1>1
<1>3. PICK c \in Commands : c = Head(p) /\ addTransaction(c)
    BY <1>1, <1>2
<1>4. /\ \A k \in 1 .. Len(p') : p'[k] = p[k + 1] /\ k + 1 \in 1 .. Len(p) /\ k \in Nat
      /\ 1 \in 1 .. Len(p) /\ p[1] = c
      /\ \A k \in 1 .. Len(p) : k = 1 \/ \E l \in 1 .. Len(p') : k = l + 1
    <2>1. \A k \in 1 .. Len(p) : k = 1 \/ (k - 1 \in 1 .. Len(p') /\ k = (k - 1) + 1)
        BY <1>2
    <2> QED BY <1>2, <1>3, <2>1
<1>5. \A k, l \in 1 .. Len(p) : p[k].task = p[l].task => k = l
    BY DEF QueueInv, Apart, Distinct
<1>6. \A k \in 1 .. Len(p') : p'[k].task # c.task
    <2> TAKE k \in 1 .. Len(p')
    <2>1. k + 1 # 1 /\ k + 1 \in 1 .. Len(p)
        BY <1>4
    <2> QED BY <1>4, <1>5, <2>1
<1>7. \A i \in 1 .. Len(transactionQueue) : transactionQueue[i].task # c.task
    BY <1>4 DEF QueueInv, Apart
<1>8. /\ \A a \in 1 .. Len(o) : o[a].task # c.task
      /\ c.task \in AllTasks
    BY <1>7, NoDataYet DEF Commands
<1>9. PICK M \in Nat : M = Len(o) + 1
    <2>1. Len(o) \in Nat
        BY LenProperties DEF DataInv, DataTyped
    <2> QED BY <2>1
<1>10. /\ Read(c) => o' = o
       /\ ~Read(c) => /\ Len(o') = M /\ \A a \in 1 .. Len(o) : o'[a] = o[a]
                      /\ o'[M].task = c.task /\ o'[M].remaining_beats = BEATS
                      /\ M \in 1 .. Len(o') /\ \A a \in 1 .. Len(o') : a \in 1 .. Len(o) \/ a = M
                      /\ \A a \in 1 .. Len(o) : a \in 1 .. Len(o') /\ a < M
       /\ Len(o) \in Nat
    BY <1>3, <1>9, AddOrder
<1>11. DataTyped'
    <2>1. w' \in Seq(AllTasks) /\ m' \in [AllTasks -> 0 .. BEATS] /\ WdataPipe' = WdataPipe
        BY <1>1 DEF DataInv, DataTyped
    <2>2. Len(p') <= tPIPE_PRE_DMC
        BY <1>2, QueueAssumption DEF DataInv, DataTyped
    <2> QED BY <1>3, <1>7, <2>1, <2>2, AddTyped
<1>12. DataKept' /\ WritesReady'
    BY <1>1, <1>3, <1>7, AddKept
<1>13. ~Read(c) => m[c.task] = BEATS
    BY <1>4 DEF DataInv, Expected
<1>14. \A t : Count(write_task, t)' = Count(write_task, t)
    BY <1>1 DEF Count
<1>15. Expected'
    <2>1. \A a \in 1 .. Len(o') : m[o'[a].task] = o'[a].remaining_beats
        <3>1. \A a \in 1 .. Len(o) : m[o[a].task] = o[a].remaining_beats
            BY DEF DataInv, Expected
        <3> QED BY <1>10, <1>13, <3>1
    <2>2. \A k \in 1 .. Len(p') : ~Read(p'[k]) => m[p'[k].task] = BEATS
        <3>1. \A k \in 1 .. Len(p) : ~Read(p[k]) => m[p[k].task] = BEATS
            BY DEF DataInv, Expected
        <3> QED BY <1>4, <3>1
    <2>3. ASSUME NEW t \in AllTasks, m[t] > 0
          PROVE  \/ \E a \in 1 .. Len(o') : o'[a].task = t
                 \/ \E k \in 1 .. Len(p') : ~Read(p'[k]) /\ p'[k].task = t
        <3>1. CASE \E a \in 1 .. Len(o) : o[a].task = t
            BY <1>10, <3>1
        <3>2. CASE \E k \in 1 .. Len(p) : ~Read(p[k]) /\ p[k].task = t
            <4>1. PICK k \in 1 .. Len(p) : ~Read(p[k]) /\ p[k].task = t
                BY <3>2
            <4>2. CASE k = 1
                BY <1>4, <1>10, <4>1, <4>2
            <4>3. CASE \E l \in 1 .. Len(p') : k = l + 1
                BY <1>4, <4>1, <4>3
            <4> QED BY <1>4, <4>2, <4>3
        <3> QED BY <2>3, <3>1, <3>2 DEF DataInv, Expected
    <2>4. \A t \in AllTasks : m[t] = Count(write_task, t)'
        BY <1>14 DEF DataInv, Expected
    <2> QED BY <1>1, <2>1, <2>2, <2>3, <2>4 DEF Expected
<1>16. InLine'
    <2>1. ASSUME NEW i \in 1 .. Len(w), NEW j \in 1 .. Len(w), i < j,
                 NEW a \in 1 .. Len(o'), NEW b \in 1 .. Len(o'),
                 o'[a].task = w[i], o'[b].task = w[j]
          PROVE  a <= b
        <3>1. CASE Read(c)
            BY <1>10, <2>1, <3>1 DEF DataInv, InLine
        <3>2. CASE ~Read(c) /\ b = M
            BY <1>10, <3>2
        <3>3. CASE ~Read(c) /\ b # M
            <4>1. b \in 1 .. Len(o) /\ o[b].task = w[j]
                BY <1>10, <2>1, <3>3
            <4>2. a # M
                <5>1. ASSUME a = M PROVE FALSE
                    <6>1. p[1].task = w[i]
                        BY <1>4, <1>10, <2>1, <3>3, <5>1
                    <6> QED BY <1>4, <2>1, <4>1, <6>1 DEF DataInv, InLine
                <5> QED BY <5>1
            <4>3. a \in 1 .. Len(o) /\ o[a].task = w[i]
                BY <1>10, <2>1, <3>3, <4>2
            <4> QED BY <2>1, <4>1, <4>3 DEF DataInv, InLine
        <3> QED BY <3>1, <3>2, <3>3
    <2>2. ASSUME NEW i \in 1 .. Len(w), NEW j \in 1 .. Len(w), i < j,
                 NEW k \in 1 .. Len(p'), p'[k].task = w[i]
          PROVE  /\ \A b \in 1 .. Len(o') : o'[b].task # w[j]
                 /\ \A l \in 1 .. Len(p') : p'[l].task = w[j] => k <= l
        <3>1. k + 1 \in 1 .. Len(p) /\ p[k + 1].task = w[i] /\ k \in Nat /\ k >= 1
            BY <1>4, <2>2
        <3>2. /\ \A b \in 1 .. Len(o) : o[b].task # w[j]
              /\ \A l \in 1 .. Len(p) : p[l].task = w[j] => k + 1 <= l
            BY <2>2, <3>1 DEF DataInv, InLine
        <3>3. c.task # w[j]
            <4>1. p[1].task = w[j] => k + 1 <= 1
                BY <1>4, <3>2
            <4>2. ~(k + 1 <= 1)
                BY <3>1
            <4> QED BY <1>4, <4>1, <4>2
        <3>4. \A b \in 1 .. Len(o') : o'[b].task # w[j]
            BY <1>10, <3>2, <3>3
        <3>5. ASSUME NEW l \in 1 .. Len(p'), p'[l].task = w[j] PROVE k <= l
            <4>1. k + 1 <= l + 1 /\ l \in Nat
                BY <1>4, <3>2, <3>5
            <4> QED BY <3>1, <4>1
        <3> QED BY <3>4, <3>5
    <2>3. w' = w
        BY <1>1
    <2>4. \A i, j \in 1 .. Len(w') : i < j =>
            \A a, b \in 1 .. Len(o') : o'[a].task = w'[i] /\ o'[b].task = w'[j] => a <= b
        BY <2>1, <2>3
    <2>5. \A i, j \in 1 .. Len(w') : i < j =>
            \A k \in 1 .. Len(p') : p'[k].task = w'[i] =>
               /\ \A b \in 1 .. Len(o') : o'[b].task # w'[j]
               /\ \A l \in 1 .. Len(p') : p'[l].task = w'[j] => k <= l
        BY <2>2, <2>3
    <2> QED BY <2>4, <2>5 DEF InLine
<1> QED BY <1>11, <1>12, <1>15, <1>16 DEF DataInv

(* What a beat that is taken does to the writes that await data.           *)
LEMMA CountBeatShape ==
    ASSUME DataInv, wdata_order_queue # <<>>
    PROVE  LET o == wdata_order_queue
               r == CountBeat(wdata_order_queue)
           IN  /\ r \in Seq([task : AllTasks, remaining_beats : 1 .. BEATS])
               /\ Len(o) \in Nat \ {0} /\ Head(o) = o[1] /\ o[1].task \in AllTasks
               /\ o[1].remaining_beats \in 1 .. BEATS
               /\ \/ /\ o[1].remaining_beats = 1 /\ Len(r) = Len(o) - 1
                     /\ \A a \in 1 .. Len(o) - 1 : r[a] = o[a + 1]
                  \/ /\ o[1].remaining_beats # 1 /\ Len(r) = Len(o)
                     /\ r[1].task = o[1].task
                     /\ r[1].remaining_beats = o[1].remaining_beats - 1
                     /\ \A a \in 2 .. Len(o) : r[a] = o[a]
<1> DEFINE T == [task : AllTasks, remaining_beats : 1 .. BEATS]
           o == wdata_order_queue
           e == [Head(o) EXCEPT !.remaining_beats = @ - 1]
<1>1. o \in Seq(T) /\ BEATS \in Nat
    BY QueueAssumption DEF DataInv, DataTyped
<1>2. ASSUME NEW h \in T
      PROVE  /\ h.task \in AllTasks /\ h.remaining_beats \in 1 .. BEATS
             /\ [h EXCEPT !.remaining_beats = @ - 1].task = h.task
             /\ [h EXCEPT !.remaining_beats = @ - 1].remaining_beats = h.remaining_beats - 1
             /\ h.remaining_beats # 1 => [h EXCEPT !.remaining_beats = @ - 1] \in T
    BY <1>1
<1> HIDE DEF T
<1>3. /\ Head(o) \in T /\ Head(o) = o[1] /\ Len(o) \in Nat \ {0}
      /\ Tail(o) \in Seq(T) /\ Len(Tail(o)) = Len(o) - 1
      /\ \A a \in 1 .. Len(o) - 1 : Tail(o)[a] = o[a + 1]
    BY <1>1, EmptySeq, HeadTailProperties
<1>4. /\ e.task = o[1].task /\ e.remaining_beats = o[1].remaining_beats - 1
      /\ o[1].remaining_beats # 1 => e \in T
      /\ o[1].task \in AllTasks /\ o[1].remaining_beats \in 1 .. BEATS
    BY <1>2, <1>3
<1>5. CASE o[1].remaining_beats = 1
    <2>1. CountBeat(o) = Tail(o)
        BY <1>3, <1>5 DEF CountBeat
    <2> QED BY <1>3, <1>4, <1>5, <2>1 DEF T
<1>6. CASE o[1].remaining_beats # 1
    <2>1. CountBeat(o) = <<e>> \o Tail(o)
        BY <1>3, <1>6 DEF CountBeat
    <2>2. e \in T
        BY <1>4, <1>6
    <2> HIDE DEF e
    <2>3. <<e>> \in Seq(T) /\ Len(<<e>>) = 1 /\ <<e>>[1] = e
        BY <2>2
    <2>4. /\ <<e>> \o Tail(o) \in Seq(T) /\ Len(<<e>> \o Tail(o)) = 1 + (Len(o) - 1)
          /\ \A a \in 1 .. 1 + (Len(o) - 1) :
                (<<e>> \o Tail(o))[a] = IF a <= 1 THEN <<e>>[a] ELSE Tail(o)[a - 1]
        BY <1>3, <2>3, ConcatProperties
    <2> DEFINE r == <<e>> \o Tail(o)
    <2>5. Len(r) = Len(o) /\ r[1] = e
        BY <1>3, <2>3, <2>4
    <2>6. ASSUME NEW a \in 2 .. Len(o) PROVE r[a] = o[a]
        <3>1. r[a] = Tail(o)[a - 1]
            BY <1>3, <2>4
        <3>2. a - 1 \in 1 .. Len(o) - 1 /\ (a - 1) + 1 = a
            BY <1>3
        <3> QED BY <1>3, <3>1, <3>2
    <2> QED BY <1>3, <1>4, <1>6, <2>1, <2>4, <2>5, <2>6 DEF T
<1> QED BY <1>5, <1>6
-----------------------------------------------------------------------------
(* The channel takes the next beat of the driver.                          *)
LEMMA DataInvSubmit == QueueInv /\ DataInv /\ SubmitData => DataInv'
<1> SUFFICES ASSUME QueueInv, DataInv, SubmitData PROVE DataInv'
    OBVIOUS
<1> DEFINE q == transactionQueue
           o == wdata_order_queue
           m == write_map
           w == write_task
           p == PreDmcPipeQueue
           x == WdataPipe
<1>1. PICK t : t = Head(w)
    OBVIOUS
<1>2. /\ w # <<>> /\ o # <<>> /\ Head(o).task = t /\ o' = CountBeat(o)
      /\ x' = Append(x, t) /\ m' = [m EXCEPT ![t] = @ - 1] /\ w' = Tail(w)
      /\ UNCHANGED <<p, q, CmdQueue>>
    BY <1>1 DEF SubmitData, canReceiveWdata
<1>3. PICK r : r = o[1].remaining_beats
    OBVIOUS
<1>4. /\ o' \in Seq([task : AllTasks, remaining_beats : 1 .. BEATS])
      /\ Len(o) \in Nat \ {0} /\ 1 \in 1 .. Len(o) /\ o[1].task = t /\ t \in AllTasks /\ r \in 1 .. BEATS
      /\ \/ /\ r = 1 /\ Len(o') = Len(o) - 1
            /\ \A a \in 1 .. Len(o) - 1 : o'[a] = o[a + 1]
         \/ /\ r # 1 /\ Len(o') = Len(o)
            /\ o'[1].task = t /\ o'[1].remaining_beats = r - 1
            /\ \A a \in 2 .. Len(o) : o'[a] = o[a]
    <2>1. Len(o) \in Nat \ {0} => 1 \in 1 .. Len(o)
        OBVIOUS
    <2> QED BY <1>2, <1>3, <2>1, CountBeatShape
<1>5. /\ w \in Seq(AllTasks) /\ x \in Seq(AllTasks) /\ m \in [AllTasks -> 0 .. BEATS]
      /\ BEATS \in Nat
    BY QueueAssumption DEF DataInv, DataTyped
<1>6. /\ Len(w) \in Nat \ {0} /\ w' \in Seq(AllTasks) /\ Len(w') = Len(w) - 1
      /\ \A i \in 1 .. Len(w') : w'[i] = w[i + 1]
    BY <1>2, <1>5, EmptySeq, HeadTailProperties
<1>7. /\ x' \in Seq(AllTasks) /\ Len(x') = Len(x) + 1 /\ Len(x) \in Nat
      /\ \A d \in 1 .. Len(x) : x'[d] = x[d]
      /\ x'[Len(x) + 1] = t
    BY <1>2, <1>4, <1>5, AppendProperties, LenProperties
<1>8. \A s : /\ Count(x, s) \in Nat
             /\ Count(x', s) = IF t = s THEN Count(x, s) + 1 ELSE Count(x, s)
             /\ Count(WdataPipe, s)' = Count(x', s)
    <2>1. \A s : Count(WdataPipe, s)' = Count(x', s)
        BY DEF Count
    <2>2. \A s : Count(x, s) \in Nat
        BY <1>5, PlacesFinite
    <2>3. \A s : Count(x', s) = IF t = s THEN Count(x, s) + 1 ELSE Count(x, s)
        BY <1>2, <1>4, <1>5, CountAppend
    <2> QED BY <2>1, <2>2, <2>3
<1>9. \A s : Count(write_task, s)' = IF t = s THEN Count(w, s) - 1 ELSE Count(w, s)
    <2>1. \A s : Count(write_task, s)' = Count(w', s)
        BY DEF Count
    <2>2. \A s : Count(w', s) = IF t = s THEN Count(w, s) - 1 ELSE Count(w, s)
        BY <1>1, <1>2, <1>5, CountTail
    <2> QED BY <2>1, <2>2
<1>10. m[t] = r /\ m' \in [AllTasks -> 0 .. BEATS] /\ m'[t] = r - 1
       /\ \A s \in AllTasks : s # t => m'[s] = m[s]
    <2>1. m[t] = r
        BY <1>3, <1>4 DEF DataInv, Expected
    <2>2. r - 1 \in 0 .. BEATS
        BY <1>4, <1>5
    <2> QED BY <1>2, <1>4, <1>5, <2>1, <2>2
<1>11. \A a \in 1 .. Len(o) : o[a].task \in AllTasks /\ o[a].remaining_beats \in Nat
    <2>1. \A a \in 1 .. Len(o) : o[a] \in [task : AllTasks, remaining_beats : 1 .. BEATS]
        BY ElementOfSeq DEF DataInv, DataTyped
    <2> QED BY <1>5, <2>1
<1>12. \A a, b \in 1 .. Len(o) : o[a].task = o[b].task => a = b
    BY DEF DataInv, DataKept
(* Where each write of the new order stood in the old one.                 *)
<1>13. PICK z \in {0, 1} : z = IF r = 1 THEN 1 ELSE 0
    OBVIOUS
<1>14. /\ \A a \in 1 .. Len(o') :
            /\ a + z \in 1 .. Len(o) /\ o'[a].task = o[a + z].task
            /\ o'[a].remaining_beats = IF a + z = 1 THEN r - 1 ELSE o[a + z].remaining_beats
       /\ \A a \in 1 .. Len(o) : a # 1 \/ z = 0 => \E b \in 1 .. Len(o') : b + z = a
    <2>1. CASE r = 1
        <3>1. z = 1 /\ Len(o') = Len(o) - 1 /\ \A a \in 1 .. Len(o) - 1 : o'[a] = o[a + 1]
            BY <1>4, <1>13, <2>1
        <3>2. \A a \in 1 .. Len(o) - 1 : a + 1 \in 1 .. Len(o) /\ a + 1 # 1
            BY <1>4
        <3>3. \A a \in 1 .. Len(o) : a # 1 => a - 1 \in 1 .. Len(o) - 1 /\ (a - 1) + 1 = a
            BY <1>4
        <3> QED BY <3>1, <3>2, <3>3
    <2>2. CASE r # 1
        <3>1. z = 0 /\ Len(o') = Len(o) /\ o'[1].task = t /\ o'[1].remaining_beats = r - 1
              /\ \A a \in 2 .. Len(o) : o'[a] = o[a]
            BY <1>4, <1>13, <2>2
        <3>2. \A a \in 1 .. Len(o) : a + 0 = a /\ (a = 1 \/ a \in 2 .. Len(o))
            BY <1>4
        <3> QED BY <1>4, <3>1, <3>2
    <2> QED BY <2>1, <2>2
<1>15. DataTyped'
    BY <1>2, <1>4, <1>6, <1>7, <1>10 DEF DataInv, DataTyped
<1>16. \A i \in 1 .. Len(q), s \in Nat :
          /\ q[i].task # t /\ HasData(i, s) => HasData(i, s)'
          /\ q[i].task = t /\ HasData(i, r) => HasData(i, r - 1)'
    <2> TAKE i \in 1 .. Len(q), s \in Nat
    <2>1. q' = q /\ q[i].data_ready_cnt \in Nat
        <3>1. q[i] \in EntryT
            BY ElementOfSeq DEF QueueInv, Typed
        <3> QED BY <1>2, <3>1 DEF EntryT
    <2>2. ASSUME q[i].task # t, HasData(i, s) PROVE HasData(i, s)'
        BY <1>8, <2>1, <2>2 DEF HasData
    <2>3. ASSUME q[i].task = t, HasData(i, r) PROVE HasData(i, r - 1)'
        BY <1>4, <1>5, <1>8, <2>1, <2>3 DEF HasData
    <2> QED BY <2>2, <2>3
<1>17. DataKept'
    <2>1. \A a, b \in 1 .. Len(o') : a # b => o'[a].task # o'[b].task
        <3> SUFFICES ASSUME NEW a \in 1 .. Len(o'), NEW b \in 1 .. Len(o'), o'[a].task = o'[b].task
                     PROVE  a = b
            OBVIOUS
        <3>1. a + z = b + z
            BY <1>12, <1>14
        <3> QED BY <3>1
    <2>2. ASSUME NEW a \in 1 .. Len(o')
          PROVE  \E i \in 1 .. Len(q) : q[i].task = o'[a].task /\ HasData(i, o[a].remaining_beats)'
        <3>1. PICK y \in 1 .. Len(o) : y = a + z
            BY <1>14
        <3>2. PICK i \in 1 .. Len(q) : q[i].task = o[y].task /\ HasData(i, o[y].remaining_beats)
            BY DEF DataInv, DataKept
        <3>3. CASE y = 1
            <4>1. HasData(i, r - 1)' /\ o'[a].remaining_beats = r - 1 /\ q[i].task = o'[a].task
                BY <1>3, <1>4, <1>14, <1>16, <3>1, <3>2, <3>3
            <4>2. HasData(i, o[a].remaining_beats)'
                BY <4>1 DEF HasData
            <4> QED BY <4>1, <4>2
        <3>4. CASE y # 1
            <4>1. o[y].task # t /\ o[y].remaining_beats \in Nat
                BY <1>4, <1>11, <1>12, <3>4
            <4>2. PICK s \in Nat : s = o[y].remaining_beats
                BY <4>1
            <4>3. HasData(i, s)' /\ o'[a].remaining_beats = s /\ q[i].task = o'[a].task
                BY <1>14, <1>16, <3>1, <3>2, <3>4, <4>1, <4>2
            <4>4. HasData(i, o[a].remaining_beats)'
                BY <4>3 DEF HasData
            <4> QED BY <4>3, <4>4
        <3> QED BY <3>3, <3>4
    <2>3. ASSUME NEW i \in 1 .. Len(q)
          PROVE  \/ Read(q[i])
                 \/ \E a \in 1 .. Len(o') : o'[a].task = q[i].task
                 \/ HasData(i, 0)'
        <3>1. CASE q[i].task = t
            <4>1. CASE r = 1
                <5>1. PICK j \in 1 .. Len(q) : q[j].task = t /\ HasData(j, r)
                    BY <1>3, <1>4 DEF DataInv, DataKept
                <5>2. j = i
                    BY <3>1, <5>1 DEF QueueInv, Apart, Distinct
                <5>3. r - 1 = 0
                    BY <4>1
                <5> QED BY <1>16, <3>1, <5>1, <5>2, <5>3
            <4>2. CASE r # 1
                <5>1. 1 \in 1 .. Len(o') /\ o'[1].task = t
                    BY <1>4, <4>2
                <5> QED BY <3>1, <5>1
            <4> QED BY <4>1, <4>2
        <3>2. CASE q[i].task # t
            <4>1. CASE \E a \in 1 .. Len(o) : o[a].task = q[i].task
                <5>1. PICK a \in 1 .. Len(o) : o[a].task = q[i].task /\ a # 1
                    BY <1>4, <3>2, <4>1
                <5> QED BY <1>14, <5>1
            <4>2. CASE HasData(i, 0)
                BY <1>16, <3>2, <4>2
            <4> QED BY <4>1, <4>2 DEF DataInv, DataKept
        <3> QED BY <3>1, <3>2
    <2>4. ASSUME NEW d \in 1 .. Len(x')
          PROVE  \E i \in 1 .. Len(q) : ~Read(q[i]) /\ q[i].task = x'[d]
        <3>1. CASE d \in 1 .. Len(x)
            BY <1>7, <3>1 DEF DataInv, DataKept
        <3>2. CASE d = Len(x) + 1
            <4>1. PICK i \in 1 .. Len(q) : q[i].task = o[1].task /\ HasData(i, o[1].remaining_beats)
                BY <1>4 DEF DataInv, DataKept
            <4> QED BY <1>4, <1>7, <3>2, <4>1 DEF HasData
        <3>3. d \in 1 .. Len(x) \/ d = Len(x) + 1
            BY <1>7
        <3> QED BY <3>1, <3>2, <3>3
    <2>5. q' = q
        BY <1>2
    <2>6. \A a \in 1 .. Len(o') :
             \E i \in 1 .. Len(q') : q'[i].task = o'[a].task /\ HasData(i, o[a].remaining_beats)'
        BY <2>2, <2>5
    <2>7. \A i \in 1 .. Len(q') : \/ Read(q'[i])
                                  \/ \E a \in 1 .. Len(o') : o'[a].task = q'[i].task
                                  \/ HasData(i, 0)'
        BY <2>3, <2>5
    <2>8. \A d \in 1 .. Len(x') : \E i \in 1 .. Len(q') : ~Read(q'[i]) /\ q'[i].task = x'[d]
        BY <2>4, <2>5
    <2> QED BY <2>1, <2>6, <2>7, <2>8 DEF DataKept
<1>18. WritesReady'
    BY <1>2 DEF DataInv, WritesReady
<1>19. \A k \in 1 .. Len(p) : p[k].task # t
    <2>1. PICK i \in 1 .. Len(q) : q[i].task = t
        BY <1>4 DEF DataInv, DataKept
    <2> QED BY <2>1 DEF QueueInv, Apart
<1>20. \A k \in 1 .. Len(p) : p[k].task \in AllTasks
    <2>1. \A k \in 1 .. Len(p) : p[k] \in Commands
        BY ElementOfSeq DEF QueueInv, Typed
    <2> QED BY <2>1 DEF Commands
<1>21. Expected'
    <2>1. ASSUME NEW a \in 1 .. Len(o') PROVE m'[o'[a].task] = o'[a].remaining_beats
        <3>1. PICK y \in 1 .. Len(o) : y = a + z
            BY <1>14
        <3>2. m[o[y].task] = o[y].remaining_beats
            BY DEF DataInv, Expected
        <3>3. o'[a].task = o[y].task /\ o'[a].remaining_beats = IF y = 1 THEN r - 1 ELSE o[y].remaining_beats
            BY <1>14, <3>1
        <3>4. CASE y = 1
            BY <1>4, <1>10, <3>3, <3>4
        <3>5. CASE y # 1
            <4>1. o[y].task # t
                BY <1>4, <1>12, <3>5
            <4> QED BY <1>10, <1>11, <3>2, <3>3, <3>5, <4>1
        <3> QED BY <3>4, <3>5
    <2>2. \A k \in 1 .. Len(p) : ~Read(p[k]) => m'[p[k].task] = BEATS
        <3>1. \A k \in 1 .. Len(p) : ~Read(p[k]) => m[p[k].task] = BEATS
            BY DEF DataInv, Expected
        <3> QED BY <1>10, <1>19, <1>20, <3>1
    <2>3. ASSUME NEW s \in AllTasks, m'[s] > 0
          PROVE  \/ \E a \in 1 .. Len(o') : o'[a].task = s
                 \/ \E k \in 1 .. Len(p) : ~Read(p[k]) /\ p[k].task = s
        <3>1. CASE s = t
            <4>1. r # 1
                BY <1>10, <2>3, <3>1
            <4>2. 1 \in 1 .. Len(o') /\ o'[1].task = t
                BY <1>4, <4>1
            <4> QED BY <3>1, <4>2
        <3>2. CASE s # t
            <4>1. m[s] > 0
                BY <1>10, <2>3, <3>2
            <4>2. CASE \E a \in 1 .. Len(o) : o[a].task = s
                <5>1. PICK a \in 1 .. Len(o) : o[a].task = s /\ a # 1
                    BY <1>4, <3>2, <4>2
                <5> QED BY <1>14, <5>1
            <4> QED BY <4>1, <4>2 DEF DataInv, Expected
        <3> QED BY <3>1, <3>2
    <2>4. \A s \in AllTasks : m'[s] = Count(write_task, s)'
        <3>1. \A s \in AllTasks : m[s] = Count(w, s)
            BY DEF DataInv, Expected
        <3> QED BY <1>4, <1>9, <1>10, <3>1
    <2>5. p' = p
        BY <1>2
    <2>6. \A k \in 1 .. Len(p') : ~Read(p'[k]) => m'[p'[k].task] = BEATS
        BY <2>2, <2>5
    <2>7. \A s \in AllTasks : m'[s] > 0 =>
              \/ \E a \in 1 .. Len(o') : o'[a].task = s
              \/ \E k \in 1 .. Len(p') : ~Read(p'[k]) /\ p'[k].task = s
        BY <2>3, <2>5
    <2> QED BY <2>1, <2>4, <2>6, <2>7 DEF Expected
<1>22. InLine'
    <2> SUFFICES ASSUME NEW i \in 1 .. Len(w'), NEW j \in 1 .. Len(w'), i < j
                 PROVE  /\ \A a, b \in 1 .. Len(o') : o'[a].task = w'[i] /\ o'[b].task = w'[j] => a <= b
                        /\ \A k \in 1 .. Len(p') : p'[k].task = w'[i] =>
                              /\ \A b \in 1 .. Len(o') : o'[b].task # w'[j]
                              /\ \A l \in 1 .. Len(p') : p'[l].task = w'[j] => k <= l
        BY DEF InLine
    <2>1. PICK i1 \in 1 .. Len(w), j1 \in 1 .. Len(w) : w'[i] = w[i1] /\ w'[j] = w[j1] /\ i1 < j1
        <3>1. i + 1 \in 1 .. Len(w) /\ j + 1 \in 1 .. Len(w) /\ i + 1 < j + 1
            BY <1>6
        <3> QED BY <1>6, <3>1
    <2>2. ASSUME NEW a \in 1 .. Len(o'), NEW b \in 1 .. Len(o'), o'[a].task = w'[i], o'[b].task = w'[j]
          PROVE  a <= b
        <3>1. a + z <= b + z
            BY <1>14, <2>1, <2>2 DEF DataInv, InLine
        <3> QED BY <3>1
    <2>3. p' = p
        BY <1>2
    <2>4. ASSUME NEW k \in 1 .. Len(p), p[k].task = w'[i]
          PROVE  /\ \A b \in 1 .. Len(o') : o'[b].task # w'[j]
                 /\ \A l \in 1 .. Len(p) : p[l].task = w'[j] => k <= l
        BY <1>14, <2>1, <2>4 DEF DataInv, InLine
    <2> QED BY <2>2, <2>3, <2>4
<1> QED BY <1>15, <1>17, <1>18, <1>21, <1>22 DEF DataInv
-----------------------------------------------------------------------------
LEMMA NextData ==
    [Next]_vars =>
        \/ SubmitData \/ Accepted \/ PipeDelivers \/ UpdateWdata
        \/ \E i \in DOMAIN transactionQueue : Schedule(i)
        \/ \E n \in DOMAIN transactionQueue : Retire(n)
        \/ QuePipeline
        \/ UNCHANGED wdataVars /\ CmdQueue' \subseteq CmdQueue
    BY DEF Next, vars, hostVars, gateVars, dataVars, wdataVars, NewCommand, NoNewCommand, SendNothing,
           Refused, NoDataSent, NoDataArrives, Respond, ScheduleSome, ScheduleNone, RetireNone,
           PipeWaits

(* Driver, channel and controller agree on the data of every write: what   *)
(* receiveFromCPU and update_wdata count, what wdata_order_queue awaits    *)
(* and what the driver has to send are the beats of the same writes.       *)
THEOREM DataAgreed == Spec => []DataInv
<1>1. QueueInv /\ DataInv /\ [Next]_vars => DataInv'
    <2> SUFFICES ASSUME QueueInv, DataInv, [Next]_vars PROVE DataInv'
        OBVIOUS
    <2>1. DOMAIN transactionQueue = 1 .. Len(transactionQueue)
        BY DEF QueueInv, Typed
    <2> QED BY <2>1, NextData, DataInvSubmit, DataInvAccepted, DataInvPipe, DataInvArrive,
               DataInvSchedule, DataInvRetire, DataInvPipeline, DataInvSame
<1> QED BY <1>1, DataInvInit, WaitingSound, PTL DEF Spec

(* What remains of the types.                                              *)
GateTyped ==
    /\ phase \in {"new", "send", "data", "wdata", "resp", "sched", "que", "lc", "pipe"}
    /\ backend_locked \in BOOLEAN /\ pre_req \in BOOLEAN
    /\ locked_task \in AllTasks \cup {NoTask}

(* The gate of the channel, the queue and the responses keep their types.  *)
THEOREM GateTypedHolds == Spec => []GateTyped
<1>1. Init => GateTyped
    BY DEF Init, GateTyped
<1>2. QueueInv /\ GateTyped /\ [Next]_vars => GateTyped'
    <2> SUFFICES ASSUME QueueInv, GateTyped, [Next]_vars PROVE GateTyped'
        OBVIOUS
    <2> USE DEF GateTyped, At, Then
    <2>1. CASE NewCommand \/ NoNewCommand
        BY <2>1 DEF NewCommand, NoNewCommand, gateVars
    <2>2. CASE SendNothing
        BY <2>2 DEF SendNothing
    <2>3. CASE Refused
        <3>1. Offered[1].task \in AllTasks
            <4>1. \A c \in Commands : c.task \in AllTasks /\ <<c>>[1] = c
                BY DEF Commands
            <4> QED BY <2>3, <4>1 DEF Refused, Offered, QueueInv, Typed
        <3> QED BY <2>3, <3>1 DEF Refused
    <2>4. CASE Accepted
        BY <2>4 DEF Accepted
    <2>5. CASE SubmitData \/ NoDataSent \/ UpdateWdata \/ NoDataArrives
        BY <2>5 DEF SubmitData, NoDataSent, UpdateWdata, NoDataArrives, gateVars
    <2>6. ASSUME NEW wr \in BOOLEAN, NEW rr \in BOOLEAN, Respond(wr, rr) PROVE GateTyped'
        BY <2>6 DEF Respond, gateVars
    <2>7. CASE ScheduleSome \/ ScheduleNone
        BY <2>7 DEF ScheduleSome, Schedule, ScheduleNone, gateVars
    <2>8. CASE (\E n \in DOMAIN transactionQueue : Retire(n)) \/ RetireNone
        BY <2>8 DEF Retire, RetireNone, gateVars
    <2>9. CASE QuePipeline \/ PipeWaits
        BY <2>9 DEF QuePipeline, PipeWaits, gateVars
    <2>10. CASE PipeDelivers
        BY <2>10 DEF PipeDelivers
    <2>11. CASE UNCHANGED vars
        BY <2>11 DEF vars, gateVars
    <2> QED BY <2>1, <2>2, <2>3, <2>4, <2>5, <2>6, <2>7, <2>8, <2>9, <2>10, <2>11 DEF Next
<1> QED BY <1>1, <1>2, WaitingSound, PTL DEF Spec
-----------------------------------------------------------------------------
LEMMA DataConserved == QueueInv /\ DataInv => WdataConserved
<1> SUFFICES ASSUME QueueInv, DataInv PROVE WdataConserved
    OBVIOUS
<1> DEFINE q == transactionQueue
           o == wdata_order_queue
           x == WdataPipe
<1>1. /\ DOMAIN q = 1 .. Len(q) /\ DOMAIN o = 1 .. Len(o) /\ x \in Seq(AllTasks)
      /\ \A i \in 1 .. Len(q) : q[i].data_ready_cnt \in Nat
    <2>1. \A i \in 1 .. Len(q) : q[i] \in EntryT
        BY ElementOfSeq DEF QueueInv, Typed
    <2> QED BY <2>1, LenProperties DEF QueueInv, Typed, DataInv, DataTyped, EntryT
<1>2. BEATS \in Nat /\ \A a \in 1 .. Len(o) : o[a].remaining_beats \in 1 .. BEATS
    <2>1. \A a \in 1 .. Len(o) : o[a] \in [task : AllTasks, remaining_beats : 1 .. BEATS]
        BY ElementOfSeq DEF DataInv, DataTyped
    <2> QED BY <2>1, QueueAssumption
<1>3. \A t : Count(x, t) \in Nat /\ (Count(x, t) = 0 <=> \A i \in 1 .. Len(x) : x[i] # t)
    BY <1>1, PlacesFinite
<1>4. \A a \in 1 .. Len(o) : Awaited(o[a].task) = o[a].remaining_beats
    <2> TAKE a \in 1 .. Len(o)
    <2>1. o[a] \in Range1(o)
        BY <1>1 DEF Range1
    <2>2. \A v \in Range1(o) : v.task = o[a].task => v = o[a]
        BY <1>1 DEF Range1, DataInv, DataKept
    <2>3. (CHOOSE v \in Range1(o) : v.task = o[a].task) = o[a]
        BY <2>1, <2>2
    <2> QED BY <2>1, <2>3 DEF Awaited
<1>5. \A t : (\A a \in 1 .. Len(o) : o[a].task # t) => Awaited(t) = 0
    BY <1>1 DEF Awaited, Range1
<1>6. ASSUME NEW i \in 1 .. Len(q), ~Read(q[i])
      PROVE  q[i].data_ready_cnt + Count(x, q[i].task) + Awaited(q[i].task) = BEATS
    <2>1. CASE \E a \in 1 .. Len(o) : o[a].task = q[i].task
        <3>1. PICK a \in 1 .. Len(o) : o[a].task = q[i].task
            BY <2>1
        <3>2. PICK j \in 1 .. Len(q) : q[j].task = o[a].task /\ HasData(j, o[a].remaining_beats)
            BY DEF DataInv, DataKept
        <3>3. j = i
            BY <3>1, <3>2 DEF QueueInv, Apart, Distinct
        <3> QED BY <1>4, <3>1, <3>2, <3>3 DEF HasData
    <2>2. CASE \A a \in 1 .. Len(o) : o[a].task # q[i].task
        <3>1. HasData(i, 0)
            BY <1>6, <2>2 DEF DataInv, DataKept
        <3> QED BY <1>5, <2>2, <3>1 DEF HasData
    <2> QED BY <2>1, <2>2
<1>7. ASSUME NEW t \in AllTasks, Count(x, t) > 0 \/ Awaited(t) > 0
      PROVE  \E i \in 1 .. Len(q) : q[i].task = t /\ ~Read(q[i])
    <2>1. CASE Count(x, t) > 0
        <3>1. PICK d \in 1 .. Len(x) : x[d] = t
            BY <1>3, <2>1
        <3> QED BY <3>1 DEF DataInv, DataKept
    <2>2. CASE Awaited(t) > 0
        <3>1. PICK a \in 1 .. Len(o) : o[a].task = t
            BY <1>5, <2>2
        <3> QED BY <3>1 DEF DataInv, DataKept, HasData
    <2> QED BY <1>7, <2>1, <2>2
<1>8. \A t \in AllTasks : write_map[t] = Count(write_task, t)
    BY DEF DataInv, Expected
<1>9. /\ \A e \in Range1(q) : \E i \in 1 .. Len(q) : e = q[i]
      /\ \A i \in 1 .. Len(q) : q[i] \in Range1(q)
    BY <1>1 DEF Range1
<1>10. \A e \in Range1(q) : ~Read(e) => e.data_ready_cnt + Count(x, e.task) + Awaited(e.task) = BEATS
    BY <1>6, <1>9
<1>11. \A t \in AllTasks : (Count(x, t) > 0 \/ Awaited(t) > 0) =>
              \E e \in Range1(q) : e.task = t /\ ~Read(e)
    BY <1>7, <1>9
<1> QED BY <1>8, <1>10, <1>11 DEF WdataConserved

LEMMA DataInStep == QueueInv /\ DataInv => WdataInStep
<1> SUFFICES ASSUME QueueInv, DataInv, write_task # <<>>
             PROVE  IF wdata_order_queue # <<>> THEN Head(write_task) = Head(wdata_order_queue).task
                    ELSE \E k \in DOMAIN PreDmcPipeQueue :
                        FirstPipedWrite(k) /\ Head(write_task) = PreDmcPipeQueue[k].task
    BY DEF WdataInStep
<1> DEFINE o == wdata_order_queue
           m == write_map
           w == write_task
           p == PreDmcPipeQueue
<1>1. w \in Seq(AllTasks) /\ Len(w) \in Nat \ {0} /\ Head(w) = w[1] /\ 1 \in 1 .. Len(w) /\ w[1] \in AllTasks
    <2>1. w \in Seq(AllTasks) /\ Len(w) \in Nat \ {0}
        BY EmptySeq DEF DataInv, DataTyped
    <2>2. Head(w) = w[1] /\ 1 \in 1 .. Len(w)
        BY <2>1
    <2> QED BY <2>1, <2>2, ElementOfSeq
<1>2. \A t \in AllTasks : /\ m[t] \in Nat
                          /\ m[t] = 0 <=> \A i \in 1 .. Len(w) : w[i] # t
    <2>1. \A t \in AllTasks : m[t] = Count(w, t) /\ Count(w, t) \in Nat
                              /\ (Count(w, t) = 0 <=> \A i \in 1 .. Len(w) : w[i] # t)
        BY <1>1, PlacesFinite DEF DataInv, Expected
    <2> QED BY <2>1
<1>3. p \in Seq(Commands) /\ DOMAIN p = 1 .. Len(p) /\ \A k \in 1 .. Len(p) : p[k].task \in AllTasks
    <2>1. \A k \in 1 .. Len(p) : p[k] \in Commands
        BY ElementOfSeq DEF QueueInv, Typed
    <2> QED BY <2>1, LenProperties DEF QueueInv, Typed, Commands
<1>4. BEATS \in Nat \ {0}
    BY QueueAssumption
<1>5. m[w[1]] > 0
    BY <1>1, <1>2
<1>6. \/ \E a \in 1 .. Len(o) : o[a].task = w[1]
      \/ \E k \in 1 .. Len(p) : ~Read(p[k]) /\ p[k].task = w[1]
    BY <1>1, <1>5 DEF DataInv, Expected
<1>7. CASE o # <<>>
    <2>1. /\ Len(o) \in Nat \ {0} /\ Head(o) = o[1] /\ 1 \in 1 .. Len(o)
          /\ o[1].task \in AllTasks /\ o[1].remaining_beats \in 1 .. BEATS
        <3>1. Len(o) \in Nat \ {0} /\ Head(o) = o[1] /\ o[1].task \in AllTasks /\ o[1].remaining_beats \in 1 .. BEATS
            BY <1>7, CountBeatShape
        <3> QED BY <3>1
    <2>2. m[o[1].task] > 0
        BY <1>4, <2>1 DEF DataInv, Expected
    <2>3. PICK j \in 1 .. Len(w) : w[j] = o[1].task
        BY <1>2, <2>1, <2>2
    <2>4. CASE j = 1
        BY <1>1, <1>7, <2>1, <2>3, <2>4
    <2>5. CASE j # 1
        <3>1. 1 < j
            BY <2>5
        <3>2. \A k \in 1 .. Len(p) : p[k].task # w[1]
            BY <1>1, <2>1, <2>3, <3>1 DEF DataInv, InLine
        <3>3. PICK a \in 1 .. Len(o) : o[a].task = w[1]
            BY <1>6, <3>2
        <3>4. a <= 1
            BY <1>1, <2>1, <2>3, <3>1, <3>3 DEF DataInv, InLine
        <3>5. a = 1
            BY <2>1, <3>4
        <3> QED BY <1>1, <1>7, <2>1, <3>3, <3>5
    <2> QED BY <2>4, <2>5
<1>8. CASE o = <<>>
    <2>1. PICK k \in 1 .. Len(p) : ~Read(p[k]) /\ p[k].task = w[1]
        BY <1>6, <1>8
    <2>2. ASSUME NEW n \in 1 .. k - 1, ~Read(p[n]) PROVE FALSE
        <3>1. n \in 1 .. Len(p) /\ n < k /\ Len(p) \in Nat
            BY <1>3
        <3>2. m[p[n].task] = BEATS
            BY <2>2, <3>1 DEF DataInv, Expected
        <3>3. PICK j \in 1 .. Len(w) : w[j] = p[n].task
            BY <1>2, <1>3, <1>4, <3>1, <3>2
        <3>4. CASE j = 1
            <4>1. p[n].task = p[k].task
                BY <2>1, <3>3, <3>4
            <4> QED BY <3>1, <4>1 DEF QueueInv, Apart, Distinct
        <3>5. CASE j # 1
            <4>1. 1 < j
                BY <3>5
            <4>2. k <= n
                BY <1>1, <2>1, <3>1, <3>3, <4>1 DEF DataInv, InLine
            <4> QED BY <3>1, <4>2
        <3> QED BY <3>4, <3>5
    <2> QED BY <1>1, <1>3, <1>8, <2>1, <2>2 DEF FirstPipedWrite
<1> QED BY <1>7, <1>8
-----------------------------------------------------------------------------
goneVars == <<fresh, CommandQueue, CommandQueueTest, PreDmcPipeQueue, answered, respVars>>

LEMMA RespInit == Init => RespKept /\ GoneAway
    BY DEF Init, RespKept, GoneAway, Gone, Range1

(* Nothing that is answered or has its response comes back, while tasks    *)
(* only move on: those of the pipe and of the queue were there or offered. *)
LEMMA RespMoves ==
    ASSUME RespKept, GoneAway, UNCHANGED <<answered, respVars>>,
           fresh' \cup OfferedTasks' \subseteq fresh \cup OfferedTasks,
           \A k \in 1 .. Len(PreDmcPipeQueue') :
              \/ PreDmcPipeQueue'[k].task \in OfferedTasks
              \/ \E l \in 1 .. Len(PreDmcPipeQueue) :
                    PreDmcPipeQueue'[k].task = PreDmcPipeQueue[l].task,
           \A i \in 1 .. Len(transactionQueue') :
              \/ transactionQueue'[i].task \in OfferedTasks
              \/ \E l \in 1 .. Len(PreDmcPipeQueue) :
                    transactionQueue'[i].task = PreDmcPipeQueue[l].task
              \/ \E j \in 1 .. Len(transactionQueue) :
                    /\ transactionQueue'[i].task = transactionQueue[j].task
                    /\ transactionQueue'[i].type = transactionQueue[j].type
                    /\ transactionQueue'[i].issue_size = transactionQueue[j].issue_size
    PROVE  RespKept' /\ GoneAway'
<1>1. RespKept'
    BY DEF RespKept, respVars
<1>2. Gone' = Gone
    BY DEF Gone, Range1, respVars
<1>3. ASSUME NEW t \in Gone, NEW i \in 1 .. Len(transactionQueue'), transactionQueue'[i].task = t
      PROVE  RDATA_TYPE = 0 /\ Read(transactionQueue'[i]) /\ transactionQueue'[i].issue_size > 0
    <2>1. PICK j \in 1 .. Len(transactionQueue) :
              /\ transactionQueue'[i].task = transactionQueue[j].task
              /\ transactionQueue'[i].type = transactionQueue[j].type
              /\ transactionQueue'[i].issue_size = transactionQueue[j].issue_size
        BY <1>3 DEF GoneAway
    <2> QED BY <1>3, <2>1 DEF GoneAway, Read
<1>4. ASSUME NEW t \in Gone
      PROVE  /\ t \notin fresh' \cup OfferedTasks'
             /\ \A k \in 1 .. Len(PreDmcPipeQueue') : PreDmcPipeQueue'[k].task # t
    BY <1>4 DEF GoneAway
<1> QED BY <1>1, <1>2, <1>3, <1>4 DEF GoneAway

(* A new response answers a task that has none.                            *)
LEMMA RespWrite ==
    ASSUME RespKept, NEW t \in AllTasks, t \notin Gone, WriteResp' = Append(WriteResp, t),
           ReadResp' = ReadResp, dresp_cnt' = dresp_cnt + 1, answered' = answered
    PROVE  RespKept' /\ Gone' = Gone \cup {t}
<1> DEFINE w == WriteResp
           r == ReadResp
<1>1. /\ w \in Seq(AllTasks) /\ r \in Seq(AllTasks) /\ Len(w) \in Nat /\ Len(r) \in Nat
      /\ DOMAIN w = 1 .. Len(w) /\ DOMAIN r = 1 .. Len(r)
    BY LenProperties DEF RespKept
<1>2. /\ w' \in Seq(AllTasks) /\ Len(w') = Len(w) + 1
      /\ \A i \in 1 .. Len(w) : w'[i] = w[i] /\ i \in 1 .. Len(w')
      /\ w'[Len(w) + 1] = t /\ Len(w) + 1 \in 1 .. Len(w')
      /\ \A i \in 1 .. Len(w') : i \in 1 .. Len(w) \/ i = Len(w) + 1
      /\ DOMAIN w' = 1 .. Len(w')
    <2>1. /\ w' \in Seq(AllTasks) /\ Len(w') = Len(w) + 1
          /\ \A i \in 1 .. Len(w) : w'[i] = w[i] /\ w'[Len(w) + 1] = t
        BY <1>1, AppendProperties
    <2>2. w'[Len(w) + 1] = t
        BY <1>1, AppendProperties
    <2> QED BY <1>1, <2>1, <2>2, LenProperties
<1>3. /\ \A i \in 1 .. Len(w) : w[i] # t
      /\ \A i \in 1 .. Len(r) : r[i] # t
      /\ t \notin answered
    BY <1>1 DEF Gone, Range1
<1>4. RespKept'
    <2>1. \A i, j \in 1 .. Len(w') : i # j => w'[i] # w'[j]
        BY <1>2, <1>3 DEF RespKept
    <2>2. \A i \in 1 .. Len(w'), j \in 1 .. Len(r') : w'[i] # r'[j]
        BY <1>2, <1>3 DEF RespKept
    <2>3. \A i \in 1 .. Len(w') : w'[i] \notin answered'
        BY <1>2, <1>3 DEF RespKept
    <2>4. dresp_cnt' = Len(w') + Len(r')
        BY <1>1, <1>2 DEF RespKept
    <2> QED BY <1>2, <2>1, <2>2, <2>3, <2>4 DEF RespKept
<1>5. Range1(w') = Range1(w) \cup {t}
    BY <1>1, <1>2 DEF Range1
<1>6. Gone' = Range1(w') \cup Range1(r) \cup answered
    BY DEF Gone, Range1
<1> QED BY <1>4, <1>5, <1>6 DEF Gone

LEMMA RespRead ==
    ASSUME RespKept, NEW t \in AllTasks, t \notin Gone, ReadResp' = Append(ReadResp, t),
           WriteResp' = WriteResp, dresp_cnt' = dresp_cnt + 1, answered' = answered
    PROVE  RespKept' /\ Gone' = Gone \cup {t}
<1> DEFINE w == ReadResp
           r == WriteResp
<1>1. /\ w \in Seq(AllTasks) /\ r \in Seq(AllTasks) /\ Len(w) \in Nat /\ Len(r) \in Nat
      /\ DOMAIN w = 1 .. Len(w) /\ DOMAIN r = 1 .. Len(r)
    BY LenProperties DEF RespKept
<1>2. /\ w' \in Seq(AllTasks) /\ Len(w') = Len(w) + 1
      /\ \A i \in 1 .. Len(w) : w'[i] = w[i] /\ i \in 1 .. Len(w')
      /\ w'[Len(w) + 1] = t /\ Len(w) + 1 \in 1 .. Len(w')
      /\ \A i \in 1 .. Len(w') : i \in 1 .. Len(w) \/ i = Len(w) + 1
      /\ DOMAIN w' = 1 .. Len(w')
    <2>1. /\ w' \in Seq(AllTasks) /\ Len(w') = Len(w) + 1
          /\ \A i \in 1 .. Len(w) : w'[i] = w[i]
        BY <1>1, AppendProperties
    <2>2. w'[Len(w) + 1] = t
        BY <1>1, AppendProperties
    <2> QED BY <1>1, <2>1, <2>2, LenProperties
<1>3. /\ \A i \in 1 .. Len(w) : w[i] # t
      /\ \A i \in 1 .. Len(r) : r[i] # t
      /\ t \notin answered
    BY <1>1 DEF Gone, Range1
<1>4. RespKept'
    <2>1. \A i, j \in 1 .. Len(w') : i # j => w'[i] # w'[j]
        BY <1>2, <1>3 DEF RespKept
    <2>2. \A i \in 1 .. Len(r'), j \in 1 .. Len(w') : r'[i] # w'[j]
        BY <1>2, <1>3 DEF RespKept
    <2>3. \A i \in 1 .. Len(w') : w'[i] \notin answered'
        BY <1>2, <1>3 DEF RespKept
    <2>4. dresp_cnt' = Len(r') + Len(w')
        BY <1>1, <1>2 DEF RespKept
    <2> QED BY <1>2, <2>1, <2>2, <2>3, <2>4 DEF RespKept
<1>5. Range1(w') = Range1(w) \cup {t}
    BY <1>1, <1>2 DEF Range1
<1>6. Gone' = Range1(r) \cup Range1(w') \cup answered
    BY DEF Gone, Range1
<1> QED BY <1>4, <1>5, <1>6 DEF Gone

(* A response that is taken.                                               *)
LEMMA RespRespond ==
    ASSUME RespKept, GoneAway, NEW wr \in BOOLEAN, NEW rr \in BOOLEAN, Respond(wr, rr)
    PROVE  RespKept' /\ GoneAway'
<1> DEFINE w == WriteResp
           r == ReadResp
<1>1. /\ w \in Seq(AllTasks) /\ r \in Seq(AllTasks) /\ Len(w) \in Nat /\ Len(r) \in Nat
      /\ DOMAIN w = 1 .. Len(w) /\ DOMAIN r = 1 .. Len(r)
    BY LenProperties DEF RespKept
<1>2. ASSUME NEW s \in Seq(AllTasks), s # <<>>
      PROVE  /\ Tail(s) \in Seq(AllTasks) /\ Len(Tail(s)) = Len(s) - 1 /\ Len(s) \in Nat \ {0}
             /\ \A i \in 1 .. Len(Tail(s)) : Tail(s)[i] = s[i + 1] /\ i + 1 \in 2 .. Len(s)
             /\ Head(s) = s[1] /\ 1 \in 1 .. Len(s) /\ DOMAIN Tail(s) = 1 .. Len(Tail(s))
    <2>1. Len(s) \in Nat \ {0} /\ Tail(s) \in Seq(AllTasks) /\ Len(Tail(s)) = Len(s) - 1
          /\ \A i \in 1 .. Len(Tail(s)) : Tail(s)[i] = s[i + 1]
        BY <1>2, EmptySeq, HeadTailProperties
    <2> QED BY <2>1
<1>3. PICK a \in {0, 1}, b \in {0, 1} :
          a = (IF wr THEN 1 ELSE 0) /\ b = (IF rr THEN 1 ELSE 0)
    OBVIOUS
<1>4. /\ w' \in Seq(AllTasks) /\ Len(w') = Len(w) - a /\ DOMAIN w' = 1 .. Len(w')
      /\ \A i \in 1 .. Len(w') : w'[i] = w[i + a] /\ i + a \in 1 .. Len(w)
    <2>1. CASE wr
        BY <1>1, <1>2, <1>3, <2>1 DEF Respond
    <2>2. CASE ~wr
        BY <1>1, <1>3, <2>2 DEF Respond
    <2> QED BY <2>1, <2>2
<1>5. /\ r' \in Seq(AllTasks) /\ Len(r') = Len(r) - b /\ DOMAIN r' = 1 .. Len(r')
      /\ \A i \in 1 .. Len(r') : r'[i] = r[i + b] /\ i + b \in 1 .. Len(r)
    <2>1. CASE rr
        BY <1>1, <1>2, <1>3, <2>1 DEF Respond
    <2>2. CASE ~rr
        BY <1>1, <1>3, <2>2 DEF Respond
    <2> QED BY <2>1, <2>2
<1>6. /\ \A t \in answered' : \/ t \in answered
                              \/ wr /\ t = w[1] /\ 1 \in 1 .. Len(w)
                              \/ rr /\ t = r[1] /\ 1 \in 1 .. Len(r)
      /\ answered \subseteq answered'
    <2>1. answered' = answered \cup (IF wr THEN {Head(w)} ELSE {}) \cup (IF rr THEN {Head(r)} ELSE {})
        BY DEF Respond
    <2>2. (wr => w # <<>>) /\ (rr => r # <<>>)
        BY DEF Respond
    <2>3. (wr => Head(w) = w[1] /\ 1 \in 1 .. Len(w)) /\ (rr => Head(r) = r[1] /\ 1 \in 1 .. Len(r))
        BY <1>1, <1>2, <2>2
    <2> QED BY <2>1, <2>3
<1>7. \A i \in 1 .. Len(w') : w'[i] \notin answered'
    <2> TAKE i \in 1 .. Len(w')
    <2>1. i + a \in 1 .. Len(w) /\ w'[i] = w[i + a] /\ (wr => i + a # 1)
        BY <1>3, <1>4
    <2> QED BY <1>6, <2>1 DEF RespKept
<1>8. \A i \in 1 .. Len(r') : r'[i] \notin answered'
    <2> TAKE i \in 1 .. Len(r')
    <2>1. i + b \in 1 .. Len(r) /\ r'[i] = r[i + b] /\ (rr => i + b # 1)
        BY <1>3, <1>5
    <2> QED BY <1>6, <2>1 DEF RespKept
<1>9. answered' \subseteq AllTasks
    <2>1. \A i \in 1 .. Len(w) : w[i] \in AllTasks
        BY <1>1, ElementOfSeq
    <2>2. \A i \in 1 .. Len(r) : r[i] \in AllTasks
        BY <1>1, ElementOfSeq
    <2> QED BY <1>6, <2>1, <2>2 DEF RespKept
<1>10. dresp_cnt' = Len(w') + Len(r')
    <2>1. dresp_cnt' = dresp_cnt - a - b
        BY <1>3 DEF Respond
    <2> QED BY <1>1, <1>4, <1>5, <2>1 DEF RespKept
<1>11. /\ \A i, j \in 1 .. Len(w') : i # j => w'[i] # w'[j]
       /\ \A i, j \in 1 .. Len(r') : i # j => r'[i] # r'[j]
       /\ \A i \in 1 .. Len(w'), j \in 1 .. Len(r') : w'[i] # r'[j]
    <2>1. \A i, j \in 1 .. Len(w') : i # j => w'[i] # w'[j]
        <3>1. \A i, j \in 1 .. Len(w) : i # j => w[i] # w[j]
            BY DEF RespKept
        <3>2. \A i, j \in 1 .. Len(w') : i # j => i + a # j + a
            OBVIOUS
        <3> QED BY <1>4, <3>1, <3>2
    <2>2. \A i, j \in 1 .. Len(r') : i # j => r'[i] # r'[j]
        <3>1. \A i, j \in 1 .. Len(r) : i # j => r[i] # r[j]
            BY DEF RespKept
        <3>2. \A i, j \in 1 .. Len(r') : i # j => i + b # j + b
            OBVIOUS
        <3> QED BY <1>5, <3>1, <3>2
    <2>3. \A i \in 1 .. Len(w'), j \in 1 .. Len(r') : w'[i] # r'[j]
        <3>1. \A i \in 1 .. Len(w), j \in 1 .. Len(r) : w[i] # r[j]
            BY DEF RespKept
        <3> QED BY <1>4, <1>5, <3>1
    <2> QED BY <2>1, <2>2, <2>3
<1>12. RespKept'
    BY <1>4, <1>5, <1>7, <1>8, <1>9, <1>10, <1>11 DEF RespKept
<1>13. Gone' \subseteq Gone
    <2>1. Gone' = Range1(w') \cup Range1(r') \cup answered'
        BY DEF Gone, Range1
    <2>2. Range1(w') \subseteq Gone
        BY <1>1, <1>4 DEF Gone, Range1
    <2>3. Range1(r') \subseteq Gone
        BY <1>1, <1>5 DEF Gone, Range1
    <2>4. answered' \subseteq Gone
        BY <1>1, <1>6 DEF Gone, Range1
    <2> QED BY <2>1, <2>2, <2>3, <2>4
<1>14. UNCHANGED <<fresh, CommandQueue, CommandQueueTest, PreDmcPipeQueue, transactionQueue>>
    BY DEF Respond, gateVars
<1>15. OfferedTasks' = OfferedTasks
    BY <1>14 DEF OfferedTasks
<1>16. GoneAway'
    BY <1>13, <1>14, <1>15 DEF GoneAway
<1> QED BY <1>12, <1>16

(* A read may have its response when it begins.                            *)
LEMMA RespSchedule ==
    ASSUME QueueInv, RespKept, GoneAway, NEW n \in 1 .. Len(transactionQueue), Schedule(n)
    PROVE  RespKept' /\ GoneAway'
<1> DEFINE q == transactionQueue
           resp == RDATA_TYPE = 0 /\ Read(q[n]) /\ q[n].issue_size = 0
<1>1. /\ Len(q') = Len(q)
      /\ \A i \in 1 .. Len(q) :
            /\ q[i] \in EntryT /\ q'[i].task = q[i].task /\ q'[i].type = q[i].type
            /\ q'[i].issue_size = IF i = n THEN q[i].issue_size + 1 ELSE q[i].issue_size
    BY ScheduleShape
<1>2. UNCHANGED <<fresh, CommandQueue, CommandQueueTest, PreDmcPipeQueue, answered, WriteResp>>
    BY DEF Schedule, hostVars, gateVars
<1>3. OfferedTasks' = OfferedTasks
    BY <1>2 DEF OfferedTasks
<1>4. q[n].task \in AllTasks /\ \A i \in 1 .. Len(q) : q[i].issue_size \in Nat
    BY <1>1 DEF EntryT
<1>5. \A t \in Gone : \A i \in 1 .. Len(q') : q'[i].task = t =>
          RDATA_TYPE = 0 /\ Read(q'[i]) /\ q'[i].issue_size > 0
    <2> SUFFICES ASSUME NEW t \in Gone, NEW i \in 1 .. Len(q'), q'[i].task = t
                 PROVE  RDATA_TYPE = 0 /\ Read(q'[i]) /\ q'[i].issue_size > 0
        OBVIOUS
    <2>1. RDATA_TYPE = 0 /\ Read(q[i]) /\ q[i].issue_size > 0
        BY <1>1 DEF GoneAway
    <2> QED BY <1>1, <1>4, <2>1 DEF Read
<1>6. CASE resp
    <2>1. q[n].task \notin Gone
        <3>1. ~(q[n].issue_size > 0)
            BY <1>6
        <3> QED BY <3>1 DEF GoneAway
    <2>2. ReadResp' = Append(ReadResp, q[n].task) /\ dresp_cnt' = dresp_cnt + 1
        BY <1>6 DEF Schedule
    <2>3. RespKept' /\ Gone' = Gone \cup {q[n].task}
        BY <1>2, <1>4, <2>1, <2>2, RespRead
    <2>4. /\ q[n].task \notin fresh \cup OfferedTasks
          /\ \A k \in 1 .. Len(PreDmcPipeQueue) : PreDmcPipeQueue[k].task # q[n].task
          /\ \A i \in 1 .. Len(q) : q[i].task = q[n].task => i = n
        BY DEF QueueInv, Apart, Distinct
    <2>5. \A i \in 1 .. Len(q') : q'[i].task = q[n].task =>
              RDATA_TYPE = 0 /\ Read(q'[i]) /\ q'[i].issue_size > 0
        BY <1>1, <1>4, <1>6, <2>4 DEF Read
    <2>6. GoneAway'
        BY <1>2, <1>3, <1>5, <2>3, <2>4, <2>5 DEF GoneAway
    <2> QED BY <2>3, <2>6
<1>7. CASE ~resp
    <2>1. ReadResp' = ReadResp /\ dresp_cnt' = dresp_cnt
        BY <1>7 DEF Schedule
    <2>2. RespKept' /\ Gone' = Gone
        BY <1>2, <2>1 DEF RespKept, Gone, Range1
    <2>3. GoneAway'
        BY <1>2, <1>3, <1>5, <2>2 DEF GoneAway
    <2> QED BY <2>2, <2>3
<1> QED BY <1>6, <1>7

(* What leaves the queue has its response now, if it had none.             *)
LEMMA RespRetire ==
    ASSUME QueueInv, RespKept, GoneAway, NEW n \in 1 .. Len(transactionQueue), Retire(n)
    PROVE  RespKept' /\ GoneAway'
<1> DEFINE q == transactionQueue
           e == q[n]
           rresp == Read(e) /\ RDATA_TYPE = 1
<1>1. /\ Len(q') = Len(q) - 1 /\ Len(q) \in Nat
      /\ \A i \in 1 .. Len(q) : q[i] \in EntryT
      /\ \A k \in 1 .. Len(q') : \E i \in 1 .. Len(q) :
            /\ i # n /\ q'[k].task = q[i].task /\ q'[k].type = q[i].type
            /\ q'[k].issue_size = q[i].issue_size
    <2>1. Len(q) \in Nat
        BY LenProperties DEF QueueInv, Typed
    <2>2. /\ Len(q') = Len(q) - 1 /\ \A i \in 1 .. Len(q) : q[i] \in EntryT
          /\ \A k \in 1 .. Len(q) - 1 : \E i \in 1 .. Len(q) :
                /\ i = (IF k < n THEN k ELSE k + 1)
                /\ q'[k].task = q[i].task /\ q'[k].type = q[i].type
                /\ q'[k].issue_size = q[i].issue_size
        BY RetireShape
    <2>3. \A k \in 1 .. Len(q) - 1 : (IF k < n THEN k ELSE k + 1) # n
        OBVIOUS
    <2> QED BY <2>1, <2>2, <2>3
<1>2. UNCHANGED <<fresh, CommandQueue, CommandQueueTest, PreDmcPipeQueue, answered>>
    BY DEF Retire, hostVars, gateVars
<1>3. OfferedTasks' = OfferedTasks
    BY <1>2 DEF OfferedTasks
<1>4. e.task \in AllTasks /\ RDATA_TYPE \in {0, 1}
    BY <1>1, QueueAssumption DEF EntryT
<1>5. \A t \in Gone : \A k \in 1 .. Len(q') : q'[k].task = t =>
          RDATA_TYPE = 0 /\ Read(q'[k]) /\ q'[k].issue_size > 0
    <2> SUFFICES ASSUME NEW t \in Gone, NEW k \in 1 .. Len(q'), q'[k].task = t
                 PROVE  RDATA_TYPE = 0 /\ Read(q'[k]) /\ q'[k].issue_size > 0
        OBVIOUS
    <2>1. PICK i \in 1 .. Len(q) : q'[k].task = q[i].task /\ q'[k].type = q[i].type
                                   /\ q'[k].issue_size = q[i].issue_size
        BY <1>1
    <2> QED BY <2>1 DEF GoneAway, Read
<1>6. /\ e.task \notin fresh \cup OfferedTasks
      /\ \A k \in 1 .. Len(PreDmcPipeQueue) : PreDmcPipeQueue[k].task # e.task
      /\ \A i \in 1 .. Len(q) : q[i].task = e.task => i = n
    BY DEF QueueInv, Apart, Distinct
<1>7. \A k \in 1 .. Len(q') : q'[k].task # e.task
    BY <1>1, <1>6
<1>8. ASSUME RespKept', Gone' \subseteq Gone \cup {e.task} PROVE GoneAway'
    BY <1>2, <1>3, <1>5, <1>6, <1>7, <1>8 DEF GoneAway
<1>9. CASE ~Read(e)
    <2>1. e.task \notin Gone
        BY <1>9 DEF GoneAway
    <2>2. WriteResp' = Append(WriteResp, e.task) /\ ReadResp' = ReadResp /\ dresp_cnt' = dresp_cnt + 1
        BY <1>9 DEF Retire
    <2>3. RespKept' /\ Gone' = Gone \cup {e.task}
        <3> HIDE DEF e
        <3> QED BY <1>2, <1>4, <2>1, <2>2, RespWrite
    <2> QED BY <1>8, <2>3
<1>10. CASE rresp
    <2>1. e.task \notin Gone
        BY <1>10 DEF GoneAway
    <2>2. ReadResp' = Append(ReadResp, e.task) /\ WriteResp' = WriteResp /\ dresp_cnt' = dresp_cnt + 1
        BY <1>10 DEF Retire
    <2>3. RespKept' /\ Gone' = Gone \cup {e.task}
        <3> HIDE DEF e
        <3> QED BY <1>2, <1>4, <2>1, <2>2, RespRead
    <2> QED BY <1>8, <2>3
<1>11. CASE Read(e) /\ ~rresp
    <2>1. ReadResp' = ReadResp /\ WriteResp' = WriteResp /\ dresp_cnt' = dresp_cnt
        BY <1>11 DEF Retire
    <2>2. RespKept' /\ Gone' = Gone
        BY <1>2, <2>1 DEF RespKept, Gone, Range1
    <2> QED BY <1>8, <2>2
<1> QED BY <1>9, <1>10, <1>11
-----------------------------------------------------------------------------
RespInv == RespKept /\ GoneAway

LEMMA RespNew == QueueInv /\ RespInv /\ NewCommand => RespInv'
<1> SUFFICES ASSUME QueueInv, RespInv, NewCommand PROVE RespInv'
    OBVIOUS
<1> PICK t \in fresh, ty \in {"READ", "WRITE"}, a \in Addresses :
        LET c == [task |-> t, type |-> ty, address |-> a]
        IN  /\ fresh' = fresh \ {t}
            /\ \/ /\ t \in Tasks /\ CommandQueue = <<>>
                  /\ CommandQueue' = <<c>> /\ UNCHANGED CommandQueueTest
               \/ /\ t \in TestTasks /\ Read(c) /\ CommandQueueTest = <<>>
                  /\ CommandQueueTest' = <<c>> /\ UNCHANGED CommandQueue
    BY DEF NewCommand
<1> DEFINE c == [task |-> t, type |-> ty, address |-> a]
<1>1. /\ UNCHANGED <<PreDmcPipeQueue, transactionQueue, answered, respVars>> /\ fresh' = fresh \ {t}
      /\ \/ CommandQueue' = <<c>> /\ UNCHANGED CommandQueueTest
         \/ CommandQueueTest' = <<c>> /\ UNCHANGED CommandQueue
    BY DEF NewCommand, gateVars
<1>2. c.task = t /\ <<c>>[1] = c
    OBVIOUS
<1>3. OfferedTasks' \subseteq OfferedTasks \cup {t}
    BY <1>1, <1>2 DEF OfferedTasks
<1>4. fresh' \cup OfferedTasks' \subseteq fresh \cup OfferedTasks
    BY <1>1, <1>3
<1> QED BY <1>1, <1>4, RespMoves DEF RespInv

LEMMA RespAccepted == QueueInv /\ RespInv /\ Accepted => RespInv'
<1> SUFFICES ASSUME QueueInv, RespInv, Accepted PROVE RespInv'
    OBVIOUS
<1> DEFINE q == transactionQueue
           p == PreDmcPipeQueue
<1>1. PICK c \in Commands : c = Offered[1] /\ c.task \in OfferedTasks
    BY Taken DEF Accepted
<1>2. \A i \in 1 .. Len(q) : q[i].task # c.task
    BY <1>1 DEF QueueInv, Apart
<1>3. UNCHANGED <<fresh, answered, respVars>> /\ OfferedTasks' \subseteq OfferedTasks
    BY Taken DEF Accepted
<1>4. \/ addTransaction(c) /\ p' = p
      \/ p' = Append(p, c) /\ q' = q
    BY <1>1 DEF Accepted
<1>5. CASE addTransaction(c) /\ p' = p
    <2>1. /\ Len(q') = Len(q) + 1 /\ Len(q) \in Nat
          /\ \A i \in 1 .. Len(q) : q'[i] = q[i]
          /\ q'[Len(q) + 1].task = c.task
        BY <1>2, <1>5, AddShape
    <2>2. \A i \in 1 .. Len(q') : i \in 1 .. Len(q) \/ i = Len(q) + 1
        BY <2>1
    <2>3. \A i \in 1 .. Len(q') : \/ q'[i].task \in OfferedTasks
                                  \/ \E j \in 1 .. Len(q) : q'[i] = q[j]
        BY <1>1, <2>1, <2>2
    <2> QED BY <1>3, <1>5, <2>3, RespMoves DEF RespInv
<1>6. CASE p' = Append(p, c) /\ q' = q
    <2>1. p \in Seq(Commands) /\ Len(p) \in Nat
        BY LenProperties DEF QueueInv, Typed
    <2>2. /\ Len(p') = Len(p) + 1 /\ \A k \in 1 .. Len(p) : p'[k] = p[k]
          /\ p'[Len(p) + 1] = c
        <3>1. Len(p') = Len(p) + 1 /\ \A k \in 1 .. Len(p) : p'[k] = p[k]
            BY <1>6, <2>1, AppendProperties
        <3>2. p'[Len(p) + 1] = c
            BY <1>6, <2>1, AppendProperties
        <3> QED BY <3>1, <3>2
    <2>3. \A k \in 1 .. Len(p') : k \in 1 .. Len(p) \/ k = Len(p) + 1
        BY <2>1, <2>2
    <2>4. \A k \in 1 .. Len(p') : \/ p'[k].task \in OfferedTasks
                                  \/ \E l \in 1 .. Len(p) : p'[k].task = p[l].task
        BY <1>1, <2>2, <2>3
    <2> QED BY <1>3, <1>6, <2>4, RespMoves DEF RespInv
<1> QED BY <1>4, <1>5, <1>6

LEMMA RespPipe == QueueInv /\ RespInv /\ PipeDelivers => RespInv'
<1> SUFFICES ASSUME QueueInv, RespInv, PipeDelivers PROVE RespInv'
    OBVIOUS
<1> DEFINE q == transactionQueue
           p == PreDmcPipeQueue
<1>1. /\ p \in Seq(Commands) /\ p # <<>> /\ p' = Tail(p) /\ addTransaction(Head(p))
      /\ UNCHANGED <<fresh, CommandQueue, CommandQueueTest, answered, respVars>>
    BY DEF QueueInv, Typed, PipeDelivers, hostVars
<1>2. /\ Len(p') = Len(p) - 1 /\ Len(p) \in Nat \ {0}
      /\ \A i \in 1 .. Len(p') : p'[i] = p[i + 1] /\ i + 1 \in 1 .. Len(p)
      /\ Head(p) = p[1] /\ Head(p) \in Commands /\ 1 \in 1 .. Len(p)
    BY <1>1
<1>3. \A i \in 1 .. Len(q) : q[i].task # Head(p).task
    BY <1>2 DEF QueueInv, Apart
<1>4. /\ Len(q') = Len(q) + 1 /\ Len(q) \in Nat
      /\ \A i \in 1 .. Len(q) : q'[i] = q[i]
      /\ q'[Len(q) + 1].task = p[1].task
    BY <1>1, <1>2, <1>3, AddShape
<1>5. \A i \in 1 .. Len(q') : i \in 1 .. Len(q) \/ i = Len(q) + 1
    BY <1>4
<1>6. \A i \in 1 .. Len(q') : \/ q'[i].task = p[1].task
                              \/ \E j \in 1 .. Len(q) : q'[i] = q[j]
    BY <1>4, <1>5
<1>7. OfferedTasks' = OfferedTasks
    BY <1>1 DEF OfferedTasks
<1> QED BY <1>1, <1>2, <1>6, <1>7, RespMoves DEF RespInv

LEMMA RespArrive == QueueInv /\ RespInv /\ UpdateWdata => RespInv'
<1> SUFFICES ASSUME QueueInv, RespInv, UpdateWdata PROVE RespInv'
    OBVIOUS
<1> DEFINE q == transactionQueue
<1>1. /\ Len(q') = Len(q)
      /\ \A j \in 1 .. Len(q) :
            /\ q'[j].task = q[j].task /\ q'[j].type = q[j].type
            /\ q'[j].issue_size = q[j].issue_size
    BY ArriveShape
<1>2. UNCHANGED <<fresh, CommandQueue, CommandQueueTest, PreDmcPipeQueue, answered, respVars>>
    BY DEF UpdateWdata, hostVars, gateVars
<1>3. OfferedTasks' = OfferedTasks
    BY <1>2 DEF OfferedTasks
<1> QED BY <1>1, <1>2, <1>3, RespMoves DEF RespInv

LEMMA RespSame ==
    ASSUME RespInv, UNCHANGED <<goneVars, transactionQueue>> PROVE RespInv'
<1>1. OfferedTasks' = OfferedTasks
    BY DEF OfferedTasks, goneVars
<1> QED BY <1>1, RespMoves DEF RespInv, goneVars

LEMMA NextResp ==
    [Next]_vars =>
        \/ NewCommand \/ Accepted \/ PipeDelivers \/ UpdateWdata
        \/ \E wr, rr \in BOOLEAN : Respond(wr, rr)
        \/ \E i \in DOMAIN transactionQueue : Schedule(i)
        \/ \E n \in DOMAIN transactionQueue : Retire(n)
        \/ UNCHANGED <<goneVars, transactionQueue>>
    BY DEF Next, vars, hostVars, gateVars, dataVars, respVars, goneVars, NoNewCommand, SendNothing,
           Refused, SubmitData, NoDataSent, NoDataArrives, ScheduleSome, ScheduleNone, RetireNone,
           QuePipeline, PipeWaits

(* The responses that wait (write_response, read_response) are of          *)
(* different tasks, dresp_cnt is their number, none is answered yet, and   *)
(* their tasks have gone: none is offered or piped, and in the queue only  *)
(* a read that had its response when it began.                             *)
THEOREM RespInvHolds == Spec => []RespInv
<1>1. QueueInv /\ RespInv /\ [Next]_vars => RespInv'
    <2> SUFFICES ASSUME QueueInv, RespInv, [Next]_vars PROVE RespInv'
        OBVIOUS
    <2>1. DOMAIN transactionQueue = 1 .. Len(transactionQueue)
        BY DEF QueueInv, Typed
    <2>2. ASSUME NEW wr \in BOOLEAN, NEW rr \in BOOLEAN, Respond(wr, rr) PROVE RespInv'
        BY <2>2, RespRespond DEF RespInv
    <2>3. ASSUME NEW n \in 1 .. Len(transactionQueue), Schedule(n) PROVE RespInv'
        BY <2>3, RespSchedule DEF RespInv
    <2>4. ASSUME NEW n \in 1 .. Len(transactionQueue), Retire(n) PROVE RespInv'
        BY <2>4, RespRetire DEF RespInv
    <2> QED BY <2>1, <2>2, <2>3, <2>4, NextResp, RespNew, RespAccepted, RespPipe, RespArrive,
               RespSame
<1>2. Init => RespInv
    BY RespInit DEF RespInv
<1> QED BY <1>1, <1>2, WaitingSound, PTL DEF Spec

LEMMA AnswersOnce == QueueInv /\ DataInv /\ RespInv => AnswersSound
<1> SUFFICES ASSUME QueueInv, DataInv, RespInv PROVE AnswersSound
    OBVIOUS
<1> DEFINE v == WriteResp
           r == ReadResp
           s == v \o r
           w == write_task
<1>1. /\ v \in Seq(AllTasks) /\ r \in Seq(AllTasks) /\ Len(v) \in Nat /\ Len(r) \in Nat
      /\ w \in Seq(AllTasks) /\ DOMAIN v = 1 .. Len(v) /\ DOMAIN w = 1 .. Len(w)
    BY LenProperties DEF RespInv, RespKept, DataInv, DataTyped
<1>2. /\ s \in Seq(AllTasks) /\ Len(s) = Len(v) + Len(r)
      /\ \A i \in 1 .. Len(v) + Len(r) : s[i] = IF i <= Len(v) THEN v[i] ELSE r[i - Len(v)]
      /\ DOMAIN s = 1 .. Len(v) + Len(r)
    <2>1. /\ s \in Seq(AllTasks) /\ Len(s) = Len(v) + Len(r)
          /\ \A i \in 1 .. Len(v) + Len(r) : s[i] = IF i <= Len(v) THEN v[i] ELSE r[i - Len(v)]
        BY <1>1, ConcatProperties
    <2> HIDE DEF s
    <2>2. DOMAIN s = 1 .. Len(s)
        BY <2>1, LenProperties
    <2> QED BY <2>1, <2>2
<1> HIDE DEF s
<1>3. \A i \in 1 .. Len(v) + Len(r) :
         \/ i \in 1 .. Len(v) /\ s[i] = v[i]
         \/ i - Len(v) \in 1 .. Len(r) /\ s[i] = r[i - Len(v)] /\ i \notin 1 .. Len(v)
    BY <1>1, <1>2
<1>4. \A i, j \in 1 .. Len(v) + Len(r) : i # j => s[i] # s[j]
    <2> SUFFICES ASSUME NEW i \in 1 .. Len(v) + Len(r), NEW j \in 1 .. Len(v) + Len(r),
                        i # j, s[i] = s[j]
                 PROVE  FALSE
        OBVIOUS
    <2>1. i - Len(v) # j - Len(v)
        BY <1>1
    <2> QED BY <1>3, <2>1 DEF RespInv, RespKept
<1>5. Range1(s) \cap answered = {}
    <2>1. \A i \in DOMAIN s : s[i] \notin answered
        BY <1>2, <1>3 DEF RespInv, RespKept
    <2> QED BY <2>1 DEF Range1
<1>6. ASSUME NEW i \in 1 .. Len(v), NEW j \in 1 .. Len(w), v[i] = w[j] PROVE FALSE
    <2>1. v[i] \in AllTasks /\ v[i] \in Gone
        BY <1>1, ElementOfSeq DEF Gone, Range1
    <2>2. write_map[v[i]] > 0
        <3>1. Count(w, v[i]) \in Nat /\ Count(w, v[i]) # 0
            BY <1>1, <1>6, PlacesFinite
        <3> QED BY <2>1, <3>1 DEF DataInv, Expected
    <2>3. \A k \in 1 .. Len(PreDmcPipeQueue) : PreDmcPipeQueue[k].task # v[i]
        BY <2>1 DEF RespInv, GoneAway
    <2>4. PICK a \in 1 .. Len(wdata_order_queue) : wdata_order_queue[a].task = v[i]
        BY <2>1, <2>2, <2>3 DEF DataInv, Expected
    <2>5. PICK k \in 1 .. Len(transactionQueue) : transactionQueue[k].task = v[i] /\ ~Read(transactionQueue[k])
        BY <2>4 DEF DataInv, DataKept, HasData
    <2> QED BY <2>1, <2>5 DEF RespInv, GoneAway
<1>7. Range1(v) \cap Range1(w) = {}
    BY <1>1, <1>6 DEF Range1
<1> QED BY <1>2, <1>4, <1>5, <1>7 DEF AnswersSound, s

(* No command is answered twice, and no write before its last beat is sent *)
(* (the assertion of main.cpp on write responses).                         *)
THEOREM AnswersSoundHolds == Spec => []AnswersSound
    BY AnswersOnce, RespInvHolds, DataAgreed, WaitingSound, PTL

(* The write data are typed, complete and in step: the beat the driver     *)
(* offers is the one the controller waits for (receiveFromCPU).            *)
THEOREM WdataSoundHolds == Spec => []WdataSound
<1>1. QueueInv /\ GateTyped /\ DataInv /\ RespInv => TypeOK
    <2> SUFFICES ASSUME QueueInv, GateTyped, DataInv, RespInv PROVE TypeOK
        OBVIOUS
    <2> DEFINE q == transactionQueue
    <2>1. q \in Seq(EntryT) /\ DOMAIN q = 1 .. Len(q) /\ Len(q) \in Nat /\ BURSTS \in Nat /\ BEATS \in Nat
        BY LenProperties, QueueAssumption DEF QueueInv, Typed
    <2>2. q \in Seq(Entries)
        <3>1. \A i \in 1 .. Len(q) : q[i] \in Entries
            <4> TAKE i \in 1 .. Len(q)
            <4>1. q[i] \in EntryT
                BY <2>1, ElementOfSeq
            <4>2. q[i].issue_size <= BURSTS /\ q[i].data_ready_cnt <= BEATS
                BY DEF DataInv, DataTyped
            <4>3. q[i].issue_size \in 0 .. BURSTS /\ q[i].data_ready_cnt \in 0 .. BEATS
                <5>1. q[i].issue_size \in Nat /\ q[i].data_ready_cnt \in Nat
                    BY <4>1 DEF EntryT
                <5> QED BY <2>1, <4>2, <5>1
            <4> QED BY <4>1, <4>3 DEF EntryT, Entries
        <3>2. q = [i \in 1 .. Len(q) |-> q[i]]
            BY <2>1
        <3> DEFINE f == [i \in 1 .. Len(q) |-> q[i]]
        <3>3. f \in Seq(Entries)
            BY <2>1, <3>1
        <3> QED BY <3>2, <3>3
    <2>3. \A i, j \in DOMAIN q : i # j => q[i].task # q[j].task
        BY <2>1 DEF QueueInv, Apart, Distinct
    <2>4. CmdQueue \subseteq AllTasks
        <3>1. \A i \in 1 .. Len(q) : q[i].task \in AllTasks
            <4>1. \A i \in 1 .. Len(q) : q[i] \in EntryT
                BY <2>1, ElementOfSeq
            <4> QED BY <4>1 DEF EntryT
        <3> QED BY <3>1 DEF QueueInv, ReadyFree
    <2>5. dresp_cnt \in Nat
        BY LenProperties DEF RespInv, RespKept
    <2> QED BY <2>2, <2>3, <2>4, <2>5
            DEF TypeOK, GateTyped, QueueInv, Typed, DataInv, DataTyped, RespInv, RespKept
<1> QED BY <1>1, DataConserved, DataInStep, GateTypedHolds, RespInvHolds, DataAgreed, WaitingSound,
           PTL DEF WdataSound
-----------------------------------------------------------------------------
(* Positions that are left when one is erased.                             *)
LEMMA CardErase ==
    ASSUME NEW L \in Nat, NEW n \in 1 .. L, NEW A \in SUBSET (1 .. L), NEW B \in SUBSET (1 .. L - 1),
           \A k \in 1 .. L - 1 : k \in B <=> (IF k < n THEN k ELSE k + 1) \in A
    PROVE  Cardinality(B) = IF n \in A THEN Cardinality(A) - 1 ELSE Cardinality(A)
<1> DEFINE s == [i \in 1 .. L |-> IF i \in A THEN 1 ELSE 0]
<1>1. s \in Seq({0, 1}) /\ Len(s) = L /\ \A i \in 1 .. L : s[i] = IF i \in A THEN 1 ELSE 0
    OBVIOUS
<1> HIDE DEF s
<1>2. Places(s, 1) = A /\ Count(s, 1) = Cardinality(A)
    <2>1. Places(s, 1) = {i \in 1 .. L : s[i] = 1} /\ Count(s, 1) = Cardinality(Places(s, 1))
        BY <1>1, PlacesFinite
    <2>2. {i \in 1 .. L : s[i] = 1} = A
        <3>1. \A i \in 1 .. L : s[i] = 1 <=> i \in A
            BY <1>1
        <3> QED BY <3>1
    <2> QED BY <2>1, <2>2
<1>3. /\ erase(s, n) \in Seq({0, 1}) /\ Len(erase(s, n)) = L - 1
      /\ \A k \in 1 .. L - 1 : erase(s, n)[k] = s[IF k < n THEN k ELSE k + 1]
    BY <1>1, Erase
<1>4. Count(erase(s, n), 1) = Cardinality(B)
    <2> DEFINE r == erase(s, n)
    <2> HIDE DEF r
    <2>1. r \in Seq({0, 1}) /\ Len(r) = L - 1
        BY <1>3 DEF r
    <2>2. Places(r, 1) = {i \in 1 .. L - 1 : r[i] = 1} /\ Count(r, 1) = Cardinality(Places(r, 1))
        BY <2>1, PlacesFinite
    <2>3. ASSUME NEW k \in 1 .. L - 1 PROVE r[k] = 1 <=> k \in B
        <3> DEFINE i == IF k < n THEN k ELSE k + 1
        <3>1. i \in 1 .. L /\ r[k] = s[i] /\ (k \in B <=> i \in A)
            BY <1>3 DEF r
        <3> HIDE DEF i
        <3> QED BY <1>1, <3>1
    <2>4. {i \in 1 .. L - 1 : r[i] = 1} = B
        BY <2>3
    <2> QED BY <2>2, <2>4 DEF r
<1>5. Count(erase(s, n), 1) = IF s[n] = 1 THEN Count(s, 1) - 1 ELSE Count(s, 1)
    BY <1>1, CountErase
<1>6. s[n] = 1 <=> n \in A
    BY <1>1
<1> QED BY <1>2, <1>4, <1>5, <1>6

(* One position more or less.                                              *)
LEMMA CardStep ==
    ASSUME NEW L \in Nat, NEW n \in 1 .. L, NEW A \in SUBSET (1 .. L), NEW B \in SUBSET (1 .. L)
    PROVE  /\ Cardinality(A) \in Nat
           /\ B \subseteq A => Cardinality(B) <= Cardinality(A)
           /\ B \subseteq A \cup {n} => Cardinality(B) <= Cardinality(A) + 1
<1>1. IsFiniteSet(1 .. L)
    BY FS_Interval
<1>2. IsFiniteSet(A) /\ IsFiniteSet(B)
    BY <1>1, FS_Subset
<1>3. Cardinality(A) \in Nat /\ Cardinality(B) \in Nat
    BY <1>2, FS_CardinalityType
<1>4. IsFiniteSet(A \cup {n}) /\ Cardinality(A \cup {n}) = IF n \in A THEN Cardinality(A) ELSE Cardinality(A) + 1
    BY <1>2, FS_AddElement
<1>5. Cardinality(A \cup {n}) <= Cardinality(A) + 1
    BY <1>3, <1>4
<1>6. ASSUME B \subseteq A PROVE Cardinality(B) <= Cardinality(A)
    BY <1>2, <1>6, FS_Subset
<1>7. ASSUME B \subseteq A \cup {n} PROVE Cardinality(B) <= Cardinality(A) + 1
    <2>1. Cardinality(B) <= Cardinality(A \cup {n})
        BY <1>4, <1>7, FS_Subset
    <2>2. Cardinality(A \cup {n}) \in Nat
        BY <1>4, FS_CardinalityType
    <2> QED BY <1>3, <1>5, <2>1, <2>2
<1> QED BY <1>3, <1>6, <1>7

(* Responses that wait and responses that will come.                       *)
LEMMA BoundSum ==
    ASSUME NEW d \in Nat, NEW e \in Nat, NEW C \in Nat, NEW D \in Nat, NEW U \in Nat,
           NEW TH \in Nat, NEW EX \in Nat
    PROVE  /\ e <= d /\ d + C < TH + EX => e + C < TH + EX
           /\ e = d /\ D <= C /\ d + C < TH + EX => e + D < TH + EX
           /\ d < TH /\ C <= U /\ U < EX /\ e = d + 1 /\ D <= C => e + D < TH + EX
           /\ d < TH /\ C <= U /\ U < EX /\ e = d /\ D <= C + 1 => e + D < TH + EX
    OBVIOUS

LEMMA BoundedTyped ==
    ASSUME QueueInv, RespInv
    PROVE  /\ transactionQueue \in Seq(EntryT) /\ Len(transactionQueue) \in Nat
           /\ \A i \in 1 .. Len(transactionQueue) : transactionQueue[i].issue_size \in Nat
           /\ BegunAt \in SUBSET (1 .. Len(transactionQueue))
           /\ AddsAt \in SUBSET (1 .. Len(transactionQueue))
           /\ Under \in Nat /\ Coming \in Nat /\ dresp_cnt \in Nat
           /\ DRESP_BP_TH \in Nat \ {0} /\ EXEC_NUMBER \in Nat \ {0} /\ BURSTS \in Nat \ {0}
<1>1. transactionQueue \in Seq(EntryT) /\ Len(transactionQueue) \in Nat
    BY LenProperties DEF QueueInv, Typed
<1>2. \A i \in 1 .. Len(transactionQueue) : transactionQueue[i].issue_size \in Nat
    <2>1. \A i \in 1 .. Len(transactionQueue) : transactionQueue[i] \in EntryT
        BY <1>1, ElementOfSeq
    <2> QED BY <2>1 DEF EntryT
<1>3. BegunAt \in SUBSET (1 .. Len(transactionQueue)) /\ AddsAt \in SUBSET (1 .. Len(transactionQueue))
    BY DEF BegunAt, AddsAt
<1>4. Under \in Nat /\ Coming \in Nat
    <2>1. IsFiniteSet(1 .. Len(transactionQueue))
        BY <1>1, FS_Interval
    <2>2. IsFiniteSet(BegunAt) /\ IsFiniteSet(AddsAt)
        BY <1>3, <2>1, FS_Subset
    <2> QED BY <2>2, FS_CardinalityType DEF Under, Coming
<1>5. dresp_cnt \in Nat
    BY LenProperties DEF RespInv, RespKept
<1> QED BY <1>1, <1>2, <1>3, <1>4, <1>5, QueueAssumption

LEMMA BoundedInit == Init => Bounded
<1> SUFFICES ASSUME Init PROVE Bounded
    OBVIOUS
<1>1. BegunAt = {} /\ AddsAt = {}
    BY DEF Init, BegunAt, AddsAt
<1>2. Under = 0 /\ Coming = 0
    BY <1>1, FS_EmptySet DEF Under, Coming
<1> QED BY <1>2, QueueAssumption DEF Init, Bounded

(* Steps that begin and end nothing.                                       *)
LEMMA BoundedSame ==
    ASSUME QueueInv, RespInv, Bounded, dresp_cnt' \in Nat, dresp_cnt' <= dresp_cnt,
           Len(transactionQueue) <= Len(transactionQueue'), Len(transactionQueue') \in Nat,
           \A i \in 1 .. Len(transactionQueue) :
               /\ transactionQueue'[i].task = transactionQueue[i].task
               /\ transactionQueue'[i].type = transactionQueue[i].type
               /\ transactionQueue'[i].issue_size = transactionQueue[i].issue_size,
           \A i \in 1 .. Len(transactionQueue') :
               \/ i \in 1 .. Len(transactionQueue)
               \/ transactionQueue'[i].issue_size = 0 /\ transactionQueue'[i].task \notin CmdQueue,
           CmdQueue' \subseteq CmdQueue,
           phase' \in {"que", "lc"} \/ phase \notin {"que", "lc"},
           (\E i \in 1 .. Len(transactionQueue) : Finished(i)) => phase' = "que"
    PROVE  Bounded'
<1> DEFINE q == transactionQueue
<1>0. /\ \A i \in 1 .. Len(q) : q[i].issue_size \in Nat
      /\ BURSTS \in Nat \ {0} /\ Under \in Nat /\ Coming \in Nat /\ dresp_cnt \in Nat
      /\ DRESP_BP_TH \in Nat /\ EXEC_NUMBER \in Nat /\ Len(q) \in Nat
    BY BoundedTyped
<1>1. BegunAt' = BegunAt
    <2>1. \A i \in 1 .. Len(q) : i \in 1 .. Len(q') /\ (Begun(q'[i]) <=> Begun(q[i]))
        BY <1>0 DEF Begun
    <2>2. \A i \in 1 .. Len(q') : Begun(q'[i]) => i \in 1 .. Len(q)
        BY <1>0 DEF Begun
    <2> QED BY <2>1, <2>2 DEF BegunAt
<1>2. AddsAt' = AddsAt
    <2>1. \A i \in 1 .. Len(q) : i \in 1 .. Len(q') /\ (Adds(q'[i]) <=> Adds(q[i]))
        BY <1>0 DEF Adds, Read
    <2>2. \A i \in 1 .. Len(q') : Adds(q'[i]) => i \in 1 .. Len(q)
        BY <1>0 DEF Adds
    <2> QED BY <2>1, <2>2 DEF AddsAt
<1>3. Under' = Under /\ Coming' = Coming
    BY <1>1, <1>2 DEF Under, Coming
<1>4. \A i \in 1 .. Len(q') : Finished(i)' => i \in 1 .. Len(q) /\ Finished(i)
    BY <1>0 DEF Finished
<1>5. \A i, j \in 1 .. Len(q') : Finished(i)' => phase' = "que" /\ (Finished(j)' => i = j)
    BY <1>4 DEF Bounded
<1>6. dresp_cnt' + Coming' < DRESP_BP_TH + EXEC_NUMBER
    <2>1. dresp_cnt + Coming < DRESP_BP_TH + EXEC_NUMBER
        BY DEF Bounded
    <2>2. dresp_cnt' \in Nat /\ dresp_cnt' <= dresp_cnt
        OBVIOUS
    <2>3. dresp_cnt' + Coming < DRESP_BP_TH + EXEC_NUMBER
        BY <1>0, <2>1, <2>2, BoundSum
    <2> QED BY <1>3, <2>3
<1>7. phase' \notin {"que", "lc"} =>
         \A i \in 1 .. Len(q') : q'[i].task \in CmdQueue' /\ q'[i].issue_size = 0
            => Under' < EXEC_NUMBER /\ dresp_cnt' < DRESP_BP_TH
    <2> SUFFICES ASSUME phase' \notin {"que", "lc"}, NEW i \in 1 .. Len(q'),
                        q'[i].task \in CmdQueue', q'[i].issue_size = 0
                 PROVE  Under' < EXEC_NUMBER /\ dresp_cnt' < DRESP_BP_TH
        OBVIOUS
    <2>1. i \in 1 .. Len(q) /\ q[i].task \in CmdQueue /\ q[i].issue_size = 0
        OBVIOUS
    <2>2. Under < EXEC_NUMBER /\ dresp_cnt < DRESP_BP_TH
        BY <2>1 DEF Bounded
    <2> QED BY <1>0, <1>3, <2>2
<1>8. Under' <= EXEC_NUMBER
    BY <1>3 DEF Bounded
<1> QED BY <1>5, <1>6, <1>7, <1>8 DEF Bounded

(* A column command goes; que_pipeline has checked the bounds.             *)
LEMMA BoundedSchedule ==
    ASSUME QueueInv, RespInv, Bounded, NEW n \in 1 .. Len(transactionQueue), Schedule(n)
    PROVE  Bounded'
<1> DEFINE q == transactionQueue
<1>0. /\ \A i \in 1 .. Len(q) : q[i].issue_size \in Nat
      /\ BegunAt \in SUBSET (1 .. Len(q)) /\ AddsAt \in SUBSET (1 .. Len(q))
      /\ BURSTS \in Nat \ {0} /\ Under \in Nat /\ Coming \in Nat /\ dresp_cnt \in Nat
      /\ DRESP_BP_TH \in Nat \ {0} /\ EXEC_NUMBER \in Nat \ {0} /\ Len(q) \in Nat
    BY BoundedTyped
<1>1. /\ Len(q') = Len(q) /\ q[n].issue_size < BURSTS
      /\ \A i \in 1 .. Len(q) :
            /\ q'[i].task = q[i].task /\ q'[i].type = q[i].type
            /\ q'[i].issue_size = IF i = n THEN q[i].issue_size + 1 ELSE q[i].issue_size
    BY ScheduleShape
<1>2. phase = "sched" /\ phase' = "que" /\ q[n].task \in CmdQueue /\ CmdQueue' = {}
    BY DEF Schedule, At, Then
<1>3. \A i \in 1 .. Len(q) : ~Finished(i) /\ q[i].issue_size < BURSTS
    <2>1. \A i \in 1 .. Len(q) : ~Finished(i)
        BY <1>2 DEF Bounded
    <2> QED BY <1>0, <2>1 DEF Finished
<1>4. \A i, j \in 1 .. Len(q') : Finished(i)' => phase' = "que" /\ (Finished(j)' => i = j)
    <2>1. \A i \in 1 .. Len(q) : Finished(i)' => i = n
        BY <1>0, <1>1, <1>3 DEF Finished
    <2> QED BY <1>1, <1>2, <2>1
<1>5. AddsAt \subseteq BegunAt
    <2>1. \A i \in 1 .. Len(q) : Adds(q[i]) => Begun(q[i])
        BY <1>0, <1>3 DEF Adds, Begun
    <2> QED BY <2>1 DEF AddsAt, BegunAt
<1>6. Coming <= Under
    BY <1>0, <1>5, CardStep DEF Under, Coming
<1>7. BegunAt' \in SUBSET (1 .. Len(q)) /\ AddsAt' \in SUBSET (1 .. Len(q))
    BY <1>1 DEF BegunAt, AddsAt
<1>8. CASE q[n].issue_size = 0
    <2>1. Under < EXEC_NUMBER /\ dresp_cnt < DRESP_BP_TH
        BY <1>2, <1>8 DEF Bounded
    <2>2. BegunAt' \subseteq BegunAt \cup {n} /\ AddsAt' \subseteq AddsAt \cup {n}
        <3>1. \A i \in 1 .. Len(q) : i # n => (Begun(q'[i]) <=> Begun(q[i])) /\ (Adds(q'[i]) <=> Adds(q[i]))
            BY <1>0, <1>1 DEF Begun, Adds, Read
        <3> QED BY <1>1, <3>1 DEF BegunAt, AddsAt
    <2>3. Under' <= Under + 1 /\ Coming' <= Coming + 1 /\ Under' \in Nat /\ Coming' \in Nat
        BY <1>0, <1>7, <2>2, CardStep DEF Under, Coming
    <2>4. CASE RDATA_TYPE = 0 /\ Read(q[n])
        <3>1. dresp_cnt' = dresp_cnt + 1
            BY <1>8, <2>4 DEF Schedule
        <3>2. ~(n \in AddsAt')
            <4>1. ~Adds(q'[n])
                BY <1>1, <2>4 DEF Adds, Read
            <4> QED BY <4>1 DEF AddsAt
        <3>3. Coming' <= Coming
            <4>1. AddsAt' \subseteq AddsAt
                BY <2>2, <3>2
            <4> QED BY <1>0, <1>7, <4>1, CardStep DEF Coming
        <3>4. dresp_cnt' + Coming' < DRESP_BP_TH + EXEC_NUMBER
            <4>1. dresp_cnt' \in Nat
                BY <1>0, <3>1
            <4> QED BY <1>0, <1>6, <2>1, <2>3, <3>1, <3>3, <4>1, BoundSum
        <3>5. Under' <= EXEC_NUMBER
            BY <1>0, <2>1, <2>3
        <3> QED BY <1>2, <1>4, <3>4, <3>5 DEF Bounded
    <2>5. CASE ~(RDATA_TYPE = 0 /\ Read(q[n]))
        <3>1. dresp_cnt' = dresp_cnt
            BY <2>5 DEF Schedule
        <3>2. dresp_cnt' + Coming' < DRESP_BP_TH + EXEC_NUMBER
            BY <1>0, <1>6, <2>1, <2>3, <3>1, BoundSum
        <3>3. Under' <= EXEC_NUMBER
            BY <1>0, <2>1, <2>3
        <3> QED BY <1>2, <1>4, <3>2, <3>3 DEF Bounded
    <2> QED BY <2>4, <2>5
<1>9. CASE q[n].issue_size # 0
    <2>1. dresp_cnt' = dresp_cnt
        BY <1>9 DEF Schedule
    <2>2. BegunAt' \subseteq BegunAt /\ AddsAt' \subseteq AddsAt
        <3>1. \A i \in 1 .. Len(q) : (Begun(q'[i]) => Begun(q[i])) /\ (Adds(q'[i]) => Adds(q[i]))
            BY <1>0, <1>1, <1>9 DEF Begun, Adds, Read
        <3> QED BY <1>1, <3>1 DEF BegunAt, AddsAt
    <2>3. Under' <= Under /\ Coming' <= Coming /\ Under' \in Nat /\ Coming' \in Nat
        BY <1>0, <1>7, <2>2, CardStep DEF Under, Coming
    <2>4. Under <= EXEC_NUMBER /\ dresp_cnt + Coming < DRESP_BP_TH + EXEC_NUMBER
        BY DEF Bounded
    <2>5. dresp_cnt' + Coming' < DRESP_BP_TH + EXEC_NUMBER
        BY <1>0, <2>1, <2>3, <2>4, BoundSum
    <2>6. Under' <= EXEC_NUMBER
        BY <1>0, <2>3, <2>4
    <2> QED BY <1>2, <1>4, <2>5, <2>6 DEF Bounded
<1> QED BY <1>8, <1>9

(* What leaves has its response now instead of later.                      *)
LEMMA BoundedRetire ==
    ASSUME QueueInv, RespInv, Bounded, NEW n \in 1 .. Len(transactionQueue), Retire(n)
    PROVE  Bounded'
<1> DEFINE q == transactionQueue
           old(k) == IF k < n THEN k ELSE k + 1
<1>0. /\ \A i \in 1 .. Len(q) : q[i].issue_size \in Nat
      /\ BegunAt \in SUBSET (1 .. Len(q)) /\ AddsAt \in SUBSET (1 .. Len(q))
      /\ BURSTS \in Nat \ {0} /\ Under \in Nat /\ Coming \in Nat /\ dresp_cnt \in Nat
      /\ DRESP_BP_TH \in Nat \ {0} /\ EXEC_NUMBER \in Nat \ {0} /\ Len(q) \in Nat
    BY BoundedTyped
<1>1. /\ Len(q') = Len(q) - 1
      /\ \A k \in 1 .. Len(q) - 1 :
            /\ old(k) \in 1 .. Len(q) /\ old(k) # n
            /\ q'[k].type = q[old(k)].type /\ q'[k].issue_size = q[old(k)].issue_size
    <2>1. /\ Len(q') = Len(q) - 1
          /\ \A k \in 1 .. Len(q) - 1 : \E i \in 1 .. Len(q) :
                /\ i = (IF k < n THEN k ELSE k + 1)
                /\ q'[k].type = q[i].type /\ q'[k].issue_size = q[i].issue_size
        BY RetireShape
    <2>2. \A k \in 1 .. Len(q) - 1 : old(k) # n
        OBVIOUS
    <2> QED BY <2>1, <2>2
<1>2. phase = "que" /\ phase' = "lc" /\ Finished(n)
    BY DEF Retire, At, Then
<1>3. \A k \in 1 .. Len(q') : ~Finished(k)'
    <2>1. \A i \in 1 .. Len(q) : Finished(i) => i = n
        BY <1>2 DEF Bounded
    <2>2. \A k \in 1 .. Len(q') : Finished(k)' <=> Finished(old(k))
        BY <1>1 DEF Finished
    <2> QED BY <1>1, <2>1, <2>2
<1>4. Under' = Under
    <2>1. n \notin BegunAt
        <3>1. ~Begun(q[n])
            BY <1>0, <1>2 DEF Begun, Finished
        <3> QED BY <3>1 DEF BegunAt
    <2>2. BegunAt' \in SUBSET (1 .. Len(q) - 1)
        BY <1>1 DEF BegunAt
    <2>3. \A k \in 1 .. Len(q) - 1 : k \in BegunAt' <=> old(k) \in BegunAt
        BY <1>1 DEF BegunAt, Begun
    <2>10. PICK L \in Nat : L = Len(q)
        BY <1>0
    <2>4. PICK A \in SUBSET (1 .. L), B \in SUBSET (1 .. L - 1) : A = BegunAt /\ B = BegunAt'
        BY <1>0, <2>2, <2>10
    <2>5. n \in 1 .. L /\ \A k \in 1 .. L - 1 : k \in B <=> (IF k < n THEN k ELSE k + 1) \in A
        BY <2>3, <2>4, <2>10
    <2>6. Cardinality(B) = IF n \in A THEN Cardinality(A) - 1 ELSE Cardinality(A)
        BY <2>5, CardErase
    <2> QED BY <2>1, <2>4, <2>6 DEF Under
<1>5. Coming' = IF Adds(q[n]) THEN Coming - 1 ELSE Coming
    <2>1. n \in AddsAt <=> Adds(q[n])
        BY DEF AddsAt
    <2>2. AddsAt' \in SUBSET (1 .. Len(q) - 1)
        BY <1>1 DEF AddsAt
    <2>3. \A k \in 1 .. Len(q) - 1 : k \in AddsAt' <=> old(k) \in AddsAt
        BY <1>1 DEF AddsAt, Adds, Read
    <2>10. PICK L \in Nat : L = Len(q)
        BY <1>0
    <2>4. PICK A \in SUBSET (1 .. L), B \in SUBSET (1 .. L - 1) : A = AddsAt /\ B = AddsAt'
        BY <1>0, <2>2, <2>10
    <2>5. n \in 1 .. L /\ \A k \in 1 .. L - 1 : k \in B <=> (IF k < n THEN k ELSE k + 1) \in A
        BY <2>3, <2>4, <2>10
    <2>6. Cardinality(B) = IF n \in A THEN Cardinality(A) - 1 ELSE Cardinality(A)
        BY <2>5, CardErase
    <2> QED BY <2>1, <2>4, <2>6 DEF Coming
<1>6. dresp_cnt' = IF Adds(q[n]) THEN dresp_cnt + 1 ELSE dresp_cnt
    <2>1. q[n].issue_size > 0
        BY <1>0, <1>2 DEF Finished
    <2> QED BY <2>1 DEF Retire, Adds
<1>7. Under <= EXEC_NUMBER /\ dresp_cnt + Coming < DRESP_BP_TH + EXEC_NUMBER
    BY DEF Bounded
<1>8. dresp_cnt' + Coming' < DRESP_BP_TH + EXEC_NUMBER
    BY <1>0, <1>5, <1>6, <1>7
<1> QED BY <1>2, <1>3, <1>4, <1>7, <1>8 DEF Bounded

LEMMA UnderIsCount == QueueInv => rw_exec_cnt = Under
<1> SUFFICES ASSUME QueueInv PROVE rw_exec_cnt = Under
    OBVIOUS
<1>1. DOMAIN transactionQueue = 1 .. Len(transactionQueue)
    BY DEF QueueInv, Typed
<1> QED BY <1>1 DEF rw_exec_cnt, Under, BegunAt

(* que_pipeline checks the bounds.                                         *)
LEMMA BoundedPipeline == QueueInv /\ RespInv /\ Bounded /\ QuePipeline => Bounded'
<1> SUFFICES ASSUME QueueInv, RespInv, Bounded, QuePipeline PROVE Bounded'
    OBVIOUS
<1> DEFINE q == transactionQueue
<1>1. q' = q /\ dresp_cnt' = dresp_cnt /\ phase = "lc" /\ phase' = "pipe"
    BY DEF QuePipeline, respVars, At, Then
<1>2. BegunAt' = BegunAt /\ AddsAt' = AddsAt
    BY <1>1 DEF BegunAt, AddsAt
<1>3. Under' = Under /\ Coming' = Coming
    BY <1>2 DEF Under, Coming
<1>4. \A i \in 1 .. Len(q) : ~Finished(i)
    BY <1>1 DEF Bounded
<1>5. \A i \in 1 .. Len(q') : ~Finished(i)'
    BY <1>1, <1>4 DEF Finished
<1>6. ASSUME NEW i \in 1 .. Len(q), q[i].task \in CmdQueue', q[i].issue_size = 0
      PROVE  Under < EXEC_NUMBER /\ dresp_cnt < DRESP_BP_TH
    <2>1. DOMAIN q = 1 .. Len(q)
        BY DEF QueueInv, Typed
    <2>2. PICK j \in 1 .. Len(q) : lc(q[j]) /\ q[j].task = q[i].task
        BY <1>6, <2>1 DEF QuePipeline
    <2>3. i = j
        BY <2>2 DEF QueueInv, Apart, Distinct
    <2> QED BY <1>6, <2>2, <2>3, UnderIsCount DEF lc
<1>7. Under <= EXEC_NUMBER /\ dresp_cnt + Coming < DRESP_BP_TH + EXEC_NUMBER
    BY DEF Bounded
<1> QED BY <1>1, <1>3, <1>5, <1>6, <1>7 DEF Bounded
-----------------------------------------------------------------------------
(* What comes into the queue has not begun.                                *)
LEMMA BoundedAdd ==
    ASSUME QueueInv, RespInv, Bounded, NEW c \in Commands, addTransaction(c),
           \A i \in 1 .. Len(transactionQueue) : transactionQueue[i].task # c.task,
           dresp_cnt' = dresp_cnt, CmdQueue' = CmdQueue,
           phase \notin {"que", "lc"}, phase' \notin {"que", "lc"}
    PROVE  Bounded'
<1> DEFINE q == transactionQueue
<1>1. /\ Len(q') = Len(q) + 1 /\ Len(q) \in Nat
      /\ \A i \in 1 .. Len(q) : q'[i] = q[i]
      /\ q'[Len(q) + 1].task = c.task /\ q'[Len(q) + 1].issue_size = 0
    BY AddShape
<1>2. c.task \notin CmdQueue
    BY DEF QueueInv, ReadyFree
<1>3. \A i \in 1 .. Len(q') : i \in 1 .. Len(q) \/ i = Len(q) + 1
    BY <1>1
<1>4. \A i \in 1 .. Len(q') : \/ i \in 1 .. Len(q)
                              \/ q'[i].issue_size = 0 /\ q'[i].task \notin CmdQueue
    BY <1>1, <1>2, <1>3
<1>5. dresp_cnt \in Nat /\ dresp_cnt <= dresp_cnt
    BY BoundedTyped
<1>6. ~ \E i \in 1 .. Len(q) : Finished(i)
    BY DEF Bounded
<1>7. Len(q) <= Len(q') /\ Len(q') \in Nat
    BY <1>1
<1>8. \A i \in 1 .. Len(q) : /\ q'[i].task = q[i].task
                             /\ q'[i].type = q[i].type
                             /\ q'[i].issue_size = q[i].issue_size
    BY <1>1
<1>9. dresp_cnt' \in Nat /\ dresp_cnt' <= dresp_cnt /\ CmdQueue' \subseteq CmdQueue
    BY <1>5
<1>10. \A i \in 1 .. Len(q') : \/ i \in 1 .. Len(q)
                               \/ q'[i].issue_size = 0 /\ q'[i].task \notin CmdQueue
    BY <1>4
<1>11. (\E i \in 1 .. Len(q) : Finished(i)) => phase' = "que"
    BY <1>6
<1>12. phase' \in {"que", "lc"} \/ phase \notin {"que", "lc"}
    OBVIOUS
<1> QED BY <1>7, <1>8, <1>9, <1>10, <1>11, <1>12, BoundedSame

LEMMA BoundedRest ==
    ASSUME QueueInv, RespInv, Bounded, dresp_cnt' \in Nat, dresp_cnt' <= dresp_cnt,
           Len(transactionQueue') = Len(transactionQueue),
           \A i \in 1 .. Len(transactionQueue) :
               /\ transactionQueue'[i].task = transactionQueue[i].task
               /\ transactionQueue'[i].type = transactionQueue[i].type
               /\ transactionQueue'[i].issue_size = transactionQueue[i].issue_size,
           CmdQueue' \subseteq CmdQueue,
           phase' = phase \/ phase' \in {"que", "lc"} \/ phase \notin {"que", "lc"},
           phase = "que" => phase' = "que" \/ \A i \in 1 .. Len(transactionQueue) : ~Finished(i)
    PROVE  Bounded'
<1>1. Len(transactionQueue) <= Len(transactionQueue') /\ Len(transactionQueue') \in Nat
    BY BoundedTyped
<1>2. (\E i \in 1 .. Len(transactionQueue) : Finished(i)) => phase' = "que"
    BY DEF Bounded
<1>3. phase' \in {"que", "lc"} \/ phase \notin {"que", "lc"}
    OBVIOUS
<1>4. \A i \in 1 .. Len(transactionQueue') :
          \/ i \in 1 .. Len(transactionQueue)
          \/ transactionQueue'[i].issue_size = 0 /\ transactionQueue'[i].task \notin CmdQueue
    OBVIOUS
<1>5. \A i \in 1 .. Len(transactionQueue) :
          /\ transactionQueue'[i].task = transactionQueue[i].task
          /\ transactionQueue'[i].type = transactionQueue[i].type
          /\ transactionQueue'[i].issue_size = transactionQueue[i].issue_size
    OBVIOUS
<1> QED BY <1>5, <1>1, <1>2, <1>3, <1>4, BoundedSame

LEMMA BoundedAccepted == QueueInv /\ RespInv /\ Bounded /\ Accepted => Bounded'
<1> SUFFICES ASSUME QueueInv, RespInv, Bounded, Accepted PROVE Bounded'
    OBVIOUS
<1>1. PICK c \in Commands : c = Offered[1] /\ c.task \in OfferedTasks
    BY Taken DEF Accepted
<1>2. \A i \in 1 .. Len(transactionQueue) : transactionQueue[i].task # c.task
    BY <1>1 DEF QueueInv, Apart
<1>3. dresp_cnt' = dresp_cnt /\ CmdQueue' = CmdQueue /\ phase = "send" /\ phase' = "data"
    BY DEF Accepted, respVars, At, Then
<1>4. addTransaction(c) \/ transactionQueue' = transactionQueue
    BY <1>1 DEF Accepted
<1>5. dresp_cnt \in Nat /\ dresp_cnt <= dresp_cnt
    BY BoundedTyped
<1> QED BY <1>2, <1>3, <1>4, <1>5, BoundedAdd, BoundedRest

LEMMA BoundedPipe == QueueInv /\ RespInv /\ Bounded /\ PipeDelivers => Bounded'
<1> SUFFICES ASSUME QueueInv, RespInv, Bounded, PipeDelivers PROVE Bounded'
    OBVIOUS
<1> DEFINE p == PreDmcPipeQueue
<1>1. p \in Seq(Commands) /\ p # <<>> /\ addTransaction(Head(p))
    BY DEF QueueInv, Typed, PipeDelivers
<1>2. Head(p) = p[1] /\ Head(p) \in Commands /\ 1 \in 1 .. Len(p)
    BY <1>1
<1>3. \A i \in 1 .. Len(transactionQueue) : transactionQueue[i].task # Head(p).task
    BY <1>2 DEF QueueInv, Apart
<1>4. dresp_cnt' = dresp_cnt /\ CmdQueue' = CmdQueue /\ phase = "pipe" /\ phase' = "new"
    BY DEF PipeDelivers, respVars, At, Then
<1> QED BY <1>1, <1>2, <1>3, <1>4, BoundedAdd

LEMMA BoundedArrive == QueueInv /\ RespInv /\ Bounded /\ UpdateWdata => Bounded'
<1> SUFFICES ASSUME QueueInv, RespInv, Bounded, UpdateWdata PROVE Bounded'
    OBVIOUS
<1> DEFINE q == transactionQueue
<1>1. /\ Len(q') = Len(q)
      /\ \A j \in 1 .. Len(q) :
            /\ q'[j].task = q[j].task /\ q'[j].type = q[j].type
            /\ q'[j].issue_size = q[j].issue_size
    BY ArriveShape
<1>2. dresp_cnt' = dresp_cnt /\ CmdQueue' = CmdQueue /\ phase = "wdata" /\ phase' = "resp"
    BY DEF UpdateWdata, respVars, At, Then
<1>3. dresp_cnt \in Nat /\ dresp_cnt <= dresp_cnt
    BY BoundedTyped
<1> QED BY <1>1, <1>2, <1>3, BoundedRest

LEMMA BoundedRespond ==
    ASSUME QueueInv, RespInv, RespInv', Bounded, NEW wr \in BOOLEAN, NEW rr \in BOOLEAN, Respond(wr, rr)
    PROVE  Bounded'
<1>1. /\ transactionQueue' = transactionQueue /\ CmdQueue' = CmdQueue
      /\ phase = "resp" /\ phase' = "sched"
      /\ dresp_cnt' = dresp_cnt - (IF wr THEN 1 ELSE 0) - (IF rr THEN 1 ELSE 0)
    BY DEF Respond, At, Then
<1>2. dresp_cnt \in Nat /\ dresp_cnt' \in Nat
    BY LenProperties DEF RespInv, RespKept
<1>3. dresp_cnt' <= dresp_cnt
    BY <1>1, <1>2
<1> QED BY <1>1, <1>2, <1>3, BoundedRest

LEMMA NextBound ==
    ASSUME QueueInv, [Next]_vars
    PROVE  \/ Accepted \/ PipeDelivers \/ UpdateWdata \/ QuePipeline
           \/ \E wr, rr \in BOOLEAN : Respond(wr, rr)
           \/ \E i \in 1 .. Len(transactionQueue) : Schedule(i)
           \/ \E n \in 1 .. Len(transactionQueue) : Retire(n)
           \/ /\ dresp_cnt' = dresp_cnt /\ transactionQueue' = transactionQueue /\ CmdQueue' = CmdQueue
              /\ phase' = phase \/ phase' \in {"que", "lc"} \/ phase \notin {"que", "lc"}
              /\ phase = "que" => phase' = "que" \/ \A i \in 1 .. Len(transactionQueue) : ~Finished(i)
<1>1. DOMAIN transactionQueue = 1 .. Len(transactionQueue)
    BY DEF QueueInv, Typed
<1> USE DEF At, Then, respVars
<1>2. CASE NewCommand \/ NoNewCommand
    BY <1>2 DEF NewCommand, NoNewCommand
<1>3. CASE SendNothing \/ Refused
    BY <1>3 DEF SendNothing, Refused
<1>4. CASE SubmitData \/ NoDataSent \/ NoDataArrives
    BY <1>4 DEF SubmitData, NoDataSent, NoDataArrives
<1>5. CASE ScheduleNone \/ PipeWaits
    BY <1>5 DEF ScheduleNone, PipeWaits
<1>6. CASE RetireNone
    BY <1>1, <1>6 DEF RetireNone
<1>7. CASE UNCHANGED vars
    BY <1>7 DEF vars
<1> QED BY <1>1, <1>2, <1>3, <1>4, <1>5, <1>6, <1>7 DEF Next, ScheduleSome

(* Back pressure and the limit of begun transactions hold, although both   *)
(* are checked a cycle before the command is chosen.                       *)
THEOREM DrespBoundedHolds == Spec => []DrespBounded
<1>1. QueueInv /\ RespInv /\ RespInv' /\ Bounded /\ [Next]_vars => Bounded'
    <2> SUFFICES ASSUME QueueInv, RespInv, RespInv', Bounded, [Next]_vars PROVE Bounded'
        OBVIOUS
    <2>1. dresp_cnt \in Nat /\ dresp_cnt <= dresp_cnt
        BY BoundedTyped
    <2>2. CASE /\ dresp_cnt' = dresp_cnt /\ transactionQueue' = transactionQueue /\ CmdQueue' = CmdQueue
               /\ phase' = phase \/ phase' \in {"que", "lc"} \/ phase \notin {"que", "lc"}
               /\ phase = "que" => phase' = "que" \/ \A i \in 1 .. Len(transactionQueue) : ~Finished(i)
        BY <2>1, <2>2, BoundedRest
    <2> QED BY <2>2, NextBound, BoundedAccepted, BoundedPipe, BoundedArrive, BoundedPipeline,
               BoundedRespond, BoundedSchedule, BoundedRetire
<1>2. QueueInv /\ RespInv /\ Bounded => DrespBounded
    <2> SUFFICES ASSUME QueueInv, RespInv, Bounded PROVE DrespBounded
        OBVIOUS
    <2>1. /\ Under <= EXEC_NUMBER /\ dresp_cnt + Coming < DRESP_BP_TH + EXEC_NUMBER
          /\ dresp_cnt \in Nat /\ Coming \in Nat /\ DRESP_BP_TH \in Nat /\ EXEC_NUMBER \in Nat
        BY BoundedTyped DEF Bounded
    <2>2. dresp_cnt < DRESP_BP_TH + EXEC_NUMBER
        BY <2>1
    <2> QED BY <2>1, <2>2, UnderIsCount DEF DrespBounded, RespInv, RespKept
<1> QED BY <1>1, <1>2, BoundedInit, RespInvHolds, WaitingSound, PTL DEF Spec
=============================================================================
