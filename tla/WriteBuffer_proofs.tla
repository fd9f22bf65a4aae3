------------------------- MODULE WriteBuffer_proofs -------------------------
(***************************************************************************)
(* For any requests, priorities, buffers, times and levels: of two         *)
(* commands of one address, the first a write, the first is sent first,    *)
(* but for writes that have come with more urgency (AddressOrderHolds);    *)
(* the data that are sent are those the controller expects                 *)
(* (NoOrderErrorHolds); and the buffers and the counters of the state      *)
(* machine keep within what they count, wr_timeout_cnt missing no write    *)
(* (CountersSoundHolds).                                                   *)
(***************************************************************************)
EXTENDS WriteBuffer, FiniteSetTheorems, FunctionTheorems, WellFoundedInduction, TLAPS

-----------------------------------------------------------------------------
(* What the buffers hold.                                                  *)
WriteRec == [task : Nat, addr : Nat \X {0, 1}, qos : Nat, pri : Nat, wait : Nat, timeout : BOOLEAN,
             ready : BOOLEAN, wide : BOOLEAN]
ReadRec  == [task : Nat, addr : Nat \X {0, 1}, pri : Nat, wait : Nat, timeout : BOOLEAN,
             active : BOOLEAN, gbuf : Nat, dmc : Nat]

(* What the assumption says of the numbers.                                *)
LEMMA Constants ==
  /\ BEATS \in Nat /\ RARB \in Nat /\ WARB \in Nat /\ GBUF_RCMD_TIMEOUT \in Nat
  /\ \A a \in Asks : a \in Ask
  BY WriteBufferAssumption DEF WriteBufferAssumption

-----------------------------------------------------------------------------
(* Numbers and sequences.                                                  *)

(* The smaller of two numbers.                                             *)
LEMMA MinOfTwo ==
  ASSUME NEW a \in Nat, NEW b \in Nat
  PROVE  Min({a, b}) = IF a <= b THEN a ELSE b
<1> DEFINE m == IF a <= b THEN a ELSE b
<1>1. m \in {a, b} /\ \A y \in {a, b} : m <= y
  OBVIOUS
<1>2. \A x \in {a, b} : (\A y \in {a, b} : x <= y) => x = m
  OBVIOUS
<1> HIDE DEF m
<1>3. Min({a, b}) = m
  BY <1>1, <1>2 DEF Min
<1> QED
  BY <1>3 DEF m

(* The larger of two numbers.                                              *)
LEMMA MaxOfTwo ==
  ASSUME NEW a \in Nat, NEW b \in Nat
  PROVE  Max({a, b}) = IF a >= b THEN a ELSE b
<1> DEFINE m == IF a >= b THEN a ELSE b
<1>1. m \in {a, b} /\ \A y \in {a, b} : m >= y
  OBVIOUS
<1>2. \A x \in {a, b} : (\A y \in {a, b} : x >= y) => x = m
  OBVIOUS
<1> HIDE DEF m
<1>3. Max({a, b}) = m
  BY <1>1, <1>2 DEF Max
<1> QED
  BY <1>3 DEF m

(* The largest of three numbers is a number.                               *)
LEMMA MaxOfThree ==
  ASSUME NEW a \in Nat, NEW b \in Nat, NEW c \in Nat
  PROVE  Max({a, b, c}) \in Nat
<1>1. \E x \in {a, b, c} : \A y \in {a, b, c} : x >= y
  <2>1. CASE a >= b /\ a >= c
    BY <2>1
  <2>2. CASE b >= a /\ b >= c
    BY <2>2
  <2>3. CASE c >= a /\ c >= b
    BY <2>3
  <2> QED
    BY <2>1, <2>2, <2>3
<1>2. Max({a, b, c}) \in {a, b, c}
  BY <1>1 DEF Max
<1> QED
  BY <1>2

(* A set of numbers that is not empty has a least one.                     *)
LEMMA LeastOne ==
  ASSUME NEW S \in SUBSET Nat, S # {}
  PROVE  Min(S) \in S /\ \A j \in S : Min(S) <= j
<1> DEFINE R == OpToRel(<, Nat)
<1>1. \A x, y \in Nat : x < y => <<x, y>> \in R
  BY DEF OpToRel
<1>2. IsWellFoundedOn(R, Nat)
  BY NatLessThanWellFounded
<1> HIDE DEF R
<1>3. PICK k \in S : \A y \in S : ~(<<y, k>> \in R)
  BY <1>2, WFMin
<1>4. ASSUME NEW j \in S PROVE k <= j
  <2>1. ~(j < k)
    BY <1>1, <1>3
  <2> QED
    BY <2>1
<1> QED
  BY <1>3, <1>4 DEF Min

(* What a sequence of writes and one of reads consist of.                  *)
LEMMA At ==
  ASSUME NEW S, NEW s \in Seq(S), NEW i \in 1..Len(s)
  PROVE  s[i] \in S
  OBVIOUS

(* RemoveAt keeps the order of what stays.                                 *)
LEMMA Removed ==
  ASSUME NEW S, NEW s \in Seq(S), NEW n \in 1..Len(s)
  PROVE  /\ RemoveAt(s, n) \in Seq(S)
         /\ Len(RemoveAt(s, n)) = Len(s) - 1
         /\ \A k \in 1..(Len(s) - 1) : RemoveAt(s, n)[k] = s[IF k < n THEN k ELSE k + 1]
<1> DEFINE f == [k \in 1..(Len(s) - 1) |-> s[IF k < n THEN k ELSE k + 1]]
           a == SubSeq(s, 1, n - 1)
           b == SubSeq(s, n + 1, Len(s))
<1>1. a \in Seq(S) /\ Len(a) = n - 1 /\ \A k \in 1..(n - 1) : a[k] = s[k]
  OBVIOUS
<1>2. b \in Seq(S) /\ Len(b) = Len(s) - n /\ \A k \in 1..(Len(s) - n) : b[k] = s[k + n]
  OBVIOUS
<1> HIDE DEF a, b
<1>3. /\ a \o b \in Seq(S) /\ Len(a \o b) = Len(s) - 1
      /\ \A k \in 1..(Len(s) - 1) : (a \o b)[k] = IF k < n THEN a[k] ELSE b[k - (n - 1)]
  BY <1>1, <1>2
<1>4. \A k \in 1..(Len(s) - 1) : (a \o b)[k] = s[IF k < n THEN k ELSE k + 1]
  <2> SUFFICES ASSUME NEW k \in 1..(Len(s) - 1)
               PROVE (a \o b)[k] = s[IF k < n THEN k ELSE k + 1]
    OBVIOUS
  <2>1. CASE k < n
    BY <1>1, <1>3, <2>1
  <2>2. CASE ~(k < n)
    <3>1. k - (n - 1) \in 1..(Len(s) - n) /\ k - (n - 1) + n = k + 1
      BY <2>2
    <3> QED
      BY <1>2, <1>3, <2>2, <3>1
  <2> QED
    BY <2>1, <2>2
<1>5. RemoveAt(s, n) = a \o b
  BY DEF RemoveAt, a, b
<1> QED
  BY <1>3, <1>4, <1>5

-----------------------------------------------------------------------------
(***************************************************************************)
(* The invariants.  Base: the writes are in the order in which they came,  *)
(* and a read knows how many came before it, less those that have come     *)
(* after it and have overtaken (Counted).  Order, where no write is        *)
(* refused: of the writes of one address the first is the most urgent, so  *)
(* that it is chosen first, unless a later one has come with more urgency  *)
(* (Ranked); so no other has left before it (Left).                        *)
(***************************************************************************)
Lined(W) == \A i, j \in 1..Len(W) : i < j => W[i].task < W[j].task
Ranked(W) ==
  \A i, j \in 1..Len(W) : i < j =>
    /\ W[j].ready => W[i].ready
    /\ W[i].addr = W[j].addr =>
         /\ W[i].wait >= W[j].wait
         /\ ~MoreUrgent(W[j], W[i]) => /\ W[i].pri <= W[j].pri
                                       /\ W[j].timeout => W[i].timeout
Low(W) == \A i \in 1..Len(W) : W[i].pri <= Urgency(W[i])
Complete(W) == config.front = "rmw" => \A i \in 1..Len(W) : W[i].ready
Sorted(W) == Ranked(W) /\ Low(W) /\ Complete(W)

Earlier(W, a, t) == {W[i].task : i \in {j \in 1..Len(W) : W[j].addr = a /\ W[j].task < t}}
Overtaking(L, a, t) == {c \in L : c.type = "WRITE" /\ c.addr = a /\ t < c.task}
Rest(e, o) == IF e <= o THEN 0 ELSE e - o
Waits(W, L, a, t) == Rest(Cardinality(Earlier(W, a, t)), Cardinality(Overtaking(L, a, t)))
Counted == \A r \in 1..Len(Rbuff) :
               Rbuff[r].gbuf = Waits(Wbuff, left, Rbuff[r].addr, Rbuff[r].task)

Typed == /\ Wbuff \in Seq(WriteRec) /\ Rbuff \in Seq(ReadRec)
         /\ next \in Nat /\ IsFiniteSet(queue) /\ IsFiniteSet(left)
Past  == /\ \A i \in 1..Len(Wbuff) : Wbuff[i].task < next
         /\ \A r \in 1..Len(Rbuff) : Rbuff[r].task < next
         /\ \A c \in left : c.task \in Nat /\ c.task < next
Apart == /\ \A i \in 1..Len(Wbuff), r \in 1..Len(Rbuff) : Wbuff[i].task # Rbuff[r].task
         /\ \A i \in 1..Len(Wbuff), c \in left : c.task # Wbuff[i].task

(* c may have left before w: it came first, or has more urgency, or such a *)
(* write has come after c.                                                 *)
Passes(c, w, L) ==
  \/ c.task < w.task
  \/ c.type = "WRITE" /\ MoreUrgent(c, w)
  \/ c.type # "WRITE" /\ \E d \in L : /\ d.type = "WRITE" /\ d.addr = w.addr
                                       /\ c.task < d.task /\ MoreUrgent(d, w)
Left == \A i \in 1..Len(Wbuff), c \in left : c.addr = Wbuff[i].addr => Passes(c, Wbuff[i], left)

Base   == Typed /\ Lined(Wbuff) /\ Past /\ Apart /\ Counted
Order  == Sorted(Wbuff) /\ Left
BufInv == config \in Configs /\ (~config.merge => Base) /\ (Stuckless => Order)

-----------------------------------------------------------------------------
(* A write of the buffer is a write.                                       *)
LEMMA WriteAt ==
  ASSUME NEW W \in Seq(WriteRec), NEW i \in 1..Len(W)
  PROVE  /\ W[i] \in WriteRec /\ W[i].task \in Nat /\ W[i].pri \in Nat /\ W[i].wait \in Nat
         /\ W[i].timeout \in BOOLEAN /\ W[i].ready \in BOOLEAN /\ W[i].addr \in Nat \X {0, 1}
         /\ W[i].qos \in Nat
<1>1. W[i] \in WriteRec
  BY At
<1> QED
  BY <1>1 DEF WriteRec

(* What a write may count on is a number, and at least as it came.         *)
LEMMA UrgencyNat ==
  ASSUME NEW w, w.qos \in Nat
  PROVE  /\ Urgency(w) \in Nat /\ w.qos <= Urgency(w)
         /\ config.push = "pri" => 1 <= Urgency(w)
<1> DEFINE n == IF config.push = "pri" THEN 1 ELSE 0
           q == w.qos
<1>1. n \in Nat /\ q \in Nat /\ Urgency(w) = Max({q, n})
  BY DEF Urgency
<1> HIDE DEF n, q
<1>2. Max({q, n}) = IF q >= n THEN q ELSE n
  BY <1>1, MaxOfTwo
<1>3. Urgency(w) \in Nat /\ q <= Urgency(w) /\ n <= Urgency(w)
  BY <1>1, <1>2
<1> QED
  BY <1>3 DEF n, q

(* A read of the buffer is a read.                                         *)
LEMMA ReadAt ==
  ASSUME NEW R \in Seq(ReadRec), NEW i \in 1..Len(R)
  PROVE  R[i] \in ReadRec /\ R[i].task \in Nat /\ R[i].gbuf \in Nat /\ R[i].dmc \in Nat
<1>1. R[i] \in ReadRec
  BY At
<1> QED
  BY <1>1 DEF ReadRec

(* The tasks of the earlier writes are finitely many.                      *)
LEMMA EarlierFinite ==
  ASSUME NEW W \in Seq(WriteRec), NEW a, NEW t \in Nat
  PROVE  /\ IsFiniteSet(Earlier(W, a, t)) /\ Cardinality(Earlier(W, a, t)) \in Nat
         /\ Earlier(W, a, t) \subseteq Nat
<1>1. \A i \in 1..Len(W) : W[i].task \in Nat
  BY WriteAt
<1>2. Earlier(W, a, t) \in SUBSET Nat /\ \A x \in Earlier(W, a, t) : x <= t
  BY <1>1 DEF Earlier
<1> QED
  BY <1>2, FS_BoundedSetOfNaturals, FS_CardinalityType

(* When a write leaves, the others stay as they are.                       *)
LEMMA EarlierRemoved ==
  ASSUME NEW W \in Seq(WriteRec), Lined(W), NEW n \in 1..Len(W), NEW a, NEW t \in Nat
  PROVE  Earlier(RemoveAt(W, n), a, t) = Earlier(W, a, t) \ {W[n].task}
<1> DEFINE V == RemoveAt(W, n)
<1>1. /\ Len(V) = Len(W) - 1
      /\ \A k \in 1..Len(V) : V[k] = W[IF k < n THEN k ELSE k + 1]
  BY Removed
<1>2. \A i \in 1..Len(W) : W[i].task \in Nat
  BY WriteAt
<1>3. \A i, j \in 1..Len(W) : W[i].task = W[j].task => i = j
  BY <1>2 DEF Lined
<1> HIDE DEF V
<1>4. ASSUME NEW x \in Earlier(V, a, t) PROVE x \in Earlier(W, a, t) \ {W[n].task}
  <2>1. PICK k \in 1..Len(V) : V[k].addr = a /\ V[k].task < t /\ x = V[k].task
    BY <1>4 DEF Earlier
  <2>2. PICK j \in 1..Len(W) : j # n /\ V[k] = W[j]
    BY <1>1
  <2> QED
    BY <1>3, <2>1, <2>2 DEF Earlier
<1>5. ASSUME NEW x \in Earlier(W, a, t), x # W[n].task PROVE x \in Earlier(V, a, t)
  <2>1. PICK j \in 1..Len(W) : W[j].addr = a /\ W[j].task < t /\ x = W[j].task
    BY <1>5 DEF Earlier
  <2>2. PICK k \in 1..Len(V) : V[k] = W[j]
    <3>1. CASE j < n
      BY <1>1, <3>1
    <3>2. CASE j > n
      <4>1. j - 1 \in 1..Len(V) /\ ~(j - 1 < n) /\ (j - 1) + 1 = j
        BY <1>1, <3>2
      <4> QED
        BY <1>1, <4>1
    <3> QED
      BY <1>5, <2>1, <3>1, <3>2
  <2> QED
    BY <2>1, <2>2 DEF Earlier
<1>6. Earlier(V, a, t) = Earlier(W, a, t) \ {W[n].task}
  BY <1>4, <1>5
<1> QED
  BY <1>6 DEF V

-----------------------------------------------------------------------------
(* The same writes, whatever has become of their urgency.                  *)
SameWrites(V, W) ==
  /\ V \in Seq(WriteRec) /\ Len(V) = Len(W)
  /\ \A i \in 1..Len(W) : V[i].task = W[i].task /\ V[i].addr = W[i].addr /\ V[i].qos = W[i].qos
(* The same reads, waiting for the same writes.                            *)
SameReads(V, W) ==
  /\ V \in Seq(ReadRec) /\ Len(V) = Len(W)
  /\ \A i \in 1..Len(W) : V[i].task = W[i].task /\ V[i].addr = W[i].addr /\ V[i].gbuf = W[i].gbuf

(* check_timeout and pri_adapt: an older write of an address stays ahead.  *)
LEMMA AgedWrite1 ==
  ASSUME NEW w \in WriteRec
  PROVE  /\ AgedWrite(w) \in WriteRec
         /\ AgedWrite(w).task = w.task /\ AgedWrite(w).addr = w.addr
         /\ AgedWrite(w).ready = w.ready /\ AgedWrite(w).wait = w.wait /\ AgedWrite(w).qos = w.qos
         /\ AgedWrite(w).pri = IF Adapts THEN less(w.pri) ELSE w.pri
         /\ AgedWrite(w).timeout <=> w.timeout \/ (Adapts /\ w.pri <= 1)
<1>1. CASE Adapts
  <2>1. less(w.pri) \in Nat /\ (w.timeout \/ w.pri <= 1) \in BOOLEAN
    BY DEF WriteRec, less
  <2> DEFINE n == less(w.pri)
             b == w.timeout \/ w.pri <= 1
  <2>2. AgedWrite(w) = [w EXCEPT !.pri = n, !.timeout = b]
    BY <1>1 DEF AgedWrite
  <2> HIDE DEF n, b
  <2>3. n \in Nat /\ b \in BOOLEAN
    BY <2>1 DEF n, b
  <2>4. /\ AgedWrite(w) \in WriteRec
        /\ AgedWrite(w).task = w.task /\ AgedWrite(w).addr = w.addr
        /\ AgedWrite(w).ready = w.ready /\ AgedWrite(w).wait = w.wait /\ AgedWrite(w).qos = w.qos
        /\ AgedWrite(w).pri = n /\ AgedWrite(w).timeout = b
    BY <2>2, <2>3 DEF WriteRec
  <2> QED
    BY <1>1, <2>4 DEF n, b
<1>2. CASE ~Adapts
  <2>1. AgedWrite(w) = w
    BY <1>2 DEF AgedWrite
  <2> QED
    BY <1>2, <2>1
<1> QED
  BY <1>1, <1>2

(* So for the whole buffer.                                                *)
LEMMA Aging ==
  ASSUME Wbuff \in Seq(WriteRec)
  PROVE  SameWrites(AgedWrites, Wbuff) /\ (Sorted(Wbuff) => Sorted(AgedWrites))
<1>1. AgedWrites = [i \in 1..Len(Wbuff) |-> AgedWrite(Wbuff[i])]
  BY DEF AgedWrites
<1>2. \A i \in 1..Len(Wbuff) : AgedWrites[i] = AgedWrite(Wbuff[i]) /\ Wbuff[i] \in WriteRec
  BY <1>1, WriteAt
<1>3. AgedWrites \in Seq(WriteRec) /\ Len(AgedWrites) = Len(Wbuff)
  BY <1>1, <1>2, AgedWrite1
<1>4. SameWrites(AgedWrites, Wbuff)
  BY <1>2, <1>3, AgedWrite1 DEF SameWrites
<1>5. \A i \in 1..Len(Wbuff) :
        /\ AgedWrites[i].wait = Wbuff[i].wait /\ AgedWrites[i].ready = Wbuff[i].ready
        /\ AgedWrites[i].pri = IF Adapts THEN less(Wbuff[i].pri) ELSE Wbuff[i].pri
        /\ AgedWrites[i].timeout <=> Wbuff[i].timeout \/ (Adapts /\ Wbuff[i].pri <= 1)
  BY <1>2, AgedWrite1
<1>6. \A i \in 1..Len(Wbuff) : Wbuff[i].pri \in Nat /\ Wbuff[i].qos \in Nat
  BY WriteAt
<1> SUFFICES ASSUME Sorted(Wbuff) PROVE Sorted(AgedWrites)
  BY <1>4
<1>7. ASSUME NEW i \in 1..Len(Wbuff), NEW j \in 1..Len(Wbuff), i < j
      PROVE  /\ AgedWrites[j].ready => AgedWrites[i].ready
             /\ AgedWrites[i].addr = AgedWrites[j].addr =>
                  /\ AgedWrites[i].wait >= AgedWrites[j].wait
                  /\ ~MoreUrgent(AgedWrites[j], AgedWrites[i]) =>
                        /\ AgedWrites[i].pri <= AgedWrites[j].pri
                        /\ AgedWrites[j].timeout => AgedWrites[i].timeout
  <2>1. /\ Wbuff[j].ready => Wbuff[i].ready
        /\ Wbuff[i].addr = Wbuff[j].addr =>
             /\ Wbuff[i].wait >= Wbuff[j].wait
             /\ ~MoreUrgent(Wbuff[j], Wbuff[i]) => /\ Wbuff[i].pri <= Wbuff[j].pri
                                                   /\ Wbuff[j].timeout => Wbuff[i].timeout
    BY <1>7 DEF Sorted, Ranked
  <2>2. AgedWrites[i].addr = Wbuff[i].addr /\ AgedWrites[j].addr = Wbuff[j].addr
    BY <1>4 DEF SameWrites
  <2>3. MoreUrgent(AgedWrites[j], AgedWrites[i]) <=> MoreUrgent(Wbuff[j], Wbuff[i])
    BY <1>4 DEF SameWrites, MoreUrgent, Urgency
  <2>4. Wbuff[i].pri <= Wbuff[j].pri /\ (Wbuff[j].timeout => Wbuff[i].timeout) =>
          /\ AgedWrites[i].pri <= AgedWrites[j].pri
          /\ AgedWrites[j].timeout => AgedWrites[i].timeout
    <3> SUFFICES ASSUME Wbuff[i].pri <= Wbuff[j].pri, Wbuff[j].timeout => Wbuff[i].timeout
                 PROVE  /\ AgedWrites[i].pri <= AgedWrites[j].pri
                        /\ AgedWrites[j].timeout => AgedWrites[i].timeout
      OBVIOUS
    <3>1. Wbuff[i].pri \in Nat /\ Wbuff[j].pri \in Nat
      BY <1>6
    <3>2. less(Wbuff[i].pri) <= less(Wbuff[j].pri)
      BY <3>1 DEF less
    <3>3. AgedWrites[i].pri <= AgedWrites[j].pri
      BY <1>5, <3>2
    <3>4. AgedWrites[j].timeout => AgedWrites[i].timeout
      <4>1. AgedWrites[j].timeout => Wbuff[j].timeout \/ (Adapts /\ Wbuff[j].pri <= 1)
        BY <1>5
      <4>2. Wbuff[i].timeout \/ (Adapts /\ Wbuff[i].pri <= 1) => AgedWrites[i].timeout
        BY <1>5
      <4>3. Wbuff[j].pri <= 1 => Wbuff[i].pri <= 1
        BY <3>1
      <4> QED
        BY <4>1, <4>2, <4>3
    <3> QED
      BY <3>3, <3>4
  <2> QED
    BY <1>5, <2>1, <2>2, <2>3, <2>4
<1>8. Ranked(AgedWrites)
  BY <1>3, <1>7 DEF Ranked
<1>9. ASSUME NEW i \in 1..Len(Wbuff) PROVE AgedWrites[i].pri <= Urgency(AgedWrites[i])
  <2>1. Wbuff[i].pri <= Urgency(Wbuff[i]) /\ Urgency(Wbuff[i]) \in Nat
    BY <1>6, UrgencyNat DEF Sorted, Low
  <2>2. Urgency(AgedWrites[i]) = Urgency(Wbuff[i])
    BY <1>4 DEF SameWrites, Urgency
  <2> QED
    BY <1>5, <1>6, <2>1, <2>2 DEF less
<1>10. Complete(AgedWrites)
  BY <1>3, <1>5 DEF Sorted, Complete
<1> QED
  BY <1>3, <1>8, <1>9, <1>10 DEF Sorted, Low

(* A cycle passes: those that came first have waited longest.              *)
LEMMA Growing ==
  ASSUME NEW W \in Seq(WriteRec)
  PROVE  SameWrites(Grown(W), W) /\ (Sorted(W) => Sorted(Grown(W)))
<1> DEFINE M == Max({RARB, WARB, GBUF_RCMD_TIMEOUT})
           G == Grown(W)
<1>1. M \in Nat
  BY Constants, MaxOfThree
<1>2. G = [i \in 1..Len(W) |-> [W[i] EXCEPT !.wait = Min({W[i].wait + 1, M})]]
  BY DEF Grown
<1> HIDE DEF M, G
<1>3. ASSUME NEW i \in 1..Len(W)
      PROVE  /\ W[i] \in WriteRec /\ W[i].wait \in Nat
             /\ Min({W[i].wait + 1, M}) \in Nat
             /\ Min({W[i].wait + 1, M}) = IF W[i].wait + 1 <= M THEN W[i].wait + 1 ELSE M
  <2>1. W[i] \in WriteRec /\ W[i].wait \in Nat
    BY WriteAt
  <2> DEFINE n == W[i].wait + 1
  <2>2. n \in Nat
    BY <2>1
  <2> HIDE DEF n
  <2>3. Min({n, M}) = IF n <= M THEN n ELSE M
    BY <1>1, <2>2, MinOfTwo
  <2>4. Min({n, M}) \in Nat
    BY <1>1, <2>2, <2>3
  <2> QED
    BY <2>1, <2>3, <2>4 DEF n
<1>4. ASSUME NEW i \in 1..Len(W)
      PROVE  /\ G[i] \in WriteRec /\ G[i].task = W[i].task /\ G[i].addr = W[i].addr
             /\ G[i].ready = W[i].ready /\ G[i].pri = W[i].pri /\ G[i].timeout = W[i].timeout
             /\ G[i].qos = W[i].qos /\ G[i].wait = Min({W[i].wait + 1, M})
  <2> DEFINE m == Min({W[i].wait + 1, M})
  <2>1. m \in Nat /\ W[i] \in WriteRec
    BY <1>3
  <2>2. G[i] = [W[i] EXCEPT !.wait = m]
    BY <1>2
  <2> HIDE DEF m
  <2>3. /\ G[i] \in WriteRec /\ G[i].task = W[i].task /\ G[i].addr = W[i].addr
        /\ G[i].ready = W[i].ready /\ G[i].pri = W[i].pri /\ G[i].timeout = W[i].timeout
        /\ G[i].qos = W[i].qos /\ G[i].wait = m
    BY <2>1, <2>2 DEF WriteRec
  <2> QED
    BY <2>3 DEF m
<1>5. G \in Seq(WriteRec) /\ Len(G) = Len(W)
  <2>1. G = [i \in 1..Len(W) |-> G[i]]
    BY <1>2
  <2>2. G \in [1..Len(W) -> WriteRec]
    BY <1>4, <2>1
  <2> QED
    BY <2>2
<1>6. SameWrites(G, W)
  BY <1>4, <1>5 DEF SameWrites
<1>7. Sorted(W) => Ranked(G)
  <2> SUFFICES ASSUME Sorted(W), NEW i \in 1..Len(W), NEW j \in 1..Len(W), i < j
               PROVE  /\ G[j].ready => G[i].ready
                      /\ G[i].addr = G[j].addr =>
                            /\ G[i].wait >= G[j].wait
                            /\ ~MoreUrgent(G[j], G[i]) => /\ G[i].pri <= G[j].pri
                                                          /\ G[j].timeout => G[i].timeout
    BY <1>5 DEF Ranked
  <2>1. /\ W[j].ready => W[i].ready
        /\ W[i].addr = W[j].addr =>
             /\ W[i].wait >= W[j].wait
             /\ ~MoreUrgent(W[j], W[i]) => W[i].pri <= W[j].pri /\ (W[j].timeout => W[i].timeout)
    BY DEF Sorted, Ranked
  <2>2. W[i].wait >= W[j].wait => G[i].wait >= G[j].wait
    <3>1. /\ G[i].wait = IF W[i].wait + 1 <= M THEN W[i].wait + 1 ELSE M
          /\ G[j].wait = IF W[j].wait + 1 <= M THEN W[j].wait + 1 ELSE M
          /\ W[i].wait \in Nat /\ W[j].wait \in Nat
      BY <1>3, <1>4
    <3> QED
      BY <1>1, <3>1
  <2>3. MoreUrgent(G[j], G[i]) <=> MoreUrgent(W[j], W[i])
    BY <1>4 DEF MoreUrgent, Urgency
  <2> QED
    BY <1>4, <2>1, <2>2, <2>3
<1>8. Sorted(W) => Low(G) /\ Complete(G)
  BY <1>4, <1>5 DEF Sorted, Low, Complete, Urgency
<1> QED
  BY <1>6, <1>7, <1>8 DEF G, Sorted

(* The reads grow old as well; what they wait for does not change.         *)
LEMMA AgingReads ==
  ASSUME NEW R \in Seq(ReadRec)
  PROVE  SameReads([i \in DOMAIN R |-> AgedRead(R[i])], R) /\ SameReads(Grown(R), R)
<1> DEFINE A == [i \in DOMAIN R |-> AgedRead(R[i])]
           M == Max({RARB, WARB, GBUF_RCMD_TIMEOUT})
           G == Grown(R)
<1>1. M \in Nat
  BY Constants, MaxOfThree
<1>2. /\ A = [i \in 1..Len(R) |-> AgedRead(R[i])]
      /\ G = [i \in 1..Len(R) |-> [R[i] EXCEPT !.wait = Min({R[i].wait + 1, M})]]
  BY DEF Grown
<1> HIDE DEF A, M, G
<1>3. ASSUME NEW i \in 1..Len(R)
      PROVE  A[i] \in ReadRec /\ A[i].task = R[i].task /\ A[i].addr = R[i].addr /\ A[i].gbuf = R[i].gbuf
  <2> DEFINE b == R[i].timeout \/ R[i].wait >= GBUF_RCMD_TIMEOUT \/ R[i].pri = 0
  <2>1. R[i] \in ReadRec
    BY ReadAt
  <2>2. A[i] = [R[i] EXCEPT !.timeout = b] /\ b \in BOOLEAN
    BY <1>2, <2>1 DEF AgedRead, ReadRec
  <2> HIDE DEF b
  <2> QED
    BY <2>1, <2>2 DEF ReadRec
<1>4. ASSUME NEW i \in 1..Len(R)
      PROVE  G[i] \in ReadRec /\ G[i].task = R[i].task /\ G[i].addr = R[i].addr /\ G[i].gbuf = R[i].gbuf
  <2> DEFINE n == R[i].wait + 1
             m == Min({R[i].wait + 1, M})
  <2>1. R[i] \in ReadRec /\ n \in Nat
    <3>1. R[i] \in ReadRec
      BY ReadAt
    <3>2. R[i].wait \in Nat
      BY <3>1 DEF ReadRec
    <3> QED
      BY <3>1, <3>2
  <2>2. G[i] = [R[i] EXCEPT !.wait = m] /\ m = Min({n, M})
    BY <1>2
  <2> HIDE DEF n, m
  <2>3. m \in Nat
    BY <1>1, <2>1, <2>2, MinOfTwo
  <2> QED
    BY <2>1, <2>2, <2>3 DEF ReadRec
<1>5. SameReads(A, R)
  <2>1. A = [i \in 1..Len(R) |-> A[i]]
    BY <1>2
  <2>2. A \in [1..Len(R) -> ReadRec]
    BY <1>3, <2>1
  <2>3. A \in Seq(ReadRec) /\ Len(A) = Len(R)
    BY <2>2
  <2> QED
    BY <1>3, <2>3 DEF SameReads
<1>6. SameReads(G, R)
  <2>1. G = [i \in 1..Len(R) |-> G[i]]
    BY <1>2
  <2>2. G \in [1..Len(R) -> ReadRec]
    BY <1>4, <2>1
  <2>3. G \in Seq(ReadRec) /\ Len(G) = Len(R)
    BY <2>2
  <2> QED
    BY <1>4, <2>3 DEF SameReads
<1> QED
  BY <1>5, <1>6 DEF A, G

(* A read stays what it is through two such changes.                       *)
LEMMA SameTwice ==
  ASSUME NEW Q, NEW R, NEW S, SameReads(Q, R), SameReads(R, S)
  PROVE  SameReads(Q, S)
  BY DEF SameReads

(* And so does a write.                                                    *)
LEMMA SameWritesTwice ==
  ASSUME NEW U, NEW V, NEW W, SameWrites(U, V), SameWrites(V, W)
  PROVE  SameWrites(U, W)
  BY DEF SameWrites

(* sch_wque chooses the first write of an address, as all that makes a     *)
(* write urgent makes those before it urgent, unless it has come with more.*)
LEMMA FirstChosen ==
  ASSUME Wbuff \in Seq(WriteRec), Sorted(Wbuff), NEW B, NEW i,
         WriteChosen(i, WriteCands(B))
  PROVE  \A j \in 1..Len(Wbuff) : Wbuff[j].addr = Wbuff[i].addr /\ j < i => MoreUrgent(Wbuff[i], Wbuff[j])
<1>1. /\ SameWrites(AgedWrites, Wbuff) /\ Ranked(AgedWrites)
      /\ AgedWrites \in Seq(WriteRec) /\ Len(AgedWrites) = Len(Wbuff)
  BY Aging DEF SameWrites, Sorted
<1> DEFINE C == WriteCands(B)
           U == {j \in C : AgedWrites[j].timeout \/ AgedWrites[j].pri = 0}
<1>2. /\ \A j \in C : j \in 1..Len(Wbuff) /\ WriteMay(AgedWrites[j], B)
      /\ \A j \in 1..Len(Wbuff) : i \in C /\ WriteMay(AgedWrites[j], B) => j \in C
  BY DEF WriteCands
<1>3. /\ i \in C /\ \A j \in U : i <= j
      /\ i \in U \/ \A j \in C : j < i => AgedWrites[j].addr # AgedWrites[i].addr
  BY DEF WriteChosen
<1>4. i \in 1..Len(Wbuff)
  BY <1>2, <1>3
<1> SUFFICES ASSUME NEW j \in 1..Len(Wbuff), Wbuff[j].addr = Wbuff[i].addr, j < i,
                    ~MoreUrgent(Wbuff[i], Wbuff[j])
             PROVE  FALSE
  OBVIOUS
<1>5. ~MoreUrgent(AgedWrites[i], AgedWrites[j]) /\ AgedWrites[j].addr = AgedWrites[i].addr
  BY <1>1, <1>4 DEF SameWrites, MoreUrgent, Urgency
<1>6. /\ AgedWrites[i].ready => AgedWrites[j].ready
      /\ AgedWrites[j].pri <= AgedWrites[i].pri /\ AgedWrites[j].wait >= AgedWrites[i].wait
      /\ AgedWrites[i].timeout => AgedWrites[j].timeout
  BY <1>1, <1>4, <1>5 DEF Ranked
<1>7. /\ AgedWrites[j].pri \in Nat /\ AgedWrites[i].pri \in Nat
      /\ AgedWrites[j].wait \in Nat /\ AgedWrites[i].wait \in Nat
  BY <1>1, <1>4, WriteAt
<1>8. WriteMay(AgedWrites[i], B)
  BY <1>2, <1>3
<1>9. WriteMay(AgedWrites[j], B)
  BY <1>5, <1>6, <1>7, <1>8, Constants DEF WriteMay
<1>10. j \in C
  BY <1>2, <1>3, <1>9
<1>11. i \in U
  BY <1>3, <1>5, <1>10
<1>12. j \in U
  BY <1>6, <1>7, <1>10, <1>11
<1> QED
  BY <1>3, <1>4, <1>12

-----------------------------------------------------------------------------
(* Those that have come after a read and have overtaken are counted.       *)
LEMMA RestLess ==
  ASSUME NEW e \in Nat, NEW o \in Nat
  PROVE  /\ Rest(e, o) \in Nat /\ Rest(e, 0) = e
         /\ Rest(e, o + 1) = less(Rest(e, o))
         /\ e # 0 => Rest(e - 1, o) = less(Rest(e, o))
         /\ Rest(e, o) = 0 /\ e # 0 => o # 0
  BY DEF Rest, less

LEMMA OvertakingFinite ==
  ASSUME NEW L, IsFiniteSet(L), NEW a, NEW t
  PROVE  IsFiniteSet(Overtaking(L, a, t)) /\ Cardinality(Overtaking(L, a, t)) \in Nat
<1>1. Overtaking(L, a, t) \subseteq L
  BY DEF Overtaking
<1> QED
  BY <1>1, FS_Subset, FS_CardinalityType

(* Every read of V is one of W.                                            *)
FromReads(V, W) ==
  /\ V \in Seq(ReadRec)
  /\ \A k \in 1..Len(V) : \E j \in 1..Len(W) :
        V[k].task = W[j].task /\ V[k].addr = W[j].addr /\ V[k].gbuf = W[j].gbuf

(* The same reads are some of them.                                        *)
LEMMA SameFrom ==
  ASSUME NEW V, NEW W, SameReads(V, W)
  PROVE  FromReads(V, W)
  BY DEF SameReads, FromReads

(* So are those that stay when one leaves.                                 *)
LEMMA RemovedFrom ==
  ASSUME NEW V, NEW W, SameReads(V, W), NEW n \in 1..Len(V)
  PROVE  FromReads(RemoveAt(V, n), W)
<1>1. /\ V \in Seq(ReadRec) /\ Len(V) = Len(W)
      /\ \A i \in 1..Len(W) : V[i].task = W[i].task /\ V[i].addr = W[i].addr /\ V[i].gbuf = W[i].gbuf
  BY DEF SameReads
<1>2. /\ RemoveAt(V, n) \in Seq(ReadRec) /\ Len(RemoveAt(V, n)) = Len(V) - 1
      /\ \A k \in 1..(Len(V) - 1) : RemoveAt(V, n)[k] = V[IF k < n THEN k ELSE k + 1]
  BY <1>1, Removed
<1>3. ASSUME NEW k \in 1..Len(RemoveAt(V, n))
      PROVE  \E j \in 1..Len(W) : RemoveAt(V, n)[k] = V[j]
  <2>1. (IF k < n THEN k ELSE k + 1) \in 1..Len(W)
    BY <1>1, <1>2
  <2> QED
    BY <1>2, <2>1
<1>4. ASSUME NEW k \in 1..Len(RemoveAt(V, n))
      PROVE  \E j \in 1..Len(W) : /\ RemoveAt(V, n)[k].task = W[j].task
                                  /\ RemoveAt(V, n)[k].addr = W[j].addr
                                  /\ RemoveAt(V, n)[k].gbuf = W[j].gbuf
  <2>1. PICK j \in 1..Len(W) : RemoveAt(V, n)[k] = V[j]
    BY <1>3
  <2> QED
    BY <1>1, <2>1
<1> QED
  BY <1>2, <1>4 DEF FromReads

(* The tasks of the same writes are the same.                              *)
LEMMA EarlierSame ==
  ASSUME NEW V, NEW W, SameWrites(V, W), NEW a, NEW t
  PROVE  Earlier(V, a, t) = Earlier(W, a, t)
<1>1. /\ Len(V) = Len(W)
      /\ \A i \in 1..Len(W) : V[i].task = W[i].task /\ V[i].addr = W[i].addr
  BY DEF SameWrites
<1>2. {j \in 1..Len(V) : V[j].addr = a /\ V[j].task < t}
        = {j \in 1..Len(W) : W[j].addr = a /\ W[j].task < t}
  BY <1>1
<1> QED
  BY <1>1, <1>2 DEF Earlier

(* Sorted, for a step that keeps the configuration.                        *)
LEMMA SortedNext ==
  ASSUME UNCHANGED config, Sorted(Wbuff')
  PROVE  Sorted(Wbuff)'
  BY DEF Sorted, Ranked, Low, Complete, MoreUrgent, Urgency

(* A step that keeps the writes, and lets a read leave.                    *)
LEMMA BaseSame ==
  ASSUME Base, SameWrites(Wbuff', Wbuff), FromReads(Rbuff', Rbuff), UNCHANGED next,
         IsFiniteSet(queue'), IsFiniteSet(left'), left \subseteq left',
         \A c \in left' \ left : /\ c.type # "WRITE" /\ c.task \in Nat /\ c.task < next
                                 /\ \A i \in 1..Len(Wbuff) : c.task # Wbuff[i].task
  PROVE  Base'
<1> USE DEF Base
<1>1. Typed'
  BY DEF Typed, SameWrites, FromReads
<1>2. Lined(Wbuff')
  BY DEF Lined, SameWrites
<1>3. Past'
  BY DEF Past, SameWrites, FromReads
<1>4. Apart'
  BY DEF Apart, SameWrites, FromReads
<1>5. \A a, t : Overtaking(left', a, t) = Overtaking(left, a, t)
  BY DEF Overtaking
<1>6. Counted'
  <2> SUFFICES ASSUME NEW k \in 1..Len(Rbuff')
               PROVE  Rbuff'[k].gbuf = Waits(Wbuff', left', Rbuff'[k].addr, Rbuff'[k].task)
    BY DEF Counted
  <2>1. PICK j \in 1..Len(Rbuff) : /\ Rbuff'[k].task = Rbuff[j].task /\ Rbuff'[k].addr = Rbuff[j].addr
                                   /\ Rbuff'[k].gbuf = Rbuff[j].gbuf
    BY DEF FromReads
  <2>2. Earlier(Wbuff', Rbuff[j].addr, Rbuff[j].task) = Earlier(Wbuff, Rbuff[j].addr, Rbuff[j].task)
    BY EarlierSame
  <2> QED
    BY <1>5, <2>1, <2>2 DEF Counted, Waits
<1> QED
  BY <1>1, <1>2, <1>3, <1>4, <1>6 DEF Lined

(* What may have left before a write may still have.                       *)
LEMMA LeftSame ==
  ASSUME Left, SameWrites(Wbuff', Wbuff), UNCHANGED config, left \subseteq left',
         \A c \in left' \ left : \A i \in 1..Len(Wbuff) :
            c.addr = Wbuff[i].addr => Passes(c, Wbuff[i], left)
  PROVE  Left'
<1> SUFFICES ASSUME NEW i \in 1..Len(Wbuff), NEW c \in left', c.addr = Wbuff'[i].addr
             PROVE  Passes(c, Wbuff[i], left)'
  BY DEF Left, SameWrites
<1>1. Wbuff'[i].task = Wbuff[i].task /\ Wbuff'[i].addr = Wbuff[i].addr /\ Wbuff'[i].qos = Wbuff[i].qos
  BY DEF SameWrites
<1>2. Passes(c, Wbuff[i], left)
  BY <1>1 DEF Left
<1> QED
  BY <1>1, <1>2 DEF Passes, MoreUrgent, Urgency

(* A new write is the last.                                                *)
LEMMA BaseWrite ==
  ASSUME Base, NEW k \in Asks, Wbuff' = Append(Wbuff, NewWrite(k)), next' = next + 1,
         UNCHANGED <<Rbuff, queue, left>>
  PROVE  Base'
<1> DEFINE w == NewWrite(k)
<1> USE DEF Base
<1>1. k \in Ask
  BY Constants
<1>2. w \in WriteRec /\ w.task = next /\ w.addr = k.addr
  BY <1>1 DEF NewWrite, WriteRec, Ask, Typed
<1> HIDE DEF w
<1>3. Wbuff' = Append(Wbuff, w)
  BY DEF w
<1>4. Wbuff \in Seq(WriteRec) /\ Len(Wbuff) \in Nat /\ next \in Nat
  BY DEF Typed
<1>5. /\ Wbuff' \in Seq(WriteRec) /\ Len(Wbuff') = Len(Wbuff) + 1
      /\ \A i \in 1..Len(Wbuff) : Wbuff'[i] = Wbuff[i] /\ i \in 1..Len(Wbuff')
      /\ Wbuff'[Len(Wbuff) + 1] = w
      /\ \A i \in 1..Len(Wbuff') : i \in 1..Len(Wbuff) \/ i = Len(Wbuff) + 1
  BY <1>2, <1>3, <1>4
<1>6. Typed'
  BY <1>5 DEF Typed
<1>7. Lined(Wbuff')
  <2> SUFFICES ASSUME NEW i \in 1..Len(Wbuff'), NEW j \in 1..Len(Wbuff'), i < j
               PROVE  Wbuff'[i].task < Wbuff'[j].task
    BY DEF Lined
  <2>1. CASE j \in 1..Len(Wbuff)
    <3>1. i \in 1..Len(Wbuff)
      BY <2>1
    <3> QED
      BY <1>5, <2>1, <3>1 DEF Lined
  <2>2. CASE j = Len(Wbuff) + 1
    <3>1. i \in 1..Len(Wbuff) /\ Wbuff'[i] = Wbuff[i] /\ Wbuff'[j] = w
      BY <1>5, <2>2
    <3> QED
      BY <1>2, <3>1 DEF Past
  <2> QED
    BY <1>5, <2>1, <2>2
<1>8. Past'
  <2>1. next < next + 1 /\ \A n \in Nat : n < next => n < next + 1
    BY DEF Typed
  <2>2. \A i \in 1..Len(Wbuff') : Wbuff'[i].task < next'
    BY <1>2, <1>4, <1>5, <2>1, WriteAt DEF Past
  <2>3. \A r \in 1..Len(Rbuff) : Rbuff[r].task < next'
    BY <2>1, ReadAt DEF Past, Typed
  <2> QED
    BY <2>1, <2>2, <2>3 DEF Past
<1>9. Apart'
  <2>1. ASSUME NEW i \in 1..Len(Wbuff'), NEW r \in 1..Len(Rbuff)
        PROVE  Wbuff'[i].task # Rbuff[r].task
    <3>1. Rbuff[r].task < next /\ Rbuff[r].task \in Nat
      BY ReadAt DEF Past, Typed
    <3> QED
      BY <1>2, <1>4, <1>5, <3>1 DEF Apart
  <2>2. ASSUME NEW i \in 1..Len(Wbuff'), NEW c \in left PROVE c.task # Wbuff'[i].task
    <3>1. c.task < next /\ c.task \in Nat
      BY DEF Past
    <3> QED
      BY <1>2, <1>4, <1>5, <3>1 DEF Apart
  <2> QED
    BY <2>1, <2>2 DEF Apart
<1>10. Counted'
  <2> SUFFICES ASSUME NEW r \in 1..Len(Rbuff)
               PROVE  Earlier(Wbuff', Rbuff[r].addr, Rbuff[r].task) = Earlier(Wbuff, Rbuff[r].addr, Rbuff[r].task)
    BY DEF Counted, Waits
  <2>1. ~(next < Rbuff[r].task)
    <3>1. Rbuff[r].task < next /\ Rbuff[r].task \in Nat
      BY ReadAt DEF Past, Typed
    <3> QED
      BY <1>4, <3>1
  <2>2. {j \in 1..Len(Wbuff') : Wbuff'[j].addr = Rbuff[r].addr /\ Wbuff'[j].task < Rbuff[r].task}
          = {j \in 1..Len(Wbuff) : Wbuff[j].addr = Rbuff[r].addr /\ Wbuff[j].task < Rbuff[r].task}
    BY <1>2, <1>5, <2>1
  <2> QED
    BY <1>5, <2>2 DEF Earlier
<1> QED
  BY <1>6, <1>7, <1>8, <1>9, <1>10 DEF Lined

(* It has waited for no time, and is no more urgent than it may count on.  *)
LEMMA OrderWrite ==
  ASSUME Base, Order, NEW k \in Asks, Wbuff' = Append(Wbuff, NewWrite(k)),
         UNCHANGED <<config, left>>
  PROVE  Order'
<1> DEFINE w == NewWrite(k)
<1>1. k \in Ask
  BY Constants
<1>2. /\ w \in WriteRec /\ w.task = next /\ w.pri = w.qos /\ w.wait = 0
      /\ w.timeout = FALSE /\ w.ready = (config.front = "rmw") /\ w.qos \in Nat
  BY <1>1 DEF NewWrite, WriteRec, Ask, Base, Typed
<1> HIDE DEF w
<1>3. Wbuff' = Append(Wbuff, w)
  BY DEF w
<1>4. Wbuff \in Seq(WriteRec) /\ Len(Wbuff) \in Nat
  BY DEF Base, Typed
<1>5. /\ Wbuff' \in Seq(WriteRec) /\ Len(Wbuff') = Len(Wbuff) + 1
      /\ \A i \in 1..Len(Wbuff) : Wbuff'[i] = Wbuff[i] /\ i \in 1..Len(Wbuff')
      /\ Wbuff'[Len(Wbuff) + 1] = w
      /\ \A i \in 1..Len(Wbuff') : i \in 1..Len(Wbuff) \/ i = Len(Wbuff) + 1
  BY <1>2, <1>3, <1>4
<1>6. Ranked(Wbuff')
  <2> SUFFICES ASSUME NEW i \in 1..Len(Wbuff'), NEW j \in 1..Len(Wbuff'), i < j
               PROVE  /\ Wbuff'[j].ready => Wbuff'[i].ready
                      /\ Wbuff'[i].addr = Wbuff'[j].addr =>
                            /\ Wbuff'[i].wait >= Wbuff'[j].wait
                            /\ ~MoreUrgent(Wbuff'[j], Wbuff'[i]) =>
                                  /\ Wbuff'[i].pri <= Wbuff'[j].pri
                                  /\ Wbuff'[j].timeout => Wbuff'[i].timeout
    BY DEF Ranked
  <2>1. CASE j \in 1..Len(Wbuff)
    <3>1. i \in 1..Len(Wbuff)
      BY <2>1
    <3>2. Wbuff'[i] = Wbuff[i] /\ Wbuff'[j] = Wbuff[j]
      BY <1>5, <2>1, <3>1
    <3> QED
      BY <2>1, <3>1, <3>2 DEF Order, Sorted, Ranked
  <2>2. CASE j = Len(Wbuff) + 1
    <3>1. i \in 1..Len(Wbuff) /\ Wbuff'[i] = Wbuff[i] /\ Wbuff'[j] = w
      BY <1>5, <2>2
    <3>2. Wbuff[i].wait \in Nat /\ Wbuff[i].pri \in Nat /\ Wbuff[i].qos \in Nat
      BY <1>4, <3>1, WriteAt
    <3>3. w.ready => Wbuff[i].ready
      BY <1>2, <3>1 DEF Order, Sorted, Complete
    <3>4. ~MoreUrgent(w, Wbuff[i]) => Wbuff[i].pri <= w.pri
      <4>1. Wbuff[i].pri <= Urgency(Wbuff[i]) /\ Urgency(Wbuff[i]) \in Nat
        BY <3>1, <3>2, UrgencyNat DEF Order, Sorted, Low
      <4> QED
        BY <1>2, <3>2, <4>1 DEF MoreUrgent
    <3> QED
      BY <1>2, <3>1, <3>2, <3>3, <3>4
  <2> QED
    BY <1>5, <2>1, <2>2
<1>7. Low(Wbuff')
  <2> SUFFICES ASSUME NEW i \in 1..Len(Wbuff') PROVE Wbuff'[i].pri <= Urgency(Wbuff'[i])
    BY DEF Low
  <2>1. CASE i \in 1..Len(Wbuff)
    BY <1>5, <2>1 DEF Order, Sorted, Low
  <2>2. CASE i = Len(Wbuff) + 1
    BY <1>2, <1>5, <2>2, UrgencyNat
  <2> QED
    BY <1>5, <2>1, <2>2
<1>8. Complete(Wbuff')
  BY <1>2, <1>5 DEF Order, Sorted, Complete
<1>9. Left'
  <2> SUFFICES ASSUME NEW i \in 1..Len(Wbuff'), NEW c \in left, c.addr = Wbuff'[i].addr
               PROVE  Passes(c, Wbuff[i], left)'
    BY DEF Left
  <2>1. CASE i \in 1..Len(Wbuff)
    <3>1. Passes(c, Wbuff[i], left) /\ Wbuff'[i] = Wbuff[i]
      BY <1>5, <2>1 DEF Order, Left
    <3> QED
      BY <3>1 DEF Passes, MoreUrgent, Urgency
  <2>2. CASE i = Len(Wbuff) + 1
    BY <1>2, <1>5, <2>2 DEF Passes, Base, Past
  <2> QED
    BY <1>5, <2>1, <2>2
<1> QED
  BY <1>6, <1>7, <1>8, <1>9, SortedNext DEF Order, Sorted

(* rcmd_set_conflict: a new read counts the writes of its address.         *)
LEMMA WritesByTask ==
  ASSUME NEW W \in Seq(WriteRec), Lined(W), NEW a, NEW t \in Nat
  PROVE  Cardinality({c \in ToSet(W) : c.addr = a /\ c.task < t}) = Cardinality(Earlier(W, a, t))
<1> DEFINE H == {c \in ToSet(W) : c.addr = a /\ c.task < t}
           T == Earlier(W, a, t)
           f == [c \in H |-> c.task]
<1>1. ToSet(W) = {W[i] : i \in 1..Len(W)}
  BY DEF ToSet
<1>2. \A i, j \in 1..Len(W) : W[i].task = W[j].task => i = j
  BY WriteAt DEF Lined
<1>3. \A c \in H : c.task \in T
  BY <1>1 DEF Earlier
<1>4. \A x \in T : \E c \in H : c.task = x
  BY <1>1 DEF Earlier
<1>5. \A c, d \in H : c.task = d.task => c = d
  BY <1>1, <1>2
<1>6. IsFiniteSet(T)
  BY EarlierFinite
<1> HIDE DEF H, T
<1>7. f \in Injection(H, T) /\ f \in Surjection(H, T)
  BY <1>3, <1>4, <1>5 DEF Injection, Surjection, IsInjective
<1> HIDE DEF f
<1>8. Cardinality(H) = Cardinality(T)
  BY <1>6, <1>7, FS_Injection
<1> QED
  BY <1>8 DEF H, T

(* rcmd_push_wcmd: all writes of an address become urgent together.        *)
LEMMA Urging ==
  ASSUME Wbuff \in Seq(WriteRec), NEW a, push_wcmd(a)
  PROVE  SameWrites(Wbuff', Wbuff) /\ (Sorted(Wbuff) => Sorted(Wbuff'))
<1>1. CASE config.push = "none"
  <2>1. Wbuff' = Wbuff
    BY <1>1 DEF push_wcmd
  <2> QED
    BY <2>1 DEF SameWrites
<1>2. CASE config.push # "none"
  <2>1. Wbuff' = [i \in 1..Len(Wbuff) |-> IF Wbuff[i].addr = a THEN Urge(Wbuff[i]) ELSE Wbuff[i]]
    BY <1>2 DEF push_wcmd
  <2> DEFINE P == config.push = "pri"
  <2>2. ASSUME NEW i \in 1..Len(Wbuff)
        PROVE  /\ Wbuff'[i] \in WriteRec /\ Wbuff'[i].task = Wbuff[i].task
               /\ Wbuff'[i].addr = Wbuff[i].addr /\ Wbuff'[i].ready = Wbuff[i].ready
               /\ Wbuff'[i].wait = Wbuff[i].wait /\ Wbuff'[i].qos = Wbuff[i].qos
               /\ Wbuff'[i].pri = IF Wbuff[i].addr = a /\ P THEN 1 ELSE Wbuff[i].pri
               /\ Wbuff'[i].timeout <=> Wbuff[i].timeout \/ (Wbuff[i].addr = a /\ ~P)
    <3>1. Wbuff[i] \in WriteRec
      BY WriteAt
    <3>2. CASE Wbuff[i].addr = a /\ P
      <4> DEFINE n == 1
      <4>1. Wbuff'[i] = [Wbuff[i] EXCEPT !.pri = n] /\ n \in Nat
        BY <2>1, <3>2 DEF Urge
      <4> HIDE DEF n
      <4>2. /\ Wbuff'[i] \in WriteRec /\ Wbuff'[i].task = Wbuff[i].task
            /\ Wbuff'[i].addr = Wbuff[i].addr /\ Wbuff'[i].ready = Wbuff[i].ready
            /\ Wbuff'[i].wait = Wbuff[i].wait /\ Wbuff'[i].pri = n
            /\ Wbuff'[i].timeout = Wbuff[i].timeout /\ Wbuff'[i].qos = Wbuff[i].qos
        BY <3>1, <4>1 DEF WriteRec
      <4> QED
        BY <3>2, <4>2 DEF n
    <3>3. CASE Wbuff[i].addr = a /\ ~P
      <4>1. Wbuff'[i] = [Wbuff[i] EXCEPT !.timeout = TRUE]
        BY <2>1, <3>3 DEF Urge
      <4> QED
        BY <3>1, <3>3, <4>1 DEF WriteRec
    <3>4. CASE Wbuff[i].addr # a
      BY <2>1, <3>1, <3>4
    <3> QED
      BY <3>2, <3>3, <3>4
  <2>3. P <=> config.push = "pri"
    OBVIOUS
  <2> HIDE DEF P
  <2>4. SameWrites(Wbuff', Wbuff)
    <3>1. Wbuff' = [i \in 1..Len(Wbuff) |-> Wbuff'[i]]
      BY <2>1
    <3>2. Wbuff' \in [1..Len(Wbuff) -> WriteRec]
      BY <2>2, <3>1
    <3>3. Wbuff' \in Seq(WriteRec) /\ Len(Wbuff') = Len(Wbuff)
      BY <3>2
    <3> QED
      BY <2>2, <3>3 DEF SameWrites
  <2>5. Sorted(Wbuff) => Ranked(Wbuff')
    <3> SUFFICES ASSUME Sorted(Wbuff), NEW i \in 1..Len(Wbuff), NEW j \in 1..Len(Wbuff), i < j
                 PROVE  /\ Wbuff'[j].ready => Wbuff'[i].ready
                        /\ Wbuff'[i].addr = Wbuff'[j].addr =>
                              /\ Wbuff'[i].wait >= Wbuff'[j].wait
                              /\ ~MoreUrgent(Wbuff'[j], Wbuff'[i]) =>
                                    /\ Wbuff'[i].pri <= Wbuff'[j].pri
                                    /\ Wbuff'[j].timeout => Wbuff'[i].timeout
      BY <2>4 DEF Ranked, SameWrites
    <3>1. /\ Wbuff[j].ready => Wbuff[i].ready
          /\ Wbuff[i].addr = Wbuff[j].addr =>
               /\ Wbuff[i].wait >= Wbuff[j].wait
               /\ ~MoreUrgent(Wbuff[j], Wbuff[i]) => /\ Wbuff[i].pri <= Wbuff[j].pri
                                                     /\ Wbuff[j].timeout => Wbuff[i].timeout
      BY DEF Sorted, Ranked
    <3>2. MoreUrgent(Wbuff'[j], Wbuff'[i]) <=> MoreUrgent(Wbuff[j], Wbuff[i])
      BY <2>2 DEF MoreUrgent, Urgency
    <3> QED
      BY <2>2, <3>1, <3>2
  <2>6. Sorted(Wbuff) => Low(Wbuff')
    <3> SUFFICES ASSUME Sorted(Wbuff), NEW i \in 1..Len(Wbuff)
                 PROVE  Wbuff'[i].pri <= Urgency(Wbuff'[i])
      BY <2>4 DEF Low, SameWrites
    <3>1. Wbuff[i].pri <= Urgency(Wbuff[i]) /\ Wbuff[i].qos \in Nat
      BY WriteAt DEF Sorted, Low
    <3>2. Urgency(Wbuff'[i]) = Urgency(Wbuff[i])
      BY <2>2 DEF Urgency
    <3>3. P => 1 <= Urgency(Wbuff[i])
      BY <2>3, <3>1, UrgencyNat
    <3> QED
      BY <2>2, <3>1, <3>2, <3>3
  <2>7. Sorted(Wbuff) => Complete(Wbuff')
    BY <2>2, <2>4 DEF Sorted, Complete, SameWrites
  <2> QED
    BY <2>4, <2>5, <2>6, <2>7 DEF Sorted
<1> QED
  BY <1>1, <1>2

(* A new read waits for the writes that are there; none has overtaken.     *)
LEMMA BaseRead ==
  ASSUME Base, NEW k \in Asks, SameWrites(Wbuff', Wbuff),
         Rbuff' = Append(Rbuff, NewRead(k)), next' = next + 1, UNCHANGED <<queue, left>>
  PROVE  Base'
<1> DEFINE x == NewRead(k)
<1> USE DEF Base
<1>1. k \in Ask
  BY Constants
<1>2. /\ Wbuff \in Seq(WriteRec) /\ Rbuff \in Seq(ReadRec) /\ next \in Nat
      /\ IsFiniteSet(queue) /\ IsFiniteSet(left)
  BY DEF Typed
<1>3. Held(ToSet(Wbuff), k.addr) = Waits(Wbuff, left, k.addr, next)
  <2>1. {c \in ToSet(Wbuff) : c.addr = k.addr} = {c \in ToSet(Wbuff) : c.addr = k.addr /\ c.task < next}
    BY DEF ToSet, Past
  <2>2. Overtaking(left, k.addr, next) = {}
    BY <1>2 DEF Overtaking, Past
  <2>3. Cardinality(Earlier(Wbuff, k.addr, next)) \in Nat /\ Cardinality({}) = 0
    BY <1>2, EarlierFinite, FS_EmptySet
  <2>4. Held(ToSet(Wbuff), k.addr) = Cardinality(Earlier(Wbuff, k.addr, next))
    BY <1>2, <2>1, WritesByTask DEF Held
  <2> QED
    BY <2>2, <2>3, <2>4, RestLess DEF Waits
<1>4. Held(ToSet(Wbuff), k.addr) \in Nat
  <2>1. Cardinality(Earlier(Wbuff, k.addr, next)) \in Nat
    BY <1>2, EarlierFinite
  <2>2. Cardinality(Overtaking(left, k.addr, next)) \in Nat
    BY <1>2, OvertakingFinite
  <2> QED
    BY <1>3, <2>1, <2>2, RestLess DEF Waits
<1>5. Held(queue, k.addr) \in Nat
  <2>1. {c \in queue : c.addr = k.addr} \in SUBSET queue
    OBVIOUS
  <2> QED
    BY <1>2, <2>1, FS_Subset, FS_CardinalityType DEF Held
<1>6. /\ x \in ReadRec /\ x.task = next /\ x.addr = k.addr
      /\ x.gbuf = Waits(Wbuff, left, k.addr, next)
  <2> DEFINE b == config.byp /\ ~full
             g == Held(ToSet(Wbuff), k.addr)
             d == Held(queue, k.addr)
  <2>1. x = [task |-> next, addr |-> k.addr, pri |-> k.pri, wait |-> 0, timeout |-> FALSE,
             active |-> b, gbuf |-> g, dmc |-> d]
    BY DEF NewRead
  <2>2. b \in BOOLEAN /\ g \in Nat /\ d \in Nat /\ g = Waits(Wbuff, left, k.addr, next)
    BY <1>3, <1>4, <1>5
  <2> HIDE DEF x, b, g, d
  <2> QED
    BY <1>1, <1>2, <2>1, <2>2 DEF Ask, ReadRec
<1> HIDE DEF x
<1>7. Rbuff' = Append(Rbuff, x)
  BY DEF x
<1>8. /\ Rbuff' \in Seq(ReadRec) /\ Len(Rbuff') = Len(Rbuff) + 1
      /\ \A i \in 1..Len(Rbuff) : Rbuff'[i] = Rbuff[i]
      /\ Rbuff'[Len(Rbuff) + 1] = x
      /\ \A i \in 1..Len(Rbuff') : i \in 1..Len(Rbuff) \/ i = Len(Rbuff) + 1
  BY <1>2, <1>6, <1>7
<1>9. Typed' /\ Lined(Wbuff')
  BY <1>2, <1>8 DEF Typed, Lined, SameWrites
<1>10. Past'
  <2>1. \A n \in Nat : n < next => n < next'
    BY <1>2
  <2>2. \A i \in 1..Len(Wbuff') : Wbuff'[i].task < next'
    BY <1>2, <2>1, WriteAt DEF Past, SameWrites
  <2>3. \A r \in 1..Len(Rbuff') : Rbuff'[r].task < next'
    BY <1>2, <1>6, <1>8, <2>1, ReadAt DEF Past
  <2> QED
    BY <2>1, <2>2, <2>3 DEF Past
<1>11. Apart'
  <2> SUFFICES ASSUME NEW i \in 1..Len(Wbuff), NEW r \in 1..Len(Rbuff')
               PROVE  Wbuff[i].task # Rbuff'[r].task
    BY DEF Apart, SameWrites
  <2>1. Wbuff[i].task < next /\ Wbuff[i].task \in Nat
    BY <1>2, WriteAt DEF Past
  <2> QED
    BY <1>2, <1>6, <1>8, <2>1 DEF Apart
<1>12. Counted'
  <2> SUFFICES ASSUME NEW r \in 1..Len(Rbuff')
               PROVE  Rbuff'[r].gbuf = Waits(Wbuff, left, Rbuff'[r].addr, Rbuff'[r].task)
    BY EarlierSame DEF Counted, Waits
  <2>1. CASE r \in 1..Len(Rbuff)
    BY <1>8, <2>1 DEF Counted
  <2>2. CASE r = Len(Rbuff) + 1
    BY <1>6, <1>8, <2>2
  <2> QED
    BY <1>8, <2>1, <2>2
<1> QED
  BY <1>9, <1>10, <1>11, <1>12 DEF Lined

-----------------------------------------------------------------------------
(* arb_node, a read: the reads of its address are told of the queue only.  *)
LEMMA ReadsToldOfQueue ==
  ASSUME Rbuff \in Seq(ReadRec), NEW i \in 1..Len(Rbuff), SendRead(i)
  PROVE  FromReads(Rbuff', Rbuff)
<1>1. SameReads(AgedReads, Rbuff)
  BY AgingReads DEF AgedReads
<1>2. AgedReads \in Seq(ReadRec) /\ Len(AgedReads) = Len(Rbuff)
  BY <1>1 DEF SameReads
<1> DEFINE X == [j \in DOMAIN Rbuff |-> IF Rbuff[j].addr = Rbuff[i].addr
                                        THEN [AgedReads[j] EXCEPT !.dmc = less(@)] ELSE AgedReads[j]]
<1>3. SameReads(X, Rbuff)
  <2>1. ASSUME NEW j \in 1..Len(Rbuff)
        PROVE  /\ X[j] \in ReadRec /\ X[j].task = AgedReads[j].task
               /\ X[j].addr = AgedReads[j].addr /\ X[j].gbuf = AgedReads[j].gbuf
    <3>1. AgedReads[j] \in ReadRec /\ AgedReads[j].dmc \in Nat
      BY <1>2, ReadAt
    <3> DEFINE n == less(AgedReads[j].dmc)
    <3>2. n \in Nat
      BY <3>1 DEF less
    <3>3. X[j] = [AgedReads[j] EXCEPT !.dmc = n] \/ X[j] = AgedReads[j]
      OBVIOUS
    <3> HIDE DEF n, X
    <3> QED
      BY <3>1, <3>2, <3>3 DEF ReadRec
  <2>2. X = [j \in 1..Len(Rbuff) |-> X[j]]
    OBVIOUS
  <2> HIDE DEF X
  <2>3. X \in [1..Len(Rbuff) -> ReadRec]
    BY <2>1, <2>2
  <2>4. X \in Seq(ReadRec) /\ Len(X) = Len(Rbuff)
    BY <2>3
  <2> QED
    BY <1>1, <2>1, <2>4 DEF SameReads
<1>4. Rbuff' = RemoveAt(Grown(X), i)
  BY DEF SendRead
<1> HIDE DEF X
<1>5. SameReads(Grown(X), Rbuff)
  <2>1. X \in Seq(ReadRec)
    BY <1>3 DEF SameReads
  <2> QED
    BY <1>3, <2>1, AgingReads, SameTwice
<1>6. Len(Grown(X)) = Len(Rbuff)
  BY <1>5 DEF SameReads
<1> QED
  BY <1>4, <1>5, <1>6, RemovedFrom

(* In each cycle the writes grow old.                                      *)
LEMMA WritesOlder ==
  ASSUME Wbuff \in Seq(WriteRec)
  PROVE  SameWrites(Grown(AgedWrites), Wbuff) /\ (Sorted(Wbuff) => Sorted(Grown(AgedWrites)))
<1>1. SameWrites(AgedWrites, Wbuff) /\ (Sorted(Wbuff) => Sorted(AgedWrites))
  BY Aging
<1>2. AgedWrites \in Seq(WriteRec)
  BY <1>1 DEF SameWrites
<1> QED
  BY <1>1, <1>2, Growing, SameWritesTwice

(* arb_node: a read leaves.                                                *)
LEMMA BaseSendRead ==
  ASSUME Base, NEW i \in ReadCands, SendRead(i), UNCHANGED next
  PROVE  Base'
<1> USE DEF Base
<1>1. /\ Wbuff \in Seq(WriteRec) /\ Rbuff \in Seq(ReadRec) /\ i \in 1..Len(Rbuff)
      /\ IsFiniteSet(queue) /\ IsFiniteSet(left)
  BY DEF Typed, ReadCands
<1> DEFINE c == Cmd(Rbuff[i], "READ", Rbuff[i].pri)
<1>2. /\ left' = left \cup {c} /\ queue' = queue \cup {c} /\ Wbuff' = Grown(AgedWrites)
  BY DEF SendRead, Takes
<1>3. c.task = Rbuff[i].task /\ c.type = "READ"
  BY DEF Cmd
<1> HIDE DEF c
<1>4. SameWrites(Wbuff', Wbuff) /\ FromReads(Rbuff', Rbuff)
  BY <1>1, <1>2, WritesOlder, ReadsToldOfQueue
<1>5. c.task \in Nat /\ c.task < next /\ \A j \in 1..Len(Wbuff) : c.task # Wbuff[j].task
  BY <1>1, <1>3, ReadAt DEF Past, Apart
<1> QED
  BY <1>1, <1>2, <1>3, <1>4, <1>5, FS_AddElement, BaseSame

(* It has waited for every write before it, or for one that has overtaken. *)
LEMMA OrderSendRead ==
  ASSUME Base, Order, NEW i \in ReadCands, SendRead(i), UNCHANGED config
  PROVE  Order'
<1>1. /\ Wbuff \in Seq(WriteRec) /\ Rbuff \in Seq(ReadRec)
      /\ IsFiniteSet(left)
  BY DEF Base, Typed
<1>2. i \in 1..Len(Rbuff) /\ ReadMay(AgedReads[i])
  BY <1>1 DEF ReadCands
<1> DEFINE t == Rbuff[i].task
           a == Rbuff[i].addr
           c == Cmd(Rbuff[i], "READ", Rbuff[i].pri)
<1>3. Rbuff[i].gbuf = 0 /\ t \in Nat
  <2>1. SameReads(AgedReads, Rbuff)
    BY <1>1, AgingReads DEF AgedReads
  <2>2. AgedReads[i].dmc \in Nat /\ AgedReads[i].gbuf \in Nat
    BY <1>2, <2>1, ReadAt DEF SameReads
  <2>3. AgedReads[i].dmc + AgedReads[i].gbuf = 0
    BY <1>2 DEF ReadMay
  <2> QED
    BY <1>1, <1>2, <2>1, <2>2, <2>3, ReadAt DEF SameReads
<1>4. left' = left \cup {c} /\ Wbuff' = Grown(AgedWrites)
  BY DEF SendRead, Takes
<1>5. c.task = t /\ c.addr = a /\ c.type = "READ"
  BY DEF Cmd
<1> HIDE DEF c
<1>6. SameWrites(Wbuff', Wbuff) /\ Sorted(Wbuff')
  BY <1>1, <1>4, WritesOlder DEF Order
<1>7. ASSUME NEW j \in 1..Len(Wbuff), Wbuff[j].addr = a PROVE Passes(c, Wbuff[j], left)
  <2>1. Wbuff[j].task \in Nat /\ Wbuff[j].task # t
    BY <1>1, <1>2, WriteAt DEF Base, Apart
  <2>2. CASE t < Wbuff[j].task
    BY <1>5, <2>2 DEF Passes
  <2>3. CASE Wbuff[j].task < t
    <3> DEFINE E == Earlier(Wbuff, a, t)
               O == Overtaking(left, a, t)
    <3>1. Wbuff[j].task \in E
      BY <1>7, <2>3 DEF Earlier
    <3>2. IsFiniteSet(E) /\ Cardinality(E) \in Nat /\ IsFiniteSet(O) /\ Cardinality(O) \in Nat
      BY <1>1, <1>3, EarlierFinite, OvertakingFinite
    <3>3. Rest(Cardinality(E), Cardinality(O)) = 0
      BY <1>2, <1>3 DEF Base, Counted, Waits
    <3> HIDE DEF E, O
    <3>4. Cardinality(E) # 0
      BY <3>1, <3>2, FS_EmptySet
    <3>5. O # {}
      BY <3>2, <3>3, <3>4, RestLess, FS_EmptySet
    <3>6. PICK d \in left : d.type = "WRITE" /\ d.addr = a /\ t < d.task
      BY <3>5 DEF O, Overtaking
    <3>7. d.task \in Nat
      BY DEF Base, Past
    <3>8. Passes(d, Wbuff[j], left) /\ ~(d.task < Wbuff[j].task)
      BY <1>3, <1>7, <2>1, <2>3, <3>6, <3>7 DEF Order, Left
    <3>9. MoreUrgent(d, Wbuff[j])
      BY <3>6, <3>8 DEF Passes
    <3> QED
      BY <1>5, <1>7, <3>6, <3>9 DEF Passes
  <2> QED
    BY <1>3, <2>1, <2>2, <2>3
<1>8. Left'
  BY <1>4, <1>5, <1>6, <1>7, LeftSame DEF Order
<1> QED
  BY <1>6, <1>8, SortedNext DEF Order

(* Nothing is sent, as there is nothing, or the controller refuses it.     *)
LEMMA BaseNone ==
  ASSUME Base, NEW R, NEW W, SameReads(R, Rbuff), SameWrites(W, Wbuff), SendNone(R, W), UNCHANGED next
  PROVE  Base'
<1>1. /\ IsFiniteSet(queue) /\ IsFiniteSet(left) /\ R \in Seq(ReadRec) /\ W \in Seq(WriteRec)
  BY DEF Base, Typed, SameReads, SameWrites
<1>2. Rbuff' = Grown(R) /\ Wbuff' = Grown(W) /\ queue' = queue /\ left' = left
  BY DEF SendNone, Refuses
<1>3. SameWrites(Wbuff', Wbuff)
  BY <1>1, <1>2, Growing, SameWritesTwice
<1>4. FromReads(Rbuff', Rbuff)
  BY <1>1, <1>2, AgingReads, SameTwice, SameFrom
<1> QED
  BY <1>1, <1>2, <1>3, <1>4, BaseSame

LEMMA OrderNone ==
  ASSUME Base, Order, SendNone(AgedReads, AgedWrites), UNCHANGED config
  PROVE  Order'
<1>1. Wbuff \in Seq(WriteRec)
  BY DEF Base, Typed
<1>2. Wbuff' = Grown(AgedWrites) /\ left' = left
  BY DEF SendNone, Refuses
<1>3. SameWrites(Wbuff', Wbuff) /\ Sorted(Wbuff')
  BY <1>1, <1>2, WritesOlder DEF Order
<1>4. Left'
  BY <1>2, <1>3, LeftSame DEF Order
<1> QED
  BY <1>3, <1>4, SortedNext DEF Order

(* A command that the controller refuses is reset; it stays what it is.    *)
LEMMA RefusedSame ==
  ASSUME Wbuff \in Seq(WriteRec), Rbuff \in Seq(ReadRec)
  PROVE  /\ \A i \in 1..Len(Rbuff) : SameReads([AgedReads EXCEPT ![i].timeout = TRUE], Rbuff)
         /\ \A i \in 1..Len(Wbuff) :
               SameWrites([AgedWrites EXCEPT ![i].ready = FALSE, ![i].pri = Wbuff[i].qos], Wbuff)
<1>1. SameReads(AgedReads, Rbuff) /\ SameWrites(AgedWrites, Wbuff)
  BY Aging, AgingReads DEF AgedReads
<1>2. ASSUME NEW i \in 1..Len(Rbuff)
      PROVE  SameReads([AgedReads EXCEPT ![i].timeout = TRUE], Rbuff)
  <2> DEFINE x == [AgedReads[i] EXCEPT !.timeout = TRUE]
             X == [AgedReads EXCEPT ![i].timeout = TRUE]
  <2>1. AgedReads \in Seq(ReadRec) /\ Len(AgedReads) = Len(Rbuff)
    BY <1>1 DEF SameReads
  <2>2. AgedReads[i] \in ReadRec
    BY <2>1, ReadAt
  <2>3. x \in ReadRec /\ x.task = AgedReads[i].task /\ x.addr = AgedReads[i].addr /\ x.gbuf = AgedReads[i].gbuf
    BY <2>2 DEF ReadRec
  <2>4. X = [AgedReads EXCEPT ![i] = x]
    OBVIOUS
  <2> HIDE DEF x, X
  <2>5. X \in Seq(ReadRec) /\ Len(X) = Len(Rbuff)
    BY <2>1, <2>3, <2>4
  <2>6. \A j \in 1..Len(Rbuff) : X[j] = IF j = i THEN x ELSE AgedReads[j]
    BY <2>1, <2>4
  <2>7. SameReads(X, Rbuff)
    BY <1>1, <2>3, <2>5, <2>6 DEF SameReads
  <2> QED
    BY <2>7 DEF X
<1>3. ASSUME NEW i \in 1..Len(Wbuff)
      PROVE  SameWrites([AgedWrites EXCEPT ![i].ready = FALSE, ![i].pri = Wbuff[i].qos], Wbuff)
  <2> DEFINE q == Wbuff[i].qos
             x == [AgedWrites[i] EXCEPT !.ready = FALSE, !.pri = q]
             X == [AgedWrites EXCEPT ![i].ready = FALSE, ![i].pri = Wbuff[i].qos]
  <2>1. AgedWrites \in Seq(WriteRec) /\ Len(AgedWrites) = Len(Wbuff)
    BY <1>1 DEF SameWrites
  <2>2. AgedWrites[i] \in WriteRec /\ q \in Nat
    BY <2>1, WriteAt
  <2>3. X = [AgedWrites EXCEPT ![i] = x]
    BY <2>1
  <2>4. x = [AgedWrites[i] EXCEPT !.ready = FALSE, !.pri = q]
    OBVIOUS
  <2> HIDE DEF q, x, X
  <2>5. x \in WriteRec /\ x.task = AgedWrites[i].task /\ x.addr = AgedWrites[i].addr /\ x.qos = AgedWrites[i].qos
    BY <2>2, <2>4 DEF WriteRec
  <2>6. X \in Seq(WriteRec) /\ Len(X) = Len(Wbuff)
    BY <2>1, <2>3, <2>5
  <2>7. \A j \in 1..Len(Wbuff) : X[j] = IF j = i THEN x ELSE AgedWrites[j]
    BY <2>1, <2>3
  <2>8. SameWrites(X, Wbuff)
    BY <1>1, <2>5, <2>6, <2>7 DEF SameWrites
  <2> QED
    BY <2>8 DEF X
<1> QED
  BY <1>2, <1>3

(* When a write leaves, the order of the others is what it was.            *)
LEMMA SortedRemoved ==
  ASSUME NEW W \in Seq(WriteRec), NEW n \in 1..Len(W)
  PROVE  /\ Lined(W) => Lined(RemoveAt(W, n))
         /\ Sorted(W) => Sorted(RemoveAt(W, n))
<1> DEFINE V == RemoveAt(W, n)
           at(k) == IF k < n THEN k ELSE k + 1
<1>1. /\ Len(V) = Len(W) - 1
      /\ \A k \in 1..Len(V) : V[k] = W[at(k)]
  BY Removed
<1>2. /\ \A k \in 1..Len(V) : at(k) \in 1..Len(W)
      /\ \A i, j \in 1..Len(V) : i < j => at(i) < at(j)
  BY <1>1
<1> HIDE DEF V, at
<1>3. Sorted(W) => Ranked(V)
  <2> SUFFICES ASSUME Sorted(W), NEW i \in 1..Len(V), NEW j \in 1..Len(V), i < j
               PROVE  /\ V[j].ready => V[i].ready
                      /\ V[i].addr = V[j].addr =>
                            /\ V[i].wait >= V[j].wait
                            /\ ~MoreUrgent(V[j], V[i]) => /\ V[i].pri <= V[j].pri
                                                          /\ V[j].timeout => V[i].timeout
    BY DEF Ranked
  <2>1. V[i] = W[at(i)] /\ V[j] = W[at(j)] /\ at(i) \in 1..Len(W) /\ at(j) \in 1..Len(W) /\ at(i) < at(j)
    BY <1>1, <1>2
  <2> QED
    BY <2>1 DEF Sorted, Ranked
<1>4. Sorted(W) => Low(V) /\ Complete(V)
  BY <1>1, <1>2 DEF Sorted, Low, Complete
<1>5. Lined(W) => Lined(V)
  BY <1>1, <1>2 DEF Lined
<1> QED
  BY <1>3, <1>4, <1>5 DEF V, Sorted

(* What stays when write i leaves.                                         *)
LEMMA OthersStay ==
  ASSUME Wbuff \in Seq(WriteRec), NEW i \in 1..Len(Wbuff), SendWrite(i)
  PROVE  /\ Wbuff' \in Seq(WriteRec) /\ Len(Wbuff') = Len(Wbuff) - 1
         /\ Sorted(Wbuff) => Sorted(Wbuff')
         /\ Lined(Wbuff) => Lined(Wbuff')
         /\ \A k \in 1..Len(Wbuff') : \E j \in 1..Len(Wbuff) :
               /\ j # i /\ Wbuff'[k].task = Wbuff[j].task
               /\ Wbuff'[k].addr = Wbuff[j].addr /\ Wbuff'[k].qos = Wbuff[j].qos
         /\ Lined(Wbuff) => \A a : \A t \in Nat :
               Earlier(Wbuff', a, t) = Earlier(Wbuff, a, t) \ {Wbuff[i].task}
<1> DEFINE G == Grown(AgedWrites)
<1>1. SameWrites(G, Wbuff) /\ (Sorted(Wbuff) => Sorted(G))
  BY WritesOlder
<1>2. Wbuff' = RemoveAt(G, i)
  BY DEF SendWrite
<1> HIDE DEF G
<1>3. /\ G \in Seq(WriteRec) /\ Len(G) = Len(Wbuff) /\ i \in 1..Len(G)
      /\ \A k \in 1..Len(G) : /\ G[k].task = Wbuff[k].task /\ G[k].addr = Wbuff[k].addr
                              /\ G[k].qos = Wbuff[k].qos
  BY <1>1 DEF SameWrites
<1>4. Lined(Wbuff) => Lined(G)
  BY <1>3 DEF Lined
<1>5. Wbuff' \in Seq(WriteRec) /\ Len(Wbuff') = Len(Wbuff) - 1
  BY <1>2, <1>3, Removed
<1>6. ASSUME NEW k \in 1..Len(Wbuff')
      PROVE  \E j \in 1..Len(Wbuff) : /\ j # i /\ Wbuff'[k].task = Wbuff[j].task
                                      /\ Wbuff'[k].addr = Wbuff[j].addr /\ Wbuff'[k].qos = Wbuff[j].qos
  <2> DEFINE j == IF k < i THEN k ELSE k + 1
  <2>1. j \in 1..Len(Wbuff) /\ j # i
    BY <1>5
  <2>2. Wbuff'[k] = G[j]
    <3>1. i \in 1..Len(G) /\ k \in 1..(Len(G) - 1)
      BY <1>3, <1>5
    <3>2. RemoveAt(G, i)[k] = G[IF k < i THEN k ELSE k + 1]
      BY <1>3, <3>1, Removed
    <3> QED
      BY <1>2, <3>2
  <2> HIDE DEF j
  <2> QED
    BY <1>3, <2>1, <2>2
<1>7. ASSUME Lined(Wbuff), NEW a, NEW t \in Nat
      PROVE  Earlier(Wbuff', a, t) = Earlier(Wbuff, a, t) \ {Wbuff[i].task}
  BY <1>1, <1>2, <1>3, <1>4, <1>7, EarlierRemoved, EarlierSame
<1> QED
  BY <1>1, <1>2, <1>3, <1>4, <1>5, <1>6, <1>7, SortedRemoved

(* arb_node, a write: the reads of its address are told.                   *)
LEMMA ReadsToldOfWrite ==
  ASSUME Rbuff \in Seq(ReadRec), NEW w
  PROVE  /\ Told(w) \in Seq(ReadRec) /\ Len(Told(w)) = Len(Rbuff)
         /\ \A r \in 1..Len(Rbuff) :
               /\ Told(w)[r].task = Rbuff[r].task /\ Told(w)[r].addr = Rbuff[r].addr
               /\ Told(w)[r].gbuf = IF Rbuff[r].addr = w.addr THEN less(Rbuff[r].gbuf)
                                                              ELSE Rbuff[r].gbuf
<1> DEFINE X == [j \in DOMAIN Rbuff |-> IF Rbuff[j].addr = w.addr
                                        THEN [AgedReads[j] EXCEPT !.gbuf = less(@)] ELSE AgedReads[j]]
<1>1. /\ AgedReads \in Seq(ReadRec) /\ Len(AgedReads) = Len(Rbuff)
      /\ \A j \in 1..Len(Rbuff) : /\ AgedReads[j].task = Rbuff[j].task
                                  /\ AgedReads[j].addr = Rbuff[j].addr
                                  /\ AgedReads[j].gbuf = Rbuff[j].gbuf
  BY AgingReads DEF AgedReads, SameReads
<1>2. ASSUME NEW j \in 1..Len(Rbuff)
      PROVE  /\ X[j] \in ReadRec /\ X[j].task = Rbuff[j].task /\ X[j].addr = Rbuff[j].addr
             /\ X[j].gbuf = IF Rbuff[j].addr = w.addr THEN less(Rbuff[j].gbuf) ELSE Rbuff[j].gbuf
  <2>1. AgedReads[j] \in ReadRec /\ AgedReads[j].gbuf \in Nat
    BY <1>1, ReadAt
  <2> DEFINE n == less(AgedReads[j].gbuf)
  <2>2. n \in Nat /\ n = less(Rbuff[j].gbuf)
    BY <1>1, <2>1 DEF less
  <2>3. X[j] = IF Rbuff[j].addr = w.addr THEN [AgedReads[j] EXCEPT !.gbuf = n] ELSE AgedReads[j]
    OBVIOUS
  <2> HIDE DEF n, X
  <2>4. CASE Rbuff[j].addr = w.addr
    <3>1. X[j] = [AgedReads[j] EXCEPT !.gbuf = n]
      BY <2>3, <2>4
    <3>2. /\ X[j] \in ReadRec /\ X[j].task = AgedReads[j].task
          /\ X[j].addr = AgedReads[j].addr /\ X[j].gbuf = n
      BY <2>1, <2>2, <3>1 DEF ReadRec
    <3> QED
      BY <1>1, <2>2, <2>4, <3>2
  <2>5. CASE Rbuff[j].addr # w.addr
    BY <1>1, <2>1, <2>3, <2>5
  <2> QED
    BY <2>4, <2>5
<1>3. Told(w) = Grown(X)
  BY DEF Told
<1>4. X = [j \in 1..Len(Rbuff) |-> X[j]]
  OBVIOUS
<1> HIDE DEF X
<1>5. X \in [1..Len(Rbuff) -> ReadRec]
  BY <1>2, <1>4
<1>6. X \in Seq(ReadRec) /\ Len(X) = Len(Rbuff)
  BY <1>5
<1>7. SameReads(Told(w), X)
  BY <1>3, <1>6, AgingReads
<1> QED
  BY <1>2, <1>6, <1>7 DEF SameReads

(* A write that leaves is one less of those before a later read, and one   *)
(* more of those that have overtaken for an earlier one.                   *)
LEMMA BaseSendWrite ==
  ASSUME Base, NEW i \in 1..Len(Wbuff), SendWrite(i), UNCHANGED next
  PROVE  Base'
<1> USE DEF Base
<1>1. /\ Wbuff \in Seq(WriteRec) /\ Rbuff \in Seq(ReadRec) /\ next \in Nat
      /\ IsFiniteSet(queue) /\ IsFiniteSet(left) /\ Lined(Wbuff)
  BY DEF Typed
<1> DEFINE c == Cmd(Wbuff[i], "WRITE", Wbuff[i].qos)
           t == Wbuff[i].task
<1>2. Rbuff' = Told(Wbuff[i]) /\ left' = left \cup {c} /\ queue' = queue \cup {c}
  BY DEF SendWrite, Takes
<1>3. c.task = t /\ c.addr = Wbuff[i].addr /\ c.type = "WRITE"
  BY DEF Cmd
<1> HIDE DEF c
<1>4. t \in Nat /\ t < next /\ c \notin left
  BY <1>1, <1>3, WriteAt DEF Past, Apart
<1>5. /\ Wbuff' \in Seq(WriteRec) /\ Len(Wbuff') = Len(Wbuff) - 1 /\ Lined(Wbuff')
      /\ \A k \in 1..Len(Wbuff') : \E j \in 1..Len(Wbuff) :
            /\ j # i /\ Wbuff'[k].task = Wbuff[j].task /\ Wbuff'[k].addr = Wbuff[j].addr
  BY <1>1, OthersStay
<1>6. /\ Rbuff' \in Seq(ReadRec) /\ Len(Rbuff') = Len(Rbuff)
      /\ \A r \in 1..Len(Rbuff) :
            /\ Rbuff'[r].task = Rbuff[r].task /\ Rbuff'[r].addr = Rbuff[r].addr
            /\ Rbuff'[r].gbuf = IF Rbuff[r].addr = Wbuff[i].addr THEN less(Rbuff[r].gbuf)
                                                                 ELSE Rbuff[r].gbuf
  BY <1>1, <1>2, ReadsToldOfWrite
<1>7. Typed'
  BY <1>1, <1>2, <1>5, <1>6, FS_AddElement DEF Typed
<1>8. Past'
  <2>1. \A x \in left' : x \in left \/ x = c
    BY <1>2
  <2> QED
    BY <1>3, <1>4, <1>5, <1>6, <2>1 DEF Past
<1>9. Apart'
  <2>1. \A j \in 1..Len(Wbuff) : j # i => Wbuff[j].task # t
    BY <1>1, WriteAt DEF Lined
  <2>2. ASSUME NEW k \in 1..Len(Wbuff'), NEW r \in 1..Len(Rbuff') PROVE Wbuff'[k].task # Rbuff'[r].task
    <3>1. PICK j \in 1..Len(Wbuff) : Wbuff'[k].task = Wbuff[j].task
      BY <1>5
    <3>2. r \in 1..Len(Rbuff) /\ Rbuff'[r].task = Rbuff[r].task
      BY <1>6
    <3>3. Wbuff[j].task # Rbuff[r].task
      BY <3>2 DEF Apart
    <3> QED
      BY <3>1, <3>2, <3>3
  <2>3. ASSUME NEW k \in 1..Len(Wbuff'), NEW x \in left' PROVE x.task # Wbuff'[k].task
    <3>1. PICK j \in 1..Len(Wbuff) : j # i /\ Wbuff'[k].task = Wbuff[j].task
      BY <1>5
    <3>2. CASE x \in left
      BY <3>1, <3>2 DEF Apart
    <3>3. CASE x = c
      BY <1>3, <2>1, <3>1, <3>3
    <3> QED
      BY <1>2, <3>2, <3>3
  <2> QED
    BY <2>2, <2>3 DEF Apart
<1>10. Counted'
  <2> SUFFICES ASSUME NEW r \in 1..Len(Rbuff)
               PROVE  Rbuff'[r].gbuf = Waits(Wbuff', left', Rbuff[r].addr, Rbuff[r].task)
    BY <1>6 DEF Counted
  <2> DEFINE a == Rbuff[r].addr
             n == Rbuff[r].task
             E == Earlier(Wbuff, a, n)
             O == Overtaking(left, a, n)
             e == Cardinality(E)
             o == Cardinality(O)
  <2>1. n \in Nat /\ n # t
    BY <1>1, ReadAt DEF Apart
  <2>2. Earlier(Wbuff', a, n) = E \ {t}
    <3>1. a \in Nat \X {0, 1}
      BY <1>1, ReadAt DEF ReadRec
    <3> QED
      BY <1>1, <2>1, <3>1, OthersStay
  <2>3. /\ IsFiniteSet(E) /\ e \in Nat /\ IsFiniteSet(O) /\ o \in Nat
        /\ Rbuff[r].gbuf = Rest(e, o)
    BY <1>1, <2>1, EarlierFinite, OvertakingFinite DEF Counted, Waits
  <2>4. \A j, k \in 1..Len(Wbuff) : Wbuff[j].task = Wbuff[k].task => j = k
    BY <1>1, WriteAt DEF Lined
  <2>5. t \in E <=> a = Wbuff[i].addr /\ t < n
    BY <2>4 DEF Earlier
  <2>6. Overtaking(left', a, n) = IF a = Wbuff[i].addr /\ n < t THEN O \cup {c} ELSE O
    BY <1>2, <1>3 DEF Overtaking
  <2>7. c \notin O
    BY <1>4 DEF Overtaking
  <2> HIDE DEF E, O
  <2>8. CASE a # Wbuff[i].addr
    <3>1. E \ {t} = E
      BY <2>5, <2>8
    <3> QED
      BY <1>6, <2>2, <2>3, <2>6, <2>8, <3>1 DEF Waits
  <2>9. CASE a = Wbuff[i].addr /\ t < n
    <3>1. Cardinality(E \ {t}) = e - 1 /\ e # 0
      BY <2>3, <2>5, <2>9, FS_RemoveElement, FS_EmptySet
    <3>2. Overtaking(left', a, n) = O
      BY <1>4, <2>1, <2>6, <2>9
    <3>3. Rest(e - 1, o) = less(Rest(e, o))
      BY <2>3, <3>1, RestLess
    <3>4. Rbuff'[r].gbuf = less(Rest(e, o))
      BY <1>6, <2>3, <2>9
    <3> QED
      BY <2>2, <3>1, <3>2, <3>3, <3>4 DEF Waits
  <2>10. CASE a = Wbuff[i].addr /\ n < t
    <3>1. E \ {t} = E
      BY <1>4, <2>1, <2>5, <2>10
    <3>2. Cardinality(O \cup {c}) = o + 1
      BY <2>3, <2>7, FS_AddElement
    <3>3. Rest(e, o + 1) = less(Rest(e, o))
      BY <2>3, RestLess
    <3>4. Rbuff'[r].gbuf = less(Rest(e, o))
      BY <1>6, <2>3, <2>10
    <3> QED
      BY <2>2, <2>6, <2>10, <3>1, <3>2, <3>3, <3>4 DEF Waits
  <2> QED
    BY <1>4, <2>1, <2>8, <2>9, <2>10
<1> QED
  BY <1>5, <1>7, <1>8, <1>9, <1>10 DEF Lined

LEMMA OrderSendWrite ==
  ASSUME Base, Order, NEW i \in 1..Len(Wbuff),
         \A j \in 1..Len(Wbuff) : Wbuff[j].addr = Wbuff[i].addr /\ j < i => MoreUrgent(Wbuff[i], Wbuff[j]),
         SendWrite(i), UNCHANGED config
  PROVE  Order'
<1>1. Wbuff \in Seq(WriteRec) /\ Lined(Wbuff)
  BY DEF Base, Typed
<1> DEFINE c == Cmd(Wbuff[i], "WRITE", Wbuff[i].qos)
<1>2. left' = left \cup {c}
  BY DEF SendWrite, Takes
<1>3. c.task = Wbuff[i].task /\ c.addr = Wbuff[i].addr /\ c.type = "WRITE" /\ c.qos = Wbuff[i].qos
  BY DEF Cmd
<1> HIDE DEF c
<1>4. /\ Sorted(Wbuff')
      /\ \A k \in 1..Len(Wbuff') : \E j \in 1..Len(Wbuff) :
            /\ j # i /\ Wbuff'[k].task = Wbuff[j].task
            /\ Wbuff'[k].addr = Wbuff[j].addr /\ Wbuff'[k].qos = Wbuff[j].qos
  BY <1>1, OthersStay DEF Order
<1>5. Left'
  <2> SUFFICES ASSUME NEW k \in 1..Len(Wbuff'), NEW x \in left', x.addr = Wbuff'[k].addr
               PROVE  Passes(x, Wbuff[k], left)'
    BY DEF Left
  <2>1. PICK j \in 1..Len(Wbuff) : /\ j # i /\ Wbuff'[k].task = Wbuff[j].task
                                   /\ Wbuff'[k].addr = Wbuff[j].addr /\ Wbuff'[k].qos = Wbuff[j].qos
    BY <1>4
  <2>2. CASE x \in left
    <3>1. Passes(x, Wbuff[j], left)
      BY <2>1, <2>2 DEF Order, Left
    <3> QED
      BY <1>2, <2>1, <3>1 DEF Passes, MoreUrgent, Urgency
  <2>3. CASE x = c
    <3>1. i < j => x.task < Wbuff'[k].task
      BY <1>1, <1>3, <2>1, <2>3 DEF Lined
    <3>2. j < i => MoreUrgent(Wbuff[i], Wbuff[j])
      BY <1>3, <2>1, <2>3
    <3>3. j < i => MoreUrgent(x, Wbuff[k])'
      BY <1>3, <2>1, <2>3, <3>2 DEF MoreUrgent, Urgency
    <3> QED
      BY <1>3, <2>1, <2>3, <3>1, <3>3 DEF Passes
  <2> QED
    BY <1>2, <2>2, <2>3
<1> QED
  BY <1>4, <1>5, SortedNext DEF Order

(* addData: the data of the first write without any have come.             *)
LEMMA DataSame ==
  ASSUME Wbuff \in Seq(WriteRec), AddData
  PROVE  SameWrites(Wbuff', Wbuff) /\ (Sorted(Wbuff) => Sorted(Wbuff'))
<1> DEFINE i == Min(Incomplete)
<1>1. Wbuff' = [Wbuff EXCEPT ![i].ready = TRUE]
  BY DEF AddData
<1>2. Incomplete = {j \in 1..Len(Wbuff) : ~Wbuff[j].ready} /\ Incomplete # {}
  BY DEF AddData, Incomplete
<1>3. i \in Incomplete /\ \A j \in Incomplete : i <= j
  <2>1. Incomplete \in SUBSET Nat
    BY <1>2
  <2> HIDE DEF i
  <2>2. Min(Incomplete) \in Incomplete /\ \A j \in Incomplete : Min(Incomplete) <= j
    BY <1>2, <2>1, LeastOne
  <2> QED
    BY <2>2 DEF i
<1> HIDE DEF i
<1>4. i \in 1..Len(Wbuff) /\ \A j \in 1..Len(Wbuff) : j < i => Wbuff[j].ready
  BY <1>2, <1>3
<1>5. Wbuff' = [j \in 1..Len(Wbuff) |-> IF j = i THEN [Wbuff[j] EXCEPT !.ready = TRUE] ELSE Wbuff[j]]
  <2>1. DOMAIN Wbuff = 1..Len(Wbuff)
    OBVIOUS
  <2>2. Wbuff' = [j \in DOMAIN Wbuff |-> IF j = i THEN [Wbuff[j] EXCEPT !.ready = TRUE] ELSE Wbuff[j]]
    BY <1>1, Zenon
  <2> QED
    BY <2>1, <2>2
<1>6. ASSUME NEW j \in 1..Len(Wbuff)
      PROVE  /\ Wbuff'[j] \in WriteRec /\ Wbuff'[j].task = Wbuff[j].task /\ Wbuff'[j].addr = Wbuff[j].addr
             /\ Wbuff'[j].pri = Wbuff[j].pri /\ Wbuff'[j].wait = Wbuff[j].wait
             /\ Wbuff'[j].timeout = Wbuff[j].timeout /\ Wbuff'[j].qos = Wbuff[j].qos
             /\ Wbuff'[j].ready = IF j = i THEN TRUE ELSE Wbuff[j].ready
  <2>1. Wbuff[j] \in WriteRec
    BY WriteAt
  <2>2. CASE j = i
    <3>1. Wbuff'[j] = [Wbuff[j] EXCEPT !.ready = TRUE]
      BY <1>5, <2>2
    <3> QED
      BY <2>1, <2>2, <3>1 DEF WriteRec
  <2>3. CASE j # i
    <3>1. Wbuff'[j] = Wbuff[j]
      BY <1>5, <2>3
    <3> QED
      BY <2>1, <2>3, <3>1
  <2> QED
    BY <2>2, <2>3
<1>7. Wbuff' \in Seq(WriteRec) /\ Len(Wbuff') = Len(Wbuff)
  <2>1. Wbuff' = [j \in 1..Len(Wbuff) |-> Wbuff'[j]]
    BY <1>5
  <2>2. Wbuff' \in [1..Len(Wbuff) -> WriteRec]
    BY <1>6, <2>1
  <2> QED
    BY <2>2
<1>8. SameWrites(Wbuff', Wbuff)
  BY <1>6, <1>7 DEF SameWrites
<1>9. Sorted(Wbuff) => Ranked(Wbuff')
  <2> SUFFICES ASSUME Sorted(Wbuff), NEW j \in 1..Len(Wbuff), NEW k \in 1..Len(Wbuff), j < k
               PROVE  /\ Wbuff'[k].ready => Wbuff'[j].ready
                      /\ Wbuff'[j].addr = Wbuff'[k].addr =>
                            /\ Wbuff'[j].wait >= Wbuff'[k].wait
                            /\ ~MoreUrgent(Wbuff'[k], Wbuff'[j]) =>
                                  /\ Wbuff'[j].pri <= Wbuff'[k].pri
                                  /\ Wbuff'[k].timeout => Wbuff'[j].timeout
    BY <1>7 DEF Ranked
  <2>1. /\ Wbuff[k].ready => Wbuff[j].ready
        /\ Wbuff[j].addr = Wbuff[k].addr =>
              /\ Wbuff[j].wait >= Wbuff[k].wait
              /\ ~MoreUrgent(Wbuff[k], Wbuff[j]) => /\ Wbuff[j].pri <= Wbuff[k].pri
                                                    /\ Wbuff[k].timeout => Wbuff[j].timeout
    BY DEF Sorted, Ranked
  <2>2. MoreUrgent(Wbuff'[k], Wbuff'[j]) <=> MoreUrgent(Wbuff[k], Wbuff[j])
    BY <1>6 DEF MoreUrgent, Urgency
  <2>3. Wbuff'[k].ready => Wbuff'[j].ready
    BY <1>4, <1>6, <2>1
  <2> QED
    BY <1>6, <2>1, <2>2, <2>3
<1>10. Sorted(Wbuff) => Low(Wbuff') /\ Complete(Wbuff')
  BY <1>6, <1>7 DEF Sorted, Low, Complete, Urgency
<1> QED
  BY <1>8, <1>9, <1>10 DEF Sorted

(* The controller ends a command: the reads are told of the queue only.    *)
LEMMA ReleaseSame ==
  ASSUME Rbuff \in Seq(ReadRec), NEW q, Release(q)
  PROVE  SameReads(Rbuff', Rbuff)
<1>1. Rbuff' = [i \in DOMAIN Rbuff |->
                    IF Rbuff[i].addr = q.addr THEN [Rbuff[i] EXCEPT !.dmc = less(@)] ELSE Rbuff[i]]
  BY DEF Release
<1>2. ASSUME NEW j \in 1..Len(Rbuff)
      PROVE  /\ Rbuff'[j] \in ReadRec /\ Rbuff'[j].task = Rbuff[j].task
             /\ Rbuff'[j].addr = Rbuff[j].addr /\ Rbuff'[j].gbuf = Rbuff[j].gbuf
  <2>1. Rbuff[j] \in ReadRec /\ Rbuff[j].dmc \in Nat
    BY ReadAt
  <2> DEFINE n == less(Rbuff[j].dmc)
  <2>2. n \in Nat
    BY <2>1 DEF less
  <2>3. Rbuff'[j] = [Rbuff[j] EXCEPT !.dmc = n] \/ Rbuff'[j] = Rbuff[j]
    <3>1. DOMAIN Rbuff = 1..Len(Rbuff)
      OBVIOUS
    <3> QED
      BY <1>1, <3>1, Zenon
  <2> HIDE DEF n
  <2> QED
    BY <2>1, <2>2, <2>3 DEF ReadRec
<1>3. Rbuff' = [j \in 1..Len(Rbuff) |-> Rbuff'[j]]
  BY <1>1
<1>4. Rbuff' \in [1..Len(Rbuff) -> ReadRec]
  BY <1>2, <1>3
<1>5. Rbuff' \in Seq(ReadRec) /\ Len(Rbuff') = Len(Rbuff)
  BY <1>4
<1> QED
  BY <1>2, <1>5 DEF SameReads

-----------------------------------------------------------------------------
(* At the start the buffers are empty.                                     *)
LEMMA BufInit == Init => BufInv
<1> SUFFICES ASSUME Init PROVE BufInv
  OBVIOUS
<1>1. Wbuff = <<>> /\ Rbuff = <<>> /\ next = 1 /\ queue = {} /\ left = {} /\ config \in Configs
  BY DEF Init
<1>2. Typed
  BY <1>1, FS_EmptySet DEF Typed
<1> QED
  BY <1>1, <1>2 DEF BufInv, Base, Order, Sorted, Lined, Ranked, Low, Complete, Past, Apart, Left, Counted

(* Nothing merged: every step keeps the counts.                            *)
LEMMA BaseNext ==
  ASSUME Base, ~config.merge, [Next]_vars
  PROVE  Base'
<1>1. Wbuff \in Seq(WriteRec) /\ Rbuff \in Seq(ReadRec) /\ IsFiniteSet(queue) /\ IsFiniteSet(left) /\ next \in Nat
  BY DEF Base, Typed
<1>2. ASSUME UNCHANGED <<Wbuff, Rbuff, queue, left>>, next' \in Nat, next <= next' PROVE Base'
  <2>1. Past'
    BY <1>1, <1>2, WriteAt, ReadAt DEF Base, Past
  <2> QED
    BY <1>2, <2>1 DEF Base, Typed, Lined, Apart, Counted
<1>3. ASSUME NEW k \in Asks, AddForwarded(k) PROVE Base'
  BY <1>1, <1>2, <1>3 DEF AddForwarded, Comes, bufVars, dmcVars
<1>4. ASSUME NEW k \in Asks, AddRead(k) PROVE Base'
  <2>1. SameWrites(Wbuff', Wbuff)
    BY <1>1, <1>4, Urging DEF AddRead
  <2> QED
    BY <1>4, <2>1, BaseRead DEF AddRead, Comes, dmcVars
<1>5. ASSUME NEW k \in Asks, AddMerged(k) PROVE Base'
  BY <1>5 DEF AddMerged
<1>6. ASSUME NEW k \in Asks, AddWrite(k) PROVE Base'
  BY <1>6, BaseWrite DEF AddWrite, Comes, dmcVars
<1>7. CASE AddData
  <2>1. SameWrites(Wbuff', Wbuff) /\ SameReads(Rbuff', Rbuff) /\ UNCHANGED <<next, queue, left>>
    BY <1>1, <1>7, DataSame DEF AddData, dmcVars, SameReads
  <2> QED
    BY <1>1, <2>1, SameFrom, BaseSame
<1>8. ASSUME NEW q \in queue, Release(q) PROVE Base'
  <2>1. SameWrites(Wbuff', Wbuff) /\ SameReads(Rbuff', Rbuff) /\ queue' = queue \ {q} /\ UNCHANGED <<next, left>>
    BY <1>1, <1>8, ReleaseSame DEF Release, SameWrites
  <2>2. IsFiniteSet(queue')
    BY <1>1, <2>1, FS_RemoveElement
  <2> QED
    BY <1>1, <2>1, <2>2, SameFrom, BaseSame
<1>9. CASE Update
  <2>1. PICK B \in SUBSET {a.addr[1] : a \in Asks} : ArbNode(WriteCands(B))
    BY <1>9 DEF Update
  <2>2. UNCHANGED next
    BY <1>9 DEF Update
  <2>3. SameReads(AgedReads, Rbuff) /\ SameWrites(AgedWrites, Wbuff)
    BY <1>1, Aging, AgingReads DEF AgedReads
  <2>4. ASSUME NEW i, WriteChosen(i, WriteCands(B)) PROVE i \in 1..Len(Wbuff)
    BY <1>1, <2>4 DEF WriteChosen, WriteCands
  <2>5. ReadCands \subseteq 1..Len(Rbuff)
    BY <1>1 DEF ReadCands
  <2>6. SendNone(AgedReads, AgedWrites) => Base'
    BY <2>2, <2>3, BaseNone
  <2>7. ASSUME NEW i \in ReadCands, SendRead(i) PROVE Base'
    BY <2>2, <2>7, BaseSendRead
  <2>8. ASSUME NEW i, WriteChosen(i, WriteCands(B)), SendWrite(i) PROVE Base'
    BY <2>2, <2>4, <2>8, BaseSendWrite
  <2>9. ASSUME NEW i \in ReadCands, RefuseRead(i) PROVE Base'
    BY <1>1, <2>2, <2>3, <2>5, <2>9, RefusedSame, BaseNone DEF RefuseRead
  <2>10. ASSUME NEW i, WriteChosen(i, WriteCands(B)), RefuseWrite(i) PROVE Base'
    BY <1>1, <2>2, <2>3, <2>4, <2>10, RefusedSame, BaseNone DEF RefuseWrite
  <2> QED
    BY <2>1, <2>6, <2>7, <2>8, <2>9, <2>10 DEF ArbNode
<1>10. CASE UNCHANGED vars
  BY <1>1, <1>2, <1>10 DEF vars, bufVars, dmcVars
<1> QED
  BY <1>3, <1>4, <1>5, <1>6, <1>7, <1>8, <1>9, <1>10 DEF Next

(* Nothing refused either: every step keeps the order.                     *)
LEMMA OrderNext ==
  ASSUME Base, Order, Stuckless, [Next]_vars, UNCHANGED config
  PROVE  Order'
<1>1. Wbuff \in Seq(WriteRec) /\ Rbuff \in Seq(ReadRec) /\ ~config.merge /\ ~config.backlog
  BY DEF Base, Typed, Stuckless
<1>2. ASSUME SameWrites(Wbuff', Wbuff), Sorted(Wbuff'), UNCHANGED left PROVE Order'
  BY <1>2, LeftSame, SortedNext DEF Order
<1>3. ASSUME UNCHANGED <<Wbuff, left>> PROVE Order'
  BY <1>1, <1>2, <1>3 DEF Order, SameWrites
<1>4. ASSUME NEW k \in Asks, AddForwarded(k) PROVE Order'
  BY <1>3, <1>4 DEF AddForwarded, bufVars, dmcVars
<1>5. ASSUME NEW k \in Asks, AddRead(k) PROVE Order'
  BY <1>1, <1>2, <1>5, Urging DEF AddRead, dmcVars, Order
<1>6. ASSUME NEW k \in Asks, AddMerged(k) PROVE Order'
  BY <1>1, <1>6 DEF AddMerged
<1>7. ASSUME NEW k \in Asks, AddWrite(k) PROVE Order'
  BY <1>7, OrderWrite DEF AddWrite, dmcVars
<1>8. CASE AddData
  BY <1>1, <1>2, <1>8, DataSame DEF AddData, dmcVars, Order
<1>9. ASSUME NEW q \in queue, Release(q) PROVE Order'
  BY <1>3, <1>9 DEF Release
<1>10. CASE Update
  <2>1. PICK B \in SUBSET {a.addr[1] : a \in Asks} : ArbNode(WriteCands(B))
    BY <1>10 DEF Update
  <2>2. SendNone(AgedReads, AgedWrites) => Order'
    BY OrderNone
  <2>3. ASSUME NEW i \in ReadCands, SendRead(i) PROVE Order'
    BY <2>3, OrderSendRead
  <2>4. ASSUME NEW i, WriteChosen(i, WriteCands(B)), SendWrite(i) PROVE Order'
    <3>1. i \in 1..Len(Wbuff)
      BY <1>1, <2>4 DEF WriteChosen, WriteCands
    <3>2. \A j \in 1..Len(Wbuff) : Wbuff[j].addr = Wbuff[i].addr /\ j < i => MoreUrgent(Wbuff[i], Wbuff[j])
      BY <1>1, <2>4, FirstChosen DEF Order
    <3> QED
      BY <2>4, <3>1, <3>2, OrderSendWrite
  <2> QED
    BY <1>1, <2>1, <2>2, <2>3, <2>4 DEF ArbNode
<1>11. CASE UNCHANGED vars
  BY <1>3, <1>11 DEF vars, bufVars, dmcVars
<1> QED
  BY <1>4, <1>5, <1>6, <1>7, <1>8, <1>9, <1>10, <1>11 DEF Next

LEMMA BufNext == BufInv /\ [Next]_vars => BufInv'
<1> SUFFICES ASSUME BufInv, [Next]_vars PROVE BufInv'
  OBVIOUS
<1>1. UNCHANGED config
  BY DEF Next, AddForwarded, AddRead, AddMerged, AddWrite, AddData, Release, Update, vars
<1>2. ~config.merge => Base'
  BY BaseNext DEF BufInv
<1>3. Stuckless => Order'
  BY <1>1, OrderNext DEF BufInv, Stuckless
<1> QED
  BY <1>1, <1>2, <1>3 DEF BufInv, Stuckless

(* AddressOrder for every instance: no write of the buffer is overtaken by *)
(* a later command of its address, whatever times out or is urged on,      *)
(* except by a write that has come with more urgency, or by a read that    *)
(* such a write has released (sch_rque, sch_wque, rcmd_set_conflict,       *)
(* arb_node, wcmd_release_conflict).                                       *)
THEOREM AddressOrderHolds == Spec => []AddressOrder
<1>1. BufInv => AddressOrder
  <2> SUFFICES ASSUME BufInv, Stuckless, NEW w \in ToSet(Wbuff), NEW c \in left, c.addr = w.addr
               PROVE  /\ c.type = "WRITE" => c.task < w.task \/ MoreUrgent(c, w)
                      /\ c.type = "READ" => \/ c.task < w.task
                                            \/ \E d \in left : /\ d.type = "WRITE" /\ d.addr = w.addr
                                                               /\ c.task < d.task /\ MoreUrgent(d, w)
    BY DEF AddressOrder, WritesInOrder, ReadAfterWrite
  <2>1. PICK i \in 1..Len(Wbuff) : w = Wbuff[i]
    BY DEF BufInv, Stuckless, Base, Typed, ToSet
  <2>2. Passes(c, w, left)
    BY <2>1 DEF BufInv, Order, Left
  <2> QED
    BY <2>2 DEF Passes
<1> QED
  BY <1>1, BufInit, BufNext, PTL DEF Spec

(* The counter a read waits for is right at any time (rcmd_set_conflict,   *)
(* wcmd_release_conflict): ConflictCounts, a part of CountersSound.        *)
THEOREM ConflictCountsHold == Spec => []ConflictCounts
<1>1. BufInv => ConflictCounts
  <2> SUFFICES ASSUME Base, NEW r \in ToSet(Rbuff)
               PROVE  r.gbuf = Max({0, Cardinality(Ahead(r)) - Cardinality(Overtook(r))})
    BY DEF BufInv, ConflictCounts
  <2>1. /\ Wbuff \in Seq(WriteRec) /\ Lined(Wbuff) /\ Rbuff \in Seq(ReadRec) /\ IsFiniteSet(left)
    BY DEF Base, Typed
  <2>2. PICK j \in 1..Len(Rbuff) : r = Rbuff[j]
    BY <2>1 DEF ToSet
  <2>3. r.task \in Nat
    BY <2>1, <2>2, ReadAt
  <2> DEFINE e == Cardinality(Earlier(Wbuff, r.addr, r.task))
             o == Cardinality(Overtaking(left, r.addr, r.task))
  <2>4. e \in Nat /\ o \in Nat
    BY <2>1, <2>3, EarlierFinite, OvertakingFinite
  <2>5. Cardinality(Ahead(r)) = e
    BY <2>1, <2>3, WritesByTask DEF Ahead
  <2>6. Cardinality(Overtook(r)) = o
    BY DEF Overtook, Overtaking
  <2>7. r.gbuf = Rest(e, o)
    BY <2>2 DEF Base, Counted, Waits
  <2> HIDE DEF e, o
  <2>8. Max({0, e - o}) = Rest(e, o)
    <3>1. Rest(e, o) \in {0, e - o} /\ \A x \in {0, e - o} : Rest(e, o) >= x
      BY <2>4 DEF Rest
    <3>2. \A y \in {0, e - o} : (\A x \in {0, e - o} : y >= x) => y = Rest(e, o)
      BY <2>4 DEF Rest
    <3> QED
      BY <3>1, <3>2 DEF Max
  <2> QED
    BY <2>5, <2>6, <2>7, <2>8
<1> QED
  BY <1>1, BufInit, BufNext, PTL DEF Spec

-----------------------------------------------------------------------------
(* The beats on their way are those the controller expects.                *)
BeatsInv == (\E S : WdataToSend \in Seq(S)) /\ wdata_order_queue = WdataToSend /\ ~order_error

(* send_wdata: the beats that arb_node adds are those it announces.        *)
LEMMA BeatSent ==
  ASSUME BeatsInv, NEW T, NEW b \in Seq(T), Send(b, b)
  PROVE  BeatsInv'
<1>1. PICK S : WdataToSend \in Seq(S)
  BY DEF BeatsInv
<1> DEFINE out == WdataToSend \o b
<1>2. out \in Seq(S \cup T) /\ wdata_order_queue \o b = out
  <2>1. WdataToSend \in Seq(S \cup T) /\ b \in Seq(S \cup T)
    BY <1>1
  <2> QED
    BY <2>1 DEF BeatsInv
<1>3. CASE out = <<>>
  <2>1. WdataToSend = <<>>
    BY <1>1, <1>3
  <2>2. WdataToSend' = WdataToSend /\ wdata_order_queue' = out /\ order_error' = order_error
    BY <1>2, <1>3 DEF Send
  <2> QED
    BY <1>1, <1>3, <2>1, <2>2 DEF BeatsInv
<1>4. CASE out # <<>>
  <2>1. WdataToSend' = Tail(out) /\ wdata_order_queue' = Tail(out) /\ order_error' = order_error
    BY <1>2, <1>4 DEF Send
  <2>2. Tail(out) \in Seq(S \cup T)
    BY <1>2, <1>4
  <2> QED
    BY <2>1, <2>2 DEF BeatsInv
<1> QED
  BY <1>3, <1>4

(* Every step keeps the beats in step.                                     *)
LEMMA BeatsNext == BeatsInv /\ [Next]_vars => BeatsInv'
<1> SUFFICES ASSUME BeatsInv, [Next]_vars PROVE BeatsInv'
  OBVIOUS
<1>1. CASE UNCHANGED <<WdataToSend, wdata_order_queue, order_error>>
  BY <1>1 DEF BeatsInv
<1>2. Send(<<>>, <<>>) => BeatsInv'
  <2>1. <<>> \in Seq({})
    OBVIOUS
  <2> QED
    BY <2>1, BeatSent
<1>3. ASSUME NEW i, SendWrite(i) PROVE BeatsInv'
  <2> DEFINE b == Beats(Wbuff[i])
             n == IF Wbuff[i].wide THEN 2 * BEATS ELSE BEATS
  <2>1. n \in Nat
    BY Constants
  <2>2. b = [x \in 1..n |-> Wbuff[i].task] /\ Expects(Wbuff[i]) = b
    BY DEF Beats, Expects
  <2> HIDE DEF n, b
  <2>3. b \in Seq({Wbuff[i].task})
    BY <2>1, <2>2
  <2>4. Send(b, b)
    BY <1>3, <2>2 DEF SendWrite, b
  <2> QED
    BY <2>3, <2>4, BeatSent
<1>4. CASE Update
  <2>1. PICK B \in SUBSET {a.addr[1] : a \in Asks} : ArbNode(WriteCands(B))
    BY <1>4 DEF Update
  <2> QED
    BY <1>2, <1>3, <2>1 DEF ArbNode, SendRead, SendNone, RefuseRead, RefuseWrite
<1> QED
  BY <1>1, <1>4 DEF Next, AddForwarded, AddRead, AddMerged, AddWrite, AddData, Release, dmcVars, vars

(* NoOrderError for every instance: whatever is merged or refused, the     *)
(* controller never meets a beat of another task than it expects (arb_node,*)
(* send_wdata, receiveFromCPU).                                            *)
THEOREM NoOrderErrorHolds == Spec => []NoOrderError
<1>1. Init => BeatsInv
  <2>1. <<>> \in Seq({})
    OBVIOUS
  <2> QED
    BY <2>1 DEF Init, BeatsInv
<1>2. BeatsInv => NoOrderError
  BY DEF BeatsInv, NoOrderError
<1> QED
  BY <1>1, <1>2, BeatsNext, PTL DEF Spec
-----------------------------------------------------------------------------
(***************************************************************************)
(* The counters, for any configuration: with merging, with a backlog, and  *)
(* whatever the priorities.                                                *)
(***************************************************************************)
Unlike(W) == \A i, j \in 1..Len(W) : W[i].task = W[j].task => i = j
TimedOut(W) == {i \in 1..Len(W) : W[i].timeout}

Numbered ==
  /\ config \in Configs /\ next \in 1..(NTasks + 1) /\ added \in BOOLEAN
Writes ==
  /\ Wbuff \in Seq(WriteRec) /\ Len(Wbuff) <= WB_WDEPTH /\ Unlike(Wbuff)
  /\ \A i \in 1..Len(Wbuff) : Wbuff[i].task \in 1..NTasks /\ Wbuff[i].task < next
Counts ==
  wr_timeout_cnt \in Nat /\ wr_timeout_cnt >= Cardinality(TimedOut(Wbuff))
Reads ==
  /\ Rbuff \in Seq(ReadRec) /\ Len(Rbuff) <= WB_RDEPTH
  /\ \A r \in 1..Len(Rbuff) : Rbuff[r].gbuf <= WB_WDEPTH /\ Rbuff[r].dmc <= TRANS_QUEUE_DEPTH
Taken ==
  /\ IsFiniteSet(queue) /\ IsFiniteSet(left) /\ queue \subseteq left
  /\ Cardinality(queue) <= TRANS_QUEUE_DEPTH
States ==
  /\ wbuff_state \in {"IDLE", "WRITE"} /\ state_trig \in 0..5 /\ until_adapt \in 1..GBUF_WCMD_PRIADAPT
  /\ no_cmd_sch_cnt \in 0..(NO_CMD_SCH_TH + 1) /\ ser_write_cnt \in 0..WR_MOST_LEVEL
  /\ idle_trig_time \in 0..IDLE_TRIG /\ wbuff_state_gap \in Nat

CountInv == Numbered /\ Writes /\ Counts /\ Reads /\ Taken /\ States

(* What the assumption says of the depths and the levels.                  *)
LEMMA Depths ==
  /\ NTasks \in Nat /\ WB_RDEPTH \in Nat /\ WB_WDEPTH \in Nat /\ TRANS_QUEUE_DEPTH \in Nat \ {0}
  /\ WR_MOST_LEVEL \in Nat \ {0} /\ GBUF_WCMD_PRIADAPT \in Nat \ {0}
  /\ NO_CMD_SCH_TH \in Nat /\ IDLE_TRIG \in Nat /\ GAP[1] \in Nat /\ GAP[2] \in Nat
  BY WriteBufferAssumption DEF WriteBufferAssumption

(* The places of a sequence with some property are finitely many.          *)
LEMMA PlacesFinite ==
  ASSUME NEW L \in Nat, NEW S \in SUBSET (1..L)
  PROVE  IsFiniteSet(S) /\ Cardinality(S) \in Nat /\ Cardinality(S) <= L
<1>1. IsFiniteSet(1..L) /\ Cardinality(1..L) = L
  BY FS_Interval
<1> QED
  BY <1>1, FS_Subset, FS_CardinalityType

(* Writes that differ are counted by their places.                         *)
LEMMA HeldPlaces ==
  ASSUME NEW W \in Seq(WriteRec), Unlike(W), NEW a
  PROVE  /\ Held(ToSet(W), a) = Cardinality({i \in 1..Len(W) : W[i].addr = a})
         /\ Held(ToSet(W), a) \in Nat /\ Held(ToSet(W), a) <= Len(W)
<1> DEFINE H == {c \in ToSet(W) : c.addr = a}
           P == {i \in 1..Len(W) : W[i].addr = a}
           f == [i \in P |-> W[i]]
<1>1. ToSet(W) = {W[i] : i \in 1..Len(W)}
  BY DEF ToSet
<1>2. \A i \in P : W[i] \in H
  BY <1>1
<1>3. \A c \in H : \E i \in P : W[i] = c
  BY <1>1
<1>4. \A i, j \in P : W[i] = W[j] => i = j
  BY DEF Unlike
<1>5. Len(W) \in Nat /\ P \in SUBSET (1..Len(W))
  OBVIOUS
<1>6. IsFiniteSet(P) /\ Cardinality(P) \in Nat /\ Cardinality(P) <= Len(W)
  BY <1>5, PlacesFinite
<1> HIDE DEF H, P
<1>7. f \in Injection(P, H) /\ f \in Surjection(P, H)
  BY <1>2, <1>3, <1>4 DEF Injection, Surjection, IsInjective
<1> HIDE DEF f
<1>8. Cardinality(H) = Cardinality(P)
  BY <1>6, <1>7, FS_Surjection
<1>9. Held(ToSet(W), a) = Cardinality(H)
  BY DEF Held, H
<1> QED
  BY <1>6, <1>8, <1>9 DEF P

(* When a write leaves, one less has timed out, if it had.                 *)
LEMMA TimedOutRemoved ==
  ASSUME NEW W \in Seq(WriteRec), NEW n \in 1..Len(W)
  PROVE  /\ Cardinality(TimedOut(RemoveAt(W, n))) \in Nat
         /\ Cardinality(TimedOut(RemoveAt(W, n))) + (IF W[n].timeout THEN 1 ELSE 0)
              <= Cardinality(TimedOut(W))
<1> DEFINE R == RemoveAt(W, n)
           A == TimedOut(W)
           B == TimedOut(R)
           f == [k \in B |-> IF k < n THEN k ELSE k + 1]
<1>0. /\ Len(R) = Len(W) - 1
      /\ \A k \in 1..(Len(W) - 1) : R[k] = W[IF k < n THEN k ELSE k + 1]
  BY Removed
<1> HIDE DEF R
<1>1. /\ Len(R) = Len(W) - 1 /\ Len(W) \in Nat /\ Len(R) \in Nat
      /\ \A k \in 1..(Len(W) - 1) : R[k] = W[IF k < n THEN k ELSE k + 1]
  BY <1>0
<1>2. A \in SUBSET (1..Len(W)) /\ B \in SUBSET (1..Len(R))
  BY DEF TimedOut
<1>3. /\ IsFiniteSet(A) /\ Cardinality(A) \in Nat
      /\ IsFiniteSet(B) /\ Cardinality(B) \in Nat
  BY <1>1, <1>2, PlacesFinite
<1>4. ASSUME NEW k \in B PROVE (IF k < n THEN k ELSE k + 1) \in A \ {n}
  <2>1. k \in 1..(Len(W) - 1) /\ R[k].timeout
    BY <1>1 DEF TimedOut
  <2>2. (IF k < n THEN k ELSE k + 1) \in 1..Len(W) /\ (IF k < n THEN k ELSE k + 1) # n
    BY <1>1, <2>1
  <2> QED
    BY <1>1, <2>1, <2>2 DEF TimedOut
<1>5. \A k, l \in B : (IF k < n THEN k ELSE k + 1) = (IF l < n THEN l ELSE l + 1) => k = l
  BY <1>1, <1>2
<1>6. n \in A <=> W[n].timeout
  BY DEF TimedOut
<1> HIDE DEF A, B
<1>7. f \in Injection(B, A \ {n})
  BY <1>4, <1>5 DEF Injection, IsInjective
<1> HIDE DEF f
<1>8. /\ IsFiniteSet(A \ {n})
      /\ Cardinality(A \ {n}) = IF n \in A THEN Cardinality(A) - 1 ELSE Cardinality(A)
  BY <1>3, FS_RemoveElement
<1>9. Cardinality(B) <= Cardinality(A \ {n})
  BY <1>7, <1>8, FS_Injection
<1> QED
  BY <1>3, <1>6, <1>8, <1>9 DEF A, B, R
-----------------------------------------------------------------------------
(* The same writes as far as the counters are concerned.                   *)
Alike(V, W) ==
  V \in Seq(WriteRec) /\ Len(V) = Len(W) /\ \A i \in 1..Len(W) : V[i].task = W[i].task

LEMMA AlikeTwice ==
  ASSUME NEW U, NEW V, NEW W, Alike(U, V), Alike(V, W)
  PROVE  Alike(U, W)
  BY DEF Alike

(* check_timeout.                                                          *)
LEMMA AgedAlike ==
  ASSUME Wbuff \in Seq(WriteRec)
  PROVE  /\ Alike(AgedWrites, Wbuff) /\ NewlyTimedOut \in Nat
         /\ Cardinality(TimedOut(AgedWrites)) = Cardinality(TimedOut(Wbuff)) + NewlyTimedOut
<1>1. AgedWrites = [i \in 1..Len(Wbuff) |-> AgedWrite(Wbuff[i])]
  BY DEF AgedWrites
<1>2. \A i \in 1..Len(Wbuff) : AgedWrites[i] = AgedWrite(Wbuff[i]) /\ Wbuff[i] \in WriteRec
  BY <1>1, WriteAt
<1>3. AgedWrites \in Seq(WriteRec) /\ Len(AgedWrites) = Len(Wbuff)
  BY <1>1, <1>2, AgedWrite1
<1>4. \A i \in 1..Len(Wbuff) : /\ AgedWrites[i].task = Wbuff[i].task
                               /\ Wbuff[i].timeout => AgedWrites[i].timeout
  BY <1>2, AgedWrite1
<1> DEFINE T == TimedOut(Wbuff)
           A == TimedOut(AgedWrites)
           N == {i \in DOMAIN Wbuff : AgedWrites[i].timeout /\ ~Wbuff[i].timeout}
<1>5. A = T \cup N /\ T \cap N = {}
  BY <1>3, <1>4 DEF TimedOut
<1>6. Len(Wbuff) \in Nat /\ T \in SUBSET (1..Len(Wbuff)) /\ N \in SUBSET (1..Len(Wbuff))
  BY DEF TimedOut
<1> HIDE DEF T, A, N
<1>7. IsFiniteSet(T) /\ Cardinality(T) \in Nat /\ IsFiniteSet(N) /\ Cardinality(N) \in Nat
  BY <1>6, PlacesFinite
<1>8. Cardinality(T \cup N) = Cardinality(T) + Cardinality(N) - Cardinality(T \cap N)
  BY <1>7, FS_Union
<1>9. Cardinality(T \cap N) = 0
  BY <1>5, FS_EmptySet
<1>10. Cardinality(A) = Cardinality(T) + Cardinality(N)
  BY <1>5, <1>7, <1>8, <1>9
<1> QED
  BY <1>3, <1>4, <1>7, <1>10 DEF Alike, NewlyTimedOut, T, A, N

(* A cycle passes.                                                         *)
LEMMA GrownAlike ==
  ASSUME NEW W \in Seq(WriteRec)
  PROVE  Alike(Grown(W), W) /\ TimedOut(Grown(W)) = TimedOut(W)
<1> DEFINE M == Max({RARB, WARB, GBUF_RCMD_TIMEOUT})
           G == Grown(W)
<1>1. M \in Nat
  BY Constants, MaxOfThree
<1>2. G = [i \in 1..Len(W) |-> [W[i] EXCEPT !.wait = Min({W[i].wait + 1, M})]]
  BY DEF Grown
<1> HIDE DEF M, G
<1>3. ASSUME NEW i \in 1..Len(W)
      PROVE  G[i] \in WriteRec /\ G[i].task = W[i].task /\ G[i].timeout = W[i].timeout
  <2> DEFINE n == W[i].wait + 1
             m == Min({n, M})
  <2>1. W[i] \in WriteRec /\ n \in Nat
    BY WriteAt
  <2> HIDE DEF n
  <2>2. m \in Nat
    BY <1>1, <2>1, MinOfTwo
  <2>3. G[i] = [W[i] EXCEPT !.wait = m]
    BY <1>2 DEF n
  <2> HIDE DEF m
  <2> QED
    BY <2>1, <2>2, <2>3 DEF WriteRec
<1>4. G \in Seq(WriteRec) /\ Len(G) = Len(W)
  <2>1. G = [i \in 1..Len(W) |-> G[i]]
    BY <1>2
  <2>2. G \in [1..Len(W) -> WriteRec]
    BY <1>3, <2>1
  <2> QED
    BY <2>2
<1>5. TimedOut(G) = TimedOut(W)
  BY <1>3, <1>4 DEF TimedOut
<1> QED
  BY <1>3, <1>4, <1>5 DEF Alike, G

(* The writes stay what they are, whatever has become of their urgency.    *)
LEMMA WritesAlike ==
  ASSUME Numbered, Writes, Alike(Wbuff', Wbuff), next' \in Nat, next <= next'
  PROVE  Writes'
<1>1. /\ Wbuff' \in Seq(WriteRec) /\ Len(Wbuff') = Len(Wbuff) /\ Len(Wbuff) \in Nat
      /\ \A i \in 1..Len(Wbuff) : Wbuff'[i].task = Wbuff[i].task
  BY DEF Alike, Writes
<1>2. next \in Nat
  BY Depths DEF Numbered
<1>3. Unlike(Wbuff')
  BY <1>1 DEF Writes, Unlike
<1>4. \A i \in 1..Len(Wbuff) : Wbuff'[i].task \in 1..NTasks /\ Wbuff'[i].task < next'
  BY <1>1, <1>2, Depths DEF Writes
<1> QED
  BY <1>1, <1>3, <1>4 DEF Writes

-----------------------------------------------------------------------------
(* Reads that wait for no more than before.                                *)
LessReads(V, W) ==
  /\ V \in Seq(ReadRec) /\ Len(V) = Len(W)
  /\ \A i \in 1..Len(W) : V[i].gbuf <= W[i].gbuf /\ V[i].dmc <= W[i].dmc
ReadsFit(V) ==
  /\ V \in Seq(ReadRec) /\ Len(V) <= WB_RDEPTH
  /\ \A r \in 1..Len(V) : V[r].gbuf <= WB_WDEPTH /\ V[r].dmc <= TRANS_QUEUE_DEPTH

LEMMA LessFit ==
  ASSUME NEW V, NEW W, LessReads(V, W), ReadsFit(W)
  PROVE  ReadsFit(V)
<1>1. V \in Seq(ReadRec) /\ W \in Seq(ReadRec) /\ Len(V) = Len(W) /\ Len(V) <= WB_RDEPTH
  BY DEF LessReads, ReadsFit
<1>2. ASSUME NEW r \in 1..Len(V) PROVE V[r].gbuf <= WB_WDEPTH /\ V[r].dmc <= TRANS_QUEUE_DEPTH
  <2>1. /\ V[r].gbuf \in Nat /\ V[r].dmc \in Nat /\ W[r].gbuf \in Nat /\ W[r].dmc \in Nat
    BY <1>1, ReadAt
  <2>2. /\ V[r].gbuf <= W[r].gbuf /\ V[r].dmc <= W[r].dmc
        /\ W[r].gbuf <= WB_WDEPTH /\ W[r].dmc <= TRANS_QUEUE_DEPTH
    BY <1>1 DEF LessReads, ReadsFit
  <2> QED
    BY <2>1, <2>2, Depths
<1> QED
  BY <1>1, <1>2 DEF ReadsFit

(* What the handlers do to one read.                                       *)
LEMMA ReadChange ==
  ASSUME NEW r \in ReadRec, NEW n \in Nat, NEW s,
         \/ s = r \/ s = AgedRead(r) \/ s = [r EXCEPT !.wait = n] \/ s = [r EXCEPT !.timeout = TRUE]
         \/ s = [r EXCEPT !.dmc = less(@)] \/ s = [r EXCEPT !.gbuf = less(@)]
  PROVE  s \in ReadRec /\ s.gbuf <= r.gbuf /\ s.dmc <= r.dmc
<1>1. r.gbuf \in Nat /\ r.dmc \in Nat
  BY DEF ReadRec
<1>2. CASE s = r
  BY <1>1, <1>2
<1>3. CASE s = AgedRead(r)
  <2> DEFINE b == r.timeout \/ r.wait >= GBUF_RCMD_TIMEOUT \/ r.pri = 0
  <2>1. s = [r EXCEPT !.timeout = b]
    BY <1>3 DEF AgedRead
  <2>2. b \in BOOLEAN
    BY DEF ReadRec
  <2> HIDE DEF b
  <2> QED
    BY <1>1, <2>1, <2>2 DEF ReadRec
<1>4. CASE s = [r EXCEPT !.wait = n] \/ s = [r EXCEPT !.timeout = TRUE]
  <2>1. CASE s = [r EXCEPT !.wait = n]
    BY <1>1, <2>1 DEF ReadRec
  <2>2. CASE s = [r EXCEPT !.timeout = TRUE]
    <3> DEFINE b == TRUE
    <3>1. s = [r EXCEPT !.timeout = b] /\ b \in BOOLEAN
      BY <2>2
    <3> HIDE DEF b
    <3> QED
      BY <1>1, <3>1 DEF ReadRec
  <2> QED
    BY <1>4, <2>1, <2>2
<1>5. CASE s = [r EXCEPT !.dmc = less(@)]
  <2> DEFINE m == less(r.dmc)
  <2>1. m \in Nat /\ m <= r.dmc
    BY <1>1 DEF less
  <2>2. s = [r EXCEPT !.dmc = m]
    BY <1>5
  <2> HIDE DEF m
  <2> QED
    BY <1>1, <2>1, <2>2 DEF ReadRec
<1>6. CASE s = [r EXCEPT !.gbuf = less(@)]
  <2> DEFINE m == less(r.gbuf)
  <2>1. m \in Nat /\ m <= r.gbuf
    BY <1>1 DEF less
  <2>2. s = [r EXCEPT !.gbuf = m]
    BY <1>6
  <2> HIDE DEF m
  <2> QED
    BY <1>1, <2>1, <2>2 DEF ReadRec
<1> QED
  BY <1>2, <1>3, <1>4, <1>5, <1>6

(* So for all of them.                                                     *)
LEMMA ReadsChange ==
  ASSUME NEW W, ReadsFit(W), NEW V, V = [i \in DOMAIN W |-> V[i]],
         \A i \in 1..Len(W) : \E n \in Nat :
            \/ V[i] = W[i] \/ V[i] = AgedRead(W[i]) \/ V[i] = [W[i] EXCEPT !.wait = n]
            \/ V[i] = [W[i] EXCEPT !.timeout = TRUE]
            \/ V[i] = [W[i] EXCEPT !.dmc = less(@)] \/ V[i] = [W[i] EXCEPT !.gbuf = less(@)]
  PROVE  ReadsFit(V) /\ Len(V) = Len(W)
<1>1. W \in Seq(ReadRec) /\ DOMAIN W = 1..Len(W)
  BY DEF ReadsFit
<1>2. ASSUME NEW i \in 1..Len(W)
      PROVE  V[i] \in ReadRec /\ V[i].gbuf <= W[i].gbuf /\ V[i].dmc <= W[i].dmc
  <2>1. W[i] \in ReadRec
    BY <1>1, ReadAt
  <2> QED
    BY <2>1, ReadChange
<1>3. V \in [1..Len(W) -> ReadRec]
  BY <1>1, <1>2
<1>4. V \in Seq(ReadRec) /\ Len(V) = Len(W)
  BY <1>1, <1>3
<1> QED
  BY <1>2, <1>4, LessFit DEF LessReads

LEMMA AgedFit == ASSUME ReadsFit(Rbuff) PROVE ReadsFit(AgedReads) /\ Len(AgedReads) = Len(Rbuff)
<1>1. AgedReads = [i \in DOMAIN Rbuff |-> AgedReads[i]]
  BY DEF AgedReads
<1>2. \A i \in 1..Len(Rbuff) : AgedReads[i] = AgedRead(Rbuff[i])
  BY DEF AgedReads, ReadsFit
<1>3. 0 \in Nat
  OBVIOUS
<1> HIDE DEF AgedReads
<1> QED
  BY <1>1, <1>2, <1>3, ReadsChange

LEMMA GrownFit == ASSUME NEW W, ReadsFit(W) PROVE ReadsFit(Grown(W)) /\ Len(Grown(W)) = Len(W)
<1> DEFINE M == Max({RARB, WARB, GBUF_RCMD_TIMEOUT})
           G == Grown(W)
<1>1. M \in Nat
  BY Constants, MaxOfThree
<1>2. G = [i \in DOMAIN W |-> [W[i] EXCEPT !.wait = Min({W[i].wait + 1, M})]]
  BY DEF Grown
<1> HIDE DEF M, G
<1>3. W \in Seq(ReadRec) /\ DOMAIN W = 1..Len(W)
  BY DEF ReadsFit
<1>4. ASSUME NEW i \in 1..Len(W) PROVE \E m \in Nat : G[i] = [W[i] EXCEPT !.wait = m]
  <2> DEFINE n == W[i].wait + 1
             m == Min({n, M})
  <2>1. n \in Nat
    <3>1. W[i] \in ReadRec
      BY <1>3, ReadAt
    <3>2. W[i].wait \in Nat
      BY <3>1 DEF ReadRec
    <3> QED
      BY <3>2
  <2> HIDE DEF n
  <2>2. m \in Nat
    BY <1>1, <2>1, MinOfTwo
  <2>3. G[i] = [W[i] EXCEPT !.wait = m]
    BY <1>2, <1>3 DEF n
  <2> HIDE DEF m
  <2> QED
    BY <2>2, <2>3
<1>5. G = [i \in DOMAIN W |-> G[i]]
  BY <1>2
<1>6. ReadsFit(G) /\ Len(G) = Len(W)
  BY <1>4, <1>5, ReadsChange
<1> QED
  BY <1>6 DEF G

LEMMA RemovedFit ==
  ASSUME NEW W, ReadsFit(W), NEW n \in 1..Len(W)
  PROVE  ReadsFit(RemoveAt(W, n))
<1>1. /\ RemoveAt(W, n) \in Seq(ReadRec) /\ Len(RemoveAt(W, n)) = Len(W) - 1
      /\ \A k \in 1..(Len(W) - 1) : RemoveAt(W, n)[k] = W[IF k < n THEN k ELSE k + 1]
  BY Removed DEF ReadsFit
<1> DEFINE R == RemoveAt(W, n)
<1> HIDE DEF R
<1>2. Len(W) \in Nat /\ Len(W) <= WB_RDEPTH
  BY DEF ReadsFit
<1>3. Len(R) <= WB_RDEPTH
  BY <1>1, <1>2, Depths DEF R
<1>4. ASSUME NEW k \in 1..Len(R) PROVE \E j \in 1..Len(W) : R[k] = W[j]
  <2>1. k \in 1..(Len(W) - 1) /\ (IF k < n THEN k ELSE k + 1) \in 1..Len(W)
    BY <1>1, <1>2 DEF R
  <2> QED
    BY <1>1, <2>1 DEF R
<1> QED
  BY <1>1, <1>3, <1>4 DEF ReadsFit, R

(* A read that comes waits for the writes of the buffer and the commands   *)
(* of the queue.                                                           *)
LEMMA NewFit ==
  ASSUME Numbered, Writes, Reads, Taken, NEW k \in Asks, Len(Rbuff) < WB_RDEPTH
  PROVE  ReadsFit(Append(Rbuff, NewRead(k)))
<1> DEFINE r == NewRead(k)
           b == config.byp /\ ~full
           g == Held(ToSet(Wbuff), k.addr)
           d == Held(queue, k.addr)
<1>1. g \in Nat /\ g <= WB_WDEPTH
  <2>1. g \in Nat /\ g <= Len(Wbuff) /\ Len(Wbuff) <= WB_WDEPTH /\ Len(Wbuff) \in Nat
    <3>1. Wbuff \in Seq(WriteRec) /\ Unlike(Wbuff) /\ Len(Wbuff) <= WB_WDEPTH
      BY DEF Writes
    <3>2. g \in Nat /\ g <= Len(Wbuff)
      BY <3>1, HeldPlaces
    <3>3. Len(Wbuff) \in Nat
      BY <3>1
    <3> QED
      BY <3>1, <3>2, <3>3
  <2> HIDE DEF g
  <2> QED
    BY <2>1, Depths
<1>2. d \in Nat /\ d <= TRANS_QUEUE_DEPTH
  <2> DEFINE S == {c \in queue : c.addr = k.addr}
  <2>1. IsFiniteSet(S) /\ Cardinality(S) <= Cardinality(queue)
    BY FS_Subset DEF Taken
  <2>2. Cardinality(S) \in Nat /\ Cardinality(queue) \in Nat
    BY <2>1, FS_CardinalityType DEF Taken
  <2>3. d = Cardinality(S) /\ Cardinality(queue) <= TRANS_QUEUE_DEPTH
    BY DEF Held, Taken
  <2> HIDE DEF S, d
  <2> QED
    BY <2>1, <2>2, <2>3, Depths
<1>3. b \in BOOLEAN
  OBVIOUS
<1>4. r = [task |-> next, addr |-> k.addr, pri |-> k.pri, wait |-> 0, timeout |-> FALSE,
           active |-> b, gbuf |-> g, dmc |-> d]
  BY DEF NewRead
<1>5. next \in Nat /\ k.addr \in Nat \X {0, 1} /\ k.pri \in Nat
  BY Constants, Depths DEF Ask, Numbered
<1> HIDE DEF r, b, g, d
<1>6. r \in ReadRec /\ r.gbuf = g /\ r.dmc = d
  BY <1>1, <1>2, <1>3, <1>4, <1>5 DEF ReadRec
<1>7. /\ Append(Rbuff, r) \in Seq(ReadRec) /\ Len(Append(Rbuff, r)) = Len(Rbuff) + 1
      /\ \A i \in 1..Len(Rbuff) : Append(Rbuff, r)[i] = Rbuff[i]
      /\ Append(Rbuff, r)[Len(Rbuff) + 1] = r /\ Len(Rbuff) \in Nat
  BY <1>6 DEF Reads
<1>8. Len(Rbuff) + 1 <= WB_RDEPTH
  BY <1>7, Depths
<1> DEFINE V == Append(Rbuff, r)
<1>9. \A i \in 1..Len(V) : i \in 1..Len(Rbuff) \/ i = Len(Rbuff) + 1
  BY <1>7
<1> HIDE DEF V
<1>10. ASSUME NEW i \in 1..Len(V) PROVE V[i].gbuf <= WB_WDEPTH /\ V[i].dmc <= TRANS_QUEUE_DEPTH
  <2>1. CASE i \in 1..Len(Rbuff)
    BY <1>7, <2>1 DEF V, Reads
  <2>2. CASE i = Len(Rbuff) + 1
    BY <1>1, <1>2, <1>6, <1>7, <2>2 DEF V
  <2> QED
    BY <1>9, <2>1, <2>2
<1>11. ReadsFit(V)
  BY <1>7, <1>8, <1>10 DEF ReadsFit, V
<1> QED
  BY <1>11 DEF V, r

-----------------------------------------------------------------------------
LEMMA CountInit == Init => CountInv
<1> SUFFICES ASSUME Init PROVE CountInv
  OBVIOUS
<1>1. Wbuff = <<>> /\ Rbuff = <<>> /\ queue = {} /\ left = {} /\ next = 1 /\ wr_timeout_cnt = 0
  BY DEF Init
<1>2. TimedOut(Wbuff) = {} /\ Cardinality({}) = 0 /\ IsFiniteSet({})
  BY <1>1, FS_EmptySet DEF TimedOut
<1>3. Writes /\ Reads
  BY <1>1, Depths DEF Writes, Reads, Unlike
<1>4. Counts
  BY <1>1, <1>2 DEF Counts
<1>5. Taken
  BY <1>1, <1>2, Depths DEF Taken
<1>6. Numbered
  <2>1. config \in Configs /\ added \in BOOLEAN
    BY DEF Init
  <2>2. next \in 1..(NTasks + 1)
    BY <1>1, Depths
  <2> QED
    BY <2>1, <2>2 DEF Numbered
<1>7. States
  BY Depths DEF Init, States
<1> QED
  BY <1>3, <1>4, <1>5, <1>6, <1>7 DEF CountInv

(* A write of the buffer that changes, but for its task and its timeout.   *)
LEMMA OneWrite ==
  ASSUME Writes, NEW i \in 1..Len(Wbuff), NEW w \in WriteRec,
         w.task = Wbuff[i].task, w.timeout = Wbuff[i].timeout,
         Wbuff' = [Wbuff EXCEPT ![i] = w]
  PROVE  Alike(Wbuff', Wbuff) /\ TimedOut(Wbuff') = TimedOut(Wbuff)
<1>1. Wbuff \in Seq(WriteRec)
  BY DEF Writes
<1>2. /\ Wbuff' \in Seq(WriteRec) /\ Len(Wbuff') = Len(Wbuff)
      /\ \A j \in 1..Len(Wbuff) : Wbuff'[j] = IF j = i THEN w ELSE Wbuff[j]
  BY <1>1
<1>3. \A j \in 1..Len(Wbuff) :
        Wbuff'[j].task = Wbuff[j].task /\ Wbuff'[j].timeout = Wbuff[j].timeout
  BY <1>2
<1> QED
  BY <1>2, <1>3 DEF Alike, TimedOut

LEMMA CountMerged == ASSUME CountInv, NEW k \in Asks, AddMerged(k) PROVE Writes' /\ Counts'
<1> DEFINE i == Min(Partners(k.addr))
<1>1. Wbuff \in Seq(WriteRec) /\ Partners(k.addr) # {}
  BY DEF CountInv, Writes, AddMerged
<1>2. i \in Partners(k.addr)
  <2>1. Partners(k.addr) \in SUBSET Nat
    BY <1>1 DEF Partners
  <2> QED
    BY <1>1, <2>1, LeastOne
<1>3. i \in 1..Len(Wbuff)
  BY <1>1, <1>2 DEF Partners
<1> DEFINE b == TRUE
           a == <<k.addr[1], 0>>
           w == [Wbuff[i] EXCEPT !.wide = b, !.addr = a]
<1>4. Wbuff' = [Wbuff EXCEPT ![i] = w]
  BY DEF AddMerged
<1>5. b \in BOOLEAN /\ a \in Nat \X {0, 1}
  BY Constants DEF Ask
<1>6. Wbuff[i] \in WriteRec
  BY <1>1, <1>3, WriteAt
<1> HIDE DEF i, a, b
<1>7. w \in WriteRec /\ w.task = Wbuff[i].task /\ w.timeout = Wbuff[i].timeout
  BY <1>5, <1>6 DEF WriteRec
<1>8. Alike(Wbuff', Wbuff) /\ TimedOut(Wbuff') = TimedOut(Wbuff)
  BY <1>3, <1>4, <1>7, OneWrite DEF CountInv
<1>9. next' = next + 1 /\ next \in Nat /\ wr_timeout_cnt' = wr_timeout_cnt
  BY Depths DEF AddMerged, Comes, CountInv, Numbered
<1>10. Writes'
  BY <1>8, <1>9, WritesAlike DEF CountInv
<1>11. Counts'
  BY <1>8, <1>9 DEF CountInv, Counts
<1> QED
  BY <1>10, <1>11

LEMMA CountData == ASSUME CountInv, AddData PROVE Writes' /\ Counts'
<1> DEFINE i == Min(Incomplete)
<1>1. Wbuff \in Seq(WriteRec) /\ Incomplete # {}
  BY DEF CountInv, Writes, AddData
<1>2. i \in Incomplete
  <2>1. Incomplete \in SUBSET Nat
    BY <1>1 DEF Incomplete
  <2> QED
    BY <1>1, <2>1, LeastOne
<1>3. i \in 1..Len(Wbuff)
  BY <1>1, <1>2 DEF Incomplete
<1> DEFINE b == TRUE
           w == [Wbuff[i] EXCEPT !.ready = b]
<1>4. Wbuff' = [Wbuff EXCEPT ![i] = w]
  BY DEF AddData
<1>5. b \in BOOLEAN /\ Wbuff[i] \in WriteRec
  BY <1>1, <1>3, WriteAt
<1> HIDE DEF i, b
<1>7. w \in WriteRec /\ w.task = Wbuff[i].task /\ w.timeout = Wbuff[i].timeout
  BY <1>5 DEF WriteRec
<1>8. Alike(Wbuff', Wbuff) /\ TimedOut(Wbuff') = TimedOut(Wbuff)
  BY <1>3, <1>4, <1>7, OneWrite DEF CountInv
<1>9. next' = next /\ next \in Nat /\ wr_timeout_cnt' = wr_timeout_cnt
  BY Depths DEF AddData, CountInv, Numbered
<1>10. Writes'
  BY <1>8, <1>9, WritesAlike DEF CountInv
<1>11. Counts'
  BY <1>8, <1>9 DEF CountInv, Counts
<1> QED
  BY <1>10, <1>11

(* A new write has a new task, and has not timed out.                      *)
LEMMA CountWrite == ASSUME CountInv, NEW k \in Asks, AddWrite(k) PROVE Writes' /\ Counts'
<1> DEFINE w == NewWrite(k)
           L == Len(Wbuff)
           b == config.front = "rmw"
<1>1. w = [task |-> next, addr |-> k.addr, qos |-> k.pri, pri |-> k.pri, wait |-> 0,
           timeout |-> FALSE, ready |-> b, wide |-> FALSE]
  BY DEF NewWrite
<1>2. next \in Nat /\ k.addr \in Nat \X {0, 1} /\ k.pri \in Nat /\ b \in BOOLEAN
  BY Constants, Depths DEF Ask, CountInv, Numbered
<1> HIDE DEF w, b
<1>3. w \in WriteRec /\ w.task = next /\ ~w.timeout
  BY <1>1, <1>2 DEF WriteRec
<1>4. Wbuff' = Append(Wbuff, w) /\ Wbuff \in Seq(WriteRec)
  BY DEF CountInv, Writes, AddWrite, w
<1>5. /\ Wbuff' \in Seq(WriteRec) /\ Len(Wbuff') = L + 1 /\ L \in Nat
      /\ \A i \in 1..L : Wbuff'[i] = Wbuff[i]
      /\ Wbuff'[L + 1] = w
  BY <1>3, <1>4
<1>6. next' = next + 1 /\ next <= NTasks /\ next \in 1..NTasks /\ L < WB_WDEPTH
      /\ wr_timeout_cnt' = wr_timeout_cnt
  BY <1>2, Depths DEF AddWrite, Comes, CountInv, Numbered
<1>7. PICK M \in Nat : M = L
  BY <1>5
<1> HIDE DEF L
<1>8. \A i \in 1..Len(Wbuff') : i \in 1..M \/ i = M + 1
  BY <1>5, <1>7
<1>9. \A i \in 1..M : Wbuff'[i] = Wbuff[i] /\ Wbuff[i].task \in 1..NTasks /\ Wbuff[i].task < next
  BY <1>5, <1>7 DEF CountInv, Writes, L
<1>10. Wbuff'[M + 1] = w /\ Len(Wbuff') = M + 1
  BY <1>5, <1>7
<1>11. ASSUME NEW i \in 1..Len(Wbuff')
       PROVE  Wbuff'[i].task \in 1..NTasks /\ Wbuff'[i].task < next'
  <2>1. CASE i \in 1..M
    BY <1>6, <1>9, <2>1, Depths
  <2>2. CASE i = M + 1
    BY <1>2, <1>3, <1>6, <1>10, <2>2
  <2> QED
    BY <1>8, <2>1, <2>2
<1>12. Unlike(Wbuff')
  <2> SUFFICES ASSUME NEW i \in 1..Len(Wbuff'), NEW j \in 1..Len(Wbuff'), Wbuff'[i].task = Wbuff'[j].task
               PROVE  i = j
    BY DEF Unlike
  <2>1. CASE i \in 1..M /\ j \in 1..M
    <3>1. Wbuff[i].task = Wbuff[j].task
      BY <1>9, <2>1
    <3> QED
      BY <1>7, <2>1, <3>1 DEF CountInv, Writes, Unlike, L
  <2>2. CASE i \in 1..M /\ j = M + 1
    <3>1. Wbuff'[i].task < next /\ Wbuff'[i].task \in 1..NTasks /\ Wbuff'[j].task = next
      BY <1>3, <1>9, <1>10, <2>2
    <3> QED
      BY <1>2, <3>1, Depths
  <2>3. CASE j \in 1..M /\ i = M + 1
    <3>1. Wbuff'[j].task < next /\ Wbuff'[j].task \in 1..NTasks /\ Wbuff'[i].task = next
      BY <1>3, <1>9, <1>10, <2>3
    <3> QED
      BY <1>2, <3>1, Depths
  <2> QED
    BY <1>8, <2>1, <2>2, <2>3
<1>13. Len(Wbuff') <= WB_WDEPTH
  BY <1>5, <1>6, <1>7, <1>10, Depths
<1>14. Writes'
  BY <1>5, <1>11, <1>12, <1>13 DEF Writes
<1>15. TimedOut(Wbuff') = TimedOut(Wbuff)
  <2>1. \A i \in 1..M : Wbuff'[i].timeout <=> Wbuff[i].timeout
    BY <1>9
  <2>2. ~Wbuff'[M + 1].timeout /\ \A i \in 1..M : i \in 1..Len(Wbuff')
    BY <1>3, <1>7, <1>10
  <2>3. TimedOut(Wbuff) = {i \in 1..M : Wbuff[i].timeout}
    BY <1>7 DEF TimedOut, L
  <2>4. TimedOut(Wbuff') = {i \in 1..M : Wbuff'[i].timeout}
    BY <1>8, <2>2 DEF TimedOut
  <2> QED
    BY <2>1, <2>3, <2>4
<1>16. Counts'
  BY <1>6, <1>15 DEF CountInv, Counts
<1> QED
  BY <1>14, <1>16

(* rcmd_push_wcmd counts all the writes of the address.                    *)
LEMMA CountPush ==
  ASSUME CountInv, NEW a, push_wcmd(a), next' \in Nat, next <= next'
  PROVE  Writes' /\ Counts'
<1>1. /\ Wbuff \in Seq(WriteRec) /\ Unlike(Wbuff) /\ wr_timeout_cnt \in Nat
      /\ wr_timeout_cnt >= Cardinality(TimedOut(Wbuff))
  BY DEF CountInv, Writes, Counts
<1>2. CASE config.push = "none"
  <2>1. Wbuff' = Wbuff /\ wr_timeout_cnt' = wr_timeout_cnt
    BY <1>2 DEF push_wcmd
  <2>2. Alike(Wbuff', Wbuff)
    BY <1>1, <2>1 DEF Alike
  <2> QED
    BY <2>1, <2>2, WritesAlike DEF CountInv, Counts
<1>3. CASE config.push # "none"
  <2>1. /\ Wbuff' = [i \in 1..Len(Wbuff) |-> IF Wbuff[i].addr = a THEN Urge(Wbuff[i]) ELSE Wbuff[i]]
        /\ wr_timeout_cnt' = wr_timeout_cnt + Urged(a)
    BY <1>1, <1>3 DEF push_wcmd
  <2>2. ASSUME NEW i \in 1..Len(Wbuff)
        PROVE  /\ Wbuff'[i] \in WriteRec /\ Wbuff'[i].task = Wbuff[i].task
               /\ Wbuff'[i].timeout =>
                    \/ Wbuff[i].timeout
                    \/ Wbuff[i].addr = a /\ config.push # "pri"
    <3>1. Wbuff[i] \in WriteRec
      BY <1>1, WriteAt
    <3>2. CASE Wbuff[i].addr # a
      BY <2>1, <3>1, <3>2
    <3>3. CASE Wbuff[i].addr = a /\ config.push = "pri"
      <4> DEFINE n == 1
      <4>1. Wbuff'[i] = [Wbuff[i] EXCEPT !.pri = n] /\ n \in Nat
        BY <2>1, <3>3 DEF Urge
      <4> HIDE DEF n
      <4> QED
        BY <3>1, <4>1 DEF WriteRec
    <3>4. CASE Wbuff[i].addr = a /\ config.push # "pri"
      <4> DEFINE b == TRUE
      <4>1. Wbuff'[i] = [Wbuff[i] EXCEPT !.timeout = b] /\ b \in BOOLEAN
        BY <2>1, <3>4 DEF Urge
      <4> HIDE DEF b
      <4> QED
        BY <3>1, <3>4, <4>1 DEF WriteRec
    <3> QED
      BY <3>2, <3>3, <3>4
  <2>3. Alike(Wbuff', Wbuff)
    <3>1. Wbuff' \in [1..Len(Wbuff) -> WriteRec]
      BY <2>1, <2>2
    <3>2. Wbuff' \in Seq(WriteRec) /\ Len(Wbuff') = Len(Wbuff)
      BY <1>1, <3>1
    <3> QED
      BY <2>2, <3>2 DEF Alike
  <2>4. Writes'
    BY <2>3, WritesAlike DEF CountInv
  <2> DEFINE T == TimedOut(Wbuff)
             U == TimedOut(Wbuff')
             P == {i \in 1..Len(Wbuff) : Wbuff[i].addr = a}
  <2>5. /\ T \in SUBSET (1..Len(Wbuff)) /\ U \in SUBSET (1..Len(Wbuff))
        /\ P \in SUBSET (1..Len(Wbuff)) /\ Len(Wbuff) \in Nat
    BY <1>1, <2>3 DEF Alike, TimedOut
  <2>6. U \subseteq T \cup (IF config.push = "pri" THEN {} ELSE P)
    BY <2>2, <2>5 DEF TimedOut
  <2>7. Cardinality(P) = Held(ToSet(Wbuff), a)
    BY <1>1, HeldPlaces
  <2>8. config.push \in {"pri", "timeout"}
    BY <1>3, WriteBufferAssumption DEF CountInv, Numbered, Config, WriteBufferAssumption
  <2> HIDE DEF T, U, P
  <2>9. /\ IsFiniteSet(T) /\ Cardinality(T) \in Nat /\ IsFiniteSet(U) /\ Cardinality(U) \in Nat
        /\ IsFiniteSet(P) /\ Cardinality(P) \in Nat
    BY <2>5, PlacesFinite
  <2>10. Urged(a) \in Nat /\ Cardinality(U) <= Cardinality(T) + Urged(a)
    <3>1. CASE config.push = "pri"
      <4>1. Urged(a) = 0 /\ U \subseteq T
        BY <2>6, <3>1 DEF Urged
      <4>2. Cardinality(U) <= Cardinality(T)
        BY <2>9, <4>1, FS_Subset
      <4> QED
        BY <2>9, <4>1, <4>2
    <3>2. CASE config.push = "timeout"
      <4>1. Urged(a) = Cardinality(P) /\ U \subseteq T \cup P
        BY <2>6, <2>7, <3>2 DEF Urged
      <4>2. /\ IsFiniteSet(T \cup P)
            /\ Cardinality(T \cup P) = Cardinality(T) + Cardinality(P) - Cardinality(T \cap P)
        BY <2>9, FS_Union
      <4>3. Cardinality(U) <= Cardinality(T \cup P)
        BY <4>1, <4>2, FS_Subset
      <4>4. Cardinality(T \cap P) \in Nat
        BY <2>9, FS_Intersection, FS_CardinalityType
      <4> QED
        BY <2>9, <4>1, <4>2, <4>3, <4>4
    <3> QED
      BY <2>8, <3>1, <3>2
  <2>11. Counts'
    <3>1. wr_timeout_cnt' \in Nat /\ wr_timeout_cnt' >= Cardinality(U)
      BY <1>1, <2>1, <2>9, <2>10 DEF T
    <3> QED
      BY <3>1 DEF Counts, U
  <2> QED
    BY <2>4, <2>11
<1> QED
  BY <1>2, <1>3

(* dmc_release_conflict.                                                   *)
LEMMA CountRelease == ASSUME CountInv, NEW q \in queue, Release(q) PROVE Reads' /\ Taken'
<1>1. ReadsFit(Rbuff)
  BY DEF CountInv, Reads, ReadsFit
<1>2. Rbuff' = [i \in DOMAIN Rbuff |->
                 IF Rbuff[i].addr = q.addr THEN [Rbuff[i] EXCEPT !.dmc = less(@)] ELSE Rbuff[i]]
  BY DEF Release
<1>3. DOMAIN Rbuff = 1..Len(Rbuff) /\ 0 \in Nat
  BY <1>1 DEF ReadsFit
<1>4. \A i \in 1..Len(Rbuff) : Rbuff'[i] = Rbuff[i] \/ Rbuff'[i] = [Rbuff[i] EXCEPT !.dmc = less(@)]
  BY <1>2, <1>3
<1>5. Rbuff' = [i \in DOMAIN Rbuff |-> Rbuff'[i]]
  BY <1>2
<1>6. ReadsFit(Rbuff')
  BY <1>1, <1>3, <1>4, <1>5, ReadsChange
<1>7. queue' = queue \ {q} /\ left' = left
  BY DEF Release
<1>8. IsFiniteSet(queue) /\ IsFiniteSet(left) /\ queue \subseteq left /\ Cardinality(queue) <= TRANS_QUEUE_DEPTH
  BY DEF CountInv, Taken
<1>9. IsFiniteSet(queue \ {q}) /\ Cardinality(queue \ {q}) <= Cardinality(queue)
      /\ Cardinality(queue) \in Nat /\ Cardinality(queue \ {q}) \in Nat
  BY <1>8, FS_Difference, FS_Subset, FS_CardinalityType
<1>10. Taken'
  BY <1>7, <1>8, <1>9, Depths DEF Taken
<1> QED
  BY <1>6, <1>10 DEF Reads, ReadsFit

-----------------------------------------------------------------------------
(* What arb_node may do: nothing leaves, or a read does, or a write.       *)
LEMMA AgedKept ==
  ASSUME CountInv, NEW W, W \in Seq(WriteRec), Len(W) = Len(Wbuff),
         \A i \in 1..Len(Wbuff) : W[i].task = AgedWrites[i].task /\ W[i].timeout = AgedWrites[i].timeout,
         Wbuff' = Grown(W), wr_timeout_cnt' = wr_timeout_cnt + NewlyTimedOut, next' = next
  PROVE  Writes' /\ Counts'
<1>1. Wbuff \in Seq(WriteRec) /\ wr_timeout_cnt \in Nat /\ wr_timeout_cnt >= Cardinality(TimedOut(Wbuff))
  BY DEF CountInv, Writes, Counts
<1>2. /\ Alike(AgedWrites, Wbuff) /\ NewlyTimedOut \in Nat
      /\ Cardinality(TimedOut(AgedWrites)) = Cardinality(TimedOut(Wbuff)) + NewlyTimedOut
  BY <1>1, AgedAlike
<1>3. Alike(W, Wbuff)
  BY <1>2 DEF Alike
<1>4. Alike(Grown(W), W) /\ TimedOut(Grown(W)) = TimedOut(W)
  BY GrownAlike
<1>5. Alike(Wbuff', Wbuff)
  BY <1>3, <1>4, AlikeTwice
<1>6. TimedOut(W) = TimedOut(AgedWrites)
  BY <1>2 DEF Alike, TimedOut
<1>7. next \in Nat
  BY Depths DEF CountInv, Numbered
<1>8. Writes'
  BY <1>5, <1>7, WritesAlike DEF CountInv
<1>9. TimedOut(Wbuff') = TimedOut(AgedWrites)
  BY <1>4, <1>6
<1>10. Cardinality(TimedOut(Wbuff)) \in Nat
  <2>1. Len(Wbuff) \in Nat /\ TimedOut(Wbuff) \in SUBSET (1..Len(Wbuff))
    BY <1>1 DEF TimedOut
  <2> QED
    BY <2>1, PlacesFinite
<1> DEFINE T == Cardinality(TimedOut(Wbuff))
           A == Cardinality(TimedOut(AgedWrites))
           N == NewlyTimedOut
<1> HIDE DEF T, A, N
<1>11. wr_timeout_cnt + N \in Nat /\ wr_timeout_cnt + N >= A
  BY <1>1, <1>2, <1>10 DEF T, A, N
<1>12. Counts'
  BY <1>9, <1>11 DEF Counts, A, N
<1> QED
  BY <1>8, <1>12

LEMMA CountNone ==
  ASSUME CountInv, next' = next,
         \/ SendNone(AgedReads, AgedWrites)
         \/ \E i \in 1..Len(Rbuff) : RefuseRead(i)
         \/ \E i \in 1..Len(Wbuff) : RefuseWrite(i)
  PROVE  Writes' /\ Counts' /\ Reads' /\ Taken'
<1>1. Wbuff \in Seq(WriteRec) /\ ReadsFit(Rbuff) /\ Len(Rbuff) \in Nat /\ Rbuff \in Seq(ReadRec)
  BY DEF CountInv, Writes, Reads, ReadsFit
<1>2. ReadsFit(AgedReads) /\ Len(AgedReads) = Len(Rbuff) /\ Alike(AgedWrites, Wbuff)
  BY <1>1, AgedFit, AgedAlike
<1>3. PICK R, W : SendNone(R, W) /\ ReadsFit(R) /\ W \in Seq(WriteRec) /\ Len(W) = Len(Wbuff)
           /\ \A j \in 1..Len(Wbuff) : W[j].task = AgedWrites[j].task /\ W[j].timeout = AgedWrites[j].timeout
  <2>1. CASE SendNone(AgedReads, AgedWrites)
    BY <1>2, <2>1 DEF Alike
  <2>2. ASSUME NEW i \in 1..Len(Rbuff), RefuseRead(i)
        PROVE  \E R, W : SendNone(R, W) /\ ReadsFit(R) /\ W \in Seq(WriteRec) /\ Len(W) = Len(Wbuff)
           /\ \A j \in 1..Len(Wbuff) : W[j].task = AgedWrites[j].task /\ W[j].timeout = AgedWrites[j].timeout
    <3> DEFINE r == [AgedReads[i] EXCEPT !.timeout = TRUE]
               R == [AgedReads EXCEPT ![i] = r]
    <3>0. AgedReads \in Seq(ReadRec)
      BY <1>2 DEF ReadsFit
    <3>1. R = [j \in DOMAIN AgedReads |-> R[j]] /\ 0 \in Nat
      BY <3>0
    <3>3. SendNone(R, AgedWrites)
      BY <2>2, <3>0 DEF RefuseRead
    <3> HIDE DEF r
    <3>5. \A j \in 1..Len(AgedReads) : R[j] = AgedReads[j] \/ (j = i /\ R[j] = r)
      BY <3>0
    <3> HIDE DEF R
    <3>2. \A j \in 1..Len(AgedReads) :
             R[j] = AgedReads[j] \/ R[j] = [AgedReads[j] EXCEPT !.timeout = TRUE]
      BY <3>5 DEF r
    <3>4. ReadsFit(R)
      BY <1>2, <3>1, <3>2, ReadsChange
    <3> QED
      BY <1>2, <3>3, <3>4 DEF Alike
  <2>3. ASSUME NEW i \in 1..Len(Wbuff), RefuseWrite(i)
        PROVE  \E R, W : SendNone(R, W) /\ ReadsFit(R) /\ W \in Seq(WriteRec) /\ Len(W) = Len(Wbuff)
           /\ \A j \in 1..Len(Wbuff) : W[j].task = AgedWrites[j].task /\ W[j].timeout = AgedWrites[j].timeout
    <3> DEFINE b == FALSE
               n == Wbuff[i].qos
               w == [AgedWrites[i] EXCEPT !.ready = b, !.pri = n]
               W == [AgedWrites EXCEPT ![i] = w]
    <3>1. AgedWrites \in Seq(WriteRec) /\ Len(AgedWrites) = Len(Wbuff)
      BY <1>2 DEF Alike
    <3>2. AgedWrites[i] \in WriteRec /\ b \in BOOLEAN /\ n \in Nat
      BY <1>1, <3>1, WriteAt
    <3>3. SendNone(AgedReads, W)
      <4>1. [AgedWrites EXCEPT ![i].ready = FALSE, ![i].pri = Wbuff[i].qos] = W
        BY <3>1
      <4> QED
        BY <2>3, <4>1 DEF RefuseWrite
    <3> HIDE DEF b, n
    <3>4. w \in WriteRec /\ w.task = AgedWrites[i].task /\ w.timeout = AgedWrites[i].timeout
      BY <3>2 DEF WriteRec
    <3> HIDE DEF w
    <3>5. /\ W \in Seq(WriteRec) /\ Len(W) = Len(Wbuff)
          /\ \A j \in 1..Len(Wbuff) : W[j] = IF j = i THEN w ELSE AgedWrites[j]
      BY <3>1, <3>4
    <3>6. \A j \in 1..Len(Wbuff) : W[j].task = AgedWrites[j].task /\ W[j].timeout = AgedWrites[j].timeout
      BY <3>4, <3>5
    <3> HIDE DEF W
    <3> QED
      BY <1>2, <3>3, <3>5, <3>6
  <2> QED
    BY <2>1, <2>2, <2>3
<1>4. /\ Rbuff' = Grown(R) /\ Wbuff' = Grown(W) /\ queue' = queue /\ left' = left
      /\ wr_timeout_cnt' = wr_timeout_cnt + NewlyTimedOut
  BY <1>3 DEF SendNone, Refuses
<1>5. Writes' /\ Counts'
  BY <1>3, <1>4, AgedKept
<1>6. ReadsFit(Rbuff')
  BY <1>3, <1>4, GrownFit
<1>7. Taken'
  BY <1>4 DEF CountInv, Taken
<1> QED
  BY <1>5, <1>6, <1>7 DEF Reads, ReadsFit

(* The controller takes a command when it has room.                        *)
LEMMA TakenKept == ASSUME Taken, NEW c, Takes(c) PROVE Taken'
<1>1. queue' = queue \cup {c} /\ left' = left \cup {c} /\ ~(Cardinality(queue) >= TRANS_QUEUE_DEPTH)
  BY DEF Takes, full
<1>2. /\ IsFiniteSet(queue') /\ IsFiniteSet(left') /\ Cardinality(queue) \in Nat
      /\ Cardinality(queue') = IF c \in queue THEN Cardinality(queue) ELSE Cardinality(queue) + 1
  BY <1>1, FS_AddElement, FS_CardinalityType DEF Taken
<1>3. Cardinality(queue') <= TRANS_QUEUE_DEPTH
  BY <1>1, <1>2, Depths
<1> QED
  BY <1>1, <1>2, <1>3 DEF Taken

LEMMA CountSendRead ==
  ASSUME CountInv, next' = next, NEW i \in 1..Len(Rbuff), SendRead(i)
  PROVE  Writes' /\ Counts' /\ Reads' /\ Taken'
<1>1. Wbuff \in Seq(WriteRec) /\ ReadsFit(Rbuff) /\ Rbuff \in Seq(ReadRec)
  BY DEF CountInv, Writes, Reads, ReadsFit
<1>2. ReadsFit(AgedReads) /\ Len(AgedReads) = Len(Rbuff) /\ Alike(AgedWrites, Wbuff)
  BY <1>1, AgedFit, AgedAlike
<1> DEFINE X == [j \in DOMAIN Rbuff |-> IF Rbuff[j].addr = Rbuff[i].addr
                                        THEN [AgedReads[j] EXCEPT !.dmc = less(@)] ELSE AgedReads[j]]
<1>3. Rbuff' = RemoveAt(Grown(X), i) /\ Wbuff' = Grown(AgedWrites)
      /\ wr_timeout_cnt' = wr_timeout_cnt + NewlyTimedOut
  BY DEF SendRead
<1>4. AgedReads \in Seq(ReadRec) /\ DOMAIN AgedReads = DOMAIN Rbuff
  BY <1>1, <1>2 DEF ReadsFit
<1>5. X = [j \in DOMAIN AgedReads |-> X[j]] /\ 0 \in Nat
  BY <1>4
<1>6. \A j \in 1..Len(AgedReads) :
        X[j] = AgedReads[j] \/ X[j] = [AgedReads[j] EXCEPT !.dmc = less(@)]
  BY <1>4
<1> HIDE DEF X
<1>7. ReadsFit(X) /\ Len(X) = Len(Rbuff)
  BY <1>2, <1>5, <1>6, ReadsChange
<1>8. ReadsFit(Grown(X)) /\ Len(Grown(X)) = Len(Rbuff)
  BY <1>7, GrownFit
<1>9. ReadsFit(Rbuff')
  BY <1>3, <1>8, RemovedFit
<1>10. Writes' /\ Counts'
  BY <1>2, <1>3, AgedKept DEF Alike
<1>11. Taken'
  BY TakenKept DEF CountInv, SendRead
<1> QED
  BY <1>9, <1>10, <1>11 DEF Reads, ReadsFit

LEMMA CountSendWrite ==
  ASSUME CountInv, next' = next, NEW i \in 1..Len(Wbuff), SendWrite(i)
  PROVE  Writes' /\ Counts' /\ Reads' /\ Taken'
<1>1. /\ Wbuff \in Seq(WriteRec) /\ ReadsFit(Rbuff) /\ Rbuff \in Seq(ReadRec)
      /\ wr_timeout_cnt \in Nat /\ wr_timeout_cnt >= Cardinality(TimedOut(Wbuff))
      /\ Len(Wbuff) <= WB_WDEPTH /\ Unlike(Wbuff)
  BY DEF CountInv, Writes, Reads, Counts, ReadsFit
<1>2. /\ ReadsFit(AgedReads) /\ Len(AgedReads) = Len(Rbuff) /\ Alike(AgedWrites, Wbuff)
      /\ NewlyTimedOut \in Nat
      /\ Cardinality(TimedOut(AgedWrites)) = Cardinality(TimedOut(Wbuff)) + NewlyTimedOut
  BY <1>1, AgedFit, AgedAlike
<1> DEFINE X == [j \in DOMAIN Rbuff |-> IF Rbuff[j].addr = Wbuff[i].addr
                                        THEN [AgedReads[j] EXCEPT !.gbuf = less(@)] ELSE AgedReads[j]]
           G == Grown(AgedWrites)
<1>3. Rbuff' = Grown(X) /\ Wbuff' = RemoveAt(G, i)
      /\ wr_timeout_cnt' = wr_timeout_cnt + NewlyTimedOut - (IF AgedWrites[i].timeout THEN 1 ELSE 0)
  BY DEF SendWrite, Told
<1>4. AgedReads \in Seq(ReadRec) /\ DOMAIN AgedReads = DOMAIN Rbuff
  BY <1>1, <1>2 DEF ReadsFit
<1>5. X = [j \in DOMAIN AgedReads |-> X[j]] /\ 0 \in Nat
  BY <1>4
<1>6. \A j \in 1..Len(AgedReads) :
        X[j] = AgedReads[j] \/ X[j] = [AgedReads[j] EXCEPT !.gbuf = less(@)]
  BY <1>4
<1> HIDE DEF X
<1>7. ReadsFit(X)
  BY <1>2, <1>5, <1>6, ReadsChange
<1>8. Reads'
  BY <1>3, <1>7, GrownFit DEF Reads, ReadsFit
<1>9. AgedWrites \in Seq(WriteRec)
  BY <1>2 DEF Alike
<1>10. Alike(G, AgedWrites) /\ TimedOut(G) = TimedOut(AgedWrites)
  BY <1>9, GrownAlike
<1>11. Alike(G, Wbuff)
  BY <1>2, <1>10, AlikeTwice
<1> HIDE DEF G
<1>12. G \in Seq(WriteRec) /\ Len(G) = Len(Wbuff) /\ \A j \in 1..Len(Wbuff) : G[j].task = Wbuff[j].task
  BY <1>11 DEF Alike
<1>13. /\ Wbuff' \in Seq(WriteRec) /\ Len(Wbuff') = Len(Wbuff) - 1
       /\ \A k \in 1..(Len(Wbuff) - 1) : Wbuff'[k] = G[IF k < i THEN k ELSE k + 1]
  BY <1>3, <1>12, Removed
<1>14. Len(Wbuff) \in Nat
  BY <1>1
<1>15. ASSUME NEW k \in 1..Len(Wbuff')
       PROVE  /\ (IF k < i THEN k ELSE k + 1) \in 1..Len(Wbuff)
              /\ Wbuff'[k].task = Wbuff[IF k < i THEN k ELSE k + 1].task
  <2>1. k \in 1..(Len(Wbuff) - 1) /\ (IF k < i THEN k ELSE k + 1) \in 1..Len(Wbuff)
    BY <1>13, <1>14
  <2> QED
    BY <1>12, <1>13, <2>1
<1>16. Writes'
  <2>1. Unlike(Wbuff')
    <3> SUFFICES ASSUME NEW k \in 1..Len(Wbuff'), NEW l \in 1..Len(Wbuff'), Wbuff'[k].task = Wbuff'[l].task
                 PROVE  k = l
      BY DEF Unlike
    <3>1. (IF k < i THEN k ELSE k + 1) = (IF l < i THEN l ELSE l + 1)
      BY <1>1, <1>15 DEF Unlike
    <3>2. k \in Int /\ l \in Int
      BY <1>13, <1>14
    <3> QED
      BY <3>1, <3>2
  <2>2. \A j \in 1..Len(Wbuff) : Wbuff[j].task \in 1..NTasks /\ Wbuff[j].task < next
    BY DEF CountInv, Writes
  <2>3. ASSUME NEW k \in 1..Len(Wbuff') PROVE Wbuff'[k].task \in 1..NTasks /\ Wbuff'[k].task < next'
    BY <1>15, <2>2
  <2>4. Len(Wbuff') <= WB_WDEPTH
    BY <1>1, <1>13, <1>14, Depths
  <2> QED
    BY <1>13, <2>1, <2>3, <2>4 DEF Writes
<1>17. Counts'
  <2> DEFINE T == Cardinality(TimedOut(Wbuff))
             A == Cardinality(TimedOut(AgedWrites))
             B == Cardinality(TimedOut(Wbuff'))
             N == NewlyTimedOut
             d == IF AgedWrites[i].timeout THEN 1 ELSE 0
  <2>1. T \in Nat
    <3>1. TimedOut(Wbuff) \in SUBSET (1..Len(Wbuff))
      BY DEF TimedOut
    <3> QED
      BY <1>14, <3>1, PlacesFinite
  <2>2. B \in Nat /\ B + d <= A
    <3>1. /\ Cardinality(TimedOut(RemoveAt(G, i))) \in Nat
          /\ Cardinality(TimedOut(RemoveAt(G, i))) + (IF G[i].timeout THEN 1 ELSE 0)
               <= Cardinality(TimedOut(G))
      BY <1>12, TimedOutRemoved
    <3>2. G[i].timeout <=> AgedWrites[i].timeout
      <4>1. i \in TimedOut(G) <=> i \in TimedOut(AgedWrites)
        BY <1>10
      <4>2. Len(AgedWrites) = Len(Wbuff)
        BY <1>2 DEF Alike
      <4> QED
        BY <1>12, <4>1, <4>2 DEF TimedOut
    <3> QED
      BY <1>3, <1>10, <3>1, <3>2
  <2>3. A = T + N /\ N \in Nat /\ wr_timeout_cnt >= T /\ wr_timeout_cnt \in Nat
    BY <1>1, <1>2
  <2>4. d \in {0, 1} /\ wr_timeout_cnt' = wr_timeout_cnt + N - d
    BY <1>3
  <2> HIDE DEF T, A, B, N, d
  <2>5. wr_timeout_cnt + N - d \in Nat /\ wr_timeout_cnt + N - d >= B
    BY <2>1, <2>2, <2>3, <2>4
  <2> QED
    BY <2>4, <2>5 DEF Counts, B
<1>18. Taken'
  BY TakenKept DEF CountInv, SendWrite
<1> QED
  BY <1>8, <1>16, <1>17, <1>18

-----------------------------------------------------------------------------
(* update_state_trig, sch_wque: the counters of the state machine.         *)
LEMMA SentOne ==
  ASSUME Taken, left' = left \/ \E c : left' = left \cup {c}
  PROVE  Sent \in {0, 1}
<1>1. IsFiniteSet(left) /\ Cardinality(left) \in Nat
  BY FS_CardinalityType DEF Taken
<1>2. CASE left' = left
  BY <1>1, <1>2 DEF Sent
<1>3. ASSUME NEW c, left' = left \cup {c} PROVE Sent \in {0, 1}
  <2>1. Cardinality(left') = IF c \in left THEN Cardinality(left) ELSE Cardinality(left) + 1
    BY <1>1, <1>3, FS_AddElement
  <2> QED
    BY <1>1, <2>1 DEF Sent
<1> QED
  BY <1>2, <1>3

LEMMA TrigOf == ASSUME States PROVE Trig \in 0..5
<1>1. \A S \in SUBSET (1..5) : S # {} => Max(S) \in S
  <2> SUFFICES ASSUME NEW S \in SUBSET (1..5), S # {} PROVE Max(S) \in S
    OBVIOUS
  <2>1. \E x \in S : \A y \in S : x >= y
    <3>1. \A y \in S : y \in {1, 2, 3, 4, 5}
      OBVIOUS
    <3>2. CASE 5 \in S
      BY <3>1, <3>2
    <3>3. CASE 5 \notin S /\ 4 \in S
      BY <3>1, <3>3
    <3>4. CASE 5 \notin S /\ 4 \notin S /\ 3 \in S
      BY <3>1, <3>4
    <3>5. CASE 5 \notin S /\ 4 \notin S /\ 3 \notin S /\ 2 \in S
      BY <3>1, <3>5
    <3>6. CASE 5 \notin S /\ 4 \notin S /\ 3 \notin S /\ 2 \notin S
      <4>1. \A y \in S : y = 1
        BY <3>1, <3>6
      <4>2. PICK x \in S : TRUE
        OBVIOUS
      <4>3. x = 1
        BY <4>1, <4>2
      <4> QED
        BY <4>1, <4>2, <4>3
    <3> QED
      BY <3>2, <3>3, <3>4, <3>5, <3>6
  <2> QED
    BY <2>1 DEF Max
<1>2. LevelTrig \in SUBSET (1..5)
  BY DEF LevelTrig
<1>3. LevelTrig # {} => Max(LevelTrig) \in 0..5
  <2> DEFINE S == LevelTrig
  <2>1. S \in SUBSET (1..5)
    BY <1>2
  <2> HIDE DEF S
  <2>2. S # {} => Max(S) \in 1..5
    BY <1>1, <2>1
  <2> QED
    BY <2>2 DEF S
<1>4. state_trig \in 0..5
  BY DEF States
<1> QED
  BY <1>3, <1>4 DEF Trig

LEMMA StatesNext ==
  ASSUME States, Taken, Update, left' = left \/ \E c : left' = left \cup {c}
  PROVE  States'
<1>0. /\ wbuff_state \in {"IDLE", "WRITE"} /\ state_trig \in 0..5 /\ until_adapt \in 1..GBUF_WCMD_PRIADAPT
      /\ no_cmd_sch_cnt \in 0..(NO_CMD_SCH_TH + 1) /\ ser_write_cnt \in 0..WR_MOST_LEVEL
      /\ idle_trig_time \in 0..IDLE_TRIG /\ wbuff_state_gap \in Nat
  BY DEF States
<1>1. PICK C : NextCounters(C)
  BY DEF Update
<1>2. wbuff_state' \in {"IDLE", "WRITE"}
  BY <1>0 DEF Update, State
<1>3. state_trig' \in 0..5
  BY TrigOf DEF Update
<1>4. until_adapt' \in 1..GBUF_WCMD_PRIADAPT
  BY <1>0, Depths DEF Update, Adapts
<1>5. no_cmd_sch_cnt' \in 0..(NO_CMD_SCH_TH + 1)
  <2>1. Ends <=> (~Idle /\ (ser_write_cnt >= WR_MOST_LEVEL \/ no_cmd_sch_cnt > NO_CMD_SCH_TH))
    BY DEF Ends
  <2>2. Starts => Idle
    BY DEF Starts
  <2>3. State = IF Starts THEN "WRITE" ELSE IF Ends THEN "IDLE" ELSE wbuff_state
    BY DEF State
  <2>4. Idle <=> wbuff_state = "IDLE"
    BY DEF Idle
  <2> DEFINE base == IF Starts \/ Ends THEN 0 ELSE no_cmd_sch_cnt
  <2>5. no_cmd_sch_cnt' = IF State = "IDLE" THEN base ELSE IF C = {} THEN base + 1 ELSE 0
    BY <1>1 DEF NextCounters
  <2>6. base \in 0..(NO_CMD_SCH_TH + 1)
    BY <1>0, Depths
  <2>7. State # "IDLE" => base \in 0..NO_CMD_SCH_TH
    BY <1>0, <2>1, <2>2, <2>3, <2>4, Depths
  <2> HIDE DEF base
  <2> QED
    BY <2>5, <2>6, <2>7, Depths
<1>6. ser_write_cnt' \in 0..WR_MOST_LEVEL
  <2>1. Ends <=> (~Idle /\ (ser_write_cnt >= WR_MOST_LEVEL \/ no_cmd_sch_cnt > NO_CMD_SCH_TH))
    BY DEF Ends
  <2>2. Sent \in {0, 1}
    BY SentOne
  <2>3. ser_write_cnt' = (IF Ends THEN 0 ELSE ser_write_cnt) + (IF Idle THEN 0 ELSE Sent)
    BY DEF Update
  <2> QED
    BY <1>0, <2>1, <2>2, <2>3, Depths
<1>7. idle_trig_time' \in 0..IDLE_TRIG
  <2> DEFINE n == idle_trig_time + 1
  <2>1. n \in Nat /\ idle_trig_time \in Nat
    BY <1>0, Depths
  <2>2. IdleTime = IF ~Idle THEN idle_trig_time ELSE IF IdleTrig THEN Min({n, IDLE_TRIG}) ELSE 0
    BY DEF IdleTime
  <2> HIDE DEF n
  <2>3. Min({n, IDLE_TRIG}) = IF n <= IDLE_TRIG THEN n ELSE IDLE_TRIG
    BY <2>1, Depths, MinOfTwo
  <2> QED
    BY <1>0, <2>1, <2>2, <2>3, Depths DEF Update
<1>8. wbuff_state_gap' \in Nat
  <2>1. wbuff_state_gap' = IF ~Ends THEN less(wbuff_state_gap)
                           ELSE IF state_trig = 5 THEN GAP[1] ELSE GAP[2] + ser_write_cnt
    BY <1>1 DEF NextCounters
  <2>2. less(wbuff_state_gap) \in Nat
    BY <1>0 DEF less
  <2> QED
    BY <1>0, <2>1, <2>2, Depths
<1> QED
  BY <1>2, <1>3, <1>4, <1>5, <1>6, <1>7, <1>8 DEF States

(* The error of the beats is raised, never taken back.                     *)
Raised == order_error \in BOOLEAN
LEMMA ErrorBoolean == Raised /\ [Next]_vars => Raised'
<1> SUFFICES ASSUME order_error \in BOOLEAN, [Next]_vars PROVE order_error' \in BOOLEAN
  BY DEF Raised
<1>1. ASSUME NEW b, NEW e, Send(b, e) PROVE order_error' \in BOOLEAN
  <2>1. order_error' = order_error \/ order_error' = TRUE
    BY <1>1 DEF Send
  <2> QED
    BY <2>1
<1>2. CASE Update
  <2>1. PICK B \in SUBSET {a.addr[1] : a \in Asks} : ArbNode(WriteCands(B))
    BY <1>2 DEF Update
  <2> QED
    BY <1>1, <2>1 DEF ArbNode, SendRead, SendWrite, SendNone, RefuseRead, RefuseWrite
<1>3. CASE UNCHANGED order_error
  BY <1>3
<1> QED
  BY <1>2, <1>3 DEF Next, AddForwarded, AddRead, AddMerged, AddWrite, AddData, Release, dmcVars, vars

LEMMA CountUpdate == ASSUME CountInv, Update PROVE CountInv'
<1>1. PICK B \in SUBSET {a.addr[1] : a \in Asks} : ArbNode(WriteCands(B))
  BY DEF Update
<1>2. next' = next /\ config' = config /\ added' = FALSE
  BY DEF Update
<1>3. \A i \in ReadCands : i \in 1..Len(Rbuff)
  BY DEF ReadCands, CountInv, Reads
<1>4. \A i \in WriteCands(B) : i \in 1..Len(Wbuff)
  BY DEF WriteCands, CountInv, Writes
<1>5. \/ SendNone(AgedReads, AgedWrites)
      \/ \E i \in 1..Len(Rbuff) : RefuseRead(i)
      \/ \E i \in 1..Len(Wbuff) : RefuseWrite(i)
      \/ \E i \in 1..Len(Rbuff) : SendRead(i)
      \/ \E i \in 1..Len(Wbuff) : SendWrite(i)
  BY <1>1, <1>3, <1>4 DEF ArbNode
<1>6. Writes' /\ Counts' /\ Reads' /\ Taken'
  BY <1>2, <1>5, CountNone, CountSendRead, CountSendWrite
<1>7. left' = left \/ \E c : left' = left \cup {c}
  BY <1>5 DEF SendNone, Refuses, RefuseRead, RefuseWrite, SendRead, SendWrite, Takes
<1>8. States'
  BY <1>7, StatesNext DEF CountInv
<1>9. Numbered'
  BY <1>2 DEF CountInv, Numbered
<1> QED
  BY <1>6, <1>8, <1>9 DEF CountInv

LEMMA CountNext == CountInv /\ [Next]_vars => CountInv'
<1> SUFFICES ASSUME CountInv, [Next]_vars PROVE CountInv'
  OBVIOUS
<1>1. ASSUME Comes, config' = config PROVE Numbered' /\ next' \in Nat /\ next <= next'
  <2>1. next' = next + 1 /\ next \in 1..(NTasks + 1) /\ next <= NTasks /\ added' = TRUE
    BY <1>1 DEF Comes, CountInv, Numbered
  <2> QED
    BY <1>1, <2>1, Depths DEF CountInv, Numbered
<1>2. ASSUME NEW k \in Asks, AddForwarded(k) PROVE CountInv'
  <2>1. /\ Numbered' /\ next' \in Nat /\ next <= next'
        /\ UNCHANGED <<config, Rbuff, Wbuff, wr_timeout_cnt, stateVars, queue, left>>
    BY <1>1, <1>2 DEF AddForwarded, bufVars, dmcVars
  <2>2. Alike(Wbuff', Wbuff)
    BY <2>1 DEF Alike, CountInv, Writes
  <2>3. Writes'
    BY <2>1, <2>2, WritesAlike DEF CountInv
  <2> QED
    BY <2>1, <2>3 DEF CountInv, Counts, Reads, Taken, States, stateVars
<1>3. ASSUME NEW k \in Asks, AddRead(k) PROVE CountInv'
  <2>1. /\ Numbered' /\ next' \in Nat /\ next <= next' /\ push_wcmd(k.addr)
        /\ Rbuff' = Append(Rbuff, NewRead(k)) /\ Len(Rbuff) < WB_RDEPTH
        /\ UNCHANGED <<config, stateVars, queue, left>>
    BY <1>1, <1>3 DEF AddRead, Comes, dmcVars
  <2>2. Writes' /\ Counts'
    BY <2>1, CountPush
  <2>3. Reads'
    BY <2>1, NewFit DEF CountInv, Reads, ReadsFit
  <2> QED
    BY <2>1, <2>2, <2>3 DEF CountInv, Taken, States, stateVars
<1>4. ASSUME NEW k \in Asks, AddMerged(k) \/ AddWrite(k) PROVE CountInv'
  <2>1. Numbered' /\ UNCHANGED <<config, Rbuff, stateVars, queue, left>>
    BY <1>1, <1>4 DEF AddMerged, AddWrite, dmcVars
  <2>2. Writes' /\ Counts'
    BY <1>4, CountMerged, CountWrite
  <2> QED
    BY <2>1, <2>2 DEF CountInv, Reads, Taken, States, stateVars
<1>5. CASE AddData
  <2>1. Writes' /\ Counts'
    BY <1>5, CountData
  <2>2. UNCHANGED <<config, next, added, Rbuff, stateVars, queue, left>>
    BY <1>5 DEF AddData, dmcVars
  <2> QED
    BY <2>1, <2>2 DEF CountInv, Numbered, Reads, Taken, States, stateVars
<1>6. ASSUME NEW q \in queue, Release(q) PROVE CountInv'
  <2>1. Reads' /\ Taken'
    BY <1>6, CountRelease
  <2>2. UNCHANGED <<config, next, added, Wbuff, wr_timeout_cnt, stateVars>>
    BY <1>6 DEF Release
  <2> QED
    BY <2>1, <2>2 DEF CountInv, Numbered, Writes, Unlike, Counts, TimedOut, States, stateVars
<1>7. CASE Update
  BY <1>7, CountUpdate
<1>8. CASE UNCHANGED vars
  BY <1>8 DEF vars, bufVars, stateVars, dmcVars, CountInv, Numbered, Writes, Unlike, Counts, TimedOut,
              Reads, Taken, States
<1> QED
  BY <1>2, <1>3, <1>4, <1>5, <1>6, <1>7, <1>8 DEF Next

(* CountersSound for every instance, whatever the priorities: the buffers  *)
(* keep to their depths, a group of writes to its length, the counters of  *)
(* conflicts to theirs (rcmd_set_conflict, arb_node), and wr_timeout_cnt   *)
(* misses no write that has timed out (check_timeout, rcmd_push_wcmd).     *)
THEOREM CountersSoundHolds == Spec => []CountersSound
<1>1. CountInv /\ ConflictCounts /\ BeatsInv /\ Raised => CountersSound
  <2> SUFFICES ASSUME CountInv, ConflictCounts, BeatsInv, order_error \in BOOLEAN PROVE TypeOK /\ TimedOutCounted
    BY DEF CountersSound, Raised
  <2>1. Wbuff \in Seq(WriteRec) /\ Rbuff \in Seq(ReadRec)
    BY DEF CountInv, Writes, Reads
  <2>2. ASSUME NEW r \in ToSet(Rbuff) PROVE r.gbuf \in 0..WB_WDEPTH /\ r.dmc \in 0..TRANS_QUEUE_DEPTH
    <3>1. PICK j \in 1..Len(Rbuff) : r = Rbuff[j]
      BY <2>1 DEF ToSet
    <3>2. r.gbuf \in Nat /\ r.dmc \in Nat /\ r.gbuf <= WB_WDEPTH /\ r.dmc <= TRANS_QUEUE_DEPTH
      BY <2>1, <3>1, ReadAt DEF CountInv, Reads
    <3> QED
      BY <3>2, Depths
  <2>3. ASSUME NEW w \in ToSet(Wbuff) PROVE w.task \in 1..NTasks /\ w.pri \in Nat /\ w.wide \in BOOLEAN
    <3>1. PICK j \in 1..Len(Wbuff) : w = Wbuff[j]
      BY <2>1 DEF ToSet
    <3>2. w \in WriteRec /\ w.task \in 1..NTasks
      BY <2>1, <3>1, WriteAt DEF CountInv, Writes
    <3> QED
      BY <3>2 DEF WriteRec
  <2>5. TypeOK
    BY <2>2, <2>3 DEF TypeOK, CountInv, Numbered, Writes, Reads, Counts, Taken, States
  <2>6. TimedOut(Wbuff) = {i \in DOMAIN Wbuff : Wbuff[i].timeout}
    BY <2>1 DEF TimedOut
  <2> QED
    BY <2>5, <2>6 DEF TimedOutCounted, CountInv, Counts
<1>2. Spec => []BeatsInv
  <2>1. Init => BeatsInv
    <3>1. <<>> \in Seq({})
      OBVIOUS
    <3> QED
      BY <3>1 DEF Init, BeatsInv
  <2> QED
    BY <2>1, BeatsNext, PTL DEF Spec
<1>3. Spec => []Raised
  <2>1. Init => Raised
    BY DEF Init, Raised
  <2> QED
    BY <2>1, ErrorBoolean, PTL DEF Spec
<1> QED
  BY <1>1, <1>2, <1>3, CountInit, CountNext, ConflictCountsHold, PTL DEF Spec
=============================================================================
