------------------------ MODULE RefreshBank_proofs -------------------------
(***************************************************************************)
(* What per-bank refresh promises, for any banks, times and transactions.  *)
(*                                                                         *)
(* Why no bank falls behind what the rank counts: a refresh that is done   *)
(* takes a bank one step down, or the bank is ahead already; the round is  *)
(* paid for once all banks have taken that step.  In plain mode only the   *)
(* first bank of each pair is looked at, so that pairs must stay whole.    *)
(*                                                                         *)
(* Why one pair at a time is claimed, and refreshed whole: BanksInv, which *)
(* follows each bank through its countdowns and its pair through the steps *)
(* of the claim, and keeps for every queued command what it was queued for.*)
(*                                                                         *)
(* Why the commands of plain mode are legal: BanksInv, and ReadyInv, which *)
(* says that the second bank of a pair is never refreshable later than the *)
(* first although nobody asks for its time.                                *)
(*                                                                         *)
(* Why refreshes are not postponed for ever: Calm, which bounds what is    *)
(* half done and every countdown, and LevelInv, which counts, once no more *)
(* may be postponed, the commands left until the next refresh falls due and*)
(* those the rank still needs to become idle.                              *)
(***************************************************************************)
EXTENDS RefreshBank, FiniteSetTheorems, TLAPS

(* A bank is never more than one refresh ahead of what has fallen due.     *)
LagT == lag \in [Banks -> Int] /\ \A b \in Banks : lag[b] >= -1

(* The end of a round has not been paid for before the count allows it.    *)
CountT == /\ refresh_cnt \in Nat /\ refresh_pbr_has_finish \in BOOLEAN
          /\ refresh_cnt >= Mark(refresh_pbr_has_finish)

(* A command for the whole rank is queued only for a refresh that is owed, *)
(* and never stays until refresh runs again.                               *)
RefOwed == \A c \in CmdQueue : c.type = "REF" =>
              phase # "ref" /\ refresh_cnt >= 1 + Mark(refresh_pbr_has_finish)

(* Banks are refreshed in the pairs of the configuration.                  *)
WholePairs ==
    /\ send_pbr \in Pairs \cup {{}}
    /\ \A c \in CmdQueue : c.type = "REFPB" => c.pair \in Pairs

(* In plain mode a first bank is finished only together with its partner.  *)
PartnersDone ==
    /\ finish_refresh_pb \subseteq Banks
    /\ ~config.enh => \A b \in First : b \in finish_refresh_pb => b + PAIRS \in finish_refresh_pb

OwedInv == LagT /\ CountT /\ RefOwed /\ WholePairs /\ PartnersDone /\ RefreshOwed
-----------------------------------------------------------------------------
(* The partner of a first bank is PAIRS further on.                        *)
LEMMA PairOfFirst ==
    ASSUME RefreshBankAssumption, NEW b \in First
    PROVE  Pair(b) = {b, b + PAIRS}
<1>1. PAIRS \in Nat \ {0} /\ b \in Int /\ 0 <= b /\ b < PAIRS
    BY DEF RefreshBankAssumption, First
<1>2. (b + PAIRS) % (2 * PAIRS) = b + PAIRS
    BY <1>1, SMTT(30)
<1> QED BY <1>2 DEF Pair, NUM_BANKS

(* Every pair is a set of banks, and in plain mode it is whole.            *)
LEMMA PairsAreBanks ==
    ASSUME RefreshBankAssumption, NEW p \in Pairs
    PROVE  /\ p \subseteq Banks
           /\ ~config.enh => \A b \in First : b \in p => b + PAIRS \in p
<1>1. PAIRS \in Nat \ {0}
    BY DEF RefreshBankAssumption
<1>2. CASE config.enh
    BY <1>2 DEF Pairs, kSubset
<1>3. CASE ~config.enh
    <2>1. PICK a \in First : p = Pair(a)
        BY <1>3 DEF Pairs
    <2>2. p = {a, a + PAIRS}
        BY <2>1, PairOfFirst
    <2> QED BY <1>1, <2>2 DEF First, Banks, NUM_BANKS
<1> QED BY <1>2, <1>3

(* When the round is over, every bank has been refreshed in it.            *)
LEMMA AllDone ==
    ASSUME RefreshBankAssumption, PartnersDone, RoundDone, NEW b \in Banks
    PROVE  b \in finish_refresh_pb
<1>1. PAIRS \in Nat \ {0}
    BY DEF RefreshBankAssumption
<1>2. CASE config.enh
    BY <1>2 DEF RoundDone, Heads
<1>3. CASE ~config.enh
    <2>1. First \subseteq finish_refresh_pb
        BY <1>3 DEF RoundDone, Heads
    <2>2. CASE b < PAIRS
        BY <1>1, <2>1, <2>2 DEF First, Banks, NUM_BANKS
    <2>3. CASE b >= PAIRS
        <3>1. b - PAIRS \in First /\ (b - PAIRS) + PAIRS = b
            BY <1>1, <2>3 DEF First, Banks, NUM_BANKS
        <3> QED BY <1>3, <2>1, <3>1 DEF PartnersDone
    <2> QED BY <1>1, <2>2, <2>3 DEF Banks, NUM_BANKS
<1> QED BY <1>2, <1>3
-----------------------------------------------------------------------------
(* The pairs are those of the configuration, which stays.                  *)
LEMMA PairsStay ==
    ASSUME config' = config
    PROVE  Pairs' = Pairs
BY DEF Pairs, kSubset, Pair, First, Banks, NUM_BANKS

(* The promises hold at the start: nothing is owed.                        *)
LEMMA OwedInit ==
    ASSUME RefreshBankAssumption, Init
    PROVE  OwedInv
<1>0. /\ refresh_cnt = 0 /\ refresh_pbr_has_finish = FALSE /\ lag = [b \in Banks |-> 0]
      /\ CmdQueue = {} /\ send_pbr = {} /\ finish_refresh_pb = {}
    BY DEF Init
<1>1. LagT
    BY <1>0 DEF LagT
<1>2. CountT
    <2>1. Mark(refresh_pbr_has_finish) = 0
        BY <1>0, Zenon DEF Mark
    <2>2. refresh_pbr_has_finish \in BOOLEAN
        BY <1>0
    <2>3. refresh_cnt \in Nat /\ refresh_cnt >= 0
        BY <1>0
    <2> QED BY <2>1, <2>2, <2>3 DEF CountT
<1>3. RefOwed /\ WholePairs /\ PartnersDone
    BY <1>0 DEF RefOwed, WholePairs, PartnersDone
<1>4. RefreshOwed
    BY <1>0 DEF RefreshOwed, Mark
<1> QED BY <1>1, <1>2, <1>3, <1>4 DEF OwedInv

(* A step that leaves the counts and the round alone, and queues nothing.  *)
LEMMA OwedSame ==
    ASSUME OwedInv, UNCHANGED <<config, lag, refresh_cnt, refresh_pbr_has_finish,
                                finish_refresh_pb, send_pbr>>,
           CmdQueue' = {} \/ (CmdQueue' = CmdQueue /\ phase' # "ref")
    PROVE  OwedInv'
<1>1. LagT' /\ CountT'
    BY DEF OwedInv, LagT, CountT, Mark
<1>2. RefOwed'
    BY DEF OwedInv, RefOwed, Mark
<1>3. WholePairs'
    <2>1. Pairs' = Pairs
        BY PairsStay
    <2> QED BY <2>1 DEF OwedInv, WholePairs
<1>4. PartnersDone'
    BY DEF OwedInv, PartnersDone
<1>5. RefreshOwed'
    BY DEF OwedInv, RefreshOwed, Mark
<1> QED BY <1>1, <1>2, <1>3, <1>4, <1>5 DEF OwedInv

(* What is done takes a bank one step down, unless it is ahead already.    *)
LEMMA PaidSteps ==
    ASSUME LagT, NEW S, lag' = Paid(S)
    PROVE  /\ LagT'
           /\ \A b \in Banks : /\ b \in S => lag'[b] = lag[b] - 1 \/ lag'[b] = -1
                               /\ b \notin S => lag'[b] = lag[b]
<1>1. \A b \in Banks : lag[b] \in Int /\ lag[b] >= -1
    BY DEF LagT
<1>2. lag' = [b \in Banks |-> IF b \in S /\ lag[b] >= 0 THEN lag[b] - 1 ELSE lag[b]]
    BY DEF Paid
<1>3. \A b \in Banks : lag'[b] \in Int /\ lag'[b] >= -1
    BY <1>1, <1>2
<1>4. \A b \in Banks : b \in S => lag'[b] = lag[b] - 1 \/ lag'[b] = -1
    BY <1>1, <1>2
<1>5. \A b \in Banks : b \notin S => lag'[b] = lag[b]
    BY <1>2
<1>6. LagT'
    <2>1. lag' \in [Banks -> Int]
        BY <1>1, <1>2
    <2>2. Banks' = Banks
        BY DEF Banks, NUM_BANKS
    <2> QED BY <1>3, <2>1, <2>2 DEF LagT
<1> QED BY <1>4, <1>5, <1>6, Zenon

(* A step that leaves everything alone that the promises speak of.         *)
LEMMA OwedKept ==
    ASSUME OwedInv, UNCHANGED <<config, lag, refresh_cnt, refresh_pbr_has_finish,
                                finish_refresh_pb, send_pbr, CmdQueue, phase>>
    PROVE  OwedInv'
<1>1. LagT' /\ CountT'
    BY DEF OwedInv, LagT, CountT, Mark
<1>2. RefOwed'
    BY DEF OwedInv, RefOwed, Mark
<1>3. WholePairs'
    <2>1. Pairs' = Pairs
        BY PairsStay
    <2> QED BY <2>1 DEF OwedInv, WholePairs
<1>4. PartnersDone'
    BY DEF OwedInv, PartnersDone
<1>5. RefreshOwed'
    BY DEF OwedInv, RefreshOwed, Mark
<1> QED BY <1>1, <1>2, <1>3, <1>4, <1>5 DEF OwedInv

(* que_pipeline queues no refresh.                                         *)
LEMMA OwedQuePipeline ==
    ASSUME OwedInv, QuePipeline
    PROVE  OwedInv'
<1>1. UNCHANGED <<config, lag, refresh_cnt, refresh_pbr_has_finish, finish_refresh_pb, send_pbr>>
    BY DEF QuePipeline, rankVars, pbrVars
<1>2. ASSUME NEW c \in CmdQueue'
      PROVE  c.type \notin {"REF", "REFPB"}
    <2>1. PICK S \in SUBSET Closable :
             CmdQueue' = {Cmd(need_issue(t), trans[t].bank, t, 0, {}) : t \in {u \in Busy : lc(u)}}
                         \cup {Cmd("PRE", b, NoTask, 1, {}) : b \in S}
        BY DEF QuePipeline
    <2>2. CASE \E t : c = Cmd(need_issue(t), trans[t].bank, t, 0, {})
        BY <2>2 DEF Cmd, need_issue
    <2>3. CASE \E b : c = Cmd("PRE", b, NoTask, 1, {})
        BY <2>3 DEF Cmd
    <2> QED BY <2>1, <2>2, <2>3
<1>3. LagT' /\ CountT'
    BY <1>1 DEF OwedInv, LagT, CountT, Mark
<1>4. RefOwed'
    BY <1>2 DEF RefOwed
<1>5. WholePairs'
    <2>1. Pairs' = Pairs
        BY <1>1, PairsStay
    <2> QED BY <1>1, <1>2, <2>1 DEF OwedInv, WholePairs
<1>6. PartnersDone'
    BY <1>1 DEF OwedInv, PartnersDone
<1>7. RefreshOwed'
    BY <1>1 DEF OwedInv, RefreshOwed, Mark
<1> QED BY <1>3, <1>4, <1>5, <1>6, <1>7 DEF OwedInv

(* Per-bank refresh pays for the banks of its pair.                        *)
LEMMA OwedRefreshPair ==
    ASSUME RefreshBankAssumption, OwedInv, NEW c \in CmdQueue, RefreshPair(c)
    PROVE  OwedInv'
<1> USE DEF OwedInv
<1>1. c.pair \in Pairs
    BY DEF RefreshPair, WholePairs
<1>2. lag' = Paid(c.pair) /\ LagT'
    BY PaidSteps DEF RefreshPair
<1>3. CountT'
    BY DEF CountT, RefreshPair, Mark
<1>4. CmdQueue' = {}
    BY DEF RefreshPair, Take
<1>5. RefOwed' /\ WholePairs'
    <2>1. Pairs' = Pairs
        BY PairsStay DEF RefreshPair
    <2>2. send_pbr' = send_pbr
        BY DEF RefreshPair
    <2> QED BY <1>4, <2>1, <2>2 DEF RefOwed, WholePairs
<1>6. PartnersDone'
    BY <1>1, PairsAreBanks DEF PartnersDone, RefreshPair, Finished
<1>7. RefreshOwed'
    <2> SUFFICES ASSUME NEW b \in Banks
                 PROVE  lag'[b] <= refresh_cnt - Mark(refresh_pbr_has_finish)
                                   - Mark(b \in finish_refresh_pb \cup c.pair)
        BY DEF RefreshOwed, RefreshPair, Finished, Mark
    <2>1. /\ lag[b] \in Int /\ lag[b] >= -1 /\ refresh_cnt \in Nat
          /\ refresh_cnt >= Mark(refresh_pbr_has_finish)
          /\ lag[b] <= refresh_cnt - Mark(refresh_pbr_has_finish) - Mark(b \in finish_refresh_pb)
        BY DEF LagT, CountT, RefreshOwed
    <2>2. CASE b \in c.pair
        BY <1>2, <2>1, <2>2, PaidSteps DEF Mark
    <2>3. CASE b \notin c.pair
        BY <1>2, <2>1, <2>3, PaidSteps DEF Mark
    <2> QED BY <2>2, <2>3
<1> QED BY <1>2, <1>3, <1>5, <1>6, <1>7

(* The refresh of the whole rank pays for every bank, and ends the round.  *)
LEMMA OwedRefreshAll ==
    ASSUME RefreshBankAssumption, OwedInv, NEW c \in CmdQueue, RefreshAll(c)
    PROVE  OwedInv'
<1> USE DEF OwedInv
<1>1. refresh_cnt \in Nat /\ refresh_cnt >= 1 + Mark(refresh_pbr_has_finish)
    BY DEF RefreshAll, RefOwed, CountT
<1>2. lag' = Paid(Banks) /\ LagT'
    BY PaidSteps DEF RefreshAll
<1>3. CountT'
    BY <1>1 DEF CountT, RefreshAll, Mark
<1>4. CmdQueue' = {}
    BY DEF RefreshAll, Take
<1>5. RefOwed' /\ WholePairs'
    <2>1. Pairs' = Pairs
        BY PairsStay DEF RefreshAll
    <2>2. send_pbr' = send_pbr
        BY DEF RefreshAll
    <2> QED BY <1>4, <2>1, <2>2 DEF RefOwed, WholePairs
<1>6. PartnersDone'
    BY DEF PartnersDone, RefreshAll
<1>7. RefreshOwed'
    <2> SUFFICES ASSUME NEW b \in Banks
                 PROVE  lag'[b] <= refresh_cnt - 1 - Mark(refresh_pbr_has_finish)
        BY <1>1 DEF RefreshOwed, RefreshAll, Mark
    <2>1. /\ lag[b] \in Int /\ lag[b] >= -1
          /\ lag[b] <= refresh_cnt - Mark(refresh_pbr_has_finish) - Mark(b \in finish_refresh_pb)
        BY DEF LagT, RefreshOwed
    <2> QED BY <1>1, <1>2, <2>1, PaidSteps DEF Mark
<1> QED BY <1>2, <1>3, <1>5, <1>6, <1>7

(* A refresh that falls due, and the end of a round that is paid for.      *)
LEMMA OwedRefresh ==
    ASSUME RefreshBankAssumption, OwedInv, Refresh
    PROVE  OwedInv'
<1> USE DEF OwedInv
<1> DEFINE due == IF Due THEN 1 ELSE 0
           end == Mark(refresh_pbr_has_finish)
<1>1. /\ refresh_cnt' = Postponed /\ phase = "ref" /\ phase' = "add" /\ config' = config
      /\ lag' = IF Due THEN [b \in Banks |-> lag[b] + 1] ELSE lag
    BY DEF Refresh, At, Then
<1>2. /\ due \in {0, 1} /\ end \in {0, 1} /\ refresh_cnt \in Nat /\ refresh_cnt >= end
      /\ Postponed = refresh_cnt + due - end
    BY DEF CountT, Postponed, Mark
<1>3. Postponed \in Nat
    BY <1>2
<1>4. \A b \in Banks : lag[b] \in Int /\ lag[b] >= -1 /\ lag'[b] = lag[b] + due
    BY <1>1 DEF LagT
<1>5. LagT'
    <2>1. lag' \in [Banks -> Int]
        BY <1>1 DEF LagT
    <2>2. \A b \in Banks : lag'[b] >= -1
        BY <1>2, <1>4
    <2>3. Banks' = Banks
        BY DEF Banks, NUM_BANKS
    <2> QED BY <2>1, <2>2, <2>3 DEF LagT
<1>6. Pairs' = Pairs
    BY <1>1, PairsStay
<1>7. \A c \in CmdQueue : c.type # "REF"
    BY <1>1 DEF RefOwed
<1>8. \A b \in Banks : lag'[b] <= Postponed - Mark(b \in finish_refresh_pb)
    <2> TAKE b \in Banks
    <2>1. lag[b] <= refresh_cnt - end - Mark(b \in finish_refresh_pb)
        BY DEF RefreshOwed
    <2>2. Mark(b \in finish_refresh_pb) \in {0, 1}
        BY DEF Mark
    <2> QED BY <1>2, <1>4, <2>1, <2>2
<1>9. CASE Skipped /\ NoPerBankRefresh
    <2>1. /\ refresh_pbr_has_finish' = FALSE /\ finish_refresh_pb' = finish_refresh_pb
          /\ send_pbr' = send_pbr
          /\ CmdQueue' = IF SendPreAll \/ SendRef THEN AllCommand ELSE CmdQueue
        BY <1>9 DEF NoPerBankRefresh
    <2>2. Mark(refresh_pbr_has_finish)' = 0
        BY <2>1, Zenon DEF Mark
    <2>3. CountT'
        <3>1. refresh_pbr_has_finish' \in BOOLEAN
            BY <2>1
        <3>2. refresh_cnt' \in Nat /\ refresh_cnt' >= 0
            BY <1>1, <1>3
        <3> QED BY <2>2, <3>1, <3>2 DEF CountT
    <2>4. ASSUME NEW c \in CmdQueue'
          PROVE  /\ c.type = "REF" => Postponed >= 1
                 /\ c.type = "REFPB" => c.pair \in Pairs
        <3>1. CASE c \in CmdQueue
            BY <1>7, <3>1 DEF WholePairs
        <3>2. CASE c \notin CmdQueue
            <4>1. c \in AllCommand /\ (SendPreAll \/ SendRef)
                BY <2>1, <3>2
            <4>2. c.type = IF SendRef THEN "REF" ELSE "PRE_AB"
                BY <4>1 DEF AllCommand, Cmd
            <4> QED BY <1>3, <4>1, <4>2 DEF SendRef, SendPreAll, AllWants
        <3> QED BY <3>1, <3>2
    <2>5. RefOwed' /\ WholePairs'
        BY <1>1, <1>3, <1>6, <2>1, <2>2, <2>4 DEF RefOwed, WholePairs
    <2>6. PartnersDone'
        BY <1>1, <2>1 DEF PartnersDone
    <2>7. RefreshOwed'
        BY <1>1, <1>3, <1>8, <2>1, <2>2 DEF RefreshOwed, Mark
    <2> QED BY <1>5, <2>3, <2>5, <2>6, <2>7
<1>10. ASSUME ~Skipped, NEW p \in Chosen, PerBankRefresh(p)
       PROVE  OwedInv'
    <2>1. /\ refresh_pbr_has_finish' = RoundDone /\ finish_refresh_pb' = FinishedNow
          /\ send_pbr' = p
        BY <1>10 DEF PerBankRefresh
    <2>2. p \in Pairs \cup {{}}
        BY <1>10 DEF Chosen, Best, Choosable, WholePairs
    <2>3. Postponed >= 1 /\ Postponed \in Nat
        BY <1>3, <1>10 DEF Skipped
    <2>4. ASSUME NEW c \in CmdQueue'
          PROVE  c.type # "REF" /\ (c.type = "REFPB" => c.pair \in Pairs)
        <3>1. CmdQueue' = CmdQueue \/ (p # {} /\ CmdQueue' = CmdQueue \cup RefPb(p))
              \/ \E b : CmdQueue' = CmdQueue \cup {Cmd("PRE", b, NoTask, 2, {})}
            <4>1. Forced(p) \/ Offered(p)
                BY <1>10 DEF PerBankRefresh
            <4>2. CASE Forced(p)
                BY <4>2 DEF Forced
            <4>3. CASE Offered(p)
                BY <4>3 DEF Offered
            <4> QED BY <4>1, <4>2, <4>3
        <3> QED BY <1>7, <2>2, <3>1 DEF WholePairs, RefPb, Cmd
    <2>5. Mark(refresh_pbr_has_finish)' = Mark(RoundDone) /\ Mark(RoundDone) \in {0, 1}
        BY <2>1 DEF Mark
    <2>6. CountT'
        BY <1>1, <2>1, <2>3, <2>5 DEF CountT, RoundDone
    <2>7. RefOwed' /\ WholePairs'
        BY <1>6, <2>1, <2>2, <2>4 DEF RefOwed, WholePairs
    <2>8. PartnersDone'
        BY <1>1, <2>1 DEF PartnersDone, FinishedNow
    <2>9. RefreshOwed'
        <3> SUFFICES ASSUME NEW b \in Banks
                     PROVE  lag'[b] <= Postponed - Mark(RoundDone) - Mark(b \in FinishedNow)
            BY <1>1, <2>1, <2>5 DEF RefreshOwed, Mark
        <3>1. CASE RoundDone
            <4>1. b \in finish_refresh_pb
                BY <3>1, AllDone
            <4> QED BY <1>3, <1>4, <1>8, <3>1, <4>1 DEF FinishedNow, Mark
        <3>2. CASE ~RoundDone
            BY <1>3, <1>4, <1>8, <3>2 DEF FinishedNow, Mark
        <3> QED BY <3>1, <3>2
    <2> QED BY <1>5, <2>6, <2>7, <2>8, <2>9
<1> QED BY <1>9, <1>10 DEF Refresh
-----------------------------------------------------------------------------
(* Every step of every configuration keeps the promises.                   *)
LEMMA OwedNext ==
    ASSUME RefreshBankAssumption, OwedInv, [Next]_vars
    PROVE  OwedInv'
<1>1. CASE UNCHANGED vars
    <2>1. /\ UNCHANGED <<config, lag, refresh_cnt, refresh_pbr_has_finish, finish_refresh_pb,
                          send_pbr, CmdQueue, phase>>
        BY <1>1 DEF vars, rankVars, pbrVars
    <2> QED BY <2>1, OwedKept
<1>2. CASE \E t \in Tasks, w \in Wanted : AddTransaction(t, w)
    BY <1>2, OwedSame DEF AddTransaction, Then, rankVars, pbrVars
<1>3. CASE NoTransaction
    BY <1>3, OwedSame DEF NoTransaction, Then, rankVars, pbrVars
<1>4. CASE StateFresh
    BY <1>4, OwedSame DEF StateFresh, Then
<1>5. ASSUME NEW c \in CmdQueue,
             \/ Activate1(c) \/ Activate2(c) \/ Column(c) \/ Precharge(c) \/ PrechargeAll(c)
      PROVE  OwedInv'
    BY <1>5, OwedSame DEF Activate1, Activate2, Column, Precharge, PrechargeAll, Take,
                          rankVars, pbrVars
<1>6. ASSUME NEW c \in CmdQueue, RefreshPair(c)
      PROVE  OwedInv'
    BY <1>6, OwedRefreshPair
<1>7. ASSUME NEW c \in CmdQueue, RefreshAll(c)
      PROVE  OwedInv'
    BY <1>7, OwedRefreshAll
<1>8. CASE NothingToSchedule
    BY <1>8, OwedSame DEF NothingToSchedule, rankVars, pbrVars
<1>9. CASE QuePipeline
    BY <1>9, OwedQuePipeline
<1>10. CASE Refresh
    BY <1>10, OwedRefresh
<1> QED BY <1>1, <1>2, <1>3, <1>4, <1>5, <1>6, <1>7, <1>8, <1>9, <1>10 DEF Next

(* RefreshOwed, for any number of banks and places, any times and any set  *)
(* of configurations: no bank falls behind the postponed refreshes of its  *)
(* rank (refresh, per_bank_refresh, enh_per_bank_refresh).                 *)
THEOREM RefreshOwedHolds == Spec => []RefreshOwed
<1>1. Init => OwedInv
    BY OwedInit, RefreshBankAssumption
<1>2. OwedInv /\ [Next]_vars => OwedInv'
    BY OwedNext, RefreshBankAssumption
<1>3. OwedInv => RefreshOwed
    BY DEF OwedInv
<1> QED BY <1>1, <1>2, <1>3, PTL DEF Spec

(* In plain mode the banks of a pair are refreshed in the same rounds: the *)
(* partner of a first bank is never left behind.                           *)
THEOREM PartnersTogether == Spec => []PartnersDone
<1>1. Init => OwedInv
    BY OwedInit, RefreshBankAssumption
<1>2. OwedInv /\ [Next]_vars => OwedInv'
    BY OwedNext, RefreshBankAssumption
<1>3. OwedInv => PartnersDone
    BY DEF OwedInv
<1> QED BY <1>1, <1>2, <1>3, PTL DEF Spec
-----------------------------------------------------------------------------
(***************************************************************************)
(* The banks.  Whoever waits for its refresh or refreshes is one pair, and *)
(* its two banks go through the refresh in step: they start together and   *)
(* run the same countdown, also when the whole rank is refreshed instead.  *)
(* A command finds its bank as it was when it was queued, or has waited    *)
(* for the countdown that Limit bounds.                                    *)
(***************************************************************************)
States == {"Idle", "RowActive", "Precharging", "Refreshing"}
RowsOr0 == Rows \cup {0}
BankType == [state : States, row : RowsOr0, act : BOOLEAN, cnt : Nat,
             act1 : Nat, act2 : Nat, ref : Nat, pre : Nat]
TransType == [on : BOOLEAN, bank : Banks, row : RowsOr0, act : BOOLEAN, issue : 0..BURSTS]
ClaimType == [waiting : BOOLEAN, pre : BOOLEAN, refreshing : BOOLEAN]

Typed ==
    /\ config \in Configs /\ phase \in {"add", "fresh", "sched", "que", "ref"}
    /\ bankStates \in [Banks -> BankType]
    /\ trans \in [Tasks -> TransType]
    /\ refreshPerBank \in [Banks -> ClaimType]
    /\ refreshALL \in [waiting : BOOLEAN, refreshing : BOOLEAN]
    /\ issue_state \subseteq Banks /\ finish_refresh_pb \subseteq Banks
    /\ hold_refresh_pb \subseteq Banks /\ send_pbr \subseteq Banks
    /\ until_refi \in 1..tREFI /\ sbr_gap \in 0..SBR_GAP_CNT

(* A countdown runs exactly while the bank is busy, and nothing else is    *)
(* allowed there before it is over.                                        *)
BusyFor(k) ==
    /\ k.cnt > 0 <=> k.state \in {"Precharging", "Refreshing"}
    /\ k.cnt > 0 => k.cnt <= k.act2 /\ k.cnt <= k.ref
    /\ k.state = "Precharging" => k.cnt <= tRP
BanksBusy == \A b \in Banks : BusyFor(bankStates[b])

(* Both ACT of a row are the same transaction's, and a transaction half    *)
(* done finds its row open.                                                *)
Half(t) == trans[t].on /\ trans[t].issue \in 1..(BURSTS - 1)
ActsOk ==
    /\ \A t \in Tasks : trans[t].act =>
          /\ trans[t].on /\ trans[t].issue = 0 /\ bankStates[trans[t].bank].act
          /\ \A u \in Tasks : trans[u].act /\ trans[u].bank = trans[t].bank => u = t
    /\ \A t \in Tasks : Half(t) =>
          st(trans[t].bank) = "RowActive" /\ trans[t].row = bankStates[trans[t].bank].row
    /\ \A b \in Banks : bankStates[b].act => st(b) # "RowActive"
    /\ phase = "ref" => issue_state = {b \in Banks : HalfDone(b)}
    /\ ~config.enh => ActNotBroken

(* The pair, in step; the rank, in step.                                   *)
Refreshing(b) == st(b) = "Refreshing"
InStep(S) == \A a, b \in S : /\ Refreshing(a) => Refreshing(b)
                             /\ Refreshing(a) => bankStates[a].cnt = bankStates[b].cnt
Lockstep ==
    /\ Claimed = {} \/ (Claimed = send_pbr /\ send_pbr \in Pairs)
    /\ InStep(Claimed)
    /\ \A a, b \in Claimed : refreshPerBank[a].refreshing => refreshPerBank[b].refreshing
    /\ refreshALL.refreshing => InStep(Banks) /\ \A b \in Banks : Refreshing(b)
    /\ \A b \in Banks : Refreshing(b) => refreshPerBank[b].refreshing \/ refreshALL.refreshing

(* The round: finished and held banks, and the pair, whole.                *)
Rounds ==
    /\ finish_refresh_pb \cap hold_refresh_pb = {}
    /\ send_pbr \cap finish_refresh_pb = {} \/ send_pbr \subseteq finish_refresh_pb
    /\ PairsKept

Limit == IF phase = "sched" THEN 0 ELSE 1
NoneHalf == \A t \in Tasks : ~Half(t)
NoActs   == \A b \in Banks : ~bankStates[b].act
CmdOk(c) ==
    /\ c.type \in {"ACT1", "ACT2", "RW", "PRE", "PRE_AB", "REFPB", "REF"}
    /\ c.type \in {"ACT1", "ACT2", "RW"} =>
          /\ c.task \in Tasks /\ trans[c.task].on /\ trans[c.task].issue < BURSTS
          /\ c.bank = trans[c.task].bank
    /\ c.type = "ACT1" => /\ ~trans[c.task].act /\ trans[c.task].issue = 0
                          /\ ~bankStates[c.bank].act
                          /\ st(c.bank) \notin {"RowActive", "Refreshing"}
    /\ c.type = "ACT2" => /\ trans[c.task].act /\ st(c.bank) # "RowActive"
                          /\ bankStates[c.bank].act2 <= Limit
    /\ c.type = "RW"   => st(c.bank) = "RowActive" /\ bankStates[c.bank].row = trans[c.task].row
    /\ c.type = "PRE"  => /\ c.bank \in Banks /\ st(c.bank) = "RowActive"
                          /\ bankStates[c.bank].pre <= Limit
                          /\ \A t \in Tasks : Half(t) => trans[t].bank # c.bank
    /\ c.type \in {"PRE_AB", "REF", "REFPB"} => phase # "ref"
    /\ c.type \in {"PRE_AB", "REF"} => NoneHalf /\ NoActs
    /\ c.type = "PRE_AB" => AnyOpen /\ \A b \in Banks : bankStates[b].pre <= Limit
    /\ c.type = "REF" => ~AnyOpen /\ \A b \in Banks : bankStates[b].ref <= Limit
    /\ c.type = "REFPB" =>
          /\ c.pair = send_pbr /\ c.pair \in Pairs
          /\ c.pair \cap finish_refresh_pb = {} /\ c.pair \cap hold_refresh_pb = {}
          /\ Claimed \subseteq c.pair
          /\ \A b \in c.pair : st(b) = "Idle"
          /\ ~config.enh => NoActs
QueueOk == (phase = "que" => CmdQueue = {}) /\ \A c \in CmdQueue : CmdOk(c)

BanksInv == Typed /\ BanksBusy /\ ActsOk /\ Lockstep /\ Rounds /\ QueueOk

(* A second bank is not refreshed too early though only the first bank's   *)
(* time is looked at.                                                      *)
PartnerReady(a, b) ==
    \/ bankStates[b].ref <= bankStates[a].ref
    \/ st(a) = "RowActive" /\ bankStates[b].ref <= bankStates[a].pre + tRP
    \/ st(b) = "Precharging" /\ bankStates[b].ref <= bankStates[b].cnt
ReadyInv ==
    /\ \A a \in First : PartnerReady(a, a + PAIRS)
    /\ \A c \in CmdQueue : c.type = "REFPB" => \A b \in c.pair : bankStates[b].ref <= Limit
PlainReady == ~config.enh => ReadyInv
-----------------------------------------------------------------------------
LEMMA Times ==
    /\ BURSTS \in Nat \ {0} /\ tRP \in Nat \ {0} /\ tRAS \in Nat \ {0} /\ tRTP \in Nat \ {0}
    /\ tRRD \in Nat \ {0} /\ tAAD \in Nat \ {0} /\ tRFCPB \in Nat \ {0} /\ tRFCAB \in Nat \ {0}
    /\ tPBR2PBR \in Nat \ {0} /\ tPBR2ACT \in Nat \ {0} /\ tREFI \in Nat \ {0}
    /\ SBR_GAP_CNT \in Nat /\ ACT_LEAD \in Nat /\ PAIRS \in Nat \ {0}
    BY RefreshBankAssumption DEF RefreshBankAssumption

(* What a countdown is after a cycle, and after it has been started anew.  *)
LEMMA Countdowns ==
    ASSUME NEW v \in Nat
    PROVE  /\ less(v) \in Nat /\ less(v) <= v
           /\ \A d \in Int : later(v, d) \in Nat /\ later(v, d) >= v /\ later(v, d) >= d
    BY DEF less, later

LEMMA TickIs ==
    ASSUME NEW k \in BankType, BusyFor(k)
    PROVE  /\ Tick(k) \in BankType /\ BusyFor(Tick(k))
           /\ Tick(k).row = k.row /\ Tick(k).act = k.act /\ Tick(k).cnt = less(k.cnt)
           /\ Tick(k).act2 = less(k.act2) /\ Tick(k).ref = less(k.ref) /\ Tick(k).pre = less(k.pre)
           /\ Tick(k).state = IF k.cnt = 1 THEN "Idle" ELSE k.state
<1>1. /\ Tick(k).row = k.row /\ Tick(k).act = k.act /\ Tick(k).cnt = less(k.cnt)
      /\ Tick(k).act2 = less(k.act2) /\ Tick(k).ref = less(k.ref) /\ Tick(k).pre = less(k.pre)
      /\ Tick(k).state = IF k.cnt = 1 THEN "Idle" ELSE k.state
    BY DEF Tick, BankType
<1>2. k.cnt \in Nat /\ k.act2 \in Nat /\ k.ref \in Nat /\ k.state \in States
    BY DEF BankType
<1>3. Tick(k) \in BankType
    BY <1>2, Countdowns DEF Tick, BankType, States
<1>4. BusyFor(Tick(k))
    BY <1>1, <1>2, Times DEF BusyFor, less, States
<1> QED
    BY <1>1, <1>3, <1>4

LEMMA PrechargedIs ==
    ASSUME NEW k \in BankType
    PROVE  /\ Precharged(k) \in BankType /\ BusyFor(Precharged(k))
           /\ Precharged(k).state = "Precharging" /\ Precharged(k).act = k.act
           /\ Precharged(k).cnt = tRP /\ Precharged(k).ref = later(k.ref, tRP)
           /\ Precharged(k).pre = k.pre
<1>1. /\ Precharged(k).state = "Precharging" /\ Precharged(k).act = k.act
      /\ Precharged(k).cnt = tRP /\ Precharged(k).ref = later(k.ref, tRP)
      /\ Precharged(k).pre = k.pre /\ Precharged(k).act2 = later(k.act2, tRP)
    BY DEF Precharged, BankType
<1>2. k.act1 \in Nat /\ k.act2 \in Nat /\ k.ref \in Nat /\ tRP \in Int /\ tRP - ACT_LEAD \in Int
    BY Times DEF BankType
<1>3. /\ later(k.ref, tRP) \in Nat /\ later(k.act2, tRP) \in Nat
      /\ later(k.act1, tRP - ACT_LEAD) \in Nat
    BY <1>2, Countdowns
<1>5. Precharged(k) \in BankType
    BY <1>3, Times DEF Precharged, BankType, States, RowsOr0
<1>4. BusyFor(Precharged(k))
    <2>1. later(k.ref, tRP) >= tRP /\ later(k.act2, tRP) >= tRP
        BY <1>2, Countdowns
    <2> QED
        BY <1>1, <2>1, Times DEF BusyFor
<1> QED
    BY <1>1, <1>4, <1>5

LEMMA RefreshedIs ==
    ASSUME NEW k \in BankType, NEW d \in Nat \ {0}
    PROVE  /\ Refreshed(k, d) \in BankType /\ BusyFor(Refreshed(k, d))
           /\ Refreshed(k, d).state = "Refreshing" /\ Refreshed(k, d).act = k.act
           /\ Refreshed(k, d).cnt = d /\ Refreshed(k, d).ref = later(k.ref, d)
<1>1. /\ Refreshed(k, d).state = "Refreshing" /\ Refreshed(k, d).act = k.act
      /\ Refreshed(k, d).cnt = d /\ Refreshed(k, d).ref = later(k.ref, d)
      /\ Refreshed(k, d).act2 = later(k.act2, d)
    BY DEF Refreshed, BankType
<1>2. k.act1 \in Nat /\ k.act2 \in Nat /\ k.ref \in Nat /\ d \in Int /\ d - ACT_LEAD \in Int
    BY Times DEF BankType
<1>3. /\ later(k.ref, d) \in Nat /\ later(k.act2, d) \in Nat
      /\ later(k.act1, d - ACT_LEAD) \in Nat
    BY <1>2, Countdowns
<1>5. Refreshed(k, d) \in BankType
    BY <1>3 DEF Refreshed, BankType, States
<1>4. BusyFor(Refreshed(k, d))
    <2>1. later(k.ref, d) >= d /\ later(k.act2, d) >= d
        BY <1>2, Countdowns
    <2> QED
        BY <1>1, <2>1 DEF BusyFor
<1> QED
    BY <1>1, <1>4, <1>5

(* A bank of which only countdowns other than its own are started anew.    *)
Later(k, j) == /\ j \in BankType /\ j.state = k.state /\ j.row = k.row /\ (j.act <=> k.act)
               /\ j.cnt = k.cnt /\ j.act2 >= k.act2 /\ j.ref >= k.ref /\ j.pre >= k.pre

LEMMA LaterBusy ==
    ASSUME NEW k \in BankType, NEW j, BusyFor(k), Later(k, j)
    PROVE  BusyFor(j)
    BY DEF BusyFor, Later, BankType

(* The two banks of a pair.                                                *)
LEMMA TwoBanks ==
    ASSUME NEW p \in Pairs
    PROVE  /\ \E a, b \in Banks : a # b /\ p = {a, b}
           /\ IsFiniteSet(p) /\ Cardinality(p) = 2
           /\ ~config.enh => \E a \in First : p = Pair(a)
<1>1. CASE config.enh
    <2>1. p \in SUBSET Banks /\ Cardinality(p) = 2
        BY <1>1 DEF Pairs, kSubset
    <2>2. IsFiniteSet(p)
        <3>1. IsFiniteSet(Banks)
            BY Times, FS_Interval DEF Banks, NUM_BANKS
        <3> QED
            BY <2>1, <3>1, FS_Subset
    <2>3. PICK a \in p : TRUE
        BY <2>1, FS_EmptySet
    <2>4. IsFiniteSet(p \ {a}) /\ Cardinality(p \ {a}) = 1
        BY <2>1, <2>2, <2>3, FS_RemoveElement
    <2>5. PICK b : p \ {a} = {b}
        BY <2>4, FS_Singleton
    <2>6. p = {a, b} /\ a # b
        BY <2>3, <2>5
    <2> QED
        BY <1>1, <2>1, <2>2, <2>6
<1>2. CASE ~config.enh
    <2>1. PICK a \in First : p = Pair(a)
        BY <1>2 DEF Pairs
    <2>2. p = {a, a + PAIRS} /\ a # a + PAIRS /\ a \in Banks /\ a + PAIRS \in Banks
        BY <2>1, Times, PairOfFirst, RefreshBankAssumption DEF First, Banks, NUM_BANKS
    <2>3. IsFiniteSet(p) /\ Cardinality(p) = 2
        <3>1. IsFiniteSet({a}) /\ Cardinality({a}) = 1
            BY FS_Singleton
        <3>2. p = {a} \cup {a + PAIRS}
            BY <2>2
        <3>3. a + PAIRS \notin {a}
            BY <2>2
        <3>4. IsFiniteSet(p) /\ Cardinality(p) = Cardinality({a}) + 1
            BY <3>1, <3>2, <3>3, FS_AddElement
        <3> QED
            BY <3>1, <3>4
    <2> QED
        BY <2>1, <2>2, <2>3
<1> QED
    BY <1>1, <1>2

LEMMA MinIsIn ==
    ASSUME NEW p \in Pairs, NEW S \in SUBSET p, S # {}
    PROVE  Min(S) \in S
<1>1. PICK a, b \in Banks : p = {a, b}
    BY TwoBanks
<1>2. a \in Int /\ b \in Int
    BY <1>1, Times DEF Banks, NUM_BANKS
<1>3. \E x \in S : \A y \in S : x =< y
    <2>1. CASE S = {a} \/ S = {b}
        BY <1>2, <2>1
    <2>2. CASE S = {a, b}
        BY <1>2, <2>2
    <2> QED
        BY <1>1, <2>1, <2>2
<1> QED
    BY <1>3 DEF Min
-----------------------------------------------------------------------------
USE DEF st
(***************************************************************************)
(* The commands, each on its own.                                          *)
(***************************************************************************)
LEMMA BankIs ==
    ASSUME Typed, NEW b \in Banks
    PROVE  /\ bankStates[b] \in BankType /\ st(b) \in States
           /\ bankStates[b].act \in BOOLEAN /\ bankStates[b].cnt \in Nat /\ bankStates[b].act1 \in Nat
           /\ bankStates[b].act2 \in Nat /\ bankStates[b].ref \in Nat /\ bankStates[b].pre \in Nat
    BY DEF Typed, BankType

LEMMA TransIs ==
    ASSUME Typed, NEW t \in Tasks
    PROVE  /\ trans[t] \in TransType /\ trans[t].on \in BOOLEAN /\ trans[t].bank \in Banks
           /\ trans[t].row \in RowsOr0 /\ trans[t].act \in BOOLEAN /\ trans[t].issue \in 0..BURSTS
    BY DEF Typed, TransType

(* scheduler has taken c: it was as the queue promises, and nothing is     *)
(* queued any more.                                                        *)
LEMMA Taken ==
    ASSUME BanksInv, NEW c \in CmdQueue, Take(c)
    PROVE  /\ CmdOk(c) /\ phase = "sched" /\ phase' = "que" /\ CmdQueue' = {} /\ Limit = 0
           /\ QueueOk'
    BY DEF BanksInv, QueueOk, Take, At, Then, Limit

(* A step of the banks alone: the pairs and the rounds stay as they are.   *)
Elsewhere == UNCHANGED <<config, refreshPerBank, finish_refresh_pb, hold_refresh_pb, send_pbr,
                         refreshALL, issue_state, until_refi, sbr_gap>>

LEMMA RoundsStay ==
    ASSUME Rounds, UNCHANGED <<config, finish_refresh_pb, hold_refresh_pb, send_pbr>>
    PROVE  Rounds'
    BY DEF Rounds, PairsKept

LEMMA ClaimsStay ==
    ASSUME Lockstep, UNCHANGED <<config, send_pbr, refreshALL>>,
           \A b \in Banks : /\ refreshPerBank'[b].waiting <=> refreshPerBank[b].waiting
                            /\ refreshPerBank'[b].refreshing <=> refreshPerBank[b].refreshing
                            /\ Refreshing(b)' <=> Refreshing(b)
                            /\ Refreshing(b) => bankStates[b]'.cnt = bankStates[b].cnt
    PROVE  Lockstep'
<1>1. Pairs' = Pairs /\ Claimed' = Claimed /\ Claimed \subseteq Banks
    BY PairsStay DEF Claimed
<1> HIDE DEF Refreshing, Claimed
<1>2. InStep(Claimed)' /\ (InStep(Banks) => InStep(Banks)')
    BY <1>1 DEF Lockstep, InStep
<1> QED
    BY <1>1, <1>2 DEF Lockstep

LEMMA TypedStay ==
    ASSUME Typed, Elsewhere, phase' \in {"add", "fresh", "sched", "que", "ref"},
           bankStates' \in [Banks -> BankType], trans' \in [Tasks -> TransType]
    PROVE  Typed'
    BY DEF Typed, Elsewhere

LEMMA BanksActivate1 ==
    ASSUME BanksInv, NEW c \in CmdQueue, Activate1(c)
    PROVE  BanksInv'
<1> USE DEF BanksInv
<1>1. /\ CmdOk(c) /\ phase' = "que" /\ QueueOk'
    BY Taken DEF Activate1
<1>2. /\ c.type = "ACT1" /\ c.task \in Tasks /\ trans[c.task].on /\ c.bank = trans[c.task].bank
      /\ trans[c.task].issue = 0 /\ ~bankStates[c.bank].act /\ c.bank \in Banks
      /\ st(c.bank) \notin {"RowActive", "Refreshing"}
    BY <1>1, TransIs DEF Activate1, CmdOk
<1>3. Elsewhere /\ phase' \in {"add", "fresh", "sched", "que", "ref"}
    BY <1>1 DEF Activate1, pbrVars, rankVars, Elsewhere
<1>4. trans' = [trans EXCEPT ![c.task].act = TRUE] /\ trans' \in [Tasks -> TransType]
    BY <1>2 DEF Activate1, Typed, TransType
<1>5. ASSUME NEW b \in Banks
      PROVE  /\ bankStates'[b] \in BankType /\ BusyFor(bankStates'[b])
             /\ bankStates'[b].state = st(b) /\ bankStates'[b].row = bankStates[b].row
             /\ bankStates'[b].cnt = bankStates[b].cnt
             /\ bankStates'[b].act <=> (b = c.bank \/ bankStates[b].act)
    <2> DEFINE k == bankStates[b]
    <2>1. k \in BankType /\ BusyFor(k) /\ later(k.act1, tAAD) \in Nat /\ later(k.act2, tAAD) \in Nat
          /\ later(k.act2, tAAD) >= k.act2
        <3>1. k \in BankType /\ BusyFor(k) /\ k.act1 \in Nat /\ k.act2 \in Nat /\ tAAD \in Int
            BY BankIs, Times DEF BanksBusy
        <3> QED
            BY <3>1, Countdowns
    <2>2. CASE b = c.bank
        <3>1. bankStates'[b] = [k EXCEPT !.act = TRUE, !.act1 = later(k.act1, tAAD)]
            BY <2>2 DEF Activate1
        <3> HIDE DEF k
        <3>2. /\ bankStates'[b] \in BankType /\ bankStates'[b].state = k.state
              /\ bankStates'[b].row = k.row /\ bankStates'[b].cnt = k.cnt /\ bankStates'[b].act = TRUE
              /\ bankStates'[b].act2 = k.act2 /\ bankStates'[b].ref = k.ref
            BY <2>1, <3>1 DEF BankType
        <3>3. BusyFor(bankStates'[b])
            BY <2>1, <3>2 DEF BusyFor
        <3> QED
            BY <2>2, <3>2, <3>3 DEF k
    <2>3. CASE b # c.bank
        <3>1. bankStates'[b] = [k EXCEPT !.act1 = later(k.act1, tAAD), !.act2 = later(k.act2, tAAD)]
            BY <2>3 DEF Activate1
        <3> HIDE DEF k
        <3>2. Later(k, bankStates'[b])
            <4>1. /\ bankStates'[b] \in BankType /\ bankStates'[b].state = k.state
                  /\ bankStates'[b].row = k.row /\ (bankStates'[b].act <=> k.act)
                  /\ bankStates'[b].cnt = k.cnt /\ bankStates'[b].act2 = later(k.act2, tAAD)
                  /\ bankStates'[b].ref = k.ref /\ bankStates'[b].pre = k.pre
                BY <2>1, <3>1 DEF BankType
            <4>2. k.ref \in Nat /\ k.pre \in Nat
                BY <2>1 DEF BankType
            <4> QED
                BY <2>1, <4>1, <4>2 DEF Later
        <3> QED
            BY <2>1, <2>3, <3>2, LaterBusy DEF Later, k
    <2> QED
        BY <2>2, <2>3
<1>6. bankStates' \in [Banks -> BankType] /\ BanksBusy'
    BY <1>5 DEF Activate1, BanksBusy
<1>7. Typed'
    BY <1>3, <1>4, <1>6, TypedStay
<1>8. ActsOk'
    <2>1. \A t \in Tasks : /\ (trans'[t].on <=> trans[t].on) /\ trans'[t].bank = trans[t].bank
                           /\ trans'[t].issue = trans[t].issue /\ trans'[t].row = trans[t].row
                           /\ trans'[t].act <=> (t = c.task \/ trans[t].act)
        BY <1>2, <1>4 DEF Typed, TransType
    <2>2. \A t \in Tasks : trans[t].bank \in Banks
        BY TransIs
    <2>3. \A t \in Tasks : trans[t].act => trans[t].bank # c.bank
        BY <1>2 DEF ActsOk
    <2>4. \A t \in Tasks : trans'[t].act =>
              /\ trans'[t].on /\ trans'[t].issue = 0 /\ bankStates'[trans'[t].bank].act
              /\ \A u \in Tasks : trans'[u].act /\ trans'[u].bank = trans'[t].bank => u = t
        BY <1>2, <1>5, <2>1, <2>2, <2>3 DEF ActsOk
    <2>5. \A t \in Tasks : Half(t)' => /\ st(trans[t].bank)' = "RowActive"
                                       /\ trans[t]'.row = bankStates'[trans'[t].bank].row
        BY <1>5, <2>1, <2>2 DEF ActsOk, Half
    <2>6. \A b \in Banks : bankStates'[b].act => bankStates'[b].state # "RowActive"
        BY <1>2, <1>5 DEF ActsOk
    <2>7. ~config'.enh => ActNotBroken'
        BY <1>2, <1>3, <1>5 DEF ActsOk, ActNotBroken, Elsewhere
    <2> QED
        BY <1>1, <2>4, <2>5, <2>6, <2>7 DEF ActsOk
<1>9. Lockstep' /\ Rounds'
    BY <1>3, <1>5, ClaimsStay, RoundsStay DEF Elsewhere, Refreshing
<1> QED
    BY <1>1, <1>6, <1>7, <1>8, <1>9
LEMMA LaterThree ==
    ASSUME NEW k \in BankType, NEW j, NEW x \in Int, NEW y \in Int, NEW z \in Int,
           \/ j = [k EXCEPT !.act1 = later(k.act1, x), !.act2 = later(k.act2, y), !.ref = later(k.ref, z)]
           \/ j = [k EXCEPT !.ref = later(k.ref, z), !.act2 = later(k.act2, y), !.act1 = later(k.act1, x)]
    PROVE  Later(k, j) /\ j.ref = later(k.ref, z) /\ j.pre = k.pre
<1>1. /\ later(k.act1, x) \in Nat /\ later(k.act2, y) \in Nat /\ later(k.act2, y) >= k.act2
      /\ later(k.ref, z) \in Nat /\ later(k.ref, z) >= k.ref /\ k.pre \in Nat
    <2>1. k.act1 \in Nat /\ k.act2 \in Nat /\ k.ref \in Nat /\ k.pre \in Nat
        BY DEF BankType
    <2> QED
        BY <2>1, Countdowns
<1>2. j \in BankType
    BY <1>1 DEF BankType
<1>3. /\ j.state = k.state /\ j.row = k.row /\ (j.act <=> k.act) /\ j.cnt = k.cnt
      /\ j.act2 = later(k.act2, y) /\ j.ref = later(k.ref, z) /\ j.pre = k.pre
    BY DEF BankType
<1> QED
    BY <1>1, <1>2, <1>3 DEF Later

LEMMA BanksActivate2 ==
    ASSUME BanksInv, NEW c \in CmdQueue, Activate2(c)
    PROVE  BanksInv'
<1> USE DEF BanksInv
<1>1. /\ CmdOk(c) /\ phase' = "que" /\ QueueOk' /\ Limit = 0
    BY Taken DEF Activate2
<1>2. /\ c.type = "ACT2" /\ c.task \in Tasks /\ trans[c.task].on /\ c.bank = trans[c.task].bank
      /\ trans[c.task].act /\ trans[c.task].issue = 0 /\ c.bank \in Banks
      /\ bankStates[c.bank].act /\ bankStates[c.bank].act2 = 0
    <2>1. c.type = "ACT2"
        BY DEF Activate2
    <2>2. /\ c.task \in Tasks /\ trans[c.task].on /\ c.bank = trans[c.task].bank /\ trans[c.task].act
          /\ bankStates[c.bank].act2 <= 0
        BY <1>1, <2>1 DEF CmdOk
    <2>3. c.bank \in Banks /\ bankStates[c.bank].act2 \in Nat
        BY <2>2, TransIs, BankIs
    <2> QED
        BY <2>1, <2>2, <2>3 DEF ActsOk
<1>3. st(c.bank) = "Idle" /\ bankStates[c.bank].cnt = 0
    <2>1. BusyFor(bankStates[c.bank]) /\ bankStates[c.bank].cnt \in Nat
        BY <1>2, BankIs DEF BanksBusy
    <2>2. bankStates[c.bank].cnt = 0
        BY <1>2, <2>1 DEF BusyFor
    <2> QED
        BY <1>1, <1>2, <2>1, <2>2, BankIs DEF BusyFor, CmdOk, States
<1>4. Elsewhere /\ phase' \in {"add", "fresh", "sched", "que", "ref"}
    BY <1>1 DEF Activate2, pbrVars, rankVars, Elsewhere
<1>5. trans' = [trans EXCEPT ![c.task].act = FALSE] /\ trans' \in [Tasks -> TransType]
    BY <1>2 DEF Activate2, Typed, TransType
<1>6. /\ bankStates'[c.bank] \in BankType /\ bankStates'[c.bank].state = "RowActive"
      /\ bankStates'[c.bank].cnt = 0 /\ ~bankStates'[c.bank].act
      /\ bankStates'[c.bank].row = trans[c.task].row
    <2> DEFINE k == bankStates[c.bank]
    <2>1. k \in BankType /\ k.cnt = 0 /\ trans[c.task].row \in RowsOr0
        BY <1>2, <1>3, BankIs, TransIs
    <2>2. /\ later(k.pre, tRAS) \in Nat /\ later(k.act1, tRAS + tRP - ACT_LEAD) \in Nat
          /\ later(k.act2, tRAS + tRP) \in Nat
        <3>1. /\ k.pre \in Nat /\ k.act1 \in Nat /\ k.act2 \in Nat
              /\ tRAS \in Int /\ tRAS + tRP - ACT_LEAD \in Int /\ tRAS + tRP \in Int
            BY <1>2, Times, BankIs
        <3> QED
            BY <3>1, Countdowns
    <2>3. bankStates'[c.bank] = [k EXCEPT !.state = "RowActive", !.row = trans[c.task].row,
                   !.act = FALSE, !.pre = later(k.pre, tRAS),
                   !.act1 = later(k.act1, tRAS + tRP - ACT_LEAD), !.act2 = later(k.act2, tRAS + tRP)]
        BY <1>2 DEF Activate2
    <2> HIDE DEF k
    <2> QED
        BY <2>1, <2>2, <2>3 DEF BankType, States
<1>7. ASSUME NEW b \in Banks, b # c.bank
      PROVE  Later(bankStates[b], bankStates'[b])
    <2> DEFINE k == bankStates[b]
    <2>1. bankStates'[b] = [k EXCEPT !.act1 = later(k.act1, tRRD - ACT_LEAD),
                                     !.act2 = later(k.act2, tRRD), !.ref = later(k.ref, tRRD)]
        BY <1>7 DEF Activate2
    <2>2. k \in BankType /\ tRRD - ACT_LEAD \in Int /\ tRRD \in Int
        BY Times, BankIs
    <2> HIDE DEF k
    <2>3. Later(k, bankStates'[b])
        BY <2>1, <2>2, LaterThree, ZenonT(60)
    <2> QED
        BY <2>3 DEF k
<1>8. ASSUME NEW b \in Banks
      PROVE  bankStates'[b] \in BankType /\ BusyFor(bankStates'[b])
    <2>1. CASE b = c.bank
        BY <1>6, <2>1 DEF BusyFor
    <2>2. CASE b # c.bank
        BY <1>7, <2>2, BankIs, LaterBusy DEF Later, BanksBusy
    <2> QED
        BY <2>1, <2>2
<1>9. bankStates' \in [Banks -> BankType] /\ BanksBusy'
    BY <1>8 DEF Activate2, BanksBusy
<1>10. Typed'
    BY <1>4, <1>5, <1>9, TypedStay
<1>11. \A b \in Banks : b # c.bank =>
            /\ bankStates'[b].state = st(b) /\ bankStates'[b].row = bankStates[b].row
            /\ (bankStates'[b].act <=> bankStates[b].act) /\ bankStates'[b].cnt = bankStates[b].cnt
    BY <1>7 DEF Later
<1>12. ActsOk'
    <2>1. \A t \in Tasks : /\ (trans'[t].on <=> trans[t].on) /\ trans'[t].bank = trans[t].bank
                           /\ trans'[t].issue = trans[t].issue /\ trans'[t].row = trans[t].row
                           /\ trans'[t].act <=> (t # c.task /\ trans[t].act)
        BY <1>2, <1>5 DEF Typed, TransType
    <2>2. \A t \in Tasks : trans[t].bank \in Banks
        BY TransIs
    <2>3. \A t \in Tasks : trans'[t].act => trans[t].bank # c.bank
        BY <1>2, <2>1 DEF ActsOk
    <2>4. \A t \in Tasks : trans'[t].act =>
              /\ trans'[t].on /\ trans'[t].issue = 0 /\ bankStates'[trans'[t].bank].act
              /\ \A u \in Tasks : trans'[u].act /\ trans'[u].bank = trans'[t].bank => u = t
        BY <1>11, <2>1, <2>2, <2>3 DEF ActsOk
    <2>5. \A t \in Tasks : Half(t)' => /\ st(trans[t].bank)' = "RowActive"
                                       /\ trans[t]'.row = bankStates'[trans'[t].bank].row
        BY <1>3, <1>11, <2>1, <2>2 DEF ActsOk, Half
    <2>6. \A b \in Banks : bankStates'[b].act => bankStates'[b].state # "RowActive"
        BY <1>6, <1>11 DEF ActsOk
    <2>7. ~config'.enh => ActNotBroken'
        BY <1>6, <1>11, <1>4 DEF ActsOk, ActNotBroken, Elsewhere
    <2> QED
        BY <1>1, <2>4, <2>5, <2>6, <2>7 DEF ActsOk
<1>13. Lockstep' /\ Rounds'
    BY <1>3, <1>4, <1>6, <1>11, ClaimsStay, RoundsStay DEF Elsewhere, Refreshing
<1> QED
    BY <1>1, <1>9, <1>10, <1>12, <1>13

LEMMA BanksColumn ==
    ASSUME BanksInv, NEW c \in CmdQueue, Column(c)
    PROVE  BanksInv'
<1> USE DEF BanksInv
<1>1. /\ CmdOk(c) /\ phase' = "que" /\ QueueOk'
    BY Taken DEF Column
<1>2. /\ c.type = "RW" /\ c.task \in Tasks /\ trans[c.task].on /\ c.bank = trans[c.task].bank
      /\ c.bank \in Banks /\ st(c.bank) = "RowActive" /\ bankStates[c.bank].row = trans[c.task].row
      /\ trans[c.task].issue \in 0..(BURSTS - 1)
    <2>1. c.type = "RW"
        BY DEF Column
    <2>2. /\ c.task \in Tasks /\ trans[c.task].on /\ c.bank = trans[c.task].bank
          /\ trans[c.task].issue < BURSTS /\ st(c.bank) = "RowActive"
          /\ bankStates[c.bank].row = trans[c.task].row
        BY <1>1, <2>1 DEF CmdOk
    <2> QED
        BY <2>1, <2>2, TransIs, Times
<1>3. Elsewhere /\ phase' \in {"add", "fresh", "sched", "que", "ref"}
    BY <1>1 DEF Column, pbrVars, rankVars, Elsewhere
<1>4. trans' = [trans EXCEPT ![c.task].issue = @ + 1] /\ trans' \in [Tasks -> TransType]
    BY <1>2, Times DEF Column, Typed, TransType
<1>5. ASSUME NEW b \in Banks
      PROVE  Later(bankStates[b], bankStates'[b])
    <2> DEFINE k == bankStates[b]
    <2>1. /\ k \in BankType /\ k.pre \in Nat /\ k.ref \in Nat /\ k.act2 \in Nat
          /\ later(k.pre, tRTP) \in Nat /\ later(k.pre, tRTP) >= k.pre
        <3>1. tRTP \in Int /\ k \in BankType /\ k.pre \in Nat /\ k.ref \in Nat /\ k.act2 \in Nat
            BY Times, BankIs
        <3> QED
            BY <3>1, Countdowns
    <2>2. bankStates'[b] = k \/ bankStates'[b] = [k EXCEPT !.pre = later(k.pre, tRTP)]
        BY <1>2 DEF Column, Typed
    <2> HIDE DEF k
    <2>3. Later(k, k)
        BY <2>1 DEF Later
    <2>4. Later(k, [k EXCEPT !.pre = later(k.pre, tRTP)])
        BY <2>1 DEF Later, BankType
    <2> QED
        BY <2>2, <2>3, <2>4 DEF k
<1>6. \A b \in Banks : bankStates'[b] \in BankType /\ BusyFor(bankStates'[b])
    BY <1>5, BankIs, LaterBusy DEF Later, BanksBusy
<1>7. bankStates' \in [Banks -> BankType] /\ BanksBusy'
    BY <1>6 DEF Column, BanksBusy, Typed
<1>8. Typed'
    BY <1>3, <1>4, <1>7, TypedStay
<1>9. \A b \in Banks : /\ bankStates'[b].state = st(b) /\ bankStates'[b].row = bankStates[b].row
                       /\ (bankStates'[b].act <=> bankStates[b].act) /\ bankStates'[b].cnt = bankStates[b].cnt
    BY <1>5 DEF Later
<1>10. ActsOk'
    <2>1. \A t \in Tasks : /\ (trans'[t].on <=> trans[t].on) /\ trans'[t].bank = trans[t].bank
                           /\ trans'[t].row = trans[t].row /\ (trans'[t].act <=> trans[t].act)
                           /\ t # c.task => trans'[t].issue = trans[t].issue
        BY <1>2, <1>4 DEF Typed, TransType
    <2>2. \A t \in Tasks : trans[t].bank \in Banks
        BY TransIs
    <2>3. ~trans[c.task].act
        BY <1>2 DEF ActsOk
    <2>4. \A t \in Tasks : trans'[t].act =>
              /\ trans'[t].on /\ trans'[t].issue = 0 /\ bankStates'[trans'[t].bank].act
              /\ \A u \in Tasks : trans'[u].act /\ trans'[u].bank = trans'[t].bank => u = t
        BY <1>9, <2>1, <2>2, <2>3 DEF ActsOk
    <2>5. \A t \in Tasks : Half(t)' => /\ st(trans[t].bank)' = "RowActive"
                                       /\ trans[t]'.row = bankStates'[trans'[t].bank].row
        BY <1>2, <1>9, <2>1, <2>2 DEF ActsOk, Half
    <2>6. \A b \in Banks : bankStates'[b].act => bankStates'[b].state # "RowActive"
        BY <1>9 DEF ActsOk
    <2>7. ~config'.enh => ActNotBroken'
        BY <1>9, <1>3 DEF ActsOk, ActNotBroken, Elsewhere
    <2> QED
        BY <1>1, <2>4, <2>5, <2>6, <2>7 DEF ActsOk
<1>11. Lockstep' /\ Rounds'
    BY <1>3, <1>9, ClaimsStay, RoundsStay DEF Elsewhere, Refreshing
<1> QED
    BY <1>1, <1>7, <1>8, <1>10, <1>11
LEMMA BanksPrecharge ==
    ASSUME BanksInv, NEW c \in CmdQueue, Precharge(c)
    PROVE  BanksInv'
<1> USE DEF BanksInv
<1>1. /\ CmdOk(c) /\ phase' = "que" /\ QueueOk'
    BY Taken DEF Precharge
<1>2. /\ c.type = "PRE" /\ c.bank \in Banks /\ st(c.bank) = "RowActive"
      /\ \A t \in Tasks : Half(t) => trans[t].bank # c.bank
    BY <1>1 DEF Precharge, CmdOk
<1>3. /\ UNCHANGED <<config, finish_refresh_pb, hold_refresh_pb, send_pbr, refreshALL, issue_state,
                     until_refi, sbr_gap>>
      /\ phase' \in {"add", "fresh", "sched", "que", "ref"}
    BY <1>1 DEF Precharge, rankVars
<1>4. \A t \in Tasks : /\ trans'[t] \in TransType /\ (trans'[t].on <=> trans[t].on)
                       /\ trans'[t].bank = trans[t].bank
                       /\ trans'[t].issue = trans[t].issue /\ trans'[t].row = trans[t].row
                       /\ trans'[t].act => trans[t].act
    BY TransIs DEF Precharge, Closed, TransType
<1>5. trans' \in [Tasks -> TransType]
    BY <1>4 DEF Precharge, Closed
<1>6. /\ bankStates'[c.bank] \in BankType /\ BusyFor(bankStates'[c.bank])
      /\ bankStates'[c.bank].state = "Precharging"
      /\ (bankStates'[c.bank].act <=> bankStates[c.bank].act)
      /\ \A b \in Banks : b # c.bank => bankStates'[b] = bankStates[b]
    BY <1>2, BankIs, PrechargedIs DEF Precharge, Typed
<1>7. bankStates' \in [Banks -> BankType] /\ BanksBusy'
    <2>1. \A b \in Banks : bankStates'[b] \in BankType /\ BusyFor(bankStates'[b])
        BY <1>6, BankIs DEF BanksBusy
    <2> QED
        BY <2>1 DEF Precharge, BanksBusy, Typed
<1>8. /\ refreshPerBank' \in [Banks -> ClaimType]
      /\ \A b \in Banks : /\ refreshPerBank'[b].waiting <=> refreshPerBank[b].waiting
                          /\ refreshPerBank'[b].refreshing <=> refreshPerBank[b].refreshing
    <2>1. \A b \in Banks : /\ refreshPerBank[b] \in ClaimType
                           /\ b # c.bank => refreshPerBank'[b] = refreshPerBank[b]
        BY <1>2 DEF Precharge, Typed
    <2>2. /\ refreshPerBank'[c.bank] \in ClaimType
          /\ refreshPerBank'[c.bank].waiting <=> refreshPerBank[c.bank].waiting
          /\ refreshPerBank'[c.bank].refreshing <=> refreshPerBank[c.bank].refreshing
        <3>1. PICK v \in BOOLEAN : v = (c.source = 2)
            OBVIOUS
        <3>2. refreshPerBank' = [refreshPerBank EXCEPT ![c.bank].pre = v]
            BY <3>1 DEF Precharge
        <3>3. refreshPerBank'[c.bank] = [refreshPerBank[c.bank] EXCEPT !.pre = v]
            BY <1>2, <3>2 DEF Typed
        <3> QED
            BY <1>2, <2>1, <3>3 DEF ClaimType
    <2> QED
        BY <1>2, <2>1, <2>2 DEF Precharge, Typed
<1>9. Typed'
    BY <1>3, <1>5, <1>7, <1>8 DEF Typed
<1>10. ActsOk'
    <2>1. \A t \in Tasks : trans[t].bank \in Banks
        BY TransIs
    <2>2. \A b \in Banks : (bankStates'[b].act <=> bankStates[b].act)
        BY <1>6
    <2>3. \A t \in Tasks : trans'[t].act =>
              /\ trans'[t].on /\ trans'[t].issue = 0 /\ bankStates'[trans'[t].bank].act
              /\ \A u \in Tasks : trans'[u].act /\ trans'[u].bank = trans'[t].bank => u = t
        BY <1>4, <2>1, <2>2 DEF ActsOk
    <2>4. \A t \in Tasks : Half(t)' => /\ st(trans[t].bank)' = "RowActive"
                                       /\ trans[t]'.row = bankStates'[trans'[t].bank].row
        BY <1>2, <1>4, <1>6, <2>1 DEF ActsOk, Half
    <2>5. \A b \in Banks : bankStates'[b].act => bankStates'[b].state # "RowActive"
        BY <1>6 DEF ActsOk
    <2>6. ~config'.enh => ActNotBroken'
        BY <1>3, <1>6 DEF ActsOk, ActNotBroken
    <2> QED
        BY <1>1, <2>3, <2>4, <2>5, <2>6 DEF ActsOk
<1>11. Lockstep' /\ Rounds'
    BY <1>2, <1>3, <1>6, <1>8, ClaimsStay, RoundsStay DEF Refreshing
<1> QED
    BY <1>1, <1>7, <1>9, <1>10, <1>11

LEMMA BanksPrechargeAll ==
    ASSUME BanksInv, NEW c \in CmdQueue, PrechargeAll(c)
    PROVE  BanksInv'
<1> USE DEF BanksInv
<1>1. /\ CmdOk(c) /\ phase' = "que" /\ QueueOk'
    BY Taken DEF PrechargeAll
<1>2. AnyOpen /\ NoneHalf /\ NoActs
    BY <1>1 DEF PrechargeAll, CmdOk
<1>3. Elsewhere /\ phase' \in {"add", "fresh", "sched", "que", "ref"}
    BY <1>1 DEF PrechargeAll, pbrVars, rankVars, Elsewhere
<1>4. \A t \in Tasks : /\ trans'[t] \in TransType /\ (trans'[t].on <=> trans[t].on)
                       /\ trans'[t].issue = trans[t].issue /\ ~trans'[t].act
    <2> TAKE t \in Tasks
    <2>1. /\ trans[t] \in TransType /\ trans[t].bank \in Banks /\ (trans[t].act => trans[t].on)
        BY TransIs DEF ActsOk
    <2>2. trans'[t] = IF trans[t].on THEN [trans[t] EXCEPT !.act = FALSE] ELSE trans[t]
        BY <2>1 DEF PrechargeAll, Closed
    <2> QED
        BY <2>1, <2>2 DEF TransType
<1>5. trans' \in [Tasks -> TransType]
    BY <1>4 DEF PrechargeAll, Closed
<1>6. \A b \in Banks : /\ bankStates'[b] \in BankType /\ BusyFor(bankStates'[b])
                       /\ bankStates'[b].state = "Precharging" /\ ~bankStates'[b].act
    BY <1>2, BankIs, PrechargedIs DEF PrechargeAll, NoActs
<1>7. bankStates' \in [Banks -> BankType] /\ BanksBusy'
    BY <1>6 DEF PrechargeAll, BanksBusy
<1>8. Typed'
    BY <1>3, <1>5, <1>7, TypedStay
<1>9. ActsOk'
    <2>1. \A t \in Tasks : ~Half(t)'
        BY <1>2, <1>4 DEF NoneHalf, Half
    <2> QED
        BY <1>1, <1>4, <1>6, <2>1 DEF ActsOk, ActNotBroken
<1>10. Lockstep'
    <2>1. ~refreshALL.refreshing
        BY <1>2 DEF AnyOpen, Lockstep, Refreshing
    <2>2. Pairs' = Pairs /\ Claimed' = Claimed /\ Claimed \subseteq Banks
        BY <1>3, PairsStay DEF Claimed, Elsewhere
    <2>3. \A b \in Banks : ~Refreshing(b)'
        BY <1>6 DEF Refreshing
    <2>4. InStep(Claimed)'
        <3> HIDE DEF Refreshing, Claimed
        <3> QED
            BY <2>2, <2>3 DEF InStep
    <2> HIDE DEF Refreshing, Claimed
    <2> QED
        BY <1>3, <2>1, <2>2, <2>3, <2>4 DEF Lockstep, Elsewhere
<1>11. Rounds'
    BY <1>3, RoundsStay DEF Elsewhere
<1> QED
    BY <1>1, <1>7, <1>8, <1>9, <1>10, <1>11

(* A pair is finished that was not: the banks finished stay even.          *)
LEMMA PairKept ==
    ASSUME Typed, Rounds, NEW p \in Pairs, p \cap finish_refresh_pb = {}, config' = config,
           finish_refresh_pb' = finish_refresh_pb \cup p
    PROVE  PairsKept'
<1>1. IsFiniteSet(finish_refresh_pb)
    <2>1. IsFiniteSet(Banks)
        BY Times, FS_Interval DEF Banks, NUM_BANKS
    <2> QED
        BY <2>1, FS_Subset DEF Typed
<1>2. IsFiniteSet(p) /\ Cardinality(p) = 2
    BY TwoBanks
<1>3. Cardinality(finish_refresh_pb') = Cardinality(finish_refresh_pb) + 2
    <2>1. Cardinality(finish_refresh_pb \cap p) = 0
        BY FS_EmptySet
    <2> QED
        <3>1. /\ Cardinality(finish_refresh_pb) \in Nat
              /\ Cardinality(finish_refresh_pb \cup p) =
                     Cardinality(finish_refresh_pb) + Cardinality(p) - Cardinality(finish_refresh_pb \cap p)
            BY <1>1, <1>2, FS_Union, FS_CardinalityType
        <3> QED
            BY <1>2, <2>1, <3>1
<1>4. Cardinality(finish_refresh_pb') % 2 = 0
    <2>1. Cardinality(finish_refresh_pb) % 2 = 0 /\ Cardinality(finish_refresh_pb) \in Nat
        BY <1>1, FS_CardinalityType DEF Rounds, PairsKept
    <2> QED
        BY <1>3, <2>1
<1>5. ~config.enh => \A b \in p : Pair(b) \subseteq p
    <2> SUFFICES ASSUME ~config.enh, NEW b \in p PROVE Pair(b) \subseteq p
        OBVIOUS
    <2>1. PICK a \in First : p = Pair(a)
        BY TwoBanks
    <2>2. p = {a, a + PAIRS}
        BY <2>1, PairOfFirst, RefreshBankAssumption
    <2>3. CASE b = a
        BY <2>1, <2>3
    <2>4. CASE b = a + PAIRS
        <3>1. PAIRS \in Nat \ {0} /\ a \in Int /\ 0 <= a /\ a < PAIRS
            BY Times DEF First
        <3>2. (a + PAIRS + PAIRS) % (2 * PAIRS) = a
            BY <3>1, SMTT(30)
        <3>3. Pair(b) = {b, (b + PAIRS) % (2 * PAIRS)}
            BY DEF Pair, NUM_BANKS
        <3> QED
            BY <2>2, <2>4, <3>1, <3>2, <3>3
    <2> QED
        BY <2>2, <2>3, <2>4
<1> QED
    BY <1>4, <1>5 DEF PairsKept, Rounds

LEMMA BanksRefreshPair ==
    ASSUME BanksInv, NEW c \in CmdQueue, RefreshPair(c)
    PROVE  BanksInv'
<1> USE DEF BanksInv
<1>1. /\ CmdOk(c) /\ phase' = "que" /\ QueueOk'
    BY Taken DEF RefreshPair
<1>2. /\ c.pair = send_pbr /\ c.pair \in Pairs /\ c.pair \subseteq Banks /\ c.pair # {}
      /\ c.pair \cap finish_refresh_pb = {} /\ c.pair \cap hold_refresh_pb = {}
      /\ Claimed \subseteq c.pair
      /\ \A b \in c.pair : st(b) = "Idle"
      /\ ~config.enh => NoActs
    <2>1. c.type = "REFPB"
        BY DEF RefreshPair
    <2>2. c.pair \in Pairs
        BY <1>1, <2>1 DEF CmdOk
    <2>3. c.pair \subseteq Banks /\ c.pair # {}
        BY <2>2, TwoBanks
    <2> QED
        BY <1>1, <2>1, <2>3 DEF CmdOk
<1>3. /\ UNCHANGED <<config, hold_refresh_pb, send_pbr, refreshALL, issue_state, until_refi, sbr_gap,
                     trans>>
      /\ phase' \in {"add", "fresh", "sched", "que", "ref"}
      /\ finish_refresh_pb' = finish_refresh_pb \cup c.pair
    BY <1>1 DEF RefreshPair, queVars, Finished
<1>4. ASSUME NEW b \in c.pair
      PROVE  /\ bankStates'[b] \in BankType /\ BusyFor(bankStates'[b])
             /\ bankStates'[b].state = "Refreshing" /\ bankStates'[b].cnt = tRFCPB
             /\ (bankStates'[b].act <=> bankStates[b].act)
    <2>1. bankStates[b] \in BankType /\ tRFCPB \in Nat \ {0} /\ b \in Banks
        BY <1>2, BankIs, Times
    <2>2. bankStates'[b] = Refreshed(bankStates[b], tRFCPB)
        BY <2>1 DEF RefreshPair
    <2> QED
        BY <2>1, <2>2, RefreshedIs
<1>5. ASSUME NEW b \in Banks, b \notin c.pair
      PROVE  Later(bankStates[b], bankStates'[b])
    <2> DEFINE k == bankStates[b]
    <2>1. bankStates'[b] = [k EXCEPT !.ref = later(k.ref, tPBR2PBR), !.act2 = later(k.act2, tPBR2ACT),
                                     !.act1 = later(k.act1, tPBR2ACT - ACT_LEAD)]
        BY <1>5 DEF RefreshPair
    <2>2. k \in BankType /\ tPBR2ACT - ACT_LEAD \in Int /\ tPBR2ACT \in Int /\ tPBR2PBR \in Int
        BY Times, BankIs
    <2> HIDE DEF k
    <2>3. Later(k, bankStates'[b])
        BY <2>1, <2>2, LaterThree, ZenonT(60)
    <2> QED
        BY <2>3 DEF k
<1>6. ASSUME NEW b \in Banks
      PROVE  bankStates'[b] \in BankType /\ BusyFor(bankStates'[b])
    <2>1. CASE b \in c.pair
        BY <1>4, <2>1
    <2>2. CASE b \notin c.pair
        BY <1>5, <2>2, BankIs, LaterBusy DEF Later, BanksBusy
    <2> QED
        BY <2>1, <2>2
<1>7. bankStates' \in [Banks -> BankType] /\ BanksBusy'
    BY <1>6 DEF RefreshPair, BanksBusy
<1>8. /\ refreshPerBank' \in [Banks -> ClaimType]
      /\ \A b \in c.pair : refreshPerBank'[b].refreshing
      /\ \A b \in Banks : b \notin c.pair => refreshPerBank'[b] = refreshPerBank[b]
    BY <1>2 DEF RefreshPair, Typed, ClaimType
<1>9. Typed'
    BY <1>2, <1>3, <1>7, <1>8 DEF Typed
<1>10. \A b \in Banks : b \notin c.pair =>
            /\ bankStates'[b].state = st(b) /\ bankStates'[b].row = bankStates[b].row
            /\ (bankStates'[b].act <=> bankStates[b].act) /\ bankStates'[b].cnt = bankStates[b].cnt
    BY <1>5 DEF Later
<1>11. ActsOk'
    <2>1. \A t \in Tasks : trans[t].bank \in Banks
        BY TransIs
    <2>2. \A b \in Banks : bankStates'[b].act <=> bankStates[b].act
        BY <1>4, <1>10
    <2>3. \A t \in Tasks : trans'[t].act =>
              /\ trans'[t].on /\ trans'[t].issue = 0 /\ bankStates'[trans'[t].bank].act
              /\ \A u \in Tasks : trans'[u].act /\ trans'[u].bank = trans'[t].bank => u = t
        BY <1>3, <2>1, <2>2 DEF ActsOk
    <2>4. \A t \in Tasks : Half(t)' => /\ st(trans[t].bank)' = "RowActive"
                                       /\ trans[t]'.row = bankStates'[trans'[t].bank].row
        BY <1>2, <1>3, <1>10, <2>1 DEF ActsOk, Half
    <2>5. \A b \in Banks : bankStates'[b].act => bankStates'[b].state # "RowActive"
        BY <1>4, <1>10 DEF ActsOk
    <2>6. ~config'.enh => ActNotBroken'
        BY <1>2, <1>3, <2>2 DEF ActNotBroken, NoActs
    <2> QED
        BY <1>1, <2>3, <2>4, <2>5, <2>6 DEF ActsOk
<1>12. Lockstep'
    <2>1. ~refreshALL.refreshing
        BY <1>2 DEF Lockstep, Refreshing
    <2>2. Pairs' = Pairs /\ Claimed' = c.pair
        <3>1. \A b \in Banks : b \in Claimed' <=> b \in c.pair
            BY <1>2, <1>8 DEF Claimed
        <3> QED
            BY <1>2, <1>3, <3>1, PairsStay DEF Claimed
    <2>3. InStep(c.pair)'
        BY <1>4 DEF InStep, Refreshing
    <2>4. \A b \in Banks : Refreshing(b)' => refreshPerBank'[b].refreshing
        BY <1>8, <1>10, <2>1 DEF Lockstep, Refreshing
    <2> HIDE DEF Refreshing, Claimed
    <2>5. InStep(Claimed)'
        BY <2>2, <2>3 DEF InStep
    <2> QED
        BY <1>2, <1>3, <1>8, <2>1, <2>2, <2>4, <2>5 DEF Lockstep
<1>13. Rounds'
    <2>1. PairsKept'
        BY <1>2, <1>3, PairKept
    <2> QED
        BY <1>2, <1>3, <2>1 DEF Rounds
<1> QED
    BY <1>1, <1>7, <1>9, <1>11, <1>12, <1>13

LEMMA BanksRefreshAll ==
    ASSUME BanksInv, NEW c \in CmdQueue, RefreshAll(c)
    PROVE  BanksInv'
<1> USE DEF BanksInv
<1>1. /\ CmdOk(c) /\ phase' = "que" /\ QueueOk'
    BY Taken DEF RefreshAll
<1>2. NoneHalf /\ NoActs
    BY <1>1 DEF RefreshAll, CmdOk
<1>3. /\ UNCHANGED <<config, hold_refresh_pb, send_pbr, refreshPerBank, issue_state, until_refi,
                     sbr_gap, trans>>
      /\ phase' \in {"add", "fresh", "sched", "que", "ref"}
      /\ finish_refresh_pb' = {} /\ refreshALL' = [refreshALL EXCEPT !.refreshing = TRUE]
    BY <1>1 DEF RefreshAll, queVars
<1>4. \A b \in Banks : /\ bankStates'[b] \in BankType /\ BusyFor(bankStates'[b])
                       /\ bankStates'[b].state = "Refreshing" /\ bankStates'[b].cnt = tRFCAB
                       /\ ~bankStates'[b].act
    BY <1>2, BankIs, RefreshedIs, Times DEF RefreshAll, NoActs
<1>5. bankStates' \in [Banks -> BankType] /\ BanksBusy'
    BY <1>4 DEF RefreshAll, BanksBusy
<1>6. Typed'
    BY <1>3, <1>5 DEF Typed
<1>7. ActsOk'
    <2>1. \A t \in Tasks : ~Half(t)'
        BY <1>2, <1>3 DEF NoneHalf, Half
    <2>2. \A t \in Tasks : ~trans[t].act
        BY <1>2, TransIs DEF ActsOk, NoActs
    <2> QED
        BY <1>1, <1>3, <1>4, <2>1, <2>2 DEF ActsOk, ActNotBroken
<1>8. Lockstep'
    <2>1. Pairs' = Pairs /\ Claimed' = Claimed /\ Claimed \subseteq Banks
        BY <1>3, PairsStay DEF Claimed
    <2>2. InStep(Banks)' /\ \A b \in Banks : Refreshing(b)'
        BY <1>4 DEF InStep, Refreshing
    <2>3. refreshALL'.refreshing
        BY <1>3 DEF Typed
    <2> HIDE DEF Refreshing, Claimed
    <2>4. InStep(Claimed)'
        BY <2>1, <2>2 DEF InStep
    <2> QED
        BY <1>3, <2>1, <2>2, <2>3, <2>4 DEF Lockstep
<1>9. Rounds'
    BY <1>3, FS_EmptySet DEF Rounds, PairsKept
<1> QED
    BY <1>1, <1>5, <1>6, <1>7, <1>8, <1>9
-----------------------------------------------------------------------------
(* A cycle passes: a pair ends its refresh as a whole, and so does the     *)
(* rank; who has waited for a countdown of one may start.                  *)
LEMMA BanksStateFresh ==
    ASSUME BanksInv, StateFresh
    PROVE  BanksInv'
<1> USE DEF BanksInv
<1>1. /\ phase = "fresh" /\ phase' = "sched" /\ Limit = 1 /\ Limit' = 0
      /\ UNCHANGED <<config, CmdQueue, trans, issue_state, finish_refresh_pb, send_pbr, until_refi>>
      /\ hold_refresh_pb' = hold_refresh_pb \ RefreshEnds
    BY DEF StateFresh, At, Then, Limit, queVars
<1>2. \A b \in Banks : bankStates'[b] = Tick(bankStates[b])
    BY DEF StateFresh
<1>3. ASSUME NEW b \in Banks
      PROVE  /\ bankStates'[b] \in BankType /\ BusyFor(bankStates'[b])
             /\ bankStates'[b].row = bankStates[b].row /\ (bankStates'[b].act <=> bankStates[b].act)
             /\ bankStates'[b].cnt = less(bankStates[b].cnt)
             /\ bankStates'[b].act2 = less(bankStates[b].act2)
             /\ bankStates'[b].ref = less(bankStates[b].ref)
             /\ bankStates'[b].pre = less(bankStates[b].pre)
             /\ bankStates'[b].state = IF bankStates[b].cnt = 1 THEN "Idle" ELSE st(b)
    <2>1. bankStates[b] \in BankType /\ BusyFor(bankStates[b])
        BY BankIs DEF BanksBusy
    <2> QED
        BY <1>2, <2>1, TickIs
<1>4. \A b \in Banks : st(b) \in {"Idle", "RowActive"} => bankStates'[b].state = st(b)
    BY <1>3, BankIs DEF BanksBusy, BusyFor
<1>5. \A b \in Banks : bankStates'[b].state = "RowActive" <=> st(b) = "RowActive"
    BY <1>3, <1>4
<1>6. bankStates' \in [Banks -> BankType] /\ BanksBusy'
    BY <1>3 DEF StateFresh, BanksBusy
<1>7. /\ RefreshEnds \subseteq Banks
      /\ \A b \in Banks : b \in RefreshEnds <=> Refreshing(b) /\ bankStates[b].cnt = 1
      /\ \A b \in Banks : Refreshing(b)' <=> Refreshing(b) /\ b \notin RefreshEnds
    BY <1>3 DEF RefreshEnds, Ends, Refreshing
<1>8. /\ refreshPerBank' \in [Banks -> ClaimType]
      /\ \A b \in RefreshEnds : ~refreshPerBank'[b].waiting /\ ~refreshPerBank'[b].refreshing
      /\ \A b \in Banks : b \notin RefreshEnds => refreshPerBank'[b] = refreshPerBank[b]
    BY <1>7 DEF StateFresh, Typed, ClaimType
<1>9. /\ refreshALL' \in [waiting : BOOLEAN, refreshing : BOOLEAN]
      /\ refreshALL'.refreshing <=> refreshALL.refreshing /\ RefreshEnds = {}
    BY DEF StateFresh, Typed
<1>10. sbr_gap' \in 0..SBR_GAP_CNT
    BY Times DEF StateFresh, Typed, less
<1>11. Typed'
    BY <1>1, <1>6, <1>8, <1>9, <1>10 DEF Typed
<1>12. ActsOk'
    <2>1. \A t \in Tasks : trans[t].bank \in Banks
        BY TransIs
    <2>2. \A t \in Tasks : trans'[t].act =>
              /\ trans'[t].on /\ trans'[t].issue = 0 /\ bankStates'[trans'[t].bank].act
              /\ \A u \in Tasks : trans'[u].act /\ trans'[u].bank = trans'[t].bank => u = t
        BY <1>1, <1>3, <2>1 DEF ActsOk
    <2>3. \A t \in Tasks : Half(t)' => /\ st(trans[t].bank)' = "RowActive"
                                       /\ trans[t]'.row = bankStates'[trans'[t].bank].row
        BY <1>1, <1>3, <1>5, <2>1 DEF ActsOk, Half
    <2>4. \A b \in Banks : bankStates'[b].act => bankStates'[b].state # "RowActive"
        BY <1>3, <1>5 DEF ActsOk
    <2>5. ~config'.enh => ActNotBroken'
        BY <1>1, <1>3 DEF ActsOk, ActNotBroken
    <2> QED
        BY <1>1, <2>2, <2>3, <2>4, <2>5 DEF ActsOk
<1>13. Pairs' = Pairs /\ Claimed' = Claimed \ RefreshEnds /\ Claimed \subseteq Banks
    <2>1. \A b \in Banks : b \in Claimed' <=> b \in Claimed /\ b \notin RefreshEnds
        BY <1>8 DEF Claimed
    <2> QED
        BY <1>1, <2>1, PairsStay DEF Claimed
<1>14. Lockstep'
    <2>1. ASSUME NEW S \in SUBSET Banks, InStep(S)
          PROVE  InStep(S)' /\ (S \cap RefreshEnds = {} \/ S \subseteq RefreshEnds)
        <3>1. \A b \in S : bankStates'[b].cnt = less(bankStates[b].cnt)
            BY <1>3
        <3>2. S \cap RefreshEnds = {} \/ S \subseteq RefreshEnds
            BY <1>7, <2>1 DEF InStep
        <3>3. \A a, b \in S : Refreshing(a)' =>
                  Refreshing(b)' /\ bankStates'[a].cnt = bankStates'[b].cnt
            BY <1>7, <2>1, <3>1 DEF InStep
        <3> QED
            BY <3>2, <3>3 DEF InStep
    <2>2. Claimed' = {} \/ Claimed' = Claimed
        BY <1>13, <2>1 DEF Lockstep
    <2>3. InStep(Claimed)'
        <3>1. PICK S \in SUBSET Banks : S = Claimed
            BY <1>13
        <3>2. InStep(S)'
            BY <2>1, <3>1 DEF Lockstep
        <3> HIDE DEF Refreshing, Claimed
        <3> QED
            BY <2>2, <3>1, <3>2 DEF InStep
    <2>4. \A a, b \in Claimed' : refreshPerBank'[a].refreshing => refreshPerBank'[b].refreshing
        BY <1>8, <1>13 DEF Lockstep
    <2>5. refreshALL'.refreshing => InStep(Banks)' /\ \A b \in Banks : Refreshing(b)'
        <3>1. PICK S \in SUBSET Banks : S = Banks
            OBVIOUS
        <3>2. InStep(S) => InStep(S)'
            BY <2>1
        <3> HIDE DEF Refreshing
        <3>3. InStep(Banks) => InStep(Banks)'
            BY <3>1, <3>2 DEF InStep
        <3> QED
            BY <1>7, <1>9, <3>3 DEF Lockstep
    <2>6. \A b \in Banks : Refreshing(b)' => refreshPerBank'[b].refreshing \/ refreshALL'.refreshing
        <3> SUFFICES ASSUME NEW b \in Banks, Refreshing(b)'
                     PROVE  refreshPerBank'[b].refreshing \/ refreshALL'.refreshing
            OBVIOUS
        <3>1. Refreshing(b) /\ b \notin RefreshEnds /\ refreshPerBank'[b] = refreshPerBank[b]
            BY <1>7, <1>8
        <3>2. CASE refreshPerBank[b].refreshing
            BY <3>1, <3>2
        <3>3. CASE refreshALL.refreshing
            <4>1. PICK S \in SUBSET Banks : S = Banks
                OBVIOUS
            <4>2. S \cap RefreshEnds = {} \/ S \subseteq RefreshEnds
                BY <2>1, <3>3, <4>1 DEF Lockstep
            <4> QED
                BY <1>7, <1>9, <3>1, <3>3, <4>1, <4>2
        <3> QED
            BY <3>1, <3>2, <3>3 DEF Lockstep
    <2> HIDE DEF Refreshing, Claimed
    <2>7. Claimed' = {} \/ (Claimed' = send_pbr' /\ send_pbr' \in Pairs')
        BY <1>1, <1>13, <2>2 DEF Lockstep
    <2> QED
        BY <2>3, <2>4, <2>5, <2>6, <2>7 DEF Lockstep
<1>15. Rounds'
    BY <1>1 DEF Rounds, PairsKept
<1>16. QueueOk'
    <2> SUFFICES ASSUME NEW c \in CmdQueue PROVE CmdOk(c)'
        BY <1>1 DEF QueueOk
    <2>1. CmdOk(c)
        BY DEF QueueOk
    <2>2. \A b \in Banks : /\ bankStates[b].act2 <= 1 => bankStates'[b].act2 <= 0
                           /\ bankStates[b].ref <= 1 => bankStates'[b].ref <= 0
                           /\ bankStates[b].pre <= 1 => bankStates'[b].pre <= 0
        BY <1>3, BankIs DEF less
    <2>3. c.type \in {"ACT1", "ACT2", "RW"} => c.bank \in Banks
        BY <2>1, TransIs DEF CmdOk
    <2>4. (NoActs' <=> NoActs) /\ (NoneHalf' <=> NoneHalf) /\ (AnyOpen' <=> AnyOpen)
          /\ \A t \in Tasks : Half(t)' <=> Half(t)
        BY <1>1, <1>3, <1>5 DEF NoActs, NoneHalf, AnyOpen, Half
    <2>5. c.type \in {"ACT1", "ACT2", "RW"} =>
              /\ c.task \in Tasks /\ trans'[c.task].on /\ trans'[c.task].issue < BURSTS
              /\ c.bank = trans'[c.task].bank
        BY <1>1, <2>1 DEF CmdOk
    <2>6. c.type = "ACT1" => /\ ~trans'[c.task].act /\ trans'[c.task].issue = 0
                             /\ ~bankStates'[c.bank].act
                             /\ bankStates'[c.bank].state \notin {"RowActive", "Refreshing"}
        BY <1>1, <1>3, <2>1, <2>3 DEF CmdOk
    <2>7. c.type = "ACT2" => /\ trans'[c.task].act /\ bankStates'[c.bank].state # "RowActive"
                             /\ bankStates'[c.bank].act2 <= 0
        BY <1>1, <1>5, <2>1, <2>2, <2>3 DEF CmdOk
    <2>8. c.type = "RW" => /\ bankStates'[c.bank].state = "RowActive"
                           /\ bankStates'[c.bank].row = trans'[c.task].row
        BY <1>1, <1>3, <1>5, <2>1, <2>3 DEF CmdOk
    <2>9. c.type = "PRE" => /\ c.bank \in Banks /\ bankStates'[c.bank].state = "RowActive"
                            /\ bankStates'[c.bank].pre <= 0
                            /\ \A t \in Tasks : Half(t)' => trans'[t].bank # c.bank
        BY <1>1, <1>5, <2>1, <2>2, <2>4 DEF CmdOk
    <2>10. c.type = "PRE_AB" => AnyOpen' /\ \A b \in Banks : bankStates'[b].pre <= 0
        BY <1>1, <2>1, <2>2, <2>4 DEF CmdOk
    <2>11. c.type = "REF" => ~AnyOpen' /\ \A b \in Banks : bankStates'[b].ref <= 0
        BY <1>1, <2>1, <2>2, <2>4 DEF CmdOk
    <2>12. c.type = "REFPB" =>
              /\ c.pair = send_pbr' /\ c.pair \in Pairs'
              /\ c.pair \cap finish_refresh_pb' = {} /\ c.pair \cap hold_refresh_pb' = {}
              /\ Claimed' \subseteq c.pair
              /\ \A b \in c.pair : bankStates'[b].state = "Idle"
              /\ ~config'.enh => NoActs'
        <3> SUFFICES ASSUME c.type = "REFPB"
                     PROVE  /\ c.pair = send_pbr' /\ c.pair \in Pairs'
                            /\ c.pair \cap finish_refresh_pb' = {} /\ c.pair \cap hold_refresh_pb' = {}
                            /\ Claimed' \subseteq c.pair
                            /\ \A b \in c.pair : bankStates'[b].state = "Idle"
                            /\ ~config'.enh => NoActs'
            OBVIOUS
        <3>1. /\ c.pair = send_pbr /\ c.pair \in Pairs
              /\ c.pair \cap finish_refresh_pb = {} /\ c.pair \cap hold_refresh_pb = {}
              /\ Claimed \subseteq c.pair /\ \A b \in c.pair : st(b) = "Idle"
              /\ ~config.enh => NoActs
            BY <2>1 DEF CmdOk
        <3>2. c.pair \subseteq Banks
            BY <3>1 DEF Typed
        <3>3. \A b \in c.pair : bankStates'[b].state = "Idle"
            BY <1>4, <3>1, <3>2
        <3> HIDE DEF Claimed, Pairs, NoActs
        <3> QED
            BY <1>1, <1>13, <2>4, <3>1, <3>3
    <2>13. phase' # "ref" /\ (c.type \in {"PRE_AB", "REF"} => NoneHalf' /\ NoActs')
        BY <1>1, <2>1, <2>4 DEF CmdOk
    <2>14. c.type \in {"ACT1", "ACT2", "RW", "PRE", "PRE_AB", "REFPB", "REF"}
        BY <2>1 DEF CmdOk
    <2> HIDE DEF AnyOpen, NoneHalf, NoActs, Claimed, Half
    <2> QED
        BY <1>1, <2>5, <2>6, <2>7, <2>8, <2>9, <2>10, <2>11, <2>12, <2>13, <2>14 DEF CmdOk
<1> QED
    BY <1>6, <1>11, <1>12, <1>14, <1>15, <1>16
(* Neither the banks nor the claims nor the queue change, and the places   *)
(* at most take transactions that have not begun.                          *)
LEMMA BanksPlaces ==
    ASSUME BanksInv, phase' \in {"add", "fresh", "sched", "que"}, phase # "sched",
           phase' = "sched" => phase = "fresh", phase' = "que" => CmdQueue = {},
           UNCHANGED <<config, CmdQueue, bankStates>>, Elsewhere,
           trans' \in [Tasks -> TransType],
           \A t \in Tasks : \/ trans'[t] = trans[t]
                            \/ ~trans[t].on /\ ~trans'[t].act /\ trans'[t].issue = 0,
           phase # "fresh"
    PROVE  BanksInv'
<1> USE DEF BanksInv
<1>1. Limit = 1 /\ Limit' = 1
    BY DEF Limit
<1>2. Typed' /\ BanksBusy'
    BY TypedStay DEF Typed, BanksBusy
<1>3. \A t \in Tasks : (Half(t)' => Half(t) /\ trans'[t] = trans[t])
                       /\ (trans[t].on => trans'[t] = trans[t])
                       /\ (trans'[t].act => trans[t].act /\ trans'[t] = trans[t])
    <2> TAKE t \in Tasks
    <2>1. CASE trans'[t] = trans[t]
        BY <2>1 DEF Half
    <2>2. CASE ~trans[t].on /\ ~trans'[t].act /\ trans'[t].issue = 0
        BY <2>2, Times DEF Half, ActsOk
    <2> QED
        BY <2>1, <2>2
<1>4. ActsOk'
    <2>1. \A t \in Tasks : Half(t)' => /\ st(trans[t].bank)' = "RowActive"
                                       /\ trans[t]'.row = bankStates'[trans'[t].bank].row
        BY <1>3 DEF ActsOk
    <2>2. \A t \in Tasks : trans'[t].act =>
              /\ trans'[t].on /\ trans'[t].issue = 0 /\ bankStates'[trans'[t].bank].act
              /\ \A u \in Tasks : trans'[u].act /\ trans'[u].bank = trans'[t].bank => u = t
        BY <1>3 DEF ActsOk
    <2> QED
        BY <2>1, <2>2 DEF ActsOk, ActNotBroken
<1>5. Lockstep' /\ Rounds'
    BY ClaimsStay, RoundsStay DEF Elsewhere, Refreshing
<1>6. QueueOk'
    <2> SUFFICES ASSUME NEW c \in CmdQueue PROVE CmdOk(c)'
        BY DEF QueueOk
    <2>1. CmdOk(c) /\ phase' # "ref"
        BY DEF QueueOk
    <2>2. NoneHalf => NoneHalf'
        BY <1>3 DEF NoneHalf
    <2>3. (NoActs' <=> NoActs) /\ (AnyOpen' <=> AnyOpen)
        BY DEF NoActs, AnyOpen
    <2>4. c.type \in {"ACT1", "ACT2", "RW"} => c.task \in Tasks /\ trans'[c.task] = trans[c.task]
        BY <1>3, <2>1 DEF CmdOk
    <2>5. Pairs' = Pairs /\ Claimed' = Claimed
        BY PairsStay DEF Claimed, Elsewhere
    <2>6. c.type = "PRE" => \A t \in Tasks : Half(t)' => trans'[t].bank # c.bank
        BY <1>3, <2>1 DEF CmdOk
    <2> HIDE DEF AnyOpen, NoneHalf, NoActs, Claimed, Half
    <2> QED
        BY <1>1, <2>1, <2>2, <2>3, <2>4, <2>5, <2>6 DEF CmdOk, Elsewhere
<1> QED
    BY <1>2, <1>4, <1>5, <1>6

LEMMA BanksAdd ==
    ASSUME BanksInv, \/ \E t \in Tasks, w \in Wanted : AddTransaction(t, w)
                     \/ NoTransaction
    PROVE  BanksInv'
<1>1. CASE NoTransaction
    <2>1. /\ UNCHANGED <<config, CmdQueue, bankStates, trans>> /\ Elsewhere
          /\ phase = "add" /\ phase' = "fresh"
        BY <1>1 DEF NoTransaction, queVars, pbrVars, rankVars, Elsewhere, At, Then
    <2> QED
        BY <2>1, BanksPlaces DEF BanksInv, Typed
<1>2. ASSUME NEW t \in Tasks, NEW w \in Wanted, AddTransaction(t, w) PROVE BanksInv'
    <2>1. /\ UNCHANGED <<config, CmdQueue, bankStates>> /\ Elsewhere
          /\ phase = "add" /\ phase' = "fresh" /\ ~trans[t].on
        BY <1>2 DEF AddTransaction, pbrVars, rankVars, Elsewhere, At, Then
    <2>2. w[1] \in Banks /\ w[2] \in RowsOr0
        BY RefreshBankAssumption DEF RefreshBankAssumption, Rows, RowsOr0
    <2>3. trans' = [trans EXCEPT ![t] = [Empty EXCEPT !.on = TRUE, !.bank = w[1], !.row = w[2]]]
        BY <1>2 DEF AddTransaction
    <2> DEFINE new == [Empty EXCEPT !.on = TRUE, !.bank = w[1], !.row = w[2]]
    <2>8. ASSUME NEW b \in Banks, NEW r \in RowsOr0,
                 NEW x, x = [Empty EXCEPT !.on = TRUE, !.bank = b, !.row = r]
          PROVE  x \in TransType /\ ~x.act /\ x.issue = 0
        <3>1. 0 \in 0..BURSTS
            BY Times
        <3>2. x = [on |-> TRUE, bank |-> b, row |-> r, act |-> FALSE, issue |-> 0]
            BY <2>8 DEF Empty
        <3> QED
            BY <3>1, <3>2 DEF TransType
    <2>6. new \in TransType /\ ~new.act /\ new.issue = 0
        BY <2>2, <2>8
    <2> HIDE DEF new
    <2>7. trans' = [trans EXCEPT ![t] = new]
        BY <2>3 DEF new
    <2>4. trans' \in [Tasks -> TransType]
        BY <2>6, <2>7 DEF BanksInv, Typed
    <2>5. \A u \in Tasks : \/ trans'[u] = trans[u]
                           \/ ~trans[u].on /\ ~trans'[u].act /\ trans'[u].issue = 0
        BY <2>1, <2>6, <2>7 DEF BanksInv, Typed
    <2> QED
        BY <2>1, <2>4, <2>5, BanksPlaces
<1> QED
    BY <1>1, <1>2

LEMMA BanksSame ==
    ASSUME BanksInv, UNCHANGED <<config, CmdQueue, bankStates, trans>>, Elsewhere,
           phase' = phase \/ (phase = "sched" /\ phase' = "que" /\ CmdQueue = {})
    PROVE  BanksInv'
<1> USE DEF BanksInv
<1>1. Typed' /\ BanksBusy'
    BY TypedStay DEF Typed, BanksBusy
<1>2. ActsOk'
    <2>1. \A b \in Banks : HalfDone(b)' <=> HalfDone(b)
        BY DEF HalfDone, Busy
    <2>2. \A t \in Tasks : Half(t)' <=> Half(t)
        BY DEF Half
    <2> HIDE DEF HalfDone, Half
    <2> QED
        BY <2>1, <2>2 DEF ActsOk, ActNotBroken, Elsewhere
<1>3. Lockstep' /\ Rounds'
    BY ClaimsStay, RoundsStay DEF Elsewhere, Refreshing
<1>4. QueueOk'
    <2>1. CASE CmdQueue = {}
        BY <2>1 DEF QueueOk
    <2>2. CASE phase' = phase
        <3> SUFFICES ASSUME NEW c \in CmdQueue PROVE CmdOk(c)'
            BY <2>2 DEF QueueOk
        <3>1. CmdOk(c) /\ Limit' = Limit
            BY <2>2 DEF QueueOk, Limit
        <3>2. /\ (NoActs' <=> NoActs) /\ (AnyOpen' <=> AnyOpen) /\ (NoneHalf' <=> NoneHalf)
              /\ \A t \in Tasks : Half(t)' <=> Half(t)
            BY DEF NoActs, AnyOpen, NoneHalf, Half
        <3>3. Pairs' = Pairs /\ Claimed' = Claimed
            BY PairsStay DEF Claimed, Elsewhere
        <3> HIDE DEF AnyOpen, NoneHalf, NoActs, Claimed, Half, Limit
        <3> QED
            BY <2>2, <3>1, <3>2, <3>3 DEF CmdOk, Elsewhere
    <2> QED
        BY <2>1, <2>2
<1> QED
    BY <1>1, <1>2, <1>3, <1>4

(* que_pipeline queues what is legal one cycle on.                         *)
LEMMA BanksQuePipeline ==
    ASSUME BanksInv, QuePipeline
    PROVE  BanksInv'
<1> USE DEF BanksInv
<1>1. /\ phase = "que" /\ phase' = "ref" /\ Limit' = 1
      /\ UNCHANGED <<config, bankStates, refreshPerBank, finish_refresh_pb, hold_refresh_pb, send_pbr,
                     refreshALL, until_refi, sbr_gap>>
      /\ issue_state' = {b \in Banks : HalfDone(b)}
    BY DEF QuePipeline, At, Then, Limit, pbrVars, rankVars
<1>2. ASSUME NEW t \in Tasks
      PROVE  /\ trans'[t] \in TransType
             /\ IF Done(t) THEN ~trans'[t].on /\ ~trans'[t].act ELSE trans'[t] = trans[t]
    <2>1. trans'[t] = IF Done(t) THEN [on |-> FALSE, bank |-> 0, row |-> 0, act |-> FALSE, issue |-> 0]
                      ELSE trans[t]
        BY DEF QuePipeline, Empty
    <2>2. 0 \in Banks /\ 0 \in RowsOr0 /\ 0 \in 0..BURSTS
        BY Times DEF Banks, NUM_BANKS, RowsOr0
    <2> QED
        BY <2>1, <2>2, TransIs DEF TransType
<1>3. trans' \in [Tasks -> TransType]
    BY <1>2 DEF QuePipeline
<1>4. Typed' /\ BanksBusy'
    BY <1>1, <1>3 DEF Typed, BanksBusy
<1>5. \A t \in Tasks : Half(t) => ~Done(t) /\ t \in Busy /\ trans[t].issue > 0
    BY Times DEF Half, Done, Busy
<1>6. \A t \in Tasks : (Half(t)' <=> Half(t)) /\ (t \in Busy' <=> t \in Busy)
                       /\ (t \in Busy => trans'[t] = trans[t])
                       /\ (trans'[t].act => trans'[t] = trans[t])
    BY <1>2, Times DEF Half, Busy, Done
<1>7. \A b \in Banks : HalfDone(b)' <=> HalfDone(b)
    BY <1>6 DEF HalfDone, Busy
<1>8. ActsOk'
    <2>1. \A t \in Tasks : Half(t)' => /\ st(trans[t].bank)' = "RowActive"
                                       /\ trans[t]'.row = bankStates'[trans'[t].bank].row
        BY <1>1, <1>5, <1>6 DEF ActsOk
    <2>2. \A t \in Tasks : trans'[t].act =>
              /\ trans'[t].on /\ trans'[t].issue = 0 /\ bankStates'[trans'[t].bank].act
              /\ \A u \in Tasks : trans'[u].act /\ trans'[u].bank = trans'[t].bank => u = t
        BY <1>1, <1>6 DEF ActsOk
    <2>3. issue_state' = {b \in Banks : HalfDone(b)'}
        BY <1>1, <1>7
    <2> HIDE DEF HalfDone, Half
    <2> QED
        BY <1>1, <2>1, <2>2, <2>3 DEF ActsOk, ActNotBroken
<1>9. Lockstep' /\ Rounds'
    BY <1>1, ClaimsStay, RoundsStay DEF Refreshing
<1>10. ASSUME NEW t \in Busy, lc(t), NEW c, c = Cmd(need_issue(t), trans[t].bank, t, 0, {})
       PROVE  CmdOk(c)'
    <2>1. /\ t \in Tasks /\ trans[t].on /\ trans[t].issue < BURSTS /\ trans'[t] = trans[t]
          /\ trans[t].bank \in Banks /\ trans[t].issue \in Nat
        BY <1>6, TransIs, Times DEF Busy
    <2>2. c.type = need_issue(t) /\ c.bank = trans[t].bank /\ c.task = t
        BY <1>10 DEF Cmd
    <2>3. timing_met(trans[t].bank, need_issue(t)) /\ ~HeldBack(t)
        BY <1>10 DEF lc
    <2>4. trans[t].issue > 0 => Hit(t) /\ st(trans[t].bank) = "RowActive"
        BY <2>1, Times DEF ActsOk, Half, Hit
    <2>5. need_issue(t) \in {"RW", "PRE", "ACT1", "ACT2", "INVALID"}
        BY DEF need_issue
    <2>6. need_issue(t) # "INVALID"
        BY <2>3 DEF timing_met
    <2>7. need_issue(t) = "RW" => Hit(t)
        BY DEF need_issue
    <2>8. need_issue(t) = "PRE" => /\ st(trans[t].bank) = "RowActive" /\ bankStates[trans[t].bank].pre <= 1
                                   /\ \A u \in Tasks : Half(u) => trans[u].bank # trans[t].bank
        <3> SUFFICES ASSUME need_issue(t) = "PRE"
                     PROVE  /\ st(trans[t].bank) = "RowActive" /\ bankStates[trans[t].bank].pre <= 1
                            /\ \A u \in Tasks : Half(u) => trans[u].bank # trans[t].bank
            OBVIOUS
        <3>1. st(trans[t].bank) = "RowActive" /\ ~Hit(t)
              /\ (~hold_precharge(trans[t].bank) \/ trans[t].issue > 0)
            BY DEF need_issue
        <3>2. ~hold_precharge(trans[t].bank)
            BY <2>4, <3>1
        <3>3. \A u \in Tasks : Half(u) => Hit(u) /\ u \in Busy
            BY <1>5 DEF ActsOk, Hit
        <3> QED
            BY <2>3, <3>1, <3>2, <3>3 DEF hold_precharge, timing_met
    <2>9. need_issue(t) = "ACT2" => /\ trans[t].act /\ st(trans[t].bank) # "RowActive"
                                    /\ bankStates[trans[t].bank].act2 <= 1
        BY <2>3 DEF need_issue, timing_met
    <2>10. need_issue(t) = "ACT1" => /\ ~trans[t].act /\ trans[t].issue = 0
                                     /\ ~bankStates[trans[t].bank].act
                                     /\ st(trans[t].bank) \notin {"RowActive", "Refreshing"}
        <3> SUFFICES ASSUME need_issue(t) = "ACT1"
                     PROVE  /\ ~trans[t].act /\ trans[t].issue = 0
                            /\ ~bankStates[trans[t].bank].act
                            /\ st(trans[t].bank) \notin {"RowActive", "Refreshing"}
            OBVIOUS
        <3>1. st(trans[t].bank) # "RowActive" /\ ~trans[t].act /\ ~bankStates[trans[t].bank].act
            BY DEF need_issue
        <3>2. trans[t].issue = 0
            BY <2>1, <2>4, <3>1
        <3>3. ~refreshPerBank[trans[t].bank].refreshing /\ ~refreshALL.refreshing
            BY <2>3, <3>1, <3>2 DEF HeldBack
        <3>4. st(trans[t].bank) # "Refreshing"
            BY <2>1, <3>3 DEF Lockstep, Refreshing
        <3> QED
            BY <3>1, <3>2, <3>4
    <2>11. \A u \in Tasks : Half(u)' => Half(u) /\ trans'[u] = trans[u]
        BY <1>2, <1>5, <1>6
    <2> HIDE DEF Half
    <2>12. c.type = "PRE" => \A u \in Tasks : Half(u)' => trans'[u].bank # c.bank
        BY <2>2, <2>8, <2>11
    <2> QED
        BY <1>1, <2>1, <2>2, <2>5, <2>6, <2>7, <2>8, <2>9, <2>10, <2>12 DEF CmdOk, Hit
<1>11. ASSUME NEW b \in Closable, NEW c, c = Cmd("PRE", b, NoTask, 1, {})
       PROVE  CmdOk(c)'
    <2>1. /\ b \in Banks /\ st(b) = "RowActive" /\ bankStates[b].pre <= 1
          /\ \A t \in Busy : trans[t].bank # b
        BY DEF Closable
    <2>2. c.type = "PRE" /\ c.bank = b
        BY <1>11 DEF Cmd
    <2>3. \A u \in Tasks : Half(u)' => trans'[u].bank # b
        BY <1>2, <1>5, <1>6, <2>1
    <2> HIDE DEF Half
    <2> QED
        BY <1>1, <2>1, <2>2, <2>3 DEF CmdOk
<1>12. QueueOk'
    <2>1. PICK S \in SUBSET Closable :
             CmdQueue' = {Cmd(need_issue(t), trans[t].bank, t, 0, {}) : t \in {u \in Busy : lc(u)}}
                         \cup {Cmd("PRE", b, NoTask, 1, {}) : b \in S}
        BY DEF QuePipeline
    <2>2. \A c \in CmdQueue' : CmdOk(c)'
        BY <1>10, <1>11, <2>1
    <2> QED
        BY <1>1, <2>2 DEF QueueOk
<1> QED
    BY <1>4, <1>8, <1>9, <1>12
-----------------------------------------------------------------------------
(* refresh looks at the banks and changes none of them: what was queued    *)
(* before it stays as it is promised, and so do the banks.                 *)
Looks == /\ phase = "ref" /\ phase' = "add"
         /\ UNCHANGED <<config, bankStates, trans, issue_state, sbr_gap>>
         /\ until_refi' \in 1..tREFI
         /\ refreshALL' \in [waiting : BOOLEAN, refreshing : BOOLEAN]
         /\ refreshALL'.refreshing <=> refreshALL.refreshing

LEMMA RefreshLooks ==
    ASSUME BanksInv, Refresh
    PROVE  Looks
<1>1. /\ phase = "ref" /\ phase' = "add"
      /\ UNCHANGED <<config, bankStates, trans, issue_state, sbr_gap>>
    BY DEF Refresh, At, Then, queVars
<1>2. until_refi' \in 1..tREFI
    BY Times DEF BanksInv, Typed, Refresh, Due
<1>3. /\ refreshALL' \in [waiting : BOOLEAN, refreshing : BOOLEAN]
      /\ refreshALL'.refreshing <=> refreshALL.refreshing
    <2>1. refreshALL' = [refreshALL EXCEPT !.waiting = AllWaiting] /\ AllWaiting \in BOOLEAN
        BY DEF Refresh, AllWaiting
    <2> HIDE DEF AllWaiting
    <2> QED
        BY <2>1 DEF BanksInv, Typed
<1> QED
    BY <1>1, <1>2, <1>3 DEF Looks

LEMMA QueueThrough ==
    ASSUME BanksInv, Looks
    PROVE  /\ ActsOk' /\ BanksBusy'
           /\ \A c \in CmdQueue : CmdOk(c)'
<1>1. BanksBusy'
    BY DEF BanksInv, BanksBusy, Looks
<1>2. \A t \in Tasks : Half(t)' <=> Half(t)
    BY DEF Half, Looks
<1>3. (NoActs' <=> NoActs) /\ (AnyOpen' <=> AnyOpen) /\ (ActNotBroken' <=> ActNotBroken)
    BY DEF NoActs, AnyOpen, ActNotBroken, Looks
<1>4. ActsOk'
    <2> HIDE DEF Half, ActNotBroken
    <2> QED
        BY <1>2, <1>3 DEF BanksInv, ActsOk, Looks
<1>5. Limit = 1 /\ Limit' = 1
    BY DEF Limit, Looks
<1>6. ASSUME NEW c \in CmdQueue PROVE CmdOk(c)'
    <2>1. CmdOk(c) /\ c.type \notin {"PRE_AB", "REF", "REFPB"}
        BY DEF BanksInv, QueueOk, CmdOk, Looks
    <2> HIDE DEF Half, Limit, AnyOpen, NoActs
    <2> QED
        BY <1>2, <1>5, <2>1 DEF CmdOk, Looks
<1> QED
    BY <1>1, <1>4, <1>6

(* The claims and the round after refresh, from what it does to them.      *)
LEMMA BanksLooked ==
    ASSUME BanksInv, Looks,
           Lockstep', Rounds',
           refreshPerBank' \in [Banks -> ClaimType],
           finish_refresh_pb' \subseteq Banks, hold_refresh_pb' \subseteq Banks,
           send_pbr' \subseteq Banks,
           \A c \in CmdQueue' : c \in CmdQueue \/ CmdOk(c)'
    PROVE  BanksInv'
<1>1. Typed'
    BY DEF BanksInv, Typed, Looks
<1>2. QueueOk'
    BY QueueThrough DEF QueueOk, Looks
<1> QED
    BY <1>1, <1>2, QueueThrough DEF BanksInv

(* Claims that stay with the pair they had.                                *)
LEMMA ClaimsKept ==
    ASSUME BanksInv, Looks, refreshPerBank' = refreshPerBank,
           Claimed = {} \/ (Claimed = send_pbr' /\ send_pbr' = send_pbr)
    PROVE  Lockstep' /\ Claimed' = Claimed
<1>1. Pairs' = Pairs /\ Claimed' = Claimed
    BY PairsStay DEF Claimed, Looks
<1>2. InStep(Claimed)' /\ (InStep(Banks) => InStep(Banks)')
    BY <1>1 DEF BanksInv, Lockstep, InStep, Refreshing, Looks
<1>3. \A b \in Banks : Refreshing(b)' <=> Refreshing(b)
    BY DEF Refreshing, Looks
<1> HIDE DEF Claimed, Refreshing
<1> QED
    BY <1>1, <1>2, <1>3 DEF BanksInv, Lockstep, Looks

LEMMA BanksNoPerBankRefresh ==
    ASSUME BanksInv, Refresh, NoPerBankRefresh
    PROVE  BanksInv'
<1>1. Looks
    BY RefreshLooks
<1>2. UNCHANGED <<refreshPerBank, finish_refresh_pb, hold_refresh_pb, send_pbr>>
    BY DEF NoPerBankRefresh
<1>3. Lockstep' /\ Rounds'
    BY <1>1, <1>2, ClaimsKept, RoundsStay DEF BanksInv, Lockstep, Looks
<1>4. ASSUME NEW c \in CmdQueue', c \notin CmdQueue PROVE CmdOk(c)'
    <2>1. (SendPreAll \/ SendRef) /\ c = Cmd(IF SendRef THEN "REF" ELSE "PRE_AB", 0, NoTask, 2, {})
        BY <1>4 DEF NoPerBankRefresh, AllCommand
    <2>2. ~AllHeld /\ (SendRef \/ (AnyOpen /\ \A b \in Banks : bankStates[b].pre <= 1))
          /\ (SendRef => ~AnyOpen /\ \A b \in Banks : bankStates[b].ref <= 1)
        BY <2>1 DEF SendPreAll, SendRef, AllWants
    <2>3. c.type = IF SendRef THEN "REF" ELSE "PRE_AB"
        BY <2>1 DEF Cmd
    <2>4. NoActs /\ NoneHalf
        <3>1. \A t \in Tasks : Half(t) => HalfDone(trans[t].bank) /\ trans[t].bank \in Banks
            BY TransIs, Times DEF BanksInv, Half, HalfDone, Busy
        <3> HIDE DEF Half, HalfDone
        <3> QED
            BY <2>2, <3>1 DEF AllHeld, act2_left, NoActs, NoneHalf
    <2>5. Limit' = 1 /\ phase' # "ref"
        BY <1>1 DEF Limit, Looks
    <2>6. NoActs' /\ NoneHalf' /\ (AnyOpen' <=> AnyOpen)
        BY <1>1, <2>4 DEF NoActs, NoneHalf, Half, AnyOpen, Looks
    <2>7. \A b \in Banks : bankStates'[b] = bankStates[b]
        BY <1>1 DEF Looks
    <2> HIDE DEF AnyOpen, NoneHalf, NoActs, Limit
    <2>8. CASE SendRef
        BY <2>2, <2>3, <2>5, <2>6, <2>7, <2>8 DEF CmdOk
    <2>9. CASE ~SendRef
        BY <2>2, <2>3, <2>5, <2>6, <2>7, <2>9 DEF CmdOk
    <2> QED
        BY <2>8, <2>9
<1> QED
    BY <1>1, <1>2, <1>3, <1>4, BanksLooked DEF BanksInv, Typed

(* The pair that is chosen: the one that has a claim, if any has one.      *)
LEMMA ChosenIs ==
    ASSUME BanksInv, NEW p \in Chosen
    PROVE  /\ p \in Pairs \cup {{}} /\ p \subseteq Banks
           /\ Claimed # {} => p = send_pbr /\ Claimed = p
           /\ p \cap finish_refresh_pb = {} \/ p \subseteq finish_refresh_pb
           /\ ~refreshing_now => \A b \in Banks : ~refreshPerBank[b].refreshing
<1>1. \A q \in Pairs : ~config.enh => \E a \in First : a \in q
    BY TwoBanks DEF Pair
<1>2. First \subseteq Banks
    BY Times DEF First, Banks, NUM_BANKS
<1>3. Claimed # {} => /\ Claimed = send_pbr /\ send_pbr \in Pairs
                      /\ \E a \in Heads : a \in Claimed
    BY <1>1 DEF BanksInv, Lockstep, Heads, Claimed
<1>4. Claimed # {} => have_bank_refresh
    BY <1>3 DEF have_bank_refresh, Claimed
<1>5. have_bank_refresh => Claimed # {}
    BY <1>2 DEF have_bank_refresh, Claimed, Heads
<1>7. ~refreshing_now => \A b \in Banks : ~refreshPerBank[b].refreshing
    <2> SUFFICES ASSUME ~refreshing_now, NEW b \in Banks, refreshPerBank[b].refreshing
                 PROVE  FALSE
        OBVIOUS
    <2>1. b \in Claimed
        BY DEF Claimed
    <2>2. PICK a \in Heads : a \in Claimed
        BY <1>3, <2>1
    <2>3. refreshPerBank[a].refreshing
        BY <2>1, <2>2 DEF BanksInv, Lockstep
    <2> QED
        BY <2>2, <2>3 DEF refreshing_now
<1>6. CASE have_bank_refresh
    <2>1. p = send_pbr
        BY <1>6 DEF Chosen
    <2> QED
        BY <1>3, <1>5, <1>6, <1>7, <2>1 DEF BanksInv, Rounds, Typed
<1>8. CASE ~have_bank_refresh
    <2>1. p \in Best \/ p = {}
        BY <1>8 DEF Chosen
    <2>2. p \in Best => p \in Pairs /\ p \cap finish_refresh_pb = {}
        BY DEF Best, Choosable
    <2> QED
        BY <1>4, <1>7, <1>8, <2>1, <2>2, PairsAreBanks, RefreshBankAssumption
<1> QED
    BY <1>6, <1>8
(* The round goes on or begins anew, with the chosen pair in it.           *)
LEMMA RoundsLooked ==
    ASSUME BanksInv, Looks, NEW p \in Chosen, send_pbr' = p,
           finish_refresh_pb' = FinishedNow,
           hold_refresh_pb' \subseteq HoldNow \cup (p \ FinishedNow)
    PROVE  Rounds' /\ finish_refresh_pb' \subseteq Banks
<1>1. FinishedNow \in {{}, finish_refresh_pb}
    BY DEF FinishedNow
<1>2. HoldNow \cap FinishedNow = {}
    BY <1>1 DEF HoldNow, BanksInv, Rounds
<1>3. p \cap finish_refresh_pb = {} \/ p \subseteq finish_refresh_pb
    BY ChosenIs
<1>4. PairsKept'
    <2>1. CASE FinishedNow = {}
        BY <2>1, FS_EmptySet DEF PairsKept
    <2>2. CASE FinishedNow = finish_refresh_pb
        BY <2>2 DEF BanksInv, Rounds, PairsKept, Looks
    <2> QED
        BY <1>1, <2>1, <2>2
<1> QED
    BY <1>1, <1>2, <1>3, <1>4 DEF Rounds, BanksInv, Typed

(* The refresh of a pair is queued for idle banks whose turn it is.        *)
LEMMA RefPbOk ==
    ASSUME BanksInv, Looks, ~Skipped, NEW p \in Pairs, Quiet(p), send_pbr' = p,
           p \cap finish_refresh_pb' = {}, p \cap hold_refresh_pb' = {}, Claimed' \subseteq p,
           NEW c \in RefPb(p)
    PROVE  CmdOk(c)'
<1>1. c.type = "REFPB" /\ c.pair = p
    BY DEF RefPb, Cmd
<1>2. Pairs' = Pairs
    BY PairsStay DEF Looks
<1>3. \A b \in p : st(b)' = "Idle"
    BY DEF Quiet, Looks
<1>4. ~config'.enh => NoActs'
    BY DEF Skipped, act2_left, NoActs, Looks
<1>5. phase' # "ref"
    BY DEF Looks
<1> HIDE DEF NoActs, Claimed
<1> QED
    BY <1>1, <1>2, <1>3, <1>4, <1>5 DEF CmdOk

LEMMA BanksOffered ==
    ASSUME BanksInv, Looks, ~Skipped, NEW p \in Chosen, send_pbr' = p,
           finish_refresh_pb' = FinishedNow, Offered(p)
    PROVE  BanksInv'
<1>1. /\ refreshPerBank' = refreshPerBank /\ hold_refresh_pb' \subseteq HoldNow
    BY DEF Offered
<1>2. /\ p \in Pairs \cup {{}} /\ p \subseteq Banks
      /\ Claimed # {} => p = send_pbr /\ Claimed = p
    BY ChosenIs
<1>3. Rounds' /\ finish_refresh_pb' \subseteq Banks
    BY <1>1, RoundsLooked
<1>4. Lockstep' /\ Claimed' \subseteq p
    BY <1>1, <1>2, ClaimsKept DEF BanksInv
<1>5. hold_refresh_pb' \subseteq Banks
    BY <1>1, Times DEF HoldNow, Heads, First, Banks, NUM_BANKS, BanksInv, Typed
<1>6. ASSUME NEW c \in CmdQueue', c \notin CmdQueue PROVE CmdOk(c)'
    <2>1. /\ p # {} /\ Min(p) \in HoldNow /\ Quiet(p) /\ c \in RefPb(p)
          /\ hold_refresh_pb' = HoldNow \ p
        BY <1>6 DEF Offered
    <2>2. Min(p) \in p /\ p \in Pairs
        BY <1>2, <2>1, MinIsIn
    <2>3. HoldNow \cap FinishedNow = {}
        BY DEF HoldNow, FinishedNow, BanksInv, Rounds
    <2>4. p \cap finish_refresh_pb' = {}
        BY <1>3, <2>1, <2>2, <2>3 DEF Rounds
    <2> QED
        BY <1>4, <2>1, <2>2, <2>4, RefPbOk
<1> QED
    BY <1>1, <1>2, <1>3, <1>4, <1>5, <1>6, BanksLooked DEF BanksInv, Typed

LEMMA ClaimIs ==
    ASSUME NEW k \in ClaimType, ~k.refreshing, NEW b
    PROVE  Claim(k, b) \in ClaimType /\ Claim(k, b).waiting /\ ~Claim(k, b).refreshing
    BY DEF Claim, ClaimType

(* A forced refresh claims its pair while nobody is being refreshed.       *)
LEMMA BanksForced ==
    ASSUME BanksInv, Looks, ~Skipped, ForceNow, NEW p \in Chosen, send_pbr' = p,
           finish_refresh_pb' = FinishedNow, Forced(p)
    PROVE  BanksInv'
<1>1. /\ p \in Pairs \cup {{}} /\ p \subseteq Banks
      /\ Claimed # {} => p = send_pbr /\ Claimed = p
      /\ ~refreshing_now => \A b \in Banks : ~refreshPerBank[b].refreshing
    BY ChosenIs
<1>2. /\ HoldNow \subseteq Banks
      /\ HoldNow \cap FinishedNow = {}
    BY Times DEF HoldNow, Heads, First, Banks, NUM_BANKS, BanksInv, Typed, Rounds, FinishedNow
<1>3. CASE ~(p # {} /\ p \cap FinishedNow = {} /\ ~refreshing_now)
    <2>1. /\ refreshPerBank' = refreshPerBank /\ CmdQueue' = CmdQueue /\ hold_refresh_pb' = HoldNow
        BY <1>3 DEF Forced
    <2>2. Rounds' /\ finish_refresh_pb' \subseteq Banks
        BY <2>1, RoundsLooked
    <2>3. Lockstep'
        BY <1>1, <2>1, ClaimsKept
    <2> QED
        BY <1>1, <1>2, <2>1, <2>2, <2>3, BanksLooked DEF BanksInv, Typed
<1>4. CASE p # {} /\ p \cap FinishedNow = {} /\ ~refreshing_now
    <2>1. /\ refreshPerBank' = [b \in Banks |-> IF b \in p THEN Claim(refreshPerBank[b], b)
                                                ELSE refreshPerBank[b]]
          /\ \/ Quiet(p) /\ CmdQueue' = CmdQueue \cup RefPb(p) /\ hold_refresh_pb' = HoldNow \ p
             \/ /\ ToClose(p) # {}
                /\ CmdQueue' = CmdQueue \cup {Cmd("PRE", Min(ToClose(p)), NoTask, 2, {})}
                /\ hold_refresh_pb' = HoldNow \cup {Min(ToClose(p))}
             \/ CmdQueue' = CmdQueue /\ hold_refresh_pb' = HoldNow
        BY <1>4 DEF Forced
    <2>2. p \in Pairs
        BY <1>1, <1>4
    <2>3. ToClose(p) # {} => Min(ToClose(p)) \in ToClose(p)
        <3>1. ToClose(p) \subseteq p
            BY DEF ToClose, Open
        <3> HIDE DEF ToClose
        <3> QED
            BY <2>2, <3>1, MinIsIn
    <2>4. ToClose(p) \subseteq {b \in p : st(b) = "RowActive" /\ CanClose(b)}
        BY DEF ToClose, Open
    <2>5. \A b \in Banks : /\ refreshPerBank[b] \in ClaimType
                           /\ ~refreshPerBank[b].refreshing
                           /\ b \notin p => ~refreshPerBank[b].waiting
        BY <1>1, <1>4 DEF BanksInv, Typed, Claimed
    <2>6. \A b \in Banks : /\ refreshPerBank'[b] \in ClaimType
                           /\ ~refreshPerBank'[b].refreshing
                           /\ refreshPerBank'[b].waiting <=> b \in p
        <3> TAKE b \in Banks
        <3>1. refreshPerBank'[b] = IF b \in p THEN Claim(refreshPerBank[b], b) ELSE refreshPerBank[b]
            BY <2>1
        <3> QED
            BY <2>5, <3>1, ClaimIs
    <2>7. refreshPerBank' \in [Banks -> ClaimType]
        BY <2>1, <2>6
    <2>8. Claimed' = p
        BY <1>1, <2>6 DEF Claimed
    <2>9. Lockstep'
        <3>1. Pairs' = Pairs
            BY PairsStay DEF Looks
        <3>2. \A b \in Banks : Refreshing(b) => refreshALL.refreshing
            BY <2>5 DEF BanksInv, Lockstep
        <3>3. InStep(p)
            BY <1>1, <3>2 DEF InStep, BanksInv, Lockstep
        <3>4. InStep(p)' /\ (InStep(Banks) => InStep(Banks)')
            BY <3>3 DEF InStep, Refreshing, Looks
        <3>5. \A b \in Banks : Refreshing(b)' <=> Refreshing(b)
            BY DEF Refreshing, Looks
        <3>6. InStep(Claimed)'
            BY <2>8, <3>4 DEF InStep
        <3> HIDE DEF Claimed, Refreshing
        <3> QED
            BY <1>1, <2>2, <2>6, <2>8, <3>1, <3>2, <3>4, <3>5, <3>6 DEF Lockstep, BanksInv, Looks
    <2>10. hold_refresh_pb' \subseteq HoldNow \cup (p \ FinishedNow)
        BY <1>4, <2>1, <2>3, <2>4
    <2>11. Rounds' /\ finish_refresh_pb' \subseteq Banks
        BY <2>10, RoundsLooked
    <2>12. ASSUME NEW c \in CmdQueue', c \notin CmdQueue PROVE CmdOk(c)'
        <3>1. CASE Quiet(p) /\ c \in RefPb(p) /\ hold_refresh_pb' = HoldNow \ p
            BY <1>4, <2>2, <2>8, <3>1, RefPbOk
        <3>2. ASSUME ToClose(p) # {}, c = Cmd("PRE", Min(ToClose(p)), NoTask, 2, {})
              PROVE  CmdOk(c)'
            <4>1. PICK b \in p : /\ b = Min(ToClose(p)) /\ st(b) = "RowActive"
                                 /\ bankStates[b].pre <= 1 /\ b \notin issue_state
                BY <2>3, <2>4, <3>2 DEF CanClose
            <4>2. c.type = "PRE" /\ c.bank = b /\ b \in Banks
                BY <1>1, <3>2, <4>1 DEF Cmd
            <4>3. issue_state = {a \in Banks : HalfDone(a)}
                BY DEF BanksInv, ActsOk, Looks
            <4>4. ~HalfDone(b)
                BY <4>1, <4>2, <4>3
            <4>5. \A t \in Tasks : Half(t) => trans[t].bank # b
                BY <4>4, TransIs, Times DEF BanksInv, Half, HalfDone, Busy
            <4>6. \A t \in Tasks : Half(t)' => trans'[t].bank # b
                BY <4>5 DEF Half, Looks
            <4>7. Limit' = 1 /\ bankStates' = bankStates
                BY DEF Limit, Looks
            <4> HIDE DEF Half, Limit
            <4> QED
                BY <4>1, <4>2, <4>6, <4>7 DEF CmdOk
        <3> QED
            BY <2>1, <2>12, <3>1, <3>2
    <2> QED
        BY <1>1, <1>2, <2>7, <2>9, <2>10, <2>11, <2>12, BanksLooked
<1> QED
    BY <1>3, <1>4

LEMMA BanksRefresh ==
    ASSUME BanksInv, Refresh
    PROVE  BanksInv'
<1>1. Looks
    BY RefreshLooks
<1>2. ASSUME ~Skipped, NEW p \in Chosen, PerBankRefresh(p) PROVE BanksInv'
    BY <1>1, <1>2, BanksForced, BanksOffered DEF PerBankRefresh
<1> QED
    BY <1>2, BanksNoPerBankRefresh DEF Refresh

LEMMA BanksInit ==
    ASSUME Init
    PROVE  BanksInv
<1>1. /\ config \in Configs /\ phase = "add" /\ CmdQueue = {}
      /\ refreshPerBank = [b \in Banks |-> [waiting |-> FALSE, pre |-> FALSE, refreshing |-> FALSE]]
      /\ finish_refresh_pb = {} /\ hold_refresh_pb = {} /\ send_pbr = {} /\ issue_state = {}
      /\ refreshALL = [waiting |-> FALSE, refreshing |-> FALSE]
      /\ sbr_gap = 0 /\ until_refi = tREFI
    BY DEF Init
<1>2. /\ 0 \in Banks /\ 0 \in RowsOr0 /\ 0 \in 0..BURSTS
    BY Times DEF Banks, NUM_BANKS, RowsOr0
<1>3. \A t \in Tasks : trans[t] = Empty
    BY DEF Init
<1>4. Empty \in TransType /\ ~Empty.on /\ ~Empty.act /\ Empty.issue = 0
    BY <1>2 DEF Empty, TransType
<1>5. ASSUME NEW b \in Banks
      PROVE  /\ bankStates[b] \in BankType /\ BusyFor(bankStates[b])
             /\ bankStates[b].state = "Idle" /\ ~bankStates[b].act
    <2>1. bankStates[b] = [state |-> "Idle", row |-> 0, act |-> FALSE, cnt |-> 0,
                           act1 |-> 0, act2 |-> 0, ref |-> 0, pre |-> 0]
        BY DEF Init
    <2> QED
        BY <1>2, <2>1 DEF BankType, States, BusyFor
<1>6. Typed
    <2>1. bankStates \in [Banks -> BankType]
        BY <1>5 DEF Init
    <2>2. trans \in [Tasks -> TransType]
        BY <1>3, <1>4 DEF Init
    <2> QED
        BY <1>1, <2>1, <2>2, Times DEF Typed, ClaimType
<1>7. BanksBusy
    BY <1>5 DEF BanksBusy
<1>8. ActsOk
    BY <1>1, <1>3, <1>4, <1>5 DEF ActsOk, Half, ActNotBroken
<1>9. Claimed = {} /\ \A b \in Banks : ~Refreshing(b)
    BY <1>1, <1>5 DEF Claimed, Refreshing
<1>10. Lockstep
    BY <1>1, <1>9 DEF Lockstep, InStep
<1>11. Rounds
    BY <1>1, FS_EmptySet DEF Rounds, PairsKept
<1>12. QueueOk
    BY <1>1 DEF QueueOk
<1> QED
    BY <1>6, <1>7, <1>8, <1>10, <1>11, <1>12 DEF BanksInv

LEMMA BanksNext ==
    ASSUME BanksInv, [Next]_vars
    PROVE  BanksInv'
<1>1. CASE UNCHANGED vars
    BY <1>1, BanksSame DEF vars, queVars, pbrVars, rankVars, Elsewhere
<1>2. CASE (\E t \in Tasks, w \in Wanted : AddTransaction(t, w)) \/ NoTransaction
    BY <1>2, BanksAdd
<1>3. CASE StateFresh
    BY <1>3, BanksStateFresh
<1>4. ASSUME NEW c \in CmdQueue,
             \/ Activate1(c) \/ Activate2(c) \/ Column(c) \/ Precharge(c) \/ PrechargeAll(c)
             \/ RefreshPair(c) \/ RefreshAll(c)
      PROVE  BanksInv'
    BY <1>4, BanksActivate1, BanksActivate2, BanksColumn, BanksPrecharge, BanksPrechargeAll,
       BanksRefreshPair, BanksRefreshAll
<1>5. CASE NothingToSchedule
    BY <1>5, BanksSame DEF NothingToSchedule, At, Then, queVars, pbrVars, rankVars, Elsewhere
<1>6. CASE QuePipeline
    BY <1>6, BanksQuePipeline
<1>7. CASE Refresh
    BY <1>7, BanksRefresh
<1> QED
    BY <1>1, <1>2, <1>3, <1>4, <1>5, <1>6, <1>7 DEF Next

(* The pairs of a round are sound: at most one pair of the rank waits for  *)
(* its refresh or refreshes, a round refreshes whole pairs, and every      *)
(* variable keeps its type, in every configuration and with any number of  *)
(* banks and transactions (the asserts of refresh,                         *)
(* MemoryController.cpp:3514-3549 and 4757).                               *)
THEOREM PairsSoundHolds == Spec => []PairsSound
<1>1. Init => BanksInv /\ OwedInv
    BY BanksInit, OwedInit, RefreshBankAssumption
<1>2. BanksInv /\ OwedInv /\ [Next]_vars => BanksInv' /\ OwedInv'
    BY BanksNext, OwedNext, RefreshBankAssumption
<1>3. BanksInv /\ OwedInv => PairsSound
    <2> SUFFICES ASSUME BanksInv, OwedInv PROVE PairsSound
        OBVIOUS
    <2>1. OnePair /\ PairsKept
        BY DEF BanksInv, Lockstep, OnePair, Rounds
    <2>2. \A t \in Tasks : /\ trans[t].bank \in Banks /\ trans[t].issue \in 0..BURSTS
                           /\ trans[t].act => trans[t].on
        BY TransIs DEF BanksInv, ActsOk
    <2>3. \A b \in Banks :
             /\ st(b) \in {"Idle", "RowActive", "Precharging", "Refreshing"}
             /\ bankStates[b].cnt > 0 <=> st(b) \in {"Precharging", "Refreshing"}
        BY BankIs DEF BanksInv, BanksBusy, BusyFor, States
    <2>4. TypeOK
        BY <2>2, <2>3 DEF BanksInv, Typed, OwedInv, CountT, TypeOK
    <2> QED
        BY <2>1, <2>4 DEF PairsSound
<1> QED
    BY <1>1, <1>2, <1>3, PTL DEF Spec
-----------------------------------------------------------------------------
(***************************************************************************)
(* Plain mode: the second bank of a pair is ready when the first is.       *)
(***************************************************************************)
Plain == /\ \A k \in Configs : ~k.enh
         /\ tRRD <= tRAS + tRP

(* What PartnerReady says of the states of two banks.                      *)
Ready(j, k) == \/ k.ref <= j.ref
               \/ j.state = "RowActive" /\ k.ref <= j.pre + tRP
               \/ k.state = "Precharging" /\ k.ref <= k.cnt

(* Both are held off for the same time, and nothing else happens to them.  *)
LEMMA ReadyBoth ==
    ASSUME NEW j \in BankType, NEW k \in BankType, Ready(j, k), NEW d \in Nat,
           NEW j1 \in BankType, NEW k1 \in BankType,
           j1.ref = later(j.ref, d), k1.ref = later(k.ref, d),
           j1.state = j.state, j1.pre = j.pre, k1.state = k.state, k1.cnt = k.cnt
    PROVE  Ready(j1, k1)
<1>1. j.ref \in Nat /\ k.ref \in Nat /\ j.pre \in Nat /\ k.cnt \in Nat
    BY DEF BankType
<1> QED
    BY <1>1, Times DEF Ready, later

LEMMA ReadyTick ==
    ASSUME NEW j \in BankType, NEW k \in BankType, BusyFor(j), BusyFor(k), Ready(j, k)
    PROVE  Ready(Tick(j), Tick(k))
<1>1. /\ j.ref \in Nat /\ k.ref \in Nat /\ j.pre \in Nat /\ k.cnt \in Nat /\ j.cnt \in Nat
      /\ j.state = "RowActive" => j.cnt # 1
    BY DEF BankType, BusyFor
<1>2. /\ Tick(j).ref = less(j.ref) /\ Tick(k).ref = less(k.ref) /\ Tick(j).pre = less(j.pre)
      /\ Tick(k).cnt = less(k.cnt)
      /\ Tick(j).state = IF j.cnt = 1 THEN "Idle" ELSE j.state
      /\ Tick(k).state = IF k.cnt = 1 THEN "Idle" ELSE k.state
    BY TickIs
<1>3. CASE k.ref <= j.ref
    BY <1>1, <1>2, <1>3 DEF Ready, less
<1>4. CASE j.state = "RowActive" /\ k.ref <= j.pre + tRP
    BY <1>1, <1>2, <1>4, Times DEF Ready, less
<1>5. CASE k.state = "Precharging" /\ k.ref <= k.cnt
    <2>1. CASE k.cnt = 1
        BY <1>1, <1>2, <1>5, <2>1 DEF Ready, less
    <2>2. CASE k.cnt # 1
        BY <1>1, <1>2, <1>5, <2>2 DEF Ready, less
    <2> QED
        BY <2>1, <2>2
<1> QED
    BY <1>3, <1>4, <1>5 DEF Ready

(* Only the time until a precharge of the first bank grows.                *)
LEMMA ReadyLater ==
    ASSUME NEW j \in BankType, NEW k \in BankType, Ready(j, k),
           NEW j1 \in BankType, NEW k1 \in BankType,
           j1.ref >= j.ref, k1.ref = k.ref, j1.state = j.state, j1.pre >= j.pre,
           k1.state = k.state, k1.cnt = k.cnt
    PROVE  Ready(j1, k1)
    BY Times DEF Ready, BankType

(* A precharge of the first bank, of the second, and of both.              *)
LEMMA ReadyPrecharge ==
    ASSUME NEW j \in BankType, NEW k \in BankType, Ready(j, k), BusyFor(k)
    PROVE  /\ j.state = "RowActive" /\ j.pre = 0 => Ready(Precharged(j), k)
           /\ k.state = "RowActive" => Ready(j, Precharged(k))
           /\ j.pre = 0 => Ready(Precharged(j), Precharged(k))
<1>1. /\ j.ref \in Nat /\ k.ref \in Nat /\ j.pre \in Nat /\ k.cnt \in Nat
      /\ k.state = "Precharging" => k.cnt <= tRP
    BY DEF BankType, BusyFor
<1>2. /\ Precharged(j).ref = later(j.ref, tRP) /\ Precharged(k).ref = later(k.ref, tRP)
      /\ Precharged(k).state = "Precharging" /\ Precharged(k).cnt = tRP
    BY PrechargedIs
<1> QED
    BY <1>1, <1>2, Times DEF Ready, later

(* A row of the first bank is opened, of the second.                       *)
LEMMA ReadyOpened ==
    ASSUME Plain, NEW j \in BankType, NEW k \in BankType, Ready(j, k), BusyFor(k),
           NEW j1 \in BankType, NEW k1 \in BankType
    PROVE  /\ /\ j.state # "RowActive" /\ j1.state = "RowActive" /\ j1.ref = j.ref
              /\ j1.pre = later(j.pre, tRAS) /\ k1.ref = later(k.ref, tRRD)
              => Ready(j1, k1)
           /\ /\ k.state = "Idle" /\ k1.ref = k.ref
              /\ j1.ref = later(j.ref, tRRD) /\ j1.state = j.state /\ j1.pre = j.pre
              => Ready(j1, k1)
<1>1. /\ j.ref \in Nat /\ k.ref \in Nat /\ j.pre \in Nat /\ k.cnt \in Nat
      /\ k.state = "Precharging" => k.cnt <= tRP
    BY DEF BankType, BusyFor
<1>2. tRRD <= tRAS + tRP
    BY DEF Plain
<1> QED
    BY <1>1, <1>2, Times DEF Ready, later
PairsReady == \A a \in First : Ready(bankStates[a], bankStates[a + PAIRS])
PairsQueued == \A c \in CmdQueue : c.type = "REFPB" => \A b \in c.pair : bankStates[b].ref <= Limit

LEMMA ReadyIs ==
    /\ ReadyInv <=> PairsReady /\ PairsQueued
    /\ ReadyInv' <=> PairsReady' /\ PairsQueued'
    BY DEF ReadyInv, PairsReady, PairsQueued, PartnerReady, Ready

LEMMA FirstTwo ==
    ASSUME NEW a \in First
    PROVE  a \in Banks /\ a + PAIRS \in Banks /\ a # a + PAIRS
    BY Times DEF First, Banks, NUM_BANKS

LEMMA TwoAre ==
    ASSUME BanksInv, BanksInv', NEW b \in Banks
    PROVE  bankStates[b] \in BankType /\ BusyFor(bankStates[b]) /\ bankStates'[b] \in BankType
    BY DEF BanksInv, Typed, BanksBusy

(* A step that holds all banks off alike, or leaves them alone.            *)
LEMMA ReadyHeldOff ==
    ASSUME BanksInv, BanksInv', PairsReady, NEW d \in Nat,
           \A a \in First, b \in Banks : b \in {a, a + PAIRS} =>
              /\ bankStates'[b].ref = later(bankStates[b].ref, d)
              /\ bankStates'[b].state = bankStates[b].state
              /\ bankStates'[b].pre = bankStates[b].pre
              /\ bankStates'[b].cnt = bankStates[b].cnt
    PROVE  PairsReady'
<1> SUFFICES ASSUME NEW a \in First
             PROVE  Ready(bankStates'[a], bankStates'[a + PAIRS])
    BY DEF PairsReady, First
<1>1. a \in Banks /\ a + PAIRS \in Banks
    BY FirstTwo
<1>2. Ready(bankStates[a], bankStates[a + PAIRS])
    BY DEF PairsReady
<1>3. /\ bankStates[a] \in BankType /\ bankStates[a + PAIRS] \in BankType
      /\ bankStates'[a] \in BankType /\ bankStates'[a + PAIRS] \in BankType
    BY <1>1, TwoAre
<1> QED
    BY <1>1, <1>2, <1>3, ReadyBoth

LEMMA ReadyStay ==
    ASSUME BanksInv, BanksInv', PairsReady, \A b \in Banks :
              /\ bankStates'[b].ref = bankStates[b].ref
              /\ bankStates'[b].state = bankStates[b].state
              /\ bankStates'[b].pre = bankStates[b].pre
              /\ bankStates'[b].cnt = bankStates[b].cnt
    PROVE  PairsReady'
<1>1. \A b \in Banks : later(bankStates[b].ref, 0) = bankStates[b].ref
    BY TwoAre DEF later, BankType
<1> QED
    BY <1>1, ReadyHeldOff

LEMMA ReadyActivate1 ==
    ASSUME BanksInv, BanksInv', PairsReady, NEW c \in CmdQueue, Activate1(c)
    PROVE  PairsReady'
<1>1. ASSUME NEW b \in Banks
      PROVE  /\ bankStates'[b].ref = bankStates[b].ref
             /\ bankStates'[b].state = bankStates[b].state
             /\ bankStates'[b].pre = bankStates[b].pre
             /\ bankStates'[b].cnt = bankStates[b].cnt
    <2>1. bankStates'[b] = IF b = c.bank THEN [bankStates[b] EXCEPT !.act = TRUE, !.act1 = later(@, tAAD)]
                           ELSE [bankStates[b] EXCEPT !.act1 = later(@, tAAD), !.act2 = later(@, tAAD)]
        BY DEF Activate1
    <2> QED
        BY <2>1, TwoAre DEF BankType
<1> QED
    BY <1>1, ReadyStay

LEMMA ReadyColumn ==
    ASSUME BanksInv, BanksInv', PairsReady, NEW c \in CmdQueue, Column(c)
    PROVE  PairsReady'
<1> SUFFICES ASSUME NEW a \in First
             PROVE  Ready(bankStates'[a], bankStates'[a + PAIRS])
    BY DEF PairsReady, First
<1>1. a \in Banks /\ a + PAIRS \in Banks
    BY FirstTwo
<1>2. ASSUME NEW b \in Banks
      PROVE  /\ bankStates'[b].ref = bankStates[b].ref
             /\ bankStates'[b].state = bankStates[b].state
             /\ bankStates'[b].cnt = bankStates[b].cnt
             /\ bankStates'[b].pre >= bankStates[b].pre
    <2>1. bankStates[b] \in BankType /\ bankStates[b].pre \in Nat
        BY TwoAre DEF BankType
    <2>2. bankStates' = [bankStates EXCEPT ![c.bank].pre = later(@, tRTP)]
        BY DEF Column
    <2>3. later(bankStates[b].pre, tRTP) >= bankStates[b].pre
        BY <2>1, Times DEF later
    <2>4. \/ bankStates'[b] = bankStates[b]
          \/ bankStates'[b] = [bankStates[b] EXCEPT !.pre = later(bankStates[b].pre, tRTP)]
        BY <2>2 DEF BanksInv, Typed
    <2> QED
        BY <2>1, <2>3, <2>4 DEF BankType
<1>3. Ready(bankStates[a], bankStates[a + PAIRS])
    BY DEF PairsReady
<1>4. /\ bankStates[a] \in BankType /\ bankStates[a + PAIRS] \in BankType
      /\ bankStates'[a] \in BankType /\ bankStates'[a + PAIRS] \in BankType
    BY <1>1, TwoAre
<1>5. bankStates'[a].ref >= bankStates[a].ref
    BY <1>1, <1>2, <1>4 DEF BankType
<1> QED
    BY <1>1, <1>2, <1>3, <1>4, <1>5, ReadyLater

LEMMA ReadyActivate2 ==
    ASSUME Plain, BanksInv, BanksInv', PairsReady, NEW c \in CmdQueue, Activate2(c)
    PROVE  PairsReady'
<1> SUFFICES ASSUME NEW a \in First
             PROVE  Ready(bankStates'[a], bankStates'[a + PAIRS])
    BY DEF PairsReady, First
<1>1. a \in Banks /\ a + PAIRS \in Banks /\ a # a + PAIRS
    BY FirstTwo
<1>2. Ready(bankStates[a], bankStates[a + PAIRS])
    BY DEF PairsReady
<1>3. \A b \in Banks : /\ bankStates[b] \in BankType /\ BusyFor(bankStates[b])
                       /\ bankStates'[b] \in BankType
    BY TwoAre
<1>4. c.bank \in Banks /\ st(c.bank) = "Idle"
    <2>1. c.type = "ACT2" /\ CmdOk(c) /\ Limit = 0
        BY Taken DEF Activate2
    <2>2. /\ c.task \in Tasks /\ c.bank = trans[c.task].bank /\ st(c.bank) # "RowActive"
          /\ bankStates[c.bank].act2 <= 0
        BY <2>1 DEF CmdOk
    <2>3. c.bank \in Banks
        BY <2>2, TransIs DEF BanksInv
    <2> QED
        BY <1>3, <2>2, <2>3 DEF BankType, BusyFor, States
<1>5. ASSUME NEW b \in Banks, b = c.bank
      PROVE  /\ bankStates'[b].state = "RowActive" /\ bankStates'[b].ref = bankStates[b].ref
             /\ bankStates'[b].pre = later(bankStates[b].pre, tRAS)
    <2>1. bankStates'[b] = [bankStates[b] EXCEPT !.state = "RowActive", !.row = trans[c.task].row,
                   !.act = FALSE, !.pre = later(@, tRAS),
                   !.act1 = later(@, tRAS + tRP - ACT_LEAD), !.act2 = later(@, tRAS + tRP)]
        BY <1>5 DEF Activate2
    <2> QED
        BY <1>3, <2>1 DEF BankType
<1>6. ASSUME NEW b \in Banks, b # c.bank
      PROVE  /\ bankStates'[b].ref = later(bankStates[b].ref, tRRD)
             /\ bankStates'[b].state = bankStates[b].state /\ bankStates'[b].pre = bankStates[b].pre
             /\ bankStates'[b].cnt = bankStates[b].cnt
    <2>1. bankStates'[b] = [bankStates[b] EXCEPT !.act1 = later(@, tRRD - ACT_LEAD),
                               !.act2 = later(@, tRRD), !.ref = later(@, tRRD)]
        BY <1>6 DEF Activate2
    <2> QED
        BY <1>3, <2>1 DEF BankType
<1>7. CASE c.bank = a
    BY <1>1, <1>2, <1>3, <1>4, <1>5, <1>6, <1>7, ReadyOpened
<1>8. CASE c.bank = a + PAIRS
    BY <1>1, <1>2, <1>3, <1>4, <1>5, <1>6, <1>8, ReadyOpened
<1>9. CASE c.bank \notin {a, a + PAIRS}
    BY <1>1, <1>2, <1>3, <1>6, <1>9, Times, ReadyBoth
<1> QED
    BY <1>7, <1>8, <1>9

LEMMA ReadyPrecharges ==
    ASSUME BanksInv, BanksInv', PairsReady, NEW c \in CmdQueue, Precharge(c) \/ PrechargeAll(c)
    PROVE  PairsReady'
<1> SUFFICES ASSUME NEW a \in First
             PROVE  Ready(bankStates'[a], bankStates'[a + PAIRS])
    BY DEF PairsReady, First
<1>1. a \in Banks /\ a + PAIRS \in Banks /\ a # a + PAIRS
    BY FirstTwo
<1>2. Ready(bankStates[a], bankStates[a + PAIRS])
    BY DEF PairsReady
<1>3. \A b \in Banks : bankStates[b] \in BankType /\ BusyFor(bankStates[b]) /\ bankStates[b].pre \in Nat
    BY TwoAre DEF BankType
<1>4. CASE Precharge(c)
    <2>1. c.type = "PRE" /\ CmdOk(c) /\ Limit = 0
        BY <1>4, Taken DEF Precharge
    <2>2. c.bank \in Banks /\ st(c.bank) = "RowActive" /\ bankStates[c.bank].pre = 0
        BY <1>3, <2>1 DEF CmdOk
    <2>3. \A b \in Banks : bankStates'[b] = IF b = c.bank THEN Precharged(bankStates[b])
                                            ELSE bankStates[b]
        BY <1>4 DEF Precharge, BanksInv, Typed
    <2> QED
        BY <1>1, <1>2, <1>3, <2>2, <2>3, ReadyPrecharge
<1>5. CASE PrechargeAll(c)
    <2>1. c.type = "PRE_AB" /\ CmdOk(c) /\ Limit = 0
        BY <1>5, Taken DEF PrechargeAll
    <2>2. \A b \in Banks : bankStates[b].pre = 0
        BY <1>3, <2>1 DEF CmdOk
    <2>3. \A b \in Banks : bankStates'[b] = Precharged(bankStates[b])
        BY <1>5 DEF PrechargeAll
    <2> QED
        BY <1>1, <1>2, <1>3, <2>2, <2>3, ReadyPrecharge
<1> QED
    BY <1>4, <1>5
LEMMA ReadyRefreshPair ==
    ASSUME BanksInv, BanksInv', ~config.enh, PairsReady, NEW c \in CmdQueue, RefreshPair(c)
    PROVE  PairsReady'
<1> SUFFICES ASSUME NEW a \in First
             PROVE  Ready(bankStates'[a], bankStates'[a + PAIRS])
    BY DEF PairsReady, First
<1>1. a \in Banks /\ a + PAIRS \in Banks /\ a # a + PAIRS
    BY FirstTwo
<1>2. Ready(bankStates[a], bankStates[a + PAIRS])
    BY DEF PairsReady
<1>3. \A b \in Banks : /\ bankStates[b] \in BankType /\ bankStates'[b] \in BankType
                       /\ bankStates[b].ref \in Nat
    BY TwoAre DEF BankType
<1>4. c.pair \in Pairs /\ \A b \in c.pair : st(b) = "Idle"
    <2>1. c.type = "REFPB" /\ CmdOk(c)
        BY Taken DEF RefreshPair
    <2> QED
        BY <2>1 DEF CmdOk
<1>5. PICK x \in First : c.pair = {x, x + PAIRS}
    BY <1>4, TwoBanks, PairOfFirst, RefreshBankAssumption
<1>6. a \in c.pair <=> a + PAIRS \in c.pair
    BY <1>5, Times DEF First
<1>7. ASSUME NEW b \in Banks, b \in c.pair
      PROVE  bankStates'[b].ref = later(bankStates[b].ref, tRFCPB)
    <2>1. bankStates'[b] = Refreshed(bankStates[b], tRFCPB)
        BY <1>7 DEF RefreshPair
    <2> QED
        <3>1. tRFCPB \in Nat \ {0} /\ bankStates[b] \in BankType
            BY <1>3, Times
        <3> QED
            BY <2>1, <3>1, RefreshedIs
<1>8. ASSUME NEW b \in Banks, b \notin c.pair
      PROVE  /\ bankStates'[b].ref = later(bankStates[b].ref, tPBR2PBR)
             /\ bankStates'[b].state = bankStates[b].state /\ bankStates'[b].pre = bankStates[b].pre
             /\ bankStates'[b].cnt = bankStates[b].cnt
    <2>1. bankStates'[b] = [bankStates[b] EXCEPT !.ref = later(@, tPBR2PBR), !.act2 = later(@, tPBR2ACT),
                                                 !.act1 = later(@, tPBR2ACT - ACT_LEAD)]
        BY <1>8 DEF RefreshPair
    <2> QED
        BY <1>3, <2>1 DEF BankType
<1>9. CASE a \in c.pair
    <2>1. st(a) = "Idle" /\ st(a + PAIRS) = "Idle"
        BY <1>4, <1>6, <1>9
    <2>2. bankStates[a + PAIRS].ref <= bankStates[a].ref
        BY <1>2, <2>1 DEF Ready
    <2>3. bankStates'[a + PAIRS].ref <= bankStates'[a].ref
        BY <1>1, <1>3, <1>6, <1>7, <1>9, <2>2, Times DEF later
    <2> QED
        BY <2>3 DEF Ready
<1>10. CASE a \notin c.pair
    BY <1>1, <1>2, <1>3, <1>6, <1>8, <1>10, Times, ReadyBoth
<1> QED
    BY <1>9, <1>10

LEMMA ReadyRefreshAll ==
    ASSUME BanksInv, BanksInv', PairsReady, NEW c \in CmdQueue, RefreshAll(c)
    PROVE  PairsReady'
<1> SUFFICES ASSUME NEW a \in First
             PROVE  Ready(bankStates'[a], bankStates'[a + PAIRS])
    BY DEF PairsReady, First
<1>1. a \in Banks /\ a + PAIRS \in Banks
    BY FirstTwo
<1>2. c.type = "REF" /\ CmdOk(c) /\ Limit = 0
    BY Taken DEF RefreshAll
<1>3. \A b \in Banks : bankStates[b] \in BankType /\ bankStates[b].ref = 0
    <2>1. \A b \in Banks : bankStates[b] \in BankType /\ bankStates[b].ref \in Nat
        BY TwoAre DEF BankType
    <2>2. \A b \in Banks : bankStates[b].ref <= 0
        BY <1>2 DEF CmdOk
    <2> QED
        BY <2>1, <2>2
<1>4. ASSUME NEW b \in Banks PROVE bankStates'[b].ref = tRFCAB
    <2>1. bankStates'[b] = Refreshed(bankStates[b], tRFCAB)
        BY DEF RefreshAll
    <2>2. bankStates'[b].ref = later(0, tRFCAB)
        BY <1>3, <2>1, Times, RefreshedIs
    <2> QED
        BY <2>2, Times DEF later
<1> QED
    BY <1>1, <1>4, Times DEF Ready

LEMMA ReadyStateFresh ==
    ASSUME BanksInv, BanksInv', ReadyInv, StateFresh
    PROVE  ReadyInv'
<1>1. /\ bankStates' = [b \in Banks |-> Tick(bankStates[b])] /\ CmdQueue' = CmdQueue
      /\ phase = "fresh" /\ phase' = "sched"
    BY DEF StateFresh, At, Then
<1>2. PairsReady'
    <2> SUFFICES ASSUME NEW a \in First
                 PROVE  Ready(bankStates'[a], bankStates'[a + PAIRS])
        BY DEF PairsReady, First
    <2>1. a \in Banks /\ a + PAIRS \in Banks
        BY FirstTwo
    <2>2. Ready(bankStates[a], bankStates[a + PAIRS])
        BY ReadyIs DEF PairsReady
    <2> QED
        BY <1>1, <2>1, <2>2, TwoAre, ReadyTick
<1>3. PairsQueued'
    <2> SUFFICES ASSUME NEW c \in CmdQueue, c.type = "REFPB", NEW b \in c.pair
                 PROVE  bankStates'[b].ref <= 0
        BY <1>1 DEF PairsQueued, Limit
    <2>1. c.pair \in Pairs /\ b \in Banks
        <3>1. CmdOk(c)
            BY DEF BanksInv, QueueOk
        <3> QED
            BY <3>1, PairsAreBanks, RefreshBankAssumption DEF CmdOk
    <2>2. bankStates[b].ref <= 1
        BY <1>1, ReadyIs DEF PairsQueued, Limit
    <2>3. bankStates[b] \in BankType /\ BusyFor(bankStates[b]) /\ bankStates[b].ref \in Nat
        BY <2>1, TwoAre DEF BankType
    <2>4. bankStates'[b].ref = less(bankStates[b].ref)
        BY <1>1, <2>1, <2>3, TickIs
    <2> QED
        BY <2>2, <2>3, <2>4 DEF less
<1> QED
    BY <1>2, <1>3, ReadyIs

LEMMA ReadyRefresh ==
    ASSUME BanksInv, BanksInv', ~config.enh, ReadyInv, Refresh
    PROVE  ReadyInv'
<1>1. Looks
    BY RefreshLooks
<1>2. PairsReady'
    BY <1>1, ReadyIs, ReadyStay DEF Looks
<1>3. ASSUME NEW c \in CmdQueue', c.type = "REFPB", c \notin CmdQueue, NEW b \in c.pair
      PROVE  bankStates[b].ref <= 1
    <2>1. c \notin AllCommand
        BY <1>3 DEF AllCommand, Cmd
    <2>2. PICK p \in Chosen : PerBankRefresh(p)
        BY <1>3, <2>1 DEF Refresh, NoPerBankRefresh
    <2>3. /\ p # {} /\ c \in RefPb(p) /\ Quiet(p)
          /\ InTime(p) \/ FirstInTime(p)
        <3>1. CASE ForceNow
            <4>1. \A b1 : c # Cmd("PRE", b1, NoTask, 2, {})
                BY <1>3 DEF Cmd
            <4> QED
                BY <1>3, <2>2, <3>1, <4>1 DEF PerBankRefresh, Forced
        <3>2. CASE ~ForceNow
            BY <1>3, <2>2, <3>2 DEF PerBankRefresh, Offered
        <3> QED
            BY <3>1, <3>2
    <2>4. c.pair = p /\ p \in Pairs
        BY <2>3, ChosenIs DEF RefPb, Cmd
    <2>5. PICK a \in First : p = {a, a + PAIRS}
        BY <2>4, TwoBanks, PairOfFirst, RefreshBankAssumption
    <2>6. /\ a \in Banks /\ a + PAIRS \in Banks
          /\ bankStates[a] \in BankType /\ bankStates[a + PAIRS] \in BankType
        BY FirstTwo, TwoAre
    <2>7. bankStates[a].ref <= 1
        BY <2>3, <2>5 DEF InTime, FirstInTime
    <2>8. Ready(bankStates[a], bankStates[a + PAIRS]) /\ st(a) = "Idle" /\ st(a + PAIRS) = "Idle"
        BY <2>3, <2>5, ReadyIs DEF PairsReady, Quiet
    <2>9. bankStates[a + PAIRS].ref <= bankStates[a].ref
        BY <2>8 DEF Ready
    <2> QED
        BY <2>4, <2>5, <2>6, <2>7, <2>9 DEF BankType
<1>4. PairsQueued'
    <2>1. Limit = 1 /\ Limit' = 1
        BY <1>1 DEF Limit, Looks
    <2> QED
        BY <1>1, <1>3, <2>1, ReadyIs DEF PairsQueued, Looks
<1> QED
    BY <1>2, <1>4, ReadyIs

LEMMA ReadyNext ==
    ASSUME Plain, BanksInv, ReadyInv, [Next]_vars
    PROVE  ReadyInv'
<1>1. BanksInv'
    BY BanksNext
<1>2. ~config.enh
    BY DEF Plain, BanksInv, Typed
<1>3. PairsReady /\ PairsQueued
    BY ReadyIs
<1>4. (ReadyInv' <=> PairsReady' /\ PairsQueued')
    BY ReadyIs
<1>5. CmdQueue' = {} => PairsQueued'
    BY DEF PairsQueued
<1>6. CASE bankStates' = bankStates /\ CmdQueue' = CmdQueue /\ Limit' = Limit
    BY <1>1, <1>3, <1>4, <1>6, ReadyStay DEF PairsQueued
<1>7. CASE UNCHANGED vars
    BY <1>6, <1>7 DEF vars, Limit
<1>8. CASE (\E t \in Tasks, w \in Wanted : AddTransaction(t, w)) \/ NoTransaction
    BY <1>6, <1>8 DEF AddTransaction, NoTransaction, At, Then, Limit
<1>9. CASE StateFresh
    BY <1>1, <1>9, ReadyStateFresh
<1>10. ASSUME NEW c \in CmdQueue,
             \/ Activate1(c) \/ Activate2(c) \/ Column(c) \/ Precharge(c) \/ PrechargeAll(c)
             \/ RefreshPair(c) \/ RefreshAll(c)
      PROVE  ReadyInv'
    <2>1. CmdQueue' = {}
        BY <1>10 DEF Activate1, Activate2, Column, Precharge, PrechargeAll, RefreshPair, RefreshAll, Take
    <2>2. PairsReady'
        BY <1>1, <1>2, <1>3, <1>10, ReadyActivate1, ReadyActivate2, ReadyColumn, ReadyPrecharges,
           ReadyRefreshPair, ReadyRefreshAll
    <2> QED
        BY <1>4, <1>5, <2>1, <2>2
<1>11. CASE NothingToSchedule
    BY <1>1, <1>3, <1>4, <1>5, <1>11, ReadyStay DEF NothingToSchedule
<1>12. CASE QuePipeline
    <2>1. PairsReady'
        BY <1>1, <1>3, <1>12, ReadyStay DEF QuePipeline
    <2>2. ASSUME NEW c \in CmdQueue' PROVE c.type # "REFPB"
        <3>1. PICK S \in SUBSET Closable :
                 CmdQueue' = {Cmd(need_issue(t), trans[t].bank, t, 0, {}) : t \in {u \in Busy : lc(u)}}
                             \cup {Cmd("PRE", b, NoTask, 1, {}) : b \in S}
            BY <1>12 DEF QuePipeline
        <3>2. CASE \E t : c = Cmd(need_issue(t), trans[t].bank, t, 0, {})
            BY <3>2 DEF Cmd, need_issue
        <3>3. CASE \E b : c = Cmd("PRE", b, NoTask, 1, {})
            BY <3>3 DEF Cmd
        <3> QED BY <3>1, <3>2, <3>3
    <2> QED
        BY <1>4, <2>1, <2>2 DEF PairsQueued
<1>13. CASE Refresh
    BY <1>1, <1>2, <1>13, ReadyRefresh
<1> QED
    BY <1>7, <1>8, <1>9, <1>10, <1>11, <1>12, <1>13 DEF Next

LEMMA ReadyInit ==
    ASSUME Init
    PROVE  ReadyInv
<1>1. \A b \in Banks : bankStates[b].ref = 0
    BY DEF Init
<1>2. PairsReady
    BY <1>1, FirstTwo DEF PairsReady, Ready
<1>3. PairsQueued
    BY DEF PairsQueued, Init
<1> QED
    BY <1>2, <1>3, ReadyIs

LEMMA LegalFollows ==
    ASSUME Plain, BanksInv, ReadyInv
    PROVE  CommandsLegal
<1>1. ActNotBroken
    BY DEF Plain, BanksInv, Typed, ActsOk
<1>2. ASSUME phase = "sched", NEW c \in CmdQueue PROVE Legal(c)
    <2>1. CmdOk(c) /\ Limit = 0
        BY <1>2 DEF BanksInv, QueueOk, Limit
    <2>2. \A b \in Banks : /\ bankStates[b] \in BankType /\ BusyFor(bankStates[b])
                           /\ st(b) \in States /\ bankStates[b].cnt \in Nat
                           /\ bankStates[b].ref \in Nat /\ bankStates[b].act2 \in Nat
        BY DEF BanksInv, Typed, BanksBusy, BankType
    <2>3. \A b \in Banks : bankStates[b].ref <= 0 \/ bankStates[b].act2 <= 0
                           => st(b) \in {"Idle", "RowActive"}
        BY <2>2 DEF BusyFor, States
    <2>4. c.type \in {"ACT1", "ACT2", "RW", "PRE", "PRE_AB", "REFPB", "REF"}
        BY <2>1 DEF CmdOk
    <2>5. c.type \in {"ACT1", "ACT2", "RW"} => c.task \in Tasks /\ c.bank = trans[c.task].bank /\ c.bank \in Banks
        BY <2>1, TransIs DEF CmdOk, BanksInv
    <2>6. CASE c.type = "ACT1"
        <3>1. st(c.bank) \in {"Idle", "Precharging", "Refreshing"}
            BY <2>1, <2>2, <2>5, <2>6 DEF CmdOk, States
        <3> QED
            BY <2>6, <3>1 DEF Legal
    <2>7. CASE c.type = "ACT2"
        <3>1. st(c.bank) = "Idle" /\ bankStates[c.bank].act
            BY <2>1, <2>3, <2>5, <2>7 DEF CmdOk, BanksInv, ActsOk
        <3> QED
            BY <2>7, <3>1 DEF Legal
    <2>8. CASE c.type \in {"RW", "PRE"}
        BY <2>1, <2>8 DEF CmdOk, Legal
    <2>9. CASE c.type = "PRE_AB"
        BY <2>1, <2>9 DEF CmdOk, Legal
    <2>10. CASE c.type = "REF"
        <3>1. \A b \in Banks : st(b) = "Idle" /\ bankStates[b].ref = 0
            BY <2>1, <2>2, <2>3, <2>10 DEF CmdOk, AnyOpen
        <3> QED
            BY <2>10, <3>1 DEF Legal
    <2>11. CASE c.type = "REFPB"
        <3>1. c.pair \subseteq Banks /\ \A b \in c.pair : st(b) = "Idle"
            BY <2>1, <2>11, PairsAreBanks, RefreshBankAssumption DEF CmdOk
        <3>2. \A b \in c.pair : bankStates[b].ref <= 0
            BY <2>1, <2>11, ReadyIs DEF PairsQueued
        <3>3. \A b \in c.pair : st(b) = "Idle" /\ bankStates[b].ref = 0
            BY <2>2, <3>1, <3>2
        <3> QED
            BY <2>11, <3>3 DEF Legal
    <2> QED
        BY <2>4, <2>6, <2>7, <2>8, <2>9, <2>10, <2>11
<1> QED
    BY <1>1, <1>2 DEF CommandsLegal, At

(* In plain per-bank refresh the scheduler sends nothing that a bank's     *)
(* timing forbids, though refresh asks for the time of the first bank of a *)
(* pair only, and never refreshes a bank between its two ACT commands      *)
(* ("Act2 must be send before refresh", MemoryController.cpp:3898).  Every *)
(* DRAM has tRRD <= tRAS + tRP; enhanced mode has no such promise.         *)
THEOREM CommandsLegalHolds ==
    ASSUME \A k \in Configs : ~k.enh, tRRD <= tRAS + tRP
    PROVE  Spec => []CommandsLegal
<1>1. Plain
    BY DEF Plain
<1>2. Init => BanksInv /\ ReadyInv
    BY BanksInit, ReadyInit
<1>3. BanksInv /\ ReadyInv /\ [Next]_vars => BanksInv' /\ ReadyInv'
    BY <1>1, BanksNext, ReadyNext
<1>4. BanksInv /\ ReadyInv => CommandsLegal
    BY <1>1, LegalFollows
<1> QED
    BY <1>2, <1>3, <1>4, PTL DEF Spec
-----------------------------------------------------------------------------
(***************************************************************************)
(* Postponed refreshes.  Once ABR_PSTPND_LEVEL are postponed, the whole    *)
(* rank is asked for: no transaction starts any more, the one half done    *)
(* sends its columns, one in each cycle, the banks half activated get their*)
(* second ACT, one every tRRD, the rows are closed and the rank is         *)
(* refreshed.  Left counts the commands that can still be sent before the  *)
(* next refresh falls due; Room says that they are enough for what is left *)
(* to do, DrainQueue that no cycle is lost.                                *)
(***************************************************************************)
(* The longest that a bank waits for its refresh, that a row opened last or*)
(* read last takes to close (or the other banks to wait for it), and that a*)
(* bank half activated waits for its second ACT.                           *)
ReadyMax == Max({tRFCPB, tRFCAB, tPBR2PBR, tRRD, tRP})
CloseMax == Max({tRAS + tRP, tRTP + tRP, tRRD})
ActMax   == Max({ACT_LEAD, tAAD, tRRD, tPBR2ACT, tRFCPB})

(* The longest that the rank takes until it can be refreshed as a whole.   *)
Acts(n) == n * tRRD
DrainTime == Max({ReadyMax, Acts(NUM_BANKS - 1) + CloseMax + Max({ActMax, BURSTS - 1})})

(* No transaction is held back between its two ACT: refreshes are forced at*)
(* once or never (SBR_REQ_MODE 0, or SBR_FRCST_NUM beyond the round).      *)
NeverHeld == \A k \in Configs : k.req = 0 \/ k.frcst >= PAIRS

Cap(k) == /\ k.ref <= ReadyMax /\ k.pre + tRP <= CloseMax
          /\ k.act2 <= k.act1 + ACT_LEAD /\ (k.act => k.act2 <= ActMax)
Capped == \A b \in Banks : Cap(bankStates[b])

(* A bank half activated has its transaction; one transaction at a time is *)
(* half done, and its next column is queued.                               *)
Acting  == {b \in Banks : bankStates[b].act}
Acted   == \A b \in Acting : \E t \in Tasks : trans[t].act /\ trans[t].bank = b
OneHalf == \A t \in Tasks : Half(t) =>
              /\ \A u \in Tasks : Half(u) => u = t
              /\ phase # "que" => Cmd("RW", trans[t].bank, t, 0, {}) \in CmdQueue
Unforced == config.req = 1 => ~force_pbr_refresh

(* What a queued command promises besides; a command for the whole rank is *)
(* alone in the queue.                                                     *)
Promise(c) ==
    /\ c.type = "ACT1" => bankStates[c.bank].act1 <= Limit
    /\ c.type = "PRE"  => c.task = NoTask \/ (c.task \in Tasks /\ trans[c.task].issue = 0)
    /\ c.type \in {"PRE_AB", "REF", "REFPB"} => c.task = NoTask
    /\ c.type \in {"PRE_AB", "REF"} => CmdQueue = {c} /\ refreshALL.waiting /\ ~refreshALL.refreshing
Promised == \A c \in CmdQueue : Promise(c)

(* While the whole rank refreshes nothing else happens.                    *)
AllQuiet == refreshALL.refreshing =>
                /\ refreshALL.waiting /\ NoActs /\ NoneHalf /\ CmdQueue = {}
                /\ \A b \in Banks : bankStates[b].ref <= bankStates[b].cnt /\ bankStates[b].cnt <= tRFCAB

(* The commands left before the next refresh falls due, and what they are  *)
(* needed for, last command first.                                         *)
Left  == IF phase \in {"que", "ref"} THEN until_refi - 1 ELSE until_refi
Ahead == IF phase = "sched" THEN 1 ELSE 0
A     == Cardinality(Acting)
Room ==
    /\ Left >= 1
    /\ \A b \in Banks : bankStates[b].ref + Ahead <= Left
    /\ AnyOpen => Left >= 1 + tRP /\ \A b \in Banks : bankStates[b].pre + tRP + Ahead <= Left
    /\ \A b \in Acting : /\ Left >= 1 + Acts(A - 1) + CloseMax
                         /\ Left >= bankStates[b].act2 + Acts(A - 1) + CloseMax + Ahead
    /\ \A t \in Tasks : Half(t) => Left >= (BURSTS - trans[t].issue) + Acts(A) + CloseMax

(* Nothing new is queued; what can be done next is queued.                 *)
DrainQueue ==
    /\ \A c \in CmdQueue : c.type \notin {"ACT1", "REFPB"} /\ (c.type = "RW" => Half(c.task))
    /\ \A b \in Acting : bankStates[b].act2 <= Limit => \E c \in CmdQueue : c.type = "ACT2"
    /\ phase # "ref" /\ NoActs /\ NoneHalf =>
          /\ AnyOpen /\ (\A b \in Banks : bankStates[b].pre <= Limit) => \E c \in CmdQueue : c.type = "PRE_AB"
          /\ ~AnyOpen /\ (\A b \in Banks : bankStates[b].ref <= Limit) => \E c \in CmdQueue : c.type = "REF"

(* With the last refresh that may be postponed: the rank refreshes, the    *)
(* next one has just fallen due, the refresh of the rank has just ended, or*)
(* the rank is being emptied.                                              *)
InRefresh == refreshALL.refreshing /\ \A b \in Banks : bankStates[b].cnt + 1 + Ahead <= Left
JustDue == /\ ~refreshALL.refreshing /\ refreshALL.waiting
           /\ phase \in {"add", "fresh", "sched"} /\ until_refi = tREFI
JustRefreshed == /\ ~refreshALL.refreshing /\ ~refreshALL.waiting /\ phase \in {"sched", "que", "ref"}
                 /\ NoActs /\ NoneHalf /\ ~AnyOpen /\ (\A b \in Banks : bankStates[b].ref = 0)
                 /\ Left >= 1 + Ahead /\ (phase = "sched" => CmdQueue = {})
Draining == ~refreshALL.refreshing /\ refreshALL.waiting /\ Room /\ (phase # "que" => DrainQueue)

LevelInv == /\ refresh_cnt <= ABR_PSTPND_LEVEL
            /\ refresh_cnt = ABR_PSTPND_LEVEL =>
                  /\ ~refresh_pbr_has_finish
                  /\ InRefresh \/ JustDue \/ JustRefreshed \/ Draining
Calm == Capped /\ Acted /\ OneHalf /\ Unforced /\ Promised /\ AllQuiet
(* Max is CHOOSE: it is one of the values, and none is above it.           *)
LEMMA MaxIs ==
    ASSUME NEW a \in Int, NEW b \in Int, NEW c \in Int, NEW d \in Int, NEW e \in Int
    PROVE  /\ Max({a, b, c, d, e}) \in {a, b, c, d, e}
           /\ \A x \in {a, b, c, d, e} : x <= Max({a, b, c, d, e})
<1> DEFINE S == {a, b, c, d, e}
<1>1. \E x \in S : \A y \in S : x >= y
    <2>1. PICK m \in S : (m = a \/ m = b) /\ m >= a /\ m >= b
        <3>1. CASE a >= b
            BY <3>1
        <3>2. CASE b >= a
            BY <3>2
        <3> QED
            BY <3>1, <3>2
    <2>2. PICK n \in S : (n = m \/ n = c) /\ n >= m /\ n >= c
        <3>1. CASE m >= c
            BY <2>1, <3>1
        <3>2. CASE c >= m
            BY <2>1, <3>2
        <3> QED
            BY <2>1, <3>1, <3>2
    <2>3. PICK o \in S : (o = n \/ o = d) /\ o >= n /\ o >= d
        <3>1. CASE n >= d
            BY <2>2, <3>1
        <3>2. CASE d >= n
            BY <2>2, <3>2
        <3> QED
            BY <2>2, <3>1, <3>2
    <2>4. PICK q \in S : (q = o \/ q = e) /\ q >= o /\ q >= e
        <3>1. CASE o >= e
            BY <2>3, <3>1
        <3>2. CASE e >= o
            BY <2>3, <3>2
        <3> QED
            BY <2>3, <3>1, <3>2
    <2>5. q >= a /\ q >= b /\ q >= c /\ q >= d /\ q >= e
        BY <2>1, <2>2, <2>3, <2>4
    <2> QED
        BY <2>4, <2>5
<1>2. Max(S) \in S /\ \A y \in S : Max(S) >= y
    BY <1>1, Zenon DEF Max
<1>3. S \subseteq Int
    OBVIOUS
<1> QED
    BY <1>2, <1>3

LEMMA MaxOfThree ==
    ASSUME NEW a \in Int, NEW b \in Int, NEW c \in Int
    PROVE  Max({a, b, c}) \in Int /\ a <= Max({a, b, c}) /\ b <= Max({a, b, c}) /\ c <= Max({a, b, c})
<1>1. {a, b, c} = {a, b, c, c, c}
    OBVIOUS
<1>2. PICK m : m = Max({a, b, c})
    OBVIOUS
<1>3. m = Max({a, b, c, c, c})
    BY <1>1, <1>2
<1>4. m \in {a, b, c, c, c} /\ \A x \in {a, b, c, c, c} : x <= m
    BY <1>3, MaxIs
<1> QED
    BY <1>2, <1>4

LEMMA MaxOfTwo ==
    ASSUME NEW a \in Int, NEW b \in Int
    PROVE  Max({a, b}) \in Int /\ a <= Max({a, b}) /\ b <= Max({a, b})
<1>1. {a, b} = {a, b, b}
    OBVIOUS
<1> QED
    BY <1>1, MaxOfThree

LEMMA ActsIs ==
    /\ \A n \in Nat : Acts(n) \in Nat /\ Acts(n + 1) = Acts(n) + tRRD
    /\ \A m, n \in Nat : m <= n => Acts(m) <= Acts(n)
<1>1. tRRD \in Nat
    BY Times
<1>2. ASSUME NEW n \in Nat PROVE Acts(n) \in Nat /\ Acts(n + 1) = Acts(n) + tRRD
    BY <1>1 DEF Acts
<1>3. ASSUME NEW m \in Nat, NEW n \in Nat, m <= n PROVE Acts(m) <= Acts(n)
    <2>1. PICK d \in Nat : n = m + d
        <3>1. n - m \in Nat /\ n = m + (n - m)
            BY <1>3
        <3> QED
            BY <3>1
    <2>2. (m + d) * tRRD = m * tRRD + d * tRRD /\ d * tRRD >= 0 /\ m * tRRD \in Int /\ d * tRRD \in Int
        BY <1>1, SMT
    <2> QED
        BY <2>1, <2>2 DEF Acts
<1> QED
    BY <1>2, <1>3

(* What the longest times are longer than.                                 *)
LEMMA Longest ==
    /\ ReadyMax \in Int /\ CloseMax \in Int /\ ActMax \in Int
    /\ tRFCPB <= ReadyMax /\ tRFCAB <= ReadyMax /\ tPBR2PBR <= ReadyMax /\ tRRD <= ReadyMax /\ tRP <= ReadyMax
    /\ tRAS + tRP <= CloseMax /\ tRTP + tRP <= CloseMax /\ tRRD <= CloseMax
    /\ ACT_LEAD <= ActMax /\ tAAD <= ActMax /\ tRRD <= ActMax /\ tPBR2ACT <= ActMax /\ tRFCPB <= ActMax
<1>1. /\ {tRFCPB, tRFCAB, tPBR2PBR, tRRD, tRP} \subseteq Int /\ {ACT_LEAD, tAAD, tPBR2ACT} \subseteq Int
      /\ tRAS + tRP \in Int /\ tRTP + tRP \in Int
    BY Times
<1>2. ReadyMax \in Int /\ \A x \in {tRFCPB, tRFCAB, tPBR2PBR, tRRD, tRP} : x <= ReadyMax
    <2>1. ReadyMax \in {tRFCPB, tRFCAB, tPBR2PBR, tRRD, tRP}
        BY <1>1, MaxIs DEF ReadyMax
    <2> QED
        BY <1>1, <2>1, MaxIs DEF ReadyMax
<1>3. CloseMax \in Int /\ tRAS + tRP <= CloseMax /\ tRTP + tRP <= CloseMax /\ tRRD <= CloseMax
    BY <1>1, MaxOfThree DEF CloseMax
<1>4. ActMax \in Int /\ \A x \in {ACT_LEAD, tAAD, tRRD, tPBR2ACT, tRFCPB} : x <= ActMax
    <2>1. ActMax \in {ACT_LEAD, tAAD, tRRD, tPBR2ACT, tRFCPB}
        BY <1>1, MaxIs DEF ActMax
    <2> QED
        BY <1>1, <2>1, MaxIs DEF ActMax
<1> QED
    BY <1>2, <1>3, <1>4

(* There is time to refresh the rank before the next refresh is due.       *)
LEMMA InTimeFor ==
    ASSUME DrainTime < tREFI
    PROVE  /\ ReadyMax < tREFI
           /\ Acts(NUM_BANKS - 1) + CloseMax + ActMax < tREFI
           /\ Acts(NUM_BANKS - 1) + CloseMax + (BURSTS - 1) < tREFI
<1>1. NUM_BANKS - 1 \in Nat /\ Acts(NUM_BANKS - 1) \in Int
    BY Times, ActsIs DEF NUM_BANKS
<1>2. ActMax \in Int /\ BURSTS - 1 \in Int /\ CloseMax \in Int /\ ReadyMax \in Int /\ tREFI \in Int
    BY Times, Longest
<1>3. PICK m : m = Max({ActMax, BURSTS - 1})
    OBVIOUS
<1>5. m \in Int /\ ActMax <= m /\ BURSTS - 1 <= m
    BY <1>2, <1>3, MaxOfTwo
<1>6. PICK s \in Int : s = Acts(NUM_BANKS - 1) + CloseMax + m
    BY <1>1, <1>2, <1>5
<1>7. DrainTime = Max({ReadyMax, s})
    BY <1>3, <1>6 DEF DrainTime
<1>8. ReadyMax <= DrainTime /\ s <= DrainTime /\ DrainTime \in Int
    BY <1>2, <1>7, MaxOfTwo
<1> QED
    BY <1>1, <1>2, <1>5, <1>6, <1>8
-----------------------------------------------------------------------------
(* What each command does to the countdowns of a bank.                     *)
LEMMA AfterActivate1 ==
    ASSUME BanksInv, NEW c \in CmdQueue, Activate1(c), NEW b \in Banks
    PROVE  LET k == bankStates[b]  j == bankStates'[b]
           IN  /\ j.state = k.state /\ j.cnt = k.cnt /\ j.ref = k.ref /\ j.pre = k.pre
               /\ j.act <=> (k.act \/ b = c.bank)
               /\ j.act1 = later(k.act1, tAAD)
               /\ j.act2 = IF b = c.bank THEN k.act2 ELSE later(k.act2, tAAD)
<1>1. PICK k \in BankType : k = bankStates[b]
    BY BankIs DEF BanksInv
<1>2. /\ b = c.bank => bankStates'[b] = [k EXCEPT !.act = TRUE, !.act1 = later(k.act1, tAAD)]
      /\ b # c.bank => bankStates'[b] = [k EXCEPT !.act1 = later(k.act1, tAAD), !.act2 = later(k.act2, tAAD)]
    BY <1>1 DEF Activate1
<1> QED
    BY <1>1, <1>2 DEF BankType

LEMMA AfterActivate2 ==
    ASSUME BanksInv, NEW c \in CmdQueue, Activate2(c), NEW b \in Banks
    PROVE  LET k == bankStates[b]  j == bankStates'[b]
           IN  /\ j.cnt = k.cnt
               /\ j.act <=> (k.act /\ b # c.bank)
               /\ b = c.bank => /\ j.state = "RowActive" /\ j.ref = k.ref /\ j.pre = later(k.pre, tRAS)
                                /\ j.act1 = later(k.act1, tRAS + tRP - ACT_LEAD)
                                /\ j.act2 = later(k.act2, tRAS + tRP)
               /\ b # c.bank => /\ j.state = k.state /\ j.ref = later(k.ref, tRRD) /\ j.pre = k.pre
                                /\ j.act1 = later(k.act1, tRRD - ACT_LEAD)
                                /\ j.act2 = later(k.act2, tRRD)
<1>1. PICK k \in BankType : k = bankStates[b]
    BY BankIs DEF BanksInv
<1>2. /\ b = c.bank => bankStates'[b] = [k EXCEPT !.state = "RowActive", !.row = trans[c.task].row,
                   !.act = FALSE, !.pre = later(k.pre, tRAS),
                   !.act1 = later(k.act1, tRAS + tRP - ACT_LEAD), !.act2 = later(k.act2, tRAS + tRP)]
      /\ b # c.bank => bankStates'[b] = [k EXCEPT !.act1 = later(k.act1, tRRD - ACT_LEAD),
                   !.act2 = later(k.act2, tRRD), !.ref = later(k.ref, tRRD)]
    BY <1>1 DEF Activate2
<1> QED
    BY <1>1, <1>2 DEF BankType

LEMMA AfterColumn ==
    ASSUME BanksInv, NEW c \in CmdQueue, Column(c), NEW b \in Banks
    PROVE  LET k == bankStates[b]  j == bankStates'[b]
           IN  /\ j.state = k.state /\ j.cnt = k.cnt /\ j.ref = k.ref /\ (j.act <=> k.act)
               /\ j.act1 = k.act1 /\ j.act2 = k.act2
               /\ j.pre = IF b = c.bank THEN later(k.pre, tRTP) ELSE k.pre
<1>1. PICK k \in BankType : k = bankStates[b]
    BY BankIs DEF BanksInv
<1>2. bankStates \in [Banks -> BankType]
    BY DEF BanksInv, Typed
<1>3. /\ b = c.bank => bankStates'[b] = [k EXCEPT !.pre = later(k.pre, tRTP)]
      /\ b # c.bank => bankStates'[b] = k
    BY <1>1, <1>2 DEF Column
<1> QED
    BY <1>1, <1>3 DEF BankType

(* Closing and refreshing, of some banks or all.                           *)
LEMMA AfterPrecharged ==
    ASSUME NEW k \in BankType
    PROVE  LET j == Precharged(k)
           IN  /\ j.state = "Precharging" /\ j.cnt = tRP /\ (j.act <=> k.act) /\ j.pre = k.pre
               /\ j.ref = later(k.ref, tRP) /\ j.act2 = later(k.act2, tRP)
               /\ j.act1 = later(k.act1, tRP - ACT_LEAD)
    BY DEF Precharged, BankType

LEMMA AfterRefreshed ==
    ASSUME NEW k \in BankType, NEW d
    PROVE  LET j == Refreshed(k, d)
           IN  /\ j.state = "Refreshing" /\ j.cnt = d /\ (j.act <=> k.act) /\ j.pre = k.pre
               /\ j.ref = later(k.ref, d) /\ j.act2 = later(k.act2, d)
               /\ j.act1 = later(k.act1, d - ACT_LEAD)
    BY DEF Refreshed, BankType

LEMMA AfterHeldOff ==
    ASSUME BanksInv, NEW c \in CmdQueue, RefreshPair(c), NEW b \in Banks
    PROVE  IF b \in c.pair THEN bankStates'[b] = Refreshed(bankStates[b], tRFCPB)
           ELSE LET k == bankStates[b]  j == bankStates'[b]
                IN  /\ j.state = k.state /\ j.cnt = k.cnt /\ (j.act <=> k.act) /\ j.pre = k.pre
                    /\ j.ref = later(k.ref, tPBR2PBR) /\ j.act2 = later(k.act2, tPBR2ACT)
                    /\ j.act1 = later(k.act1, tPBR2ACT - ACT_LEAD)
<1>1. PICK k \in BankType : k = bankStates[b]
    BY BankIs DEF BanksInv
<1>2. /\ b \in c.pair => bankStates'[b] = Refreshed(k, tRFCPB)
      /\ b \notin c.pair => bankStates'[b] = [k EXCEPT !.ref = later(k.ref, tPBR2PBR), !.act2 = later(k.act2, tPBR2ACT),
                                     !.act1 = later(k.act1, tPBR2ACT - ACT_LEAD)]
    BY <1>1 DEF RefreshPair
<1> QED
    BY <1>1, <1>2 DEF BankType

LEMMA AfterFresh ==
    ASSUME BanksInv, StateFresh, NEW b \in Banks
    PROVE  LET k == bankStates[b]  j == bankStates'[b]
           IN  /\ j.cnt = less(k.cnt) /\ j.ref = less(k.ref) /\ j.pre = less(k.pre) /\ (j.act <=> k.act)
               /\ j.act1 = less(k.act1) /\ j.act2 = less(k.act2)
               /\ j.state = (IF k.cnt = 1 THEN "Idle" ELSE k.state)
               /\ j.state = "RowActive" <=> k.state = "RowActive"
<1>1. PICK k \in BankType : k = bankStates[b]
    BY BankIs DEF BanksInv
<1>2. bankStates'[b] = Tick(k) /\ BusyFor(k)
    BY <1>1 DEF StateFresh, BanksInv, BanksBusy
<1>3. Tick(k).act1 = less(k.act1)
    BY DEF Tick, BankType
<1>4. k.cnt = 1 => k.state # "RowActive"
    BY <1>2 DEF BusyFor
<1> QED
    BY <1>1, <1>2, <1>3, <1>4, TickIs

(* The promise of CapS about a bank: every bank keeps within the longest   *)
(* times.                                                                  *)
LEMMA CapsIs ==
    ASSUME BanksInv, NEW b \in Banks
    PROVE  /\ bankStates[b].act1 \in Nat /\ bankStates[b].act2 \in Nat /\ bankStates[b].ref \in Nat
           /\ bankStates[b].pre \in Nat /\ bankStates[b].act \in BOOLEAN /\ bankStates[b].cnt \in Nat
    BY BankIs DEF BanksInv

LEMMA CappedActivate1 ==
    ASSUME BanksInv, Capped, Promised, NEW c \in CmdQueue, Activate1(c)
    PROVE  Capped'
<1>1. CmdOk(c) /\ Limit = 0 /\ c.type = "ACT1" /\ Promise(c)
    BY Taken DEF Activate1, Promised
<1>2. bankStates[c.bank].act1 <= 0
    BY <1>1 DEF Promise
<1>3. ASSUME NEW b \in Banks PROVE Cap(bankStates'[b])
    <2>0. PICK k, j : k = bankStates[b] /\ j = bankStates'[b]
        OBVIOUS
    <2>1. /\ j.ref = k.ref /\ j.pre = k.pre
          /\ j.act <=> (k.act \/ b = c.bank)
          /\ j.act1 = later(k.act1, tAAD)
          /\ j.act2 = IF b = c.bank THEN k.act2 ELSE later(k.act2, tAAD)
        BY <2>0, AfterActivate1
    <2>2. Cap(k)
        BY <2>0 DEF Capped
    <2>3. k.act1 \in Nat /\ k.act2 \in Nat
        BY <2>0, CapsIs
    <2>4. b = c.bank => k.act1 <= 0
        BY <1>2, <2>0
    <2>5. Cap(j)
        BY <2>1, <2>2, <2>3, <2>4, Times, Longest DEF Cap, later
    <2> QED
        BY <2>0, <2>5
<1> QED
    BY <1>3 DEF Capped

LEMMA CappedActivate2 ==
    ASSUME BanksInv, Capped, NEW c \in CmdQueue, Activate2(c)
    PROVE  Capped'
<1>1. ASSUME NEW b \in Banks PROVE Cap(bankStates'[b])
    <2>0. PICK k, j : k = bankStates[b] /\ j = bankStates'[b]
        OBVIOUS
    <2>1. /\ j.act <=> (k.act /\ b # c.bank)
          /\ b = c.bank => /\ j.ref = k.ref /\ j.pre = later(k.pre, tRAS)
                           /\ j.act1 = later(k.act1, tRAS + tRP - ACT_LEAD)
                           /\ j.act2 = later(k.act2, tRAS + tRP)
          /\ b # c.bank => /\ j.ref = later(k.ref, tRRD) /\ j.pre = k.pre
                           /\ j.act1 = later(k.act1, tRRD - ACT_LEAD)
                           /\ j.act2 = later(k.act2, tRRD)
        BY <2>0, AfterActivate2
    <2>2. Cap(k)
        BY <2>0 DEF Capped
    <2>3. k.act1 \in Nat /\ k.act2 \in Nat /\ k.ref \in Nat /\ k.pre \in Nat
        BY <2>0, CapsIs
    <2>4. b = c.bank => Cap(j)
        BY <2>1, <2>2, <2>3, Times, Longest DEF Cap, later
    <2>5. b # c.bank => Cap(j)
        BY <2>1, <2>2, <2>3, Times, Longest DEF Cap, later
    <2> QED
        BY <2>0, <2>4, <2>5
<1> QED
    BY <1>1 DEF Capped

LEMMA CappedColumn ==
    ASSUME BanksInv, Capped, NEW c \in CmdQueue, Column(c)
    PROVE  Capped'
<1>1. ASSUME NEW b \in Banks PROVE Cap(bankStates'[b])
    <2>0. PICK k, j : k = bankStates[b] /\ j = bankStates'[b]
        OBVIOUS
    <2>1. /\ j.ref = k.ref /\ (j.act <=> k.act) /\ j.act1 = k.act1 /\ j.act2 = k.act2
          /\ j.pre = IF b = c.bank THEN later(k.pre, tRTP) ELSE k.pre
        BY <2>0, AfterColumn
    <2>2. Cap(k)
        BY <2>0 DEF Capped
    <2>3. k.pre \in Nat
        BY <2>0, CapsIs
    <2>4. Cap(j)
        BY <2>1, <2>2, <2>3, Times, Longest DEF Cap, later
    <2> QED
        BY <2>0, <2>4
<1> QED
    BY <1>1 DEF Capped

LEMMA CapClosed ==
    ASSUME NEW k \in BankType, Cap(k), ~k.act
    PROVE  Cap(Precharged(k))
<1>1. k.act1 \in Nat /\ k.act2 \in Nat /\ k.ref \in Nat /\ k.pre \in Nat
    BY DEF BankType
<1>2. PICK j : j = Precharged(k)
    OBVIOUS
<1>3. /\ (j.act <=> k.act) /\ j.pre = k.pre /\ j.ref = later(k.ref, tRP)
      /\ j.act2 = later(k.act2, tRP) /\ j.act1 = later(k.act1, tRP - ACT_LEAD)
    BY <1>2, AfterPrecharged
<1>4. Cap(j)
    BY <1>1, <1>3, Times, Longest DEF Cap, later
<1> QED
    BY <1>2, <1>4

LEMMA CapRefreshed ==
    ASSUME NEW k \in BankType, Cap(k), NEW d \in Nat, d <= ReadyMax,
           k.act => d <= ActMax
    PROVE  Cap(Refreshed(k, d))
<1>1. k.act1 \in Nat /\ k.act2 \in Nat /\ k.ref \in Nat /\ k.pre \in Nat
    BY DEF BankType
<1>2. PICK j : j = Refreshed(k, d)
    OBVIOUS
<1>3. /\ (j.act <=> k.act) /\ j.pre = k.pre /\ j.ref = later(k.ref, d)
      /\ j.act2 = later(k.act2, d) /\ j.act1 = later(k.act1, d - ACT_LEAD)
    BY <1>2, AfterRefreshed
<1>4. Cap(j)
    BY <1>1, <1>3, Times, Longest DEF Cap, later
<1> QED
    BY <1>2, <1>4

LEMMA CappedCloses ==
    ASSUME BanksInv, Capped, NEW c \in CmdQueue, Precharge(c) \/ PrechargeAll(c)
    PROVE  Capped'
<1>1. CmdOk(c)
    BY Taken DEF Precharge, PrechargeAll
<1>2. ASSUME NEW b \in Banks PROVE Cap(bankStates'[b])
    <2>1. bankStates[b] \in BankType /\ Cap(bankStates[b]) /\ bankStates \in [Banks -> BankType]
        BY BankIs DEF Capped, BanksInv, Typed
    <2>2. CASE Precharge(c)
        <3>1. c.bank \in Banks /\ ~bankStates[c.bank].act
            BY <1>1, <2>2 DEF Precharge, CmdOk, BanksInv, ActsOk
        <3>2. bankStates'[b] = IF b = c.bank THEN Precharged(bankStates[b]) ELSE bankStates[b]
            BY <2>1, <2>2, <3>1 DEF Precharge
        <3> QED
            BY <2>1, <3>1, <3>2, CapClosed
    <2>3. CASE PrechargeAll(c)
        <3>1. ~bankStates[b].act
            BY <1>1, <2>3 DEF PrechargeAll, CmdOk, NoActs
        <3>2. bankStates'[b] = Precharged(bankStates[b])
            BY <2>3 DEF PrechargeAll
        <3> QED
            BY <2>1, <3>1, <3>2, CapClosed
    <2> QED
        BY <2>2, <2>3
<1> QED
    BY <1>2 DEF Capped

LEMMA CappedRefreshes ==
    ASSUME BanksInv, Capped, NEW c \in CmdQueue, RefreshPair(c) \/ RefreshAll(c)
    PROVE  Capped'
<1>1. CmdOk(c)
    BY Taken DEF RefreshPair, RefreshAll
<1>2. ASSUME NEW b \in Banks PROVE Cap(bankStates'[b])
    <2>1. bankStates[b] \in BankType /\ Cap(bankStates[b])
        BY BankIs DEF Capped, BanksInv
    <2>2. CASE RefreshPair(c)
        <3>1. CASE b \in c.pair
            <4>1. bankStates'[b] = Refreshed(bankStates[b], tRFCPB)
                BY <2>2, <3>1, AfterHeldOff
            <4> QED
                BY <2>1, <4>1, CapRefreshed, Times, Longest
        <3>2. CASE b \notin c.pair
            <4>0. PICK k, j : k = bankStates[b] /\ j = bankStates'[b]
                OBVIOUS
            <4>1. /\ (j.act <=> k.act) /\ j.pre = k.pre
                  /\ j.ref = later(k.ref, tPBR2PBR) /\ j.act2 = later(k.act2, tPBR2ACT)
                  /\ j.act1 = later(k.act1, tPBR2ACT - ACT_LEAD)
                BY <2>2, <3>2, <4>0, AfterHeldOff
            <4>2. k.act1 \in Nat /\ k.act2 \in Nat /\ k.ref \in Nat /\ Cap(k)
                BY <2>1, <4>0, CapsIs
            <4>3. Cap(j)
                BY <4>1, <4>2, Times, Longest DEF Cap, later
            <4> QED
                BY <4>0, <4>3
        <3> QED
            BY <3>1, <3>2
    <2>3. CASE RefreshAll(c)
        <3>1. ~bankStates[b].act
            BY <1>1, <2>3 DEF RefreshAll, CmdOk, NoActs
        <3>2. bankStates'[b] = Refreshed(bankStates[b], tRFCAB)
            BY <2>3 DEF RefreshAll
        <3> QED
            BY <2>1, <3>1, <3>2, CapRefreshed, Times, Longest
    <2> QED
        BY <2>2, <2>3
<1> QED
    BY <1>2 DEF Capped

LEMMA CappedStateFresh ==
    ASSUME BanksInv, Capped, StateFresh
    PROVE  Capped'
<1>1. ASSUME NEW b \in Banks PROVE Cap(bankStates'[b])
    <2>0. PICK k, j : k = bankStates[b] /\ j = bankStates'[b]
        OBVIOUS
    <2>1. /\ j.ref = less(k.ref) /\ j.pre = less(k.pre) /\ (j.act <=> k.act)
          /\ j.act1 = less(k.act1) /\ j.act2 = less(k.act2)
        BY <2>0, AfterFresh
    <2>2. k.act1 \in Nat /\ k.act2 \in Nat /\ k.ref \in Nat /\ k.pre \in Nat /\ Cap(k)
        BY <2>0, CapsIs DEF Capped
    <2>3. Cap(j)
        BY <2>1, <2>2, Times, Longest DEF Cap, less
    <2> QED
        BY <2>0, <2>3
<1> QED
    BY <1>1 DEF Capped
-----------------------------------------------------------------------------
(* Whoever has begun goes first, and sends a column.                       *)
LEMMA BegunFirst ==
    ASSUME BanksInv, Calm, phase = "sched", NEW t \in Tasks, Half(t), NEW c \in CmdQueue, Take(c)
    PROVE  c.type = "RW" /\ c.task = t
<1>1. t # NoTask
    BY RefreshBankAssumption DEF RefreshBankAssumption
<1>2. Cmd("RW", trans[t].bank, t, 0, {}) \in Begun
    BY <1>1, Times DEF Calm, OneHalf, Half, Begun, Cmd
<1>3. c.task # NoTask /\ trans[c.task].issue > 0
    BY <1>2 DEF Take, Candidates, Begun
<1>4. CmdOk(c) /\ Promise(c)
    BY DEF Calm, Promised, BanksInv, QueueOk
<1>5. c.type \in {"ACT1", "ACT2", "RW"}
    BY <1>3, <1>4 DEF CmdOk, Promise
<1>6. /\ c.task \in Tasks /\ trans[c.task].on /\ trans[c.task].issue < BURSTS
    BY <1>4, <1>5 DEF CmdOk
<1>7. Half(c.task) /\ trans[c.task].issue # 0
    BY <1>3, <1>6, TransIs, Times DEF Half, BanksInv
<1>8. c.type = "RW"
    BY <1>4, <1>5, <1>6, <1>7 DEF CmdOk, BanksInv, ActsOk
<1> QED
    BY <1>6, <1>7, <1>8 DEF Calm, OneHalf

(* A command leaves the queue empty.                                       *)
LEMMA CalmAfter ==
    ASSUME Calm, CmdQueue' = {}, phase' = "que", Capped', Acted',
           UNCHANGED <<config, force_pbr_refresh>>,
           \A t, u \in Tasks : Half(t)' /\ Half(u)' => t = u,
           refreshALL'.refreshing => AllQuiet'
    PROVE  Calm'
<1>1. OneHalf'
    BY DEF OneHalf
<1>2. Unforced' /\ Promised'
    BY DEF Calm, Unforced, Promised
<1>3. AllQuiet'
    BY DEF AllQuiet
<1> QED
    BY <1>1, <1>2, <1>3 DEF Calm

LEMMA NotRefreshing ==
    ASSUME Calm, NEW c \in CmdQueue
    PROVE  ~refreshALL.refreshing
    BY DEF Calm, AllQuiet

LEMMA CalmActivate1 ==
    ASSUME BanksInv, Calm, NEW c \in CmdQueue, Activate1(c)
    PROVE  Calm'
<1>1. /\ CmdOk(c) /\ phase' = "que" /\ CmdQueue' = {} /\ c.type = "ACT1"
      /\ UNCHANGED <<config, force_pbr_refresh, refreshALL>>
    BY Taken DEF Activate1, pbrVars, rankVars
<1>2. c.task \in Tasks /\ c.bank = trans[c.task].bank
    BY <1>1 DEF CmdOk
<1>3. \A t \in Tasks : /\ (trans'[t].on <=> trans[t].on) /\ trans'[t].bank = trans[t].bank
                       /\ trans'[t].issue = trans[t].issue
                       /\ trans'[t].act <=> (t = c.task \/ trans[t].act)
    BY <1>2, TransIs DEF Activate1, BanksInv, Typed, TransType
<1>4. Acted'
    <2>1. \A b \in Acting' : b \in Acting \/ b = c.bank
        BY AfterActivate1 DEF Acting
    <2> QED
        BY <1>2, <1>3, <2>1 DEF Calm, Acted
<1>5. \A t \in Tasks : Half(t)' <=> Half(t)
    BY <1>3 DEF Half
<1>6. Capped'
    BY CappedActivate1 DEF Calm
<1>7. \A t, u \in Tasks : Half(t)' /\ Half(u)' => t = u
    BY <1>5 DEF Calm, OneHalf
<1> QED
    BY <1>1, <1>4, <1>6, <1>7, CalmAfter, NotRefreshing

LEMMA CalmActivate2 ==
    ASSUME BanksInv, Calm, NEW c \in CmdQueue, Activate2(c)
    PROVE  Calm'
<1>1. /\ CmdOk(c) /\ phase' = "que" /\ CmdQueue' = {} /\ c.type = "ACT2"
      /\ UNCHANGED <<config, force_pbr_refresh, refreshALL>>
    BY Taken DEF Activate2, pbrVars, rankVars
<1>2. c.task \in Tasks /\ c.bank = trans[c.task].bank
    BY <1>1 DEF CmdOk
<1>3. \A t \in Tasks : /\ (trans'[t].on <=> trans[t].on) /\ trans'[t].bank = trans[t].bank
                       /\ trans'[t].issue = trans[t].issue
                       /\ trans'[t].act <=> (t # c.task /\ trans[t].act)
    BY <1>2, TransIs DEF Activate2, BanksInv, Typed, TransType
<1>4. Acted'
    <2>1. \A b \in Acting' : b \in Acting /\ b # c.bank
        BY AfterActivate2 DEF Acting
    <2> QED
        BY <1>2, <1>3, <2>1 DEF Calm, Acted
<1>5. \A t \in Tasks : Half(t)' <=> Half(t)
    BY <1>3 DEF Half
<1>6. Capped'
    BY CappedActivate2 DEF Calm
<1>7. \A t, u \in Tasks : Half(t)' /\ Half(u)' => t = u
    BY <1>5 DEF Calm, OneHalf
<1> QED
    BY <1>1, <1>4, <1>6, <1>7, CalmAfter, NotRefreshing

LEMMA CalmColumn ==
    ASSUME BanksInv, Calm, NEW c \in CmdQueue, Column(c)
    PROVE  Calm'
<1>1. /\ CmdOk(c) /\ phase = "sched" /\ phase' = "que" /\ CmdQueue' = {} /\ c.type = "RW" /\ Take(c)
      /\ UNCHANGED <<config, force_pbr_refresh, refreshALL>>
    BY Taken DEF Column, pbrVars, rankVars
<1>2. c.task \in Tasks /\ c.bank = trans[c.task].bank
    BY <1>1 DEF CmdOk
<1>3. \A t \in Tasks : /\ (trans'[t].on <=> trans[t].on) /\ trans'[t].bank = trans[t].bank
                       /\ t # c.task => trans'[t].issue = trans[t].issue
                       /\ trans'[t].act <=> trans[t].act
    BY <1>2, TransIs DEF Column, BanksInv, Typed, TransType
<1>4. Acted'
    <2>1. \A b \in Acting' : b \in Acting
        BY AfterColumn DEF Acting
    <2> QED
        BY <1>3, <2>1 DEF Calm, Acted
<1>5. \A t \in Tasks : Half(t)' => t = c.task
    <2> SUFFICES ASSUME NEW t \in Tasks, Half(t)', t # c.task PROVE FALSE
        OBVIOUS
    <2>1. Half(t)
        BY <1>3 DEF Half
    <2> QED
        BY <1>1, <2>1, BegunFirst
<1>6. Capped'
    BY CappedColumn DEF Calm
<1> QED
    BY <1>1, <1>4, <1>5, <1>6, CalmAfter, NotRefreshing

LEMMA CalmCloses ==
    ASSUME BanksInv, Calm, NEW c \in CmdQueue, Precharge(c) \/ PrechargeAll(c)
    PROVE  Calm'
<1>1. /\ CmdOk(c) /\ phase' = "que" /\ CmdQueue' = {}
      /\ UNCHANGED <<config, force_pbr_refresh, refreshALL>>
    BY Taken DEF Precharge, PrechargeAll, pbrVars, rankVars
<1>2. PICK S \in SUBSET Banks : /\ trans' = Closed(S) /\ \A b \in S : ~bankStates[b].act
                                /\ \A b \in Banks : bankStates'[b].act => bankStates[b].act
    <2>1. CASE Precharge(c)
        <3>1. c.bank \in Banks /\ ~bankStates[c.bank].act
            BY <1>1, <2>1 DEF Precharge, CmdOk, BanksInv, ActsOk
        <3>2. \A b \in Banks : bankStates'[b].act => bankStates[b].act
            <4> TAKE b \in Banks
            <4>1. bankStates[b] \in BankType /\ bankStates \in [Banks -> BankType]
                BY BankIs DEF BanksInv, Typed
            <4>2. bankStates'[b] = IF b = c.bank THEN Precharged(bankStates[b]) ELSE bankStates[b]
                BY <2>1, <3>1, <4>1 DEF Precharge
            <4> QED
                BY <4>1, <4>2, AfterPrecharged
        <3>3. trans' = Closed({c.bank}) /\ {c.bank} \in SUBSET Banks
            BY <2>1, <3>1 DEF Precharge
        <3> QED
            BY <3>1, <3>2, <3>3
    <2>2. CASE PrechargeAll(c)
        <3>1. NoActs
            BY <1>1, <2>2 DEF PrechargeAll, CmdOk
        <3>2. \A b \in Banks : bankStates'[b].act => bankStates[b].act
            BY <2>2, BankIs, AfterPrecharged DEF PrechargeAll, BanksInv
        <3>3. trans' = Closed(Banks)
            BY <2>2 DEF PrechargeAll
        <3> QED
            BY <3>1, <3>2, <3>3 DEF NoActs
    <2> QED
        BY <2>1, <2>2
<1>3. \A t \in Tasks : /\ (trans'[t].on <=> trans[t].on) /\ trans'[t].bank = trans[t].bank
                       /\ trans'[t].issue = trans[t].issue
                       /\ trans[t].bank \notin S => trans'[t] = trans[t]
    BY <1>2, TransIs DEF Closed, BanksInv, TransType
<1>4. Acted'
    <2>1. \A b \in Acting' : b \in Acting /\ b \notin S
        BY <1>2 DEF Acting
    <2> QED
        BY <1>3, <2>1 DEF Calm, Acted
<1>5. \A t \in Tasks : Half(t)' <=> Half(t)
    BY <1>3 DEF Half
<1>6. Capped'
    BY CappedCloses DEF Calm
<1>7. \A t, u \in Tasks : Half(t)' /\ Half(u)' => t = u
    BY <1>5 DEF Calm, OneHalf
<1> QED
    BY <1>1, <1>4, <1>6, <1>7, CalmAfter, NotRefreshing

LEMMA CalmRefreshPair ==
    ASSUME BanksInv, Calm, NEW c \in CmdQueue, RefreshPair(c)
    PROVE  Calm'
<1>1. /\ phase' = "que" /\ CmdQueue' = {}
      /\ UNCHANGED <<config, force_pbr_refresh, refreshALL, trans>>
    BY Taken DEF RefreshPair, queVars
<1>2. \A b \in Banks : bankStates'[b].act => bankStates[b].act
    <2> TAKE b \in Banks
    <2>1. bankStates[b] \in BankType
        BY BankIs DEF BanksInv
    <2> QED
        BY <2>1, AfterHeldOff, AfterRefreshed
<1>3. Acted'
    <2>1. \A b \in Acting' : b \in Acting
        BY <1>2 DEF Acting
    <2> QED
        BY <1>1, <2>1 DEF Calm, Acted
<1>4. Capped'
    BY CappedRefreshes DEF Calm
<1>5. \A t, u \in Tasks : Half(t)' /\ Half(u)' => t = u
    BY <1>1 DEF Calm, OneHalf, Half
<1> QED
    BY <1>1, <1>3, <1>4, <1>5, CalmAfter, NotRefreshing

LEMMA CalmRefreshAll ==
    ASSUME BanksInv, Calm, NEW c \in CmdQueue, RefreshAll(c)
    PROVE  Calm'
<1>1. /\ phase' = "que" /\ CmdQueue' = {} /\ CmdOk(c) /\ c.type = "REF" /\ Limit = 0 /\ Promise(c)
      /\ UNCHANGED <<config, force_pbr_refresh, trans>>
      /\ refreshALL' = [refreshALL EXCEPT !.refreshing = TRUE]
    BY Taken DEF RefreshAll, queVars, Calm, Promised
<1>2. NoActs /\ NoneHalf /\ (\A b \in Banks : bankStates[b].ref <= 0) /\ refreshALL.waiting
    BY <1>1 DEF CmdOk, Promise
<1>3. ASSUME NEW b \in Banks
      PROVE  /\ ~bankStates'[b].act /\ bankStates'[b].cnt = tRFCAB /\ bankStates'[b].ref = tRFCAB
    <2>1. bankStates[b] \in BankType /\ bankStates'[b] = Refreshed(bankStates[b], tRFCAB)
        BY BankIs DEF BanksInv, RefreshAll
    <2>2. later(bankStates[b].ref, tRFCAB) = tRFCAB
        BY <1>2, CapsIs, Times DEF later
    <2> QED
        BY <1>2, <2>1, <2>2, AfterRefreshed DEF NoActs
<1>4. Acted'
    BY <1>3 DEF Acted, Acting
<1>5. NoActs' /\ NoneHalf'
    BY <1>1, <1>2, <1>3 DEF NoActs, NoneHalf, Half
<1>6. Capped'
    BY CappedRefreshes DEF Calm
<1>7. AllQuiet'
    <2>1. refreshALL'.waiting
        BY <1>1, <1>2 DEF BanksInv, Typed
    <2> QED
        BY <1>1, <1>3, <1>5, <2>1, Times DEF AllQuiet
<1>8. \A t, u \in Tasks : Half(t)' /\ Half(u)' => t = u
    BY <1>5 DEF NoneHalf
<1> QED
    BY <1>1, <1>4, <1>6, <1>7, <1>8, CalmAfter

(* A cycle passes.                                                         *)
LEMMA CalmStateFresh ==
    ASSUME BanksInv, Calm, StateFresh
    PROVE  Calm'
<1>1. /\ phase = "fresh" /\ phase' = "sched" /\ Limit = 1 /\ Limit' = 0
      /\ UNCHANGED <<config, CmdQueue, trans, force_pbr_refresh>>
    BY DEF StateFresh, At, Then, Limit, queVars
<1>2. \A b \in Banks : bankStates'[b].act <=> bankStates[b].act
    BY AfterFresh
<1>3. Acting' = Acting
    BY <1>2 DEF Acting
<1>4. Capped' /\ Acted' /\ Unforced'
    BY <1>1, <1>3, CappedStateFresh DEF Calm, Acted, Unforced
<1>5. \A t \in Tasks : Half(t)' <=> Half(t)
    BY <1>1 DEF Half
<1>6. OneHalf'
    <2> HIDE DEF Half
    <2> QED
        BY <1>1, <1>5 DEF Calm, OneHalf
<1>7. ~refreshALL.refreshing => refreshALL' = refreshALL
    BY DEF StateFresh
<1>8. Promised'
    <2> SUFFICES ASSUME NEW c \in CmdQueue PROVE Promise(c)'
        BY <1>1 DEF Promised
    <2>1. Promise(c) /\ CmdOk(c) /\ ~refreshALL.refreshing
        BY NotRefreshing DEF Calm, Promised, BanksInv, QueueOk
    <2>2. c.type = "ACT1" => bankStates'[c.bank].act1 <= 0
        <3> SUFFICES ASSUME c.type = "ACT1" PROVE bankStates'[c.bank].act1 <= 0
            OBVIOUS
        <3>1. c.bank \in Banks
            BY <2>1, TransIs DEF CmdOk, BanksInv
        <3>2. bankStates[c.bank].act1 \in Nat /\ bankStates[c.bank].act1 <= 1
            BY <1>1, <2>1, <3>1, CapsIs DEF Promise
        <3> QED
            BY <3>1, <3>2, AfterFresh DEF less
    <2> QED
        BY <1>1, <1>7, <2>1, <2>2 DEF Promise
<1>9. AllQuiet'
    <2> SUFFICES ASSUME refreshALL'.refreshing PROVE AllQuiet'
        BY DEF AllQuiet
    <2>1. refreshALL.refreshing /\ refreshALL' = refreshALL /\ RefreshEnds = {}
        BY DEF StateFresh, BanksInv, Typed
    <2>2. NoActs' /\ NoneHalf'
        BY <1>2, <1>5, <2>1 DEF Calm, AllQuiet, NoActs, NoneHalf
    <2>3. ASSUME NEW b \in Banks
          PROVE  bankStates'[b].ref <= bankStates'[b].cnt /\ bankStates'[b].cnt <= tRFCAB
        <3>1. bankStates[b].ref <= bankStates[b].cnt /\ bankStates[b].cnt <= tRFCAB
            BY <2>1 DEF Calm, AllQuiet
        <3>2. bankStates[b].ref \in Nat /\ bankStates[b].cnt \in Nat
            BY CapsIs
        <3> QED
            BY <3>1, <3>2, AfterFresh, Times DEF less
    <2> QED
        BY <1>1, <2>1, <2>2, <2>3 DEF Calm, AllQuiet
<1> QED
    BY <1>4, <1>6, <1>8, <1>9 DEF Calm

(* What a new request changes.                                             *)
Placed == /\ phase = "add" /\ phase' = "fresh"
          /\ UNCHANGED <<config, CmdQueue, bankStates, refreshALL, force_pbr_refresh, refresh_cnt,
                         refresh_pbr_has_finish, until_refi>>
          /\ \A t \in Tasks : \/ trans'[t] = trans[t]
                              \/ ~trans[t].on /\ ~trans'[t].act /\ trans'[t].issue = 0

LEMMA AddPlaces ==
    ASSUME BanksInv, (\E t \in Tasks, w \in Wanted : AddTransaction(t, w)) \/ NoTransaction
    PROVE  Placed
<1>1. CASE NoTransaction
    BY <1>1 DEF NoTransaction, queVars, pbrVars, rankVars, At, Then, Placed
<1>2. ASSUME NEW t \in Tasks, NEW w \in Wanted, AddTransaction(t, w) PROVE Placed
    <2>1. PICK new : new = [Empty EXCEPT !.on = TRUE, !.bank = w[1], !.row = w[2]]
        OBVIOUS
    <2>2. ~new.act /\ new.issue = 0
        BY <2>1 DEF Empty
    <2>3. trans' = [trans EXCEPT ![t] = new] /\ ~trans[t].on /\ trans \in [Tasks -> TransType]
        BY <1>2, <2>1 DEF AddTransaction, BanksInv, Typed
    <2>4. \A u \in Tasks : \/ trans'[u] = trans[u]
                           \/ ~trans[u].on /\ ~trans'[u].act /\ trans'[u].issue = 0
        BY <2>2, <2>3
    <2> QED
        BY <1>2, <2>4 DEF AddTransaction, pbrVars, rankVars, At, Then, Placed
<1> QED
    BY <1>1, <1>2

LEMMA PlacedHalf ==
    ASSUME BanksInv, Placed, NEW t \in Tasks
    PROVE  /\ Half(t)' <=> Half(t)
           /\ Half(t) => trans'[t] = trans[t]
           /\ trans[t].act => trans'[t] = trans[t]
           /\ trans[t].issue = 0 => trans'[t].issue = 0
<1>1. trans[t].act => trans[t].on
    BY DEF BanksInv, ActsOk
<1>2. CASE trans'[t] = trans[t]
    BY <1>2 DEF Half
<1>3. CASE ~trans[t].on /\ ~trans'[t].act /\ trans'[t].issue = 0
    BY <1>1, <1>3, Times DEF Half
<1> QED
    BY <1>2, <1>3 DEF Placed

LEMMA CalmPlaced ==
    ASSUME BanksInv, Calm, Placed
    PROVE  Calm'
<1>1. /\ phase = "add" /\ phase' = "fresh" /\ Limit = 1 /\ Limit' = 1
      /\ UNCHANGED <<config, CmdQueue, bankStates, refreshALL, force_pbr_refresh>>
    BY DEF Placed, Limit
<1>2. Acting' = Acting /\ (NoActs' <=> NoActs)
    BY <1>1 DEF Acting, NoActs
<1>3. \A t \in Tasks : /\ Half(t)' <=> Half(t)
                       /\ Half(t) => trans'[t] = trans[t]
                       /\ trans[t].act => trans'[t] = trans[t]
                       /\ trans[t].issue = 0 => trans'[t].issue = 0
    BY PlacedHalf
<1> HIDE DEF Half
<1>4. Capped' /\ Acted' /\ Unforced'
    BY <1>1, <1>2, <1>3 DEF Calm, Capped, Acted, Unforced
<1>5. OneHalf'
    BY <1>1, <1>3 DEF Calm, OneHalf
<1>6. Promised'
    BY <1>1, <1>3 DEF Calm, Promised, Promise
<1>7. AllQuiet'
    BY <1>1, <1>2, <1>3 DEF Calm, AllQuiet, NoneHalf
<1> QED
    BY <1>4, <1>5, <1>6, <1>7 DEF Calm

LEMMA CalmSame ==
    ASSUME Calm, UNCHANGED <<config, CmdQueue, bankStates, trans, refreshALL, force_pbr_refresh>>,
           phase' = phase \/ (phase' = "que" /\ CmdQueue = {})
    PROVE  Calm'
<1>1. Acting' = Acting /\ (NoActs' <=> NoActs)
    BY DEF Acting, NoActs
<1>2. \A t \in Tasks : Half(t)' <=> Half(t)
    BY DEF Half
<1> HIDE DEF Half
<1>3. Capped' /\ Acted' /\ Unforced'
    BY <1>1 DEF Calm, Capped, Acted, Unforced
<1>4. OneHalf'
    BY <1>2 DEF Calm, OneHalf
<1>5. Promised'
    BY DEF Calm, Promised, Promise, Limit
<1>6. AllQuiet'
    BY <1>1, <1>2 DEF Calm, AllQuiet, NoneHalf
<1> QED
    BY <1>3, <1>4, <1>5, <1>6 DEF Calm

(* que_pipeline drops who is done and asks for the commands.               *)
LEMMA Asked ==
    ASSUME BanksInv, QuePipeline
    PROVE  /\ phase = "que" /\ phase' = "ref"
           /\ UNCHANGED <<config, bankStates, refreshALL, force_pbr_refresh, refresh_cnt,
                          refresh_pbr_has_finish, until_refi>>
           /\ \A t \in Tasks : /\ Half(t)' <=> Half(t)
                               /\ t \in Busy => trans'[t] = trans[t]
                               /\ Half(t) => t \in Busy
                               /\ trans[t].act => t \in Busy
                               /\ trans[t].issue = 0 => trans'[t].issue = 0
           /\ \E S \in SUBSET Closable :
                CmdQueue' = {Cmd(need_issue(t), trans[t].bank, t, 0, {}) : t \in {u \in Busy : lc(u)}}
                            \cup {Cmd("PRE", b, NoTask, 1, {}) : b \in S}
<1>1. ASSUME NEW t \in Tasks
      PROVE  /\ Half(t)' <=> Half(t)
             /\ t \in Busy => trans'[t] = trans[t]
             /\ Half(t) => t \in Busy
             /\ trans[t].act => t \in Busy
             /\ trans[t].issue = 0 => trans'[t].issue = 0
    <2>1. trans'[t] = IF Done(t) THEN [on |-> FALSE, bank |-> 0, row |-> 0, act |-> FALSE, issue |-> 0]
                      ELSE trans[t]
        BY DEF QuePipeline, Empty
    <2>2. t \in Busy => ~Done(t)
        BY TransIs, Times DEF Busy, Done, BanksInv
    <2>3. Half(t) => t \in Busy
        BY Times DEF Half, Busy
    <2>4. trans[t].act => t \in Busy
        BY Times DEF BanksInv, ActsOk, Busy
    <2>5. Half(t)' <=> Half(t)
        BY <2>1, <2>2, <2>3, Times DEF Half
    <2> QED
        BY <2>1, <2>2, <2>3, <2>4, <2>5
<1> QED
    BY <1>1 DEF QuePipeline, At, Then, pbrVars, rankVars

LEMMA AskedHalf ==
    ASSUME BanksInv, QuePipeline, NEW t \in Tasks, Half(t)
    PROVE  Cmd("RW", trans[t].bank, t, 0, {}) \in CmdQueue'
<1>1. Hit(t) /\ st(trans[t].bank) = "RowActive" /\ trans[t].issue > 0
    BY Times DEF BanksInv, ActsOk, Hit, Half
<1>2. need_issue(t) = "RW"
    BY <1>1 DEF need_issue
<1>3. ~HeldBack(t)
    BY <1>1 DEF HeldBack
<1>4. lc(t) /\ t \in Busy
    BY <1>2, <1>3, Asked DEF lc, timing_met
<1> QED
    BY <1>2, <1>4, Asked

LEMMA CalmQuePipeline ==
    ASSUME BanksInv, Calm, QuePipeline
    PROVE  Calm'
<1>1. /\ phase = "que" /\ phase' = "ref" /\ Limit' = 1
      /\ UNCHANGED <<config, bankStates, refreshALL, force_pbr_refresh>>
    BY Asked DEF Limit
<1>2. \A t \in Tasks : /\ Half(t)' <=> Half(t)
                       /\ t \in Busy => trans'[t] = trans[t]
                       /\ Half(t) => t \in Busy
                       /\ trans[t].act => t \in Busy
                       /\ trans[t].issue = 0 => trans'[t].issue = 0
    BY Asked
<1>3. Acting' = Acting /\ (NoActs' <=> NoActs)
    BY <1>1 DEF Acting, NoActs
<1>4. Capped' /\ Acted' /\ Unforced'
    BY <1>1, <1>2, <1>3 DEF Calm, Capped, Acted, Unforced
<1>5. OneHalf'
    <2>1. \A t \in Tasks : Half(t)' => /\ \A u \in Tasks : Half(u)' => u = t
                                       /\ Cmd("RW", trans'[t].bank, t, 0, {}) \in CmdQueue'
        BY <1>2, AskedHalf DEF Calm, OneHalf
    <2> QED
        BY <2>1 DEF OneHalf
<1>6. PICK S \in SUBSET Closable :
         CmdQueue' = {Cmd(need_issue(t), trans[t].bank, t, 0, {}) : t \in {u \in Busy : lc(u)}}
                     \cup {Cmd("PRE", b, NoTask, 1, {}) : b \in S}
    BY Asked
<1>7. ASSUME NEW c \in CmdQueue' PROVE Promise(c)' /\ c.type \notin {"PRE_AB", "REF", "REFPB"}
    <2>1. CASE \E t \in {u \in Busy : lc(u)} : c = Cmd(need_issue(t), trans[t].bank, t, 0, {})
        <3>1. PICK t \in Busy : lc(t) /\ c = Cmd(need_issue(t), trans[t].bank, t, 0, {})
            BY <2>1
        <3>2. c.type = need_issue(t) /\ c.bank = trans[t].bank /\ c.task = t /\ t \in Tasks
            BY <3>1 DEF Cmd, Busy
        <3>3. need_issue(t) \in {"RW", "PRE", "ACT1", "ACT2", "INVALID"}
            BY DEF need_issue
        <3>4. need_issue(t) = "ACT1" => bankStates[trans[t].bank].act1 <= 1
            BY <3>1 DEF lc, timing_met
        <3>5. need_issue(t) = "PRE" => trans[t].issue = 0
            <4> SUFFICES ASSUME need_issue(t) = "PRE", trans[t].issue # 0 PROVE FALSE
                OBVIOUS
            <4>1. Half(t)
                BY <3>2, TransIs, Times DEF Half, Busy, BanksInv
            <4>2. Hit(t) /\ st(trans[t].bank) = "RowActive"
                BY <3>2, <4>1 DEF BanksInv, ActsOk, Hit
            <4> QED
                BY <4>2 DEF need_issue
        <3> QED
            BY <1>1, <1>2, <3>2, <3>3, <3>4, <3>5 DEF Promise
    <2>2. CASE \E b \in S : c = Cmd("PRE", b, NoTask, 1, {})
        BY <2>2 DEF Promise, Cmd
    <2> QED
        BY <1>6, <2>1, <2>2
<1>8. AllQuiet'
    <2> SUFFICES ASSUME refreshALL.refreshing PROVE AllQuiet'
        BY <1>1 DEF AllQuiet
    <2>1. NoActs /\ NoneHalf /\ \A b \in Banks : st(b) = "Refreshing"
        BY DEF Calm, AllQuiet, BanksInv, Lockstep, Refreshing
    <2>2. S = {}
        BY <2>1 DEF Closable
    <2>3. ASSUME NEW t \in Busy PROVE ~lc(t)
        <3>1. ~Half(t) /\ t \in Tasks /\ trans[t].issue < BURSTS /\ trans[t].on
            BY <2>1 DEF NoneHalf, Busy
        <3>2. trans[t].issue = 0
            BY <3>1, TransIs, Times DEF Half, BanksInv
        <3>3. ~trans[t].act
            BY <2>1, <3>1, TransIs DEF BanksInv, ActsOk, NoActs
        <3> QED
            BY <3>2, <3>3 DEF lc, HeldBack
    <2>4. CmdQueue' = {}
        BY <1>6, <2>2, <2>3
    <2>5. NoneHalf'
        BY <1>2, <2>1 DEF NoneHalf
    <2> QED
        BY <1>1, <1>3, <2>1, <2>4, <2>5 DEF Calm, AllQuiet
<1> QED
    BY <1>4, <1>5, <1>7, <1>8 DEF Calm, Promised

(* A round that is not over is never beyond SBR_FRCST_NUM.                 *)
LEMMA NotEnough ==
    ASSUME BanksInv, NeverHeld, config.req = 1, Enough
    PROVE  RoundDone
<1>1. config \in Config /\ config \in Configs
    BY RefreshBankAssumption DEF BanksInv, Typed, RefreshBankAssumption
<1>2. config.frcst \in Nat /\ config.frcst >= PAIRS /\ PAIRS \in Nat \ {0} /\ config.enh \in BOOLEAN
    BY <1>1, Times DEF NeverHeld, Config
<1>3. PICK H : H = Heads
    OBVIOUS
<1>4. IsFiniteSet(H) /\ Cardinality(H) = (IF config.enh THEN 2 ELSE 1) * PAIRS
    <2>1. CASE config.enh
        <3>1. H = 0..(2 * PAIRS - 1)
            BY <1>3, <2>1 DEF Heads, Banks, NUM_BANKS
        <3>2. IsFiniteSet(H) /\ Cardinality(H) = (2 * PAIRS - 1) - 0 + 1
            BY <1>2, <3>1, FS_Interval
        <3> QED
            BY <1>2, <2>1, <3>2
    <2>2. CASE ~config.enh
        <3>1. H = 0..(PAIRS - 1)
            BY <1>3, <2>2 DEF Heads, First
        <3>2. IsFiniteSet(H) /\ Cardinality(H) = (PAIRS - 1) - 0 + 1
            BY <1>2, <3>1, FS_Interval
        <3> QED
            BY <1>2, <2>2, <3>2
    <2> QED
        BY <2>1, <2>2
<1>5. PICK T \in SUBSET H : T = finish_refresh_pb \cap H
    OBVIOUS
<1>6. IsFiniteSet(T) /\ Cardinality(T) <= Cardinality(H) /\ (Cardinality(H) = Cardinality(T) => H = T)
    BY <1>4, FS_Subset
<1>7. Cardinality(T) \in Nat
    BY <1>6, FS_CardinalityType
<1>8. Cardinality(T) >= (IF config.enh THEN 2 ELSE 1) * config.frcst
    BY <1>3, <1>5 DEF Enough, refresh_cnt_pb
<1>9. Cardinality(T) = Cardinality(H)
    <2>1. CASE config.enh
        BY <1>2, <1>4, <1>6, <1>7, <1>8, <2>1
    <2>2. CASE ~config.enh
        BY <1>2, <1>4, <1>6, <1>7, <1>8, <2>2
    <2> QED
        BY <2>1, <2>2
<1> QED
    BY <1>3, <1>5, <1>6, <1>9 DEF RoundDone

(* What refresh queues: the command for the whole rank alone, or more.     *)
LEMMA RefreshQueues ==
    ASSUME BanksInv, Refresh
    PROVE  /\ IF Skipped /\ (SendPreAll \/ SendRef) THEN CmdQueue' = AllCommand
              ELSE /\ CmdQueue \subseteq CmdQueue'
                   /\ \A c \in CmdQueue' : c \in CmdQueue \/ (c.task = NoTask /\ c.type \in {"PRE", "REFPB"})
           /\ Skipped /\ ~(SendPreAll \/ SendRef) => CmdQueue' = CmdQueue
           /\ Skipped => ~refresh_pbr_has_finish'
           /\ refresh_cnt' = Postponed
           /\ until_refi' = (IF Due THEN tREFI ELSE until_refi - 1)
           /\ refreshALL'.waiting <=> AllWaiting
           /\ refreshALL'.refreshing <=> refreshALL.refreshing
<1>1. CASE Skipped
    BY <1>1 DEF Refresh, NoPerBankRefresh
<1>2. ASSUME ~Skipped, NEW p \in Chosen, PerBankRefresh(p)
      PROVE  /\ CmdQueue \subseteq CmdQueue'
             /\ \A c \in CmdQueue' : c \in CmdQueue \/ (c.task = NoTask /\ c.type \in {"PRE", "REFPB"})
    <2>1. \/ CmdQueue' = CmdQueue \/ CmdQueue' = CmdQueue \cup RefPb(p)
          \/ \E b \in ToClose(p) \cup {Min(ToClose(p))} : CmdQueue' = CmdQueue \cup {Cmd("PRE", b, NoTask, 2, {})}
        BY <1>2, Zenon DEF PerBankRefresh, Forced, Offered
    <2> QED
        BY <2>1 DEF RefPb, Cmd
<1>3. refreshALL' = [refreshALL EXCEPT !.waiting = AllWaiting] /\ AllWaiting \in BOOLEAN
    BY DEF Refresh, AllWaiting
<1>4. refreshALL'.waiting <=> AllWaiting
    <2> HIDE DEF AllWaiting
    <2> QED
        BY <1>3 DEF BanksInv, Typed
<1>5. refresh_cnt' = Postponed /\ until_refi' = (IF Due THEN tREFI ELSE until_refi - 1)
    BY DEF Refresh
<1>6. CASE ~Skipped
    <2>1. /\ CmdQueue \subseteq CmdQueue'
          /\ \A c \in CmdQueue' : c \in CmdQueue \/ (c.task = NoTask /\ c.type \in {"PRE", "REFPB"})
        BY <1>2, <1>6 DEF Refresh
    <2> QED
        BY <1>4, <1>5, <1>6, <2>1, RefreshLooks DEF Looks
<1> QED
    BY <1>1, <1>4, <1>5, <1>6, RefreshLooks DEF Looks, Refresh, NoPerBankRefresh

LEMMA CalmRefresh ==
    ASSUME BanksInv, Calm, NeverHeld, Refresh
    PROVE  Calm'
<1>1. /\ phase = "ref" /\ phase' = "add" /\ Limit = 1 /\ Limit' = 1
      /\ UNCHANGED <<config, bankStates, trans>>
      /\ refreshALL'.refreshing <=> refreshALL.refreshing
    BY RefreshLooks DEF Looks, Limit
<1>2. Acting' = Acting /\ (NoActs' <=> NoActs)
    BY <1>1 DEF Acting, NoActs
<1>3. \A t \in Tasks : Half(t)' <=> Half(t)
    BY <1>1 DEF Half
<1>4. Capped' /\ Acted'
    BY <1>1, <1>2 DEF Calm, Capped, Acted
<1>5. Unforced'
    <2> SUFFICES ASSUME config.req = 1 PROVE ~force_pbr_refresh'
        BY <1>1 DEF Unforced
    <2>1. ~force_pbr_refresh /\ config.req # 0
        BY DEF Calm, Unforced
    <2>2. ~ForceNow
        BY <2>1, NotEnough DEF ForceNow
    <2>3. CASE Skipped
        BY <2>1, <2>3 DEF Refresh, NoPerBankRefresh
    <2>4. CASE ~Skipped
        <3>1. force_pbr_refresh' = ForceNow
            BY <2>4, Zenon DEF Refresh, PerBankRefresh
        <3> QED
            BY <2>2, <3>1
    <2> QED
        BY <2>3, <2>4
<1>6. Skipped /\ (SendPreAll \/ SendRef) => /\ ~AllHeld /\ ~refreshALL.refreshing /\ AllWaiting
                                            /\ CmdQueue' = AllCommand
    <2> HIDE DEF AllHeld
    <2> QED
        BY RefreshQueues DEF SendPreAll, SendRef, AllWants, AllWaiting
<1>7. \A t \in Tasks : Half(t) => AllHeld
    <2>1. \A t \in Tasks : Half(t) => HalfDone(trans[t].bank) /\ trans[t].bank \in Banks
        BY TransIs, Times DEF BanksInv, Half, HalfDone, Busy
    <2> QED
        BY <2>1 DEF AllHeld
<1> HIDE DEF Half, AllHeld
<1>8. OneHalf'
    <2>1. ASSUME NEW t \in Tasks, Half(t) PROVE CmdQueue \subseteq CmdQueue'
        BY <1>6, <1>7, <2>1, RefreshQueues
    <2> QED
        BY <1>1, <1>3, <2>1 DEF Calm, OneHalf
<1>9. Promised'
    <2>1. CASE Skipped /\ (SendPreAll \/ SendRef)
        <3>1. AllWaiting /\ ~refreshALL.refreshing /\ CmdQueue' = AllCommand
            BY <1>6, <2>1
        <3>2. refreshALL'.waiting /\ ~refreshALL'.refreshing
            BY <1>1, <3>1, RefreshQueues
        <3>3. \A c \in CmdQueue' : c.type \in {"PRE_AB", "REF"} /\ c.task = NoTask /\ CmdQueue' = {c}
            BY <3>1 DEF AllCommand, Cmd
        <3> QED
            BY <3>2, <3>3 DEF Promised, Promise
    <2>2. CASE ~(Skipped /\ (SendPreAll \/ SendRef))
        <3> SUFFICES ASSUME NEW c \in CmdQueue' PROVE Promise(c)'
            BY DEF Promised
        <3>1. CASE c \in CmdQueue
            <4>1. Promise(c) /\ c.type \notin {"PRE_AB", "REF", "REFPB"}
                BY <1>1, <3>1 DEF Calm, Promised, BanksInv, QueueOk, CmdOk
            <4> QED
                BY <1>1, <4>1 DEF Promise
        <3>2. CASE c.task = NoTask /\ c.type \in {"PRE", "REFPB"}
            BY <3>2 DEF Promise
        <3> QED
            BY <2>2, <3>1, <3>2, RefreshQueues
    <2> QED
        BY <2>1, <2>2
<1>10. AllQuiet'
    <2> SUFFICES ASSUME refreshALL.refreshing PROVE AllQuiet'
        BY <1>1 DEF AllQuiet
    <2>1. refreshALL.waiting /\ NoActs /\ NoneHalf /\ CmdQueue = {}
        BY DEF Calm, AllQuiet
    <2>2. AllWaiting /\ Skipped
        BY <2>1 DEF AllWaiting, Skipped
    <2>3. CmdQueue' = {} /\ refreshALL'.waiting
        BY <1>6, <2>1, <2>2, RefreshQueues
    <2> QED
        BY <1>1, <1>2, <1>3, <2>1, <2>3 DEF Calm, AllQuiet, NoneHalf
<1> QED
    BY <1>4, <1>5, <1>8, <1>9, <1>10 DEF Calm

LEMMA CalmInit ==
    ASSUME Init
    PROVE  Calm
<1>1. /\ phase = "add" /\ CmdQueue = {} /\ refreshALL = [waiting |-> FALSE, refreshing |-> FALSE]
      /\ force_pbr_refresh = FALSE
    BY DEF Init
<1>2. \A t \in Tasks : trans[t].issue = 0
    BY DEF Init, Empty
<1>3. \A b \in Banks : /\ ~bankStates[b].act /\ bankStates[b].ref = 0 /\ bankStates[b].pre = 0
                       /\ bankStates[b].act1 = 0 /\ bankStates[b].act2 = 0
    BY DEF Init
<1>4. Capped
    BY <1>3, Times, Longest DEF Capped, Cap
<1>5. Acted /\ OneHalf /\ Unforced /\ Promised /\ AllQuiet
    BY <1>1, <1>2, <1>3, Times DEF Acted, Acting, OneHalf, Half, Unforced, Promised, AllQuiet
<1> QED
    BY <1>4, <1>5 DEF Calm

LEMMA CalmNext ==
    ASSUME BanksInv, Calm, NeverHeld, [Next]_vars
    PROVE  Calm'
<1>1. CASE UNCHANGED vars
    BY <1>1, CalmSame DEF vars, queVars, pbrVars, rankVars
<1>2. CASE (\E t \in Tasks, w \in Wanted : AddTransaction(t, w)) \/ NoTransaction
    BY <1>2, AddPlaces, CalmPlaced
<1>3. CASE StateFresh
    BY <1>3, CalmStateFresh
<1>4. ASSUME NEW c \in CmdQueue,
             \/ Activate1(c) \/ Activate2(c) \/ Column(c) \/ Precharge(c) \/ PrechargeAll(c)
             \/ RefreshPair(c) \/ RefreshAll(c)
      PROVE  Calm'
    BY <1>4, CalmActivate1, CalmActivate2, CalmColumn, CalmCloses, CalmRefreshPair, CalmRefreshAll
<1>5. CASE NothingToSchedule
    BY <1>5, CalmSame DEF NothingToSchedule, At, Then, queVars, pbrVars, rankVars
<1>6. CASE QuePipeline
    BY <1>6, CalmQuePipeline
<1>7. CASE Refresh
    BY <1>7, CalmRefresh
<1> QED
    BY <1>1, <1>2, <1>3, <1>4, <1>5, <1>6, <1>7 DEF Next
-----------------------------------------------------------------------------
(* How many banks wait for their second ACT.                               *)
LEMMA CountBanks ==
    ASSUME NEW S \in SUBSET Banks
    PROVE  /\ IsFiniteSet(S) /\ Cardinality(S) \in Nat
           /\ Cardinality(S) <= NUM_BANKS
           /\ \A b \in S : Cardinality(S) >= 1 /\ Cardinality(S \ {b}) = Cardinality(S) - 1
           /\ \A b \in Banks : b \notin S => Cardinality(S) <= NUM_BANKS - 1
           /\ Cardinality(S) = 0 <=> S = {}
<1>1. NUM_BANKS \in Nat \ {0}
    BY Times DEF NUM_BANKS
<1>2. IsFiniteSet(Banks) /\ Cardinality(Banks) = (NUM_BANKS - 1) - 0 + 1
    BY <1>1, FS_Interval DEF Banks
<1>3. Cardinality(Banks) = NUM_BANKS
    BY <1>1, <1>2
<1>4. IsFiniteSet(S) /\ Cardinality(S) \in Nat /\ Cardinality(S) <= NUM_BANKS
    BY <1>2, <1>3, FS_Subset, FS_CardinalityType
<1>5. ASSUME NEW b \in S PROVE Cardinality(S) >= 1 /\ Cardinality(S \ {b}) = Cardinality(S) - 1
    <2>1. IsFiniteSet(S \ {b}) /\ Cardinality(S \ {b}) = Cardinality(S) - 1
        BY <1>4, FS_RemoveElement
    <2>2. Cardinality(S \ {b}) \in Nat
        BY <2>1, FS_CardinalityType
    <2> QED
        BY <1>4, <2>1, <2>2
<1>6. ASSUME NEW b \in Banks, b \notin S PROVE Cardinality(S) <= NUM_BANKS - 1
    <2>1. IsFiniteSet(Banks \ {b}) /\ Cardinality(Banks \ {b}) = Cardinality(Banks) - 1
        BY <1>2, FS_RemoveElement
    <2>2. S \in SUBSET (Banks \ {b})
        BY <1>6
    <2> QED
        BY <1>3, <2>1, <2>2, FS_Subset
<1>7. Cardinality(S) = 0 <=> S = {}
    BY <1>4, FS_EmptySet
<1> QED
    BY <1>4, <1>5, <1>6, <1>7

(* A refresh has just fallen due: whatever the countdowns, there is room.  *)
LEMMA RoomAtFirst ==
    ASSUME BanksInv', Calm', phase' = "que", until_refi' = tREFI, DrainTime < tREFI
    PROVE  Room'
<1>1. Left' = tREFI - 1 /\ Ahead' = 0
    BY DEF Left, Ahead
<1>2. /\ ReadyMax \in Int /\ CloseMax \in Int /\ ActMax \in Int /\ tREFI \in Int /\ tRP \in Nat \ {0}
      /\ BURSTS \in Nat \ {0} /\ NUM_BANKS \in Nat \ {0} /\ Acts(NUM_BANKS - 1) \in Nat
      /\ 1 + tRP <= CloseMax /\ 1 <= ActMax /\ 1 <= ReadyMax
    <2>1. NUM_BANKS \in Nat \ {0} /\ NUM_BANKS - 1 \in Nat
        BY Times DEF NUM_BANKS
    <2>2. Acts(NUM_BANKS - 1) \in Nat
        BY <2>1, ActsIs
    <2> QED
        BY <2>1, <2>2, Times, Longest
<1>3. ReadyMax <= tREFI - 1 /\ Acts(NUM_BANKS - 1) + CloseMax + ActMax <= tREFI - 1
      /\ Acts(NUM_BANKS - 1) + CloseMax + (BURSTS - 1) <= tREFI - 1
    BY <1>2, InTimeFor
<1>4. \A b \in Banks : /\ bankStates'[b].ref <= ReadyMax /\ bankStates'[b].pre + tRP <= CloseMax
                       /\ bankStates'[b].act => bankStates'[b].act2 <= ActMax
                       /\ bankStates'[b].ref \in Nat /\ bankStates'[b].pre \in Nat
                       /\ bankStates'[b].act2 \in Nat
    BY DEF Calm, Capped, Cap, BanksInv, Typed, BankType
<1>5. PICK S \in SUBSET Banks : S = Acting' /\ A' = Cardinality(S)
    BY DEF Acting, A
<1> DEFINE n == Cardinality(S)
<1> HIDE DEF n
<1>6. n \in Nat /\ n <= NUM_BANKS /\ \A b \in S : n >= 1
    BY <1>5, CountBanks DEF n
<1>7. \A b \in Acting' : /\ Left' >= 1 + Acts(n - 1) + CloseMax
                         /\ Left' >= bankStates'[b].act2 + Acts(n - 1) + CloseMax + Ahead'
    <2> TAKE b \in Acting'
    <2>1. b \in Banks /\ bankStates'[b].act /\ n >= 1
        BY <1>5, <1>6 DEF Acting
    <2>2. n - 1 \in Nat /\ NUM_BANKS - 1 \in Nat /\ n - 1 <= NUM_BANKS - 1
        BY <1>2, <1>6, <2>1
    <2>3. Acts(n - 1) \in Nat /\ Acts(n - 1) <= Acts(NUM_BANKS - 1)
        BY <2>2, ActsIs
    <2>4. bankStates'[b].act2 <= ActMax /\ bankStates'[b].act2 \in Nat
        BY <1>4, <2>1
    <2> QED
        BY <1>1, <1>2, <1>3, <2>3, <2>4
<1>8. \A t \in Tasks : Half(t)' => Left' >= (BURSTS - trans'[t].issue) + Acts(n) + CloseMax
    <2> SUFFICES ASSUME NEW t \in Tasks, Half(t)'
                 PROVE  Left' >= (BURSTS - trans'[t].issue) + Acts(n) + CloseMax
        OBVIOUS
    <2>1. trans'[t].bank \in Banks /\ bankStates'[trans'[t].bank].state = "RowActive"
        <3>1. trans'[t].bank \in Banks
            BY DEF BanksInv, Typed, TransType
        <3>2. st(trans[t].bank)' = "RowActive"
            BY DEF BanksInv, ActsOk
        <3> QED
            BY <3>1, <3>2 DEF st
    <2>2. ~bankStates'[trans'[t].bank].act
        BY <2>1 DEF BanksInv, ActsOk
    <2>3. n <= NUM_BANKS - 1
        BY <1>5, <2>1, <2>2, CountBanks DEF Acting, n
    <2>4. Acts(n) \in Nat /\ Acts(n) <= Acts(NUM_BANKS - 1)
        BY <1>2, <1>6, <2>3, ActsIs
    <2>5. trans'[t].issue \in 1..(BURSTS - 1)
        BY DEF Half
    <2> QED
        BY <1>1, <1>2, <1>3, <2>4, <2>5
<1>9. \A b \in Banks : /\ bankStates'[b].ref + Ahead' <= Left'
                       /\ bankStates'[b].pre + tRP + Ahead' <= Left'
    BY <1>1, <1>2, <1>3, <1>4
<1>10. Left' >= 1 /\ Left' >= 1 + tRP
    BY <1>1, <1>2, <1>3
<1> QED
    BY <1>5, <1>7, <1>8, <1>9, <1>10, Zenon DEF Room, n

(* What can be sent is queued, so whatever else is sent loses no time.     *)
LEMMA NothingReady ==
    ASSUME BanksInv, Calm, Draining, phase = "sched", NoneHalf,
           \/ CmdQueue = {}
           \/ \E c \in CmdQueue : Take(c) /\ c.type = "PRE"
    PROVE  /\ Left >= 2 /\ until_refi = Left /\ Ahead = 1
           /\ AnyOpen /\ NoActs => Left >= 2 + tRP
           /\ \A b \in Acting : bankStates[b].act2 >= 1 /\ Left >= 2 + Acts(A - 1) + CloseMax
<1>1. Limit = 0 /\ DrainQueue /\ Room /\ Ahead = 1 /\ until_refi = Left /\ Left \in Int /\ phase # "ref"
    BY DEF Draining, Limit, Ahead, Left, BanksInv, Typed
<1>2. \A c \in CmdQueue : c.type \notin {"ACT2", "PRE_AB", "REF"}
    <2>1. CASE CmdQueue = {}
        BY <2>1
    <2>2. ASSUME NEW c \in CmdQueue, Take(c), c.type = "PRE", NEW d \in CmdQueue,
                 d.type \in {"ACT2", "PRE_AB", "REF"}
          PROVE  FALSE
        <3>1. Promise(d) /\ CmdOk(d)
            BY DEF Calm, Promised, BanksInv, QueueOk
        <3>2. CASE d.type \in {"PRE_AB", "REF"}
            <4>1. CmdQueue = {d}
                BY <3>1, <3>2 DEF Promise
            <4> QED
                BY <2>2, <3>2, <4>1
        <3>3. CASE d.type = "ACT2"
            <4>1. c \in Candidates /\ Begun = {}
                <5>1. ASSUME NEW e \in Begun PROVE FALSE
                    <6>1. e \in CmdQueue /\ e.task # NoTask /\ trans[e.task].issue > 0
                        BY DEF Begun
                    <6>2. Promise(e) /\ CmdOk(e)
                        BY <6>1 DEF Calm, Promised, BanksInv, QueueOk
                    <6>3. e.type \in {"ACT1", "ACT2", "RW"}
                        BY <6>1, <6>2 DEF CmdOk, Promise
                    <6>4. e.task \in Tasks /\ trans[e.task].on /\ trans[e.task].issue < BURSTS
                        BY <6>2, <6>3 DEF CmdOk
                    <6>5. Half(e.task)
                        BY <6>1, <6>4, TransIs, Times DEF Half, BanksInv
                    <6> QED
                        BY <6>4, <6>5 DEF NoneHalf
                <5> QED
                    BY <2>2, <5>1 DEF Take
            <4>2. priority(d) <= priority(c)
                BY <4>1 DEF Candidates
            <4>3. priority(d) = 500
                BY <3>3 DEF priority
            <4>4. priority(c) \in {0, 400}
                BY <2>2 DEF priority
            <4> QED
                BY <4>2, <4>3, <4>4
        <3> QED
            BY <2>2, <3>2, <3>3
    <2> QED
        BY <2>1, <2>2
<1>3. \A b \in Acting : bankStates[b].act2 >= 1 /\ Left >= 2 + Acts(A - 1) + CloseMax
    <2> TAKE b \in Acting
    <2>1. b \in Banks /\ bankStates[b].act2 \in Nat /\ ~(bankStates[b].act2 <= 0)
        BY <1>1, <1>2, CapsIs DEF DrainQueue, Acting
    <2>2. Left >= bankStates[b].act2 + Acts(A - 1) + CloseMax + 1
        BY <1>1 DEF Room
    <2>3. A - 1 \in Nat /\ Acts(A - 1) \in Nat
        <3>1. A \in Nat /\ A >= 1
            BY CountBanks DEF A, Acting
        <3> QED
            BY <3>1, ActsIs
    <2> QED
        BY <1>1, <2>1, <2>2, <2>3, Longest
<1>4. AnyOpen /\ NoActs => Left >= 2 + tRP
    <2> SUFFICES ASSUME AnyOpen, NoActs PROVE Left >= 2 + tRP
        OBVIOUS
    <2>1. PICK b \in Banks : ~(bankStates[b].pre <= 0)
        BY <1>1, <1>2 DEF DrainQueue
    <2>2. bankStates[b].pre \in Nat /\ bankStates[b].pre + tRP + 1 <= Left
        BY <1>1, CapsIs DEF Room
    <2> QED
        BY <1>1, <2>1, <2>2, Times
<1>5. Left >= 2
    <2>1. CASE ~NoActs
        <3>1. PICK b \in Acting : TRUE
            BY <2>1 DEF NoActs, Acting
        <3>2. A - 1 \in Nat /\ Acts(A - 1) \in Nat
            <4>1. A \in Nat /\ A >= 1
                BY <3>1, CountBanks DEF A, Acting
            <4> QED
                BY <4>1, ActsIs
        <3> QED
            BY <1>1, <1>3, <3>1, <3>2, Longest, Times
    <2>2. CASE NoActs /\ AnyOpen
        BY <1>1, <1>4, <2>2, Times
    <2>3. CASE NoActs /\ ~AnyOpen
        <3>1. PICK b \in Banks : ~(bankStates[b].ref <= 0)
            BY <1>1, <1>2, <2>3 DEF DrainQueue
        <3>2. bankStates[b].ref \in Nat /\ bankStates[b].ref + 1 <= Left
            BY <1>1, CapsIs DEF Room
        <3> QED
            BY <1>1, <3>1, <3>2
    <2> QED
        BY <2>1, <2>2, <2>3
<1> QED
    BY <1>1, <1>3, <1>4, <1>5
-----------------------------------------------------------------------------
(* The commands, with the last refresh postponed that may be.  A column:   *)
(* the transaction half done is one column nearer to its end.              *)
LEMMA RoomColumn ==
    ASSUME BanksInv, BanksInv', Calm, Calm', Draining, NEW c \in CmdQueue, Column(c), UNCHANGED until_refi
    PROVE  Room'
<1>1. /\ phase = "sched" /\ phase' = "que" /\ c.type = "RW" /\ Room /\ DrainQueue /\ CmdOk(c)
    BY Taken DEF Column, Take, At, Then, Draining, BanksInv, QueueOk
<1>2. PICK L \in Int : L = Left /\ Left' = L - 1 /\ Ahead = 1 /\ Ahead' = 0
    BY <1>1 DEF Left, Ahead, BanksInv, Typed
<1>3. /\ c.task \in Tasks /\ c.bank = trans[c.task].bank /\ Half(c.task)
    BY <1>1 DEF CmdOk, DrainQueue
<1>4. \A t \in Tasks : /\ trans'[t].issue = (IF t = c.task THEN trans[t].issue + 1 ELSE trans[t].issue)
                       /\ (trans'[t].on <=> trans[t].on) /\ trans[t].issue \in Nat
    BY <1>3, TransIs, Times DEF Column, BanksInv, Typed, TransType
<1>5. \A t \in Tasks : Half(t)' => t = c.task
    <2> SUFFICES ASSUME NEW t \in Tasks, Half(t)', t # c.task PROVE FALSE
        OBVIOUS
    <2>1. Half(t)
        BY <1>4 DEF Half
    <2> QED
        BY <1>3, <2>1 DEF Calm, OneHalf
<1>6. Acting' = Acting /\ A' = A
    BY AfterColumn DEF Acting, A
<1>7. PICK n \in Nat : n = A
    BY CountBanks DEF A, Acting
<1>8. /\ Acts(n) \in Nat /\ CloseMax \in Int /\ 1 + tRP <= CloseMax /\ tRP \in Nat /\ BURSTS \in Nat /\ tRRD \in Nat \ {0}
    BY <1>7, ActsIs, Longest, Times
<1>9. PICK i \in 1..(BURSTS - 1) : i = trans[c.task].issue
    BY <1>3 DEF Half
<1>10. L >= (BURSTS - i) + Acts(n) + CloseMax
    BY <1>1, <1>2, <1>3, <1>7, <1>9 DEF Room
<1>11. L - 1 >= Acts(n) + CloseMax
    BY <1>8, <1>9, <1>10
<1>12. Left' >= 1 /\ Left' >= 1 + tRP
    BY <1>2, <1>8, <1>11
<1>13. \A b \in Banks : /\ bankStates'[b].ref + Ahead' <= Left'
                        /\ bankStates'[b].pre + tRP + Ahead' <= Left'
    <2> TAKE b \in Banks
    <2>1. bankStates[b].ref + 1 <= L /\ bankStates[b].ref \in Nat /\ bankStates'[b].ref = bankStates[b].ref
        BY <1>1, <1>2, AfterColumn, CapsIs DEF Room
    <2>2. bankStates'[b].pre + tRP <= CloseMax /\ bankStates'[b].pre \in Nat
        <3>1. bankStates'[b].pre = IF b = c.bank THEN later(bankStates[b].pre, tRTP) ELSE bankStates[b].pre
            BY AfterColumn
        <3>2. bankStates'[b].pre \in Nat
            BY DEF BanksInv, Typed, BankType
        <3> QED
            BY <3>2 DEF Calm, Capped, Cap
    <2> QED
        BY <1>2, <1>8, <1>11, <2>1, <2>2
<1>14. \A b \in Acting' : /\ Left' >= 1 + Acts(A' - 1) + CloseMax
                          /\ Left' >= bankStates'[b].act2 + Acts(A' - 1) + CloseMax + Ahead'
    <2> TAKE b \in Acting'
    <2>1. b \in Acting /\ b \in Banks /\ bankStates'[b].act2 = bankStates[b].act2 /\ bankStates[b].act2 \in Nat
        BY <1>6, AfterColumn, CapsIs DEF Acting
    <2>2. n - 1 \in Nat
        BY <1>7, <2>1, CountBanks DEF A, Acting
    <2>3. Acts(n - 1) \in Nat /\ Acts(n) = Acts(n - 1) + tRRD
        BY <2>2, ActsIs
    <2>4. L >= bankStates[b].act2 + Acts(n - 1) + CloseMax + 1
        BY <1>1, <1>2, <1>7, <2>1 DEF Room
    <2>5. A' = n
        BY <1>6, <1>7
    <2> QED
        BY <1>2, <1>8, <1>11, <2>1, <2>3, <2>4, <2>5
<1>15. \A t \in Tasks : Half(t)' => Left' >= (BURSTS - trans'[t].issue) + Acts(A') + CloseMax
    <2> SUFFICES ASSUME NEW t \in Tasks, Half(t)'
                 PROVE  Left' >= (BURSTS - trans'[t].issue) + Acts(A') + CloseMax
        OBVIOUS
    <2>1. trans'[t].issue = i + 1 /\ A' = n
        BY <1>3, <1>4, <1>5, <1>6, <1>7, <1>9
    <2> QED
        BY <1>2, <1>8, <1>10, <2>1
<1> QED
    BY <1>12, <1>13, <1>14, <1>15, Zenon DEF Room

(* A second ACT: one bank less is half activated.                          *)
LEMMA RoomActivate2 ==
    ASSUME BanksInv, BanksInv', Calm, Calm', Draining, NEW c \in CmdQueue, Activate2(c), UNCHANGED until_refi
    PROVE  Room'
<1>1. /\ phase = "sched" /\ phase' = "que" /\ c.type = "ACT2" /\ Take(c) /\ Room /\ CmdOk(c) /\ Limit = 0
    BY Taken DEF Activate2, Take, At, Then, Draining, BanksInv, QueueOk
<1>2. PICK L \in Int : L = Left /\ Left' = L - 1 /\ Ahead = 1 /\ Ahead' = 0
    BY <1>1 DEF Left, Ahead, BanksInv, Typed
<1>3. /\ c.task \in Tasks /\ c.bank = trans[c.task].bank /\ trans[c.task].act
      /\ c.bank \in Acting /\ c.bank \in Banks
    BY <1>1, TransIs DEF CmdOk, BanksInv, ActsOk, Acting
<1>4. NoneHalf /\ NoneHalf'
    <2>1. NoneHalf
        BY <1>1, BegunFirst DEF NoneHalf
    <2>2. \A t \in Tasks : Half(t)' => Half(t)
        <3>1. \A t \in Tasks : (trans'[t].on <=> trans[t].on) /\ trans'[t].issue = trans[t].issue
            BY <1>3, TransIs DEF Activate2, BanksInv, Typed, TransType
        <3> QED
            BY <3>1 DEF Half
    <2> QED
        BY <2>1, <2>2 DEF NoneHalf
<1>5. PICK n \in Nat : n = A /\ n >= 1 /\ A' = n - 1
    <2>1. Acting' = Acting \ {c.bank}
        BY <1>3, AfterActivate2 DEF Acting
    <2>2. Acting \in SUBSET Banks
        BY DEF Acting
    <2> QED
        BY <1>3, <2>1, <2>2, CountBanks DEF A
<1>6. /\ n - 1 \in Nat /\ Acts(n - 1) \in Nat /\ CloseMax \in Int /\ 1 + tRP <= CloseMax /\ tRRD <= CloseMax
      /\ tRP \in Nat /\ tRRD \in Nat \ {0}
    BY <1>5, ActsIs, Longest, Times
<1>7. L - 1 >= Acts(n - 1) + CloseMax
    <2>1. L >= 1 + Acts(n - 1) + CloseMax
        BY <1>1, <1>2, <1>3, <1>5 DEF Room
    <2> QED
        BY <1>6, <2>1
<1>8. Left' >= 1 /\ Left' >= 1 + tRP
    BY <1>2, <1>6, <1>7
<1>9. \A b \in Banks : /\ bankStates'[b].ref + Ahead' <= Left'
                       /\ bankStates'[b].pre + tRP + Ahead' <= Left'
    <2> TAKE b \in Banks
    <2>1. bankStates[b].ref + 1 <= L /\ bankStates[b].ref \in Nat
        BY <1>1, <1>2, CapsIs DEF Room
    <2>2. bankStates'[b].ref = bankStates[b].ref \/ bankStates'[b].ref = later(bankStates[b].ref, tRRD)
        BY AfterActivate2
    <2>3. bankStates'[b].pre + tRP <= CloseMax
        BY DEF Calm, Capped, Cap
    <2>4. bankStates'[b].pre \in Nat
        BY DEF BanksInv, Typed, BankType
    <2>5. bankStates'[b].ref + 0 <= L - 1
        BY <1>6, <1>7, <2>1, <2>2 DEF later
    <2> QED
        BY <1>2, <1>6, <1>7, <2>3, <2>4, <2>5
<1>10. \A b \in Acting' : /\ Left' >= 1 + Acts(A' - 1) + CloseMax
                          /\ Left' >= bankStates'[b].act2 + Acts(A' - 1) + CloseMax + Ahead'
    <2> TAKE b \in Acting'
    <2>1. b \in Banks /\ b # c.bank /\ b \in Acting /\ bankStates[b].act2 \in Nat
          /\ bankStates'[b].act2 = later(bankStates[b].act2, tRRD)
        BY AfterActivate2, CapsIs DEF Acting
    <2>2. n - 2 \in Nat
        <3>1. A' >= 1
            <4>1. PICK S \in SUBSET Banks : S = Acting' /\ A' = Cardinality(S)
                BY DEF Acting, A
            <4>2. b \in S
                BY <4>1
            <4> QED
                BY <4>1, <4>2, CountBanks
        <3> QED
            BY <1>5, <3>1
    <2>3. Acts(n - 2) \in Nat /\ Acts((n - 2) + 1) = Acts(n - 2) + tRRD
        BY <2>2, ActsIs
    <2>4. (n - 2) + 1 = n - 1 /\ A' - 1 = n - 2
        BY <1>5
    <2>5. Acts(n - 1) = Acts(n - 2) + tRRD /\ Acts(A' - 1) = Acts(n - 2)
        BY <2>3, <2>4
    <2>6. L >= bankStates[b].act2 + Acts(n - 1) + CloseMax + 1
        BY <1>1, <1>2, <1>5, <2>1 DEF Room
    <2>7. Left' >= 1 + Acts(n - 2) + CloseMax
        BY <1>2, <1>6, <1>7, <2>3, <2>5
    <2>8. PICK x : x = bankStates[b].act2
        OBVIOUS
    <2>9. later(x, tRRD) \in {x, tRRD} /\ x \in Nat
        BY <2>1, <2>8 DEF later
    <2>10. L - 1 >= later(x, tRRD) + Acts(n - 2) + CloseMax
        BY <1>6, <1>7, <2>3, <2>5, <2>6, <2>8, <2>9
    <2> QED
        BY <1>2, <1>6, <2>1, <2>3, <2>5, <2>7, <2>8, <2>9, <2>10
<1> QED
    BY <1>4, <1>8, <1>9, <1>10, Zenon DEF Room, NoneHalf

(* A precharge of one bank, or nothing: nothing that is left to do could   *)
(* have been sent.                                                         *)
LEMMA RoomWaiting ==
    ASSUME BanksInv, Calm, Draining, UNCHANGED until_refi,
           \/ NothingToSchedule
           \/ \E c \in CmdQueue : Precharge(c)
    PROVE  Room'
<1>1. /\ phase = "sched" /\ phase' = "que" /\ Room
    BY DEF NothingToSchedule, Precharge, Take, At, Then, Draining
<1>2. PICK L \in Int : L = Left /\ Left' = L - 1 /\ Ahead = 1 /\ Ahead' = 0
    BY <1>1 DEF Left, Ahead, BanksInv, Typed
<1>3. CmdQueue = {} \/ \E c \in CmdQueue : Take(c) /\ c.type = "PRE"
    BY DEF NothingToSchedule, Precharge
<1>4. NoneHalf
    <2> SUFFICES ASSUME NEW t \in Tasks, Half(t) PROVE FALSE
        BY DEF NoneHalf
    <2>1. Cmd("RW", trans[t].bank, t, 0, {}) \in CmdQueue
        BY <1>1 DEF Calm, OneHalf
    <2>2. PICK c \in CmdQueue : Take(c) /\ c.type = "PRE"
        BY <1>3, <2>1
    <2> QED
        BY <1>1, <2>2, BegunFirst
<1>5. /\ L >= 2 /\ (AnyOpen /\ NoActs => L >= 2 + tRP)
      /\ \A b \in Acting : L >= 2 + Acts(A - 1) + CloseMax
    BY <1>1, <1>2, <1>3, <1>4, NothingReady
<1>6. /\ tRP \in Nat /\ CloseMax \in Int /\ 1 + tRP <= CloseMax
    BY Longest, Times
<1>7. /\ \A t \in Tasks : (trans'[t].on <=> trans[t].on) /\ trans'[t].issue = trans[t].issue
      /\ \A b \in Banks : /\ bankStates'[b].pre = bankStates[b].pre /\ (bankStates'[b].act <=> bankStates[b].act)
                          /\ bankStates'[b].act => bankStates'[b].act2 = bankStates[b].act2
                          /\ \/ bankStates'[b].ref = bankStates[b].ref
                             \/ AnyOpen /\ bankStates'[b].ref = later(bankStates[b].ref, tRP)
                          /\ bankStates'[b].state = "RowActive" => st(b) = "RowActive"
    <2>1. CASE NothingToSchedule
        BY <2>1 DEF NothingToSchedule, queVars, st
    <2>2. ASSUME NEW c \in CmdQueue, Precharge(c)
          PROVE  /\ \A t \in Tasks : (trans'[t].on <=> trans[t].on) /\ trans'[t].issue = trans[t].issue
                 /\ \A b \in Banks : /\ bankStates'[b].pre = bankStates[b].pre /\ (bankStates'[b].act <=> bankStates[b].act)
                                     /\ bankStates'[b].act => bankStates'[b].act2 = bankStates[b].act2
                                     /\ \/ bankStates'[b].ref = bankStates[b].ref
                                        \/ AnyOpen /\ bankStates'[b].ref = later(bankStates[b].ref, tRP)
                                     /\ bankStates'[b].state = "RowActive" => st(b) = "RowActive"
        <3>1. c.bank \in Banks /\ st(c.bank) = "RowActive" /\ ~bankStates[c.bank].act /\ AnyOpen
            BY <2>2, Taken DEF Precharge, CmdOk, BanksInv, ActsOk, AnyOpen
        <3>2. \A t \in Tasks : (trans'[t].on <=> trans[t].on) /\ trans'[t].issue = trans[t].issue
            BY <2>2, TransIs DEF Precharge, Closed, BanksInv, Typed, TransType
        <3>3. ASSUME NEW b \in Banks
              PROVE  /\ bankStates'[b].pre = bankStates[b].pre /\ (bankStates'[b].act <=> bankStates[b].act)
                     /\ bankStates'[b].act => bankStates'[b].act2 = bankStates[b].act2
                     /\ \/ bankStates'[b].ref = bankStates[b].ref
                        \/ AnyOpen /\ bankStates'[b].ref = later(bankStates[b].ref, tRP)
                     /\ bankStates'[b].state = "RowActive" => st(b) = "RowActive"
            <4>1. PICK k \in BankType : k = bankStates[b]
                BY DEF BanksInv, Typed
            <4>2. bankStates'[b] = IF b = c.bank THEN Precharged(k) ELSE k
                BY <2>2, <3>1, <4>1 DEF Precharge, BanksInv, Typed
            <4> QED
                BY <3>1, <4>1, <4>2, AfterPrecharged DEF st
        <3> QED
            BY <3>2, <3>3
    <2> QED
        BY <2>1, <2>2
<1>8. \A t \in Tasks : ~Half(t)'
    BY <1>4, <1>7 DEF NoneHalf, Half
<1>9. Acting' = Acting /\ A' = A
    BY <1>7 DEF Acting, A
<1>10. \A b \in Acting : b \in Banks /\ Acts(A - 1) \in Nat
    <2> TAKE b \in Acting
    <2>1. A \in Nat /\ A >= 1
        BY CountBanks DEF A, Acting
    <2> QED
        BY <2>1, ActsIs DEF Acting
<1>11. AnyOpen => L >= 2 + tRP
    <2>1. CASE NoActs
        BY <1>5, <2>1
    <2>2. CASE ~NoActs
        <3>1. PICK b \in Acting : TRUE
            BY <2>2 DEF NoActs, Acting
        <3> QED
            BY <1>5, <1>6, <1>10, <3>1
    <2> QED
        BY <2>1, <2>2
<1>12. AnyOpen' => AnyOpen
    BY <1>7 DEF AnyOpen, st
<1>13. Left' >= 1 /\ (AnyOpen' => Left' >= 1 + tRP)
    BY <1>2, <1>5, <1>6, <1>11, <1>12
<1>14. ASSUME NEW b \in Banks
       PROVE  /\ bankStates'[b].ref + Ahead' <= Left'
              /\ AnyOpen => bankStates'[b].pre + tRP + Ahead' <= Left'
    <2>1. bankStates[b].ref + 1 <= L /\ (AnyOpen => bankStates[b].pre + tRP + 1 <= L)
        BY <1>1, <1>2 DEF Room
    <2>2. bankStates[b].ref \in Nat /\ bankStates[b].pre \in Nat
        BY CapsIs
    <2>3. bankStates'[b].ref + 0 <= L - 1
        BY <1>6, <1>7, <1>11, <2>1, <2>2 DEF later
    <2>4. AnyOpen => bankStates'[b].pre + tRP + 0 <= L - 1
        BY <1>6, <1>7, <2>1, <2>2
    <2> QED
        BY <1>2, <2>3, <2>4
<1>15. \A b \in Acting' : /\ Left' >= 1 + Acts(A' - 1) + CloseMax
                          /\ Left' >= bankStates'[b].act2 + Acts(A' - 1) + CloseMax + Ahead'
    <2> TAKE b \in Acting'
    <2>1. b \in Acting /\ b \in Banks /\ bankStates'[b].act2 = bankStates[b].act2 /\ bankStates[b].act2 \in Nat
        BY <1>7, <1>9, CapsIs DEF Acting
    <2>2. L >= bankStates[b].act2 + Acts(A - 1) + CloseMax + 1 /\ L >= 2 + Acts(A - 1) + CloseMax
        BY <1>1, <1>2, <1>5, <2>1 DEF Room
    <2> QED
        BY <1>2, <1>6, <1>9, <1>10, <2>1, <2>2
<1> QED
    BY <1>8, <1>12, <1>13, <1>14, <1>15, Zenon DEF Room

(* All rows are closed: only the refresh of the rank is left.              *)
LEMMA RoomPrechargeAll ==
    ASSUME BanksInv, Calm, Draining, NEW c \in CmdQueue, PrechargeAll(c), UNCHANGED until_refi
    PROVE  Room'
<1>1. /\ phase = "sched" /\ phase' = "que" /\ Room /\ CmdOk(c) /\ c.type = "PRE_AB"
    BY Taken DEF PrechargeAll, Take, At, Then, Draining
<1>2. PICK L \in Int : L = Left /\ Left' = L - 1 /\ Ahead = 1 /\ Ahead' = 0
    BY <1>1 DEF Left, Ahead, BanksInv, Typed
<1>3. NoneHalf /\ NoActs /\ AnyOpen
    BY <1>1 DEF CmdOk
<1>4. L >= 1 + tRP /\ tRP \in Nat \ {0}
    BY <1>1, <1>2, <1>3, Times DEF Room
<1>5. ASSUME NEW b \in Banks
      PROVE  /\ bankStates'[b].ref + Ahead' <= Left' /\ ~bankStates'[b].act
             /\ bankStates'[b].state = "Precharging"
    <2>1. PICK k \in BankType : k = bankStates[b] /\ bankStates'[b] = Precharged(k)
        BY DEF PrechargeAll, BanksInv, Typed
    <2>2. bankStates'[b].state = "Precharging" /\ bankStates'[b].ref = later(k.ref, tRP) /\ ~bankStates'[b].act
        BY <1>3, <2>1, AfterPrecharged DEF NoActs
    <2>3. k.ref \in Nat /\ k.ref + 1 <= L
        BY <1>1, <1>2, <2>1, CapsIs DEF Room
    <2>4. bankStates'[b].ref + 0 <= L - 1
        BY <1>4, <2>2, <2>3 DEF later
    <2> QED
        BY <1>2, <2>2, <2>4
<1>6. \A t \in Tasks : ~Half(t)'
    <2>1. \A t \in Tasks : (trans'[t].on <=> trans[t].on) /\ trans'[t].issue = trans[t].issue
        BY TransIs DEF PrechargeAll, Closed, BanksInv, Typed, TransType
    <2> QED
        BY <1>3, <2>1 DEF NoneHalf, Half
<1>7. ~AnyOpen' /\ Acting' = {}
    BY <1>5 DEF AnyOpen, Acting, st
<1>8. Left' >= 1
    BY <1>2, <1>4
<1> QED
    BY <1>5, <1>6, <1>7, <1>8, Zenon DEF Room
-----------------------------------------------------------------------------
(* Each action keeps the level.                                            *)
LEMMA CountBounds ==
    ASSUME CountT
    PROVE  /\ refresh_cnt \in Nat /\ ABR_PSTPND_LEVEL \in Nat \ {0}
           /\ Postponed \in Int /\ Postponed <= refresh_cnt + 1
           /\ Postponed = refresh_cnt + 1 => Due
           /\ ~Due /\ ~refresh_pbr_has_finish => Postponed = refresh_cnt
    BY RefreshBankAssumption DEF RefreshBankAssumption, CountT, Postponed

(* Anything but the refresh of the rank.                                   *)
LEMMA LevelSent ==
    ASSUME BanksInv, BanksInv', Calm, Calm', LevelInv, DrainTime < tREFI,
           phase = "sched", phase' = "que",
           UNCHANGED <<refresh_cnt, refresh_pbr_has_finish, refreshALL, until_refi>>,
           CmdQueue # {} \/ UNCHANGED <<bankStates, trans>>,
           Draining => Room'
    PROVE  LevelInv'
<1> SUFFICES ASSUME refresh_cnt = ABR_PSTPND_LEVEL
             PROVE  InRefresh' \/ JustRefreshed' \/ Draining'
    BY DEF LevelInv
<1>1. InRefresh \/ JustDue \/ JustRefreshed \/ Draining
    BY DEF LevelInv
<1>2. /\ until_refi \in Int /\ Left = until_refi /\ Left' = until_refi - 1 /\ Ahead = 1 /\ Ahead' = 0
    BY DEF Left, Ahead, BanksInv, Typed
<1>3. CASE Draining
    BY <1>3 DEF Draining
<1>4. CASE JustDue
    BY <1>4, RoomAtFirst DEF JustDue, Draining
<1>5. CASE InRefresh
    <2>1. bankStates' = bankStates /\ refreshALL.refreshing
        BY <1>5 DEF InRefresh, Calm, AllQuiet
    <2>2. \A b \in Banks : bankStates[b].cnt \in Nat
        BY CapsIs
    <2> QED
        BY <1>2, <1>5, <2>1, <2>2 DEF InRefresh
<1>6. CASE JustRefreshed
    <2>1. UNCHANGED <<bankStates, trans>>
        BY <1>6 DEF JustRefreshed
    <2>2. (NoActs <=> NoActs') /\ (NoneHalf <=> NoneHalf') /\ (AnyOpen <=> AnyOpen')
        BY <2>1 DEF NoActs, NoneHalf, Half, AnyOpen, st
    <2> HIDE DEF NoActs, NoneHalf, AnyOpen
    <2> QED
        BY <1>2, <1>6, <2>1, <2>2 DEF JustRefreshed
<1> QED
    BY <1>1, <1>3, <1>4, <1>5, <1>6

LEMMA LevelCommands ==
    ASSUME BanksInv, BanksInv', Calm, Calm', CountT, LevelInv, DrainTime < tREFI, NEW c \in CmdQueue,
           \/ Activate1(c) \/ Activate2(c) \/ Column(c) \/ Precharge(c) \/ PrechargeAll(c)
           \/ RefreshPair(c) \/ RefreshAll(c)
    PROVE  LevelInv'
<1>1. CASE RefreshAll(c)
    <2>1. refresh_cnt' = refresh_cnt - 1
        BY <1>1 DEF RefreshAll
    <2>2. refresh_cnt' < ABR_PSTPND_LEVEL
        BY <2>1, CountBounds DEF LevelInv
    <2> QED
        BY <2>1, <2>2, CountBounds DEF LevelInv
<1>2. CASE \/ Activate1(c) \/ Activate2(c) \/ Column(c) \/ Precharge(c) \/ PrechargeAll(c)
           \/ RefreshPair(c)
    <2>1. phase = "sched" /\ phase' = "que"
        BY <1>2 DEF Activate1, Activate2, Column, Precharge, PrechargeAll, RefreshPair, Take, At, Then
    <2>2. UNCHANGED <<refresh_cnt, refresh_pbr_has_finish, refreshALL, until_refi>>
        BY <1>2 DEF Activate1, Activate2, Column, Precharge, PrechargeAll, RefreshPair, pbrVars, rankVars
    <2>3. ASSUME Draining PROVE Room'
        <3>1. c.type \notin {"ACT1", "REFPB"}
            BY <2>1, <2>3 DEF Draining, DrainQueue
        <3>2. CASE Activate2(c)
            BY <2>2, <2>3, <3>2, RoomActivate2
        <3>3. CASE Column(c)
            BY <2>2, <2>3, <3>3, RoomColumn
        <3>4. CASE Precharge(c)
            BY <2>2, <2>3, <3>4, RoomWaiting
        <3>5. CASE PrechargeAll(c)
            BY <2>2, <2>3, <3>5, RoomPrechargeAll
        <3> QED
            BY <1>2, <3>1, <3>2, <3>3, <3>4, <3>5 DEF Activate1, RefreshPair
    <2> QED
        BY <2>1, <2>2, <2>3, LevelSent
<1> QED
    BY <1>1, <1>2

LEMMA LevelNothing ==
    ASSUME BanksInv, BanksInv', Calm, Calm', LevelInv, DrainTime < tREFI, NothingToSchedule
    PROVE  LevelInv'
<1>1. /\ phase = "sched" /\ phase' = "que"
      /\ UNCHANGED <<refresh_cnt, refresh_pbr_has_finish, refreshALL, until_refi, bankStates, trans>>
    BY DEF NothingToSchedule, At, Then, queVars, pbrVars, rankVars
<1> QED
    BY <1>1, LevelSent, RoomWaiting

(* A request finds a place: nothing that counts is changed.                *)
LEMMA LevelPlaced ==
    ASSUME BanksInv, LevelInv, Placed
    PROVE  LevelInv'
<1>1. /\ phase = "add" /\ phase' = "fresh" /\ Left' = Left /\ Ahead' = Ahead /\ Limit' = Limit
      /\ UNCHANGED <<CmdQueue, bankStates, refreshALL, refresh_cnt, refresh_pbr_has_finish, until_refi>>
    BY DEF Placed, Left, Ahead, Limit
<1>2. \A t \in Tasks : (Half(t)' <=> Half(t)) /\ (Half(t) => trans'[t] = trans[t])
    BY PlacedHalf
<1> HIDE DEF Half
<1>3. /\ Acting' = Acting /\ A' = A /\ (NoActs' <=> NoActs) /\ (AnyOpen' <=> AnyOpen)
      /\ (NoneHalf' <=> NoneHalf)
    BY <1>1, <1>2 DEF Acting, A, NoActs, AnyOpen, NoneHalf, st
<1>4. InRefresh => InRefresh'
    BY <1>1 DEF InRefresh
<1>5. JustDue => JustDue'
    BY <1>1 DEF JustDue
<1>6. ~JustRefreshed
    BY <1>1 DEF JustRefreshed
<1>7. ASSUME Draining PROVE Draining'
    <2>1. Room'
        BY <1>1, <1>2, <1>3, <1>7 DEF Draining, Room
    <2>2. ASSUME NEW c \in CmdQueue, c.type = "RW" PROVE Half(c.task)'
        <3>1. Half(c.task) /\ c.task \in Tasks
            BY <1>1, <1>7, <2>2 DEF Draining, DrainQueue, BanksInv, QueueOk, CmdOk
        <3> QED
            BY <1>2, <3>1
    <2>3. DrainQueue'
        BY <1>1, <1>3, <1>7, <2>2 DEF Draining, DrainQueue
    <2> QED
        BY <1>1, <1>7, <2>1, <2>3 DEF Draining
<1> QED
    BY <1>1, <1>4, <1>5, <1>6, <1>7 DEF LevelInv

(* A cycle passes.                                                         *)
LEMMA RefreshedTogether ==
    ASSUME BanksInv, Calm, StateFresh, InRefresh
    PROVE  InRefresh' \/ JustRefreshed'
<1>1. /\ phase = "fresh" /\ phase' = "sched" /\ Left' = Left /\ Ahead = 0 /\ Ahead' = 1
      /\ UNCHANGED <<CmdQueue, trans, until_refi>> /\ Left \in Int
    BY DEF StateFresh, At, Then, Left, Ahead, queVars, BanksInv, Typed
<1>2. /\ refreshALL.refreshing /\ NoActs /\ NoneHalf /\ CmdQueue = {}
      /\ \A b \in Banks : st(b) = "Refreshing"
      /\ \A a, b \in Banks : bankStates[a].cnt = bankStates[b].cnt
    BY DEF InRefresh, Calm, AllQuiet, BanksInv, Lockstep, InStep, Refreshing
<1>3. PICK a \in Banks : TRUE
    BY Times DEF Banks, NUM_BANKS
<1>4. PICK n \in Nat : n = bankStates[a].cnt /\ n >= 1
    BY <1>2, CapsIs DEF BanksInv, BanksBusy, BusyFor, st
<1>5. ASSUME NEW b \in Banks
      PROVE  /\ bankStates[b].cnt = n /\ n + 1 <= Left /\ bankStates[b].ref <= n /\ bankStates[b].ref \in Nat
             /\ bankStates'[b].cnt = n - 1 /\ ~bankStates'[b].act /\ bankStates'[b].ref = less(bankStates[b].ref)
             /\ bankStates'[b].state = IF n = 1 THEN "Idle" ELSE "Refreshing"
    <2>1. bankStates[b].cnt = n /\ n + 1 <= Left /\ bankStates[b].ref <= n
        BY <1>1, <1>2, <1>4 DEF InRefresh, Calm, AllQuiet
    <2>2. bankStates'[b].cnt = n - 1
        BY <1>4, <2>1, AfterFresh DEF less
    <2>3. /\ ~bankStates'[b].act /\ bankStates'[b].ref = less(bankStates[b].ref)
          /\ bankStates'[b].state = IF n = 1 THEN "Idle" ELSE "Refreshing"
        BY <1>2, <2>1, AfterFresh DEF NoActs, st
    <2> QED
        BY <2>1, <2>2, <2>3, CapsIs
<1>6. CASE n = 1
    <2>1. RefreshEnds # {}
        BY <1>2, <1>3, <1>5, <1>6 DEF RefreshEnds, Ends
    <2>2. refreshALL' = [waiting |-> FALSE, refreshing |-> FALSE]
        BY <1>2, <2>1 DEF StateFresh
    <2>3. \A b \in Banks : ~bankStates'[b].act /\ bankStates'[b].ref = 0 /\ bankStates'[b].state = "Idle"
        BY <1>5, <1>6 DEF less
    <2>4. NoActs' /\ ~AnyOpen' /\ NoneHalf'
        BY <1>1, <1>2, <2>3 DEF NoActs, AnyOpen, NoneHalf, Half, st
    <2>5. Left' >= 1 + Ahead'
        BY <1>1, <1>3, <1>5, <1>6
    <2> QED
        BY <1>1, <1>2, <2>2, <2>3, <2>4, <2>5 DEF JustRefreshed
<1>7. CASE n # 1
    <2>1. RefreshEnds = {}
        BY <1>5, <1>7 DEF RefreshEnds, Ends
    <2>2. refreshALL' = refreshALL
        BY <2>1 DEF StateFresh
    <2>3. \A b \in Banks : bankStates'[b].cnt + 1 + Ahead' <= Left'
        BY <1>1, <1>4, <1>5
    <2> QED
        BY <1>2, <2>2, <2>3 DEF InRefresh
<1> QED
    BY <1>6, <1>7

LEMMA LevelStateFresh ==
    ASSUME BanksInv, Calm, LevelInv, StateFresh
    PROVE  LevelInv'
<1>1. /\ phase = "fresh" /\ phase' = "sched" /\ Left' = Left /\ Ahead = 0 /\ Ahead' = 1 /\ Limit = 1 /\ Limit' = 0
      /\ UNCHANGED <<CmdQueue, trans, until_refi, refresh_cnt, refresh_pbr_has_finish>> /\ Left \in Int
    BY DEF StateFresh, At, Then, Left, Ahead, Limit, queVars, BanksInv, Typed
<1>2. ~refreshALL.refreshing => refreshALL' = refreshALL
    BY DEF StateFresh
<1>3. ASSUME NEW b \in Banks
      PROVE  /\ bankStates[b].ref \in Nat /\ bankStates[b].pre \in Nat /\ bankStates[b].act2 \in Nat
             /\ bankStates'[b].ref = less(bankStates[b].ref) /\ bankStates'[b].pre = less(bankStates[b].pre)
             /\ bankStates'[b].act2 = less(bankStates[b].act2) /\ (bankStates'[b].act <=> bankStates[b].act)
             /\ bankStates'[b].state = "RowActive" <=> bankStates[b].state = "RowActive"
    BY AfterFresh, CapsIs
<1>4. /\ Acting' = Acting /\ A' = A /\ (NoActs' <=> NoActs) /\ (AnyOpen' <=> AnyOpen)
      /\ (NoneHalf' <=> NoneHalf) /\ \A t \in Tasks : Half(t)' <=> Half(t)
    BY <1>1, <1>3 DEF Acting, A, NoActs, AnyOpen, NoneHalf, Half, st
<1>5. JustDue => JustDue'
    BY <1>1, <1>2 DEF JustDue
<1>6. ~JustRefreshed
    BY <1>1 DEF JustRefreshed
<1>7. ASSUME Draining PROVE Draining'
    <2>0. Room /\ DrainQueue /\ ~refreshALL.refreshing /\ refreshALL.waiting /\ refreshALL' = refreshALL
        BY <1>1, <1>2, <1>7 DEF Draining
    <2>1. Left >= 1 /\ (AnyOpen => Left >= 1 + tRP) /\ tRP \in Nat /\ CloseMax \in Int
        BY <2>0, Times, Longest DEF Room
    <2>2. ASSUME NEW b \in Banks
          PROVE  /\ bankStates'[b].ref + Ahead' <= Left'
                 /\ AnyOpen => bankStates'[b].pre + tRP + Ahead' <= Left'
        <3>1. bankStates[b].ref + 0 <= Left /\ (AnyOpen => bankStates[b].pre + tRP + 0 <= Left)
            BY <1>1, <2>0 DEF Room
        <3>2. less(bankStates[b].ref) + 1 <= Left
            BY <1>1, <1>3, <2>1, <3>1 DEF less
        <3>3. AnyOpen => less(bankStates[b].pre) + tRP + 1 <= Left
            BY <1>1, <1>3, <2>1, <3>1 DEF less
        <3> QED
            BY <1>1, <1>3, <3>2, <3>3
    <2>3. ASSUME NEW b \in Acting
          PROVE  /\ Left' >= 1 + Acts(A - 1) + CloseMax
                 /\ Left' >= bankStates'[b].act2 + Acts(A - 1) + CloseMax + Ahead'
        <3>1. b \in Banks /\ A \in Nat /\ A >= 1
            BY <2>3, CountBanks DEF A, Acting
        <3>2. Acts(A - 1) \in Nat
            BY <3>1, ActsIs
        <3>3. Left >= 1 + Acts(A - 1) + CloseMax /\ Left >= bankStates[b].act2 + Acts(A - 1) + CloseMax + 0
            BY <1>1, <2>0, <2>3 DEF Room
        <3>4. Left >= less(bankStates[b].act2) + Acts(A - 1) + CloseMax + 1
            BY <1>1, <1>3, <2>1, <3>1, <3>2, <3>3 DEF less
        <3> QED
            BY <1>1, <1>3, <3>1, <3>3, <3>4
    <2>4. \A t \in Tasks : Half(t) => Left' >= (BURSTS - trans'[t].issue) + Acts(A) + CloseMax
        BY <1>1, <2>0 DEF Room
    <2>5. Room'
        BY <1>1, <1>4, <2>1, <2>2, <2>3, <2>4, Zenon DEF Room
    <2>6. ASSUME NEW c \in CmdQueue PROVE c.type \notin {"ACT1", "REFPB"} /\ (c.type = "RW" => Half(c.task)')
        <3>1. c.type \notin {"ACT1", "REFPB"} /\ (c.type = "RW" => Half(c.task) /\ c.task \in Tasks)
            BY <2>0 DEF DrainQueue, BanksInv, QueueOk, CmdOk
        <3> QED
            BY <1>4, <3>1
    <2>7. ASSUME NEW b \in Banks
          PROVE  /\ bankStates'[b].ref <= 0 => bankStates[b].ref <= 1
                 /\ bankStates'[b].pre <= 0 => bankStates[b].pre <= 1
                 /\ bankStates'[b].act2 <= 0 => bankStates[b].act2 <= 1
        BY <1>3 DEF less
    <2>8. \A b \in Acting : bankStates'[b].act2 <= 0 => \E c \in CmdQueue : c.type = "ACT2"
        BY <1>1, <2>0, <2>7 DEF DrainQueue, Acting
    <2>9. NoActs /\ NoneHalf =>
            /\ AnyOpen /\ (\A b \in Banks : bankStates'[b].pre <= 0) => \E c \in CmdQueue : c.type = "PRE_AB"
            /\ ~AnyOpen /\ (\A b \in Banks : bankStates'[b].ref <= 0) => \E c \in CmdQueue : c.type = "REF"
        <3> HIDE DEF NoActs, NoneHalf, AnyOpen
        <3> QED
            BY <1>1, <2>0, <2>7 DEF DrainQueue
    <2>10. DrainQueue'
        <3> HIDE DEF NoActs, NoneHalf, AnyOpen, Half, Acting
        <3> QED
            BY <1>1, <1>4, <2>6, <2>8, <2>9 DEF DrainQueue
    <2> QED
        BY <2>0, <2>5, <2>10 DEF Draining
<1>8. InRefresh => InRefresh' \/ JustRefreshed'
    BY RefreshedTogether
<1> QED
    BY <1>1, <1>5, <1>6, <1>7, <1>8 DEF LevelInv
(* que_pipeline asks for the second ACT of a bank whose time it is, and for*)
(* no new transaction.                                                     *)
LEMMA DrainAsked ==
    ASSUME BanksInv, Calm, refreshALL.waiting, QuePipeline
    PROVE  /\ \A c \in CmdQueue' : c.type \notin {"ACT1", "REFPB"} /\ (c.type = "RW" => Half(c.task)')
           /\ \A b \in Acting : bankStates[b].act2 <= 1 => \E c \in CmdQueue' : c.type = "ACT2"
<1>1. /\ UNCHANGED <<config, bankStates, refreshALL, force_pbr_refresh>>
      /\ \A t \in Tasks : /\ Half(t)' <=> Half(t)
                          /\ trans[t].act => t \in Busy
    BY Asked
<1>2. PICK S \in SUBSET Closable :
         CmdQueue' = {Cmd(need_issue(t), trans[t].bank, t, 0, {}) : t \in {u \in Busy : lc(u)}}
                     \cup {Cmd("PRE", b, NoTask, 1, {}) : b \in S}
    BY Asked
<1>3. ASSUME NEW t \in Tasks, trans[t].act
      PROVE  need_issue(t) = "ACT2" /\ trans[t].issue = 0 /\ trans[t].bank \in Banks
    <2>1. /\ trans[t].issue = 0 /\ trans[t].bank \in Banks /\ bankStates[trans[t].bank].act
          /\ st(trans[t].bank) # "RowActive"
        BY <1>3, TransIs DEF BanksInv, ActsOk
    <2> QED
        BY <1>3, <2>1 DEF need_issue
<1>4. ASSUME NEW c \in CmdQueue' PROVE c.type \notin {"ACT1", "REFPB"} /\ (c.type = "RW" => Half(c.task)')
    <2>1. CASE \E t \in {u \in Busy : lc(u)} : c = Cmd(need_issue(t), trans[t].bank, t, 0, {})
        <3>1. PICK t \in Busy : lc(t) /\ c = Cmd(need_issue(t), trans[t].bank, t, 0, {})
            BY <2>1
        <3>2. c.type = need_issue(t) /\ c.task = t /\ t \in Tasks /\ trans[t].on /\ trans[t].issue < BURSTS
            BY <3>1 DEF Cmd, Busy
        <3>3. CASE trans[t].act
            BY <1>3, <3>2, <3>3
        <3>4. CASE ~trans[t].act
            <4>1. trans[t].issue # 0
                BY <3>1, <3>4 DEF lc, HeldBack
            <4>2. Half(t)
                BY <3>2, <4>1, TransIs, Times DEF Half, BanksInv
            <4>3. need_issue(t) = "RW"
                <5>1. Hit(t) /\ st(trans[t].bank) = "RowActive"
                    BY <3>2, <4>2 DEF BanksInv, ActsOk, Hit, st
                <5> QED
                    BY <5>1 DEF need_issue
            <4> QED
                BY <1>1, <3>2, <4>2, <4>3
        <3> QED
            BY <3>3, <3>4
    <2>2. CASE \E b \in S : c = Cmd("PRE", b, NoTask, 1, {})
        BY <2>2 DEF Cmd
    <2> QED
        BY <1>2, <2>1, <2>2
<1>5. ASSUME NEW b \in Acting, bankStates[b].act2 <= 1 PROVE \E c \in CmdQueue' : c.type = "ACT2"
    <2>1. PICK t \in Tasks : trans[t].act /\ trans[t].bank = b
        BY <1>5 DEF Calm, Acted
    <2>2. need_issue(t) = "ACT2" /\ trans[t].issue = 0 /\ t \in Busy
        BY <1>1, <1>3, <2>1
    <2>3. ~HeldBack(t)
        BY <2>1 DEF HeldBack, ForcedBank, Calm, Unforced
    <2>4. lc(t)
        BY <1>5, <2>1, <2>2, <2>3 DEF lc, timing_met
    <2>5. Cmd("ACT2", b, t, 0, {}) \in CmdQueue'
        BY <1>2, <2>1, <2>2, <2>4
    <2> QED
        BY <2>5 DEF Cmd
<1> QED
    BY <1>4, <1>5

LEMMA LevelQuePipeline ==
    ASSUME BanksInv, Calm, LevelInv, QuePipeline
    PROVE  LevelInv'
<1>1. /\ phase = "que" /\ phase' = "ref" /\ Left' = Left /\ Ahead' = Ahead /\ Limit' = 1
      /\ UNCHANGED <<bankStates, refreshALL, refresh_cnt, refresh_pbr_has_finish, until_refi>>
    BY Asked DEF Left, Ahead, Limit
<1>2. \A t \in Tasks : (Half(t)' <=> Half(t)) /\ (Half(t) => trans'[t] = trans[t])
    BY Asked
<1> HIDE DEF Half
<1>3. /\ Acting' = Acting /\ A' = A /\ (NoActs' <=> NoActs) /\ (AnyOpen' <=> AnyOpen)
      /\ (NoneHalf' <=> NoneHalf)
    BY <1>1, <1>2 DEF Acting, A, NoActs, AnyOpen, NoneHalf, st
<1>4. InRefresh => InRefresh'
    BY <1>1 DEF InRefresh
<1>5. ~JustDue
    BY <1>1 DEF JustDue
<1>6. JustRefreshed => JustRefreshed'
    <2> HIDE DEF NoActs, NoneHalf, AnyOpen
    <2> QED
        BY <1>1, <1>3 DEF JustRefreshed
<1>7. ASSUME Draining PROVE Draining'
    <2>1. Room'
        BY <1>1, <1>2, <1>3, <1>7 DEF Draining, Room
    <2>2. DrainQueue'
        BY <1>1, <1>3, <1>7, DrainAsked, Zenon DEF Draining, DrainQueue
    <2> QED
        BY <1>1, <1>7, <2>1, <2>2 DEF Draining
<1> QED
    BY <1>1, <1>4, <1>5, <1>6, <1>7 DEF LevelInv

(* refresh, when no more refreshes may be postponed: the whole rank waits. *)
LEMMA HeldIs ==
    ASSUME BanksInv
    PROVE  AllHeld <=> ~(NoActs /\ NoneHalf)
<1>1. (\E b \in Banks : HalfDone(b)) <=> ~NoneHalf
    <2>1. ASSUME NEW b \in Banks, HalfDone(b) PROVE ~NoneHalf
        <3>1. PICK t \in Busy : trans[t].issue > 0
            BY <2>1 DEF HalfDone
        <3>2. Half(t) /\ t \in Tasks
            BY <3>1, TransIs, Times DEF Busy, Half, BanksInv
        <3> QED
            BY <3>2 DEF NoneHalf
    <2>2. ASSUME NEW t \in Tasks, Half(t) PROVE \E b \in Banks : HalfDone(b)
        <3>1. trans[t].bank \in Banks /\ t \in Busy /\ trans[t].issue > 0
            BY <2>2, TransIs, Times DEF Busy, Half, BanksInv
        <3> QED
            BY <3>1 DEF HalfDone
    <2> QED
        BY <2>1, <2>2 DEF NoneHalf
<1>2. act2_left <=> ~NoActs
    BY DEF act2_left, NoActs
<1> QED
    BY <1>1, <1>2 DEF AllHeld

(* The command for the rank is queued as soon as it may be sent.           *)
LEMMA DrainRefresh ==
    ASSUME BanksInv, Refresh, Postponed > 0, AllForced, ~refreshALL.refreshing,
           ~SendRef => /\ \A c \in CmdQueue : /\ c.type \notin {"ACT1", "REFPB"}
                                              /\ c.type = "RW" => Half(c.task)
                       /\ \A b \in Acting : bankStates[b].act2 <= 1 => \E c \in CmdQueue : c.type = "ACT2"
    PROVE  DrainQueue'
<1>1. /\ phase' = "add" /\ Limit' = 1 /\ UNCHANGED <<bankStates, trans>>
    BY DEF Refresh, At, Then, queVars, Limit
<1>2. /\ Acting' = Acting /\ (NoActs' <=> NoActs) /\ (AnyOpen' <=> AnyOpen)
      /\ (NoneHalf' <=> NoneHalf) /\ \A t \in Tasks : Half(t)' <=> Half(t)
    BY <1>1 DEF Acting, A, NoActs, AnyOpen, NoneHalf, Half, st
<1>3. AllWants <=> NoActs /\ NoneHalf
    BY HeldIs DEF AllWants
<1>4. Skipped
    BY DEF Skipped, AllWaiting
<1>5. CASE SendPreAll \/ SendRef
    <2>1. CmdQueue' = AllCommand
        BY <1>4, <1>5, RefreshQueues
    <2>2. NoActs /\ NoneHalf
        BY <1>3, <1>5 DEF SendPreAll, SendRef
    <2>3. /\ \A c \in CmdQueue' : c.type \in {"PRE_AB", "REF"}
          /\ \E c \in CmdQueue' : c.type = (IF SendRef THEN "REF" ELSE "PRE_AB")
        BY <2>1 DEF AllCommand, Cmd
    <2>4. Acting = {}
        BY <2>2 DEF NoActs, Acting
    <2>5. /\ AnyOpen => ~SendRef
          /\ ~AnyOpen => SendRef
        BY <1>5 DEF SendPreAll, SendRef
    <2> HIDE DEF SendRef, AnyOpen, NoActs, NoneHalf, Acting
    <2> QED
        BY <1>1, <1>2, <2>3, <2>4, <2>5 DEF DrainQueue
<1>6. CASE ~(SendPreAll \/ SendRef)
    <2>1. CmdQueue' = CmdQueue
        BY <1>4, <1>6, RefreshQueues
    <2>2. ASSUME NEW c \in CmdQueue, c.type = "RW" PROVE Half(c.task)'
        <3>1. Half(c.task) /\ c.task \in Tasks
            BY <1>6, <2>2 DEF BanksInv, QueueOk, CmdOk
        <3> QED
            BY <1>2, <3>1
    <2>3. NoActs /\ NoneHalf => /\ ~(AnyOpen /\ \A b \in Banks : bankStates[b].pre <= 1)
                                /\ ~(~AnyOpen /\ \A b \in Banks : bankStates[b].ref <= 1)
        BY <1>3, <1>6 DEF SendPreAll, SendRef
    <2> HIDE DEF AnyOpen, NoActs, NoneHalf, Acting, Half
    <2> QED
        BY <1>1, <1>2, <1>6, <2>1, <2>2, <2>3 DEF DrainQueue
<1> QED
    BY <1>5, <1>6

LEMMA LevelRefresh ==
    ASSUME BanksInv, Calm, CountT, LevelInv, DrainTime < tREFI, Refresh
    PROVE  LevelInv'
<1>1. /\ phase = "ref" /\ phase' = "add" /\ Limit = 1 /\ Left = until_refi - 1 /\ Left' = until_refi'
      /\ Ahead = 0 /\ Ahead' = 0 /\ UNCHANGED <<bankStates, trans>> /\ until_refi \in 1..tREFI
    BY DEF Refresh, At, Then, queVars, Limit, Left, Ahead, BanksInv, Typed
<1>2. /\ Acting' = Acting /\ A' = A /\ (NoActs' <=> NoActs) /\ (AnyOpen' <=> AnyOpen)
      /\ (NoneHalf' <=> NoneHalf) /\ \A t \in Tasks : Half(t)' <=> Half(t)
    BY <1>1 DEF Acting, A, NoActs, AnyOpen, NoneHalf, Half, st
<1>3. /\ refresh_cnt' = Postponed
      /\ until_refi' = (IF Due THEN tREFI ELSE until_refi - 1)
      /\ refreshALL'.waiting <=> AllWaiting
      /\ refreshALL'.refreshing <=> refreshALL.refreshing
      /\ Skipped => ~refresh_pbr_has_finish'
    BY RefreshQueues
<1>4. Postponed = ABR_PSTPND_LEVEL =>
        /\ Postponed > 0 /\ AllForced /\ AllWaiting /\ Skipped /\ ~refresh_pbr_has_finish' /\ refreshALL'.waiting
    BY <1>3, CountBounds DEF AllForced, AllWaiting, Skipped
<1>5. CASE refresh_cnt < ABR_PSTPND_LEVEL
    <2>1. Postponed <= ABR_PSTPND_LEVEL
        BY <1>5, CountBounds
    <2>2. ASSUME Postponed = ABR_PSTPND_LEVEL PROVE InRefresh' \/ JustDue'
        <3>1. Due /\ until_refi' = tREFI
            BY <1>3, <1>5, <2>2, CountBounds
        <3>2. CASE refreshALL.refreshing
            <4>1. tRFCAB < tREFI /\ tRFCAB \in Int /\ tREFI \in Int
                BY Times, Longest, InTimeFor
            <4>2. \A b \in Banks : bankStates[b].cnt <= tRFCAB /\ bankStates[b].cnt \in Nat
                BY <3>2, CapsIs DEF Calm, AllQuiet
            <4>3. \A b \in Banks : bankStates'[b].cnt + 1 + Ahead' <= Left'
                BY <1>1, <3>1, <4>1, <4>2
            <4> QED
                BY <1>3, <3>2, <4>3 DEF InRefresh
        <3>3. CASE ~refreshALL.refreshing
            BY <1>1, <1>3, <1>4, <2>2, <3>1, <3>3 DEF JustDue
        <3> QED
            BY <3>2, <3>3
    <2> QED
        BY <1>3, <1>4, <2>1, <2>2 DEF LevelInv
<1>6. CASE refresh_cnt = ABR_PSTPND_LEVEL
    <2>1. ~refresh_pbr_has_finish /\ (InRefresh \/ JustRefreshed \/ Draining)
        BY <1>1, <1>6 DEF LevelInv, JustDue
    <2>2. Left >= 1
        <3>1. CASE InRefresh
            <4>1. PICK b \in Banks : TRUE
                BY Times DEF Banks, NUM_BANKS
            <4>2. bankStates[b].cnt \in Nat /\ bankStates[b].cnt + 1 + 0 <= Left
                BY <1>1, <3>1, CapsIs DEF InRefresh
            <4> QED
                BY <1>1, <4>2
        <3>2. CASE JustRefreshed
            BY <1>1, <3>2 DEF JustRefreshed
        <3>3. CASE Draining
            BY <3>3 DEF Draining, Room
        <3> QED
            BY <2>1, <3>1, <3>2, <3>3
    <2>3. ~Due /\ Postponed = ABR_PSTPND_LEVEL /\ Left' = Left
        <3>1. ~Due
            BY <1>1, <2>2 DEF Due
        <3> QED
            BY <1>1, <1>3, <1>6, <2>1, <3>1, CountBounds
    <2>4. InRefresh => InRefresh'
        BY <1>1, <1>3, <2>3 DEF InRefresh
    <2>5. ASSUME JustRefreshed PROVE Draining'
        <3>1. NoActs /\ NoneHalf /\ ~AnyOpen /\ ~refreshALL.refreshing /\ \A b \in Banks : bankStates[b].ref = 0
            BY <2>5 DEF JustRefreshed
        <3>2. Acting' = {} /\ \A t \in Tasks : ~Half(t)'
            BY <1>2, <3>1 DEF NoActs, Acting, NoneHalf
        <3>3. \A b \in Banks : bankStates'[b].ref + Ahead' <= Left'
            BY <1>1, <2>2, <2>3, <3>1
        <3>4. Room'
            <4> HIDE DEF AnyOpen, Half, Acting
            <4> QED
                BY <1>2, <2>2, <2>3, <3>1, <3>2, <3>3, Zenon DEF Room
        <3>5. SendRef
            BY <1>4, <2>3, <3>1, HeldIs DEF SendRef, AllWants
        <3>6. DrainQueue'
            BY <1>4, <2>3, <3>1, <3>5, DrainRefresh
        <3> QED
            BY <1>3, <1>4, <2>3, <3>1, <3>4, <3>6 DEF Draining
    <2>6. ASSUME Draining PROVE Draining'
        <3>1. Room /\ DrainQueue /\ ~refreshALL.refreshing
            BY <1>1, <2>6 DEF Draining
        <3>2. Room'
            <4> HIDE DEF AnyOpen, Half, Acting
            <4> QED
                BY <1>1, <1>2, <2>3, <3>1 DEF Room
        <3>3. DrainQueue'
            BY <1>1, <1>4, <2>3, <3>1, DrainRefresh DEF DrainQueue
        <3> QED
            BY <1>3, <1>4, <2>3, <3>1, <3>2, <3>3 DEF Draining
    <2> QED
        BY <1>3, <1>4, <2>1, <2>3, <2>4, <2>5, <2>6, CountBounds DEF LevelInv
<1> QED
    BY <1>5, <1>6, CountBounds DEF LevelInv

LEMMA LevelInit ==
    ASSUME Init
    PROVE  LevelInv
<1>1. refresh_cnt = 0 /\ ABR_PSTPND_LEVEL \in Nat \ {0}
    BY RefreshBankAssumption DEF Init, RefreshBankAssumption
<1> QED
    BY <1>1 DEF LevelInv

LEMMA LevelNext ==
    ASSUME BanksInv, BanksInv', Calm, Calm', CountT, LevelInv, DrainTime < tREFI, [Next]_vars
    PROVE  LevelInv'
<1>1. CASE UNCHANGED vars
    <2>1. /\ UNCHANGED <<phase, bankStates, CmdQueue, trans, refresh_pbr_has_finish, refresh_cnt,
                         refreshALL, until_refi>>
        BY <1>1 DEF vars, queVars, pbrVars, rankVars
    <2>2. /\ Left' = Left /\ Ahead' = Ahead /\ Limit' = Limit /\ Acting' = Acting /\ A' = A
          /\ (NoActs' <=> NoActs) /\ (AnyOpen' <=> AnyOpen) /\ (NoneHalf' <=> NoneHalf)
          /\ \A t : Half(t)' <=> Half(t)
        BY <2>1 DEF Left, Ahead, Limit, Acting, A, NoActs, AnyOpen, NoneHalf, Half, st
    <2> HIDE DEF Left, Ahead, Limit, Acting, A, NoActs, AnyOpen, NoneHalf, Half
    <2>3. (Room <=> Room') /\ (DrainQueue <=> DrainQueue')
        BY <2>1, <2>2 DEF Room, DrainQueue
    <2> QED
        BY <2>1, <2>2, <2>3 DEF LevelInv, InRefresh, JustDue, JustRefreshed, Draining
<1>2. CASE (\E t \in Tasks, w \in Wanted : AddTransaction(t, w)) \/ NoTransaction
    BY <1>2, AddPlaces, LevelPlaced
<1>3. CASE StateFresh
    BY <1>3, LevelStateFresh
<1>4. ASSUME NEW c \in CmdQueue,
             \/ Activate1(c) \/ Activate2(c) \/ Column(c) \/ Precharge(c) \/ PrechargeAll(c)
             \/ RefreshPair(c) \/ RefreshAll(c)
      PROVE  LevelInv'
    BY <1>4, LevelCommands
<1>5. CASE NothingToSchedule
    BY <1>5, LevelNothing
<1>6. CASE QuePipeline
    BY <1>6, LevelQuePipeline
<1>7. CASE Refresh
    BY <1>7, LevelRefresh
<1> QED
    BY <1>1, <1>2, <1>3, <1>4, <1>5, <1>6, <1>7 DEF Next

(* Refreshes are never postponed beyond the limit at which refresh stops   *)
(* the simulator ("Postponed exceed 8", MemoryController.cpp:3465), for any*)
(* number of banks and transactions: at ABR_PSTPND_LEVEL the whole rank is *)
(* asked for, and it is refreshed before the next refresh falls due.  Three*)
(* things are needed.  The level is within the limit.  A transaction is    *)
(* never held back between its two ACT (NeverHeld): with SBR_REQ_MODE 1 and*)
(* a small SBR_FRCST_NUM it may be, and then the rank waits for ever.  And *)
(* tREFI leaves the time that the rank may need to become idle.            *)
THEOREM PostponedBoundedHolds ==
    ASSUME ABR_PSTPND_LEVEL <= LIMIT, NeverHeld, DrainTime < tREFI
    PROVE  Spec => []PostponedBounded
<1> DEFINE LInv == BanksInv /\ OwedInv /\ Calm /\ LevelInv
<1>1. Init => LInv
    BY BanksInit, OwedInit, CalmInit, LevelInit, RefreshBankAssumption
<1>2. LInv /\ [Next]_vars => LInv'
    <2> SUFFICES ASSUME LInv, [Next]_vars PROVE LInv'
        OBVIOUS
    <2>1. BanksInv' /\ OwedInv'
        BY BanksNext, OwedNext, RefreshBankAssumption
    <2>2. Calm'
        BY CalmNext
    <2>3. CountT
        BY DEF OwedInv
    <2> QED
        BY <2>1, <2>2, <2>3, LevelNext
<1>3. LInv => PostponedBounded
    BY CountBounds, RefreshBankAssumption DEF LevelInv, PostponedBounded, OwedInv, RefreshBankAssumption
<1> QED
    BY <1>1, <1>2, <1>3, PTL DEF Spec
=============================================================================
