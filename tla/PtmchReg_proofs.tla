--------------------------- MODULE PtmchReg_proofs ---------------------------
(***************************************************************************)
(* Proofs about the counters, for every set of classes, every width of the *)
(* counters and every length and spacing of the pulses; and proof that the *)
(* page log is true, for every size of the log and of PADDR_CNT, whatever  *)
(* pages the instructions have, and however the frames follow one another  *)
(* and cut the pulses.                                                     *)
(*                                                                         *)
(* The counters.  A pulse that two edges of CLK100M have seen is under way *)
(* in the synchroniser of its class until it is counted, at one of three   *)
(* places (Coming, Arrived, Rising).  CntInv says that a counter and the   *)
(* pulse under way, if there is one, make up the pulses there were         *)
(* (Agrees), from what the environment keeps to between two pulses         *)
(* (Spaced) and what the flip-flops can hold (Shaped).                     *)
(*                                                                         *)
(* The log.  A pulse rises when the last one has left the synchronisers    *)
(* (Alone), so that one command is under way at a time.  It is followed    *)
(* from the flip-flops that see it to PLS_RISE, and beside it the page on  *)
(* its own synchroniser (Paged): the buffer loads what the log may show    *)
(* for the command that was counted.  Up to then the log keeps what it     *)
(* has, since PADDR_CNT points at an entry that agrees with the buffer     *)
(* (Buffered).                                                             *)
(***************************************************************************)
EXTENDS PtmchReg, TLAPS
-----------------------------------------------------------------------------
(* The counters.                                                           *)

(* Where a pulse of c is: seen twice by the first two flip-flops; agreed   *)
(* on by the two that are compared; in the one that is counted.            *)
Coming(c)  == ar_trg_pls_1d[c] = 1 /\ sr_trg_pls_2d[c] = 1 /\ sr_trg_pls_3d[c] = 0
Arrived(c) == sr_trg_pls_2d[c] = 1 /\ sr_trg_pls_3d[c] = 1 /\ sr_trg_pls_4d[c] = 0
Rising(c)  == sr_trg_pls_4d[c] = 1 /\ sr_trg_pls_5d[c] = 0
UnderWay(c) == Coming(c) \/ Arrived(c) \/ Rising(c)
Counted(c) == IF UnderWay(c) THEN seen[c] - 1 ELSE seen[c]

(* What the last edges saw, by the age of the present or the last pulse.   *)
Spaced(c) ==
    /\ lowAge >= 1 => ar_trg_pls_1d[c] = 0
    /\ lowAge >= 2 => sr_trg_pls_2d[c] = 0
    /\ lowAge >= 3 => sr_trg_pls_3d[c] = 0
    /\ lowAge >= 4 => sr_trg_pls_4d[c] = 0
    /\ highAge = 1 => sr_trg_pls_2d[c] = 0 /\ sr_trg_pls_3d[c] = 0
    /\ TRG_PLS[c] = 1 /\ highAge = 0 => lowAge >= 2
    /\ TRG_PLS[c] = 1 /\ highAge >= 1 => ar_trg_pls_1d[c] = 1
    /\ TRG_PLS[c] = 1 /\ highAge >= 2 => sr_trg_pls_2d[c] = 1

(* A low between two pulses is longer than one sample; the flip-flop that  *)
(* is counted rises only when the two before it have agreed.               *)
Shaped(c) ==
    /\ ~(ar_trg_pls_1d[c] = 1 /\ sr_trg_pls_2d[c] = 0 /\ sr_trg_pls_3d[c] = 1)
    /\ Coming(c) => sr_trg_pls_4d[c] = 0
    /\ Rising(c) => sr_trg_pls_3d[c] = 1

Agrees(c) ==
    /\ Counted(c) >= 0
    /\ c \in Known => sr_counter[c] = Saturated(Counted(c))

(* Everything is clear while RESET_N is low.                               *)
Cleared ==
    RESET_N = 0 =>
      /\ TRG_PLS = Low /\ highAge = 0 /\ seen = Low /\ sr_counter = Low
      /\ ar_trg_pls_1d = Low /\ sr_trg_pls_2d = Low /\ sr_trg_pls_3d = Low
      /\ sr_trg_pls_4d = Low /\ sr_trg_pls_5d = Low

(* An edge of CLK100M at which the host may write the selection.           *)
CntTick ==
    /\ CntEdge /\ CntClock
    /\ UNCHANGED <<RESET_N, TRG_PLS>> /\ PAGEADDR_SEL' \in SelectCodes

CntInv ==
    /\ Cleared
    /\ \A c \in Channels : Spaced(c) /\ Shaped(c) /\ Agrees(c)
-----------------------------------------------------------------------------
(* Types                                                                   *)

(* Every selection code names a class.                                     *)
LEMMA CodeClass == \A sel \in SelectCodes : SelectCase(sel) \in Channels
BY DEF SelectCodes

(* No pulse, as a function of the class.                                   *)
LEMMA LowType == Low \in [Channels -> Bit] /\ \A c \in Channels : Low[c] = 0
BY DEF Low, Bit

(* A counter stays within its width, the block-erase counter too: what it  *)
(* loads is a counter of this instance.                                    *)
LEMMA NextType ==
    ASSUME CntTypeOK, NEW c \in Channels
    PROVE  NextCounter(c) \in 0..CntMax
<1>1. sr_counter \in [Channels -> 0..CntMax]
    BY DEF CntTypeOK
<1>2. AtMax(c) \in 0..CntMax
    BY <1>1, ChannelAssumption DEF AtMax
<1>3. sr_counter[c] # CntMax => sr_counter[c] + 1 \in 0..CntMax
    BY <1>1, CounterAssumption
<1> QED
    BY <1>1, <1>2, <1>3 DEF NextCounter

(* The reset clears the synchronisers.                                     *)
LEMMA ResetType == CntReset => /\ ar_trg_pls_1d' = Low /\ sr_trg_pls_2d' = Low
                               /\ sr_trg_pls_3d' = Low /\ sr_trg_pls_4d' = Low
                               /\ sr_trg_pls_5d' = Low /\ PLS_RISE' \in Bit
                               /\ sr_counter' \in [Channels -> 0..CntMax]
                               /\ PADDR_CNT' \in 0..(IdxMod - 1)
BY CounterAssumption DEF CntReset, Low, Bit

(* An edge of CLK100M keeps the types.                                     *)
LEMMA EdgeType == CntTypeOK /\ CntTick => CntTypeOK'
<1> SUFFICES ASSUME CntTypeOK, CntTick PROVE CntTypeOK'
    OBVIOUS
<1>1. UNCHANGED <<RESET_N, TRG_PLS>> /\ PAGEADDR_SEL' \in SelectCodes
    BY DEF CntTick
<1>2. /\ ar_trg_pls_1d' \in [Channels -> Bit] /\ sr_trg_pls_2d' \in [Channels -> Bit]
      /\ sr_trg_pls_3d' \in [Channels -> Bit] /\ sr_trg_pls_4d' \in [Channels -> Bit]
      /\ sr_trg_pls_5d' \in [Channels -> Bit]
      /\ sr_counter' \in [Channels -> 0..CntMax]
      /\ PLS_RISE' \in Bit /\ PADDR_CNT' \in 0..(IdxMod - 1)
  <2>1. CASE RESET_N = 0
      BY <2>1, ResetType, LowType DEF CntTick, CntEdge
  <2>2. CASE RESET_N # 0
    <3>1. sr_counter' \in [Channels -> 0..CntMax]
        BY <2>2, NextType DEF CntTick, CntEdge
    <3>2. sr_counter[Selected] \in Nat
        BY CodeClass, CounterAssumption DEF CntTypeOK, Selected
    <3>3. PADDR_CNT' \in 0..(IdxMod - 1)
        BY <2>2, <3>2, CounterAssumption DEF CntTick, CntEdge, LowBits
    <3> QED
        BY <2>2, <3>1, <3>3 DEF CntTick, CntEdge, CntTypeOK, DiffDetect, Bit
  <2> QED
      BY <2>1, <2>2
<1>3. highAge' \in 0..HighTop /\ lowAge' \in 0..Quiet /\ seen' \in [Channels -> Nat]
    BY DEF CntTick, CntClock, CntTypeOK, Older, HighTop, Quiet
<1> QED
    BY <1>1, <1>2, <1>3 DEF CntTypeOK

(* A tick of PtmchCnt is such an edge.                                     *)
LEMMA TickIsEdge == CntTypeOK /\ Tick100 => CntTick
BY DEF Tick100, CntTick, CntTypeOK, cntPins

(* Every step keeps the types.                                             *)
LEMMA StepType == CntTypeOK /\ [CntNext]_cntVars => CntTypeOK'
<1> SUFFICES ASSUME CntTypeOK, [CntNext]_cntVars PROVE CntTypeOK'
    OBVIOUS
<1> USE DEF CntTypeOK, Bit
<1>1. CASE Tick100
    BY <1>1, EdgeType, TickIsEdge
<1>2. CASE FallPls
    BY <1>2, LowType DEF FallPls, cntRegs, cntSync, cntEnv
<1>3. CASE CntResetAssert
  <2>1. 0 \in SelectCodes
      BY ChannelAssumption DEF SelectCodes, SelectCase
  <2>2. Low \in [Channels -> Nat]
      BY DEF Low
  <2> QED
      BY <1>3, <2>1, <2>2, ResetType, LowType DEF CntResetAssert, HighTop, Quiet
<1>4. CASE CntResetRelease
    BY <1>4 DEF CntResetRelease, cntRegs, cntSync, cntEnv
<1>5. ASSUME NEW c \in Channels, RisePls(c) PROVE CntTypeOK'
    BY <1>5 DEF RisePls, cntRegs, cntSync, HighTop
<1>6. ASSUME NEW sel \in SelectCodes, Select(sel) PROVE CntTypeOK'
    BY <1>6 DEF Select, cntRegs, cntSync, cntEnv
<1>7. CASE UNCHANGED cntVars
    BY <1>7 DEF cntVars, cntPins, cntRegs, cntSync, cntEnv
<1> QED
    BY <1>1, <1>2, <1>3, <1>4, <1>5, <1>6, <1>7 DEF CntNext

(* The types hold at the start.                                            *)
LEMMA InitType == CntInit => CntTypeOK
<1> SUFFICES ASSUME CntInit PROVE CntTypeOK
    OBVIOUS
<1>1. 0 \in SelectCodes
    BY ChannelAssumption DEF SelectCodes, SelectCase
<1>2. Low \in [Channels -> Nat] /\ Low \in [Channels -> 0..CntMax]
    BY CounterAssumption DEF Low
<1> QED
    BY <1>1, <1>2, LowType, CounterAssumption DEF CntInit, CntTypeOK, Bit, HighTop, Quiet

(* The counters and registers of ptmch_cnt stay within their widths.       *)
THEOREM CntTypeCorrect == CntSpec => []CntTypeOK
BY InitType, StepType, PTL DEF CntSpec
-----------------------------------------------------------------------------
(* The invariant                                                           *)

(* One edge of CLK100M, seen from one class.                               *)
LEMMA EdgeOf ==
    ASSUME CntTypeOK, CntTick, RESET_N = 1, NEW c \in Channels
    PROVE  /\ ar_trg_pls_1d'[c] = TRG_PLS[c]
           /\ sr_trg_pls_2d'[c] = ar_trg_pls_1d[c]
           /\ sr_trg_pls_3d'[c] = sr_trg_pls_2d[c]
           /\ sr_trg_pls_4d'[c] = IF sr_trg_pls_2d[c] = sr_trg_pls_3d[c]
                                  THEN sr_trg_pls_3d[c] ELSE sr_trg_pls_4d[c]
           /\ sr_trg_pls_5d'[c] = sr_trg_pls_4d[c]
           /\ sr_counter'[c] = NextCounter(c)
           /\ UNCHANGED <<RESET_N, TRG_PLS>>
BY DEF CntTypeOK, CntTick, CntEdge, DiffDetect

(* The clocks of the environment, seen from one class.                     *)
LEMMA ClockOf ==
    ASSUME CntTypeOK, CntTick, RESET_N = 1, NEW c \in Channels
    PROVE  /\ TRG_PLS[c] = 1 => highAge' >= 1 /\ lowAge' = 0
           /\ highAge' = 0 \/ lowAge' = 0
           /\ highAge' \in {0, highAge, highAge + 1}
           /\ highAge' = 1 => highAge = 0 /\ \E d \in Channels : TRG_PLS[d] = 1
           /\ highAge' >= 2 => highAge >= 1
           /\ lowAge' = 0 \/ (TRG_PLS[c] = 0 /\ lowAge' <= lowAge + 1)
           /\ TRG_PLS[c] = 0 \/ highAge # 1 => seen'[c] = seen[c]
           /\ TRG_PLS[c] = 1 /\ highAge = 1 => seen'[c] = seen[c] + 1
<1> USE DEF CntTypeOK, Bit, HighTop, Quiet
<1>1. CASE \E d \in Channels : Up(d)
    BY <1>1 DEF CntTick, CntClock, Older, Up
<1>2. CASE ~\E d \in Channels : Up(d)
    BY <1>2 DEF CntTick, CntClock, Older, Up
<1> QED
    BY <1>1, <1>2

(* An edge keeps the spacing: a low between pulses has been sampled.       *)
LEMMA EdgeSpaced ==
    ASSUME CntTypeOK, CntTick, RESET_N = 1, \A d \in Channels : Spaced(d),
           NEW c \in Channels
    PROVE  Spaced(c)'
<1> USE DEF CntTypeOK, Bit, Spaced, HighTop, Quiet
<1>1. highAge' = 1 => sr_trg_pls_2d'[c] = 0 /\ sr_trg_pls_3d'[c] = 0
    BY EdgeOf, ClockOf
<1>2. CASE TRG_PLS[c] = 0
  <2>1. lowAge' \in {0} \union 1..(lowAge + 1) /\ lowAge' \in Nat
      BY <1>2, ClockOf, EdgeType
  <2> QED
      BY <1>1, <1>2, <2>1, EdgeOf, ClockOf
<1> QED
    BY <1>1, <1>2, EdgeOf, ClockOf

(* An edge keeps what the flip-flops can hold.                             *)
LEMMA EdgeShaped ==
    ASSUME CntTypeOK, CntTick, RESET_N = 1, NEW c \in Channels, Spaced(c), Shaped(c)
    PROVE  Shaped(c)'
<1> USE DEF CntTypeOK, Bit, Spaced, Shaped, Coming, Rising
<1>1. TRG_PLS[c] = 1 => \/ lowAge >= 2
                        \/ ar_trg_pls_1d[c] = 1
    BY DEF HighTop
<1>2. TRG_PLS[c] = 1 /\ ar_trg_pls_1d[c] = 1 /\ sr_trg_pls_2d[c] = 0 => sr_trg_pls_3d[c] = 0
    BY DEF HighTop, Quiet
<1> QED
    BY <1>1, <1>2, EdgeOf
(* An edge that counts takes the pulse under way, and only an edge that    *)
(* sees a pulse the second time puts one there.                            *)
LEMMA EdgeUnderWay ==
    ASSUME CntTypeOK, CntTick, RESET_N = 1, NEW c \in Channels, Spaced(c), Shaped(c)
    PROVE  /\ seen'[c] \in {seen[c], seen[c] + 1}
           /\ seen'[c] = seen[c] =>
                (UnderWay(c)' <=> UnderWay(c) /\ ~Rising(c))
           /\ seen'[c] = seen[c] + 1 => UnderWay(c)' /\ ~UnderWay(c)
<1> USE DEF CntTypeOK, Bit, Spaced, Shaped, UnderWay, Coming, Arrived, Rising, HighTop, Quiet
<1>1. TRG_PLS[c] = 1 => lowAge >= 2 \/ ar_trg_pls_1d[c] = 1
    OBVIOUS
<1>2. CASE TRG_PLS[c] = 1 /\ highAge = 1
  <2>1. seen'[c] = seen[c] + 1
      BY <1>2, ClockOf
  <2>2. ar_trg_pls_1d[c] = 1 /\ sr_trg_pls_2d[c] = 0 /\ sr_trg_pls_3d[c] = 0
      BY <1>2
  <2> QED
      BY <1>2, <2>1, <2>2, EdgeOf
<1>3. CASE ~(TRG_PLS[c] = 1 /\ highAge = 1)
  <2>1. seen'[c] = seen[c]
      BY <1>3, ClockOf
  <2>2. TRG_PLS[c] = 1 /\ ar_trg_pls_1d[c] = 1 => sr_trg_pls_2d[c] = 1
      BY <1>3
  <2> QED
      BY <1>3, <2>1, <2>2, EdgeOf
<1> QED
    BY <1>2, <1>3

(* An edge keeps counters and pulses in step.                              *)
LEMMA EdgeAgrees ==
    ASSUME CntTypeOK, CntTick, RESET_N = 1, NEW c \in Channels,
           Spaced(c), Shaped(c), Agrees(c)
    PROVE  Agrees(c)'
<1>1. seen[c] \in Nat /\ sr_counter[c] \in 0..CntMax /\ CntMax \in Nat
    BY CounterAssumption DEF CntTypeOK
<1>2. Counted(c)' = IF Rising(c) THEN Counted(c) + 1 ELSE Counted(c)
    BY <1>1, EdgeUnderWay DEF Counted, UnderWay
<1>3. Counted(c) \in Nat
    BY <1>1 DEF Agrees, Counted
<1>4. c \in Known' => c \in Known
    BY <1>1, EdgeUnderWay DEF Known
<1>5. c \in Known => sr_counter'[c] = Saturated(Counted(c)')
  <2> SUFFICES ASSUME c \in Known PROVE sr_counter'[c] = Saturated(Counted(c)')
      OBVIOUS
  <2>1. sr_counter[c] = Saturated(Counted(c))
      BY DEF Agrees
  <2>2. CASE sr_counter[c] = CntMax
    <3>1. Counted(c) >= CntMax
        BY <1>1, <1>3, <2>1, <2>2 DEF Saturated
    <3>2. c # "blkers"
        BY <1>1, <3>1 DEF Known, Counted
    <3>3. sr_counter'[c] = CntMax
        BY <2>2, <3>2, EdgeOf DEF NextCounter, AtMax
    <3> QED
        BY <1>1, <1>2, <1>3, <3>1, <3>3 DEF Saturated
  <2>3. CASE sr_counter[c] # CntMax
    <3>1. sr_counter'[c] = IF Rising(c) THEN sr_counter[c] + 1 ELSE sr_counter[c]
        BY <2>3, EdgeOf DEF NextCounter, c_pls_rise, Rising
    <3>2. Counted(c) < CntMax /\ sr_counter[c] = Counted(c)
        BY <1>1, <1>3, <2>1, <2>3 DEF Saturated
    <3> QED
        BY <1>1, <1>2, <1>3, <3>1, <3>2 DEF Saturated
  <2> QED
      BY <2>2, <2>3
<1> QED
    BY <1>2, <1>3, <1>4, <1>5 DEF Agrees

(* The invariant holds while all is clear.                                 *)
LEMMA ClearCntInv == CntTypeOK /\ Cleared /\ RESET_N = 0 => CntInv
BY LowType, CounterAssumption
   DEF CntTypeOK, Cleared, CntInv, Spaced, Shaped, Agrees, UnderWay, Coming, Arrived,
       Rising, Counted, Saturated, Low, HighTop

(* An edge of CLK100M keeps the invariant.                                 *)
LEMMA EdgeCntInv == CntTypeOK /\ CntInv /\ CntTick => CntInv'
<1> SUFFICES ASSUME CntTypeOK, CntInv, CntTick PROVE CntInv'
    OBVIOUS
<1>1. CASE RESET_N = 1
    BY <1>1, EdgeOf, EdgeSpaced, EdgeShaped, EdgeAgrees DEF CntInv, Cleared, CntTick
<1>2. CASE RESET_N = 0
  <2>1. Cleared'
      BY <1>2, LowType DEF CntInv, Cleared, CntTick, CntEdge, CntReset, CntClock, Older, HighTop
  <2>2. RESET_N' = 0
      BY <1>2 DEF CntTick
  <2>3. CntTypeOK'
      BY EdgeType
  <2>4. (CntTypeOK /\ Cleared /\ RESET_N = 0)'
      BY <2>1, <2>2, <2>3
  <2> QED
      BY <2>4, ClearCntInv, PTL
<1> QED
    BY <1>1, <1>2 DEF CntTypeOK, Bit

(* RESET_N keeps the invariant.                                            *)
LEMMA ResetCntInv == CntTypeOK /\ CntResetAssert => CntInv'
<1> SUFFICES ASSUME CntTypeOK, CntResetAssert PROVE CntInv'
    OBVIOUS
<1>1. CntTypeOK'
    BY StepType DEF CntNext
<1>2. Cleared' /\ RESET_N' = 0
    BY DEF Cleared, CntResetAssert, CntReset
<1>3. (CntTypeOK /\ Cleared /\ RESET_N = 0)'
    BY <1>1, <1>2
<1> QED
    BY <1>3, ClearCntInv, PTL

(* The start of a pulse keeps the invariant.                               *)
LEMMA RiseCntInv ==
    ASSUME CntTypeOK, CntInv, NEW d \in Channels, RisePls(d)
    PROVE  CntInv'
<1>1. RESET_N = 1 /\ RESET_N' = 1 /\ highAge' = 0 /\ lowAge >= 2
      /\ UNCHANGED <<cntRegs, lowAge, seen>>
    BY DEF RisePls
<1>2. Cleared'
    BY <1>1 DEF Cleared
<1>3. ASSUME NEW c \in Channels PROVE (Spaced(c) /\ Shaped(c) /\ Agrees(c))'
    BY <1>1 DEF CntInv, Spaced, Shaped, Agrees, UnderWay, Coming, Arrived, Rising, Counted,
                Known, cntRegs, cntSync
<1> QED
    BY <1>2, <1>3 DEF CntInv

(* The end of a pulse keeps the invariant.                                 *)
LEMMA FallCntInv == CntTypeOK /\ CntInv /\ FallPls => CntInv'
<1> SUFFICES ASSUME CntTypeOK, CntInv, FallPls PROVE CntInv'
    OBVIOUS
<1>1. TRG_PLS' = Low /\ RESET_N' = RESET_N /\ UNCHANGED <<cntRegs, cntEnv>>
    BY DEF FallPls
<1>2. Cleared'
    BY <1>1 DEF CntInv, Cleared, cntRegs, cntSync, cntEnv
<1>3. ASSUME NEW c \in Channels PROVE (Spaced(c) /\ Shaped(c) /\ Agrees(c))'
  <2>1. TRG_PLS'[c] = 0
      BY <1>1, LowType
  <2> QED
      BY <1>1, <2>1 DEF CntInv, Spaced, Shaped, Agrees, UnderWay, Coming, Arrived, Rising,
                        Counted, Known, cntRegs, cntSync, cntEnv
<1> QED
    BY <1>2, <1>3 DEF CntInv

(* Nothing the invariant speaks of moves, but for the end of the reset.    *)
LEMMA QuietCntInv ==
    ASSUME CntTypeOK, CntInv, UNCHANGED <<TRG_PLS, cntRegs, cntEnv>>,
           RESET_N' = RESET_N \/ RESET_N' = 1
    PROVE  CntInv'
<1>1. Cleared'
    BY DEF CntInv, Cleared, cntRegs, cntSync, cntEnv
<1>2. ASSUME NEW c \in Channels PROVE (Spaced(c) /\ Shaped(c) /\ Agrees(c))'
    BY DEF CntInv, Spaced, Shaped, Agrees, UnderWay, Coming, Arrived, Rising, Counted,
           Known, cntRegs, cntSync, cntEnv
<1> QED
    BY <1>1, <1>2 DEF CntInv

(* Every step keeps the invariant.                                         *)
LEMMA StepCntInv == CntTypeOK /\ CntInv /\ [CntNext]_cntVars => CntInv'
<1> SUFFICES ASSUME CntTypeOK, CntInv, [CntNext]_cntVars PROVE CntInv'
    OBVIOUS
<1>1. CASE Tick100
    BY <1>1, EdgeCntInv, TickIsEdge
<1>2. CASE FallPls
    BY <1>2, FallCntInv
<1>3. CASE CntResetAssert
    BY <1>3, ResetCntInv
<1>4. CASE CntResetRelease
    BY <1>4, QuietCntInv DEF CntResetRelease
<1>5. ASSUME NEW c \in Channels, RisePls(c) PROVE CntInv'
    BY <1>5, RiseCntInv
<1>6. ASSUME NEW sel \in SelectCodes, Select(sel) PROVE CntInv'
    BY <1>6, QuietCntInv DEF Select
<1>7. CASE UNCHANGED cntVars
    BY <1>7, QuietCntInv DEF cntVars, cntPins
<1> QED
    BY <1>1, <1>2, <1>3, <1>4, <1>5, <1>6, <1>7 DEF CntNext

(* The invariant holds at the start.                                       *)
LEMMA InitCntInv == CntInit => CntInv
BY InitType, ClearCntInv DEF CntInit, Cleared

(* The inductive invariant: a counter and the pulse under way to it make   *)
(* up the pulses there were.                                               *)
THEOREM CounterInvariant == CntSpec => [](CntTypeOK /\ CntInv)
<1>1. CntInit => CntTypeOK /\ CntInv
    BY InitType, InitCntInv
<1>2. CntTypeOK /\ CntInv /\ [CntNext]_cntVars => (CntTypeOK /\ CntInv)'
    BY StepType, StepCntInv
<1> QED
    BY <1>1, <1>2, PTL DEF CntSpec

-----------------------------------------------------------------------------
(* What follows                                                            *)

(* With no pulse under way the counters show the pulses there were.        *)
LEMMA InvCounts == CntTypeOK /\ CntInv => CountsPulses
<1> SUFFICES ASSUME CntTypeOK, CntInv, lowAge = Quiet, NEW c \in Known
             PROVE  sr_counter[c] = Saturated(seen[c])
    BY DEF CountsPulses
<1>1. c \in Channels
    BY DEF Known
<1>2. ~UnderWay(c)
    BY <1>1 DEF CntInv, Spaced, UnderWay, Coming, Arrived, Rising, Quiet
<1> QED
    BY <1>1, <1>2 DEF CntInv, Agrees, Counted

(* With one under way they are one behind at most.                         *)
LEMMA InvInStep == CntTypeOK /\ CntInv => CountsInStep
<1> SUFFICES ASSUME CntTypeOK, CntInv, NEW c \in Known
             PROVE  /\ sr_counter[c] <= seen[c]
                    /\ Saturated(seen[c]) <= sr_counter[c] + 1
    BY DEF CountsInStep
<1>1. c \in Channels /\ seen[c] \in Nat /\ CntMax \in Nat
    BY CounterAssumption DEF Known, CntTypeOK
<1>2. sr_counter[c] = Saturated(Counted(c)) /\ Counted(c) \in {seen[c], seen[c] - 1}
    BY <1>1 DEF CntInv, Agrees, Counted
<1> QED
    BY <1>1, <1>2 DEF Saturated

(* Every pulse of two samples is counted once and nothing else is, whatever *)
(* the width of the counters and the spacing and length of the pulses.     *)
THEOREM CountsPulsesAlways == CntSpec => []CountsPulses
BY CounterInvariant, InvCounts, PTL

(* At no time has a counter run ahead of the pulses or fallen behind by    *)
(* more than the one under way.                                            *)
THEOREM CountsInStepAlways == CntSpec => []CountsInStep
BY CounterInvariant, InvInStep, PTL
-----------------------------------------------------------------------------
(* The log.                                                                *)

(* What the theorem assumes of the constants: the page is ahead of the     *)
(* trigger, instructions are apart, and the counters do not reach their    *)
(* largest value, 2^32 - 1.                                                *)
LogAssumed ==
    /\ PageLead >= 3 /\ PageGap >= 1 /\ PageLead + PageGap >= Quiet
    /\ MaxPulses < CntMax

(* What a paddr register may show for the command of number n.             *)
Entry(n, a) == LogSlot(n) \in LogIndex => a \in want[LogSlot(n)]

(* While RESET_N is low.                                                   *)
Blank ==
    RESET_N = 0 =>
      /\ phase = "clear" /\ bus = Idle /\ PLS_RISE = 0 /\ PADDR_CNT = 0
      /\ ar_page_paddr_1d = NoPage /\ sr_page_paddr_2d = NoPage
      /\ sr_page_paddr_3d = NoPage /\ sr_page_paddr_sync = NoPage
      /\ sr_page_paddr_buf = NoPage
      /\ sr_paddr_dat = [k \in LogIndex |-> NoPage]
      /\ want = [k \in LogIndex |-> {NoPage}]

(* The front end: what its phase says of its outputs and of the time that  *)
(* has passed since the last pulse.                                        *)
Fronted ==
    /\ (TRG_PLS = Low) <=> (phase \in {"clear", "held", "after"})
    /\ phase \in {"clear", "cut"} => PAGE_ADDR = NoPage
    /\ phase \in {"held", "pulse"} => PAGE_ADDR = held
    /\ phase = "clear" => lowAge = Quiet \/ lowAge >= phaseAge
    /\ phase = "held" =>
         /\ lowAge = Quiet \/ lowAge >= PageGap + phaseAge
         /\ phaseAge >= 1 => ar_page_paddr_1d = held
         /\ phaseAge >= 2 => sr_page_paddr_2d = held
         /\ phaseAge >= 3 => sr_page_paddr_3d = held
    /\ phase = "cut" => phaseAge <= 1 /\ (highAge = 0 => phaseAge = 0)

(* The host selects only while nothing is under way.                       *)
Apart ==
    Writes(<<"sel">>) =>
        lowAge = Quiet /\ (phase = "clear" \/ (phase = "held" /\ phaseAge = 0))

(* A pulse finds the synchronisers empty, and its page in its own.         *)
Sampled == ar_page_paddr_1d = held /\ sr_page_paddr_2d = held /\ sr_page_paddr_3d = held
LateCut == phase = "cut" /\ phaseAge = 1
Alone ==
    /\ TRG_PLS # Low /\ highAge = 0 => lowAge = Quiet /\ Sampled
    /\ TRG_PLS # Low /\ highAge = 1 /\ ~LateCut => Sampled /\ sr_page_paddr_sync = held
    /\ highAge \in {1, 2} =>
         PLS_RISE = 0 /\ \A c \in Channels : sr_trg_pls_3d[c] = 0 /\ sr_trg_pls_4d[c] = 0
    /\ lowAge >= 5 => PLS_RISE = 0

(* The pulses stay within the bound.                                       *)
Bounded ==
    \A c \in Channels :
        /\ seen[c] <= MaxPulses
        /\ Up(c) /\ highAge <= 1 => seen[c] < MaxPulses

(* The command under way in the selected class, and its page.              *)
Paged ==
    LET s == Selected
        May(a) == Entry(seen[s], a)
    IN  /\ Coming(s) =>
             /\ highAge = 2 /\ lowAge = 0 /\ PADDR_CNT = LogSlot(sr_counter[s])
             /\ sr_page_paddr_2d = held /\ sr_page_paddr_3d = held
             /\ sr_page_paddr_sync = held /\ May(held)
             /\ \/ ar_page_paddr_1d = held
                \/ Up(s) /\ LateCut
                \/ TRG_PLS = Low /\ phase = "clear" /\ May(NoPage)
        /\ Arrived(s) =>
             /\ sr_page_paddr_3d = sr_page_paddr_sync /\ May(sr_page_paddr_sync)
             /\ ar_page_paddr_1d = sr_page_paddr_2d => May(ar_page_paddr_1d)
        /\ Rising(s) =>
             /\ May(sr_page_paddr_sync)
             /\ sr_page_paddr_2d = sr_page_paddr_3d => May(sr_page_paddr_2d)
        /\ PLS_RISE = 1 =>
             /\ May(sr_page_paddr_sync)
             /\ sr_counter[s] = seen[s] /\ sr_trg_pls_5d[s] = 1

(* The buffer agrees with the entry that PADDR_CNT points at, and with the *)
(* one it will point at next.                                              *)
Buffered ==
    /\ PADDR_CNT \in LogIndex => sr_page_paddr_buf \in want[PADDR_CNT]
    /\ PLS_RISE = 0 => Entry(sr_counter[Selected], sr_page_paddr_buf)
    /\ lowAge = Quiet - 1 => PADDR_CNT = LogSlot(seen[Selected])

(* The log is true but for the entry of the command under way.             *)
Logged ==
    \A k \in LogIndex :
        lowAge = Quiet \/ highAge = 1 \/ k # LogSlot(seen[Selected])
            => sr_paddr_dat[k] \in want[k]

LogInv ==
    /\ Blank /\ Fronted /\ Apart /\ Alone /\ Bounded /\ Paged /\ Buffered /\ Logged

(* What the host takes is what the port has put out for it.                *)
PortInv ==
    bus.step = "take" /\ bus.op.kind = "read" =>
        \A c \in Channels :
            bus.op.reg = <<"count", c>> => r_reg_readdata[2] \in 0..CntMax
-----------------------------------------------------------------------------
(* Types                                                                   *)

(* The vectors that the page path starts from and captures.                *)
LEMMA PageFacts ==
    /\ NoPage \in Page /\ AllOne(PageLen) \in Page
    /\ \A v \in Page, w \in Page : Torn(v, w) \subseteq Page
BY RegAssumption DEF NoPage, Page, AllZero, AllOne, Vector, Torn, Bit

(* The class that is selected is one of the instance.                      *)
LEMMA SelectedClass == CntTypeOK => Selected \in Channels
BY CodeClass DEF CntTypeOK, Selected

(* A transfer on the port is one of the host's.                            *)
LEMMA BusOp ==
    ASSUME RegTypeOK, bus.step \in {"begin", "take"}
    PROVE  bus.op \in HostOps
<1>1. bus # Idle
    BY DEF Idle
<1>2. \E op \in HostOps : bus = Begin(op) \/ bus = Taking(op)
    BY <1>1 DEF RegTypeOK
<1> QED
    BY <1>2 DEF Begin, Taking

(* An edge of this half is an edge of the counters.                        *)
LEMMA EdgeTicks ==
    ASSUME RegTypeOK, Blank, NEW p, RegEdge(p)
    PROVE  CntTick
<1>1. PAGEADDR_SEL' \in SelectCodes
  <2>1. CASE Writes(<<"sel">>) /\ RESET_N = 1
      BY <2>1, BusOp, RegAssumption
         DEF RegEdge, PortEdge, Writes, REG_WAITREQUEST
  <2>2. CASE RESET_N = 0
    <3>1. 0 \in SelectCodes
        BY ChannelAssumption DEF SelectCodes, SelectCase
    <3> QED
        BY <2>2, <3>1 DEF RegEdge, PortEdge, PortReset
  <2>3. CASE ~Writes(<<"sel">>) /\ RESET_N = 1
      BY <2>3 DEF RegEdge, PortEdge, RegTypeOK, CntTypeOK
  <2> QED
      BY <2>1, <2>2, <2>3 DEF RegTypeOK, CntTypeOK, Bit
<1> QED
    BY <1>1 DEF RegEdge, CntTick

(* What the history records for a command is a set of pages.               *)
LEMMA WantType ==
    ASSUME RegTypeOK, NEW n, NEW pages \in SUBSET Page
    PROVE  Want(n, pages) \in [LogIndex -> SUBSET Page]
BY DEF Want, RegTypeOK

(* An edge keeps the types.                                                *)
LEMMA RegEdgeType ==
    ASSUME RegTypeOK, Blank, PortInv, NEW p \in Page, RegEdge(p),
           PAGE_ADDR' \in Page, held' \in Page, phaseAge' \in 0..AgeTop,
           phase' \in {"clear", "held", "pulse", "after", "cut"}
    PROVE  RegTypeOK' /\ PortInv'
<1>1. CntTypeOK'
    BY EdgeTicks, EdgeType DEF RegTypeOK
<1>2. /\ ar_page_paddr_1d' \in Page /\ sr_page_paddr_2d' \in Page
      /\ sr_page_paddr_3d' \in Page /\ sr_page_paddr_sync' \in Page
      /\ sr_page_paddr_buf' \in Page
    BY PageFacts DEF RegEdge, PageEdge, PageReset, RegTypeOK, DiffDetect
<1>3. sr_paddr_dat' \in [LogIndex -> Page]
    BY PageFacts DEF RegEdge, LogEdge, LogReset, RegTypeOK
<1>4. bus' \in {Idle} \union {Begin(op) : op \in HostOps} \union {Taking(op) : op \in HostOps}
    BY BusOp DEF RegEdge, RegClock, REG_WAITREQUEST
<1>5. window' \in [Channels -> [Sides -> Page]]
  <2>1. CASE RESET_N = 0
      BY <2>1, PageFacts DEF RegEdge, PortEdge, PortReset
  <2>2. CASE RESET_N # 0
    <3>1. ASSUME NEW c \in Channels, NEW s \in Sides, Writes(<<"window", c, s>>)
          PROVE  bus.op.data \in Page
        BY <3>1, BusOp, RegAssumption DEF Writes, REG_WAITREQUEST
    <3> DEFINE next(c, s) == IF Writes(<<"window", c, s>>) THEN bus.op.data ELSE window[c][s]
    <3>2. \A c \in Channels, s \in Sides : next(c, s) \in Page
        BY <3>1 DEF RegTypeOK
    <3>3. window' = [c \in Channels |-> [s \in Sides |-> next(c, s)]]
        BY <2>2 DEF RegEdge, PortEdge
    <3> HIDE DEF next
    <3> QED
        BY <3>2, <3>3
  <2> QED
      BY <2>1, <2>2
<1>6. r_reg_readdata'[1] \in Registers
    BY BusOp, RegAssumption DEF RegEdge, PortEdge, PortReset, RegTypeOK, Registers, REG_WAITREQUEST
<1>7. want' \in [LogIndex -> SUBSET Page]
  <2>1. Jump(bus.op.data) \in [LogIndex -> SUBSET Page]
      BY DEF Jump, RegTypeOK
  <2>2. Want(seen[Selected] + 1, {held}) \in [LogIndex -> SUBSET Page]
      BY WantType DEF RegTypeOK
  <2> QED
      BY <2>1, <2>2 DEF RegEdge, RegClock, RegTypeOK
<1>8. countRead' \in 0..CntMax
    BY SelectedClass DEF RegEdge, RegClock, RegTypeOK, PortInv
<1>9. PortInv'
  <2> SUFFICES ASSUME bus'.step = "take", bus'.op.kind = "read", NEW c \in Channels,
                      bus'.op.reg = <<"count", c>>
               PROVE  r_reg_readdata'[2] \in 0..CntMax
      BY DEF PortInv
  <2>1. REG_WAITREQUEST /\ bus'.op = bus.op
      BY DEF RegEdge, RegClock, Idle, Taking
  <2>2. RESET_N = 1
      BY <2>1 DEF Blank, REG_WAITREQUEST, Idle, RegTypeOK, CntTypeOK, Bit
  <2>3. r_reg_readdata' = <<bus.op.reg, ReadValue(bus.op.reg)>>
      BY <2>1, <2>2 DEF RegEdge, PortEdge
  <2>4. ReadValue(<<"count", c>>) = sr_counter[c]
      BY DEF ReadValue
  <2> QED
      BY <2>1, <2>3, <2>4 DEF RegTypeOK, CntTypeOK
<1> QED
    BY <1>1, <1>2, <1>3, <1>4, <1>5, <1>6, <1>7, <1>8, <1>9 DEF RegTypeOK

(* The torn sample of a page that is changing is a vector as well.         *)
LEMMA TornPage ==
    ASSUME NEW v \in Page, NEW w \in Page, NEW t \in Torn(v, w)
    PROVE  t \in Page
BY PageFacts

(* Every step keeps the types.                                             *)
LEMMA RegStepType ==
    ASSUME LogAssumed, RegTypeOK, Blank, PortInv, [RegNext]_regVars
    PROVE  RegTypeOK' /\ PortInv'
<1>a. AgeTop \in Nat /\ AgeTop >= 1
    BY RegAssumption DEF AgeTop, LogAssumed
<1>b. \A a \in Pages : a \in Page
    BY RegAssumption
<1>1. CASE RegTick100
    BY <1>1, <1>a, RegEdgeType DEF RegTick100, Edge100, RegTypeOK, Older
<1>2. ASSUME UNCHANGED <<portRegs, bus, countRead>>, CntTypeOK',
             UNCHANGED pageRegs, want' \in [LogIndex -> SUBSET Page],
             PAGE_ADDR' \in Page, held' \in Page, phaseAge' \in 0..AgeTop,
             phase' \in {"clear", "held", "pulse", "after", "cut"}
      PROVE  RegTypeOK' /\ PortInv'
    BY <1>2 DEF RegTypeOK, PortInv, pageRegs, portRegs
<1>3. ASSUME \/ Clear(0) \/ Clear(1)
             \/ \E a \in Pages : Hold(a)
      PROVE  /\ PAGE_ADDR' \in Page /\ held' \in Page /\ phaseAge' \in 0..AgeTop
             /\ phase' \in {"clear", "held", "pulse", "after", "cut"}
    BY <1>3, <1>a, <1>b, PageFacts DEF Clear, Hold, RegTypeOK, LogAssumed
<1>4. CASE ChangePage
  <2>1. CntTypeOK' /\ want' \in [LogIndex -> SUBSET Page]
      BY <1>4 DEF ChangePage, RegTypeOK, CntTypeOK, cntVars, cntPins, cntRegs, cntSync, cntEnv
  <2> QED
      BY <1>2, <1>3, <1>4, <2>1 DEF ChangePage
<1>5. CASE ChangePageAtTick
  <2>1. PICK w \in Torn(PAGE_ADDR, PAGE_ADDR') : Edge100(w)
      BY <1>5 DEF ChangePageAtTick
  <2>2. PAGE_ADDR' \in Page /\ w \in Page
      BY <1>3, <1>5, TornPage DEF ChangePageAtTick, RegTypeOK
  <2> QED
      BY <1>3, <1>5, <2>1, <2>2, RegEdgeType DEF ChangePageAtTick, Edge100
<1>6. ASSUME NEW c \in Channels, Raise(c) PROVE RegTypeOK' /\ PortInv'
  <2>1. CntTypeOK'
      BY <1>6, StepType DEF Raise, CntNext, RegTypeOK
  <2> QED
      BY <1>2, <1>6, <1>a, <2>1, PageFacts DEF Raise, RegTypeOK
<1>7. CASE Fall
  <2>1. CntTypeOK'
      BY <1>7, StepType DEF Fall, CntNext, RegTypeOK
  <2>2. want' \in [LogIndex -> SUBSET Page]
      BY <1>7, WantType, PageFacts DEF Fall, RegTypeOK
  <2> QED
      BY <1>2, <1>7, <1>a, <2>1, <2>2, PageFacts DEF Fall, RegTypeOK
<1>8. ASSUME NEW op \in HostOps, Start(op) PROVE RegTypeOK' /\ PortInv'
  <2>1. bus'.step = "begin" /\ bus' = Begin(op)
      BY <1>8 DEF Start, Begin
  <2>2. PortInv'
      BY <2>1 DEF PortInv
  <2> QED
      BY <1>8, <2>1, <2>2 DEF Start, RegTypeOK, CntTypeOK, cntVars, cntPins, cntRegs, cntSync,
                              cntEnv, pageRegs, portRegs, regEnv
<1>9. CASE RegResetAssert
  <2>1. CntTypeOK'
      BY <1>9, StepType DEF RegResetAssert, CntResetAssert, CntNext, RegTypeOK, PortReset
  <2>2. PortInv'
      BY <1>9 DEF RegResetAssert, PortInv, Idle
  <2>3. window' \in [Channels -> [Sides -> Page]] /\ r_reg_readdata'[1] \in Registers
      BY <1>9, PageFacts DEF RegResetAssert, PortReset, Registers
  <2>4. 0 \in 0..CntMax /\ 0 \in 0..AgeTop
      BY <1>a, CounterAssumption
  <2> QED
      BY <1>9, <2>1, <2>2, <2>3, <2>4, PageFacts DEF RegResetAssert, RegTypeOK, PageReset, LogReset
<1>10. CASE RegResetRelease
  <2>1. CntTypeOK'
      BY <1>10, StepType DEF RegResetRelease, CntResetRelease, CntNext, RegTypeOK
  <2> QED
      BY <1>2, <1>10, <2>1 DEF RegResetRelease, RegTypeOK, regEnv
<1>11. CASE UNCHANGED regVars
    BY <1>11 DEF regVars, RegTypeOK, PortInv, CntTypeOK, cntVars, cntPins, cntRegs, cntSync,
                 cntEnv, pageRegs, portRegs, regEnv
<1> QED
    BY <1>1, <1>4, <1>5, <1>6, <1>7, <1>8, <1>9, <1>10, <1>11 DEF RegNext
-----------------------------------------------------------------------------
(* One edge of CLK100M                                                     *)

(* The inductive invariant.                                                *)
RegInv == LogAssumed /\ RegTypeOK /\ CntInv /\ PortInv /\ LogInv

(* The constants as numbers.                                               *)
LEMMA RegConstants ==
    /\ PageLead \in Nat /\ PageGap \in Nat /\ AgeTop \in Nat
    /\ PageLead <= AgeTop /\ PageGap <= AgeTop
    /\ CntMax \in Nat /\ MaxPulses \in Nat /\ IdxMod \in Nat /\ IdxMod > 0
    /\ LogSize \in Nat /\ LogSize < IdxMod
BY RegAssumption, CounterAssumption DEF AgeTop

(* The page path, the log and the index, at an edge without a reset.       *)
LEMMA PathOf ==
    ASSUME RegTypeOK, RESET_N = 1, NEW p, RegEdge(p)
    PROVE  /\ ar_page_paddr_1d' = p
           /\ sr_page_paddr_2d' = ar_page_paddr_1d
           /\ sr_page_paddr_3d' = sr_page_paddr_2d
           /\ sr_page_paddr_sync' = IF sr_page_paddr_2d = sr_page_paddr_3d
                                    THEN sr_page_paddr_3d ELSE sr_page_paddr_sync
           /\ sr_page_paddr_buf' = IF PLS_RISE = 1 THEN sr_page_paddr_sync
                                   ELSE sr_page_paddr_buf
           /\ \A k \in LogIndex : sr_paddr_dat'[k] = IF PADDR_CNT = k THEN sr_page_paddr_buf
                                                     ELSE sr_paddr_dat[k]
           /\ PLS_RISE' = IF Rising(Selected) THEN 1 ELSE 0
           /\ PADDR_CNT' = LogSlot(sr_counter[Selected])
           /\ UNCHANGED <<RESET_N, TRG_PLS>>
           /\ ~Writes(<<"sel">>) => PAGEADDR_SEL' = PAGEADDR_SEL
BY DEF RegEdge, PageEdge, LogEdge, PortEdge, CntEdge, DiffDetect, BufferLoads,
       c_pls_rise, Rising, LowBits, LogSlot

(* A trigger is up, or none is.                                            *)
LEMMA UpOrLow == CntTypeOK => (TRG_PLS = Low <=> ~\E c \in Channels : Up(c))
BY LowType DEF CntTypeOK, Up, Bit, Low

(* The clocks of the environment at such an edge.                          *)
LEMMA TimeOf ==
    ASSUME RegTypeOK, RESET_N = 1, NEW p, RegEdge(p)
    PROVE  /\ TRG_PLS = Low => /\ highAge' = 0 /\ lowAge' = Older(lowAge, Quiet)
                               /\ seen' = seen
           /\ TRG_PLS # Low => /\ highAge' = Older(highAge, HighTop) /\ lowAge' = 0
                               /\ highAge # 1 => seen' = seen
                               /\ \A c \in Channels : highAge = 1 =>
                                    seen'[c] = IF Up(c) THEN seen[c] + 1 ELSE seen[c]
<1>1. TRG_PLS = Low <=> ~\E c \in Channels : Up(c)
    BY UpOrLow DEF RegTypeOK
<1> QED
    BY <1>1 DEF RegEdge, CntClock, RegTypeOK, CntTypeOK

(* With no pulse at its largest value, a counter shows what was counted.   *)
LEMMA Exact ==
    ASSUME RegInv, NEW c \in Channels
    PROVE  /\ sr_counter[c] = Counted(c) /\ Counted(c) \in Nat /\ seen[c] \in Nat
           /\ Counted(c) = IF UnderWay(c) THEN seen[c] - 1 ELSE seen[c]
<1>1. seen[c] \in Nat /\ seen[c] <= MaxPulses /\ MaxPulses < CntMax
    BY DEF RegInv, RegTypeOK, CntTypeOK, LogInv, Bounded, LogAssumed
<1>2. c \in Known
    BY <1>1, RegConstants DEF Known
<1>3. Agrees(c)
    BY DEF RegInv, CntInv
<1> QED
    BY <1>1, <1>2, <1>3, RegConstants DEF Agrees, Counted, Saturated

(* The flip-flops of a class while nothing is under way.                   *)
LEMMA AtRest ==
    ASSUME RegInv, NEW c \in Channels
    PROVE  /\ lowAge >= 4 => ~UnderWay(c) /\ sr_trg_pls_4d[c] = 0
           /\ highAge = 1 /\ lowAge = 0 => ~UnderWay(c)
BY DEF RegInv, LogInv, Alone, CntInv, Spaced, UnderWay, Coming, Arrived, Rising,
       RegTypeOK, CntTypeOK, Quiet, HighTop, Bit

(* The remainder, from any representation.                                 *)
LEMMA Remainder ==
    ASSUME NEW n \in Int, NEW m \in Int, m > 1, NEW q \in Int, NEW r \in 0..(m - 1),
           n = m * q + r
    PROVE  n % m = r
BY SMT

(* The quotient.                                                           *)
LEMMA Quotient ==
    ASSUME NEW n \in Nat, NEW m \in Nat, m > 0
    PROVE  /\ n \div m \in Int
           /\ m * (n \div m) <= n
           /\ n < m * (n \div m) + m
BY SMT

(* Neighbouring commands have different entries.                           *)
LEMMA NextSlot ==
    ASSUME NEW n \in Nat, LogSlot(n + 1) \in LogIndex
    PROVE  LogSlot(n) # LogSlot(n + 1)
<1> DEFINE m == IdxMod
           q == n \div m
           r == n - m * q
<1>1. m \in Nat /\ m > 1
    BY RegConstants DEF LogSlot, LogIndex
<1>2. q \in Int /\ r \in Int /\ r \in 0..(m - 1) /\ n = m * q + r
    BY <1>1, Quotient
<1> HIDE DEF m, q, r
<1>3. n % m = r
    BY <1>1, <1>2, Remainder
<1>4. CASE r + 1 < m
  <2>1. n + 1 = m * q + (r + 1) /\ r + 1 \in 0..(m - 1)
      BY <1>1, <1>2, <1>4
  <2>2. (n + 1) % m = r + 1
      BY <1>1, <1>2, <2>1, Remainder
  <2> QED
      BY <1>2, <1>3, <2>2 DEF LogSlot, m
<1>5. CASE r + 1 = m
  <2>1. n + 1 = m * (q + 1) + 0 /\ 0 \in 0..(m - 1)
      BY <1>1, <1>2, <1>5
  <2>2. (n + 1) % m = 0
      BY <1>1, <1>2, <2>1, Remainder
  <2> QED
      BY <1>1, <1>2, <1>3, <1>5, <2>2 DEF LogSlot, m
<1> QED
    BY <1>1, <1>2, <1>4, <1>5
(* The kinds of edges: the front end rests, clears its page, or holds one. *)
EdgeKind(p) ==
    /\ RegEdge(p) /\ (phase = "cut" => phaseAge = 0)
    /\ \/ /\ p = PAGE_ADDR /\ UNCHANGED <<PAGE_ADDR, phase, held>>
          /\ phaseAge' = Older(phaseAge, AgeTop)
       \/ Clear(1)
       \/ \E a \in Pages : Hold(a)

(* Every edge is of such a kind.                                           *)
LEMMA EdgeKinds ==
    ASSUME RegTypeOK, RegTick100 \/ ChangePageAtTick
    PROVE  \E p : EdgeKind(p)
<1>1. CASE RegTick100
    BY <1>1 DEF RegTick100, Edge100, EdgeKind
<1>2. CASE ChangePageAtTick
    BY <1>2 DEF ChangePageAtTick, Edge100, EdgeKind
<1> QED
    BY <1>1, <1>2

(* A selection finds nothing under way.                                    *)
LEMMA SelectApart ==
    ASSUME RegInv, Writes(<<"sel">>)
    PROVE  TRG_PLS = Low /\ lowAge = Quiet
BY DEF RegInv, LogInv, Apart, Fronted

(* An edge leaves the outputs of the front end as its phase says.          *)
LEMMA FrontedEdge ==
    ASSUME RegInv, RESET_N = 1, NEW p, EdgeKind(p)
    PROVE  Fronted'
<1> USE RegConstants DEF RegInv, LogInv
<1>1. RegEdge(p)
    BY DEF EdgeKind
<1>2. phaseAge \in Nat /\ lowAge \in 0..Quiet /\ highAge \in 0..HighTop
    BY DEF RegTypeOK, CntTypeOK
<1>3. (TRG_PLS' = Low) <=> (phase' \in {"clear", "held", "after"})
    BY <1>1, PathOf DEF EdgeKind, Fronted, Clear, Hold
<1>4. /\ phase' \in {"clear", "cut"} => PAGE_ADDR' = NoPage
      /\ phase' \in {"held", "pulse"} => PAGE_ADDR' = held'
    BY DEF EdgeKind, Fronted, Clear, Hold
<1>5. phase' \in {"clear", "held"} => TRG_PLS = Low /\ lowAge' = Older(lowAge, Quiet)
    BY <1>1, <1>3, PathOf, TimeOf
<1>6. phase' = "clear" => lowAge' = Quiet \/ lowAge' >= phaseAge'
    BY <1>2, <1>5 DEF EdgeKind, Fronted, Clear, Hold, Older, Quiet
<1>7. phase' = "held" => lowAge' = Quiet \/ lowAge' >= PageGap + phaseAge'
    BY <1>2, <1>5 DEF EdgeKind, Fronted, Clear, Hold, Older, Quiet
<1>8. phase' = "held" => /\ phaseAge' >= 1 => ar_page_paddr_1d' = held'
                         /\ phaseAge' >= 2 => sr_page_paddr_2d' = held'
                         /\ phaseAge' >= 3 => sr_page_paddr_3d' = held'
    BY <1>1, <1>2, PathOf DEF EdgeKind, Fronted, Clear, Hold, Older
<1>9. phase' = "cut" => phaseAge' <= 1 /\ (highAge' = 0 => phaseAge' = 0)
  <2>1. phase' = "cut" => TRG_PLS # Low /\ phaseAge' <= 1
      BY <1>1, <1>2, <1>3, PathOf DEF EdgeKind, Fronted, Clear, Hold, Older
  <2>2. TRG_PLS # Low => highAge' # 0
      BY <1>1, <1>2, TimeOf DEF Older, HighTop
  <2> QED
      BY <2>1, <2>2
<1> QED
    BY <1>3, <1>4, <1>6, <1>7, <1>8, <1>9 DEF Fronted

(* An edge leaves a pulse alone in the synchronisers.                      *)
LEMMA AloneEdge ==
    ASSUME RegInv, RESET_N = 1, NEW p, EdgeKind(p)
    PROVE  Alone'
<1> USE DEF RegInv, LogInv
<1>1. RegEdge(p) /\ CntTick
    BY EdgeTicks DEF EdgeKind
<1>2. phaseAge \in Nat /\ lowAge \in 0..Quiet /\ highAge \in 0..HighTop /\ PLS_RISE \in Bit
    BY RegConstants DEF RegTypeOK, CntTypeOK
<1>3. TRG_PLS' = TRG_PLS /\ (TRG_PLS # Low => highAge' # 0)
    BY <1>1, <1>2, PathOf, TimeOf DEF Older, HighTop
<1>4. TRG_PLS # Low /\ highAge' = 1 /\ ~LateCut' =>
        /\ Sampled' /\ sr_page_paddr_sync' = held'
  <2> SUFFICES ASSUME TRG_PLS # Low, highAge' = 1, ~LateCut'
               PROVE  Sampled' /\ sr_page_paddr_sync' = held'
      OBVIOUS
  <2>1. highAge = 0
      BY <1>1, <1>2, TimeOf DEF Older, HighTop
  <2>2. Sampled
      BY <2>1 DEF Alone
  <2>3. phase = "pulse" /\ p = PAGE_ADDR /\ held' = held
      BY RegConstants DEF EdgeKind, LateCut, Clear, Hold, Fronted, Older, RegTypeOK, LogAssumed
  <2>4. p = held
      BY <2>3 DEF Fronted
  <2> QED
      BY <1>1, <2>2, <2>3, <2>4, PathOf DEF Sampled
<1>5. highAge' \in {1, 2} =>
         PLS_RISE' = 0 /\ \A c \in Channels : sr_trg_pls_3d'[c] = 0 /\ sr_trg_pls_4d'[c] = 0
  <2> SUFFICES ASSUME highAge' \in {1, 2}
               PROVE  PLS_RISE' = 0 /\ \A c \in Channels : sr_trg_pls_3d'[c] = 0 /\ sr_trg_pls_4d'[c] = 0
      OBVIOUS
  <2>1. TRG_PLS # Low /\ highAge \in {0, 1} /\ (highAge = 0 => lowAge = Quiet)
      BY <1>1, <1>2, TimeOf DEF Older, HighTop, Alone
  <2>2. ASSUME NEW c \in Channels
        PROVE  sr_trg_pls_2d[c] = 0 /\ sr_trg_pls_3d[c] = 0 /\ sr_trg_pls_4d[c] = 0
      BY <2>1 DEF Alone, CntInv, Spaced, Quiet
  <2>3. ~Rising(Selected)
      BY <2>2, SelectedClass DEF Rising, RegTypeOK
  <2> QED
      BY <1>1, <2>2, <2>3, EdgeOf, PathOf DEF RegTypeOK
<1>6. lowAge' >= 5 => PLS_RISE' = 0
  <2> SUFFICES ASSUME lowAge' >= 5 PROVE PLS_RISE' = 0
      OBVIOUS
  <2>1. lowAge >= 4
      BY <1>1, <1>2, TimeOf DEF Older, Quiet
  <2>2. ~Rising(Selected)
      BY <2>1, AtRest, SelectedClass DEF Rising, RegTypeOK
  <2> QED
      BY <1>1, <2>2, PathOf
<1> QED
    BY <1>3, <1>4, <1>5, <1>6 DEF Alone

(* An edge keeps the bound on the pulses.                                  *)
LEMMA BoundedEdge ==
    ASSUME RegInv, RESET_N = 1, NEW p, EdgeKind(p)
    PROVE  Bounded'
<1> SUFFICES ASSUME NEW c \in Channels
             PROVE  /\ seen'[c] <= MaxPulses
                    /\ Up(c)' /\ highAge' <= 1 => seen'[c] < MaxPulses
    BY DEF Bounded
<1>1. RegEdge(p) /\ UNCHANGED TRG_PLS
    BY PathOf DEF EdgeKind, RegInv
<1>2. seen[c] \in Nat /\ highAge \in 0..HighTop /\ MaxPulses \in Nat
    BY RegConstants DEF RegInv, RegTypeOK, CntTypeOK
<1>3. /\ seen[c] <= MaxPulses
      /\ Up(c) /\ highAge <= 1 => seen[c] < MaxPulses
    BY DEF RegInv, LogInv, Bounded
<1>4. CASE TRG_PLS = Low
    BY <1>1, <1>2, <1>3, <1>4, TimeOf, LowType DEF RegInv, Up
<1>5. CASE TRG_PLS # Low
  <2>1. highAge' = Older(highAge, HighTop)
      BY <1>1, <1>5, TimeOf DEF RegInv
  <2>2. highAge # 1 => seen'[c] = seen[c]
      BY <1>1, <1>5, TimeOf DEF RegInv
  <2>3. highAge = 1 => seen'[c] = IF Up(c) THEN seen[c] + 1 ELSE seen[c]
      BY <1>1, <1>5, TimeOf DEF RegInv
  <2> QED
      BY <1>1, <1>2, <1>3, <2>1, <2>2, <2>3 DEF Up, Older, HighTop
<1> QED
    BY <1>4, <1>5

(* What an edge does to the entries: a command that is seen the second     *)
(* time gets its own, and a selection may add to one.                      *)
LEMMA WantEdge ==
    ASSUME RegInv, RESET_N = 1, NEW p, EdgeKind(p)
    PROVE  /\ Up(Selected) /\ highAge = 1 =>
                /\ ~Writes(<<"sel">>) /\ TRG_PLS # Low
                /\ seen'[Selected] = seen[Selected] + 1
                /\ want' = Want(seen[Selected] + 1, {held})
           /\ ~(Up(Selected) /\ highAge = 1) =>
                /\ \A k \in LogIndex : want[k] \subseteq want'[k]
                /\ seen'[Selected] = seen[Selected]
           /\ Writes(<<"sel">>) =>
                /\ PAGEADDR_SEL' \in SelectCodes
                /\ seen' = seen
                /\ LogSlot(seen[Selected']) \in LogIndex =>
                     sr_page_paddr_buf \in want'[LogSlot(seen[Selected'])]
<1> USE DEF RegInv
<1>1. RegEdge(p) /\ CntTick /\ Selected \in Channels
    BY EdgeTicks, SelectedClass DEF EdgeKind, LogInv, RegTypeOK
<1>2. Up(Selected) => TRG_PLS # Low
    BY <1>1, UpOrLow DEF RegTypeOK
<1>3. Writes(<<"sel">>) => TRG_PLS = Low
    BY SelectApart
<1>4. ASSUME Up(Selected), highAge = 1
      PROVE  /\ seen'[Selected] = seen[Selected] + 1
             /\ want' = Want(seen[Selected] + 1, {held})
    BY <1>1, <1>2, <1>4, TimeOf DEF RegEdge, RegClock
<1>5. ASSUME ~(Up(Selected) /\ highAge = 1)
      PROVE  seen'[Selected] = seen[Selected]
    BY <1>1, <1>5, TimeOf
<1>6. ASSUME ~(Up(Selected) /\ highAge = 1)
      PROVE  \A k \in LogIndex : want[k] \subseteq want'[k]
  <2>1. want' = IF Writes(<<"sel">>) THEN Jump(bus.op.data) ELSE want
      BY <1>1, <1>6 DEF RegEdge, RegClock
  <2> QED
      BY <2>1 DEF Jump, RegTypeOK
<1>7. ASSUME Writes(<<"sel">>)
      PROVE  /\ seen' = seen
             /\ LogSlot(seen[Selected']) \in LogIndex =>
                  sr_page_paddr_buf \in want'[LogSlot(seen[Selected'])]
  <2>1. seen' = seen /\ ~Up(Selected)
      BY <1>1, <1>2, <1>3, <1>7, TimeOf
  <2>2. want' = Jump(bus.op.data) /\ PAGEADDR_SEL' = bus.op.data
      BY <1>1, <1>7, <2>1 DEF RegEdge, RegClock, PortEdge
  <2>3. Selected' = SelectCase(bus.op.data)
      BY <2>2 DEF Selected
  <2> QED
      BY <2>1, <2>2, <2>3 DEF Jump, RegTypeOK
<1> QED
    BY <1>1, <1>2, <1>3, <1>4, <1>5, <1>6, <1>7 DEF CntTick

(* The entries after an edge that sees a command the second time.          *)
LEMMA WantNext ==
    ASSUME RegInv, NEW n \in Nat, want' = Want(n + 1, {held})
    PROVE  /\ LogSlot(n + 1) \in LogIndex => want'[LogSlot(n + 1)] = {held}
           /\ \A k \in LogIndex : k # LogSlot(n + 1) => want'[k] = want[k]
           /\ LogSlot(n) \in LogIndex => want'[LogSlot(n)] = want[LogSlot(n)]
<1>1. /\ LogSlot(n + 1) \in LogIndex => want'[LogSlot(n + 1)] = {held}
      /\ \A k \in LogIndex : k # LogSlot(n + 1) => want'[k] = want[k]
    BY DEF Want, RegInv, RegTypeOK
<1> QED
    BY <1>1, NextSlot

(* A counter steps with the flip-flop that is counted.                     *)
LEMMA CounterEdge ==
    ASSUME RegInv, RESET_N = 1, NEW p, EdgeKind(p), NEW c \in Channels
    PROVE  sr_counter'[c] = IF Rising(c) THEN sr_counter[c] + 1 ELSE sr_counter[c]
<1>1. CntTick
    BY EdgeTicks DEF EdgeKind, RegInv, LogInv
<1>2. sr_counter[c] # CntMax
  <2>1. Counted(c) <= seen[c] /\ seen[c] <= MaxPulses /\ MaxPulses < CntMax
      BY Exact DEF RegInv, LogInv, Bounded, LogAssumed
  <2> QED
      BY <2>1, Exact, RegConstants
<1> QED
    BY <1>1, <1>2, EdgeOf DEF RegInv, RegTypeOK, NextCounter, c_pls_rise, Rising

(* The stages at which an edge takes the command under way.                *)
LEMMA StageEdge ==
    ASSUME RegInv, RESET_N = 1, NEW p, EdgeKind(p), NEW c \in Channels
    PROVE  /\ Coming(c)' => Up(c) /\ highAge = 1
           /\ Arrived(c)' => Coming(c)
           /\ Rising(c)' => Arrived(c)
           /\ lowAge >= 4 /\ TRG_PLS = Low => ~Coming(c)' /\ ~Arrived(c)' /\ ~Rising(c)'
<1>1. CntTick
    BY EdgeTicks DEF EdgeKind, RegInv, LogInv
<1>2. /\ ar_trg_pls_1d'[c] = TRG_PLS[c]
      /\ sr_trg_pls_2d'[c] = ar_trg_pls_1d[c]
      /\ sr_trg_pls_3d'[c] = sr_trg_pls_2d[c]
      /\ sr_trg_pls_4d'[c] = IF sr_trg_pls_2d[c] = sr_trg_pls_3d[c]
                             THEN sr_trg_pls_3d[c] ELSE sr_trg_pls_4d[c]
      /\ sr_trg_pls_5d'[c] = sr_trg_pls_4d[c]
    BY <1>1, EdgeOf DEF RegInv, RegTypeOK
<1>3. /\ TRG_PLS[c] \in Bit /\ ar_trg_pls_1d[c] \in Bit /\ sr_trg_pls_2d[c] \in Bit
      /\ sr_trg_pls_3d[c] \in Bit /\ sr_trg_pls_4d[c] \in Bit /\ sr_trg_pls_5d[c] \in Bit
      /\ highAge \in 0..HighTop /\ lowAge \in 0..Quiet
    BY DEF RegInv, RegTypeOK, CntTypeOK
<1>4. Spaced(c)
    BY DEF RegInv, CntInv
<1>5. TRG_PLS = Low => TRG_PLS[c] = 0
    BY LowType
<1> QED
    BY <1>2, <1>3, <1>4, <1>5 DEF Spaced, Coming, Arrived, Rising, Up, Bit, HighTop, Quiet

(* An edge takes the command and its page one stage further.               *)
LEMMA PagedEdge ==
    ASSUME RegInv, RESET_N = 1, NEW p, EdgeKind(p)
    PROVE  Paged'
<1> USE DEF RegInv
<1> DEFINE s == Selected
<1>1. RegEdge(p) /\ CntTick /\ s \in Channels /\ Selected' \in Channels
  <2>1. PAGEADDR_SEL' \in SelectCodes
      BY EdgeTicks DEF EdgeKind, LogInv, CntTick
  <2> QED
      BY <2>1, EdgeTicks, SelectedClass, CodeClass DEF EdgeKind, LogInv, RegTypeOK, Selected
<1>2. CASE Writes(<<"sel">>)
  <2>1. lowAge = Quiet /\ TRG_PLS = Low
      BY <1>2, SelectApart
  <2>2. \A c \in Channels : ~Coming(c)' /\ ~Arrived(c)' /\ ~Rising(c)'
      BY <2>1, StageEdge DEF Quiet
  <2>3. ~Rising(s)
      BY <1>1, <2>1, AtRest DEF UnderWay, Quiet
  <2>4. PLS_RISE' = 0
      BY <1>1, <2>3, PathOf
  <2>5. ~Coming(Selected)' /\ ~Arrived(Selected)' /\ ~Rising(Selected)'
      BY <1>1, <2>2 DEF Coming, Arrived, Rising
  <2> QED
      BY <2>4, <2>5 DEF Paged
<1>3. CASE ~Writes(<<"sel">>)
  <2>1. PAGEADDR_SEL' = PAGEADDR_SEL /\ Selected' = s
      BY <1>1, <1>3, PathOf DEF Selected
  <2>2. Alone /\ Fronted /\ Paged
      BY DEF LogInv
  <2>3. phaseAge \in Nat /\ lowAge \in 0..Quiet /\ highAge \in 0..HighTop
      BY RegConstants DEF RegTypeOK, CntTypeOK
  <2>4. seen[s] \in Nat /\ held \in Page
      BY <1>1 DEF RegTypeOK, CntTypeOK
  <2> DEFINE May(a) == Entry(seen[s], a)
             Shall(a) == LogSlot(seen'[s]) \in LogIndex => a \in want'[LogSlot(seen'[s])]
  <2>5. ~(Up(s) /\ highAge = 1) => seen'[s] = seen[s] /\ \A a : May(a) => Shall(a)
      BY WantEdge DEF Entry
  <2>6. /\ ar_page_paddr_1d' = p
        /\ sr_page_paddr_2d' = ar_page_paddr_1d
        /\ sr_page_paddr_3d' = sr_page_paddr_2d
        /\ sr_page_paddr_sync' = IF sr_page_paddr_2d = sr_page_paddr_3d
                                 THEN sr_page_paddr_3d ELSE sr_page_paddr_sync
        /\ PLS_RISE' = IF Rising(s) THEN 1 ELSE 0
        /\ PADDR_CNT' = LogSlot(sr_counter[s])
        /\ TRG_PLS' = TRG_PLS
      BY <1>1, PathOf
  <2>7. sr_counter'[s] = IF Rising(s) THEN sr_counter[s] + 1 ELSE sr_counter[s]
      BY <1>1, CounterEdge
  <2>8. /\ Coming(s)' => Up(s) /\ highAge = 1
        /\ Arrived(s)' => Coming(s)
        /\ Rising(s)' => Arrived(s)
      BY <1>1, <2>1, StageEdge DEF Coming, Arrived, Rising
  <2>9. ASSUME Coming(s)'
        PROVE  /\ highAge' = 2 /\ lowAge' = 0 /\ PADDR_CNT' = LogSlot(sr_counter'[s])
               /\ sr_page_paddr_2d' = held' /\ sr_page_paddr_3d' = held'
               /\ sr_page_paddr_sync' = held' /\ Shall(held')
               /\ ar_page_paddr_1d' = held' \/ (Up(s)' /\ LateCut')
    <3>1. Up(s) /\ highAge = 1 /\ TRG_PLS # Low
        BY <1>1, <2>8, <2>9, UpOrLow DEF RegTypeOK
    <3>2. highAge' = 2 /\ lowAge' = 0
        BY <1>1, <3>1, TimeOf DEF Older, HighTop
    <3>3. ~Rising(s)
        BY <1>1, <2>2, <3>1 DEF Alone, Rising
    <3>4. Sampled /\ sr_page_paddr_sync = held
        BY <2>2, <3>1 DEF Alone, EdgeKind, LateCut
    <3>5. phase \in {"pulse", "cut"} /\ held' = held
        BY <2>2, <3>1 DEF Fronted, EdgeKind, Clear, Hold, RegTypeOK
    <3>6. Shall(held)
        BY <2>4, <3>1, WantEdge, WantNext
    <3>7. p = held \/ LateCut'
        BY <2>2, <2>3, <3>5, RegConstants DEF Fronted, EdgeKind, Clear, Hold, LateCut, Older, LogAssumed
    <3> QED
        BY <2>1, <2>6, <2>7, <3>1, <3>2, <3>3, <3>4, <3>5, <3>6, <3>7 DEF Sampled, Up
  <2>10. ASSUME Arrived(s)'
         PROVE  /\ sr_page_paddr_3d' = sr_page_paddr_sync' /\ Shall(sr_page_paddr_sync')
                /\ ar_page_paddr_1d' = sr_page_paddr_2d' => Shall(ar_page_paddr_1d')
    <3>1. Coming(s)
        BY <2>8, <2>10
    <3>2. /\ highAge = 2 /\ lowAge = 0
          /\ sr_page_paddr_2d = held /\ sr_page_paddr_3d = held
          /\ sr_page_paddr_sync = held /\ May(held)
          /\ \/ ar_page_paddr_1d = held
             \/ Up(s) /\ LateCut
             \/ TRG_PLS = Low /\ phase = "clear" /\ May(NoPage)
        BY <2>2, <3>1 DEF Paged
    <3>3. ~LateCut
        BY DEF EdgeKind, LateCut
    <3>4. phase = "clear" => p = NoPage
        BY <2>2, <2>3, <3>2, RegConstants
           DEF Fronted, EdgeKind, Clear, Hold, LogAssumed, Quiet
    <3>5. p = ar_page_paddr_1d => May(p)
        BY <3>2, <3>3, <3>4
    <3> QED
        BY <2>5, <2>6, <3>2, <3>5
  <2>11. ASSUME Rising(s)'
         PROVE  /\ Shall(sr_page_paddr_sync')
                /\ sr_page_paddr_2d' = sr_page_paddr_3d' => Shall(sr_page_paddr_2d')
    <3>1. Arrived(s)
        BY <2>8, <2>11
    <3>2. ~(Up(s) /\ highAge = 1)
        BY <1>1, <2>2, <3>1 DEF Arrived, Alone, CntInv, Spaced
    <3>3. /\ sr_page_paddr_3d = sr_page_paddr_sync /\ May(sr_page_paddr_sync)
          /\ ar_page_paddr_1d = sr_page_paddr_2d => May(ar_page_paddr_1d)
        BY <2>2, <3>1 DEF Paged
    <3> QED
        BY <2>5, <2>6, <3>2, <3>3
  <2>12. ASSUME PLS_RISE' = 1
         PROVE  /\ Shall(sr_page_paddr_sync')
                /\ sr_counter'[s] = seen'[s] /\ sr_trg_pls_5d'[s] = 1
    <3>1. Rising(s)
        BY <2>6, <2>12
    <3>2. ~(Up(s) /\ highAge = 1)
        BY <1>1, <2>2, <3>1 DEF Rising, Alone
    <3>3. /\ May(sr_page_paddr_sync)
          /\ sr_page_paddr_2d = sr_page_paddr_3d => May(sr_page_paddr_2d)
        BY <2>2, <3>1 DEF Paged
    <3>4. sr_counter'[s] = seen[s]
        BY <1>1, <2>4, <2>7, <3>1, Exact DEF UnderWay
    <3>5. sr_trg_pls_5d'[s] = 1
        BY <1>1, <3>1, EdgeOf DEF Rising, RegTypeOK
    <3> QED
        BY <2>5, <2>6, <3>2, <3>3, <3>4, <3>5
  <2> HIDE DEF Shall
  <2>13. \A a : Shall(a) => (LogSlot(seen'[s]) \in LogIndex => a \in want'[LogSlot(seen'[s])])
      BY DEF Shall
  <2> QED
      BY <2>1, <2>9, <2>10, <2>11, <2>12, <2>13 DEF Paged, Entry
<1> QED
    BY <1>2, <1>3
(* A class that is being seen the second time has nothing else under way.  *)
LEMMA SecondSample ==
    ASSUME RegInv, highAge = 1, NEW c \in Channels
    PROVE  ~UnderWay(c) /\ PLS_RISE = 0
BY DEF RegInv, LogInv, Alone, CntInv, Spaced, UnderWay, Coming, Arrived, Rising

(* An edge keeps the buffer in step with the index.                        *)
LEMMA BufferedEdge ==
    ASSUME RegInv, RESET_N = 1, NEW p, EdgeKind(p)
    PROVE  Buffered'
<1> USE DEF RegInv, LogInv
<1> DEFINE s == Selected
           slot == LogSlot(sr_counter[s])
<1>1. RegEdge(p) /\ CntTick /\ s \in Channels
    BY EdgeTicks, SelectedClass DEF EdgeKind, RegTypeOK
<1>2. Selected' \in Channels
    BY <1>1, CodeClass DEF CntTick, Selected
<1>3. PLS_RISE \in Bit /\ lowAge \in 0..Quiet /\ seen[s] \in Nat
    BY <1>1 DEF RegTypeOK, CntTypeOK
<1>4. /\ PADDR_CNT' = slot
      /\ PLS_RISE' = IF Rising(s) THEN 1 ELSE 0
      /\ sr_page_paddr_buf' = IF PLS_RISE = 1 THEN sr_page_paddr_sync ELSE sr_page_paddr_buf
      /\ ~Writes(<<"sel">>) => Selected' = s
    BY <1>1, PathOf DEF Selected
<1>5. slot \in LogIndex => sr_page_paddr_buf' \in want'[slot]
  <2>1. slot \in LogIndex => sr_page_paddr_buf' \in want[slot]
      BY <1>3, <1>4 DEF Paged, Buffered, Entry, Bit
  <2>2. CASE Up(s) /\ highAge = 1
    <3>1. sr_counter[s] = seen[s]
        BY <1>1, <2>2, SecondSample, Exact
    <3> QED
        BY <1>3, <2>1, <2>2, <3>1, WantEdge, WantNext
  <2>3. CASE ~(Up(s) /\ highAge = 1)
      BY <2>1, <2>3, WantEdge
  <2> QED
      BY <2>2, <2>3
<1>6. PLS_RISE' = 0 => Entry(sr_counter[Selected], sr_page_paddr_buf)'
  <2>1. CASE Writes(<<"sel">>)
    <3>1. lowAge = Quiet /\ TRG_PLS = Low
        BY <2>1, SelectApart
    <3>2. sr_page_paddr_buf' = sr_page_paddr_buf
        BY <1>4, <3>1 DEF Alone, Quiet
    <3>3. sr_counter'[Selected'] = seen[Selected'] /\ seen' = seen
        BY <1>2, <2>1, <3>1, CounterEdge, Exact, AtRest, WantEdge DEF UnderWay, Quiet
    <3> QED
        BY <2>1, <3>2, <3>3, WantEdge DEF Entry
  <2>2. CASE ~Writes(<<"sel">>)
    <3>1. Rising(s) \/ sr_counter'[s] = sr_counter[s]
        BY <1>1, CounterEdge
    <3> QED
        BY <1>4, <1>5, <2>2, <3>1 DEF Entry
  <2> QED
      BY <2>1, <2>2
<1>7. lowAge' = Quiet - 1 => PADDR_CNT' = LogSlot(seen'[Selected'])
  <2> SUFFICES ASSUME lowAge' = Quiet - 1 PROVE PADDR_CNT' = LogSlot(seen'[Selected'])
      OBVIOUS
  <2>1. TRG_PLS = Low /\ lowAge = 4
      BY <1>1, <1>3, TimeOf DEF Older, Quiet
  <2>2. ~Writes(<<"sel">>) /\ seen' = seen
      BY <1>1, <2>1, SelectApart, TimeOf DEF Quiet
  <2> QED
      BY <1>1, <1>4, <2>1, <2>2, AtRest, Exact
<1> QED
    BY <1>4, <1>5, <1>6, <1>7 DEF Buffered

(* An edge keeps the log true but for the command under way.               *)
LEMMA LoggedEdge ==
    ASSUME RegInv, RESET_N = 1, NEW p, EdgeKind(p)
    PROVE  Logged'
<1> USE DEF RegInv, LogInv
<1> DEFINE s == Selected
<1>1. RegEdge(p) /\ s \in Channels
    BY SelectedClass DEF EdgeKind, RegTypeOK
<1>2. seen[s] \in Nat /\ lowAge \in 0..Quiet /\ highAge \in 0..HighTop
    BY <1>1 DEF RegTypeOK, CntTypeOK
<1>3. ~Writes(<<"sel">>) => Selected' = s
    BY <1>1, PathOf DEF Selected
<1> SUFFICES ASSUME NEW k \in LogIndex,
                    lowAge' = Quiet \/ highAge' = 1 \/ k # LogSlot(seen'[Selected'])
             PROVE  sr_paddr_dat'[k] \in want'[k]
    BY DEF Logged
<1>4. sr_paddr_dat'[k] = IF PADDR_CNT = k THEN sr_page_paddr_buf ELSE sr_paddr_dat[k]
    BY <1>1, PathOf
<1>5. PADDR_CNT = k => sr_page_paddr_buf \in want[k]
    BY DEF Buffered
<1>6. ~(Up(s) /\ highAge = 1) => want[k] \subseteq want'[k]
    BY WantEdge
<1>7. TRG_PLS = Low => ~Up(s)
    BY <1>1, UpOrLow DEF RegTypeOK
<1>8. CASE lowAge' = Quiet
  <2>1. TRG_PLS = Low /\ lowAge \in {Quiet - 1, Quiet}
      BY <1>1, <1>2, <1>8, TimeOf DEF Older, Quiet
  <2>2. PADDR_CNT = k \/ sr_paddr_dat[k] \in want[k]
      BY <2>1 DEF Buffered, Logged
  <2> QED
      BY <1>4, <1>5, <1>6, <1>7, <2>1, <2>2
<1>9. CASE highAge' = 1
  <2>1. TRG_PLS # Low /\ highAge = 0
      BY <1>1, <1>2, <1>9, TimeOf DEF Older, HighTop
  <2>2. sr_paddr_dat[k] \in want[k]
      BY <2>1 DEF Alone, Logged
  <2> QED
      BY <1>4, <1>5, <1>6, <2>1, <2>2
<1>10. CASE lowAge' # Quiet /\ k # LogSlot(seen'[Selected'])
  <2>1. ~Writes(<<"sel">>)
      BY <1>1, <1>2, <1>10, SelectApart, TimeOf DEF Older, Quiet
  <2>2. CASE Up(s) /\ highAge = 1
    <3>1. seen'[s] = seen[s] + 1 /\ want' = Want(seen[s] + 1, {held})
        BY <2>2, WantEdge
    <3>2. want'[k] = want[k]
        BY <1>2, <1>3, <1>10, <2>1, <3>1, WantNext
    <3> QED
        BY <1>4, <1>5, <2>2, <3>2 DEF Logged
  <2>3. CASE ~(Up(s) /\ highAge = 1)
      BY <1>3, <1>4, <1>5, <1>6, <1>10, <2>1, <2>3, WantEdge DEF Logged
  <2> QED
      BY <2>2, <2>3
<1> QED
    BY <1>8, <1>9, <1>10

(* An edge keeps the invariant.                                            *)
LEMMA EdgeLogInv ==
    ASSUME RegInv, RESET_N = 1, RegTick100 \/ ChangePageAtTick
    PROVE  LogInv' /\ CntInv'
<1>1. PICK p : EdgeKind(p)
    BY EdgeKinds DEF RegInv
<1>2. RegEdge(p) /\ CntTick
    BY <1>1, EdgeTicks DEF EdgeKind, RegInv, LogInv
<1>3. CntInv'
    BY <1>2, EdgeCntInv DEF RegInv, RegTypeOK
<1>4. Blank'
    BY <1>2 DEF RegEdge, Blank
<1>5. Apart'
    BY <1>2 DEF RegEdge, RegClock, Apart, Writes, REG_WAITREQUEST, Taking, Idle
<1> QED
    BY <1>1, <1>3, <1>4, <1>5, FrontedEdge, AloneEdge, BoundedEdge, PagedEdge, BufferedEdge,
       LoggedEdge DEF LogInv
-----------------------------------------------------------------------------
(* The reset, and steps between two edges                                  *)

(* Everything is clear while RESET_N is low.                               *)
AllClear ==
    /\ LogAssumed /\ RegTypeOK /\ CntInv /\ RESET_N = 0 /\ Blank /\ PAGE_ADDR = NoPage
    /\ lowAge = Quiet \/ lowAge >= phaseAge

(* The first command has number 1, and zero is no entry of the log.        *)
LEMMA SlotOfNone == LogSlot(0) = 0 /\ 0 \notin LogIndex
<1>1. 0 % IdxMod = 0
    BY RegConstants
<1> QED
    BY <1>1 DEF LogSlot, LogIndex

(* The invariant holds while all is clear.                                 *)
LEMMA ClearLogInv == AllClear => LogInv
<1> SUFFICES ASSUME AllClear PROVE LogInv
    OBVIOUS
<1> USE DEF AllClear
<1>1. /\ TRG_PLS = Low /\ highAge = 0 /\ seen = Low /\ sr_counter = Low
      /\ ar_trg_pls_1d = Low /\ sr_trg_pls_2d = Low /\ sr_trg_pls_3d = Low
      /\ sr_trg_pls_4d = Low /\ sr_trg_pls_5d = Low
    BY DEF CntInv, Cleared
<1>2. /\ phase = "clear" /\ bus = Idle /\ PLS_RISE = 0 /\ PADDR_CNT = 0
      /\ sr_page_paddr_buf = NoPage
      /\ sr_paddr_dat = [k \in LogIndex |-> NoPage]
      /\ want = [k \in LogIndex |-> {NoPage}]
    BY DEF Blank
<1>3. Selected \in Channels
    BY SelectedClass DEF RegTypeOK
<1>4. Fronted
    BY <1>1, <1>2 DEF Fronted
<1>5. Apart
    BY <1>2 DEF Apart, Writes, REG_WAITREQUEST, Idle
<1>6. Alone
    BY <1>1, <1>2 DEF Alone
<1>7. Bounded
    BY <1>1, LowType, RegConstants DEF Bounded, Low, Up
<1>8. Paged
    BY <1>1, <1>2, <1>3, LowType DEF Paged, Coming, Arrived, Rising
<1>9. Buffered
  <2>1. seen[Selected] = 0 /\ sr_counter[Selected] = 0
      BY <1>1, <1>3, LowType
  <2> QED
      BY <1>2, <2>1, SlotOfNone DEF Buffered, Entry
<1>10. Logged
    BY <1>2 DEF Logged
<1> QED
    BY <1>4, <1>5, <1>6, <1>7, <1>8, <1>9, <1>10 DEF LogInv

(* An edge during the reset keeps everything clear.                        *)
LEMMA ClearEdge ==
    ASSUME RegInv, RegTypeOK', RESET_N = 0, RegTick100 \/ ChangePageAtTick
    PROVE  LogInv' /\ CntInv'
<1> USE DEF RegInv, LogInv
<1>1. PICK p : EdgeKind(p)
    BY EdgeKinds
<1>2. RegEdge(p) /\ CntTick /\ phase = "clear" /\ bus = Idle /\ TRG_PLS = Low
    BY <1>1, EdgeTicks DEF EdgeKind, Blank, Fronted
<1>3. CntInv'
    BY <1>2, EdgeCntInv DEF RegTypeOK
<1>4. UNCHANGED <<PAGE_ADDR, phase, held>> /\ phaseAge' = Older(phaseAge, AgeTop)
    BY <1>1, <1>2 DEF EdgeKind, Clear, Hold
<1>5. lowAge' = Older(lowAge, Quiet)
    BY <1>2, UpOrLow DEF RegEdge, CntClock, RegTypeOK
<1>6. lowAge' = Quiet \/ lowAge' >= phaseAge'
  <2>1. phaseAge \in Nat /\ lowAge \in 0..Quiet
      BY RegConstants DEF RegTypeOK, CntTypeOK
  <2> QED
      BY <1>2, <1>4, <1>5, <2>1, RegConstants DEF Fronted, Older, Quiet
<1>7. Blank' /\ RESET_N' = 0
  <2>1. ~REG_WAITREQUEST /\ bus' = Idle /\ want' = want /\ RESET_N' = 0
      BY <1>2 DEF RegEdge, RegClock, REG_WAITREQUEST, Idle, Writes
  <2> QED
      BY <1>2, <1>4, <2>1 DEF RegEdge, CntEdge, CntReset, PageEdge, PageReset, LogEdge, LogReset, Blank
<1>8. AllClear'
    BY <1>2, <1>3, <1>4, <1>6, <1>7 DEF AllClear, Fronted, LogAssumed
<1> QED
    BY <1>3, <1>8, ClearLogInv, PTL

(* RESET_N clears everything.                                              *)
LEMMA ResetLogInv ==
    ASSUME RegInv, RegTypeOK', RegResetAssert
    PROVE  LogInv' /\ CntInv'
<1> USE DEF RegInv
<1>1. CntResetAssert
    BY DEF RegResetAssert, CntResetAssert, PortReset
<1>2. CntInv'
    BY <1>1, ResetCntInv DEF RegTypeOK
<1>3. Blank'
    BY DEF RegResetAssert, CntReset, PageReset, LogReset, Blank
<1>4. AllClear'
    BY <1>2, <1>3 DEF RegResetAssert, AllClear, LogAssumed
<1> QED
    BY <1>2, <1>4, ClearLogInv, PTL

(* What changes nothing but the front end's page, or ends the reset.       *)
LEMMA QuietLogInv ==
    ASSUME RegInv, UNCHANGED <<TRG_PLS, PAGEADDR_SEL, cntRegs, cntEnv, pageRegs, want>>,
           Fronted', Apart', Blank', RESET_N' = RESET_N \/ RESET_N' = 1,
           \/ UNCHANGED <<phase, phaseAge, held>>
           \/ TRG_PLS = Low /\ (lowAge > 0 \/ (held' = held /\ phase' = "clear"))
           \/ phase = "pulse" /\ held' = held /\ phase' = "cut" /\ phaseAge' = 0
    PROVE  LogInv' /\ CntInv'
<1> USE DEF RegInv, LogInv, cntRegs, cntSync, cntEnv, pageRegs
<1>1. CntInv'
    BY QuietCntInv DEF RegTypeOK
<1>2. Alone'
    BY DEF Alone, Sampled, LateCut
<1>3. Bounded'
    BY DEF Bounded, Up
<1>4. Buffered' /\ Logged'
    BY DEF Buffered, Logged, Entry, Selected
<1>5. Paged'
  <2>1. Selected' = Selected /\ Selected \in Channels
      BY SelectedClass DEF Selected, RegTypeOK
  <2>2. Up(Selected) => TRG_PLS # Low
      BY <2>1, LowType DEF Up
  <2>3. Coming(Selected) => held' = held
      BY DEF Paged
  <2> QED
      BY <2>1, <2>2, <2>3 DEF Paged, Entry, Coming, Arrived, Rising, Up, LateCut
<1> QED
    BY <1>1, <1>2, <1>3, <1>4, <1>5

(* The front end clears its page or holds one.                             *)
LEMMA ChangeLogInv == RegInv /\ ChangePage => LogInv' /\ CntInv'
<1> SUFFICES ASSUME RegInv, ChangePage PROVE LogInv' /\ CntInv'
    OBVIOUS
<1> USE DEF RegInv, LogInv
<1>1. /\ UNCHANGED <<cntVars, pageRegs, portRegs, bus, want>>
      /\ Clear(0) \/ \E a \in Pages : Hold(a)
    BY DEF ChangePage
<1>2. UNCHANGED <<RESET_N, TRG_PLS, PAGEADDR_SEL, cntRegs, cntEnv, lowAge, highAge>>
    BY <1>1 DEF cntVars, cntPins, cntEnv
<1>3. phaseAge \in Nat /\ lowAge \in Nat
    BY RegConstants DEF RegTypeOK, CntTypeOK, Quiet
<1>4. RESET_N = 1
    BY <1>1 DEF Blank, Clear, Hold, RegTypeOK, CntTypeOK, Bit
<1>5. Fronted'
    BY <1>1, <1>2, <1>3, RegConstants DEF Fronted, Clear, Hold, pageRegs, LogAssumed
<1>6. Blank'
    BY <1>2, <1>4 DEF Blank
<1>7. Apart'
    BY <1>1, <1>2 DEF Apart, Writes, REG_WAITREQUEST, Clear, Hold, Fronted
<1>8. \/ TRG_PLS = Low /\ (lowAge > 0 \/ (held' = held /\ phase' = "clear"))
      \/ phase = "pulse" /\ held' = held /\ phase' = "cut" /\ phaseAge' = 0
    BY <1>1, <1>3, RegConstants DEF Fronted, Clear, Hold, LogAssumed, Quiet
<1> QED
    BY <1>1, <1>2, <1>5, <1>6, <1>7, <1>8, QuietLogInv

(* The host begins a transfer.                                             *)
LEMMA StartLogInv ==
    ASSUME RegInv, NEW op \in HostOps, Start(op)
    PROVE  LogInv' /\ CntInv'
<1> USE DEF RegInv, LogInv
<1>1. /\ UNCHANGED <<cntVars, PAGE_ADDR, pageRegs, phase, phaseAge, held, want>>
      /\ RESET_N = 1 /\ bus' = Begin(op)
    BY DEF Start, regEnv
<1>2. UNCHANGED <<RESET_N, TRG_PLS, PAGEADDR_SEL, cntRegs, cntEnv, lowAge, highAge>>
    BY <1>1 DEF cntVars, cntPins, cntEnv
<1>3. Fronted'
    BY <1>1, <1>2 DEF Fronted, pageRegs
<1>4. Blank'
    BY <1>1, <1>2 DEF Blank
<1>5. Apart'
    BY <1>1, <1>2 DEF Apart, Writes, REG_WAITREQUEST, Begin, Start, MaySelect
<1> QED
    BY <1>1, <1>2, <1>3, <1>4, <1>5, QuietLogInv

(* A trigger rises.                                                        *)
LEMMA RaiseLogInv ==
    ASSUME RegInv, NEW c \in Channels, Raise(c)
    PROVE  LogInv' /\ CntInv'
<1> USE DEF RegInv, LogInv
<1>1. /\ RisePls(c) /\ phase = "held" /\ phaseAge >= PageLead /\ phaseAge' = 0
      /\ UNCHANGED <<held, pageRegs, bus, want>>
      /\ \/ phase' = "pulse" /\ UNCHANGED PAGE_ADDR
         \/ phase' = "cut" /\ PAGE_ADDR' = NoPage
    BY DEF Raise
<1>2. /\ RESET_N = 1 /\ TRG_PLS = Low /\ TRG_PLS' = [TRG_PLS EXCEPT ![c] = 1] /\ highAge' = 0
      /\ UNCHANGED <<RESET_N, PAGEADDR_SEL, cntRegs, lowAge, seen>> /\ seen[c] < MaxPulses
    BY <1>1 DEF RisePls
<1>3. phaseAge \in Nat /\ lowAge \in 0..Quiet
    BY RegConstants DEF RegTypeOK, CntTypeOK
<1>4. lowAge = Quiet
    BY <1>1, <1>3, RegConstants DEF Fronted, LogAssumed, Quiet
<1>5. TRG_PLS' # Low
    BY <1>2, LowType
<1>6. CntInv'
    BY <1>1, RiseCntInv DEF RegTypeOK
<1>7. Blank'
    BY <1>2 DEF Blank
<1>8. Fronted'
    BY <1>1, <1>5 DEF Fronted
<1>9. Apart'
    BY <1>1, <1>3, RegConstants DEF Apart, Writes, REG_WAITREQUEST, LogAssumed
<1>10. Alone'
    BY <1>1, <1>2, <1>3, <1>4, RegConstants DEF Alone, Sampled, Fronted, LogAssumed, pageRegs, cntRegs, Quiet
<1>11. Bounded'
  <2> SUFFICES ASSUME NEW d \in Channels
               PROVE  /\ seen'[d] <= MaxPulses
                      /\ Up(d)' /\ highAge' <= 1 => seen'[d] < MaxPulses
      BY DEF Bounded
  <2>1. Up(d)' => d = c
      BY <1>2, LowType DEF Up
  <2> QED
      BY <1>2, <2>1 DEF Bounded
<1>12. Selected' = Selected /\ Selected \in Channels
    BY <1>2, SelectedClass DEF Selected, RegTypeOK
<1>13. Paged'
  <2>1. ~UnderWay(Selected)
      BY <1>4, <1>12, AtRest DEF Quiet
  <2> QED
      BY <1>1, <1>2, <1>12, <2>1 DEF Paged, Entry, UnderWay, Coming, Arrived, Rising,
                                     cntRegs, cntSync, pageRegs
<1>14. Buffered' /\ Logged'
    BY <1>1, <1>2, <1>4, <1>12 DEF Buffered, Logged, Entry, cntRegs, pageRegs
<1> QED
    BY <1>6, <1>7, <1>8, <1>9, <1>10, <1>11, <1>13, <1>14

(* What the end of a pulse does to the entries: it may add the lost page   *)
(* to that of a command whose pulse was cut after two samples.             *)
LEMMA WantFall ==
    ASSUME RegInv, Fall, phase = "cut", Up(Selected), highAge = 2
    PROVE  /\ Coming(Selected)
           /\ LogSlot(seen[Selected]) \in LogIndex =>
                want'[LogSlot(seen[Selected])] = {held, NoPage}
           /\ \A k \in LogIndex : k # LogSlot(seen[Selected]) => want'[k] = want[k]
           /\ LogSlot(sr_counter[Selected]) \in LogIndex =>
                want'[LogSlot(sr_counter[Selected])] = want[LogSlot(sr_counter[Selected])]
<1> USE DEF RegInv, LogInv
<1> DEFINE s == Selected
<1>1. want' = Want(seen[s], {held, NoPage})
    BY DEF Fall
<1>2. s \in Channels
    BY SelectedClass DEF RegTypeOK
<1>3. Coming(s)
    BY <1>1, <1>2 DEF Alone, CntInv, Spaced, Coming, Up
<1>4. /\ LogSlot(seen[s]) \in LogIndex => want'[LogSlot(seen[s])] = {held, NoPage}
      /\ \A k \in LogIndex : k # LogSlot(seen[s]) => want'[k] = want[k]
    BY <1>1 DEF Want, RegTypeOK
<1>5. sr_counter[s] \in Nat /\ seen[s] = sr_counter[s] + 1
    BY <1>2, <1>3, Exact DEF UnderWay
<1>6. LogSlot(seen[s]) \in LogIndex => LogSlot(sr_counter[s]) # LogSlot(seen[s])
    BY <1>5, NextSlot
<1>7. LogSlot(sr_counter[s]) \in LogIndex =>
          want'[LogSlot(sr_counter[s])] = want[LogSlot(sr_counter[s])]
  <2>1. CASE LogSlot(seen[s]) \in LogIndex
      BY <1>4, <1>6, <2>1
  <2>2. CASE LogSlot(seen[s]) \notin LogIndex
      BY <1>1, <2>2 DEF Want
  <2> QED
      BY <2>1, <2>2
<1> QED
    BY <1>1, <1>3, <1>4, <1>7

(* A trigger falls.                                                        *)
LEMMA FallLogInv == RegInv /\ Fall => LogInv' /\ CntInv'
<1> SUFFICES ASSUME RegInv, Fall PROVE LogInv' /\ CntInv'
    OBVIOUS
<1> USE DEF RegInv, LogInv
<1> DEFINE s == Selected
<1>1. /\ FallPls /\ phaseAge' = 0 /\ UNCHANGED <<held, pageRegs, bus>>
      /\ \/ /\ phase = "pulse" /\ highAge = HighTop /\ want' = want
            /\ \/ phase' = "after" /\ UNCHANGED PAGE_ADDR
               \/ phase' = "clear" /\ PAGE_ADDR' = NoPage
         \/ /\ phase = "cut" /\ phase' = "clear" /\ UNCHANGED PAGE_ADDR
            /\ (Up(s) /\ highAge = 2) \/ want' = want
    BY DEF Fall
<1>2. /\ TRG_PLS # Low /\ TRG_PLS' = Low
      /\ UNCHANGED <<RESET_N, PAGEADDR_SEL, cntRegs, cntEnv, lowAge, highAge, seen>>
    BY <1>1 DEF FallPls, cntEnv
<1>3. Selected' = s /\ s \in Channels
    BY <1>2, SelectedClass DEF Selected, RegTypeOK
<1>4. CntInv'
    BY <1>1, FallCntInv DEF RegTypeOK
<1>5. RESET_N = 1
    BY <1>1 DEF Blank, RegTypeOK, CntTypeOK, Bit
<1>6. Blank'
    BY <1>2, <1>5 DEF Blank
<1>7. Fronted'
    BY <1>1, <1>2, RegConstants DEF Fronted, RegTypeOK, CntTypeOK, Quiet
<1>8. Apart'
    BY <1>1 DEF Apart, Writes, REG_WAITREQUEST
<1>9. Alone'
    BY <1>1, <1>2 DEF Alone, cntRegs, cntSync
<1>10. Bounded'
    BY <1>2, LowType DEF Bounded, Up
<1>11. CASE ~(phase = "cut" /\ Up(s) /\ highAge = 2)
  <2>0. want' = want
      BY <1>1, <1>11
  <2>1. Paged'
      BY <1>1, <1>2, <1>3, <1>11, <2>0
         DEF Paged, Entry, Coming, Arrived, Rising, LateCut, cntRegs, cntSync, pageRegs, HighTop
  <2>2. Buffered' /\ Logged'
      BY <1>2, <1>3, <2>0, <1>1 DEF Buffered, Logged, Entry, cntRegs, pageRegs
  <2> QED
      BY <1>4, <1>6, <1>7, <1>8, <1>9, <1>10, <2>1, <2>2
<1>12. CASE phase = "cut" /\ Up(s) /\ highAge = 2
  <2>1. /\ Coming(s)
        /\ LogSlot(seen[s]) \in LogIndex => want'[LogSlot(seen[s])] = {held, NoPage}
        /\ \A k \in LogIndex : k # LogSlot(seen[s]) => want'[k] = want[k]
        /\ LogSlot(sr_counter[s]) \in LogIndex =>
             want'[LogSlot(sr_counter[s])] = want[LogSlot(sr_counter[s])]
      BY <1>12, WantFall
  <2>2. /\ PADDR_CNT = LogSlot(sr_counter[s]) /\ lowAge = 0 /\ PLS_RISE = 0
        /\ sr_trg_pls_3d[s] = 0 /\ sr_trg_pls_4d[s] = 0
      BY <1>3, <1>12, <2>1 DEF Paged, Alone
  <2>3. Paged'
      BY <1>1, <1>2, <1>3, <1>12, <2>1, <2>2
         DEF Paged, Entry, Coming, Arrived, Rising, cntRegs, cntSync, pageRegs
  <2>4. Buffered'
      BY <1>1, <1>2, <1>3, <2>1, <2>2 DEF Buffered, Entry, cntRegs, pageRegs
  <2>5. Logged'
      BY <1>1, <1>2, <1>3, <1>12, <2>1, <2>2 DEF Logged, pageRegs, Quiet
  <2> QED
      BY <1>4, <1>6, <1>7, <1>8, <1>9, <1>10, <2>3, <2>4, <2>5
<1> QED
    BY <1>11, <1>12
-----------------------------------------------------------------------------
(* The theorems                                                            *)

(* The types hold when the device is switched on.                          *)
LEMMA RegInitType == RegInit => RegTypeOK /\ PortInv
<1> SUFFICES ASSUME RegInit PROVE RegTypeOK /\ PortInv
    OBVIOUS
<1>1. CntTypeOK
    BY InitType DEF RegInit
<1>2. window \in [Channels -> [Sides -> Page]] /\ r_reg_readdata[1] \in Registers
    BY PageFacts DEF RegInit, Registers
<1>3. 0 \in 0..CntMax /\ 0 \in 0..AgeTop
    BY RegConstants
<1>4. PortInv
    BY DEF RegInit, PortInv, Idle
<1> QED
    BY <1>1, <1>2, <1>3, <1>4, PageFacts DEF RegInit, RegTypeOK

(* The inductive invariant holds when the device is switched on.           *)
LEMMA RegInitInv == LogAssumed /\ RegInit => RegInv
<1> SUFFICES ASSUME LogAssumed, RegInit PROVE RegInv
    OBVIOUS
<1>1. RegTypeOK /\ PortInv
    BY RegInitType
<1>2. CntInv
    BY InitCntInv DEF RegInit
<1>3. Blank
    BY DEF RegInit, CntInit, Blank
<1>4. AllClear
    BY <1>1, <1>2, <1>3 DEF AllClear, RegInit, CntInit
<1> QED
    BY <1>1, <1>2, <1>4, ClearLogInv DEF RegInv

(* Every step keeps the inductive invariant.                               *)
LEMMA RegStepInv == RegInv /\ [RegNext]_regVars => RegInv'
<1> SUFFICES ASSUME RegInv, [RegNext]_regVars PROVE RegInv'
    OBVIOUS
<1>1. RegTypeOK' /\ PortInv' /\ LogAssumed'
    BY RegStepType DEF RegInv, LogInv, LogAssumed
<1>2. ASSUME RegTick100 \/ ChangePageAtTick PROVE LogInv' /\ CntInv'
    BY <1>1, <1>2, EdgeLogInv, ClearEdge DEF RegInv, RegTypeOK, CntTypeOK, Bit
<1>3. ASSUME ChangePage PROVE LogInv' /\ CntInv'
    BY <1>3, ChangeLogInv
<1>4. ASSUME Fall PROVE LogInv' /\ CntInv'
    BY <1>4, FallLogInv
<1>5. ASSUME NEW c \in Channels, Raise(c) PROVE LogInv' /\ CntInv'
    BY <1>5, RaiseLogInv
<1>6. ASSUME NEW op \in HostOps, Start(op) PROVE LogInv' /\ CntInv'
    BY <1>6, StartLogInv
<1>7. ASSUME RegResetAssert PROVE LogInv' /\ CntInv'
    BY <1>1, <1>7, ResetLogInv
<1>8. ASSUME UNCHANGED <<TRG_PLS, PAGEADDR_SEL, cntRegs, cntEnv, PAGE_ADDR, pageRegs, bus, regEnv>>,
             RESET_N' = RESET_N \/ RESET_N' = 1
      PROVE  LogInv' /\ CntInv'
  <2>1. Fronted' /\ Apart' /\ Blank'
      BY <1>8 DEF RegInv, LogInv, Fronted, Apart, Blank, Writes, REG_WAITREQUEST,
                  cntEnv, cntRegs, pageRegs, regEnv
  <2> QED
      BY <1>8, <2>1, QuietLogInv DEF regEnv
<1>9. ASSUME RegResetRelease PROVE LogInv' /\ CntInv'
    BY <1>8, <1>9 DEF RegResetRelease
<1>10. ASSUME UNCHANGED regVars PROVE LogInv' /\ CntInv'
    BY <1>8, <1>10 DEF regVars, cntVars, cntPins
<1> QED
    BY <1>1, <1>2, <1>3, <1>4, <1>5, <1>6, <1>7, <1>9, <1>10 DEF RegNext, RegInv

(* The inductive invariant holds in every instance whose pages are ahead   *)
(* of their triggers and whose counters do not reach their largest value.  *)
THEOREM RegInvariant == LogAssumed /\ RegSpec => []RegInv
BY RegInitInv, RegStepInv, PTL DEF RegSpec

(* The registers of the CLK100M half stay within their widths.             *)
THEOREM RegTypeCorrect == LogAssumed /\ RegSpec => []RegTypeOK
<1>1. RegInv => RegTypeOK
    BY DEF RegInv
<1> QED
    BY <1>1, RegInvariant, PTL

(* Once the log is quiet, every paddr register shows the page of the       *)
(* command that it is for: a page is lost only where the pulse was cut     *)
(* after two samples, and no command disturbs the entry of another.        *)
THEOREM LogTrueAlways == LogAssumed /\ RegSpec => []LogTrue
<1>1. RegInv => LogTrue
    BY DEF RegInv, LogInv, Logged, LogTrue
<1> QED
    BY <1>1, RegInvariant, PTL
-----------------------------------------------------------------------------
(* The host that polls: CountThenEntry                                     *)

(* What the theorem assumes besides: there are fewer commands than values  *)
(* of PADDR_CNT, so that no entry is used again, and the host does not     *)
(* select another class, which would leave it with the count of the old.   *)
PollAssumed ==
    /\ LogAssumed /\ MaxPulses < IdxMod
    /\ \A op \in HostOps : op.kind = "write" => op.reg # <<"sel">>

(* Entry n is in the log.                                                  *)
InLog(n) ==
    n # 0 /\ LogSlot(n) \in LogIndex => sr_paddr_dat[LogSlot(n)] \in want[LogSlot(n)]

(* The count that the host is being given is that of a command whose entry *)
(* is in the log, or is the one PADDR_CNT points at, which gets the buffer *)
(* with the next edge; the count the host has is that of one in the log.   *)
PollInv ==
    LET s == Selected
        n == r_reg_readdata[2]
    IN  /\ RESET_N = 0 => countRead = 0
        /\ countRead <= sr_counter[s] /\ InLog(countRead)
        /\ bus.step = "take" /\ bus.op.kind = "read" /\ bus.op.reg = <<"count", s>> =>
             n <= sr_counter[s] /\ (InLog(n) \/ PADDR_CNT = LogSlot(n))
        /\ CountThenEntry

(* With fewer commands than values of PADDR_CNT the number is the entry.   *)
LEMMA OwnSlot ==
    ASSUME PollAssumed, NEW n \in Nat, n <= MaxPulses
    PROVE  LogSlot(n) = n
<1>1. n < IdxMod /\ IdxMod \in Nat /\ IdxMod > 0
    BY RegConstants DEF PollAssumed
<1>2. n % IdxMod = n
    BY <1>1
<1> QED
    BY <1>2 DEF LogSlot

(* An entry that is in the log, or gets the buffer, stays what it should.  *)
LEMMA EntryStays ==
    ASSUME PollAssumed, RegInv, RESET_N = 1, NEW p, EdgeKind(p),
           NEW n \in Nat, n <= sr_counter[Selected],
           InLog(n) \/ PADDR_CNT = LogSlot(n)
    PROVE  /\ InLog(n)'
           /\ n # 0 /\ LogSlot(n) \in LogIndex => want'[LogSlot(n)] = want[LogSlot(n)]
<1> USE DEF RegInv, LogInv
<1> DEFINE s == Selected
           k == LogSlot(n)
<1> SUFFICES ASSUME n # 0, k \in LogIndex
             PROVE  sr_paddr_dat'[k] \in want'[k] /\ want'[k] = want[k]
    BY DEF InLog
<1>1. RegEdge(p) /\ s \in Channels
    BY SelectedClass DEF EdgeKind, RegTypeOK
<1>2. sr_counter[s] <= seen[s] /\ seen[s] \in Nat /\ seen[s] <= MaxPulses /\ sr_counter[s] \in Nat
    BY <1>1, Exact DEF Bounded
<1>3. n <= seen[s] /\ n <= MaxPulses /\ MaxPulses \in Nat
    BY <1>2, RegConstants
<1>4. ~Writes(<<"sel">>)
    BY BusOp DEF Writes, REG_WAITREQUEST, PollAssumed
<1>5. want'[k] = want[k]
  <2>1. CASE Up(s) /\ highAge = 1
    <3>1. want' = Want(seen[s] + 1, {held}) /\ seen[s] + 1 <= MaxPulses
        BY <1>1, <1>2, <2>1, WantEdge, RegConstants DEF Bounded
    <3>2. LogSlot(seen[s] + 1) = seen[s] + 1 /\ k = n
        BY <1>2, <1>3, <3>1, OwnSlot
    <3> QED
        BY <1>2, <1>3, <3>1, <3>2, WantNext
  <2>2. CASE ~(Up(s) /\ highAge = 1)
      BY <1>1, <1>4, <2>2 DEF RegEdge, RegClock
  <2> QED
      BY <2>1, <2>2
<1>6. sr_paddr_dat'[k] = IF PADDR_CNT = k THEN sr_page_paddr_buf ELSE sr_paddr_dat[k]
    BY <1>1, PathOf
<1> QED
    BY <1>5, <1>6 DEF InLog, Buffered

(* An edge.                                                                *)
LEMMA EdgePollInv ==
    ASSUME PollAssumed, RegInv, RegInv', PollInv, RESET_N = 1, RegTick100 \/ ChangePageAtTick
    PROVE  PollInv'
<1> USE DEF RegInv, LogInv
<1> DEFINE s == Selected
<1>1. PICK p : EdgeKind(p)
    BY EdgeKinds
<1>2. RegEdge(p) /\ s \in Channels
    BY <1>1, SelectedClass DEF EdgeKind, RegTypeOK
<1>3. ~Writes(<<"sel">>)
    BY BusOp DEF Writes, REG_WAITREQUEST, PollAssumed
<1>4. Selected' = s /\ RESET_N' = 1 /\ PADDR_CNT' = LogSlot(sr_counter[s])
    BY <1>2, <1>3, PathOf DEF Selected
<1>5. sr_counter[s] \in Nat /\ sr_counter'[s] \in Nat /\ sr_counter[s] <= sr_counter'[s]
  <2>1. sr_counter[s] \in Nat
      BY <1>2, RegConstants DEF RegTypeOK, CntTypeOK
  <2> QED
      BY <1>1, <1>2, <2>1, CounterEdge
<1>6. countRead \in Nat /\ countRead <= sr_counter[s] /\ InLog(countRead)
    BY RegConstants DEF PollInv, RegTypeOK
<1>7. ASSUME NEW n \in Nat, n <= sr_counter[s], InLog(n) \/ PADDR_CNT = LogSlot(n),
             n # 0, LogSlot(n) \in LogIndex
      PROVE  sr_paddr_dat'[LogSlot(n)] \in want'[LogSlot(n)] /\ want'[LogSlot(n)] = want[LogSlot(n)]
    BY <1>1, <1>7, EntryStays DEF InLog
<1>8. CASE bus.step = "take" /\ bus.op.kind = "read" /\ bus.op.reg = <<"count", s>>
  <2>1. countRead' = r_reg_readdata[2] /\ bus' = Idle
      BY <1>2, <1>8 DEF RegEdge, RegClock, REG_WAITREQUEST
  <2>2. r_reg_readdata[2] \in Nat
      BY <1>2, <1>8, RegConstants DEF PortInv
  <2>3. countRead' <= sr_counter'[s] /\ InLog(countRead)'
      BY <1>5, <1>7, <1>8, <2>1, <2>2 DEF PollInv, InLog
  <2> QED
      BY <1>4, <2>1, <2>3 DEF PollInv, CountThenEntry, Idle
<1>9. CASE ~(bus.step = "take" /\ bus.op.kind = "read" /\ bus.op.reg = <<"count", s>>)
  <2>1. countRead' = countRead
      BY <1>2, <1>9 DEF RegEdge, RegClock
  <2>2. countRead' <= sr_counter'[s] /\ InLog(countRead)'
      BY <1>5, <1>6, <1>7, <2>1 DEF InLog
  <2>3. ASSUME bus'.step = "take", bus'.op.kind = "read"
        PROVE  REG_WAITREQUEST /\ bus.op.kind = "read" /\ bus'.op = bus.op
               /\ r_reg_readdata' = <<bus.op.reg, ReadValue(bus.op.reg)>>
    <3>1. REG_WAITREQUEST /\ bus' = Taking(bus.op)
        BY <1>2, <2>3 DEF RegEdge, RegClock, Idle
    <3> QED
        BY <1>2, <2>3, <3>1 DEF RegEdge, PortEdge, Taking
  <2>4. ASSUME bus'.step = "take", bus'.op.kind = "read", bus'.op.reg = <<"count", s>>
        PROVE  /\ r_reg_readdata'[2] <= sr_counter'[s]
               /\ PADDR_CNT' = LogSlot(r_reg_readdata'[2])
    <3>1. ReadValue(<<"count", s>>) = sr_counter[s]
        BY DEF ReadValue
    <3> QED
        BY <1>4, <1>5, <2>3, <2>4, <3>1
  <2>5. CountThenEntry'
    <3> SUFFICES ASSUME bus'.step = "take", bus'.op.kind = "read", NEW k \in LogIndex,
                        bus'.op.reg = <<"paddr", k>>, countRead' # 0, LogSlot(countRead') = k
                 PROVE  r_reg_readdata'[2] \in want'[k]
        BY DEF CountThenEntry
    <3>1. r_reg_readdata'[2] = ReadValue(<<"paddr", k>>)
        BY <2>3
    <3>2. ReadValue(<<"paddr", k>>) = sr_paddr_dat[k]
        BY DEF ReadValue
    <3> QED
        BY <1>6, <1>7, <2>1, <3>1, <3>2 DEF InLog
  <2> QED
      BY <1>4, <2>2, <2>4, <2>5 DEF PollInv
<1> QED
    BY <1>8, <1>9

(* A step that leaves the log, the counters and the port alone.            *)
LEMMA QuietPollInv ==
    ASSUME RegInv, PollInv, RESET_N' = RESET_N \/ RESET_N' = 1,
           UNCHANGED <<PAGEADDR_SEL, cntRegs, pageRegs, portRegs, countRead>>,
           bus' = bus \/ bus'.step = "begin",
           \A n \in Nat : n # 0 /\ n <= sr_counter[Selected] /\ LogSlot(n) \in LogIndex =>
               want'[LogSlot(n)] = want[LogSlot(n)]
    PROVE  PollInv'
<1> USE DEF RegInv, cntRegs, pageRegs, portRegs
<1>1. Selected' = Selected /\ Selected \in Channels
    BY SelectedClass DEF Selected, RegTypeOK
<1>2. countRead \in Nat /\ countRead <= sr_counter[Selected]
    BY RegConstants DEF PollInv, RegTypeOK
<1>3. RESET_N' = 0 => countRead' = 0
    BY DEF PollInv
<1>4. countRead' <= sr_counter'[Selected'] /\ InLog(countRead)'
    BY <1>1, <1>2 DEF PollInv, InLog
<1>5. ASSUME bus'.step = "take", bus'.op.kind = "read", bus'.op.reg = <<"count", Selected>>
      PROVE  /\ r_reg_readdata'[2] <= sr_counter'[Selected']
             /\ InLog(r_reg_readdata[2])' \/ PADDR_CNT' = LogSlot(r_reg_readdata'[2])
  <2>1. bus' = bus /\ r_reg_readdata[2] \in Nat
      BY <1>1, <1>5, RegConstants DEF PortInv
  <2>2. r_reg_readdata[2] <= sr_counter[Selected]
      BY <1>5, <2>1 DEF PollInv
  <2> QED
      BY <1>1, <1>5, <2>1, <2>2 DEF PollInv, InLog
<1>6. CountThenEntry'
  <2> SUFFICES ASSUME bus'.step = "take", bus'.op.kind = "read", NEW k \in LogIndex,
                      bus'.op.reg = <<"paddr", k>>, countRead' # 0, LogSlot(countRead') = k
               PROVE  r_reg_readdata'[2] \in want'[k]
      BY DEF CountThenEntry
  <2> QED
      BY <1>2 DEF PollInv, CountThenEntry
<1> QED
    BY <1>1, <1>3, <1>4, <1>5, <1>6 DEF PollInv

(* While RESET_N is low, and when it goes low, the host has read nothing.  *)
NothingRead == RegTypeOK /\ countRead = 0 /\ bus = Idle
LEMMA IdlePollInv == NothingRead => PollInv
BY SelectedClass, RegConstants
   DEF NothingRead, PollInv, InLog, CountThenEntry, Idle, RegTypeOK, CntTypeOK

(* Every step keeps what the host has read true.                           *)
LEMMA StepPollInv == PollAssumed /\ RegInv /\ RegInv' /\ PollInv /\ [RegNext]_regVars => PollInv'
<1> SUFFICES ASSUME PollAssumed, RegInv, RegInv', PollInv, [RegNext]_regVars PROVE PollInv'
    OBVIOUS
<1>1. ASSUME RegTick100 \/ ChangePageAtTick PROVE PollInv'
  <2>1. CASE RESET_N = 1
      BY <1>1, <2>1, EdgePollInv
  <2>2. CASE RESET_N = 0
    <3>1. PICK p : EdgeKind(p)
        BY <1>1, EdgeKinds DEF RegInv
    <3>2. RegEdge(p) /\ bus = Idle /\ countRead = 0
        BY <2>2, <3>1 DEF EdgeKind, RegInv, LogInv, Blank, PollInv
    <3>3. bus' = Idle /\ countRead' = 0
        BY <3>2 DEF RegEdge, RegClock, REG_WAITREQUEST, Idle
    <3>4. NothingRead'
        BY <3>3 DEF RegInv, NothingRead
    <3> QED
        BY <3>4, IdlePollInv, PTL
  <2> QED
      BY <2>1, <2>2 DEF RegInv, RegTypeOK, CntTypeOK, Bit
<1>2. ASSUME UNCHANGED <<PAGEADDR_SEL, cntRegs, pageRegs, portRegs, countRead, want>>,
             bus' = bus \/ bus'.step = "begin", RESET_N' = RESET_N \/ RESET_N' = 1
      PROVE  PollInv'
    BY <1>2, QuietPollInv
<1>3. ASSUME ChangePage PROVE PollInv'
    BY <1>2, <1>3 DEF ChangePage, cntVars, cntPins
<1>4. ASSUME Fall PROVE PollInv'
  <2>1. UNCHANGED <<RESET_N, PAGEADDR_SEL, cntRegs, pageRegs, portRegs, countRead, bus>>
      BY <1>4 DEF Fall, FallPls
  <2>2. CASE want' = want
      BY <1>2, <2>1, <2>2
  <2>3. CASE want' # want
    <3>1. phase = "cut" /\ Up(Selected) /\ highAge = 2
        BY <1>4, <2>3 DEF Fall
    <3>2. /\ Coming(Selected)
          /\ \A k \in LogIndex : k # LogSlot(seen[Selected]) => want'[k] = want[k]
        BY <1>4, <3>1, WantFall
    <3>3. Selected \in Channels
        BY SelectedClass DEF RegInv, RegTypeOK
    <3>4. sr_counter[Selected] < seen[Selected] /\ seen[Selected] <= MaxPulses
          /\ seen[Selected] \in Nat /\ sr_counter[Selected] \in Nat
        BY <3>2, <3>3, Exact DEF UnderWay, RegInv, LogInv, Bounded
    <3>5. ASSUME NEW n \in Nat, n # 0, n <= sr_counter[Selected], LogSlot(n) \in LogIndex
          PROVE  want'[LogSlot(n)] = want[LogSlot(n)]
      <4>1. LogSlot(n) = n /\ LogSlot(seen[Selected]) = seen[Selected]
          BY <3>4, <3>5, OwnSlot, RegConstants
      <4> QED
          BY <3>2, <3>4, <3>5, <4>1
    <3> QED
        BY <2>1, <3>5, QuietPollInv
  <2> QED
      BY <2>2, <2>3
<1>5. ASSUME NEW c \in Channels, Raise(c) PROVE PollInv'
    BY <1>2, <1>5 DEF Raise, RisePls
<1>6. ASSUME NEW op \in HostOps, Start(op) PROVE PollInv'
  <2>1. bus'.step = "begin"
      BY <1>6 DEF Start, Begin
  <2> QED
      BY <1>2, <1>6, <2>1 DEF Start, cntVars, cntPins, regEnv
<1>7. ASSUME RegResetAssert PROVE PollInv'
  <2>1. NothingRead'
      BY <1>7 DEF RegInv, RegResetAssert, NothingRead
  <2> QED
      BY <2>1, IdlePollInv, PTL
<1>8. ASSUME RegResetRelease PROVE PollInv'
    BY <1>2, <1>8 DEF RegResetRelease, regEnv
<1>9. ASSUME UNCHANGED regVars PROVE PollInv'
    BY <1>2, <1>9 DEF regVars, cntVars, cntPins, regEnv
<1> QED
    BY <1>1, <1>3, <1>4, <1>5, <1>6, <1>7, <1>8, <1>9 DEF RegNext

(* A host that has read a count finds the page of that command in the      *)
(* entry of that number: the port's wait state covers the log's latency.   *)
THEOREM CountThenEntryAlways == PollAssumed /\ RegSpec => []CountThenEntry
<1>1. PollAssumed /\ RegInit => PollInv
    BY RegInitType, IdlePollInv DEF RegInit, NothingRead
<1>2. PollInv => CountThenEntry
    BY DEF PollInv
<1>3. PollAssumed => LogAssumed
    BY DEF PollAssumed
<1>4. PollAssumed => PollAssumed'
    BY DEF PollAssumed, LogAssumed
<1> QED
    BY <1>1, <1>2, <1>3, <1>4, StepPollInv, RegInvariant, PTL DEF RegSpec

=============================================================================
