---------------------------- MODULE PtmchTrg_proofs ----------------------------
(***************************************************************************)
(* Proofs about the front end, for every instruction length, every set of  *)
(* commands and every timing that satisfies the assumptions of PtmchTrg.   *)
(*                                                                         *)
(* The argument (the invariants are in PtmchTrgInv).  PipelineInv is about *)
(* the registers alone: a full count that has travelled k stages of its    *)
(* synchroniser is followed by k - 1 stages of the final shift register,   *)
(* so what reaches sr_inst_chk is the shift register itself.  FrameInv     *)
(* relates the registers to the bus: it follows the fall of CS through the *)
(* synchroniser to the reset PTMCH_RST_N and shows that the registers are  *)
(* empty when the first bit arrives and hold exactly the bits of the frame *)
(* from then on.  Together they give HeldIsSent; TriggerOwnClass is        *)
(* inductive relative to the two.                                          *)
(*                                                                         *)
(* The second part is about the trigger pulses, and shows that the front   *)
(* end implements the abstract detector InstDetect: for every pulse        *)
(* shorter than the instruction, with the windows written before the       *)
(* frames.                                                                 *)
(*                                                                         *)
(* The argument.  FrontInv says what the instruction register holds.  The  *)
(* windows have come to rest when the first bit of a frame arrives         *)
(* (Still), so that the comparators see one instruction per frame and      *)
(* answer it once.  The pulse counter is the one register that no frame    *)
(* clears: it may be running for the last frame when a new one begins, but *)
(* it gains a step for every bit (Lag), so that it has come to its end     *)
(* when a full instruction reaches the comparators.  From there Held       *)
(* follows the match to the end of the pulse.                              *)
(***************************************************************************)
EXTENDS PtmchTrgObserved, PtmchTrgInv, TLAPS

-----------------------------------------------------------------------------
(* Lemmas about the operators                                              *)

(* Shifting and tearing stay within words; an untorn sample is the word.   *)
LEMMA VectorFacts ==
    /\ Zero \in Word
    /\ \A w \in Word, b \in Bit : ShiftIn(w, b) \in Word
    /\ \A v, w \in Word : Torn(v, w) \subseteq Word
    /\ \A w \in Word : Torn(w, w) = {w}
    /\ ResetWindows \in Windows /\ ZeroWindows \in Windows
<1> USE LenAssumption DEF Word, Zero, Vector, AllZero, AllOne, Bit
<1>1. Zero \in Word
  OBVIOUS
<1>2. ASSUME NEW w \in Word, NEW b \in Bit PROVE ShiftIn(w, b) \in Word
  BY <1>2 DEF ShiftIn
<1>3. ASSUME NEW v \in Word, NEW w \in Word PROVE Torn(v, w) \subseteq Word
  BY <1>3 DEF Torn
<1>4. ASSUME NEW w \in Word PROVE Torn(w, w) = {w}
  <2>1. w \in Torn(w, w)
    BY <1>4 DEF Torn
  <2>2. ASSUME NEW v \in Torn(w, w) PROVE v = w
    <3>1. /\ v \in [0..(InstLen - 1) -> Bit]
          /\ \A i \in 0..(InstLen - 1) : v[i] = w[i]
      BY <1>4 DEF Torn
    <3> QED BY <3>1, <1>4
  <2> QED BY <2>1, <2>2
<1>5. ResetWindows \in Windows /\ ZeroWindows \in Windows
  BY DEF ResetWindows, ZeroWindows, Windows, Address, AddrLen, Sides
<1> QED BY <1>1, <1>2, <1>3, <1>4, <1>5

(* Shifting one more bit in is receiving one more bit.                     *)
LEMMA ShiftReceived ==
    ASSUME NEW s \in Seq(Bit), NEW b \in Bit
    PROVE  ShiftIn(Received(s, InstLen), b) = Received(Append(s, b), InstLen)
<1> DEFINE l == ShiftIn(Received(s, InstLen), b)
           r == Received(Append(s, b), InstLen)
<1>1. DOMAIN l = 0..(InstLen - 1) /\ DOMAIN r = 0..(InstLen - 1)
  BY DEF ShiftIn, Received
<1>2. ASSUME NEW i \in 0..(InstLen - 1) PROVE l[i] = r[i]
  <2>1. CASE i = 0
    BY <2>1, LenAssumption DEF ShiftIn, Received
  <2>2. CASE i # 0
    <3>1. l[i] = Received(s, InstLen)[i - 1]
      BY <2>2, LenAssumption DEF ShiftIn, Received
    <3>2. i - 1 \in 0..(InstLen - 1)
      BY <2>2, LenAssumption
    <3>3. l[i] = IF i - 1 < Len(s) THEN s[Len(s) - (i - 1)] ELSE 0
      BY <3>1, <3>2 DEF Received
    <3>4. r[i] = IF i < Len(s) + 1 THEN Append(s, b)[Len(s) + 1 - i] ELSE 0
      BY LenAssumption DEF Received
    <3>5. i < Len(s) + 1 => Append(s, b)[Len(s) + 1 - i] = s[Len(s) + 1 - i]
      BY <2>2, LenAssumption
    <3> QED BY <3>3, <3>4, <3>5, LenAssumption
  <2> QED BY <2>1, <2>2
<1>3. l = [i \in 0..(InstLen - 1) |-> l[i]] /\ r = [i \in 0..(InstLen - 1) |-> r[i]]
  BY <1>1 DEF ShiftIn, Received
<1> HIDE DEF l, r
<1>4. l = r
  BY <1>2, <1>3
<1> QED BY <1>4 DEF l, r

(* Before the first bit the shift register is clear.                       *)
LEMMA ReceivedNone == Received(<<>>, InstLen) = Zero
  BY LenAssumption DEF Received, Zero, AllZero

(* What the shift register holds is an instruction.                        *)
LEMMA ReceivedType ==
    ASSUME NEW s \in Seq(Bit) PROVE Received(s, InstLen) \in Word
  BY LenAssumption DEF Received, Word, Vector, Bit

(* The clear register belongs to no command class.                         *)
LEMMA ZeroIsNoCommand ==
    ASSUME NEW c \in Channels PROVE Opcode(Zero) \notin CmdOf[c]
<1>1. Opcode(Zero) = AllZero(OpLen)
  BY LenAssumption DEF Opcode, Slice, Zero, AllZero, AddrLen
<1> QED BY <1>1, CmdAssumption

-----------------------------------------------------------------------------
(* Type correctness                                                        *)

(* One CLK160M edge, whatever its synchronisers capture.                   *)
LEMMA EdgeType ==
    ASSUME TypeOK,
           NEW cntPin \in 0..InstLen, NEW shtPin \in Word,
           NEW cntSeen \in Count, NEW shtSeen \in Word, NEW winSeen \in Windows,
           Edge160(cntPin, shtPin, cntSeen, shtSeen, winSeen)
    PROVE  /\ PTMCH_RST_N' \in Bit
           /\ sr_inst_cnt' \in 0..InstLen /\ sr_inst_sht' \in Word
           /\ ar_inst_cnt_160M_1d' \in Count /\ sr_inst_cnt_160M_2d' \in Count
           /\ sr_inst_cnt_160M_3d' \in Count /\ sr_inst_cnt_160M_sync' \in Count
           /\ ar_inst_sht_160M_1d' \in Word /\ sr_inst_sht_160M_2d' \in Word
           /\ sr_inst_sht_160M_3d' \in Word /\ sr_inst_chk' \in Word
           /\ ar_inst_mch_n_1d' \in Bit /\ sr_inst_mch_n_2d' \in Bit
           /\ sr_inst_mch_n_3d' \in Bit
           /\ ar_spi_cs_1d' \in Bit /\ sr_spi_cs_2d' \in Bit /\ sr_spi_cs_3d' \in Bit
           /\ sr_cs_edge_n' \in Bit /\ sr_inst_edge_n' \in Bit
           /\ sr_pls_cnt' \in 0..PlsTop /\ sr_trg_pls' \in Bit
           /\ TRG_PLS' \in [Channels -> Bit]
           /\ ar_win_1d' \in Windows /\ sr_win_2d' \in Windows
           /\ sr_win_3d' \in Windows /\ sr_win_sync' \in Windows
           /\ csAge' \in 0..CsSetup
<1>1. /\ PTMCH_RST_N' \in Bit
      /\ sr_inst_cnt' \in 0..InstLen /\ sr_inst_sht' \in Word
      /\ ar_inst_cnt_160M_1d' \in Count /\ sr_inst_cnt_160M_2d' \in Count
      /\ sr_inst_cnt_160M_3d' \in Count /\ sr_inst_cnt_160M_sync' \in Count
      /\ ar_inst_sht_160M_1d' \in Word /\ sr_inst_sht_160M_2d' \in Word
      /\ sr_inst_sht_160M_3d' \in Word /\ sr_inst_chk' \in Word
      /\ ar_inst_mch_n_1d' \in Bit /\ sr_inst_mch_n_2d' \in Bit
      /\ sr_inst_mch_n_3d' \in Bit
  <2>1. 0 \in Count /\ 0 \in 0..InstLen /\ Zero \in Word /\ c_inst_mch_n \in Bit
    BY LenAssumption, VectorFacts DEF Count, c_inst_mch_n, Bit
  <2> QED BY <2>1 DEF TypeOK, Edge160, InstEdge, DiffDetect, Bit
<1>2. /\ ar_spi_cs_1d' \in Bit /\ sr_spi_cs_2d' \in Bit /\ sr_spi_cs_3d' \in Bit
      /\ sr_cs_edge_n' \in Bit
  BY DEF TypeOK, Edge160, CsReset, CsEdge, Bit
<1>3. /\ sr_inst_edge_n' \in Bit /\ sr_pls_cnt' \in 0..PlsTop /\ sr_trg_pls' \in Bit
      /\ TRG_PLS' \in [Channels -> Bit]
  BY PulseAssumption DEF TypeOK, Edge160, PlsReset, PlsEdge, PulseDone, Bit
<1>4. /\ ar_win_1d' \in Windows /\ sr_win_2d' \in Windows
      /\ sr_win_3d' \in Windows /\ sr_win_sync' \in Windows
  <2>1. CASE RESET_N = 0
    BY <2>1, VectorFacts DEF Edge160, WinReset
  <2>2. CASE RESET_N # 0
    <3>1. ar_win_1d' \in Windows /\ sr_win_2d' \in Windows /\ sr_win_3d' \in Windows
      BY <2>2 DEF TypeOK, Edge160, WinEdge
    <3>2. ASSUME NEW c \in Channels, NEW s \in Sides
          PROVE  DiffDetect(sr_win_2d[c][s], sr_win_3d[c][s], sr_win_sync[c][s]) \in Address
      BY DEF TypeOK, Windows, DiffDetect
    <3>3. sr_win_sync' = [c \in Channels |-> [s \in Sides |->
              DiffDetect(sr_win_2d[c][s], sr_win_3d[c][s], sr_win_sync[c][s])]]
      BY <2>2 DEF Edge160, WinEdge
    <3>4. sr_win_sync' \in Windows
      BY <3>2, <3>3 DEF Windows
    <3> QED BY <3>1, <3>4
  <2> QED BY <2>1, <2>2
<1>5. csAge' \in 0..CsSetup
  BY TimingAssumption DEF TypeOK, Edge160, Older
<1> QED BY <1>1, <1>2, <1>3, <1>4, <1>5

(* The bits the master counts.                                             *)
LEMMA SendBitType ==
    ASSUME TypeOK, NEW b \in Bit, SendBit(b)
    PROVE  /\ sent' \in Seq(Bit) /\ Len(sent') <= InstLen
           /\ fresh' \in BOOLEAN /\ clean' \in BOOLEAN
<1>1. fresh' \in BOOLEAN /\ clean' \in BOOLEAN
  <2>1. fresh' = FALSE /\ clean' = (fresh \/ clean)
    BY DEF SendBit
  <2>2. CASE fresh \/ clean
    BY <2>1, <2>2
  <2>3. CASE ~(fresh \/ clean)
    BY <2>1, <2>3
  <2> QED BY <2>2, <2>3
<1>2. sent \in Seq(Bit) /\ Len(sent) <= InstLen
  BY DEF TypeOK
<1>3. \/ sent' = <<b>> \/ sent' = sent
      \/ Len(sent) < InstLen /\ sent' = Append(sent, b)
  BY SMT DEF SendBit
<1>4. CASE sent' = <<b>>
  <2>1. <<b>> \in Seq(Bit) /\ Len(<<b>>) = 1
    OBVIOUS
  <2> QED BY <1>1, <1>4, <2>1, LenAssumption
<1>5. CASE sent' = sent
  BY <1>1, <1>2, <1>5
<1>6. CASE Len(sent) < InstLen /\ sent' = Append(sent, b)
  <2>1. Append(sent, b) \in Seq(Bit) /\ Len(Append(sent, b)) = Len(sent) + 1
    BY <1>2
  <2> QED BY <1>1, <1>2, <1>6, <2>1, LenAssumption
<1> QED BY <1>3, <1>4, <1>5, <1>6

(* What the clocks capture has the type of what they capture it from.      *)
LEMMA NextTypes ==
    ASSUME TypeOK, NEW b \in Bit
    PROVE  /\ NextCount \in 0..InstLen /\ NextShift(b) \in Word
           /\ sr_inst_cnt \in Count /\ TornCount(sr_inst_cnt, NextCount) \subseteq Count
           /\ Torn(sr_inst_sht, NextShift(b)) \subseteq Word
<1>1. NextCount \in 0..InstLen /\ sr_inst_cnt \in Count
  BY LenAssumption DEF TypeOK, NextCount, Count
<1>2. NextShift(b) \in Word
  BY VectorFacts DEF TypeOK, NextShift
<1>3. TornCount(sr_inst_cnt, NextCount) \subseteq Count
  BY DEF TornCount
<1> QED BY <1>1, <1>2, <1>3, VectorFacts DEF TypeOK

(* A write of the host leaves windows.                                     *)
LEMMA WriteType ==
    ASSUME TypeOK, NEW r \in HostWrites, NEW a \in Address
    PROVE  [win EXCEPT ![r.ch][r.side] = a] \in Windows
  BY HostAssumption DEF TypeOK, Windows

(* The types hold at the start.                                            *)
LEMMA TypeInit == Init => TypeOK
<1> SUFFICES ASSUME Init PROVE TypeOK
  OBVIOUS
<1>1. 0 \in Count /\ 0 \in 0..InstLen /\ 1 \in 0..PlsTop /\ 0 \in 0..CsSetup
  BY LenAssumption, PulseAssumption, TimingAssumption DEF Count
<1>2. 0 \in 0..WinTop
  BY TimingAssumption DEF WinTop, WinDelay
<1>3. <<>> \in Seq(Bit) /\ Len(<<>>) <= InstLen
  BY LenAssumption
<1> QED BY <1>1, <1>2, <1>3, VectorFacts DEF Init, TypeOK, Bit

(* Every step keeps the types.                                             *)
LEMMA TypeStep == TypeOK /\ [Next]_vars => TypeOK'
<1> SUFFICES ASSUME TypeOK, [Next]_vars PROVE TypeOK'
  OBVIOUS
<1> USE TimingAssumption
<1>w. /\ WinTop \in Nat /\ 0 \in 0..WinTop /\ Older(winAge, WinTop) \in 0..WinTop
      /\ 0 \in 0..CsSetup /\ 0 \in Bit /\ 1 \in Bit
  BY DEF TypeOK, WinTop, WinDelay, Older, Bit
<1>1. CASE Tick160
  <2>1. Edge160(sr_inst_cnt, sr_inst_sht, sr_inst_cnt, sr_inst_sht, win)
    BY <1>1 DEF Tick160
  <2>2. sr_inst_cnt \in Count
    BY LenAssumption DEF TypeOK, Count
  <2>3. PICK cntPin \in 0..InstLen, shtPin \in Word, cntSeen \in Count,
             shtSeen \in Word, winSeen \in Windows :
             Edge160(cntPin, shtPin, cntSeen, shtSeen, winSeen)
    BY <2>1, <2>2 DEF TypeOK
  <2> QED BY <2>3, EdgeType, <1>1, <1>w DEF TypeOK, Tick160, pins, history
<1>2. ASSUME NEW b \in Bit, SpiRise(b) PROVE TypeOK'
  <2>1. sr_inst_cnt' \in 0..InstLen /\ sr_inst_sht' \in Word
    BY <1>2, NextTypes, VectorFacts, LenAssumption DEF SpiRise
  <2> QED BY <2>1, <1>2, <1>w, SendBitType
          DEF TypeOK, SpiRise, pins, instRegs, resetRegs, csRegs, plsRegs, winRegs
<1>3. ASSUME NEW b \in Bit, SpiRiseAtTick(b) PROVE TypeOK'
  <2>1. PICK cntPin \in 0..InstLen, shtPin \in Word, cntSeen \in Count,
             shtSeen \in Word, winSeen \in Windows :
             Edge160(cntPin, shtPin, cntSeen, shtSeen, winSeen)
    BY <1>3, NextTypes DEF TypeOK, SpiRiseAtTick
  <2>2. SendBit(b)
    BY <1>3 DEF SpiRiseAtTick
  <2> QED BY <2>1, <2>2, EdgeType, SendBitType, <1>3, <1>w DEF TypeOK, SpiRiseAtTick, pins
<1>4. CASE CsFall
  BY <1>4, <1>w DEF TypeOK, CsFall, spiRegs, instRegs, resetRegs, csRegs, plsRegs, winRegs
<1>5. CASE CsRise
  BY <1>5, <1>w DEF TypeOK, CsRise, spiRegs, instRegs, resetRegs, csRegs, plsRegs, winRegs,
                    history
<1>6. ASSUME NEW r \in HostWrites, HostWrite(r) PROVE TypeOK'
  <2>1. win' \in Windows
    BY <1>6, WriteType, HostAssumption DEF HostWrite, WriteWindow
  <2> QED BY <2>1, <1>6, <1>w
          DEF TypeOK, HostWrite, spiRegs, instRegs, resetRegs, csRegs, plsRegs, winRegs, history
<1>7. ASSUME NEW r \in HostWrites, HostWriteAtTick(r) PROVE TypeOK'
  <2>1. win' \in Windows
    BY <1>7, WriteType, HostAssumption DEF HostWriteAtTick, WriteWindow
  <2>2. /\ win[r.ch][r.side] \in Address
        /\ Torn(win[r.ch][r.side], r.addr) \subseteq Address
    <3>1. r.ch \in Channels /\ r.side \in Sides
      BY HostAssumption
    <3>2. win[r.ch][r.side] \in Address
      BY <3>1 DEF TypeOK, Windows
    <3>3. ASSUME NEW u \in Address, NEW v PROVE Torn(u, v) \subseteq Address
      BY DEF Torn, Address, Vector
    <3> QED BY <3>2, <3>3
  <2>3. sr_inst_cnt \in Count
    BY LenAssumption DEF TypeOK, Count
  <2>4. PICK cntPin \in 0..InstLen, shtPin \in Word, cntSeen \in Count,
             shtSeen \in Word, winSeen \in Windows :
             Edge160(cntPin, shtPin, cntSeen, shtSeen, winSeen)
    BY <1>7, <2>2, <2>3, WriteType DEF TypeOK, HostWriteAtTick
  <2> QED BY <2>1, <2>4, EdgeType, <1>7, <1>w DEF TypeOK, HostWriteAtTick, history
<1>8. CASE ResetAssert
  <2>1. <<>> \in Seq(Bit) /\ Len(<<>>) <= InstLen /\ 1 \in 0..PlsTop
    BY LenAssumption, PulseAssumption
  <2> QED BY <2>1, <1>8, <1>w, VectorFacts
          DEF TypeOK, ResetAssert, CsReset, PlsReset, WinReset, spiRegs, instRegs
<1>9. CASE ResetRelease
  BY <1>9, <1>w DEF TypeOK, ResetRelease, spiRegs, instRegs, resetRegs, csRegs, plsRegs,
                    winRegs, history
<1>10. CASE UNCHANGED vars
  BY <1>10 DEF TypeOK, vars, pins, spiRegs, instRegs, resetRegs, csRegs, plsRegs, winRegs,
               ages, history
<1> QED BY <1>1, <1>2, <1>3, <1>4, <1>5, <1>6, <1>7, <1>8, <1>9, <1>10 DEF Next

(* Every register stays within its width, for every instance.              *)
THEOREM TypeCorrect == Spec => []TypeOK
<1> QED BY TypeInit, TypeStep, PTL DEF Spec

-----------------------------------------------------------------------------
(* The pipeline                                                            *)

(* One edge: if the first stages capture a full count only of a full       *)
(* register, and capture a full register untorn, the pipeline stays sound. *)
LEMMA EdgePipeline ==
    ASSUME TypeOK, PipelineInv,
           NEW cp \in 0..InstLen, NEW sp \in Word,
           NEW cs \in Count, NEW ss \in Word, NEW ws,
           Edge160(cp, sp, cs, ss, ws),
           cs >= InstLen => cp = InstLen,
           sr_inst_cnt = InstLen => cp = InstLen /\ sp = sr_inst_sht /\ ss = sr_inst_sht
    PROVE  PipelineInv'
<1>1. CASE Cleared
  <2>1. /\ sr_inst_cnt' = 0 /\ sr_inst_sht' = Zero /\ sr_inst_chk' = Zero
        /\ ar_inst_cnt_160M_1d' = 0 /\ sr_inst_cnt_160M_2d' = 0
        /\ sr_inst_cnt_160M_3d' = 0 /\ sr_inst_cnt_160M_sync' = 0
    BY <1>1 DEF Edge160, InstEdge
  <2> QED BY <2>1, LenAssumption DEF PipelineInv, Empty, Zero, AllZero
<1>2. CASE ~Cleared
  <2>1. /\ PTMCH_RST_N' = 1
        /\ sr_inst_cnt' = cp /\ sr_inst_sht' = sp
        /\ ar_inst_cnt_160M_1d' = cs /\ ar_inst_sht_160M_1d' = ss
        /\ sr_inst_cnt_160M_2d' = ar_inst_cnt_160M_1d
        /\ sr_inst_cnt_160M_3d' = sr_inst_cnt_160M_2d
        /\ sr_inst_sht_160M_2d' = ar_inst_sht_160M_1d
        /\ sr_inst_sht_160M_3d' = sr_inst_sht_160M_2d
        /\ sr_inst_cnt_160M_sync' \in {sr_inst_cnt_160M_3d, sr_inst_cnt_160M_sync}
        /\ sr_inst_chk' # sr_inst_chk =>
              sr_inst_cnt_160M_sync = InstLen /\ sr_inst_chk' = sr_inst_sht_160M_3d
    BY <1>2 DEF Edge160, InstEdge, Cleared, FrameReset, DiffDetect, CountFull
  <2>2. ar_inst_cnt_160M_1d' >= InstLen => sr_inst_cnt' = InstLen
    BY <2>1
  <2>3. sr_inst_cnt_160M_2d' >= InstLen =>
            sr_inst_cnt' = InstLen /\ ar_inst_sht_160M_1d' = sr_inst_sht'
    BY <2>1 DEF PipelineInv
  <2>4. sr_inst_cnt_160M_3d' >= InstLen =>
            /\ sr_inst_cnt' = InstLen /\ ar_inst_sht_160M_1d' = sr_inst_sht'
            /\ sr_inst_sht_160M_2d' = sr_inst_sht'
    BY <2>1 DEF PipelineInv
  <2>5. sr_inst_cnt_160M_sync' >= InstLen =>
            /\ sr_inst_cnt' = InstLen /\ ar_inst_sht_160M_1d' = sr_inst_sht'
            /\ sr_inst_sht_160M_2d' = sr_inst_sht' /\ sr_inst_sht_160M_3d' = sr_inst_sht'
    BY <2>1 DEF PipelineInv
  <2>6. sr_inst_chk' # Zero => sr_inst_cnt' = InstLen /\ sr_inst_chk' = sr_inst_sht'
    <3>1. CASE sr_inst_chk' = sr_inst_chk
      BY <2>1, <3>1 DEF PipelineInv
    <3>2. CASE sr_inst_chk' # sr_inst_chk
      <4>1. sr_inst_cnt_160M_sync = InstLen /\ sr_inst_chk' = sr_inst_sht_160M_3d
        BY <2>1, <3>2
      <4>2. InstLen >= InstLen
        BY LenAssumption
      <4> QED BY <2>1, <4>1, <4>2 DEF PipelineInv
    <3> QED BY <3>1, <3>2
  <2> QED BY <2>1, <2>2, <2>3, <2>4, <2>5, <2>6 DEF PipelineInv, Zero, AllZero
<1> QED BY <1>1, <1>2

(* What the first stages capture when a bit arrives with the edge.         *)
LEMMA TornSound ==
    ASSUME TypeOK, NEW b \in Bit,
           NEW n \in TornCount(sr_inst_cnt, NextCount),
           NEW w \in Torn(sr_inst_sht, NextShift(b))
    PROVE  /\ n >= InstLen => NextCount = InstLen
           /\ sr_inst_cnt = InstLen =>
                NextCount = InstLen /\ NextShift(b) = sr_inst_sht /\ w = sr_inst_sht
<1>1. n >= InstLen => NextCount = InstLen
  BY LenAssumption DEF TypeOK, TornCount, NextCount, Count
<1>2. ASSUME sr_inst_cnt = InstLen
      PROVE  NextCount = InstLen /\ NextShift(b) = sr_inst_sht /\ w = sr_inst_sht
  <2>1. NextCount = InstLen /\ NextShift(b) = sr_inst_sht
    BY <1>2 DEF NextCount, NextShift
  <2>2. Torn(sr_inst_sht, sr_inst_sht) = {sr_inst_sht}
    BY VectorFacts DEF TypeOK
  <2> QED BY <2>1, <2>2
<1> QED BY <1>1, <1>2

(* Every step keeps the pipeline of count and instruction.                 *)
LEMMA PipelineStep == TypeOK /\ PipelineInv /\ [Next]_vars => PipelineInv'
<1> SUFFICES ASSUME TypeOK, PipelineInv, [Next]_vars PROVE PipelineInv'
  OBVIOUS
<1>t. /\ sr_inst_cnt \in 0..InstLen /\ sr_inst_cnt \in Count /\ sr_inst_sht \in Word
      /\ sr_inst_cnt >= InstLen => sr_inst_cnt = InstLen
  BY LenAssumption DEF TypeOK, Count
<1>u. ASSUME UNCHANGED <<spiRegs, instRegs>> PROVE PipelineInv'
  BY <1>u DEF PipelineInv, Empty, spiRegs, instRegs, Zero, AllZero
<1>1. CASE Tick160
  BY <1>1, <1>t, EdgePipeline DEF Tick160
<1>2. ASSUME NEW b \in Bit, SpiRise(b) PROVE PipelineInv'
  <2>1. CASE PTMCH_RST_N = 0
    <3>1. UNCHANGED <<spiRegs, instRegs>>
      BY <1>2, <2>1 DEF SpiRise, PipelineInv, Empty, spiRegs
    <3> QED BY <3>1, <1>u
  <2>2. CASE PTMCH_RST_N # 0
    <3>1. CASE sr_inst_cnt = InstLen
      <4>1. UNCHANGED <<spiRegs, instRegs>>
        BY <1>2, <2>2, <3>1 DEF SpiRise, NextCount, NextShift, spiRegs
      <4> QED BY <4>1, <1>u
    <3>2. CASE sr_inst_cnt # InstLen
      <4>1. /\ ~(ar_inst_cnt_160M_1d >= InstLen) /\ ~(sr_inst_cnt_160M_2d >= InstLen)
            /\ ~(sr_inst_cnt_160M_3d >= InstLen) /\ ~(sr_inst_cnt_160M_sync >= InstLen)
            /\ sr_inst_chk = Zero
        BY <3>2 DEF PipelineInv
      <4>2. UNCHANGED instRegs
        BY <1>2 DEF SpiRise
      <4> QED BY <2>2, <4>1, <4>2 DEF PipelineInv, instRegs, Zero, AllZero
    <3> QED BY <3>1, <3>2
  <2> QED BY <2>1, <2>2
<1>3. ASSUME NEW b \in Bit, SpiRiseAtTick(b) PROVE PipelineInv'
  <2>1. PICK n \in TornCount(sr_inst_cnt, NextCount), w \in Torn(sr_inst_sht, NextShift(b)) :
             Edge160(NextCount, NextShift(b), n, w, win)
    BY <1>3 DEF SpiRiseAtTick
  <2>2. /\ NextCount \in 0..InstLen /\ NextShift(b) \in Word
        /\ n \in Count /\ w \in Word
    BY NextTypes
  <2> QED BY <2>1, <2>2, TornSound, EdgePipeline
<1>4. CASE CsFall
  BY <1>4, <1>u DEF CsFall
<1>5. CASE CsRise
  BY <1>5, <1>u DEF CsRise
<1>6. ASSUME NEW r \in HostWrites, HostWrite(r) PROVE PipelineInv'
  BY <1>6, <1>u DEF HostWrite
<1>7. ASSUME NEW r \in HostWrites, HostWriteAtTick(r) PROVE PipelineInv'
  BY <1>7, <1>t, EdgePipeline DEF HostWriteAtTick
<1>8. CASE ResetAssert
  BY <1>8, <1>u DEF ResetAssert
<1>9. CASE ResetRelease
  BY <1>9, <1>u DEF ResetRelease
<1>10. CASE UNCHANGED vars
  BY <1>10, <1>u DEF vars
<1> QED BY <1>1, <1>2, <1>3, <1>4, <1>5, <1>6, <1>7, <1>8, <1>9, <1>10 DEF Next

-----------------------------------------------------------------------------
(* The frame                                                               *)

(* What is held for matching is what was sent.                             *)
LEMMA HeldThen == PipelineInv /\ FrameInv => HeldIsSent
<1> SUFFICES ASSUME PipelineInv, FrameInv, clean, sr_inst_chk # Zero
             PROVE  Complete /\ sr_inst_chk = SentWord
  BY DEF HeldIsSent
<1>1. sr_inst_cnt = InstLen /\ sr_inst_chk = sr_inst_sht
  BY DEF PipelineInv
<1>2. InStep \/ Empty
  BY DEF FrameInv
<1>3. ~Empty
  BY <1>1, LenAssumption DEF Empty
<1> QED BY <1>1, <1>2, <1>3 DEF InStep, Complete

(* A calm front end stays calm over an edge on which CS does not fall, and *)
(* the registers take what the SPI side gives them.                        *)
LEMMA CalmEdge ==
    ASSUME TypeOK, Calm, NEW cp, NEW sp, NEW cs, NEW ss, NEW ws,
           Edge160(cp, sp, cs, ss, ws), SPI_CS' = SPI_CS, RESET_N' = RESET_N
    PROVE  Calm' /\ sr_inst_cnt' = cp /\ sr_inst_sht' = sp
<1>1. ~FrameReset /\ ~Cleared
  BY DEF Calm, FrameReset, Cleared
<1>2. PTMCH_RST_N' = 1 /\ sr_inst_cnt' = cp /\ sr_inst_sht' = sp
  BY <1>1 DEF Edge160, InstEdge
<1>3. CsEdge /\ ~CsFell
  BY DEF Edge160, Calm, CsFell
<1> QED BY <1>2, <1>3 DEF Calm, CsEdge

(* A pulse on an output is of the class of the instruction held.           *)
LEMMA EdgeTrigger ==
    ASSUME NEW cp, NEW sp, NEW cs, NEW ss, NEW ws,
           Edge160(cp, sp, cs, ss, ws), NEW c \in Channels, TRG_PLS'[c] = 1
    PROVE  Opcode(sr_inst_chk) \in CmdOf[c] /\ sr_inst_chk # Zero
<1>1. Opcode(sr_inst_chk) \in CmdOf[c]
  <2>1. TRG_PLS' = [d \in Channels |-> 0] \/
        TRG_PLS' = [d \in Channels |-> IF Drives(d) THEN sr_trg_pls ELSE 0]
    BY DEF Edge160, PlsReset, PlsEdge
  <2>2. Drives(c)
    BY <2>1
  <2> QED BY <2>2 DEF Drives
<1> QED BY <1>1, ZeroIsNoCommand

(* An edge without a bit.                                                  *)
LEMMA QuietEdge ==
    ASSUME TypeOK, PipelineInv, FrameInv, TriggerOwnClass,
           NEW cs, NEW ss, NEW ws,
           Edge160(sr_inst_cnt, sr_inst_sht, cs, ss, ws),
           UNCHANGED <<RESET_N, SPI_CS, history>>
    PROVE  FrameInv' /\ TriggerOwnClass'
<1>u. /\ RESET_N' = RESET_N /\ SPI_CS' = SPI_CS
      /\ sent' = sent /\ fresh' = fresh /\ clean' = clean
      /\ SentWord' = SentWord
  BY DEF history, SentWord
<1>c. csAge' = Older(csAge, CsSetup)
  BY DEF Edge160
<1>1. RESET_N' = 1 /\ SPI_CS' = 1 /\ csAge' >= 1 => ar_spi_cs_1d' = 1
  BY <1>u DEF Edge160, CsEdge
<1>2. (InStep => InStep' \/ Empty') /\ (Empty => Empty')
  <2>1. CASE Cleared
    <3>1. Empty'
      BY <2>1 DEF Edge160, InstEdge, Empty, Zero, AllZero
    <3> QED BY <3>1
  <2>2. CASE ~Cleared
    <3>1. sr_inst_cnt' = sr_inst_cnt /\ sr_inst_sht' = sr_inst_sht
      BY <2>2 DEF Edge160, InstEdge
    <3> QED BY <3>1, <1>u DEF InStep, Empty, Zero, AllZero
  <2> QED BY <2>1, <2>2
<1>3. clean' => InStep' \/ Empty'
  BY <1>2, <1>u DEF FrameInv
<1>4. clean' /\ ~fresh' => Calm' /\ InStep'
  <2>1. SUFFICES ASSUME clean, ~fresh PROVE Calm' /\ InStep'
    BY <1>u
  <2>2. Calm /\ InStep
    BY <2>1 DEF FrameInv
  <2>3. Calm' /\ sr_inst_cnt' = sr_inst_cnt /\ sr_inst_sht' = sr_inst_sht
    BY <2>2, <1>u, CalmEdge
  <2> QED BY <2>2, <2>3, <1>u DEF InStep
<1>n. sr_inst_chk = Zero => NoTrigger'
  BY EdgeTrigger DEF NoTrigger
<1>5. fresh' => \/ FallUnderWay'
                \/ /\ Calm' /\ Empty' /\ (sr_inst_chk = Zero)' /\ NoTrigger'
                   /\ SPI_CS' = 1 \/ csAge' >= 5
  <2>1. SUFFICES ASSUME fresh
        PROVE  \/ FallUnderWay'
               \/ /\ Calm' /\ Empty' /\ (sr_inst_chk = Zero)' /\ NoTrigger'
                  /\ SPI_CS' = 1 \/ csAge' >= 5
    BY <1>u
  <2>2. CASE FallUnderWay
    <3>1. CsEdge /\ SPI_CS = 0 /\ RESET_N = 1
      BY <2>2 DEF Edge160, FallUnderWay
    <3>2. /\ ar_spi_cs_1d' = 0 /\ sr_spi_cs_2d' = ar_spi_cs_1d
          /\ sr_spi_cs_3d' = sr_spi_cs_2d
          /\ sr_cs_edge_n' = IF sr_spi_cs_2d = 0 /\ sr_spi_cs_3d = 1 THEN 0 ELSE 1
      BY <3>1 DEF CsEdge, CsFell
    <3>3. CASE csAge \in 0..2
      <4>1. csAge' = csAge + 1
        BY <3>3, <1>c, TimingAssumption DEF Older
      <4> QED BY <2>2, <3>1, <3>2, <3>3, <4>1, <1>u DEF FallUnderWay
    <3>4. CASE csAge = 3
      <4>1. csAge' = 4
        BY <3>4, <1>c, TimingAssumption DEF Older
      <4>2. /\ sr_cs_edge_n = 0 /\ ar_spi_cs_1d = 0 /\ sr_spi_cs_2d = 0
            /\ sr_spi_cs_3d = 0
        BY <2>2, <3>4 DEF FallUnderWay
      <4>3. PTMCH_RST_N' = 0
        BY <4>2 DEF Edge160, InstEdge, FrameReset
      <4> QED BY <3>1, <3>2, <4>1, <4>2, <4>3, <1>u DEF FallUnderWay
    <3>5. CASE csAge = 4
      <4>1. csAge' = 5
        BY <3>5, <1>c, TimingAssumption DEF Older
      <4>2. /\ sr_cs_edge_n = 1 /\ ar_spi_cs_1d = 0 /\ sr_spi_cs_2d = 0
            /\ sr_spi_cs_3d = 0 /\ PTMCH_RST_N = 0
        BY <2>2, <3>5 DEF FallUnderWay
      <4>3. PTMCH_RST_N' = 1
        BY <3>1, <4>2 DEF Edge160, InstEdge, FrameReset
      <4>4. Empty' /\ (sr_inst_chk = Zero)'
        BY <4>2 DEF Edge160, InstEdge, Cleared, Empty, Zero, AllZero
      <4>5. NoTrigger'
        BY <1>n, <4>2 DEF PipelineInv
      <4>6. Calm'
        BY <3>1, <3>2, <4>2, <4>3, <1>u DEF Calm
      <4> QED BY <4>1, <4>4, <4>5, <4>6
    <3> QED BY <2>2, <3>3, <3>4, <3>5 DEF FallUnderWay
  <2>3. CASE ~FallUnderWay
    <3>1. Calm /\ Empty /\ sr_inst_chk = Zero /\ (SPI_CS = 1 \/ csAge >= 5)
      BY <2>1, <2>3 DEF FrameInv
    <3>2. Calm' /\ sr_inst_cnt' = sr_inst_cnt /\ sr_inst_sht' = sr_inst_sht
      BY <3>1, <1>u, CalmEdge
    <3>3. Empty'
      BY <3>1, <3>2 DEF Empty, Zero, AllZero
    <3>4. (sr_inst_chk = Zero)'
      <4>1. sr_inst_cnt # InstLen
        BY <3>1, LenAssumption DEF Empty
      <4>2. ~CountFull
        BY <4>1, LenAssumption DEF CountFull, PipelineInv
      <4>3. sr_inst_chk' \in {Zero, sr_inst_chk}
        BY <4>2 DEF Edge160, InstEdge
      <4> QED BY <3>1, <4>3 DEF Zero, AllZero
    <3>5. SPI_CS' = 1 \/ csAge' >= 5
      BY <3>1, <1>u, <1>c, TimingAssumption DEF Older, TypeOK
    <3> QED BY <3>1, <3>2, <3>3, <3>4, <3>5, <1>n
  <2> QED BY <2>2, <2>3
<1>6. TriggerOwnClass'
  <2>1. SUFFICES ASSUME NEW c \in Channels, clean, TRG_PLS'[c] = 1
        PROVE  Complete' /\ Opcode(SentWord') \in CmdOf[c]
    BY <1>u DEF TriggerOwnClass, Opcode, AddrLen
  <2>2. Opcode(sr_inst_chk) \in CmdOf[c] /\ sr_inst_chk # Zero
    BY <2>1, EdgeTrigger
  <2>3. Complete /\ sr_inst_chk = SentWord
    BY <2>1, <2>2, HeldThen DEF HeldIsSent
  <2> QED BY <2>2, <2>3, <1>u DEF Complete
<1> QED BY <1>1, <1>3, <1>4, <1>5, <1>6 DEF FrameInv

(* A bit of a frame that counts finds a calm front end, and keeps count    *)
(* and register in step with the frame.                                    *)
LEMMA BitInStep ==
    ASSUME TypeOK, FrameInv, NEW b \in Bit, SendBit(b), fresh \/ clean
    PROVE  /\ Calm
           /\ NextCount = Len(sent') /\ NextShift(b) = Received(sent', InstLen)
           /\ fresh => sr_inst_chk = Zero /\ NoTrigger
           /\ ~fresh /\ Complete => sent' = sent
<1>1. SPI_CS = 0 /\ csAge >= 5 /\ ~FallUnderWay
  BY TimingAssumption DEF SendBit, FallUnderWay, TypeOK
<1>2. CASE fresh
  <2>1. Calm /\ Empty /\ sr_inst_chk = Zero /\ NoTrigger
    BY <1>1, <1>2 DEF FrameInv
  <2>2. sent' = Append(<<>>, b)
    BY <1>2 DEF SendBit
  <2>3. NextCount = 1 /\ NextShift(b) = ShiftIn(Received(<<>>, InstLen), b)
    BY <2>1, ReceivedNone, LenAssumption DEF Empty, NextCount, NextShift
  <2>4. NextShift(b) = Received(Append(<<>>, b), InstLen)
    <3>1. <<>> \in Seq(Bit)
      OBVIOUS
    <3> QED BY <2>3, <3>1, ShiftReceived
  <2> QED BY <1>2, <2>1, <2>2, <2>3, <2>4
<1>3. CASE ~fresh
  <2>1. Calm /\ InStep
    BY <1>3 DEF FrameInv
  <2>2. CASE Len(sent) < InstLen
    <3>1. sent' = Append(sent, b) /\ sent \in Seq(Bit)
      BY <1>3, <2>2 DEF SendBit, TypeOK
    <3>2. NextCount = Len(sent) + 1 /\ NextShift(b) = ShiftIn(SentWord, b)
      BY <2>1, <2>2, LenAssumption DEF InStep, NextCount, NextShift
    <3>3. NextShift(b) = Received(Append(sent, b), InstLen)
      BY <3>1, <3>2, ShiftReceived DEF SentWord
    <3>4. Len(Append(sent, b)) = Len(sent) + 1
      BY <3>1
    <3> QED BY <1>3, <2>1, <2>2, <3>1, <3>2, <3>3, <3>4, LenAssumption DEF Complete
  <2>3. CASE ~(Len(sent) < InstLen)
    <3>1. sent' = sent
      BY <1>3, <2>3 DEF SendBit
    <3>2. Len(sent) = InstLen
      BY <2>3, LenAssumption DEF TypeOK
    <3> QED BY <1>3, <2>1, <3>1, <3>2 DEF InStep, NextCount, NextShift, SentWord
  <2> QED BY <2>2, <2>3
<1> QED BY <1>2, <1>3

(* Every step keeps the registers tied to the bus.                         *)
LEMMA FrameStep ==
    TypeOK /\ PipelineInv /\ FrameInv /\ TriggerOwnClass /\ [Next]_vars
        => FrameInv' /\ TriggerOwnClass'
<1> SUFFICES ASSUME TypeOK, PipelineInv, FrameInv, TriggerOwnClass, [Next]_vars
             PROVE  FrameInv' /\ TriggerOwnClass'
  OBVIOUS
(* A step that leaves the registers, the bus and the frame alone.          *)
<1>u. ASSUME UNCHANGED <<RESET_N, SPI_CS, spiRegs, instRegs, resetRegs, csAge, history>>
      PROVE  FrameInv' /\ TriggerOwnClass'
  BY <1>u DEF FrameInv, FallUnderWay, Calm, Empty, InStep, NoTrigger, TriggerOwnClass,
              SentWord, Complete, Opcode, AddrLen, Zero, AllZero, history,
              spiRegs, instRegs, resetRegs, csRegs, plsRegs
<1>1. CASE Tick160
  BY <1>1, QuietEdge DEF Tick160, pins
<1>2. ASSUME NEW b \in Bit, SpiRise(b) PROVE FrameInv' /\ TriggerOwnClass'
  <2>0. /\ SendBit(b) /\ ~fresh' /\ clean' = (fresh \/ clean)
        /\ UNCHANGED <<pins, instRegs, resetRegs, csAge>>
    BY <1>2 DEF SpiRise, SendBit
  <2>1. RESET_N' = 1 /\ SPI_CS' = 1 /\ csAge' >= 1 => ar_spi_cs_1d' = 1
    BY <2>0 DEF FrameInv, pins, resetRegs, csRegs
  <2>2. clean' => Calm' /\ InStep'
    <3>1. SUFFICES ASSUME fresh \/ clean PROVE Calm' /\ InStep'
      BY <2>0
    <3>2. /\ Calm /\ NextCount = Len(sent') /\ NextShift(b) = Received(sent', InstLen)
      BY <2>0, <3>1, BitInStep
    <3>3. sr_inst_cnt' = NextCount /\ sr_inst_sht' = NextShift(b)
      BY <1>2, <3>2 DEF SpiRise, Calm
    <3>4. Calm'
      BY <2>0, <3>2 DEF Calm, pins, instRegs, resetRegs, csRegs
    <3> QED BY <3>2, <3>3, <3>4 DEF InStep, SentWord
  <2>3. TriggerOwnClass'
    <3>1. SUFFICES ASSUME NEW c \in Channels, fresh \/ clean, TRG_PLS[c] = 1
          PROVE  Complete' /\ Opcode(SentWord') \in CmdOf[c]
      BY <2>0 DEF TriggerOwnClass, resetRegs, plsRegs, Opcode, AddrLen
    <3>2. ~fresh
      BY <2>0, <3>1, BitInStep DEF NoTrigger
    <3>3. Complete /\ Opcode(SentWord) \in CmdOf[c]
      BY <3>1, <3>2 DEF TriggerOwnClass
    <3>4. sent' = sent
      BY <2>0, <3>1, <3>2, <3>3, BitInStep
    <3> QED BY <3>3, <3>4 DEF Complete, SentWord
  <2> QED BY <2>0, <2>1, <2>2, <2>3 DEF FrameInv
<1>3. ASSUME NEW b \in Bit, SpiRiseAtTick(b) PROVE FrameInv' /\ TriggerOwnClass'
  <2>0. /\ SendBit(b) /\ ~fresh' /\ clean' = (fresh \/ clean)
        /\ RESET_N' = RESET_N /\ SPI_CS' = SPI_CS
    BY <1>3 DEF SpiRiseAtTick, SendBit, pins
  <2>1. PICK n, w : Edge160(NextCount, NextShift(b), n, w, win)
    BY <1>3 DEF SpiRiseAtTick
  <2>2. RESET_N' = 1 /\ SPI_CS' = 1 /\ csAge' >= 1 => ar_spi_cs_1d' = 1
    BY <2>0, <2>1 DEF Edge160, CsEdge
  <2>3. clean' => Calm' /\ InStep'
    <3>1. SUFFICES ASSUME fresh \/ clean PROVE Calm' /\ InStep'
      BY <2>0
    <3>2. /\ Calm /\ NextCount = Len(sent') /\ NextShift(b) = Received(sent', InstLen)
      BY <2>0, <3>1, BitInStep
    <3>3. Calm' /\ sr_inst_cnt' = NextCount /\ sr_inst_sht' = NextShift(b)
      BY <2>0, <2>1, <3>2, CalmEdge
    <3> QED BY <3>2, <3>3 DEF InStep, SentWord
  <2>4. TriggerOwnClass'
    <3>1. SUFFICES ASSUME NEW c \in Channels, fresh \/ clean, TRG_PLS'[c] = 1
          PROVE  Complete' /\ Opcode(SentWord') \in CmdOf[c]
      BY <2>0 DEF TriggerOwnClass, Opcode, AddrLen
    <3>2. Opcode(sr_inst_chk) \in CmdOf[c] /\ sr_inst_chk # Zero
      BY <2>1, <3>1, EdgeTrigger
    <3>3. ~fresh
      BY <2>0, <3>1, <3>2, BitInStep
    <3>4. Complete /\ sr_inst_chk = SentWord
      BY <3>1, <3>2, <3>3, HeldThen DEF HeldIsSent
    <3>5. sent' = sent
      BY <2>0, <3>1, <3>3, <3>4, BitInStep
    <3> QED BY <3>2, <3>4, <3>5 DEF Complete, SentWord
  <2> QED BY <2>0, <2>2, <2>3, <2>4 DEF FrameInv
<1>4. CASE CsFall
  <2>1. /\ SPI_CS' = 0 /\ csAge' = 0 /\ fresh' = (RESET_N = 1)
        /\ ar_spi_cs_1d' = ar_spi_cs_1d /\ RESET_N' = RESET_N
        /\ UNCHANGED <<spiRegs, TRG_PLS, sent, clean>>
    BY <1>4 DEF CsFall, resetRegs, csRegs, plsRegs
  <2>2. RESET_N = 1 => ar_spi_cs_1d = 1
    BY <1>4, TimingAssumption DEF CsFall, FrameInv, TypeOK
  <2>3. fresh' => FallUnderWay'
    BY <2>1, <2>2 DEF FallUnderWay
  <2>4. clean => RESET_N = 1 /\ (InStep' \/ Empty')
    <3>1. clean => RESET_N = 1
      BY DEF FrameInv, FallUnderWay, Calm
    <3>2. clean => InStep' \/ Empty'
      BY <2>1 DEF FrameInv, InStep, Empty, spiRegs, SentWord, Zero, AllZero
    <3> QED BY <3>1, <3>2
  <2>5. TriggerOwnClass'
    BY <2>1 DEF TriggerOwnClass, Complete, SentWord, Opcode, AddrLen
  <2>6. (RESET_N = 1 => fresh') /\ (clean' => clean)
    BY <2>1
  <2>7. ~(RESET_N' = 1 /\ SPI_CS' = 1 /\ csAge' >= 1)
    BY <2>1
  <2> QED BY <2>3, <2>4, <2>5, <2>6, <2>7 DEF FrameInv
<1>5. CASE CsRise
  <2>1. /\ SPI_CS' = 1 /\ csAge' = 0 /\ RESET_N' = RESET_N
        /\ UNCHANGED <<spiRegs, instRegs, resetRegs, history>>
    BY <1>5 DEF CsRise
  <2>2. ~FallUnderWay
    BY <1>5, TimingAssumption DEF CsRise, FallUnderWay, TypeOK
  <2>3. Calm => Calm'
    BY <2>1 DEF Calm, instRegs, resetRegs, csRegs
  <2>4. /\ InStep => InStep'
        /\ Empty => Empty'
        /\ sr_inst_chk = Zero => (sr_inst_chk = Zero)'
        /\ NoTrigger => NoTrigger'
    BY <2>1 DEF InStep, Empty, NoTrigger, SentWord, Zero, AllZero, spiRegs, instRegs,
                resetRegs, plsRegs, history
  <2>5. TriggerOwnClass'
    BY <2>1 DEF TriggerOwnClass, Complete, SentWord, Opcode, AddrLen, resetRegs, plsRegs,
                history
  <2>6. fresh' = fresh /\ clean' = clean
    BY <2>1 DEF history
  <2>7. fresh => Calm /\ Empty /\ sr_inst_chk = Zero /\ NoTrigger
    BY <2>2 DEF FrameInv
  <2>8. clean => InStep \/ Empty
    BY DEF FrameInv
  <2>9. clean /\ ~fresh => Calm /\ InStep
    BY DEF FrameInv
  <2>10. ~(RESET_N' = 1 /\ SPI_CS' = 1 /\ csAge' >= 1) /\ SPI_CS' = 1
    BY <2>1
  <2>11. fresh' => Calm' /\ Empty' /\ (sr_inst_chk = Zero)' /\ NoTrigger'
    BY <2>3, <2>4, <2>6, <2>7
  <2>12. (clean' => InStep' \/ Empty') /\ (clean' /\ ~fresh' => Calm' /\ InStep')
    BY <2>3, <2>4, <2>6, <2>8, <2>9
  <2> QED BY <2>5, <2>10, <2>11, <2>12 DEF FrameInv
<1>6. ASSUME NEW r \in HostWrites, HostWrite(r) PROVE FrameInv' /\ TriggerOwnClass'
  BY <1>6, <1>u DEF HostWrite
<1>7. ASSUME NEW r \in HostWrites, HostWriteAtTick(r) PROVE FrameInv' /\ TriggerOwnClass'
  BY <1>7, QuietEdge DEF HostWriteAtTick
<1>8. CASE ResetAssert
  <2>1. RESET_N' = 0 /\ fresh' = FALSE /\ clean' = FALSE
    BY <1>8 DEF ResetAssert
  <2> QED BY <2>1 DEF FrameInv, TriggerOwnClass
<1>9. CASE ResetRelease
  <2>1. /\ RESET_N # 1 /\ csAge' = 0 /\ fresh' = fresh /\ clean' = clean
    BY <1>9 DEF ResetRelease, history
  <2>2. ~fresh /\ ~clean
    BY <2>1 DEF FrameInv, FallUnderWay, Calm
  <2> QED BY <2>1, <2>2 DEF FrameInv, TriggerOwnClass
<1>10. CASE UNCHANGED vars
  BY <1>10, <1>u DEF vars, pins, ages
<1> QED BY <1>1, <1>2, <1>3, <1>4, <1>5, <1>6, <1>7, <1>8, <1>9, <1>10 DEF Next

(* The inductive invariant holds when the device is switched on.           *)
LEMMA FrontInit == Init => PipelineInv /\ FrameInv /\ TriggerOwnClass
<1> SUFFICES ASSUME Init PROVE PipelineInv /\ FrameInv /\ TriggerOwnClass
  OBVIOUS
<1>1. ~clean /\ ~fresh /\ RESET_N = 0
  BY DEF Init
<1>2. FrameInv /\ TriggerOwnClass
  BY <1>1 DEF FrameInv, TriggerOwnClass
<1>3. PipelineInv
  BY LenAssumption DEF Init, PipelineInv, Empty
<1> QED BY <1>2, <1>3

(* The inductive invariant holds in every instance.                        *)
THEOREM FrontInvariant == Spec => [](TypeOK /\ FrontInv)
<1>1. Init => TypeOK /\ FrontInv
  BY TypeInit, FrontInit DEF FrontInv
<1>2. TypeOK /\ FrontInv /\ [Next]_vars => (TypeOK /\ FrontInv)'
  BY TypeStep, PipelineStep, FrameStep DEF FrontInv
<1> QED BY <1>1, <1>2, PTL DEF Spec

(* Whatever the relative phase of the two clocks and the torn samples it   *)
(* produces, the instruction held for matching is the one on the bus.      *)
THEOREM HeldIsSentAlways == Spec => []HeldIsSent
<1>1. TypeOK /\ FrontInv => HeldIsSent
  BY HeldThen DEF FrontInv
<1> QED BY <1>1, FrontInvariant, PTL

(* A trigger is up only for a complete instruction of its own class,       *)
(* whatever the host does to the windows meanwhile.                        *)
THEOREM TriggerOwnClassAlways == Spec => []TriggerOwnClass
<1>1. TypeOK /\ FrontInv => TriggerOwnClass
  BY DEF FrontInv
<1> QED BY <1>1, FrontInvariant, PTL

-----------------------------------------------------------------------------
(* The windows at the comparators                                          *)

Genuine(c, s) ==
    {AllZero(AddrLen), ResetWindows[c][s]}
        \union {r.addr : r \in {h \in HostWrites : h.ch = c /\ h.side = s}}

(* Of two successive stages at most one holds a torn sample: the host does *)
(* not write at two edges running.                                         *)
GenuineInv ==
    \A c \in Channels, s \in Sides :
        /\ win[c][s] \in Genuine(c, s) /\ sr_win_sync[c][s] \in Genuine(c, s)
        /\ winAge >= 1 => ar_win_1d[c][s] \in Genuine(c, s)
        /\ ar_win_1d[c][s] \in Genuine(c, s) \/ sr_win_2d[c][s] \in Genuine(c, s)
        /\ sr_win_2d[c][s] \in Genuine(c, s) \/ sr_win_3d[c][s] \in Genuine(c, s)

(* A written window moves on by a stage with every edge.                   *)
SettleInv ==
    RESET_N = 1 =>
        /\ winAge >= 1 => ar_win_1d = win
        /\ winAge >= 2 => sr_win_2d = win
        /\ winAge >= 3 => sr_win_3d = win
        /\ winAge >= 4 => sr_win_sync = win

WindowInv == GenuineInv /\ SettleInv

(* The reset leaves windows that the host or the source wrote.             *)
LEMMA WindowReset ==
    ASSUME WinReset, \/ win' = ResetWindows
                     \/ UNCHANGED win /\ GenuineInv
    PROVE  GenuineInv'
<1>1. \A c \in Channels, s \in Sides :
          /\ ZeroWindows[c][s] \in Genuine(c, s)
          /\ ResetWindows[c][s] \in Genuine(c, s)
    BY DEF Genuine, ZeroWindows
<1>2. \A c \in Channels, s \in Sides : win'[c][s] \in Genuine(c, s)
    BY <1>1 DEF GenuineInv
<1>3. /\ ar_win_1d' = ZeroWindows /\ sr_win_2d' = ZeroWindows
      /\ sr_win_3d' = ZeroWindows /\ sr_win_sync' = ZeroWindows
    BY DEF WinReset
<1> QED
    BY <1>1, <1>2, <1>3 DEF GenuineInv

(* An edge passes on at most one torn sample of a window.                  *)
LEMMA WindowEdge ==
    ASSUME TypeOK, GenuineInv, WriteGap >= 1, NEW seenWin, WinEdge(seenWin),
           \A c \in Channels, s \in Sides : win'[c][s] \in Genuine(c, s),
           \/ \A c \in Channels, s \in Sides : seenWin[c][s] \in Genuine(c, s)
           \/ winAge >= 1 /\ winAge' = 0
    PROVE  GenuineInv'
<1> SUFFICES ASSUME NEW c \in Channels, NEW s \in Sides
             PROVE  /\ win'[c][s] \in Genuine(c, s) /\ sr_win_sync'[c][s] \in Genuine(c, s)
                    /\ winAge' >= 1 => ar_win_1d'[c][s] \in Genuine(c, s)
                    /\ \/ ar_win_1d'[c][s] \in Genuine(c, s)
                       \/ sr_win_2d'[c][s] \in Genuine(c, s)
                    /\ \/ sr_win_2d'[c][s] \in Genuine(c, s)
                       \/ sr_win_3d'[c][s] \in Genuine(c, s)
    BY DEF GenuineInv, Genuine, AddrLen, ResetWindows
<1>1. /\ ar_win_1d'[c][s] = seenWin[c][s]
      /\ sr_win_2d'[c][s] = ar_win_1d[c][s]
      /\ sr_win_3d'[c][s] = sr_win_2d[c][s]
      /\ sr_win_sync'[c][s] =
           DiffDetect(sr_win_2d[c][s], sr_win_3d[c][s], sr_win_sync[c][s])
    BY DEF WinEdge
<1>2. /\ winAge >= 1 => ar_win_1d[c][s] \in Genuine(c, s)
      /\ ar_win_1d[c][s] \in Genuine(c, s) \/ sr_win_2d[c][s] \in Genuine(c, s)
      /\ sr_win_2d[c][s] \in Genuine(c, s) \/ sr_win_3d[c][s] \in Genuine(c, s)
      /\ sr_win_sync[c][s] \in Genuine(c, s)
    BY DEF GenuineInv
<1>3. seenWin[c][s] \in Genuine(c, s) \/ (winAge >= 1 /\ winAge' = 0)
    OBVIOUS
<1>4. sr_win_sync'[c][s] \in Genuine(c, s)
    BY <1>1, <1>2 DEF DiffDetect
<1>5. ar_win_1d[c][s] \in Genuine(c, s) \/ seenWin[c][s] \in Genuine(c, s)
    BY <1>2, <1>3
<1>6. winAge' >= 1 => seenWin[c][s] \in Genuine(c, s)
    BY <1>3
<1> QED
    BY <1>1, <1>2, <1>4, <1>5, <1>6

(* An edge takes a written window one stage further.                       *)
LEMMA SettleEdge ==
    ASSUME TypeOK, SettleInv, RESET_N = 1, WinEdge(win), win' = win,
           winAge' = Older(winAge, WinTop)
    PROVE  SettleInv'
<1>0. WinTop \in Nat /\ WinTop >= 4 /\ winAge \in 0..WinTop
    BY TimingAssumption DEF TypeOK, WinTop, WinDelay
<1>1. /\ ar_win_1d' = win /\ sr_win_2d' = ar_win_1d /\ sr_win_3d' = sr_win_2d
      /\ sr_win_2d = win /\ sr_win_3d = win => sr_win_sync' = win
  <2>1. ASSUME sr_win_2d = win, sr_win_3d = win PROVE sr_win_sync' = win
    <3>1. sr_win_sync' = [c \in Channels |-> [s \in Sides |-> win[c][s]]]
        BY <2>1 DEF WinEdge, DiffDetect
    <3>2. \A c \in Channels : win[c] = [s \in Sides |-> win[c][s]]
        BY DEF TypeOK, Windows
    <3> QED
        BY <3>1, <3>2 DEF TypeOK, Windows
  <2> QED
      BY <2>1 DEF WinEdge
<1>2. /\ winAge >= 1 => ar_win_1d = win
      /\ winAge >= 2 => sr_win_2d = win
      /\ winAge >= 3 => sr_win_3d = win
    BY DEF SettleInv
<1>3. winAge' >= 2 => winAge >= 1
    BY <1>0 DEF Older
<1>4. winAge' >= 3 => winAge >= 2
    BY <1>0 DEF Older
<1>5. winAge' >= 4 => winAge >= 3 /\ winAge >= 2
    BY <1>0 DEF Older
<1> QED
    BY <1>1, <1>2, <1>3, <1>4, <1>5 DEF SettleInv

(* Every step keeps the windows genuine and on their way.                  *)
LEMMA WindowStep ==
    ASSUME WriteGap >= 1, TypeOK, WindowInv, [Next]_vars
    PROVE  WindowInv'
<1> USE DEF WindowInv
<1>u. ASSUME UNCHANGED <<win, winRegs>>,
             (winAge' = winAge /\ RESET_N' = RESET_N) \/ winAge' = 0
      PROVE  WindowInv'
  <2>1. winAge' >= 1 => winAge' = winAge /\ RESET_N' = RESET_N
      BY <1>u
  <2>2. GenuineInv'
      BY <1>u, <2>1 DEF GenuineInv, Genuine, ResetWindows, AddrLen, winRegs
  <2>3. /\ winAge' >= 2 => winAge' = winAge /\ RESET_N' = RESET_N
        /\ winAge' >= 3 => winAge' = winAge /\ RESET_N' = RESET_N
        /\ winAge' >= 4 => winAge' = winAge /\ RESET_N' = RESET_N
      BY <1>u
  <2>4. SettleInv'
      BY <1>u, <2>1, <2>3 DEF SettleInv, winRegs
  <2> QED
      BY <2>2, <2>4
<1>e. ASSUME NEW cp, NEW sp, NEW cs, NEW ss, Edge160(cp, sp, cs, ss, win),
             UNCHANGED pins, winAge' = Older(winAge, WinTop)
      PROVE  WindowInv'
  <2>1. \A c \in Channels, s \in Sides : win[c][s] \in Genuine(c, s)
      BY DEF GenuineInv
  <2>2. CASE RESET_N = 1
      BY <1>e, <2>1, <2>2, WindowEdge, SettleEdge DEF Edge160, pins
  <2>3. CASE RESET_N = 0
      BY <1>e, <2>3, WindowReset DEF Edge160, pins, SettleInv
  <2> QED
      BY <2>2, <2>3 DEF TypeOK, Bit
<1>w. ASSUME NEW r \in HostWrites, WriteWindow(r)
      PROVE  \A c \in Channels, s \in Sides : win'[c][s] \in Genuine(c, s)
  <2> SUFFICES ASSUME NEW c \in Channels, NEW s \in Sides
               PROVE  win'[c][s] \in Genuine(c, s)
      OBVIOUS
  <2>1. win[c][s] \in Genuine(c, s) /\ win \in Windows
      BY DEF GenuineInv, TypeOK
  <2>2. win'[c][s] = IF r.ch = c /\ r.side = s THEN r.addr ELSE win[c][s]
      BY <1>w, <2>1 DEF WriteWindow, Windows
  <2> QED
      BY <2>1, <2>2 DEF Genuine
<1>1. CASE Tick160
    BY <1>1, <1>e DEF Tick160
<1>2. ASSUME NEW b \in Bit, SpiRise(b) PROVE WindowInv'
    BY <1>2, <1>u DEF SpiRise, pins, resetRegs
<1>3. ASSUME NEW b \in Bit, SpiRiseAtTick(b) PROVE WindowInv'
    BY <1>3, <1>e DEF SpiRiseAtTick
<1>4. CASE CsFall
    BY <1>4, <1>u DEF CsFall, resetRegs
<1>5. CASE CsRise
    BY <1>5, <1>u DEF CsRise, resetRegs
<1>6. ASSUME NEW r \in HostWrites, HostWrite(r) PROVE WindowInv'
  <2>1. UNCHANGED winRegs /\ winAge' = 0 /\ winAge >= 1
      BY <1>6, TimingAssumption DEF HostWrite, WriteWindow, resetRegs, TypeOK
  <2>2. \A c \in Channels, s \in Sides : win'[c][s] \in Genuine(c, s)
      BY <1>6, <1>w DEF HostWrite
  <2>3. GenuineInv'
      BY <2>1, <2>2 DEF GenuineInv, Genuine, ResetWindows, AddrLen, winRegs
  <2> QED
      BY <2>1, <2>3 DEF SettleInv
<1>7. ASSUME NEW r \in HostWrites, HostWriteAtTick(r) PROVE WindowInv'
  <2>1. winAge' = 0 /\ winAge >= 1 /\ RESET_N = 1
      BY <1>7, TimingAssumption DEF HostWriteAtTick, WriteWindow, TypeOK
  <2>2. \A c \in Channels, s \in Sides : win'[c][s] \in Genuine(c, s)
      BY <1>7, <1>w DEF HostWriteAtTick
  <2>3. PICK a \in Torn(win[r.ch][r.side], r.addr) :
            Edge160(sr_inst_cnt, sr_inst_sht, sr_inst_cnt, sr_inst_sht,
                    [win EXCEPT ![r.ch][r.side] = a])
      BY <1>7 DEF HostWriteAtTick
  <2>4. GenuineInv'
      BY <2>1, <2>2, <2>3, WindowEdge DEF Edge160
  <2> QED
      BY <2>1, <2>4 DEF SettleInv
<1>8. CASE ResetAssert
    BY <1>8, WindowReset DEF ResetAssert, SettleInv
<1>9. CASE ResetRelease
    BY <1>9, <1>u DEF ResetRelease, resetRegs
<1>10. CASE UNCHANGED vars
    BY <1>10, <1>u DEF vars, pins, resetRegs, ages
<1> QED
    BY <1>1, <1>2, <1>3, <1>4, <1>5, <1>6, <1>7, <1>8, <1>9, <1>10 DEF Next

(* The comparators use no address but those the host wrote, and WinDelay   *)
(* edges after a write that one, whatever samples of it were torn: if the  *)
(* host does not write at two edges running.                               *)
THEOREM WindowsTrueAlways == WriteGap >= 1 /\ Spec => []WindowsTrue
<1> DEFINE Inv == WriteGap >= 1 /\ TypeOK /\ WindowInv
<1>1. WriteGap >= 1 /\ Init => Inv
  <2> SUFFICES ASSUME WriteGap >= 1, Init PROVE Inv
      OBVIOUS
  <2>1. GenuineInv
      BY DEF Init, GenuineInv, Genuine, ZeroWindows
  <2> QED
      BY <2>1, TypeInit DEF WindowInv, SettleInv, Init
<1>2. Inv /\ [Next]_vars => Inv'
    BY TypeStep, WindowStep
<1>3. Inv => WindowsTrue
  <2> SUFFICES ASSUME Inv PROVE WindowsTrue
      OBVIOUS
  <2>1. RESET_N = 1 /\ winAge >= WinDelay => sr_win_sync = win
      BY DEF WindowInv, SettleInv, WinDelay
  <2> QED
      BY <2>1 DEF WindowInv, GenuineInv, Genuine, WindowsTrue, WindowsGenuine, WindowsSettle
<1> QED
    BY <1>1, <1>2, <1>3, PTL DEF Spec

-----------------------------------------------------------------------------
(* The trigger pulses and the detector                                     *)


(* What the theorems assume of the constants: 15 clocks against 32 bits,   *)
(* and registers that are programmed beforehand.                           *)
Assumed == PlsTop < InstLen /\ LiveWrites = FALSE

(* The windows' synchronisers have come to rest.                           *)
Still == /\ ar_win_1d = win /\ sr_win_2d = win
         /\ sr_win_3d = win /\ sr_win_sync = win
WinInv ==
    /\ sent # <<>> => Still
    /\ RESET_N = 1 /\ SPI_CS = 0 =>
         /\ csAge >= 1 => ar_win_1d = win
         /\ csAge >= 2 => sr_win_2d = win
         /\ csAge >= 3 => sr_win_3d = win
         /\ csAge >= 4 => sr_win_sync = win

(* The match pipeline, its edge and the pulse counter.                     *)
Stages(i, j, k) ==
    ar_inst_mch_n_1d = i /\ sr_inst_mch_n_2d = j /\ sr_inst_mch_n_3d = k
NoMatch == Stages(1, 1, 1)
Hit == c_inst_mch_n = 0
Over == sr_pls_cnt = PlsTop /\ sr_trg_pls = 0
Lag == sr_pls_cnt = PlsTop \/ sr_inst_cnt + spiAge <= sr_pls_cnt + 1
Unanswered == NoTrigger /\ pulses = 0 /\ width = 0

(* Before the instruction register is loaded; Empty is the case of a frame *)
(* without a bit after one that may have been answered.                    *)
Waiting ==
    /\ NoMatch /\ sr_inst_edge_n = 1 /\ NoTrigger /\ Lag
    /\ Empty \/ Unanswered

(* The pulse, from the restart of its counter to its end.                  *)
Pulse ==
    \/ sr_pls_cnt = 0 /\ sr_trg_pls = 0 /\ Unanswered /\ pageAge >= 4
    \/ sr_pls_cnt = 1 /\ sr_trg_pls = 1 /\ Unanswered /\ pageAge >= 5
    \/ /\ sr_pls_cnt >= 2 /\ sr_trg_pls = 1 /\ ~NoTrigger
       /\ pulses = 1 /\ width = sr_pls_cnt - 1 /\ pageAge = PageAhead
    \/ /\ Over /\ pulses = 1 /\ width = PlsTop
       /\ NoTrigger \/ pageAge = PageAhead

(* From the loading of the instruction register on.                        *)
Held ==
    \/ NoMatch /\ sr_inst_edge_n = 1 /\ Over /\ Unanswered
    \/ Hit /\ Stages(0, 1, 1) /\ sr_inst_edge_n = 1 /\ Over /\ Unanswered /\ pageAge >= 1
    \/ Hit /\ Stages(0, 0, 1) /\ sr_inst_edge_n = 1 /\ Over /\ Unanswered /\ pageAge >= 2
    \/ Hit /\ Stages(0, 0, 0) /\ sr_inst_edge_n = 0 /\ Over /\ Unanswered /\ pageAge >= 3
    \/ Hit /\ Stages(0, 0, 0) /\ sr_inst_edge_n = 1 /\ Pulse

Follows == IF sr_inst_chk = Zero THEN Waiting ELSE Held

(* The next frame's fall of CS is on its way and has cleared nothing yet.  *)
Falling == FallUnderWay /\ csAge < 4
FallCalm ==
    /\ PTMCH_RST_N = 1
    /\ csAge < 3 => sr_cs_edge_n = 1
    /\ csAge = 0 /\ sr_spi_cs_3d = 1 => sr_spi_cs_2d = 1

ObsType == /\ pulses \in 0..2 /\ width \in 0..(PlsTop + 1)
           /\ doneAge \in 0..Settled /\ pageAge \in 0..PageAhead

(* What a trigger that is up says of the instruction register.             *)
DrivesHeld ==
    \A c \in Channels : TRG_PLS[c] = 1 /\ sr_inst_chk # Zero => Drives(c)

OneTrigger ==
    \A c, d \in Channels : TRG_PLS[c] = 1 /\ TRG_PLS[d] = 1 => c = d

AnswerInv ==
    /\ clean <=> sent # <<>>
    /\ PTMCH_RST_N = 0 => NoMatch
    /\ fresh /\ Calm => NoMatch /\ sr_inst_edge_n = 1
    /\ clean /\ fresh /\ Falling => FallCalm
    /\ clean /\ (~fresh \/ Falling) => Follows

ObsInv ==
    /\ Assumed /\ TypeOK /\ FrontInv /\ ObsType /\ WinInv /\ AnswerInv
    /\ DrivesHeld /\ OneTrigger
    /\ NeverTwice /\ TriggerIsCommand /\ PageContract
-----------------------------------------------------------------------------
(* One edge of CLK160M, as the match pipeline and the observer see it      *)

(* The assumptions on the constants, as the steps below use them.          *)
LEMMA Constants ==
    /\ InstLen \in Nat /\ InstLen > 1 /\ PlsTop \in Nat /\ PlsTop > 1
    /\ CsSetup \in Nat /\ CsSetup >= 5 /\ CsHigh \in Nat /\ CsHigh >= 1
BY LenAssumption, PulseAssumption, TimingAssumption

(* The observer only watches: its steps are steps of the front end.        *)
LEMMA ObservedIsNext == [ObservedNext]_<<vars, observed>> => [Next]_vars
BY DEF ObservedNext, Next

(* The observer's counters stay within their bounds.                       *)
LEMMA ObsTypeStep == ObsType /\ [ObservedNext]_<<vars, observed>> => ObsType'
<1> SUFFICES ASSUME ObsType, [ObservedNext]_<<vars, observed>> PROVE ObsType'
    OBVIOUS
<1> USE Constants DEF ObsType, Settled, Latency, PageAhead
<1>1. CASE ObserveTick
    BY <1>1 DEF ObserveTick, Older
<1>2. CASE ObserveOther
    BY <1>2 DEF ObserveOther, observed
<1> QED
    BY <1>1, <1>2 DEF ObservedNext, observed

(* Nothing clears a register: the edge moves every stage on.               *)
LEMMA RunEdge ==
    ASSUME TypeOK, RESET_N = 1, PTMCH_RST_N = 1, sr_cs_edge_n = 1,
           NEW cp, NEW sp, NEW cs, NEW ss, NEW ws, Edge160(cp, sp, cs, ss, ws)
    PROVE  /\ ar_inst_mch_n_1d' = c_inst_mch_n
           /\ sr_inst_mch_n_2d' = ar_inst_mch_n_1d
           /\ sr_inst_mch_n_3d' = sr_inst_mch_n_2d
           /\ sr_inst_cnt' = cp /\ sr_inst_sht' = sp
           /\ sr_inst_chk' # sr_inst_chk =>
                CountFull /\ sr_inst_chk' = sr_inst_sht_160M_3d
BY DEF Edge160, InstEdge, Cleared, FrameReset, DiffDetect

(* What an edge of CLK160M makes of the pulse counter and the outputs.     *)
LEMMA PulseEdge ==
    ASSUME TypeOK, RESET_N = 1,
           NEW cp, NEW sp, NEW cs, NEW ss, NEW ws, Edge160(cp, sp, cs, ss, ws)
    PROVE  /\ sr_inst_edge_n' = IF MatchStarts THEN 0 ELSE 1
           /\ sr_pls_cnt' = IF sr_inst_edge_n = 0 THEN 0
                            ELSE IF sr_pls_cnt = PlsTop THEN sr_pls_cnt ELSE sr_pls_cnt + 1
           /\ sr_trg_pls' = IF sr_pls_cnt = PlsTop THEN 0 ELSE 1
           /\ \A c \in Channels : TRG_PLS'[c] = IF Drives(c) THEN sr_trg_pls ELSE 0
           /\ PTMCH_RST_N' = IF sr_cs_edge_n = 0 THEN 0 ELSE 1
BY DEF Edge160, InstEdge, PlsEdge, PulseDone, FrameReset

(* The windows of WinEdge, when the host does not write.                   *)
LEMMA StillEdge ==
    ASSUME TypeOK, RESET_N = 1,
           NEW cp, NEW sp, NEW cs, NEW ss, Edge160(cp, sp, cs, ss, win)
    PROVE  /\ ar_win_1d' = win /\ sr_win_2d' = ar_win_1d /\ sr_win_3d' = sr_win_2d
           /\ sr_win_2d = win /\ sr_win_3d = win => sr_win_sync' = win
<1>1. WinEdge(win)
    BY DEF Edge160
<1>2. ASSUME sr_win_2d = win, sr_win_3d = win PROVE sr_win_sync' = win
  <2>1. sr_win_sync' = [c \in Channels |-> [s \in Sides |-> win[c][s]]]
      BY <1>1, <1>2 DEF WinEdge, DiffDetect
  <2>2. \A c \in Channels : win[c] = [s \in Sides |-> win[c][s]]
      BY DEF TypeOK, Windows
  <2> QED
      BY <2>1, <2>2 DEF TypeOK, Windows
<1> QED
    BY <1>1, <1>2 DEF WinEdge

(* A loaded instruction register is not loaded again, only cleared.        *)
LEMMA HeldKept ==
    ASSUME TypeOK, PipelineInv,
           NEW cp, NEW sp, NEW cs, NEW ss, NEW ws, Edge160(cp, sp, cs, ss, ws),
           sr_inst_chk # Zero, sr_inst_chk' # Zero
    PROVE  sr_inst_chk' = sr_inst_chk
BY Constants DEF Edge160, InstEdge, DiffDetect, CountFull, PipelineInv, TypeOK

(* It is loaded when the whole instruction is in.                          *)
LEMMA LoadWhole ==
    ASSUME TypeOK, PipelineInv,
           NEW cp, NEW sp, NEW cs, NEW ss, NEW ws, Edge160(cp, sp, cs, ss, ws),
           sr_inst_chk = Zero, sr_inst_chk' # Zero
    PROVE  sr_inst_cnt = InstLen
BY Constants DEF Edge160, InstEdge, CountFull, PipelineInv, TypeOK

(* A clear register matches nothing.                                       *)
LEMMA ClearNoHit == sr_inst_chk = Zero => c_inst_mch_n = 1
BY ZeroIsNoCommand DEF c_inst_mch_n, InWindow

(* A cleared instruction register drives no trigger.                       *)
LEMMA ClearNoTrigger ==
    ASSUME NEW cp, NEW sp, NEW cs, NEW ss, NEW ws, Edge160(cp, sp, cs, ss, ws),
           sr_inst_chk = Zero
    PROVE  NoTrigger'
BY EdgeTrigger DEF NoTrigger
(* No instruction is of two classes.                                       *)
LEMMA OneClass ==
    ASSUME NEW c \in Channels, NEW d \in Channels, Drives(c), Drives(d)
    PROVE  c = d
BY CmdAssumption DEF Drives

(* A step of the pulse counter for every bit.                              *)
LEMMA LagStep ==
    ASSUME NEW n \in Int, NEW a \in Int, NEW m \in Int, NEW b \in Int, NEW k \in Int,
           n + a <= k + 1, m + b <= n + a + 1
    PROVE  m + b <= (k + 1) + 1
OBVIOUS

(* Follows is kept while nothing is cleared.                               *)
LEMMA WaitingRuns ==
    ASSUME Assumed, TypeOK, ObsType, PipelineInv, PipelineInv', Waiting, sr_inst_chk = Zero,
           RESET_N = 1, PTMCH_RST_N = 1, sr_cs_edge_n = 1,
           NEW cp \in 0..InstLen, NEW sp, NEW cs, NEW ss, NEW ws,
           Edge160(cp, sp, cs, ss, ws), spiAge' \in 0..1,
           cp + spiAge' <= sr_inst_cnt + spiAge + 1,
           Empty => (cp = sr_inst_cnt /\ sp = sr_inst_sht) \/ Unanswered,
           ObserveTick, ~Begins
    PROVE  Follows'
<1> USE Constants
<1>1. NoTrigger' /\ c_inst_mch_n = 1
    BY ClearNoTrigger, ClearNoHit
<1>2. NoMatch' /\ sr_inst_edge_n' = 1
    BY <1>1, RunEdge, PulseEdge DEF Waiting, NoMatch, Stages, MatchStarts
<1>3. pulses' = pulses /\ width' = width
    BY <1>1 DEF ObserveTick, Rises, Up, NoTrigger
<1>4. /\ sr_pls_cnt \in 0..PlsTop /\ sr_inst_cnt \in 0..InstLen /\ spiAge \in 0..1
      /\ sr_inst_cnt' = cp
    BY RunEdge DEF TypeOK, Bit
<1>5. CASE sr_inst_chk' = Zero
  <2>1. sr_pls_cnt' = IF sr_pls_cnt = PlsTop THEN PlsTop ELSE sr_pls_cnt + 1
      BY PulseEdge DEF Waiting
  <2>2. Lag'
    <3>1. sr_pls_cnt = PlsTop \/ sr_inst_cnt + spiAge <= sr_pls_cnt + 1
        BY DEF Waiting, Lag
    <3>2. CASE sr_pls_cnt = PlsTop
        BY <2>1, <3>2 DEF Lag
    <3>3. CASE sr_pls_cnt # PlsTop
      <4>1. sr_pls_cnt' = sr_pls_cnt + 1
          BY <2>1, <3>3
      <4>2. sr_inst_cnt' + spiAge' <= sr_pls_cnt' + 1
        <5>1. /\ sr_inst_cnt + spiAge <= sr_pls_cnt + 1
              /\ sr_inst_cnt' + spiAge' <= sr_inst_cnt + spiAge + 1
            BY <1>4, <3>1, <3>3
        <5>2. /\ sr_inst_cnt \in Int /\ spiAge \in Int /\ sr_inst_cnt' \in Int
              /\ spiAge' \in Int /\ sr_pls_cnt \in Int
            BY <1>4
        <5>3. sr_inst_cnt' + spiAge' <= (sr_pls_cnt + 1) + 1
            BY <5>1, <5>2, LagStep
        <5> QED
            BY <4>1, <5>3
      <4> QED
          BY <4>2 DEF Lag
    <3> QED
        BY <3>2, <3>3
  <2>3. (Empty \/ Unanswered)'
      BY <1>1, <1>3, RunEdge DEF Waiting, Empty, Unanswered
  <2> QED
      BY <1>1, <1>2, <1>5, <2>2, <2>3 DEF Follows, Waiting
<1>6. CASE sr_inst_chk' # Zero
  <2>1. sr_inst_cnt = InstLen
      BY <1>6, LoadWhole
  <2>2. sr_pls_cnt = PlsTop
      BY <1>4, <2>1 DEF Waiting, Lag, Assumed
  <2>3. Over'
      BY <2>2, PulseEdge DEF Waiting, Over
  <2>4. Unanswered'
      BY <1>1, <1>3, <2>1 DEF Waiting, Empty, Unanswered
  <2> QED
      BY <1>2, <1>6, <2>3, <2>4 DEF Follows, Held
<1> QED
    BY <1>5, <1>6

(* The observer, while no trigger comes up or one stays.                   *)
LEMMA SeesNone ==
    ASSUME ObserveTick, ~Begins, NoTrigger'
    PROVE  pulses' = pulses /\ width' = width
BY DEF ObserveTick, Rises, Up, NoTrigger

(* What the observer notes of a trigger that is up.                        *)
LEMMA SeesUp ==
    ASSUME ObserveTick, ~Begins, TypeOK, ~NoTrigger'
    PROVE  /\ width' = Older(width, PlsTop + 1)
           /\ NoTrigger => pulses' = Older(pulses, 2)
           /\ ~Rises => pulses' = pulses
<1>1. Up
    BY DEF Up, NoTrigger
<1>2. NoTrigger => Rises
    BY DEF Rises, NoTrigger, TypeOK, Bit
<1> QED
    BY <1>1, <1>2 DEF ObserveTick

(* An edge within the frame takes the match one place further.             *)
LEMMA HeldRuns ==
    ASSUME TypeOK, ObsType, PipelineInv, Held, sr_inst_chk # Zero, DrivesHeld,
           RESET_N = 1, PTMCH_RST_N = 1, sr_cs_edge_n = 1, Still, win' = win,
           NEW cp, NEW sp, NEW cs, NEW ss, Edge160(cp, sp, cs, ss, win),
           sr_inst_chk' = sr_inst_chk, ObserveTick, ~Begins
    PROVE  Held'
<1> USE Constants
<1>1. /\ ar_inst_mch_n_1d' = c_inst_mch_n
      /\ sr_inst_mch_n_2d' = ar_inst_mch_n_1d
      /\ sr_inst_mch_n_3d' = sr_inst_mch_n_2d
      /\ c_inst_mch_n \in {0, 1}
    BY RunEdge DEF c_inst_mch_n
<1>2. c_inst_mch_n' = c_inst_mch_n
    BY StillEdge DEF Still, c_inst_mch_n, InWindow
<1>3. pageAge' = Older(pageAge, PageAhead) /\ pageAge \in 0..PageAhead
    BY DEF ObserveTick, ObsType
<1>4. /\ sr_inst_edge_n' = IF MatchStarts THEN 0 ELSE 1
      /\ sr_trg_pls' = IF sr_pls_cnt = PlsTop THEN 0 ELSE 1
      /\ sr_pls_cnt' = IF sr_inst_edge_n = 0 THEN 0
                       ELSE IF sr_pls_cnt = PlsTop THEN sr_pls_cnt ELSE sr_pls_cnt + 1
      /\ sr_pls_cnt \in 0..PlsTop
    BY PulseEdge DEF TypeOK
<1>5. sr_trg_pls = 0 => NoTrigger'
    BY PulseEdge DEF NoTrigger
<1> DEFINE Silent == sr_trg_pls = 0 /\ Unanswered
<1>6. Silent => Unanswered'
    BY <1>5, SeesNone DEF Unanswered
<1>7. CASE NoMatch /\ sr_inst_edge_n = 1 /\ Over /\ Unanswered
  <2>1. Over' /\ sr_inst_edge_n' = 1 /\ Unanswered'
      BY <1>4, <1>6, <1>7 DEF Over, NoMatch, Stages, MatchStarts
  <2>2. (Stages(0, 1, 1)' /\ Hit' /\ pageAge' >= 1) \/ NoMatch'
      BY <1>1, <1>2, <1>3, <1>7 DEF NoMatch, Stages, Hit, Older, PageAhead
  <2> QED
      BY <2>1, <2>2 DEF Held
<1>8. CASE Hit /\ Stages(0, 1, 1) /\ sr_inst_edge_n = 1 /\ Over /\ Unanswered /\ pageAge >= 1
  <2>1. Over' /\ sr_inst_edge_n' = 1 /\ Unanswered'
      BY <1>4, <1>6, <1>8 DEF Over, Stages, MatchStarts
  <2>2. Stages(0, 0, 1)' /\ Hit' /\ pageAge' >= 2
      BY <1>1, <1>2, <1>3, <1>8 DEF Stages, Hit, Older, PageAhead
  <2> QED
      BY <2>1, <2>2 DEF Held
<1>9. CASE Hit /\ Stages(0, 0, 1) /\ sr_inst_edge_n = 1 /\ Over /\ Unanswered /\ pageAge >= 2
  <2>1. Over' /\ sr_inst_edge_n' = 0 /\ Unanswered'
      BY <1>4, <1>6, <1>9 DEF Over, Stages, MatchStarts
  <2>2. Stages(0, 0, 0)' /\ Hit' /\ pageAge' >= 3
      BY <1>1, <1>2, <1>3, <1>9 DEF Stages, Hit, Older, PageAhead
  <2> QED
      BY <2>1, <2>2 DEF Held
<1>10. CASE Hit /\ Stages(0, 0, 0) /\ sr_inst_edge_n = 0 /\ Over /\ Unanswered /\ pageAge >= 3
  <2>1. sr_pls_cnt' = 0 /\ sr_trg_pls' = 0 /\ sr_inst_edge_n' = 1 /\ Unanswered'
      BY <1>4, <1>6, <1>10 DEF Over, Stages, MatchStarts
  <2>2. Stages(0, 0, 0)' /\ Hit' /\ pageAge' >= 4
      BY <1>1, <1>2, <1>3, <1>10 DEF Stages, Hit, Older, PageAhead
  <2> QED
      BY <2>1, <2>2 DEF Held, Pulse
<1>11. CASE Hit /\ Stages(0, 0, 0) /\ sr_inst_edge_n = 1 /\ Pulse
  <2>1. Stages(0, 0, 0)' /\ Hit' /\ sr_inst_edge_n' = 1
      BY <1>1, <1>2, <1>4, <1>11 DEF Stages, Hit, MatchStarts
  <2>2. Pulse'
    <3>1. CASE sr_pls_cnt = 0 /\ sr_trg_pls = 0 /\ Unanswered /\ pageAge >= 4
        BY <1>3, <1>4, <1>6, <1>11, <3>1 DEF Pulse, Older, PageAhead
    <3>2. PICK c \in Channels : Drives(c)
        BY <1>11 DEF Hit, c_inst_mch_n, InWindow, Drives
    <3>3. sr_trg_pls = 1 => TRG_PLS'[c] = 1 /\ ~NoTrigger'
        BY <3>2, PulseEdge DEF NoTrigger
    <3>4. CASE sr_pls_cnt = 1 /\ sr_trg_pls = 1 /\ Unanswered /\ pageAge >= 5
      <4>1. pulses' = 1 /\ width' = 1
          BY <3>3, <3>4, SeesUp DEF Unanswered, Older
      <4>2. pageAge' = PageAhead /\ sr_pls_cnt' = 2 /\ sr_trg_pls' = 1
          BY <1>3, <1>4, <1>11, <3>4 DEF Older, PageAhead
      <4> QED
          BY <3>3, <3>4, <4>1, <4>2 DEF Pulse
    <3>5. CASE /\ sr_pls_cnt >= 2 /\ sr_trg_pls = 1 /\ ~NoTrigger
               /\ pulses = 1 /\ width = sr_pls_cnt - 1 /\ pageAge = PageAhead
      <4>1. ~Rises
        <5>1. PICK d \in Channels : TRG_PLS[d] = 1
            BY <3>5 DEF NoTrigger
        <5>2. Drives(d)
            BY <5>1 DEF DrivesHeld
        <5>3. \A e \in Channels : TRG_PLS'[e] = 1 => e = d
            BY <5>2, PulseEdge, OneClass
        <5> QED
            BY <5>1, <5>3 DEF Rises
      <4>2. pulses' = 1 /\ width' = sr_pls_cnt /\ pageAge' = PageAhead
          BY <1>3, <1>4, <3>3, <3>5, <4>1, SeesUp DEF Older
      <4>3. CASE sr_pls_cnt = PlsTop
          BY <1>4, <1>11, <4>2, <4>3 DEF Pulse, Over
      <4>4. CASE sr_pls_cnt # PlsTop
        <5>1. sr_pls_cnt' = sr_pls_cnt + 1 /\ sr_trg_pls' = 1
            BY <1>4, <1>11, <4>4
        <5> QED
            BY <1>4, <3>3, <3>5, <4>2, <5>1 DEF Pulse
      <4> QED
          BY <4>3, <4>4
    <3>6. CASE /\ Over /\ pulses = 1 /\ width = PlsTop
               /\ NoTrigger \/ pageAge = PageAhead
      <4>1. NoTrigger' /\ pulses' = 1 /\ width' = PlsTop
          BY <1>5, <3>6, SeesNone DEF Over
      <4>2. Over'
          BY <1>4, <1>11, <3>6 DEF Over
      <4> QED
          BY <4>1, <4>2 DEF Pulse
    <3> QED
        BY <1>11, <3>1, <3>4, <3>5, <3>6 DEF Pulse
  <2> QED
      BY <2>1, <2>2 DEF Held
<1> QED
    BY <1>7, <1>8, <1>9, <1>10, <1>11 DEF Held

-----------------------------------------------------------------------------
(* Where the invariant stands                                              *)

(* A frame that is whole, or begins, was not cut by RESET_N.               *)
LEMMA WholeNotReset ==
    FrameInv /\ AnswerInv /\ (clean \/ fresh \/ sent # <<>>) => RESET_N = 1
BY DEF FrameInv, AnswerInv, FallUnderWay, Calm

(* A trigger that comes up or stays up after an edge of a whole frame      *)
(* answers the instruction that has been held for PageAhead - 1 edges.     *)
UpStage ==
    /\ Hit /\ Stages(0, 0, 0) /\ sr_inst_edge_n = 1 /\ sr_trg_pls = 1
    /\ \/ sr_pls_cnt = 1 /\ Unanswered /\ pageAge >= 5
       \/ /\ sr_pls_cnt >= 2 /\ ~NoTrigger /\ pulses = 1
          /\ width = sr_pls_cnt - 1 /\ pageAge = PageAhead

(* What a trigger that is up after an edge says of the registers before.   *)
LEMMA UpMeans ==
    ASSUME TypeOK, FrontInv, AnswerInv, clean,
           NEW cp, NEW sp, NEW cs, NEW ss, NEW ws, Edge160(cp, sp, cs, ss, ws),
           NEW c \in Channels, TRG_PLS'[c] = 1
    PROVE  Drives(c) /\ sr_inst_chk # Zero /\ UpStage
<1>1. Drives(c) /\ sr_inst_chk # Zero
    BY EdgeTrigger DEF Drives
<1>2. RESET_N = 1 /\ PTMCH_RST_N = 1
    BY <1>1, WholeNotReset DEF FrontInv, PipelineInv, TypeOK, Bit
<1>3. fresh => Falling
    BY <1>1, <1>2 DEF FrontInv, FrameInv, FallUnderWay, Falling
<1>4. Held
    BY <1>1, <1>3 DEF AnswerInv, Follows
<1>5. sr_trg_pls = 1
    BY <1>1, <1>2, PulseEdge
<1> QED
    BY <1>1, <1>4, <1>5 DEF Held, Pulse, Over, UpStage

(* A bit that does not begin a frame leaves a complete one alone.          *)
LEMMA BitKeeps ==
    ASSUME TypeOK, FrontInv, AnswerInv, NEW b \in Bit, SendBit(b)
    PROVE  /\ ~fresh' /\ sent' \in Seq(Bit)
           /\ clean' <=> fresh \/ clean
           /\ clean' <=> sent' # <<>>
           /\ fresh => sent' = <<b>> /\ sr_inst_chk = Zero /\ NoTrigger /\ Calm /\ Empty
           /\ ~fresh /\ clean => Calm /\ ~Empty
           /\ ~fresh /\ (Complete \/ ~clean) => sent' = sent
           /\ ~fresh /\ clean /\ ~Complete => sent' = Append(sent, b)
<1>0. csAge >= 5 /\ ~FallUnderWay
    BY Constants DEF SendBit, FallUnderWay, TypeOK
<1>1. /\ ~fresh' /\ (clean' <=> fresh \/ clean)
      /\ fresh => sent' = <<b>>
      /\ ~fresh /\ ~clean => sent' = sent
      /\ ~fresh /\ clean /\ Len(sent) < InstLen => sent' = Append(sent, b)
      /\ ~fresh /\ clean /\ ~(Len(sent) < InstLen) => sent' = sent
    BY DEF SendBit
<1>2. fresh => sr_inst_chk = Zero /\ NoTrigger /\ Calm /\ Empty
    BY <1>0 DEF FrontInv, FrameInv
<1>3. Len(sent) \in 0..InstLen /\ sent \in Seq(Bit)
    BY Constants DEF TypeOK
<1>4. ~fresh /\ clean => Calm /\ InStep
    BY DEF FrontInv, FrameInv
<1>5. clean => sent # <<>> /\ Len(sent) # 0
    BY <1>3 DEF AnswerInv
<1>6. ~fresh /\ clean => ~Empty
    BY <1>4, <1>5 DEF InStep, Empty
<1>7. ~fresh /\ (Complete \/ ~clean) => sent' = sent
    BY <1>1, Constants DEF Complete
<1>8. ~fresh /\ clean /\ ~Complete => sent' = Append(sent, b)
    BY <1>1, <1>3, Constants DEF Complete
<1>9. sent' \in Seq(Bit) /\ (sent' # <<>> <=> fresh \/ clean)
  <2>1. CASE fresh
    <3>1. <<b>> \in Seq(Bit) /\ <<b>> # <<>>
        OBVIOUS
    <3> QED
        BY <1>1, <2>1, <3>1
  <2>2. CASE ~fresh /\ (Complete \/ ~clean)
      BY <1>3, <1>5, <1>7, <2>2 DEF AnswerInv
  <2>3. CASE ~fresh /\ clean /\ ~Complete
    <3>1. Append(sent, b) \in Seq(Bit) /\ Append(sent, b) # <<>>
        BY <1>3
    <3> QED
        BY <1>8, <2>3, <3>1
  <2> QED
      BY <2>1, <2>2, <2>3
<1> QED
    BY <1>1, <1>2, <1>4, <1>6, <1>7, <1>8, <1>9

(* Before a frame the host is done with the windows.                       *)
LEMMA HostIsDone ==
    ASSUME Assumed, AnswerInv, NEW r, WriteWindow(r)
    PROVE  SPI_CS = 1 /\ sent = <<>> /\ ~clean
BY DEF Assumed, WriteWindow, AnswerInv

(* The windows move on from CS falling, and stay once they are at rest.    *)
LEMMA WinEdgeStep ==
    ASSUME TypeOK, WinInv, RESET_N = 1, UNCHANGED <<RESET_N, SPI_CS, win>>,
           NEW cp, NEW sp, NEW cs, NEW ss, Edge160(cp, sp, cs, ss, win),
           sent' # <<>> => Still
    PROVE  WinInv'
<1> USE Constants
<1>1. /\ ar_win_1d' = win /\ sr_win_2d' = ar_win_1d /\ sr_win_3d' = sr_win_2d
      /\ sr_win_2d = win /\ sr_win_3d = win => sr_win_sync' = win
    BY StillEdge
<1>2. csAge' = Older(csAge, CsSetup) /\ csAge \in 0..CsSetup
    BY DEF Edge160, TypeOK
<1>3. sent' # <<>> => Still'
    BY <1>1 DEF Still
<1>4. ASSUME SPI_CS = 0
      PROVE  /\ csAge' >= 1 => ar_win_1d' = win'
             /\ csAge' >= 2 => sr_win_2d' = win'
             /\ csAge' >= 3 => sr_win_3d' = win'
             /\ csAge' >= 4 => sr_win_sync' = win'
  <2>1. /\ csAge >= 1 => ar_win_1d = win
        /\ csAge >= 2 => sr_win_2d = win
        /\ csAge >= 3 => sr_win_3d = win
      BY <1>4 DEF WinInv
  <2>2. csAge' <= csAge + 1
      BY <1>2 DEF Older
  <2>3. csAge' >= 2 => csAge >= 1
      BY <1>2, <2>2 DEF Older
  <2>4. csAge' >= 3 => csAge >= 2
      BY <1>2, <2>2 DEF Older
  <2>5. csAge' >= 4 => csAge >= 3 /\ csAge >= 2
      BY <1>2, <2>2 DEF Older
  <2> QED
      BY <1>1, <2>1, <2>3, <2>4, <2>5
<1> QED
    BY <1>3, <1>4 DEF WinInv

(* The windows are at rest when the first bit of a frame arrives.          *)
LEMMA WinStep ==
    ASSUME Assumed, TypeOK, FrontInv, WinInv, AnswerInv, [Next]_vars
    PROVE  WinInv'
<1> USE Constants
<1>u. ASSUME UNCHANGED <<winRegs, win>>, sent' # <<>> => Still,
             \/ RESET_N' = 0 \/ SPI_CS' = 1 \/ csAge' = 0
             \/ UNCHANGED <<RESET_N, SPI_CS, csAge>>
      PROVE  WinInv'
    BY <1>u DEF WinInv, Still, winRegs
<1>b. ASSUME NEW b \in Bit, SendBit(b), sent' # <<>>
      PROVE  Still /\ RESET_N = 1
  <2>1. fresh \/ clean
      BY <1>b, BitKeeps
  <2>2. RESET_N = 1
      BY <2>1, WholeNotReset DEF FrontInv
  <2>3. SPI_CS = 0 /\ csAge >= 4 /\ csAge >= 3 /\ csAge >= 2 /\ csAge >= 1
      BY <1>b DEF SendBit, TypeOK
  <2> QED
      BY <2>2, <2>3 DEF WinInv, Still
<1>0. RESET_N \in Bit /\ (sent # <<>> => Still)
    BY DEF TypeOK, WinInv
<1>r. ASSUME RESET_N' = 0, sent' = <<>> PROVE WinInv'
    BY <1>r DEF WinInv
<1>n. RESET_N = 0 => sent = <<>>
    BY WholeNotReset DEF FrontInv
<1>1. CASE Tick160
  <2>1. UNCHANGED <<RESET_N, SPI_CS, win>> /\ sent' = sent
      BY <1>1 DEF Tick160, pins, history
  <2>2. CASE RESET_N = 1
      BY <1>0, <1>1, <2>1, <2>2, WinEdgeStep DEF Tick160
  <2>3. CASE RESET_N = 0
      BY <1>n, <1>r, <2>1, <2>3
  <2> QED
      BY <1>0, <2>2, <2>3 DEF Bit
<1>2. ASSUME NEW b \in Bit, SpiRise(b) PROVE WinInv'
  <2>1. SendBit(b) /\ UNCHANGED <<winRegs, win, RESET_N, SPI_CS, csAge>>
      BY <1>2 DEF SpiRise, pins, resetRegs
  <2> QED
      BY <1>b, <1>u, <2>1
<1>3. ASSUME NEW b \in Bit, SpiRiseAtTick(b) PROVE WinInv'
  <2>1. SendBit(b) /\ UNCHANGED <<RESET_N, SPI_CS, win>>
      BY <1>3 DEF SpiRiseAtTick, pins
  <2>2. PICK n, w : Edge160(NextCount, NextShift(b), n, w, win)
      BY <1>3 DEF SpiRiseAtTick
  <2>3. CASE RESET_N = 1
      BY <1>b, <2>1, <2>2, <2>3, WinEdgeStep
  <2>4. CASE RESET_N = 0
    <3>1. sent' = <<>>
        BY <1>b, <2>1, <2>4
    <3> QED
        BY <1>r, <2>1, <2>4, <3>1
  <2> QED
      BY <1>0, <2>3, <2>4 DEF Bit
<1>4. CASE CsFall
  <2>1. UNCHANGED <<winRegs, win>> /\ sent' = sent /\ csAge' = 0
      BY <1>4 DEF CsFall, resetRegs
  <2> QED
      BY <1>0, <1>u, <2>1
<1>5. CASE CsRise
  <2>1. UNCHANGED <<winRegs, win>> /\ sent' = sent /\ SPI_CS' = 1
      BY <1>5 DEF CsRise, resetRegs, history
  <2> QED
      BY <1>0, <1>u, <2>1
<1>6. ASSUME NEW r \in HostWrites, HostWrite(r) PROVE WinInv'
  <2>1. SPI_CS' = 1 /\ sent' = <<>>
      BY <1>6, HostIsDone DEF HostWrite, history
  <2> QED
      BY <2>1 DEF WinInv
<1>7. ASSUME NEW r \in HostWrites, HostWriteAtTick(r) PROVE WinInv'
  <2>1. SPI_CS' = 1 /\ sent' = <<>>
      BY <1>7, HostIsDone DEF HostWriteAtTick, history
  <2> QED
      BY <2>1 DEF WinInv
<1>8. CASE ResetAssert
    BY <1>8, <1>r DEF ResetAssert
<1>9. CASE ResetRelease
  <2>1. UNCHANGED <<winRegs, win>> /\ sent' = sent /\ csAge' = 0
      BY <1>9 DEF ResetRelease, resetRegs, history
  <2> QED
      BY <1>0, <1>u, <2>1
<1>10. CASE UNCHANGED vars
  <2>1. UNCHANGED <<winRegs, win, RESET_N, SPI_CS, csAge>> /\ sent' = sent
      BY <1>10 DEF vars, pins, resetRegs, ages, history
  <2> QED
      BY <1>0, <1>u, <2>1
<1> QED
    BY <1>1, <1>2, <1>3, <1>4, <1>5, <1>6, <1>7, <1>8, <1>9, <1>10 DEF Next

(* A trigger is of the class of the instruction held, and the only one.    *)
LEMMA DrivesStep ==
    ASSUME TypeOK, FrontInv, DrivesHeld, OneTrigger, [Next]_vars
    PROVE  DrivesHeld' /\ OneTrigger'
<1>e. ASSUME NEW cp, NEW sp, NEW cs, NEW ss, NEW ws, Edge160(cp, sp, cs, ss, ws)
      PROVE  DrivesHeld' /\ OneTrigger'
  <2>1. \A c \in Channels : TRG_PLS'[c] = 1 => Drives(c) /\ sr_inst_chk # Zero
      BY <1>e, EdgeTrigger DEF Drives
  <2>2. sr_inst_chk # Zero /\ sr_inst_chk' # Zero' => sr_inst_chk' = sr_inst_chk
      BY <1>e, HeldKept DEF FrontInv, Zero, AllZero
  <2> QED
      BY <2>1, <2>2, OneClass DEF DrivesHeld, OneTrigger, Drives, Opcode, AddrLen, Zero, AllZero
<1>u. ASSUME UNCHANGED <<sr_inst_chk, TRG_PLS>> PROVE DrivesHeld' /\ OneTrigger'
    BY <1>u DEF DrivesHeld, OneTrigger, Drives, Opcode, AddrLen, Zero, AllZero
<1>1. CASE Tick160
    BY <1>1, <1>e DEF Tick160
<1>2. ASSUME NEW b \in Bit, SpiRise(b) PROVE DrivesHeld' /\ OneTrigger'
    BY <1>2, <1>u DEF SpiRise, instRegs, resetRegs, plsRegs
<1>3. ASSUME NEW b \in Bit, SpiRiseAtTick(b) PROVE DrivesHeld' /\ OneTrigger'
    BY <1>3, <1>e DEF SpiRiseAtTick
<1>4. CASE CsFall
    BY <1>4, <1>u DEF CsFall, instRegs, resetRegs, plsRegs
<1>5. CASE CsRise
    BY <1>5, <1>u DEF CsRise, instRegs, resetRegs, plsRegs
<1>6. ASSUME NEW r \in HostWrites, HostWrite(r) PROVE DrivesHeld' /\ OneTrigger'
    BY <1>6, <1>u DEF HostWrite, instRegs, resetRegs, plsRegs
<1>7. ASSUME NEW r \in HostWrites, HostWriteAtTick(r) PROVE DrivesHeld' /\ OneTrigger'
    BY <1>7, <1>e DEF HostWriteAtTick
<1>8. CASE ResetAssert
  <2>1. \A c \in Channels : TRG_PLS'[c] # 1
      BY <1>8 DEF ResetAssert, PlsReset
  <2> QED
      BY <2>1 DEF DrivesHeld, OneTrigger
<1>9. CASE ResetRelease
    BY <1>9, <1>u DEF ResetRelease, instRegs, resetRegs, plsRegs
<1>10. CASE UNCHANGED vars
    BY <1>10, <1>u DEF vars, instRegs, resetRegs, plsRegs
<1> QED
    BY <1>1, <1>2, <1>3, <1>4, <1>5, <1>6, <1>7, <1>8, <1>9, <1>10 DEF Next

-----------------------------------------------------------------------------
(* One edge, as the outputs show it                                        *)

(* A trigger that is up after an edge is the only one, and if another was  *)
(* up before it is the same.                                               *)
LEMMA TriggerSame ==
    ASSUME DrivesHeld, NEW cp, NEW sp, NEW cs, NEW ss, NEW ws, Edge160(cp, sp, cs, ss, ws),
           NEW c \in Channels, TRG_PLS'[c] = 1
    PROVE  /\ \A d \in Channels : TRG_PLS'[d] = 1 => d = c
           /\ \A d \in Channels : TRG_PLS[d] = 1 => d = c
<1>1. \A d \in Channels : TRG_PLS'[d] = 1 => Drives(d) /\ sr_inst_chk # Zero
    BY EdgeTrigger DEF Drives
<1>2. \A d \in Channels : TRG_PLS[d] = 1 => Drives(d)
    BY <1>1 DEF DrivesHeld
<1> QED
    BY <1>1, <1>2, OneClass

(* Raised for the first time in a frame, or still up.                      *)
LEMMA UpCounts ==
    ASSUME TypeOK, FrontInv, ObsType, AnswerInv, DrivesHeld, clean,
           NEW cp, NEW sp, NEW cs, NEW ss, NEW ws, Edge160(cp, sp, cs, ss, ws),
           NEW c \in Channels, TRG_PLS'[c] = 1, ObserveTick, ~Begins
    PROVE  /\ pulses' = 1 /\ width' \in 1..PlsTop
           /\ NoTrigger => pulses = 0
           /\ ~NoTrigger => pulses = 1
<1> USE Constants
<1>1. UpStage
    BY UpMeans
<1>2. ~NoTrigger'
    BY DEF NoTrigger
<1>3. /\ width' = Older(width, PlsTop + 1)
      /\ NoTrigger => pulses' = Older(pulses, 2)
      /\ ~Rises => pulses' = pulses
    BY <1>2, SeesUp
<1>4. CASE sr_pls_cnt = 1 /\ Unanswered /\ pageAge >= 5
    BY <1>3, <1>4 DEF Unanswered, Older
<1>5. CASE /\ sr_pls_cnt >= 2 /\ ~NoTrigger /\ pulses = 1
           /\ width = sr_pls_cnt - 1 /\ pageAge = PageAhead
  <2>1. PICK d \in Channels : TRG_PLS[d] = 1
      BY <1>5 DEF NoTrigger
  <2>2. ~Rises
      BY <2>1, TriggerSame DEF Rises
  <2>3. sr_pls_cnt \in 2..PlsTop
      BY <1>5 DEF TypeOK
  <2> QED
      BY <1>3, <1>5, <2>2, <2>3 DEF Older
<1> QED
    BY <1>1, <1>4, <1>5 DEF UpStage

(* What it answers.                                                        *)
LEMMA UpAnswers ==
    ASSUME TypeOK, FrontInv, WinInv, AnswerInv, clean,
           NEW cp, NEW sp, NEW cs, NEW ss, NEW ws, Edge160(cp, sp, cs, ss, ws),
           NEW c \in Channels, TRG_PLS'[c] = 1
    PROVE  Complete /\ InWindow(SentWord, c, win)
<1>1. Drives(c) /\ sr_inst_chk # Zero /\ Hit
    BY UpMeans DEF UpStage
<1>2. Complete /\ sr_inst_chk = SentWord
    BY <1>1, HeldThen DEF FrontInv, HeldIsSent
<1>3. sr_win_sync = win
    BY DEF WinInv, AnswerInv, Still
<1>4. PICK d \in Channels : InWindow(sr_inst_chk, d, sr_win_sync)
    BY <1>1 DEF Hit, c_inst_mch_n
<1>5. Drives(d)
    BY <1>4 DEF InWindow, Drives
<1>6. d = c
    BY <1>1, <1>5, OneClass
<1> QED
    BY <1>2, <1>3, <1>4, <1>6

(* An edge within a frame: what is counted, answered and shown.            *)
LEMMA EdgeShows ==
    ASSUME TypeOK, FrontInv, WinInv, ObsType, AnswerInv, DrivesHeld,
           NeverTwice, clean, clean',
           NEW cp, NEW sp, NEW cs, NEW ss, NEW ws, Edge160(cp, sp, cs, ss, ws),
           ObserveTick, ~Begins, win' = win, Complete => sent' = sent
    PROVE  NeverTwice' /\ TriggerIsCommand' /\ PageContract'
<1> USE Constants
<1>1. NeverTwice'
  <2>1. CASE NoTrigger'
      BY <2>1, SeesNone DEF NeverTwice
  <2>2. CASE ~NoTrigger'
    <3>1. PICK c \in Channels : TRG_PLS'[c] = 1
        BY <2>2 DEF NoTrigger
    <3>2. pulses' = 1 /\ width' \in 1..PlsTop
        BY <3>1, UpCounts
    <3> QED
        BY <3>2 DEF NeverTwice
  <2> QED
      BY <2>1, <2>2
<1>2. TriggerIsCommand'
  <2> SUFFICES ASSUME NEW c \in Channels, TRG_PLS'[c] = 1
               PROVE  Complete' /\ InWindow(SentWord', c, win')
      BY DEF TriggerIsCommand, InWindow, Opcode, AddrOf, AddrLen
  <2>1. Complete /\ InWindow(SentWord, c, win)
      BY UpAnswers
  <2>2. sent' = sent
      BY <2>1
  <2>3. Complete' /\ SentWord' = SentWord
      BY <2>1, <2>2 DEF Complete, SentWord
  <2> QED
      BY <2>1, <2>3
<1>3. PageContract'
  <2> SUFFICES ASSUME NEW c \in Channels, TRG_PLS'[c] = 1
               PROVE  pageAge' = PageAhead \/ (sr_inst_chk' = Zero /\ pageAge' = 0)
      BY DEF PageContract, Zero, AllZero, PageAhead
  <2>1. sr_inst_chk # Zero /\ pageAge >= 5 /\ pageAge \in 0..PageAhead
      BY UpMeans DEF UpStage, PageAhead, ObsType
  <2>2. CASE sr_inst_chk' = sr_inst_chk
      BY <2>1, <2>2 DEF ObserveTick, Older, PageAhead
  <2>3. CASE sr_inst_chk' # sr_inst_chk
    <3>1. sr_inst_chk' = Zero
        BY <2>1, <2>3, HeldKept DEF FrontInv
    <3> QED
        BY <2>3, <3>1 DEF ObserveTick
  <2> QED
      BY <2>2, <2>3
<1> QED
    BY <1>1, <1>2, <1>3

(* Every step keeps the three properties of the outputs.                   *)
LEMMA OutputsStep ==
    ASSUME Assumed, TypeOK, FrontInv, WinInv, ObsType, AnswerInv, DrivesHeld,
           NeverTwice, TriggerIsCommand, PageContract,
           [ObservedNext]_<<vars, observed>>
    PROVE  NeverTwice' /\ TriggerIsCommand' /\ PageContract'
<1> USE Constants
<1> DEFINE Good == NeverTwice' /\ TriggerIsCommand' /\ PageContract'
<1>0. ASSUME ~clean' PROVE Good
    BY <1>0 DEF NeverTwice, TriggerIsCommand, PageContract
<1>n. ASSUME NoTrigger', pulses' = 0, width' = 0 PROVE Good
  <2>1. \A c \in Channels : TRG_PLS'[c] # 1
      BY <1>n DEF NoTrigger
  <2> QED
      BY <1>n, <2>1 DEF NeverTwice, TriggerIsCommand, PageContract
<1>u. ASSUME UNCHANGED <<sr_inst_chk, TRG_PLS, win, sent, clean, pulses, width, pageAge>>
      PROVE  Good
    BY <1>u DEF NeverTwice, TriggerIsCommand, PageContract, Complete, SentWord, InWindow,
                Opcode, AddrOf, AddrLen, Zero, AllZero, PageAhead
<1>1. CASE Tick160 /\ ObserveTick
  <2>1. CASE ~clean
      BY <1>0, <1>1, <2>1 DEF Tick160, history
  <2>2. CASE clean
    <3>1. clean' /\ ~Begins /\ sent' = sent /\ win' = win
        BY <1>1, <2>2 DEF Tick160, history, pins, Begins
    <3> QED
        BY <1>1, <2>2, <3>1, EdgeShows DEF Tick160
  <2> QED
      BY <2>1, <2>2
<1>2. ASSUME NEW b \in Bit, SpiRise(b), ObserveOther PROVE Good
  <2>1. SendBit(b) /\ UNCHANGED <<sr_inst_chk, TRG_PLS, win, RESET_N>>
      BY <1>2 DEF SpiRise, pins, instRegs, resetRegs, plsRegs
  <2>2. CASE fresh
    <3>1. NoTrigger' /\ Begins
        BY <2>1, <2>2, BitKeeps DEF NoTrigger, Begins
    <3> QED
        BY <1>2, <1>n, <3>1 DEF ObserveOther
  <2>3. CASE ~fresh
    <3>1. UNCHANGED <<pulses, width, pageAge>>
        BY <1>2, <2>1, <2>3 DEF ObserveOther, observed, Begins
    <3>2. CASE sent' = sent
      <4>1. clean' = clean
          BY <2>1, <2>3 DEF SendBit, TypeOK
      <4> QED
          BY <1>u, <2>1, <3>1, <3>2, <4>1
    <3>3. CASE sent' # sent
      <4>1. clean /\ ~Complete
          BY <2>1, <2>3, <3>3, BitKeeps
      <4>2. \A c \in Channels : TRG_PLS'[c] # 1
          BY <2>1, <4>1 DEF TriggerIsCommand
      <4> QED
          BY <3>1, <4>1, <4>2 DEF NeverTwice, TriggerIsCommand, PageContract
    <3> QED
        BY <3>2, <3>3
  <2> QED
      BY <2>2, <2>3
<1>3. ASSUME NEW b \in Bit, SpiRiseAtTick(b), ObserveTick PROVE Good
  <2>1. SendBit(b) /\ win' = win
      BY <1>3 DEF SpiRiseAtTick, pins
  <2>2. PICK n, w : Edge160(NextCount, NextShift(b), n, w, win)
      BY <1>3 DEF SpiRiseAtTick
  <2>3. CASE fresh
    <3>1. sr_inst_chk = Zero /\ Begins
        BY <2>1, <2>3, BitKeeps DEF Begins
    <3>2. NoTrigger'
        BY <2>2, <3>1, ClearNoTrigger
    <3> QED
        BY <1>3, <1>n, <3>1, <3>2 DEF ObserveTick
  <2>4. CASE ~fresh /\ clean
    <3>1. ~Begins /\ clean' /\ (Complete => sent' = sent)
        BY <2>1, <2>4, BitKeeps DEF Begins
    <3> QED
        BY <1>3, <2>1, <2>2, <2>4, <3>1, EdgeShows
  <2>5. CASE ~fresh /\ ~clean
      BY <1>0, <2>1, <2>5, BitKeeps
  <2> QED
      BY <2>3, <2>4, <2>5
<1>4. CASE CsFall /\ ObserveOther
  <2>1. ~Begins
      BY <1>4 DEF CsFall, Begins, FrontInv, FrameInv, FallUnderWay, Calm
  <2> QED
      BY <1>4, <1>u, <2>1 DEF CsFall, ObserveOther, observed, instRegs, resetRegs, plsRegs
<1>5. CASE CsRise /\ ObserveOther
    BY <1>5, <1>u DEF CsRise, ObserveOther, observed, instRegs, resetRegs, plsRegs,
                      Begins, history
<1>6. ASSUME NEW r \in HostWrites, HostWrite(r) PROVE Good
    BY <1>0, <1>6, HostIsDone DEF HostWrite, history
<1>7. ASSUME NEW r \in HostWrites, HostWriteAtTick(r) PROVE Good
    BY <1>0, <1>7, HostIsDone DEF HostWriteAtTick, history
<1>8. CASE ResetAssert
    BY <1>0, <1>8 DEF ResetAssert
<1>9. CASE ResetRelease
  <2>1. ~clean
      BY <1>9, WholeNotReset DEF ResetRelease, FrontInv
  <2> QED
      BY <1>0, <1>9, <2>1 DEF ResetRelease, history
<1>10. CASE UNCHANGED <<vars, observed>>
    BY <1>10, <1>u DEF vars, observed, pins, instRegs, resetRegs, plsRegs, history
<1> QED
    BY <1>1, <1>2, <1>3, <1>4, <1>5, <1>6, <1>7, <1>8, <1>9, <1>10 DEF ObservedNext

-----------------------------------------------------------------------------
(* The match pipeline and the pulse counter over each step                 *)

(* A fall of CS on its way is not calm.                                    *)
LEMMA FallNotCalm == FallUnderWay => ~Calm
BY DEF FallUnderWay, Calm

(* The first three edges of a fall of CS reset nothing.                    *)
LEMMA FallEdge ==
    ASSUME TypeOK, FrontInv, Falling, FallCalm, csAge <= 2,
           NEW cp, NEW sp, NEW cs, NEW ss, NEW ws, Edge160(cp, sp, cs, ss, ws)
    PROVE  FallCalm' /\ sr_cs_edge_n = 1 /\ PTMCH_RST_N = 1
<1>0. csAge \in 0..2
    BY DEF TypeOK
<1>1. RESET_N = 1 /\ PTMCH_RST_N = 1 /\ sr_cs_edge_n = 1 /\ csAge \in 0..2
    BY <1>0 DEF Falling, FallUnderWay, FallCalm
<1>2. csAge' = csAge + 1
    BY <1>1, Constants DEF Edge160, Older
<1>3. PTMCH_RST_N' = 1
    BY <1>1, PulseEdge
<1>4. csAge <= 1 => ~CsFell
    BY <1>1 DEF Falling, FallUnderWay, FallCalm, CsFell
<1>5. csAge <= 1 => sr_cs_edge_n' = 1
    BY <1>1, <1>4 DEF Edge160, CsEdge
<1> QED
    BY <1>1, <1>2, <1>3, <1>5 DEF FallCalm

(* Follows over an edge with a bit of the same frame or with none.         *)
LEMMA FollowsEdge ==
    ASSUME Assumed, TypeOK, ObsType, PipelineInv, PipelineInv', Follows, DrivesHeld,
           RESET_N = 1, PTMCH_RST_N = 1, sr_cs_edge_n = 1, Still, win' = win,
           NEW cp \in 0..InstLen, NEW sp, NEW cs, NEW ss, Edge160(cp, sp, cs, ss, win),
           spiAge' \in 0..1, cp + spiAge' <= sr_inst_cnt + spiAge + 1,
           Empty => cp = sr_inst_cnt /\ sp = sr_inst_sht,
           ObserveTick, ~Begins
    PROVE  Follows'
<1>1. CASE sr_inst_chk = Zero
    BY <1>1, WaitingRuns DEF Follows
<1>2. CASE sr_inst_chk # Zero
  <2>1. sr_inst_chk' = sr_inst_chk
      BY <1>2, RunEdge, Constants DEF PipelineInv, CountFull
  <2>2. Held'
      BY <1>2, <2>1, HeldRuns DEF Follows
  <2> QED
      BY <1>2, <2>1, <2>2 DEF Follows, Zero, AllZero
<1> QED
    BY <1>1, <1>2

(* AnswerInv over an edge that brings no bit.                              *)
LEMMA AnswerQuiet ==
    ASSUME Assumed, TypeOK, FrontInv, FrontInv', ObsType, WinInv, AnswerInv, DrivesHeld,
           UNCHANGED <<RESET_N, SPI_CS, history>>, NEW ws,
           Edge160(sr_inst_cnt, sr_inst_sht, sr_inst_cnt, sr_inst_sht, ws),
           clean => ws = win /\ win' = win, spiAge' = 1, ObserveTick
    PROVE  AnswerInv'
<1> USE Constants
<1>0. /\ RESET_N' = RESET_N /\ SPI_CS' = SPI_CS /\ sent' = sent
      /\ fresh' = fresh /\ clean' = clean /\ ~Begins
    BY DEF history, Begins
<1>1. clean' <=> sent' # <<>>
    BY <1>0 DEF AnswerInv
<1>2. PTMCH_RST_N' = 0 => NoMatch'
    BY DEF Edge160, InstEdge, Cleared, NoMatch, Stages
<1>c. csAge' = Older(csAge, CsSetup) /\ csAge \in 0..CsSetup
    BY DEF Edge160, TypeOK
<1>3. ASSUME fresh', Calm' PROVE NoMatch' /\ sr_inst_edge_n' = 1
  <2>1. ASSUME NoMatch, sr_inst_edge_n = 1, sr_inst_chk = Zero, Calm
        PROVE  NoMatch' /\ sr_inst_edge_n' = 1
    <3>1. c_inst_mch_n = 1 /\ ~MatchStarts
        BY <2>1, ClearNoHit DEF NoMatch, Stages, MatchStarts
    <3> QED
        BY <2>1, <3>1, RunEdge, PulseEdge DEF NoMatch, Stages, Calm
  <2>2. CASE Calm
    <3>1. sr_inst_chk = Zero /\ NoMatch /\ sr_inst_edge_n = 1
        BY <1>0, <1>3, <2>2, FallNotCalm DEF FrontInv, FrameInv, AnswerInv
    <3> QED
        BY <2>1, <2>2, <3>1
  <2>3. CASE ~Calm
    <3>1. FallUnderWay
        BY <1>0, <1>3, <2>3 DEF FrontInv, FrameInv
    <3>2. csAge = 4
      <4>1. ~FallUnderWay'
          BY <1>3 DEF FallUnderWay, Calm
      <4>2. SPI_CS' # 1 /\ csAge' >= 5
          BY <1>0, <1>3, <3>1, <4>1 DEF FrontInv, FrameInv, FallUnderWay
      <4>3. csAge \in 0..4
          BY <3>1 DEF FallUnderWay
      <4> QED
          BY <1>c, <4>2, <4>3 DEF Older
    <3>3. PTMCH_RST_N = 0 /\ RESET_N = 1
        BY <3>1, <3>2 DEF FallUnderWay
    <3>4. NoMatch /\ NoMatch'
        BY <3>3 DEF AnswerInv, Edge160, InstEdge, Cleared, NoMatch, Stages
    <3>5. ~MatchStarts
        BY <3>4 DEF NoMatch, Stages, MatchStarts
    <3> QED
        BY <3>3, <3>4, <3>5, PulseEdge
  <2> QED
      BY <2>2, <2>3
<1>f. ASSUME clean, fresh, Falling' PROVE Falling /\ FallCalm /\ csAge <= 2
  <2>1. csAge < 4 /\ csAge <= 2 /\ SPI_CS = 0
      BY <1>0, <1>c, <1>f DEF Falling, FallUnderWay, Older
  <2>2. FallUnderWay
      BY <1>c, <1>f, <2>1 DEF FrontInv, FrameInv
  <2> QED
      BY <1>f, <2>1, <2>2 DEF Falling, AnswerInv
<1>4. ASSUME clean', fresh', Falling' PROVE FallCalm'
    BY <1>0, <1>4, <1>f, FallEdge
<1>5. ASSUME clean', ~fresh' \/ Falling' PROVE Follows'
  <2>1. RESET_N = 1 /\ PTMCH_RST_N = 1 /\ sr_cs_edge_n = 1
    <3>1. CASE ~fresh
        BY <1>0, <1>5, <3>1 DEF FrontInv, FrameInv, Calm
    <3>2. CASE fresh
        BY <1>0, <1>5, <1>f, <3>2, FallEdge DEF Falling, FallUnderWay
    <3> QED
        BY <3>1, <3>2
  <2>2. Follows
      BY <1>0, <1>5, <1>f DEF AnswerInv
  <2>3. Still /\ ws = win /\ win' = win
      BY <1>0, <1>5 DEF WinInv, AnswerInv
  <2>4. sr_inst_cnt \in 0..InstLen /\ spiAge \in 0..1
      BY DEF TypeOK, Bit
  <2>5. sr_inst_cnt + spiAge' <= sr_inst_cnt + spiAge + 1 /\ spiAge' \in 0..1
      BY <2>4
  <2> QED
      BY <1>0, <2>1, <2>2, <2>3, <2>4, <2>5, FollowsEdge DEF FrontInv
<1> QED
    BY <1>1, <1>2, <1>3, <1>4, <1>5 DEF AnswerInv

(* AnswerInv over a bit.                                                   *)
LEMMA AnswerBit ==
    ASSUME Assumed, TypeOK, FrontInv, FrontInv', ObsType, WinInv, AnswerInv, DrivesHeld,
           NEW b \in Bit, SendBit(b), PTMCH_RST_N' = 0 => NoMatch',
           fresh => (Begins => pulses' = 0 /\ width' = 0),
           Follows' \/ fresh \/ ~clean,
           fresh => NoMatch' /\ sr_inst_edge_n' = 1 /\ NoTrigger',
           fresh => sr_inst_chk' = Zero /\ sr_inst_cnt' <= 1 /\ sr_inst_cnt' \in Nat,
           spiAge' = 0, sr_pls_cnt' \in 0..PlsTop
    PROVE  AnswerInv'
<1>1. ~fresh' /\ (clean' <=> sent' # <<>>)
    BY BitKeeps
<1>2. ASSUME clean' PROVE Follows'
  <2>1. CASE fresh
    <3>1. Begins
        BY <1>1, <1>2, <2>1 DEF Begins
    <3>2. sr_inst_cnt' + spiAge' <= sr_pls_cnt' + 1
        BY <2>1, Constants
    <3> QED
        BY <2>1, <3>1, <3>2 DEF Follows, Waiting, Lag, Unanswered, Zero, AllZero
  <2>2. CASE ~fresh
      BY <1>2, <2>2, BitKeeps
  <2> QED
      BY <2>1, <2>2
<1> QED
    BY <1>1, <1>2 DEF AnswerInv

(* Arithmetic: the pulse counter does not fall behind.                     *)
LEMMA LagKept ==
    ASSUME NEW m \in Int, NEW n \in Int, NEW k \in Int, m <= n, n <= k + 1
    PROVE  m <= k + 1
OBVIOUS

(* Arithmetic: a bit that has been counted is no longer on its way.        *)
LEMMA BitCounted ==
    ASSUME NEW m \in Int, NEW n \in Int, m <= n + 1
    PROVE  m + 0 <= n + 1
OBVIOUS

(* What Follows says, and where it says the same.                          *)
LEMMA FollowsSame ==
    ASSUME Follows, UNCHANGED <<instRegs, resetRegs, observed>>,
           sr_inst_cnt' + spiAge' <= sr_inst_cnt + spiAge,
           sr_inst_cnt \in Int, sr_inst_cnt' \in Int, spiAge \in Int, spiAge' \in Int,
           sr_pls_cnt \in Int, Empty => UNCHANGED spiRegs
    PROVE  Follows'
<1>1. /\ (sr_inst_chk' = Zero' <=> sr_inst_chk = Zero)
      /\ NoMatch' = NoMatch /\ Hit' = Hit /\ NoTrigger' = NoTrigger /\ Unanswered' = Unanswered
    BY DEF instRegs, resetRegs, plsRegs, winRegs, observed, Zero, AllZero, NoMatch, Stages,
           Hit, c_inst_mch_n, InWindow, NoTrigger, Unanswered, Opcode, AddrOf, AddrLen
<1>2. Lag => Lag'
  <2>1. sr_pls_cnt' = sr_pls_cnt
      BY DEF resetRegs, plsRegs
  <2>2. sr_inst_cnt' + spiAge' \in Int /\ sr_inst_cnt + spiAge \in Int
      OBVIOUS
  <2>3. sr_inst_cnt + spiAge <= sr_pls_cnt + 1 => sr_inst_cnt' + spiAge' <= sr_pls_cnt + 1
      BY <2>2, LagKept
  <2> QED
      BY <2>1, <2>3 DEF Lag
<1>3. Empty => Empty'
    BY DEF Empty, spiRegs, Zero, AllZero
<1>4. Pulse' = Pulse
    BY <1>1 DEF Pulse, Over, PageAhead, resetRegs, plsRegs, observed
<1>5. Waiting => Waiting'
    BY <1>1, <1>2, <1>3 DEF Waiting, resetRegs, plsRegs
<1>6. Held => Held'
    BY <1>1, <1>4 DEF Held, Over, Stages, instRegs, resetRegs, plsRegs, observed
<1> QED
    BY <1>1, <1>5, <1>6 DEF Follows

(* Every step keeps what is known of the match, the edge and the pulse.    *)
LEMMA AnswerStep ==
    ASSUME Assumed, TypeOK, TypeOK', FrontInv, FrontInv', ObsType, WinInv, AnswerInv, DrivesHeld,
           [ObservedNext]_<<vars, observed>>
    PROVE  AnswerInv'
<1> USE Constants
<1>t. /\ sr_inst_cnt \in 0..InstLen /\ spiAge \in 0..1 /\ sr_pls_cnt \in 0..PlsTop
      /\ sr_inst_cnt' \in 0..InstLen /\ sr_pls_cnt' \in 0..PlsTop
    BY DEF TypeOK, Bit
(* A step that changes no register of the pipeline.                        *)
<1>u. ASSUME UNCHANGED <<instRegs, resetRegs, spiRegs, observed, sent, clean, spiAge>>,
             fresh' /\ Calm' => fresh /\ Calm,
             clean /\ fresh' /\ Falling' => FallCalm',
             clean /\ (~fresh' \/ Falling') => Follows
      PROVE  AnswerInv'
  <2>1. clean' <=> sent' # <<>>
      BY <1>u DEF AnswerInv
  <2>2. /\ NoMatch' = NoMatch /\ PTMCH_RST_N' = PTMCH_RST_N
        /\ sr_inst_edge_n' = sr_inst_edge_n
      BY <1>u DEF NoMatch, Stages, instRegs, resetRegs, plsRegs
  <2>3. (PTMCH_RST_N' = 0 => NoMatch') /\ (fresh' /\ Calm' => NoMatch' /\ sr_inst_edge_n' = 1)
      BY <1>u, <2>2 DEF AnswerInv
  <2>4. ASSUME clean', ~fresh' \/ Falling' PROVE Follows'
    <3>1. Follows
        BY <1>u, <2>4
    <3>2. UNCHANGED <<instRegs, resetRegs, observed, spiRegs, sr_inst_cnt, spiAge>>
        BY <1>u DEF spiRegs
    <3> QED
        BY <1>t, <3>1, <3>2, FollowsSame
  <2> QED
      BY <1>u, <2>1, <2>3, <2>4 DEF AnswerInv
<1>1. CASE Tick160 /\ ObserveTick
    BY <1>1, AnswerQuiet DEF Tick160, pins
<1>2. ASSUME NEW b \in Bit, SpiRise(b), ObserveOther PROVE AnswerInv'
  <2>1. /\ SendBit(b) /\ UNCHANGED <<pins, instRegs, resetRegs>> /\ spiAge' = 0 /\ spiAge = 1
        /\ sr_inst_cnt' = IF PTMCH_RST_N = 0 THEN 0 ELSE NextCount
      BY <1>2 DEF SpiRise, SendBit
  <2>2. NoMatch' = NoMatch /\ PTMCH_RST_N' = PTMCH_RST_N
      BY <2>1 DEF NoMatch, Stages, instRegs
  <2>3. fresh => /\ NoMatch' /\ sr_inst_edge_n' = 1 /\ NoTrigger' /\ sr_inst_chk' = Zero
                 /\ sr_inst_cnt' <= 1 /\ sr_inst_cnt' \in Nat
    <3>1. fresh => /\ Calm /\ Empty /\ sr_inst_chk = Zero /\ NoTrigger
                   /\ NoMatch /\ sr_inst_edge_n = 1
        BY <2>1, BitKeeps DEF AnswerInv
    <3>2. fresh => sr_inst_cnt' = 1
        BY <2>1, <3>1 DEF Empty, NextCount, Calm
    <3> QED
        BY <2>1, <2>2, <3>1, <3>2 DEF instRegs, resetRegs, plsRegs, NoTrigger
  <2>4. ASSUME ~fresh, clean PROVE Follows'
    <3>1. Follows /\ ~Empty
        BY <2>1, <2>4, BitKeeps DEF AnswerInv
    <3>2. sr_inst_cnt' <= sr_inst_cnt + 1
        BY <1>t, <2>1 DEF NextCount
    <3>3. UNCHANGED observed
        BY <1>2, <2>1, <2>4 DEF ObserveOther, Begins, pins
    <3>4. sr_inst_cnt' + spiAge' <= sr_inst_cnt + spiAge
      <4>1. sr_inst_cnt' \in Int /\ sr_inst_cnt \in Int
          BY <1>t
      <4>2. sr_inst_cnt' + 0 <= sr_inst_cnt + 1
          BY <3>2, <4>1, BitCounted
      <4> QED
          BY <2>1, <4>2
    <3> QED
        BY <1>t, <2>1, <3>1, <3>3, <3>4, FollowsSame
  <2>5. PTMCH_RST_N' = 0 => NoMatch'
      BY <2>2 DEF AnswerInv
  <2>6. Begins => pulses' = 0 /\ width' = 0
      BY <1>2 DEF ObserveOther
  <2> QED
      BY <1>t, <2>1, <2>3, <2>4, <2>5, <2>6, AnswerBit
<1>3. ASSUME NEW b \in Bit, SpiRiseAtTick(b), ObserveTick PROVE AnswerInv'
  <2>1. /\ SendBit(b) /\ UNCHANGED pins /\ spiAge' = 0 /\ spiAge = 1
      BY <1>3 DEF SpiRiseAtTick, SendBit
  <2>2. PICK n, w : Edge160(NextCount, NextShift(b), n, w, win)
      BY <1>3 DEF SpiRiseAtTick
  <2>3. fresh => /\ NoMatch' /\ sr_inst_edge_n' = 1 /\ NoTrigger' /\ sr_inst_chk' = Zero
                 /\ sr_inst_cnt' <= 1 /\ sr_inst_cnt' \in Nat
    <3> SUFFICES ASSUME fresh
                 PROVE  /\ NoMatch' /\ sr_inst_edge_n' = 1 /\ NoTrigger' /\ sr_inst_chk' = Zero
                        /\ sr_inst_cnt' <= 1 /\ sr_inst_cnt' \in Nat
        OBVIOUS
    <3>1. /\ Calm /\ Empty /\ sr_inst_chk = Zero /\ NoTrigger
          /\ NoMatch /\ sr_inst_edge_n = 1
        BY <2>1, BitKeeps DEF AnswerInv
    <3>2. RESET_N = 1 /\ PTMCH_RST_N = 1 /\ sr_cs_edge_n = 1
        BY <3>1 DEF Calm
    <3>3. c_inst_mch_n = 1 /\ ~MatchStarts
        BY <3>1, ClearNoHit DEF NoMatch, Stages, MatchStarts
    <3>4. NoMatch' /\ sr_inst_edge_n' = 1 /\ sr_inst_cnt' = NextCount
        BY <2>2, <3>1, <3>2, <3>3, RunEdge, PulseEdge DEF NoMatch, Stages
    <3>5. NoTrigger'
        BY <2>2, <3>1, ClearNoTrigger
    <3>6. sr_inst_chk' = Zero
        BY <2>2, <3>1, LoadWhole DEF Empty, FrontInv
    <3> QED
        BY <3>1, <3>4, <3>5, <3>6 DEF NextCount, Empty
  <2>4. ASSUME ~fresh, clean PROVE Follows'
    <3>1. Follows /\ ~Empty /\ Calm /\ Still
        BY <2>1, <2>4, BitKeeps DEF AnswerInv, WinInv
    <3>2. NextCount \in 0..InstLen /\ NextCount <= sr_inst_cnt + 1
        BY <1>t DEF NextCount
    <3>3. NextCount + spiAge' <= sr_inst_cnt + spiAge + 1 /\ spiAge' \in 0..1
        BY <1>t, <2>1, <3>2
    <3>4. ~Begins /\ win' = win
        BY <2>1, <2>4 DEF Begins, pins
    <3>5. RESET_N = 1 /\ PTMCH_RST_N = 1 /\ sr_cs_edge_n = 1
        BY <3>1 DEF Calm
    <3> QED
        BY <1>3, <2>2, <3>1, <3>2, <3>3, <3>4, <3>5, FollowsEdge DEF FrontInv
  <2>5. PTMCH_RST_N' = 0 => NoMatch'
      BY <2>2 DEF Edge160, InstEdge, Cleared, NoMatch, Stages
  <2>6. Begins => pulses' = 0 /\ width' = 0
      BY <1>3 DEF ObserveTick
  <2> QED
      BY <1>t, <2>1, <2>3, <2>4, <2>5, <2>6, AnswerBit
<1>4. CASE CsFall /\ ObserveOther
  <2>1. /\ UNCHANGED <<RESET_N, instRegs, resetRegs, spiRegs, sent, clean, spiAge>>
        /\ SPI_CS = 1 /\ SPI_CS' = 0 /\ csAge' = 0
        /\ fresh' = (RESET_N = 1)
      BY <1>4 DEF CsFall
  <2>2. UNCHANGED observed
    <3>1. fresh => RESET_N = 1
        BY WholeNotReset DEF FrontInv
    <3>2. fresh => fresh'
        BY <2>1, <3>1
    <3> QED
        BY <1>4, <2>1, <3>2 DEF ObserveOther, Begins
  <2>3. fresh' => ~Calm'
    <3>1. fresh' => FallUnderWay'
        BY <2>1 DEF FrontInv, FrameInv
    <3> QED
        BY <3>1 DEF FallUnderWay, Calm
  <2>4. clean => Calm
      BY <2>1 DEF FrontInv, FrameInv, FallUnderWay
  <2>5. clean => FallCalm'
      BY <2>1, <2>4 DEF Calm, FallCalm, instRegs, resetRegs, csRegs
  <2>6. clean => Follows
    <3>1. ASSUME clean, fresh PROVE Waiting /\ sr_inst_chk = Zero
      <4>1. Empty /\ sr_inst_chk = Zero /\ NoTrigger /\ Calm
          BY <2>1, <3>1 DEF FrontInv, FrameInv, FallUnderWay
      <4>2. NoMatch /\ sr_inst_edge_n = 1
          BY <3>1, <4>1 DEF AnswerInv
      <4>3. Lag
          BY <1>t, <4>1 DEF Empty, Lag
      <4> QED
          BY <4>1, <4>2, <4>3 DEF Waiting
    <3> QED
        BY <3>1 DEF AnswerInv, Follows
  <2> QED
      BY <1>u, <2>1, <2>2, <2>3, <2>5, <2>6
<1>5. CASE CsRise /\ ObserveOther
  <2>1. /\ UNCHANGED <<RESET_N, instRegs, resetRegs, spiRegs, sent, clean, fresh, spiAge>>
        /\ SPI_CS = 0 /\ SPI_CS' = 1 /\ csAge >= 5
      BY <1>5 DEF CsRise, history, TypeOK
  <2>2. UNCHANGED observed
      BY <1>5, <2>1 DEF ObserveOther, Begins
  <2>3. ~Falling'
      BY <2>1 DEF Falling, FallUnderWay
  <2>4. fresh => Calm
      BY <2>1 DEF FrontInv, FrameInv, FallUnderWay
  <2>5. clean /\ ~fresh => Follows
      BY DEF AnswerInv
  <2> QED
      BY <1>u, <2>1, <2>2, <2>3, <2>4, <2>5
<1>6. ASSUME NEW r \in HostWrites, HostWrite(r), ObserveOther PROVE AnswerInv'
  <2>1. /\ ~clean /\ UNCHANGED <<RESET_N, SPI_CS, instRegs, resetRegs, spiRegs, spiAge>>
        /\ UNCHANGED <<csAge, sent, fresh, clean>>
      BY <1>6, HostIsDone DEF HostWrite, history
  <2>2. UNCHANGED observed /\ Calm' = Calm
      BY <1>6, <2>1 DEF ObserveOther, Begins, Calm, instRegs, resetRegs, csRegs
  <2> QED
      BY <1>u, <2>1, <2>2
<1>7. ASSUME NEW r \in HostWrites, HostWriteAtTick(r), ObserveTick PROVE AnswerInv'
  <2>1. ~clean /\ UNCHANGED <<RESET_N, SPI_CS, history>> /\ spiAge' = 1
      BY <1>7, HostIsDone DEF HostWriteAtTick
  <2> QED
      BY <1>7, <2>1, AnswerQuiet DEF HostWriteAtTick
<1>8. CASE ResetAssert
  <2>1. sent' = <<>> /\ ~fresh' /\ ~clean' /\ UNCHANGED instRegs
      BY <1>8 DEF ResetAssert
  <2>2. PTMCH_RST_N' = 0 => NoMatch'
      BY <2>1 DEF AnswerInv, NoMatch, Stages, instRegs
  <2> QED
      BY <2>1, <2>2 DEF AnswerInv
<1>9. CASE ResetRelease /\ ObserveOther
  <2>1. /\ UNCHANGED <<instRegs, resetRegs, spiRegs, sent, clean, fresh, spiAge>>
        /\ ~clean /\ ~fresh
      BY <1>9, WholeNotReset DEF ResetRelease, FrontInv, history
  <2>2. UNCHANGED observed
      BY <1>9, <2>1 DEF ObserveOther, Begins, ResetRelease
  <2> QED
      BY <1>u, <2>1, <2>2
<1>10. CASE UNCHANGED <<vars, observed>>
  <2>1. /\ UNCHANGED <<RESET_N, SPI_CS, instRegs, resetRegs, spiRegs, spiAge, csAge>>
        /\ UNCHANGED <<sent, fresh, clean, observed>>
      BY <1>10 DEF vars, pins, ages, history
  <2>2. /\ Calm' = Calm /\ Falling' = Falling /\ FallCalm' = FallCalm
      BY <2>1 DEF Calm, Falling, FallUnderWay, FallCalm, instRegs, resetRegs, csRegs
  <2>3. clean /\ fresh /\ Falling => FallCalm
      BY DEF AnswerInv
  <2>4. clean /\ (~fresh \/ Falling) => Follows
      BY DEF AnswerInv
  <2> QED
      BY <1>u, <2>1, <2>2, <2>3, <2>4
<1> QED
    BY <1>1, <1>2, <1>3, <1>4, <1>5, <1>6, <1>7, <1>8, <1>9, <1>10 DEF ObservedNext

-----------------------------------------------------------------------------

(* The inductive invariant holds when the device is switched on.           *)
LEMMA ObsInit == Assumed /\ ObservedInit => ObsInv
<1> SUFFICES ASSUME Assumed, ObservedInit PROVE ObsInv
    OBVIOUS
<1> USE Constants
<1>1. TypeOK /\ FrontInv
    BY TypeInit, FrontInit DEF ObservedInit, FrontInv
<1>2. /\ RESET_N = 0 /\ sent = <<>> /\ ~fresh /\ ~clean /\ NoMatch
      /\ \A c \in Channels : TRG_PLS[c] = 0
    BY DEF ObservedInit, Init, NoMatch, Stages
<1>3. ObsType
    BY DEF ObservedInit, ObsType, Settled, Latency, PageAhead
<1> QED
    BY <1>1, <1>2, <1>3 DEF ObsInv, WinInv, DrivesHeld, OneTrigger, AnswerInv, NeverTwice,
                            TriggerIsCommand, PageContract

(* Every step keeps the inductive invariant.                               *)
LEMMA ObsStep == ObsInv /\ [ObservedNext]_<<vars, observed>> => ObsInv'
<1> SUFFICES ASSUME ObsInv, [ObservedNext]_<<vars, observed>> PROVE ObsInv'
    OBVIOUS
<1>0. [Next]_vars /\ Assumed'
    BY ObservedIsNext DEF ObsInv, Assumed
<1>1. TypeOK' /\ FrontInv'
    BY <1>0, TypeStep, PipelineStep, FrameStep DEF ObsInv, FrontInv
<1>2. ObsType'
    BY ObsTypeStep DEF ObsInv
<1>3. WinInv'
    BY <1>0, WinStep DEF ObsInv
<1>4. DrivesHeld' /\ OneTrigger'
    BY <1>0, DrivesStep DEF ObsInv
<1>5. AnswerInv'
    BY <1>1, AnswerStep DEF ObsInv
<1>6. NeverTwice' /\ TriggerIsCommand' /\ PageContract'
    BY OutputsStep DEF ObsInv
<1> QED
    BY <1>0, <1>1, <1>2, <1>3, <1>4, <1>5, <1>6 DEF ObsInv

(* The inductive invariant holds in every instance with a pulse shorter    *)
(* than the instruction and windows written beforehand.                    *)
THEOREM ObservedInvariant == Assumed /\ ObservedSpec => []ObsInv
BY ObsInit, ObsStep, PTL DEF ObservedSpec

(* However soon the next frame follows, no instruction is answered twice   *)
(* and no pulse is longer than PlsTop clocks.                              *)
THEOREM NeverTwiceAlways == Assumed /\ ObservedSpec => []NeverTwice
<1>1. ObsInv => NeverTwice
    BY DEF ObsInv
<1> QED
    BY <1>1, ObservedInvariant, PTL

(* A trigger is up only for a complete instruction of its class whose page *)
(* is inside the window that the host wrote.                               *)
THEOREM TriggerIsCommandAlways == Assumed /\ ObservedSpec => []TriggerIsCommand
<1>1. ObsInv => TriggerIsCommand
    BY DEF ObsInv
<1> QED
    BY <1>1, ObservedInvariant, PTL

(* PAGE_ADDR is stable from PageAhead clocks before a trigger rises to its *)
(* end, or to the reset of the next frame: what the page log relies on.    *)
THEOREM PageContractAlways == Assumed /\ ObservedSpec => []PageContract
<1>1. ObsInv => PageContract
    BY DEF ObsInv
<1> QED
    BY <1>1, ObservedInvariant, PTL

-----------------------------------------------------------------------------
(* The front end implements the abstract detector InstDetect.              *)

UpNow == {c \in Channels : TRG_PLS[c] = 1}

(* Outside the bits, the resets and the writes, an edge raises a trigger,  *)
(* lowers it, or does nothing the detector can see.                        *)
LEMMA DetectorEdge ==
    ASSUME TypeOK, FrontInv, WinInv, ObsType, AnswerInv, DrivesHeld,
           NEW cp, NEW sp, NEW cs, NEW ss, NEW ws, Edge160(cp, sp, cs, ss, ws),
           ObserveTick, ~Begins, UNCHANGED <<sent, clean, win>>
    PROVE  [Detector!Next]_(Detector!vars)
<1> USE Constants
<1>0. clean \in BOOLEAN /\ pulses \in Nat
    BY DEF TypeOK, ObsType
<1>1. CASE NoTrigger'
  <2>1. UpNow' = {} /\ pulses' = pulses
      BY <1>1, SeesNone DEF UpNow, NoTrigger
  <2>2. CASE UpNow = {}
      BY <2>1, <2>2 DEF UpNow, Detector!vars
  <2>3. CASE UpNow # {}
    <3>1. Detector!Lower
        BY <2>1, <2>3 DEF UpNow, Detector!Lower
    <3> QED
        BY <3>1 DEF Detector!Next
  <2> QED
      BY <2>2, <2>3
<1>2. CASE ~NoTrigger'
  <2>1. PICK c \in Channels : TRG_PLS'[c] = 1
      BY <1>2 DEF NoTrigger
  <2>2. UpNow' = {c} /\ UpNow \subseteq {c}
      BY <2>1, TriggerSame DEF UpNow
  <2>3. CASE UpNow = {}
    <3>1. NoTrigger
        BY <2>3 DEF UpNow, NoTrigger
    <3>2. CASE clean
      <4>1. pulses' = 1 /\ pulses = 0
          BY <2>1, <3>1, <3>2, UpCounts
      <4>2. Complete /\ InWindow(SentWord, c, win)
          BY <2>1, <3>2, UpAnswers
      <4>3. Detector!Raise(c)
          BY <2>2, <2>3, <3>2, <4>1, <4>2 DEF UpNow, Detector!Raise, Complete,
              SentWord, Received, Detector!Received
      <4> QED
          BY <4>3 DEF Detector!Next
    <3>3. CASE ~clean
      <4>1. Detector!Stray(c)
          BY <2>2, <2>3, <3>3 DEF UpNow, Detector!Stray
      <4> QED
          BY <4>1 DEF Detector!Next
    <3> QED
        BY <3>2, <3>3
  <2>4. CASE UpNow = {c}
    <3>1. clean => pulses = 1 /\ pulses' = 1
        BY <2>1, <2>4, UpCounts DEF UpNow, NoTrigger
    <3> QED
        BY <2>2, <2>4, <3>1 DEF UpNow, Detector!vars
  <2> QED
      BY <2>2, <2>3, <2>4
<1> QED
    BY <1>1, <1>2

(* A bit between two edges, or one that changes no trigger.                *)
LEMMA DetectorBit ==
    ASSUME TypeOK, FrontInv, AnswerInv, TriggerIsCommand,
           NEW b \in Bit, SendBit(b), win' = win, UpNow' = UpNow,
           IF Begins THEN pulses' = 0 ELSE pulses' = pulses
    PROVE  [Detector!Next]_(Detector!vars)
<1>1. CASE fresh
  <2>1. UpNow = {} /\ sent' = <<b>> /\ Begins
      BY <1>1, BitKeeps DEF UpNow, NoTrigger, Begins
  <2>2. pulses' = 0 /\ clean'
      BY <2>1 DEF Begins
  <2>3. clean' = TRUE
      BY <1>1 DEF SendBit
  <2>4. Detector!Begin(b)
      BY <2>1, <2>2, <2>3 DEF Detector!Begin, UpNow
  <2> QED
      BY <2>4 DEF Detector!Next, Bit, Detector!Bit
<1>2. CASE ~fresh
  <2>1. clean' = clean /\ pulses' = pulses
      BY <1>2 DEF SendBit, TypeOK, Begins
  <2>2. CASE sent' = sent
      BY <2>1, <2>2 DEF UpNow, Detector!vars
  <2>3. CASE sent' # sent
    <3>1. clean /\ Len(sent) < InstLen /\ sent' = Append(sent, b)
        BY <1>2, <2>3 DEF SendBit
    <3>2. Detector!NextBit(b)
        BY <2>1, <3>1 DEF Detector!NextBit, UpNow
    <3> QED
        BY <3>2 DEF Detector!Next, Bit, Detector!Bit
  <2> QED
      BY <2>2, <2>3
<1> QED
    BY <1>1, <1>2

(* A step of the front end is a step of the abstract detector or a         *)
(* stutter.                                                                *)
LEMMA DetectorStep ==
    ObsInv /\ [ObservedNext]_<<vars, observed>> => [Detector!Next]_(Detector!vars)
<1> SUFFICES ASSUME ObsInv, [ObservedNext]_<<vars, observed>>
             PROVE  [Detector!Next]_(Detector!vars)
    OBVIOUS
<1> USE DEF ObsInv
<1>u. ASSUME UNCHANGED <<sent, clean, win, TRG_PLS, pulses>>
      PROVE  [Detector!Next]_(Detector!vars)
    BY <1>u DEF Detector!vars
<1>w. ASSUME sent = <<>>, ~clean, UNCHANGED <<sent, clean>>, win' \in Windows,
             \A c, d \in Channels : TRG_PLS'[c] = 1 /\ TRG_PLS'[d] = 1 => c = d
      PROVE  [Detector!Next]_(Detector!vars)
  <2>1. UpNow' \in {{}} \union {{c} : c \in Channels}
    <3>1. CASE UpNow' = {}
        BY <3>1
    <3>2. CASE UpNow' # {}
      <4>1. PICK c \in Channels : TRG_PLS'[c] = 1
          BY <3>2 DEF UpNow
      <4>2. UpNow' = {c}
          BY <1>w, <4>1 DEF UpNow
      <4> QED
          BY <4>2
    <3> QED
        BY <3>1, <3>2
  <2>2. Detector!Program
      BY <1>w, <2>1 DEF Detector!Program, UpNow
  <2> QED
      BY <2>2 DEF Detector!Next
<1>n. [Next]_vars
    BY ObservedIsNext
<1>1. CASE Tick160 /\ ObserveTick
  <2>1. ~Begins /\ UNCHANGED <<sent, clean, win>>
      BY <1>1 DEF Tick160, history, pins, Begins
  <2> QED
      BY <1>1, <2>1, DetectorEdge DEF Tick160
<1>2. ASSUME NEW b \in Bit, SpiRise(b), ObserveOther PROVE [Detector!Next]_(Detector!vars)
  <2>1. SendBit(b) /\ win' = win /\ UpNow' = UpNow /\ RESET_N' = RESET_N
      BY <1>2 DEF SpiRise, pins, resetRegs, plsRegs, UpNow
  <2>2. IF Begins THEN pulses' = 0 ELSE pulses' = pulses
      BY <1>2, <2>1 DEF ObserveOther, observed
  <2> QED
      BY <2>1, <2>2, DetectorBit
<1>3. ASSUME NEW b \in Bit, SpiRiseAtTick(b), ObserveTick
      PROVE  [Detector!Next]_(Detector!vars)
  <2>1. SendBit(b) /\ win' = win
      BY <1>3 DEF SpiRiseAtTick, pins
  <2>2. PICK n, w : Edge160(NextCount, NextShift(b), n, w, win)
      BY <1>3 DEF SpiRiseAtTick
  <2>3. CASE ~fresh /\ (Complete \/ ~clean)
    <3>1. sent' = sent /\ clean' = clean /\ ~Begins
        BY <2>1, <2>3, BitKeeps DEF SendBit, TypeOK, Begins
    <3> QED
        BY <1>3, <2>1, <2>2, <3>1, DetectorEdge
  <2>4. CASE fresh \/ (clean /\ ~Complete)
    <3>1. sr_inst_chk = Zero
        BY <2>1, <2>4, BitKeeps, HeldThen DEF FrontInv, HeldIsSent
    <3>2. NoTrigger /\ NoTrigger'
        BY <2>1, <2>2, <2>4, <3>1, BitKeeps, ClearNoTrigger DEF NoTrigger, TriggerIsCommand
    <3>3. UpNow' = UpNow
        BY <3>2 DEF NoTrigger, UpNow
    <3>4. IF Begins THEN pulses' = 0 ELSE pulses' = pulses
        BY <1>3, <3>2, SeesNone DEF ObserveTick
    <3> QED
        BY <2>1, <3>3, <3>4, DetectorBit
  <2> QED
      BY <2>3, <2>4
<1>4. CASE CsFall /\ ObserveOther
  <2>1. UNCHANGED <<sent, clean, win, TRG_PLS, RESET_N>> /\ fresh' = (RESET_N = 1)
      BY <1>4 DEF CsFall, resetRegs, plsRegs
  <2>2. fresh => fresh'
      BY <2>1, WholeNotReset DEF FrontInv
  <2> QED
      BY <1>4, <1>u, <2>1, <2>2 DEF ObserveOther, observed, Begins
<1>5. CASE CsRise /\ ObserveOther
    BY <1>5, <1>u DEF CsRise, ObserveOther, observed, Begins, history, resetRegs, plsRegs
<1>6. ASSUME NEW r \in HostWrites, HostWrite(r) PROVE [Detector!Next]_(Detector!vars)
  <2>1. sent = <<>> /\ ~clean /\ UNCHANGED <<sent, clean, TRG_PLS>>
      BY <1>6, HostIsDone DEF HostWrite, history, resetRegs, plsRegs
  <2>2. win' \in Windows
      BY <1>n, TypeStep DEF TypeOK
  <2> QED
      BY <1>w, <2>1, <2>2 DEF OneTrigger
<1>7. ASSUME NEW r \in HostWrites, HostWriteAtTick(r) PROVE [Detector!Next]_(Detector!vars)
  <2>1. sent = <<>> /\ ~clean /\ UNCHANGED <<sent, clean>>
      BY <1>7, HostIsDone DEF HostWriteAtTick, history
  <2>2. win' \in Windows
      BY <1>n, TypeStep DEF TypeOK
  <2>3. OneTrigger'
      BY <1>n, DrivesStep
  <2> QED
      BY <1>w, <2>1, <2>2, <2>3 DEF OneTrigger
<1>8. CASE ResetAssert
  <2>1. /\ sent' = <<>> /\ clean' = FALSE /\ win' = ResetWindows
        /\ UpNow' = {}
      BY <1>8 DEF ResetAssert, PlsReset, UpNow
  <2>2. Detector!Cut
      BY <2>1 DEF Detector!Cut, UpNow
  <2> QED
      BY <2>2 DEF Detector!Next
<1>9. CASE ResetRelease /\ ObserveOther
    BY <1>9, <1>u DEF ResetRelease, ObserveOther, observed, Begins, history, resetRegs, plsRegs
<1>10. CASE UNCHANGED <<vars, observed>>
    BY <1>10, <1>u DEF vars, observed, pins, history, resetRegs, plsRegs
<1> QED
    BY <1>1, <1>2, <1>3, <1>4, <1>5, <1>6, <1>7, <1>8, <1>9, <1>10 DEF ObservedNext

(* The front end starts where the abstract detector does.                  *)
LEMMA DetectorInit == ObservedInit => Detector!Init
<1> SUFFICES ASSUME ObservedInit PROVE Detector!Init
    OBVIOUS
<1>1. sent = <<>> /\ clean = FALSE /\ win = ResetWindows /\ UpNow = {}
    BY DEF ObservedInit, Init, UpNow
<1> QED
    BY <1>1 DEF Detector!Init, UpNow

(* Clocks, synchronisers and the late frame reset do not show: what the    *)
(* front end does with its trigger outputs is what InstDetect promises.    *)
THEOREM DetectorImplemented == Assumed /\ ObservedSpec => ImplementsDetector
<1>1. ObservedInit => Detector!Init
    BY DetectorInit
<1>2. ObsInv /\ [ObservedNext]_<<vars, observed>> => [Detector!Next]_(Detector!vars)
    BY DetectorStep
<1> QED
    BY <1>1, <1>2, ObservedInvariant, PTL DEF ObservedSpec, ImplementsDetector, Detector!Spec

(***************************************************************************)
(* The front end answers in time: Settled edges after the last bit of an   *)
(* instruction it has given exactly one pulse, PlsTop edges wide, if the   *)
(* instruction is a watched one, and none otherwise.                       *)
(*                                                                         *)
(* The argument.  From the last bit on every edge moves the instruction    *)
(* one register further: Arrives for the synchroniser of the count, up to  *)
(* the instruction register, and Reached for what follows, which Held      *)
(* says.  What is counted then stays, although the next frame clears the   *)
(* registers.                                                              *)
(***************************************************************************)
Whole == clean /\ ~fresh /\ Complete

(* How far the full count and the instruction have got.                    *)
Arrives ==
    /\ doneAge >= 1 => ar_inst_cnt_160M_1d = InstLen
    /\ doneAge >= 2 => sr_inst_cnt_160M_2d = InstLen
    /\ doneAge >= 3 => sr_inst_cnt_160M_3d = InstLen
    /\ doneAge >= 4 => sr_inst_cnt_160M_sync = InstLen
    /\ doneAge >= 5 => sr_inst_chk = sr_inst_sht

(* How many edges after that the match has got, Settled when it is over.   *)
Reached ==
    IF ar_inst_mch_n_1d = 1 THEN 0
    ELSE IF sr_inst_mch_n_2d = 1 THEN 1
    ELSE IF sr_inst_mch_n_3d = 1 THEN 2
    ELSE IF sr_inst_edge_n = 0 THEN 3
    ELSE IF sr_trg_pls = 0 /\ pulses = 1 THEN Settled
    ELSE 4 + sr_pls_cnt

TimeInv ==
    /\ clean /\ ~fresh /\ ~Complete => doneAge = 0
    /\ Whole => Arrives
    /\ Whole /\ Matches /\ doneAge >= 5 => doneAge <= 5 + Reached

(* A pulse is counted for a matching frame only, and what was counted in   *)
(* time is not counted again.                                              *)
Answered ==
    /\ clean /\ pulses > 0 => Complete /\ Matches
    /\ clean /\ doneAge > 0 => Complete

InTimeInv == ObsInv /\ TimeInv /\ Answered /\ PulseInTime
-----------------------------------------------------------------------------

(* A watched instruction in the register matches and is being answered.    *)
LEMMA MatchedHit ==
    TypeOK /\ FrontInv /\ WinInv /\ AnswerInv /\ Whole /\ Matches /\ sr_inst_chk = sr_inst_sht
        => Hit /\ Held
<1> SUFFICES ASSUME TypeOK, FrontInv, WinInv, AnswerInv, Whole, Matches,
                    sr_inst_chk = sr_inst_sht
             PROVE  Hit /\ Held
    OBVIOUS
<1>1. sr_inst_chk = SentWord /\ sr_win_sync = win
    BY DEF Whole, FrontInv, FrameInv, InStep, WinInv, AnswerInv, Still
<1>2. PICK c \in Channels : InWindow(SentWord, c, win)
    BY DEF Matches
<1>3. Hit
    BY <1>1, <1>2 DEF Hit, c_inst_mch_n
<1>4. sr_inst_chk # Zero
    BY <1>3, ClearNoHit DEF Hit
<1>5. Held
    BY <1>4 DEF Whole, AnswerInv, Follows
<1> QED
    BY <1>3, <1>5

(* The count and the instruction move on.                                  *)
LEMMA ArrivesEdge ==
    ASSUME TypeOK, FrontInv, ObsType, Whole, Arrives,
           NEW ss, NEW ws, Edge160(sr_inst_cnt, sr_inst_sht, sr_inst_cnt, ss, ws),
           ObserveTick, ~Begins
    PROVE  Arrives' /\ doneAge' = Older(doneAge, Settled)
<1> USE Constants
<1>1. doneAge' = Older(doneAge, Settled) /\ doneAge \in 0..Settled
    BY DEF ObserveTick, Whole, ObsType
<1>2. Calm /\ sr_inst_cnt = InstLen
    BY DEF Whole, FrontInv, FrameInv, InStep, Complete
<1>3. /\ ar_inst_cnt_160M_1d' = InstLen /\ sr_inst_sht' = sr_inst_sht
      /\ sr_inst_cnt_160M_2d' = ar_inst_cnt_160M_1d
      /\ sr_inst_cnt_160M_3d' = sr_inst_cnt_160M_2d
      /\ sr_inst_cnt_160M_sync' =
           DiffDetect(sr_inst_cnt_160M_2d, sr_inst_cnt_160M_3d, sr_inst_cnt_160M_sync)
      /\ sr_inst_chk' = IF CountFull
                        THEN DiffDetect(sr_inst_sht_160M_2d, sr_inst_sht_160M_3d, sr_inst_chk)
                        ELSE sr_inst_chk
    BY <1>2 DEF Edge160, InstEdge, Calm, Cleared, FrameReset
<1>4. CASE doneAge' = doneAge + 1
  <2>1. doneAge' >= 4 => sr_inst_cnt_160M_sync' = InstLen
      BY <1>1, <1>3, <1>4 DEF Arrives, DiffDetect
  <2>2. doneAge' >= 5 => sr_inst_chk' = sr_inst_sht'
    <3>1. SUFFICES ASSUME doneAge >= 4 PROVE sr_inst_chk' = sr_inst_sht'
        BY <1>1, <1>4
    <3>2. sr_inst_cnt_160M_sync = InstLen
        BY <1>1, <3>1 DEF Arrives
    <3>3. CountFull /\ sr_inst_sht_160M_2d = sr_inst_sht /\ sr_inst_sht_160M_3d = sr_inst_sht
        BY <3>2 DEF CountFull, FrontInv, PipelineInv
    <3> QED
        BY <1>3, <3>3 DEF DiffDetect
  <2> QED
      BY <1>1, <1>3, <1>4, <2>1, <2>2 DEF Arrives
<1>5. CASE doneAge = Settled
  <2>1. doneAge >= 1 /\ doneAge >= 2 /\ doneAge >= 3 /\ doneAge >= 4 /\ doneAge >= 5
      BY <1>5 DEF Settled, Latency
  <2>2. /\ ar_inst_cnt_160M_1d = InstLen /\ sr_inst_cnt_160M_2d = InstLen
        /\ sr_inst_cnt_160M_3d = InstLen /\ sr_inst_cnt_160M_sync = InstLen
      BY <2>1 DEF Arrives
  <2>3. CountFull /\ sr_inst_sht_160M_2d = sr_inst_sht /\ sr_inst_sht_160M_3d = sr_inst_sht
      BY <2>2 DEF CountFull, FrontInv, PipelineInv
  <2> QED
      BY <1>1, <1>3, <2>2, <2>3 DEF Arrives, DiffDetect
<1> QED
    BY <1>1, <1>4, <1>5 DEF Older, Settled, Latency

(* The match moves on by a stage.                                          *)
LEMMA ReachedEdge ==
    ASSUME TypeOK, ObsType, FrontInv, AnswerInv, DrivesHeld, clean, Held, Hit, Held', Hit',
           RESET_N = 1, PTMCH_RST_N = 1, sr_cs_edge_n = 1,
           NEW cp, NEW sp, NEW cs, NEW ss, NEW ws, Edge160(cp, sp, cs, ss, ws),
           ObserveTick, ~Begins
    PROVE  Reached' = Settled \/ Reached' = Reached + 1
<1> USE Constants
<1>1. /\ ar_inst_mch_n_1d' = 0
      /\ sr_inst_mch_n_2d' = ar_inst_mch_n_1d
      /\ sr_inst_mch_n_3d' = sr_inst_mch_n_2d
      /\ sr_inst_edge_n' = IF MatchStarts THEN 0 ELSE 1
      /\ sr_trg_pls' = IF sr_pls_cnt = PlsTop THEN 0 ELSE 1
      /\ sr_pls_cnt' = IF sr_inst_edge_n = 0 THEN 0
                       ELSE IF sr_pls_cnt = PlsTop THEN sr_pls_cnt ELSE sr_pls_cnt + 1
      /\ sr_pls_cnt \in 0..PlsTop
    BY RunEdge, PulseEdge DEF Hit, TypeOK
<1>2. CASE ~Stages(0, 0, 0)
    BY <1>1, <1>2 DEF Held, NoMatch, Stages, MatchStarts, Reached
<1>3. CASE Stages(0, 0, 0) /\ sr_inst_edge_n = 0
  <2>1. sr_inst_edge_n' = 1 /\ Stages(0, 0, 0)' /\ sr_pls_cnt' = 0
      BY <1>1, <1>3 DEF Stages, MatchStarts
  <2> QED
      BY <1>3, <2>1 DEF Reached, Stages
<1>4. CASE Stages(0, 0, 0) /\ sr_inst_edge_n = 1
  <2>1. sr_inst_edge_n' = 1 /\ Stages(0, 0, 0)'
      BY <1>1, <1>4 DEF Stages, MatchStarts
  <2>2. Pulse /\ Pulse'
      BY <1>4, <2>1 DEF Held, NoMatch, Stages
  <2>3. CASE sr_pls_cnt = PlsTop
    <3>1. sr_pls_cnt' = PlsTop /\ sr_trg_pls' = 0
        BY <1>1, <1>4, <2>3
    <3>2. pulses' = 1
        BY <2>2, <3>1 DEF Pulse
    <3> QED
        BY <2>1, <3>1, <3>2 DEF Reached, Stages
  <2>4. CASE sr_pls_cnt # PlsTop
    <3>1. sr_pls_cnt' = sr_pls_cnt + 1 /\ sr_trg_pls' = 1
        BY <1>1, <1>4, <2>4
    <3>2. ~(sr_trg_pls = 0 /\ pulses = 1)
        BY <2>2, <2>4 DEF Pulse, Over, Unanswered
    <3> QED
        BY <1>1, <1>4, <2>1, <3>1, <3>2 DEF Reached, Stages
  <2> QED
      BY <2>3, <2>4
<1> QED
    BY <1>2, <1>3, <1>4 DEF Held

(* The end of it.                                                          *)
LEMMA ReachedEnd ==
    ASSUME TypeOK, Held, Hit, PlsTop + 6 <= Reached
    PROVE  pulses = 1 /\ width = PlsTop
<1> USE Constants
<1>1. sr_pls_cnt \in 0..PlsTop
    BY DEF TypeOK
<1>2. 4 + sr_pls_cnt < PlsTop + 6
    BY <1>1
<1>3. ar_inst_mch_n_1d # 1
    BY DEF Reached
<1>4. sr_inst_mch_n_2d # 1
    BY <1>3 DEF Reached
<1>5. sr_inst_mch_n_3d # 1
    BY <1>3, <1>4 DEF Reached
<1>6. sr_inst_edge_n # 0
    BY <1>3, <1>4, <1>5 DEF Reached
<1>7. sr_trg_pls = 0 /\ pulses = 1
    BY <1>1, <1>2, <1>3, <1>4, <1>5, <1>6 DEF Reached
<1> QED
    BY <1>3, <1>4, <1>5, <1>6, <1>7 DEF Held, NoMatch, Stages, Pulse, Unanswered

(* The place of the match lies within the time allowed.                    *)
LEMMA ReachedType == TypeOK => Reached \in Nat /\ Reached <= Settled
<1> SUFFICES ASSUME TypeOK PROVE Reached \in Nat /\ Reached <= Settled
    OBVIOUS
<1>1. sr_pls_cnt \in 0..PlsTop
    BY DEF TypeOK
<1> QED
    BY <1>1, Constants DEF Reached, Settled, Latency

(* Arithmetic: the match gains a step with every edge.                     *)
LEMMA KeepsPace ==
    ASSUME NEW d \in Nat, NEW e \in Nat, NEW r \in Nat, NEW q \in Nat, NEW top \in Nat,
           d <= 5 + r, e <= d + 1, e <= top, q = top \/ q = r + 1
    PROVE  e <= 5 + q
OBVIOUS

(* Arithmetic: the instruction is loaded five edges after the last bit.    *)
LEMMA SetsOut == ASSUME NEW q \in Nat PROVE 5 <= 5 + q
OBVIOUS

(* One edge in a frame that is complete before it.                         *)
LEMMA TimeEdge ==
    ASSUME InTimeInv, ObsInv', Whole, Whole', UNCHANGED <<sent, win>>,
           NEW ss, Edge160(sr_inst_cnt, sr_inst_sht, sr_inst_cnt, ss, win),
           ObserveTick, ~Begins
    PROVE  TimeInv'
<1> USE Constants DEF InTimeInv, ObsInv
<1>0. Arrives
    BY DEF TimeInv
<1>1. Arrives' /\ doneAge' = Older(doneAge, Settled) /\ doneAge \in 0..Settled
    BY <1>0, ArrivesEdge DEF ObsType
<1>2. ASSUME Matches', doneAge' >= 5 PROVE doneAge' <= 5 + Reached'
  <2>1. Matches
      BY <1>2 DEF Matches, SentWord, InWindow, Opcode, AddrOf, AddrLen
  <2>2. RESET_N = 1 /\ PTMCH_RST_N = 1 /\ sr_cs_edge_n = 1
      BY DEF Whole, FrontInv, FrameInv, Calm
  <2>3. Hit' /\ Held'
    <3>1. (TypeOK /\ FrontInv /\ WinInv /\ AnswerInv /\ Whole /\ Matches
              /\ sr_inst_chk = sr_inst_sht)'
        BY <1>1, <1>2 DEF Arrives
    <3> QED
        BY <3>1, MatchedHit, PTL
  <2>4. (Reached \in Nat)'
    <3>1. TypeOK'
        OBVIOUS
    <3> QED
        BY <3>1, ReachedType, PTL
  <2>5. CASE doneAge >= 5
    <3>1. Hit /\ Held
        BY <1>0, <2>1, <2>5, MatchedHit DEF Arrives
    <3>2. doneAge <= 5 + Reached
        BY <2>1, <2>5 DEF TimeInv
    <3>3. Reached' = Settled \/ Reached' = Reached + 1
        BY <2>2, <2>3, <3>1, ReachedEdge DEF Whole
    <3>4. doneAge' \in Nat /\ doneAge' <= doneAge + 1 /\ doneAge' <= Settled /\ Settled \in Nat
        BY <1>1 DEF Older, Settled, Latency
    <3> QED
        BY <1>1, <2>4, <3>2, <3>3, <3>4, ReachedType, KeepsPace
  <2>6. CASE ~(doneAge >= 5)
    <3>1. doneAge' = 5
        BY <1>1, <1>2, <2>6 DEF Older
    <3> QED
        BY <2>4, <3>1, SetsOut
  <2> QED
      BY <2>5, <2>6
<1> QED
    BY <1>1, <1>2 DEF TimeInv, Whole

(* Over any other step nothing moves, unless a frame begins or is cut.     *)
LEMMA TimeKept ==
    ASSUME TimeInv, UNCHANGED <<win, sent, clean, instRegs, resetRegs, observed>>,
           fresh => fresh', clean /\ ~fresh => sr_inst_sht' = sr_inst_sht
    PROVE  TimeInv'
<1>1. /\ Complete' = Complete /\ Matches' = Matches /\ Reached' = Reached
      /\ doneAge' = doneAge
    BY DEF Complete, Matches, InWindow, SentWord, Opcode, AddrOf, AddrLen, Reached, Settled,
           Latency, instRegs, resetRegs, plsRegs, observed
<1>2. Whole' => Whole
    BY <1>1 DEF Whole
<1>3. Whole' => (Arrives => Arrives')
    BY <1>1, <1>2 DEF Arrives, Whole, instRegs, resetRegs
<1>4. ~fresh' => ~fresh
    OBVIOUS
<1>5. clean' = clean
    OBVIOUS
<1> QED
    BY <1>1, <1>2, <1>3, <1>4, <1>5 DEF TimeInv

(* Every step keeps the instruction on time.                               *)
LEMMA TimeStep ==
    ASSUME InTimeInv, ObsInv', [ObservedNext]_<<vars, observed>>
    PROVE  TimeInv'
<1> USE Constants DEF InTimeInv, ObsInv
<1>b. ASSUME Begins \/ ~clean' \/ fresh', doneAge' = 0 \/ ~Begins PROVE TimeInv'
  <2>1. clean' /\ ~fresh' => doneAge' = 0
      BY <1>b
  <2> QED
      BY <2>1 DEF TimeInv, Whole, Arrives
<1>e. ASSUME ~fresh, clean, ~Complete, ObserveTick \/ ObserveOther, ~Begins,
             ObserveTick \/ ~(RESET_N = 1 /\ RESET_N' = 0)
      PROVE  TimeInv'
  <2>1. doneAge' = doneAge /\ doneAge = 0
      BY <1>e DEF ObserveTick, ObserveOther, observed, TimeInv
  <2> QED
      BY <2>1 DEF TimeInv, Arrives
<1>1. CASE Tick160 /\ ObserveTick
  <2>1. UNCHANGED <<sent, clean, fresh, win>> /\ ~Begins
      BY <1>1 DEF Tick160, history, pins, Begins
  <2>2. CASE fresh \/ ~clean
      BY <1>b, <2>1, <2>2
  <2>3. CASE ~fresh /\ clean /\ ~Complete
      BY <1>1, <1>e, <2>1, <2>3
  <2>4. CASE Whole
    <3>1. Whole'
        BY <2>1, <2>4 DEF Whole, Complete
    <3> QED
        BY <1>1, <2>1, <2>4, <3>1, TimeEdge DEF Tick160
  <2> QED
      BY <2>2, <2>3, <2>4 DEF Whole
<1>2. ASSUME NEW b \in Bit, SpiRise(b), ObserveOther PROVE TimeInv'
  <2>1. SendBit(b) /\ UNCHANGED <<instRegs, resetRegs, win, RESET_N>>
      BY <1>2 DEF SpiRise, pins
  <2>2. CASE fresh
    <3>1. Begins
        BY <2>1, <2>2, BitKeeps DEF Begins
    <3> QED
        BY <1>2, <1>b, <3>1 DEF ObserveOther
  <2>3. CASE ~fresh /\ ~clean
      BY <1>b, <2>1, <2>3, BitKeeps DEF Begins
  <2>4. CASE ~fresh /\ clean /\ ~Complete
      BY <1>2, <1>e, <2>1, <2>4 DEF Begins
  <2>5. CASE ~fresh /\ clean /\ Complete
    <3>1. sent' = sent /\ clean' = clean /\ ~Begins
        BY <2>1, <2>5, BitKeeps DEF SendBit, TypeOK, Begins
    <3>2. UNCHANGED observed
        BY <1>2, <2>1, <3>1 DEF ObserveOther
    <3>3. sr_inst_sht' = sr_inst_sht
        BY <1>2, <2>5 DEF SpiRise, NextShift, FrontInv, FrameInv, InStep, Calm, Complete
    <3> QED
        BY <2>1, <2>5, <3>1, <3>2, <3>3, TimeKept
  <2> QED
      BY <2>2, <2>3, <2>4, <2>5
<1>3. ASSUME NEW b \in Bit, SpiRiseAtTick(b), ObserveTick PROVE TimeInv'
  <2>1. SendBit(b) /\ win' = win
      BY <1>3 DEF SpiRiseAtTick, pins
  <2>2. PICK n \in TornCount(sr_inst_cnt, NextCount), w \in Torn(sr_inst_sht, NextShift(b)) :
            Edge160(NextCount, NextShift(b), n, w, win)
      BY <1>3 DEF SpiRiseAtTick
  <2>3. CASE fresh
    <3>1. Begins
        BY <2>1, <2>3, BitKeeps DEF Begins
    <3> QED
        BY <1>3, <1>b, <3>1 DEF ObserveTick
  <2>4. CASE ~fresh /\ ~clean
      BY <1>b, <2>1, <2>4, BitKeeps DEF Begins
  <2>5. CASE ~fresh /\ clean /\ ~Complete
      BY <1>3, <1>e, <2>5 DEF Begins
  <2>6. CASE ~fresh /\ clean /\ Complete
    <3>1. sent' = sent /\ ~Begins /\ Whole /\ Whole'
        BY <2>1, <2>6, BitKeeps DEF Begins, Whole, Complete
    <3>2. NextCount = sr_inst_cnt /\ NextShift(b) = sr_inst_sht /\ n = sr_inst_cnt
        BY <2>2, <2>6 DEF NextCount, NextShift, FrontInv, FrameInv, InStep, Complete, TornCount
    <3> QED
        BY <1>3, <2>1, <2>2, <3>1, <3>2, TimeEdge
  <2> QED
      BY <2>3, <2>4, <2>5, <2>6
<1>4. CASE CsFall /\ ObserveOther
  <2>1. (fresh' = (RESET_N = 1)) /\ clean' = clean
      BY <1>4 DEF CsFall
  <2>2. fresh' \/ ~clean'
      BY <2>1, WholeNotReset DEF FrontInv
  <2>3. fresh => fresh'
      BY <2>1, WholeNotReset DEF FrontInv
  <2> QED
      BY <1>b, <2>2, <2>3 DEF Begins
<1>5. CASE CsRise /\ ObserveOther
  <2>1. UNCHANGED <<win, sent, clean, fresh, RESET_N, instRegs, resetRegs, sr_inst_sht>>
      BY <1>5 DEF CsRise, history, spiRegs
  <2>2. UNCHANGED observed
      BY <1>5, <2>1 DEF ObserveOther, Begins
  <2> QED
      BY <2>1, <2>2, TimeKept
<1>6. ASSUME NEW r \in HostWrites, HostWrite(r) PROVE TimeInv'
    BY <1>b, <1>6, HostIsDone DEF HostWrite, history, Begins
<1>7. ASSUME NEW r \in HostWrites, HostWriteAtTick(r) PROVE TimeInv'
    BY <1>b, <1>7, HostIsDone DEF HostWriteAtTick, history, Begins
<1>8. CASE ResetAssert
    BY <1>b, <1>8 DEF ResetAssert, Begins
<1>9. CASE ResetRelease
  <2>1. ~clean' /\ ~Begins
      BY <1>9, WholeNotReset DEF ResetRelease, FrontInv, history, Begins
  <2> QED
      BY <1>b, <2>1
<1>10. CASE UNCHANGED <<vars, observed>>
  <2>1. UNCHANGED <<win, sent, clean, fresh, instRegs, resetRegs, sr_inst_sht, observed>>
      BY <1>10 DEF vars, history, spiRegs, pins
  <2> QED
      BY <2>1, TimeKept
<1> QED
    BY <1>1, <1>2, <1>3, <1>4, <1>5, <1>6, <1>7, <1>8, <1>9, <1>10 DEF ObservedNext

-----------------------------------------------------------------------------
(* What was counted                                                        *)

(* The frame and what was counted for it over a step that shows nothing.   *)
LEMMA CountsKept ==
    ASSUME Answered, PulseInTime, UNCHANGED <<sent, win, clean, pulses, width, doneAge>>
    PROVE  Answered' /\ PulseInTime'
BY DEF Answered, PulseInTime, Complete, Matches, InWindow, SentWord, Opcode, AddrOf, AddrLen,
       Settled, Latency

(* In time: the timing of the match, read off at the end of it.            *)
LEMMA EndInTime ==
    ASSUME ObsInv, TimeInv, Answered, Whole, doneAge = Settled
    PROVE  IF Matches THEN pulses = 1 /\ width = PlsTop ELSE pulses = 0
<1> USE Constants DEF ObsInv
<1>1. CASE Matches
  <2>1. doneAge >= 5 /\ Settled = 11 + PlsTop
      BY DEF Settled, Latency
  <2>2. sr_inst_chk = sr_inst_sht
      BY <2>1 DEF TimeInv, Arrives
  <2>3. Hit /\ Held
      BY <1>1, <2>2, MatchedHit
  <2>4. doneAge <= 5 + Reached
      BY <1>1, <2>1 DEF TimeInv
  <2>5. PlsTop + 6 <= Reached
      BY <2>1, <2>4, ReachedType
  <2> QED
      BY <1>1, <2>3, <2>5, ReachedEnd
<1>2. CASE ~Matches
    BY <1>2 DEF Answered, Whole, ObsType
<1> QED
    BY <1>1, <1>2

(* An edge within a frame.                                                 *)
LEMMA CountsEdge ==
    ASSUME InTimeInv, ObsInv', TimeInv', clean, clean',
           NEW cp, NEW sp, NEW cs, NEW ss, NEW ws, Edge160(cp, sp, cs, ss, ws),
           ObserveTick, ~Begins, win' = win, Complete => sent' = sent, fresh' = fresh
    PROVE  Answered' /\ PulseInTime'
<1> USE Constants DEF InTimeInv, ObsInv
<1>1. clean' /\ pulses' > 0 => Complete' /\ Matches'
  <2>1. CASE NoTrigger'
    <3>1. pulses' = pulses
        BY <2>1, SeesNone
    <3> QED
        BY <3>1 DEF Answered, Complete, Matches, InWindow, SentWord, Opcode, AddrOf, AddrLen
  <2>2. CASE ~NoTrigger'
    <3>1. PICK c \in Channels : TRG_PLS'[c] = 1
        BY <2>2 DEF NoTrigger
    <3>2. Complete /\ InWindow(SentWord, c, win)
        BY <3>1, UpAnswers
    <3> QED
        BY <3>2 DEF Complete, Matches, InWindow, SentWord, Opcode, AddrOf, AddrLen
  <2> QED
      BY <2>1, <2>2
<1>2. clean' /\ doneAge' > 0 => Complete'
    BY DEF ObserveTick, Answered, Complete
<1>3. ASSUME doneAge' = Settled' PROVE PulseInTime'
  <2>1. CASE ~fresh
    <3>1. (ObsInv /\ TimeInv /\ Answered /\ Whole /\ doneAge = Settled)'
        BY <1>1, <1>2, <1>3, <2>1 DEF Answered, Whole, Settled, Latency
    <3>2. (IF Matches THEN pulses = 1 /\ width = PlsTop ELSE pulses = 0)'
        BY <3>1, EndInTime, PTL
    <3> QED
        BY <3>2 DEF PulseInTime
  <2>2. CASE fresh
    <3>1. doneAge = Settled
        BY <1>3, <2>2 DEF ObserveTick, Settled, Latency
    <3>2. Complete
        BY <3>1 DEF Answered, Settled, Latency
    <3>3. Matches' = Matches
        BY <3>2 DEF Matches, InWindow, SentWord, Opcode, AddrOf, AddrLen
    <3>4. pulses' = pulses /\ width' = width
      <4>1. CASE NoTrigger'
          BY <4>1, SeesNone
      <4>2. CASE ~NoTrigger'
        <5>1. PICK c \in Channels : TRG_PLS'[c] = 1
            BY <4>2 DEF NoTrigger
        <5>2. UpStage /\ InWindow(SentWord, c, win)
            BY <5>1, UpMeans, UpAnswers
        <5>3. pulses = 1 /\ width = PlsTop
            BY <3>1, <5>2 DEF PulseInTime, Matches
        <5>4. sr_pls_cnt \in 0..PlsTop
            BY DEF TypeOK
        <5> QED
            BY <5>2, <5>3, <5>4 DEF UpStage, Unanswered
      <4> QED
          BY <4>1, <4>2
    <3> QED
        BY <3>1, <3>3, <3>4 DEF PulseInTime
  <2> QED
      BY <2>1, <2>2
<1> QED
    BY <1>1, <1>2, <1>3 DEF Answered, PulseInTime

(* What was answered in time stays so until the next frame is whole.       *)
LEMMA CountsStep ==
    ASSUME InTimeInv, ObsInv', TimeInv', [ObservedNext]_<<vars, observed>>
    PROVE  Answered' /\ PulseInTime'
<1> USE Constants DEF InTimeInv, ObsInv
<1>b. ASSUME ~clean' \/ (pulses' = 0 /\ doneAge' = 0) PROVE Answered' /\ PulseInTime'
  <2>1. Settled' # 0
      BY DEF Settled, Latency
  <2> QED
      BY <1>b, <2>1 DEF Answered, PulseInTime
<1>1. CASE Tick160 /\ ObserveTick
  <2>1. UNCHANGED <<sent, clean, fresh, win>> /\ ~Begins
      BY <1>1 DEF Tick160, history, pins, Begins
  <2>2. CASE clean
      BY <1>1, <2>1, <2>2, CountsEdge DEF Tick160
  <2> QED
      BY <1>b, <2>1, <2>2
<1>2. ASSUME NEW b \in Bit, SpiRise(b), ObserveOther PROVE Answered' /\ PulseInTime'
  <2>1. SendBit(b) /\ UNCHANGED <<win, RESET_N>>
      BY <1>2 DEF SpiRise, pins
  <2>2. CASE fresh
    <3>1. Begins
        BY <2>1, <2>2, BitKeeps DEF Begins
    <3> QED
        BY <1>2, <1>b, <3>1 DEF ObserveOther
  <2>3. CASE ~fresh
    <3>1. clean' = clean /\ UNCHANGED observed
        BY <1>2, <2>1, <2>3 DEF SendBit, TypeOK, ObserveOther, Begins
    <3>2. CASE Complete \/ ~clean
      <4>1. sent' = sent
          BY <2>1, <2>3, <3>2, BitKeeps
      <4> QED
          BY <2>1, <3>1, <4>1, CountsKept DEF observed
    <3>3. CASE ~Complete /\ clean
      <4>1. doneAge = 0 /\ pulses = 0
          BY <2>3, <3>3 DEF TimeInv, Answered, ObsType
      <4> QED
          BY <1>b, <3>1, <4>1 DEF observed
    <3> QED
        BY <3>2, <3>3
  <2> QED
      BY <2>2, <2>3
<1>3. ASSUME NEW b \in Bit, SpiRiseAtTick(b), ObserveTick PROVE Answered' /\ PulseInTime'
  <2>1. SendBit(b) /\ win' = win
      BY <1>3 DEF SpiRiseAtTick, pins
  <2>2. PICK n, w : Edge160(NextCount, NextShift(b), n, w, win)
      BY <1>3 DEF SpiRiseAtTick
  <2>3. CASE fresh
    <3>1. Begins
        BY <2>1, <2>3, BitKeeps DEF Begins
    <3> QED
        BY <1>3, <1>b, <3>1 DEF ObserveTick
  <2>4. CASE ~fresh /\ ~clean
      BY <1>b, <2>1, <2>4, BitKeeps
  <2>5. CASE ~fresh /\ clean
    <3>1. ~Begins /\ clean' /\ (Complete => sent' = sent) /\ fresh' = fresh
        BY <2>1, <2>5, BitKeeps DEF Begins, SendBit, TypeOK
    <3> QED
        BY <1>3, <2>1, <2>2, <2>5, <3>1, CountsEdge
  <2> QED
      BY <2>3, <2>4, <2>5
<1>4. CASE CsFall /\ ObserveOther
  <2>1. UNCHANGED <<sent, clean, win, RESET_N>> /\ fresh' = (RESET_N = 1)
      BY <1>4 DEF CsFall
  <2>2. fresh => fresh'
      BY <2>1, WholeNotReset DEF FrontInv
  <2>3. UNCHANGED observed
      BY <1>4, <2>1, <2>2 DEF ObserveOther, Begins
  <2> QED
      BY <2>1, <2>3, CountsKept DEF observed
<1>5. CASE CsRise /\ ObserveOther
    BY <1>5, CountsKept DEF CsRise, history, ObserveOther, Begins, observed
<1>6. ASSUME NEW r \in HostWrites, HostWrite(r) PROVE Answered' /\ PulseInTime'
    BY <1>b, <1>6, HostIsDone DEF HostWrite, history
<1>7. ASSUME NEW r \in HostWrites, HostWriteAtTick(r) PROVE Answered' /\ PulseInTime'
    BY <1>b, <1>7, HostIsDone DEF HostWriteAtTick, history
<1>8. CASE ResetAssert
    BY <1>b, <1>8 DEF ResetAssert
<1>9. CASE ResetRelease
    BY <1>9, <1>b, WholeNotReset DEF ResetRelease, FrontInv, history
<1>10. CASE UNCHANGED <<vars, observed>>
    BY <1>10, CountsKept DEF vars, history, pins, observed
<1> QED
    BY <1>1, <1>2, <1>3, <1>4, <1>5, <1>6, <1>7, <1>8, <1>9, <1>10 DEF ObservedNext

(* The invariant holds when the device is switched on.                     *)
LEMMA InTimeInit == Assumed /\ ObservedInit => InTimeInv
<1> SUFFICES ASSUME Assumed, ObservedInit PROVE InTimeInv
    OBVIOUS
<1>1. ~clean
    BY DEF ObservedInit, Init
<1> QED
    BY <1>1, ObsInit DEF InTimeInv, TimeInv, Whole, Answered, PulseInTime

(* Every step keeps the invariant.                                         *)
LEMMA InTimeStep == InTimeInv /\ [ObservedNext]_<<vars, observed>> => InTimeInv'
<1> SUFFICES ASSUME InTimeInv, [ObservedNext]_<<vars, observed>> PROVE InTimeInv'
    OBVIOUS
<1>1. ObsInv'
    BY ObsStep DEF InTimeInv
<1>2. TimeInv'
    BY <1>1, TimeStep
<1>3. Answered' /\ PulseInTime'
    BY <1>1, <1>2, CountsStep
<1> QED
    BY <1>1, <1>2, <1>3 DEF InTimeInv

(* If the bus stays quiet long enough after an instruction, the detector   *)
(* has answered it with exactly one pulse, PlsTop clocks wide, when it is  *)
(* a watched command inside its window, and with nothing otherwise.        *)
THEOREM PulseInTimeAlways == Assumed /\ ObservedSpec => []PulseInTime
<1>1. InTimeInv => PulseInTime
    BY DEF InTimeInv
<1> QED
    BY <1>1, InTimeInit, InTimeStep, PTL DEF ObservedSpec
=============================================================================
